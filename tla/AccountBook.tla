---------------------------- MODULE AccountBook ----------------------------
(***************************************************************************)
(* What saved statements promise the owner of the accounts: a book that is *)
(* settled, one statement at a time, from the opening balance on.  An      *)
(* entry settles at most once on each account it is on, what is settled    *)
(* never changes again, and the balance carried forward is always the sum  *)
(* of what was settled.                                                    *)
(***************************************************************************)
EXTENDS Integers, Functions

CONSTANTS Accounts, Entries, Opening

VARIABLES effect,    \* [Entries -> [Accounts -> cents]], zero where it is not
          settled,   \* [Accounts -> the entries settled on it]
          balance    \* [Accounts -> cents carried forward]

bookVars == <<effect, settled, balance>>

Total(f) == FoldFunction(+, 0, f)

BookInit ==
  /\ effect = [e \in Entries |-> [a \in Accounts |-> 0]]
  /\ settled = [a \in Accounts |-> {}]
  /\ balance = Opening

(* One statement of account a completed with the new entries S.            *)
Settle(a, S) ==
  /\ S \cap settled[a] = {}
  /\ settled' = [settled EXCEPT ![a] = @ \cup S]
  /\ balance' = [balance EXCEPT ![a] = @ + Total([e \in S |-> effect[e][a]])]
  /\ \A e \in S : effect[e][a] # 0
  /\ UNCHANGED effect

(* An entry that is settled nowhere is recorded, changed or deleted.       *)
Edit(e) ==
  /\ \A a \in Accounts : e \notin settled[a]
  /\ effect' \in [Entries -> [Accounts -> Int]]
  /\ \A d \in Entries \ {e} : effect'[d] = effect[d]
  /\ UNCHANGED <<settled, balance>>

BookNext ==
  \/ \E a \in Accounts, S \in SUBSET Entries : Settle(a, S)
  \/ \E e \in Entries : Edit(e)

BookSpec == BookInit /\ [][BookNext]_bookVars
============================================================================
