--------------------------- MODULE Reconciliation ---------------------------
(***************************************************************************)
(* The ledger and the statements that reconcile it.  An entry is a         *)
(* transaction of one account or a transfer between two; a statement of an *)
(* account clears entries of it and, once the difference is zero, is       *)
(* completed for ever.                                                     *)
(*                                                                         *)
(* Every write is one transaction and the database runs one at a time, so  *)
(* it is one step.  Two requests read before they reserve the writer:      *)
(* adding a transfer and updating a transaction.  They are a step that     *)
(* checks and a later one that writes, with anything in between.           *)
(***************************************************************************)
EXTENDS Integers, FiniteSets, Functions

CONSTANTS
  Accounts,        \* the accounts of a user
  MainAccount,     \* the one that cannot be deactivated
  Opening,         \* [Accounts -> their configured opening balances]
  Transactions,    \* ids of transactions
  Transfers,       \* ids of transfers
  Amounts,         \* amounts of entries
  Statements,      \* ids of statements
  Balances,        \* closing balances an owner may type
  Clients,         \* requests that may be under way at once
  LastDay          \* bound: the last business day

ASSUME MainAssumption == MainAccount \in Accounts
ASSUME OpeningAssumption == Opening \in [Accounts -> Int]
ASSUME IdAssumption == Transactions # {} /\ Transactions \cap Transfers = {}
ASSUME AmountAssumption == Amounts \subseteq Nat \ {0} /\ Balances \subseteq Int
ASSUME DayAssumption == LastDay \in Nat

VARIABLES
  today,           \* the business day
  active,          \* [Accounts -> BOOLEAN]
  entry,           \* transactions and transfers: [Entries -> Entry]
  statement,       \* reconciliations: [Statements -> Statement]
  cleared,         \* reconciliation_entries: pairs <<statement, entry>>
  request          \* [Clients -> what it has checked and will write]

vars == <<today, active, entry, statement, cleared, request>>

-----------------------------------------------------------------------------
(* Data.  effect is the view reconciliation_ledger of an entry: its signed *)
(* amount on each account, zero on the accounts it does not touch.         *)

Entries == Transactions \cup Transfers
Days == 0..LastDay
Nowhere == [a \in Accounts |-> 0]
On(a, m) == [Nowhere EXCEPT ![a] = m]
Between(from, to, m) == [Nowhere EXCEPT ![from] = -m, ![to] = m]
Signed == Amounts \cup {-m : m \in Amounts}

Entry == [state : {"none", "live", "deleted"}, day : Days, effect : [Accounts -> Int]]
Statement == [state : {"none", "draft", "completed"}, account : Accounts, day : Days,
              opening : Int, closing : Int]
Request == [op : {"none", "transfer", "update"}, entry : Entries, day : Days,
            effect : [Accounts -> Int]]

NoEntry == [state |-> "none", day |-> 0, effect |-> Nowhere]
NoStatement == [state |-> "none", account |-> MainAccount, day |-> 0,
                opening |-> 0, closing |-> 0]
NoRequest == [op |-> "none", entry |-> CHOOSE e \in Entries : TRUE, day |-> 0,
              effect |-> Nowhere]

Live(e) == entry[e].state = "live"
Exists(r) == statement[r].state # "none"
Account(r) == statement[r].account
Of(a) == {r \in Statements : Exists(r) /\ Account(r) = a}
ClearedBy(r) == {e \in Entries : <<r, e>> \in cleared}

TypeOK ==
  /\ today \in Days
  /\ active \in [Accounts -> BOOLEAN]
  /\ entry \in [Entries -> Entry]
  /\ statement \in [Statements -> Statement]
  /\ cleared \subseteq Statements \X Entries
  /\ request \in [Clients -> Request]

-----------------------------------------------------------------------------
(* The ledger.  A cleared entry is locked: triggers refuse to update or    *)
(* delete its row, whatever the request checked before.                    *)

LockedByCompleted(e) ==              \* variant: a draft does not lock
  \E r \in Statements : <<r, e>> \in cleared /\ statement[r].state = "completed"
Locked(e) == \E r \in Statements : <<r, e>> \in cleared

Elsewhere == UNCHANGED <<today, active, statement, cleared>>
Put(e, day, effect) ==
  entry' = [entry EXCEPT ![e] = [state |-> "live", day |-> day, effect |-> effect]]

(* One write transaction from the check to the insert, by the API, a CSV   *)
(* import or a recurring schedule.                                         *)
AddTransaction(t, a, m, day) ==
  /\ entry[t].state = "none" /\ active[a] /\ day <= today
  /\ Put(t, day, On(a, m))
  /\ UNCHANGED request /\ Elsewhere

(* The accounts are checked before the writer is reserved.                 *)
CheckTransfer(c, from, to, m, day) ==
  /\ request[c] = NoRequest
  /\ day <= today /\ from # to /\ active[from] /\ active[to]
  /\ request' = [request EXCEPT ![c] =
       [NoRequest EXCEPT !.op = "transfer", !.day = day, !.effect = Between(from, to, m)]]
  /\ UNCHANGED entry /\ Elsewhere

WriteTransfer(c, x) ==
  /\ request[c].op = "transfer"
  /\ entry[x].state = "none"
  /\ Put(x, request[c].day, request[c].effect)
  /\ request' = [request EXCEPT ![c] = NoRequest]
  /\ Elsewhere

(* The transaction is read, and its new account checked unless it stays,   *)
(* before the writer is reserved.                                          *)
CheckUpdate(c, t, a, m, day) ==
  /\ request[c] = NoRequest
  /\ Live(t) /\ day <= today
  /\ active[a] \/ entry[t].effect[a] # 0
  /\ request' = [request EXCEPT ![c] =
       [op |-> "update", entry |-> t, day |-> day, effect |-> On(a, m)]]
  /\ UNCHANGED entry /\ Elsewhere

(* WHERE deleted_at IS NULL: a row deleted meanwhile is left alone, and a  *)
(* locked one refused; the request ends either way.                        *)
WriteUpdate(c) ==
  LET q == request[c] IN
  /\ q.op = "update"
  /\ \/ Live(q.entry) /\ ~Locked(q.entry) /\ Put(q.entry, q.day, q.effect)
     \/ (~Live(q.entry) \/ Locked(q.entry)) /\ UNCHANGED entry
  /\ request' = [request EXCEPT ![c] = NoRequest]
  /\ Elsewhere

DeleteTransaction(t) ==
  /\ Live(t) /\ ~Locked(t)
  /\ entry' = [entry EXCEPT ![t].state = "deleted"]
  /\ UNCHANGED request /\ Elsewhere

RestoreTransaction(t) ==
  /\ entry[t].state = "deleted" /\ ~Locked(t) /\ entry[t].day <= today
  /\ \A a \in Accounts : entry[t].effect[a] # 0 => active[a]
  /\ entry' = [entry EXCEPT ![t].state = "live"]
  /\ UNCHANGED request /\ Elsewhere

(* The row of a transfer goes; its name here may stand for another one.    *)
DeleteTransfer(x) ==
  /\ Live(x) /\ ~Locked(x)
  /\ entry' = [entry EXCEPT ![x] = NoEntry]
  /\ UNCHANGED request /\ Elsewhere

(* An account with active schedules is refused as well: Recurring has those. *)
DeactivateAccount(a) ==
  /\ a # MainAccount /\ active[a]
  /\ active' = [active EXCEPT ![a] = FALSE]
  /\ UNCHANGED <<today, entry, statement, cleared, request>>

NextDay ==
  /\ today < LastDay
  /\ today' = today + 1
  /\ UNCHANGED <<active, entry, statement, cleared, request>>

-----------------------------------------------------------------------------
(* The statements.                                                         *)

StatementsOnly == UNCHANGED <<today, active, entry, request>>

Latest(p, a) == p \in Of(a) /\ \A r \in Of(a) \ {p} : statement[r].day < statement[p].day
HasDraft(a) == \E r \in Of(a) : statement[r].state = "draft"

(* The balance a statement of account a closing on that day opens with.    *)
OpensAlways(a, day, opening) ==      \* variant: the configured opening balance
  (\A p \in Of(a) : statement[p].day < day) /\ opening = Opening[a]
OpensWith(a, day, opening) ==
  \/ Of(a) = {} /\ opening = Opening[a]
  \/ \E p \in Of(a) : /\ Latest(p, a) /\ statement[p].day < day
                      /\ opening = statement[p].closing

Create(r, a, day, opening, closing) ==
  /\ statement[r] = NoStatement /\ day <= today /\ active[a]
  /\ ~HasDraft(a) /\ OpensWith(a, day, opening)
  /\ statement' = [statement EXCEPT ![r] =
       [state |-> "draft", account |-> a, day |-> day,
        opening |-> opening, closing |-> closing]]
  /\ UNCHANGED cleared /\ StatementsOnly

(* ELIGIBLE, for a draft: on the account, not after the closing date, and  *)
(* cleared by no other statement of the account.                           *)
EligibleAgain(r, e) ==               \* variant: other statements not consulted
  /\ Live(e) /\ entry[e].effect[Account(r)] # 0
  /\ entry[e].day <= statement[r].day
Eligible(r, e) ==
  /\ Live(e) /\ entry[e].effect[Account(r)] # 0
  /\ entry[e].day <= statement[r].day
  /\ \A q \in Of(Account(r)) \ {r} : <<q, e>> \notin cleared

Editable(r) == statement[r].state = "draft" /\ active[Account(r)]

Clear(r, e) ==
  /\ Editable(r) /\ Eligible(r, e)
  /\ cleared' = cleared \cup {<<r, e>>}
  /\ UNCHANGED statement /\ StatementsOnly

Unclear(r, e) ==
  /\ Editable(r) /\ Eligible(r, e)
  /\ cleared' = cleared \ {<<r, e>>}
  /\ UNCHANGED statement /\ StatementsOnly

Total(f) == FoldFunction(+, 0, f)
ClearedAmounts(r) == [e \in ClearedBy(r) |-> entry[e].effect[Account(r)]]
BalancedUpward(r) ==                 \* variant: a positive difference will do
  statement[r].closing >= statement[r].opening + Total(ClearedAmounts(r))
Balanced(r) == statement[r].closing = statement[r].opening + Total(ClearedAmounts(r))

Complete(r) ==
  /\ Editable(r) /\ Balanced(r)
  /\ statement' = [statement EXCEPT ![r].state = "completed"]
  /\ UNCHANGED cleared /\ StatementsOnly

CancellableAny(r) == Exists(r)       \* variant: a completed statement as well
Cancellable(r) == statement[r].state = "draft"

DiscardedInPlace(r) ==               \* variant: kept, with a status of its own
  [statement[r] EXCEPT !.state = "cancelled"]
Discarded(r) == NoStatement          \* the row is deleted

Cancel(r) ==
  /\ Cancellable(r)
  /\ cleared' = cleared \ ({r} \X Entries)
  /\ statement' = [statement EXCEPT ![r] = Discarded(r)]
  /\ StatementsOnly

-----------------------------------------------------------------------------
Init ==
  /\ today = 0
  /\ active = [a \in Accounts |-> TRUE]
  /\ entry = [e \in Entries |-> NoEntry]
  /\ statement = [r \in Statements |-> NoStatement]
  /\ cleared = {}
  /\ request = [c \in Clients |-> NoRequest]

LedgerNext ==
  \/ \E t \in Transactions, a \in Accounts, m \in Signed, day \in Days :
       AddTransaction(t, a, m, day)
  \/ \E c \in Clients :
       \/ \E from, to \in Accounts, m \in Amounts, day \in Days :
            CheckTransfer(c, from, to, m, day)
       \/ \E x \in Transfers : WriteTransfer(c, x)
       \/ \E t \in Transactions, a \in Accounts, m \in Signed, day \in Days :
            CheckUpdate(c, t, a, m, day)
       \/ WriteUpdate(c)
  \/ \E t \in Transactions : DeleteTransaction(t) \/ RestoreTransaction(t)
  \/ \E x \in Transfers : DeleteTransfer(x)
  \/ \E a \in Accounts : DeactivateAccount(a)

StatementNext ==
  \E r \in Statements :
    \/ \E a \in Accounts, day \in Days, closing \in Balances :
         \E opening \in {Opening[a]} \cup {statement[p].closing : p \in Statements} :
           Create(r, a, day, opening, closing)
    \/ \E e \in Entries : Clear(r, e) \/ Unclear(r, e)
    \/ Complete(r) \/ Cancel(r)

Next == LedgerNext \/ StatementNext \/ NextDay

Spec == Init /\ [][Next]_vars

-----------------------------------------------------------------------------
(* Properties                                                              *)

(* A completed statement balances, to the cent, with the ledger as it is   *)
(* now and not only as it was on completion: no request, however old its   *)
(* checks, reaches an entry behind it (the lock triggers and complete).    *)
CompletedBalanced ==
  \A r \in Statements : statement[r].state = "completed" =>
    statement[r].closing = statement[r].opening + Total(ClearedAmounts(r))

(* What a statement has cleared, draft or completed, is on the ledger of   *)
(* its account by its closing date, and no other statement of the account  *)
(* has cleared it (clear against update, delete and other statements).     *)
ClearedIsEvidence ==
  \A r \in Statements : \A e \in ClearedBy(r) :
    /\ Exists(r)
    /\ Live(e) /\ entry[e].effect[Account(r)] # 0 /\ entry[e].day <= statement[r].day
    /\ \A q \in Statements \ {r} : <<q, e>> \in cleared => Account(q) # Account(r)

(* The statements of an account form one chain by date: each opens with    *)
(* the closing balance of the one before, the first with the account's,    *)
(* and only the last may be a draft (create, complete and cancel).         *)
Follows(r, p) == /\ statement[p].day < statement[r].day
                 /\ statement[p].state = "completed"
                 /\ statement[r].opening = statement[p].closing
EarlierThan(r) == {p \in Of(Account(r)) : statement[p].day < statement[r].day}
OneDraftLast == \A a \in Accounts : \A r, p \in Of(a) :
                  p # r /\ statement[r].state = "draft" => statement[p].day < statement[r].day
Chained(r) ==
  \/ EarlierThan(r) = {} /\ statement[r].opening = Opening[Account(r)]
  \/ \E p \in EarlierThan(r) :
       /\ Follows(r, p)
       /\ \A q \in EarlierThan(r) \ {p} : statement[q].day < statement[p].day
StatementsChain == OneDraftLast /\ \A r \in Statements : Exists(r) => Chained(r)

(* Together they are inductive, and what the proofs rest on.               *)
ReconciliationInv ==
  TypeOK /\ CompletedBalanced /\ ClearedIsEvidence /\ StatementsChain

(* Completion is final: the statement, what it cleared and the entries it  *)
(* cleared never change again.                                             *)
CompletedIsFinal ==
  [][\A r \in Statements : statement[r].state = "completed" =>
       /\ statement'[r] = statement[r]
       /\ ClearedBy(r)' = ClearedBy(r)
       /\ \A e \in ClearedBy(r) : entry'[e] = entry[e]]_vars

(* Statements settle the accounts as the book promises: the balance an     *)
(* account carries forward is its opening balance and all that was settled *)
(* on it, each entry once.                                                 *)
Settled(a) == {e \in Entries : \E r \in Of(a) :
                 statement[r].state = "completed" /\ <<r, e>> \in cleared}
Completed(a) == {r \in Of(a) : statement[r].state = "completed"}
CarriedForward(a) ==
  IF Completed(a) = {} THEN Opening[a]
  ELSE statement[CHOOSE r \in Completed(a) :
         \A p \in Completed(a) : statement[p].day <= statement[r].day].closing

Book == INSTANCE AccountBook WITH
  effect <- [e \in Entries |-> IF Live(e) THEN entry[e].effect ELSE Nowhere],
  settled <- [a \in Accounts |-> Settled(a)],
  balance <- [a \in Accounts |-> CarriedForward(a)]
ImplementsBook == Book!BookSpec
============================================================================
