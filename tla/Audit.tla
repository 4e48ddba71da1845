------------------------------- MODULE Audit -------------------------------
(***************************************************************************)
(* The history of transactions, which triggers write in the transaction    *)
(* of the change they tell of: rows inserted alone or by the batch (an     *)
(* import, a recurring pass), updated after a check that may be old,       *)
(* deleted for the time being and restored, while statements lock them.    *)
(***************************************************************************)
EXTENDS Naturals, Sequences

CONSTANTS
  Transactions,      \* ids of transactions
  Contents,          \* date, type, category, amount and description of one
  Accounts,
  Requests,          \* updates that may be under way at once
  Absent,            \* no such row
  MaxHistory         \* bound: events of one transaction

ASSUME AuditAssumption == /\ MaxHistory \in Nat
                          /\ Absent \notin [content : Contents, account : Accounts, deleted : BOOLEAN]

VARIABLES
  row,         \* the committed table: [Transactions -> Row or Absent]
  history,     \* transaction_audit by transaction: [Transactions -> Seq(Event)]
  draft,       \* both tables as the open transaction sees them, if there is one
  open,        \* whether a transaction is open
  cleared,     \* the transactions a statement has cleared
  active,      \* the accounts that are active
  request      \* an update between its check and its write

vars == <<row, history, draft, open, cleared, active, request>>

-----------------------------------------------------------------------------
Row == [content : Contents, account : Accounts, deleted : BOOLEAN]
Event == [action : {"created", "updated", "deleted", "restored"},
          before : Row \cup {Absent}, after : Row]
Tables == [row : [Transactions -> Row \cup {Absent}],
           history : [Transactions -> Seq(Event)]]
NoRequest == [stage |-> "none"]
Request == [stage : {"checked"}, of : Transactions, content : Contents, account : Accounts]

TypeOK ==
  /\ row \in [Transactions -> Row \cup {Absent}]
  /\ history \in [Transactions -> Seq(Event)]
  /\ draft \in Tables /\ open \in BOOLEAN
  /\ cleared \in SUBSET Transactions /\ active \in SUBSET Accounts
  /\ request \in [Requests -> Request \cup {NoRequest}]

NoTables == [row |-> [t \in Transactions |-> Absent], history |-> [t \in Transactions |-> <<>>]]
Committed == [row |-> row, history |-> history]
Exists(t) == row[t] # Absent
Live(t) == Exists(t) /\ ~row[t].deleted

-----------------------------------------------------------------------------
(* The triggers                                                            *)

ChangedContent(old, new) == old.content # new.content \/ old.deleted # new.deleted
                                            \* variant: the account is not compared
Changed(old, new) == old # new

Action(old, new) ==
  CASE old = Absent -> "created"
    [] old # Absent /\ ~old.deleted /\ new.deleted -> "deleted"
    [] old # Absent /\ old.deleted /\ ~new.deleted -> "restored"
    [] OTHER -> "updated"

SnapshotSwapped(old, new) ==                \* variant: the states are mixed up
  [action |-> Action(old, new), before |-> old,
   after |-> IF old = Absent THEN new ELSE old]
Snapshot(old, new) == [action |-> Action(old, new), before |-> old, after |-> new]

(* What a transaction's history is after its row went from old to new.     *)
Recorded(h, old, new) ==
  IF old = Absent \/ Changed(old, new) THEN Append(h, Snapshot(old, new)) ELSE h
Room(h) == Len(h) < MaxHistory

(* One statement on the row of t, with its triggers, outside a transaction *)
(* of more: a cleared row is not changed by any.                           *)
Put(t, new) ==
  /\ t \notin cleared /\ Room(history[t])
  /\ row' = [row EXCEPT ![t] = new]
  /\ history' = [history EXCEPT ![t] = Recorded(history[t], row[t], new)]

-----------------------------------------------------------------------------
(* Transactions that insert any number of rows (add, commit of an import,  *)
(* process_due), and commit or roll back all of it.                        *)

WriterIgnored == TRUE                       \* variant: nobody waits for the writer
WriterFree == ~open

Begin ==
  /\ ~open
  /\ open' = TRUE /\ draft' = Committed
  /\ UNCHANGED <<row, history, cleared, active, request>>

Insert(t, c, a) ==
  LET new == [content |-> c, account |-> a, deleted |-> FALSE] IN
  /\ open /\ draft.row[t] = Absent /\ a \in active
  /\ draft' = [row |-> [draft.row EXCEPT ![t] = new],
               history |-> [draft.history EXCEPT ![t] = Recorded(draft.history[t], Absent, new)]]
  /\ UNCHANGED <<row, history, open, cleared, active, request>>

Commit ==
  /\ open
  /\ row' = draft.row /\ history' = draft.history /\ open' = FALSE
  /\ draft' = NoTables
  /\ UNCHANGED <<cleared, active, request>>

RolledBackRows ==                           \* variant: the history stays
  /\ history' = draft.history /\ UNCHANGED row
RolledBack == UNCHANGED <<row, history>>
Rollback ==
  /\ open
  /\ RolledBack /\ open' = FALSE
  /\ draft' = NoTables
  /\ UNCHANGED <<cleared, active, request>>

-----------------------------------------------------------------------------
(* Changes of one row                                                      *)

(* Without an account in the payload the row keeps the one it had when it  *)
(* was read.                                                               *)
CheckUpdate(q, t, c, a) ==
  /\ request[q] = NoRequest
  /\ Live(t) /\ a \in active \cup {row[t].account}
  /\ request' = [request EXCEPT ![q] = [stage |-> "checked", of |-> t, content |-> c, account |-> a]]
  /\ UNCHANGED <<row, history, draft, open, cleared, active>>

UpdatableIfExists(t) == Exists(t) /\ t \notin cleared   \* variant: deleted or not
Updatable(t) == Live(t) /\ t \notin cleared
WriteUpdate(q) ==
  LET r == request[q] IN
  /\ r # NoRequest /\ WriterFree
  /\ IF Updatable(r.of)
     THEN Put(r.of, [row[r.of] EXCEPT !.content = r.content, !.account = r.account])
     ELSE UNCHANGED <<row, history>>
  /\ request' = [request EXCEPT ![q] = NoRequest]
  /\ UNCHANGED <<draft, open, cleared, active>>

Delete(t) ==
  /\ WriterFree /\ Live(t)
  /\ Put(t, [row[t] EXCEPT !.deleted = TRUE])
  /\ UNCHANGED <<draft, open, cleared, active, request>>

Restore(t) ==
  /\ WriterFree /\ Exists(t) /\ ~Live(t) /\ row[t].account \in active
  /\ Put(t, [row[t] EXCEPT !.deleted = FALSE])
  /\ UNCHANGED <<draft, open, cleared, active, request>>

Clear(t) ==
  /\ WriterFree /\ Live(t)
  /\ cleared' = cleared \cup {t}
  /\ UNCHANGED <<row, history, draft, open, active, request>>
Unclear(t) ==
  /\ WriterFree /\ t \in cleared
  /\ cleared' = cleared \ {t}
  /\ UNCHANGED <<row, history, draft, open, active, request>>
Deactivate(a) ==
  /\ WriterFree /\ a \in active
  /\ active' = active \ {a}
  /\ UNCHANGED <<row, history, draft, open, cleared, request>>

Init ==
  /\ row = [t \in Transactions |-> Absent]
  /\ history = [t \in Transactions |-> <<>>]
  /\ draft = NoTables /\ open = FALSE
  /\ cleared = {} /\ active = Accounts
  /\ request = [q \in Requests |-> NoRequest]

Next ==
  \/ Begin \/ Commit \/ Rollback
  \/ \E t \in Transactions :
       \/ \E c \in Contents, a \in Accounts : \/ Insert(t, c, a)
                                              \/ \E q \in Requests : CheckUpdate(q, t, c, a)
       \/ Delete(t) \/ Restore(t) \/ Clear(t) \/ Unclear(t)
  \/ \E q \in Requests : WriteUpdate(q)
  \/ \E a \in Accounts : Deactivate(a)

Spec == Init /\ [][Next]_vars

-----------------------------------------------------------------------------
(* Properties                                                              *)

Tells(h, r) == IF r = Absent THEN h = <<>> ELSE h # <<>> /\ h[Len(h)].after = r

(* The history of every row ends with the row as it is, and a row that was *)
(* rolled back has none: no change goes untold, whichever way it was made, *)
(* and nothing is told that did not happen (finance_audit_write).          *)
HistoryTellsRow == \A t \in Transactions : Tells(history[t], row[t])

Chained(h) == \A i \in 1..Len(h) :
  h[i].before = IF i = 1 THEN Absent ELSE h[i - 1].after

(* Each event starts where the one before it ended, and the first with     *)
(* nothing: the row at any time can be read off (finance_audit_write).     *)
HistoryIsAChain == \A t \in Transactions : Chained(history[t])

Deletes(e) == e.after.deleted
(* Deletions and restorations take turns, whatever overtakes them: none is *)
(* told twice, and an update never brings a deleted row back (restore,     *)
(* delete, update).                                                        *)
DeletionsAlternate ==
  \A t \in Transactions : \A i \in 1..Len(history[t]) :
    LET e == history[t][i] IN
    /\ e.action = "restored" <=> (i > 1 /\ Deletes(history[t][i - 1]))
    /\ e.action = "deleted" <=> Deletes(e)

Extends(h, g) == Len(h) <= Len(g) /\ \A i \in 1..Len(h) : g[i] = h[i]
(* What was told stays told, and stays as it was (finance_audit_guard).    *)
HistoryGrows == [][\A t \in Transactions : Extends(history[t], history'[t])]_vars

(* The history is true of the rows: it ends with what the row holds, each  *)
(* event begins with what the one before it left, deletions and            *)
(* restorations take turns, and no event is changed or taken back          *)
(* (record_transaction_audit).                                             *)
HistoryIsTrue ==
  [](HistoryTellsRow /\ HistoryIsAChain /\ DeletionsAlternate) /\ HistoryGrows
=============================================================================
