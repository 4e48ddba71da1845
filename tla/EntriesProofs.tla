-------------------------- MODULE EntriesProofs --------------------------
(***************************************************************************)
(* Five results on what goes into a book, each for any values of its       *)
(* constants:                                                              *)
(*  - the history of a transaction ends with its row, is a chain without a *)
(*    gap in which deletions and restorations take turns, and only grows:  *)
(*    both tables fit each other at every moment, in the committed state   *)
(*    and as the open transaction sees it, because whoever changes a row   *)
(*    writes what Recorded says of the change;                             *)
(*  - a CSV import takes no file's line twice and leaves nothing behind    *)
(*    when it fails, because what a pass inserts was fresh to the table    *)
(*    and to what it inserted before;                                      *)
(*  - a recurrence goes on to later days and leaves out none of its months *)
(*    or years, from a table of the days before each month;                *)
(*  - the desktop program posts no occurrence twice and acts on the entry  *)
(*    it lists, because what a file holds of a schedule is before the next *)
(*    date the same file has of it, in every copy of the file;             *)
(*  - what the pages show of any ledger adds up, because each answer of a  *)
(*    request is what its query tells for the day in which it began, and   *)
(*    the sets that the queries sum are parts of each other.               *)
(***************************************************************************)
EXTENDS MCEntries, Functions, SequenceTheorems, FiniteSetTheorems, TLAPS

-----------------------------------------------------------------------------
(* The inductive invariant.                                                *)

Alternates(h) ==
  \A i \in 1..Len(h) :
    /\ h[i].action = "restored" <=> (i > 1 /\ Deletes(h[i - 1]))
    /\ h[i].action = "deleted" <=> Deletes(h[i])

Fits(h, r) == Tells(h, r) /\ Chained(h) /\ Alternates(h)

(* What the open transaction sees fits, and goes on from what is committed.*)
DraftFits ==
  open => \A t \in Transactions : /\ Fits(draft.history[t], draft.row[t])
                                  /\ Extends(history[t], draft.history[t])
AllFit == \A t \in Transactions : Fits(history[t], row[t])
IInv == TypeOK /\ AllFit /\ DraftFits

(* A change the program makes: no row begins deleted, and none that is     *)
(* deleted is changed without being restored.                              *)
Orderly(old, new) ==
  /\ new \in Row
  /\ old \in Row \cup {Absent}
  /\ IF old = Absent THEN ~new.deleted ELSE ~(old.deleted /\ new.deleted)

-----------------------------------------------------------------------------
(* Facts about one history.                                                *)

(* Absent is no row.                                                       *)
LEMMA AbsentIsNoRow == Absent \notin Row
  BY AuditAssumption DEF AuditAssumption, Row

(* What a trigger records is an event.                                     *)
LEMMA SnapshotIsEvent ==
  ASSUME NEW old, NEW new, Orderly(old, new)
  PROVE Snapshot(old, new) \in Event
  BY DEF Snapshot, Event, Action, Orderly

(* The action of an orderly change says whether the row is deleted by it   *)
(* or was before it.                                                       *)
LEMMA ActionSays ==
  ASSUME NEW old, NEW new, Orderly(old, new)
  PROVE /\ Snapshot(old, new).action = "deleted" <=> new.deleted
        /\ Snapshot(old, new).action = "restored" <=> (old # Absent /\ old.deleted)
        /\ Snapshot(old, new).before = old
        /\ Snapshot(old, new).after = new
<1>1. new.deleted \in BOOLEAN /\ (old # Absent => old.deleted \in BOOLEAN)
  BY DEF Orderly, Row
<1>2. CASE old = Absent
  BY <1>1, <1>2 DEF Snapshot, Action, Orderly
<1>3. CASE old # Absent
  BY <1>1, <1>3 DEF Snapshot, Action, Orderly
<1> QED BY <1>2, <1>3

(* Recording an orderly change keeps a history that fits fitting, and only *)
(* adds to it.                                                             *)
LEMMA RecordedFits ==
  ASSUME NEW h \in Seq(Event), NEW old, NEW new, Orderly(old, new), Fits(h, old)
  PROVE /\ Recorded(h, old, new) \in Seq(Event)
        /\ Fits(Recorded(h, old, new), new)
        /\ Extends(h, Recorded(h, old, new))
<1> DEFINE e == Snapshot(old, new)
           g == Append(h, e)
<1>1. CASE old # Absent /\ ~Changed(old, new)
  <2>1. old = new /\ Recorded(h, old, new) = h
    BY <1>1 DEF Changed, Recorded
  <2> QED BY <2>1 DEF Extends
<1>2. CASE old = Absent \/ Changed(old, new)
  <2>1. Recorded(h, old, new) = g
    BY <1>2 DEF Recorded
  <2>2. e \in Event
    BY SnapshotIsEvent
  <2>3. /\ g \in Seq(Event) /\ Len(h) \in Nat /\ Len(g) = Len(h) + 1
        /\ g[Len(h) + 1] = e
        /\ \A i \in 1..Len(h) : g[i] = h[i]
    BY <2>2
  <2>4. /\ e.action = "deleted" <=> new.deleted
        /\ e.action = "restored" <=> (old # Absent /\ old.deleted)
        /\ e.before = old /\ e.after = new
    BY ActionSays
  <2> HIDE DEF e, g
  <2>5. Tells(g, new)
    <3>1. new # Absent
      BY AbsentIsNoRow DEF Orderly
    <3>2. g # <<>>
      BY <2>3
    <3> QED BY <2>3, <2>4, <3>1, <3>2 DEF Tells
  <2>6. old = Absent <=> Len(h) = 0
    BY <2>3 DEF Fits, Tells
  <2>7. Len(h) > 0 => h[Len(h)].after = old
    BY <2>6 DEF Fits, Tells
  <2>8. Chained(g)
    <3> SUFFICES ASSUME NEW i \in 1..Len(g)
                 PROVE g[i].before = IF i = 1 THEN Absent ELSE g[i - 1].after
      BY DEF Chained
    <3>1. CASE i = Len(h) + 1
      <4>1. CASE i = 1
        BY <2>3, <2>4, <2>6, <3>1, <4>1
      <4>2. CASE i # 1
        <5>1. Len(h) \in 1..Len(h) /\ i - 1 = Len(h) /\ Len(h) > 0
          BY <2>3, <3>1, <4>2
        <5>2. g[i - 1].after = old
          BY <2>3, <2>7, <5>1
        <5> QED BY <2>3, <2>4, <3>1, <4>2, <5>2
      <4> QED BY <4>1, <4>2
    <3>2. CASE i # Len(h) + 1
      <4>1. i \in 1..Len(h) /\ (i # 1 => i - 1 \in 1..Len(h))
        BY <2>3, <3>2
      <4>2. g[i] = h[i] /\ (i # 1 => g[i - 1] = h[i - 1])
        BY <2>3, <4>1
      <4> QED BY <4>1, <4>2 DEF Fits, Chained
    <3> QED BY <3>1, <3>2
  <2>9. Alternates(g)
    <3> SUFFICES ASSUME NEW i \in 1..Len(g)
                 PROVE /\ g[i].action = "restored" <=> (i > 1 /\ Deletes(g[i - 1]))
                       /\ g[i].action = "deleted" <=> Deletes(g[i])
      BY DEF Alternates
    <3>1. CASE i = Len(h) + 1
      <4>1. g[i] = e
        BY <2>3, <3>1
      <4>2. g[i].action = "deleted" <=> Deletes(g[i])
        BY <2>4, <4>1 DEF Deletes
      <4>3. CASE i = 1
        BY <2>3, <2>4, <2>6, <3>1, <4>1, <4>2, <4>3
      <4>4. CASE i # 1
        <5>1. Len(h) \in 1..Len(h) /\ i - 1 = Len(h) /\ Len(h) > 0 /\ i > 1
          BY <2>3, <3>1, <4>4
        <5>2. Deletes(g[i - 1]) <=> old.deleted
          BY <2>3, <2>7, <5>1 DEF Deletes
        <5> QED BY <2>4, <2>6, <4>1, <4>2, <5>1, <5>2
      <4> QED BY <4>3, <4>4
    <3>2. CASE i # Len(h) + 1
      <4>1. i \in 1..Len(h) /\ (i > 1 => i - 1 \in 1..Len(h))
        BY <2>3, <3>2
      <4>2. g[i] = h[i] /\ (i > 1 => g[i - 1] = h[i - 1])
        BY <2>3, <4>1
      <4> QED BY <4>1, <4>2 DEF Fits, Alternates
    <3> QED BY <3>1, <3>2
  <2>10. Extends(h, g)
    BY <2>3 DEF Extends
  <2> QED BY <2>1, <2>3, <2>5, <2>8, <2>9, <2>10 DEF Fits
<1> QED BY <1>1, <1>2

(* Going on from what goes on from h goes on from h.                       *)
LEMMA ExtendsTransitive ==
  ASSUME NEW f \in Seq(Event), NEW g \in Seq(Event), NEW h \in Seq(Event),
         Extends(f, g), Extends(g, h)
  PROVE Extends(f, h)
<1>1. Len(f) \in Nat /\ Len(g) \in Nat /\ Len(h) \in Nat
  OBVIOUS
<1> QED BY <1>1 DEF Extends

LEMMA ExtendsItself ==
  ASSUME NEW h \in Seq(Event)
  PROVE Extends(h, h)
<1>1. Len(h) \in Nat
  OBVIOUS
<1> QED BY <1>1 DEF Extends

(* A row that never was has a history that fits.                           *)
LEMMA NothingFits == Fits(<<>>, Absent)
  BY DEF Fits, Tells, Chained, Alternates

-----------------------------------------------------------------------------
(* The steps.                                                              *)

(* Everything that a quiet step leaves alone.                              *)
tables == <<row, history, draft, open>>
Grows == \A t \in Transactions : Extends(history[t], history'[t])

LEMMA NoTablesTyped == NoTables \in Tables
<1>1. <<>> \in Seq(Event)
  OBVIOUS
<1> QED BY <1>1 DEF NoTables, Tables

(* No row and no history fit each other at the start.                      *)
LEMMA InitInv == Init => IInv
<1> SUFFICES ASSUME Init PROVE IInv
  OBVIOUS
<1>1. <<>> \in Seq(Event)
  OBVIOUS
<1>2. TypeOK
  BY <1>1, NoTablesTyped DEF Init, TypeOK
<1>3. AllFit
  BY NothingFits DEF Init, AllFit
<1>4. DraftFits
  BY DEF Init, DraftFits
<1> QED BY <1>2, <1>3, <1>4 DEF IInv

(* A step that touches no table keeps what is said of them.                *)
LEMMA QuietKeeps ==
  ASSUME IInv, UNCHANGED tables
  PROVE AllFit' /\ DraftFits' /\ Grows
<1>1. AllFit' /\ DraftFits'
  BY DEF IInv, AllFit, DraftFits, tables
<1>2. Grows
  BY ExtendsItself DEF IInv, TypeOK, Grows, tables
<1> QED BY <1>1, <1>2

(* A statement on one row, when no other transaction is open.              *)
LEMMA PutKeeps ==
  ASSUME IInv, ~open, NEW t \in Transactions, NEW new, Orderly(row[t], new),
         Put(t, new), UNCHANGED <<draft, open>>
  PROVE /\ row' \in [Transactions -> Row \cup {Absent}]
        /\ history' \in [Transactions -> Seq(Event)]
        /\ AllFit' /\ DraftFits' /\ Grows
<1> DEFINE g == Recorded(history[t], row[t], new)
<1>1. /\ row \in [Transactions -> Row \cup {Absent}]
      /\ history \in [Transactions -> Seq(Event)]
      /\ Fits(history[t], row[t])
  BY DEF IInv, TypeOK, AllFit
<1>2. g \in Seq(Event) /\ Fits(g, new) /\ Extends(history[t], g)
  BY <1>1, RecordedFits
<1>3. row' = [row EXCEPT ![t] = new] /\ history' = [history EXCEPT ![t] = g]
  BY DEF Put
<1>4. new \in Row
  BY DEF Orderly
<1> HIDE DEF g
<1>5. row' \in [Transactions -> Row \cup {Absent}] /\ history' \in [Transactions -> Seq(Event)]
  BY <1>1, <1>2, <1>3, <1>4
<1>6. AllFit'
  <2> SUFFICES ASSUME NEW u \in Transactions PROVE Fits(history'[u], row'[u])
    BY DEF AllFit
  <2>1. CASE u = t
    BY <1>1, <1>2, <1>3, <2>1
  <2>2. CASE u # t
    <3>1. history'[u] = history[u] /\ row'[u] = row[u]
      BY <1>1, <1>3, <2>2
    <3> QED BY <3>1 DEF IInv, AllFit
  <2> QED BY <2>1, <2>2
<1>7. Grows
  <2> SUFFICES ASSUME NEW u \in Transactions PROVE Extends(history[u], history'[u])
    BY DEF Grows
  <2>1. CASE u = t
    BY <1>1, <1>2, <1>3, <2>1
  <2>2. CASE u # t
    <3>1. history'[u] = history[u] /\ history[u] \in Seq(Event)
      BY <1>1, <1>3, <2>2
    <3> QED BY <3>1, ExtendsItself
  <2> QED BY <2>1, <2>2
<1>8. DraftFits'
  BY DEF DraftFits
<1> QED BY <1>5, <1>6, <1>7, <1>8

(* What every step has to show.                                            *)
Kept == IInv' /\ Grows

LEMMA BeginKeeps == ASSUME IInv, Begin PROVE Kept
<1>1. draft' = Committed /\ UNCHANGED <<row, history, cleared, active, request>> /\ open' = TRUE
  BY DEF Begin
<1>2. TypeOK'
  BY <1>1 DEF IInv, TypeOK, Committed, Tables
<1>3. AllFit'
  BY <1>1 DEF IInv, AllFit
<1>4. DraftFits'
  <2> SUFFICES ASSUME NEW t \in Transactions
               PROVE /\ Fits(history[t], row[t])
                     /\ Extends(history[t], history[t])
    BY <1>1 DEF DraftFits, Committed
  <2> QED BY ExtendsItself DEF IInv, AllFit, TypeOK
<1>5. Grows
  BY <1>1, ExtendsItself DEF IInv, TypeOK, Grows
<1> QED BY <1>2, <1>3, <1>4, <1>5 DEF Kept, IInv

LEMMA InsertKeeps ==
  ASSUME IInv, NEW t \in Transactions, NEW c \in Contents, NEW a \in Accounts, Insert(t, c, a)
  PROVE Kept
<1> DEFINE new == [content |-> c, account |-> a, deleted |-> FALSE]
           g == Recorded(draft.history[t], Absent, new)
<1>1. /\ open /\ draft.row[t] = Absent
      /\ draft' = [row |-> [draft.row EXCEPT ![t] = new],
                   history |-> [draft.history EXCEPT ![t] = g]]
      /\ UNCHANGED <<row, history, open, cleared, active, request>>
  BY DEF Insert
<1>2. Orderly(Absent, new) /\ new \in Row
  BY DEF Orderly, Row
<1>3. /\ draft.row \in [Transactions -> Row \cup {Absent}]
      /\ draft.history \in [Transactions -> Seq(Event)]
  BY DEF IInv, TypeOK, Tables
<1>4. \A u \in Transactions : /\ Fits(draft.history[u], draft.row[u])
                              /\ Extends(history[u], draft.history[u])
  BY <1>1 DEF IInv, DraftFits
<1>5. g \in Seq(Event) /\ Fits(g, new) /\ Extends(draft.history[t], g)
  <2>1. Fits(draft.history[t], Absent) /\ draft.history[t] \in Seq(Event)
    BY <1>1, <1>3, <1>4
  <2> QED BY <1>2, <2>1, RecordedFits
<1> HIDE DEF new, g
<1>6. TypeOK'
  <2>1. draft' \in Tables
    BY <1>1, <1>2, <1>3, <1>5 DEF Tables
  <2> QED BY <1>1, <2>1 DEF IInv, TypeOK
<1>7. AllFit'
  BY <1>1 DEF IInv, AllFit
<1>8. DraftFits'
  <2> SUFFICES ASSUME NEW u \in Transactions
               PROVE /\ Fits(draft'.history[u], draft'.row[u])
                     /\ Extends(history[u], draft'.history[u])
    BY <1>1 DEF DraftFits
  <2>1. CASE u = t
    <3>1. draft'.history[u] = g /\ draft'.row[u] = new
      BY <1>1, <1>3, <2>1
    <3>2. Extends(history[u], g)
      <4>1. history[t] \in Seq(Event) /\ draft.history[t] \in Seq(Event)
        BY <1>3 DEF IInv, TypeOK
      <4>2. Extends(history[t], draft.history[t])
        BY <1>4
      <4> QED BY <1>5, <2>1, <4>1, <4>2, ExtendsTransitive
    <3> QED BY <1>5, <3>1, <3>2
  <2>2. CASE u # t
    <3>1. draft'.history[u] = draft.history[u] /\ draft'.row[u] = draft.row[u]
      BY <1>1, <1>3, <2>2
    <3> QED BY <1>4, <3>1
  <2> QED BY <2>1, <2>2
<1>9. Grows
  BY <1>1, ExtendsItself DEF IInv, TypeOK, Grows
<1> QED BY <1>6, <1>7, <1>8, <1>9 DEF Kept, IInv

LEMMA CommitKeeps == ASSUME IInv, Commit PROVE Kept
<1>1. /\ open /\ open' = FALSE /\ draft' = NoTables
      /\ row' = draft.row /\ history' = draft.history
      /\ UNCHANGED <<cleared, active, request>>
  BY DEF Commit
<1>2. TypeOK'
  BY <1>1, NoTablesTyped DEF IInv, TypeOK, Tables
<1>3. AllFit' /\ Grows
  BY <1>1 DEF IInv, DraftFits, AllFit, Grows
<1>4. DraftFits'
  BY <1>1 DEF DraftFits
<1> QED BY <1>2, <1>3, <1>4 DEF Kept, IInv

LEMMA RollbackKeeps == ASSUME IInv, Rollback PROVE Kept
<1>1. open' = FALSE /\ draft' = NoTables /\ UNCHANGED <<row, history, cleared, active, request>>
  BY DEF Rollback, RolledBack
<1>2. TypeOK'
  BY <1>1, NoTablesTyped DEF IInv, TypeOK
<1>3. AllFit' /\ DraftFits'
  BY <1>1 DEF IInv, AllFit, DraftFits
<1>4. Grows
  BY <1>1, ExtendsItself DEF IInv, TypeOK, Grows
<1> QED BY <1>2, <1>3, <1>4 DEF Kept, IInv

LEMMA CheckUpdateKeeps ==
  ASSUME IInv, NEW q \in Requests, NEW t \in Transactions, NEW c \in Contents,
         NEW a \in Accounts, CheckUpdate(q, t, c, a)
  PROVE Kept
<1>1. UNCHANGED tables
  BY DEF CheckUpdate, tables
<1>2. TypeOK'
  <2> DEFINE r == [stage |-> "checked", of |-> t, content |-> c, account |-> a]
  <2>1. r \in Request
    BY DEF Request
  <2>2. request' = [request EXCEPT ![q] = r] /\ UNCHANGED <<row, history, draft, open, cleared, active>>
    BY DEF CheckUpdate
  <2> HIDE DEF r
  <2> QED BY <2>1, <2>2 DEF IInv, TypeOK
<1> QED BY <1>1, <1>2, QuietKeeps DEF Kept, IInv

LEMMA WriteUpdateKeeps ==
  ASSUME IInv, NEW q \in Requests, WriteUpdate(q)
  PROVE Kept
<1> DEFINE r == request[q]
           new == [row[r.of] EXCEPT !.content = r.content, !.account = r.account]
<1>1. /\ r # NoRequest /\ ~open
      /\ IF Updatable(r.of) THEN Put(r.of, new) ELSE UNCHANGED <<row, history>>
      /\ request' = [request EXCEPT ![q] = NoRequest]
      /\ UNCHANGED <<draft, open, cleared, active>>
  BY DEF WriteUpdate, WriterFree
<1>2. r \in Request
  BY <1>1 DEF IInv, TypeOK
<1>3. request' \in [Requests -> Request \cup {NoRequest}]
  BY <1>1 DEF IInv, TypeOK
<1>4. CASE Updatable(r.of)
  <2>1. r.of \in Transactions /\ r.content \in Contents /\ r.account \in Accounts
    BY <1>2 DEF Request
  <2>2. row[r.of] \in Row /\ ~row[r.of].deleted
    BY <1>4, <2>1 DEF IInv, TypeOK, Updatable, Live, Exists
  <2>3. new \in Row /\ ~new.deleted
    BY <2>1, <2>2 DEF Row
  <2>4. Orderly(row[r.of], new)
    BY <2>2, <2>3, AbsentIsNoRow DEF Orderly
  <2>5. Put(r.of, new)
    BY <1>1, <1>4
  <2> HIDE DEF new, r
  <2>6. /\ row' \in [Transactions -> Row \cup {Absent}]
        /\ history' \in [Transactions -> Seq(Event)]
        /\ AllFit' /\ DraftFits' /\ Grows
    BY <1>1, <2>1, <2>4, <2>5, PutKeeps
  <2> QED BY <1>1, <1>3, <2>6 DEF Kept, IInv, TypeOK
<1>5. CASE ~Updatable(r.of)
  <2>1. UNCHANGED tables
    BY <1>1, <1>5 DEF tables
  <2>2. TypeOK'
    BY <1>1, <1>3, <1>5 DEF IInv, TypeOK
  <2> QED BY <2>1, <2>2, QuietKeeps DEF Kept, IInv
<1> QED BY <1>4, <1>5

LEMMA DeleteKeeps == ASSUME IInv, NEW t \in Transactions, Delete(t) PROVE Kept
<1> DEFINE new == [row[t] EXCEPT !.deleted = TRUE]
<1>1. ~open /\ Live(t) /\ Put(t, new) /\ UNCHANGED <<draft, open, cleared, active, request>>
  BY DEF Delete, WriterFree
<1>2. row[t] \in Row /\ ~row[t].deleted
  BY <1>1 DEF IInv, TypeOK, Live, Exists
<1>3. Orderly(row[t], new)
  BY <1>2, AbsentIsNoRow DEF Orderly, Row
<1> HIDE DEF new
<1>4. /\ row' \in [Transactions -> Row \cup {Absent}]
      /\ history' \in [Transactions -> Seq(Event)]
      /\ AllFit' /\ DraftFits' /\ Grows
  BY <1>1, <1>3, PutKeeps
<1> QED BY <1>1, <1>4 DEF Kept, IInv, TypeOK

LEMMA RestoreKeeps == ASSUME IInv, NEW t \in Transactions, Restore(t) PROVE Kept
<1> DEFINE new == [row[t] EXCEPT !.deleted = FALSE]
<1>1. ~open /\ Exists(t) /\ Put(t, new) /\ UNCHANGED <<draft, open, cleared, active, request>>
  BY DEF Restore, WriterFree
<1>2. row[t] \in Row
  BY <1>1 DEF IInv, TypeOK, Exists
<1>3. Orderly(row[t], new)
  BY <1>2, AbsentIsNoRow DEF Orderly, Row
<1> HIDE DEF new
<1>4. /\ row' \in [Transactions -> Row \cup {Absent}]
      /\ history' \in [Transactions -> Seq(Event)]
      /\ AllFit' /\ DraftFits' /\ Grows
  BY <1>1, <1>3, PutKeeps
<1> QED BY <1>1, <1>4 DEF Kept, IInv, TypeOK

(* Statements and accounts are changed without touching the tables.        *)
LEMMA OthersKeep ==
  ASSUME IInv, \/ \E t \in Transactions : Clear(t) \/ Unclear(t)
               \/ \E a \in Accounts : Deactivate(a)
               \/ UNCHANGED vars
  PROVE Kept
<1>1. UNCHANGED tables
  BY DEF Clear, Unclear, Deactivate, vars, tables
<1>2. TypeOK'
  BY DEF IInv, TypeOK, Clear, Unclear, Deactivate, vars
<1> QED BY <1>1, <1>2, QuietKeeps DEF Kept, IInv

-----------------------------------------------------------------------------
(* The theorems.                                                           *)

LEMMA StepKeeps == ASSUME IInv, [Next]_vars PROVE Kept
<1>1. ASSUME Begin PROVE Kept
  BY <1>1, BeginKeeps
<1>2. ASSUME Commit PROVE Kept
  BY <1>2, CommitKeeps
<1>3. ASSUME Rollback PROVE Kept
  BY <1>3, RollbackKeeps
<1>4. ASSUME NEW t \in Transactions, NEW c \in Contents, NEW a \in Accounts, Insert(t, c, a)
      PROVE Kept
  BY <1>4, InsertKeeps
<1>5. ASSUME NEW q \in Requests, NEW t \in Transactions, NEW c \in Contents, NEW a \in Accounts,
             CheckUpdate(q, t, c, a)
      PROVE Kept
  BY <1>5, CheckUpdateKeeps
<1>6. ASSUME NEW q \in Requests, WriteUpdate(q) PROVE Kept
  BY <1>6, WriteUpdateKeeps
<1>7. ASSUME NEW t \in Transactions, Delete(t) PROVE Kept
  BY <1>7, DeleteKeeps
<1>8. ASSUME NEW t \in Transactions, Restore(t) PROVE Kept
  BY <1>8, RestoreKeeps
<1>9. CASE \/ \E t \in Transactions : Clear(t) \/ Unclear(t)
           \/ \E a \in Accounts : Deactivate(a)
           \/ UNCHANGED vars
  BY <1>9, OthersKeep
<1> QED BY <1>1, <1>2, <1>3, <1>4, <1>5, <1>6, <1>7, <1>8, <1>9 DEF Next

(* The tables fit each other in every reachable state, whatever is open,   *)
(* old or rolled back.                                                     *)
THEOREM Invariance == Spec => []IInv
<1>1. IInv /\ [Next]_vars => IInv'
  BY StepKeeps DEF Kept
<1> QED BY InitInv, <1>1, PTL DEF Spec

(* Type correctness of the audit.                                          *)
THEOREM TypeCorrect == Spec => []TypeOK
<1>1. IInv => TypeOK
  BY DEF IInv
<1> QED BY Invariance, <1>1, PTL

(* Every history ends with its row (the triggers of                        *)
(* migrations_transaction_audit.py).                                       *)
THEOREM HistoryTellsTheRow == Spec => []HistoryTellsRow
<1>1. IInv => HistoryTellsRow
  BY DEF IInv, AllFit, Fits, HistoryTellsRow
<1> QED BY Invariance, <1>1, PTL

(* Every history is a chain from nothing, so that the row at any time can  *)
(* be read off it.                                                         *)
THEOREM HistoryChains == Spec => []HistoryIsAChain
<1>1. IInv => HistoryIsAChain
  BY DEF IInv, AllFit, Fits, HistoryIsAChain
<1> QED BY Invariance, <1>1, PTL

(* Deletions and restorations take turns in every history.                 *)
THEOREM TurnsAreTaken == Spec => []DeletionsAlternate
<1>1. IInv => DeletionsAlternate
  BY DEF IInv, AllFit, Fits, Alternates, DeletionsAlternate
<1> QED BY Invariance, <1>1, PTL

(* No event is ever taken back or changed (finance_audit_guard).           *)
THEOREM HistoryOnlyGrows == Spec => HistoryGrows
<1>1. IInv /\ [Next]_vars => [Grows]_vars
  BY StepKeeps DEF Kept
<1>2. [Grows]_vars => [\A t \in Transactions : Extends(history[t], history'[t])]_vars
  BY DEF Grows
<1> QED BY Invariance, <1>1, <1>2, PTL DEF Spec, HistoryGrows

(* The history is true of the rows, in all that its run checks.            *)
THEOREM HistoryHolds == Spec => HistoryIsTrue
BY HistoryTellsTheRow, HistoryChains, TurnsAreTaken, HistoryOnlyGrows, PTL DEF HistoryIsTrue

-----------------------------------------------------------------------------
(* The CSV import.  While a batch is posted, what is new in its draft is of that  *)
(* batch and unlike all that was there and all before it.                  *)
NewIn(l, n, i, b, w) ==
  /\ l[i].by = b
  /\ Folded[l[i].row] \in w.seen /\ Folded[l[i].row] \notin w.existing
  /\ Stored[l[i].row] \in w.inserted
  /\ \A j \in (n + 1)..(i - 1) :
       Folded[l[i].row] # Folded[l[j].row] /\ Folded[l[i].row] # Stored[l[j].row]
PostedOf(i, m) == NewIn(work.ledger, Len(ledger), i, call[m].batch, work)

AtWork ==
  work # Import!NoWork =>
    /\ call[work.of] # Import!NoCall /\ call[work.of].stage = "sent"
    /\ receipt[call[work.of].batch] = none
    /\ work.existing = Import!LiveKeys(ledger)
    /\ Len(work.ledger) = Len(ledger) + work.imported
    /\ \A i \in 1..Len(ledger) : work.ledger[i] = ledger[i]
    /\ \A i \in (Len(ledger) + 1)..Len(work.ledger) : PostedOf(i, work.of)

(* What an answer says is what the receipt says, and so is what was told.  *)
AnswersAreReceipts ==
  \A m \in Calls : call[m] # Import!NoCall /\ call[m].stage = "answered" =>
    /\ receipt[call[m].batch] # none
    /\ call[m].imported = receipt[call[m].batch].imported
ToldAreReceipts ==
  \A b \in Batches : told[b] # none => /\ receipt[b] # none
                                       /\ told[b] = receipt[b].imported

CsvInv ==
  /\ Import!TypeOK /\ AtWork /\ AnswersAreReceipts /\ ToldAreReceipts
  /\ Import!BatchPostedOnce

(* What is assumed of the constants.                                       *)
LEMMA ImportIs ==
  /\ Folded \in [Rows -> Keys] /\ Stored \in [Rows -> Keys]
  /\ AccountOf \in [Rows -> Holders] /\ Files \subseteq Seq(Rows)
  /\ none \notin Batches /\ none \notin Calls /\ none \notin Import!Receipt
BY ImportAssumption DEF Import!CsvAssumption, Import!NoneAssumption

(* A module's instance has the same sizes.                                 *)
LEMMA ImportCounts == \A S : Import!Cardinality(S) = Cardinality(S)
BY Zenon DEF Import!Cardinality, Cardinality

(* A call is of one of three forms.                                        *)
LEMMA CallIs ==
  ASSUME Import!TypeOK, NEW m \in Calls, call[m] # Import!NoCall
  PROVE /\ call[m] \in Import!Call /\ call[m].batch \in Batches
        /\ \/ /\ call[m].stage \in {"sent", "refused"} /\ call[m].rows \in Seq(Rows)
              /\ call[m] = [stage |-> call[m].stage, batch |-> call[m].batch, rows |-> call[m].rows]
           \/ call[m].stage = "answered" /\ call[m].imported \in Nat
<1>1. call[m] \in Import!Call
  BY DEF Import!TypeOK
<1> QED BY <1>1 DEF Import!Call

LEMMA WorkIs ==
  ASSUME Import!TypeOK, work # Import!NoWork
  PROVE /\ work \in Import!Work /\ work.of \in Calls /\ work.next \in Nat \ {0}
        /\ work.existing \in SUBSET Keys /\ work.seen \in SUBSET Keys
        /\ work.inserted \in SUBSET Keys /\ work.ledger \in Seq(Import!Entry)
        /\ work.imported \in Nat /\ work.of # none
<1>1. work \in Import!Work
  BY DEF Import!TypeOK
<1> QED BY <1>1, ImportIs DEF Import!Work

LEMMA NoWorkIs == Import!NoWork.of = none
BY DEF Import!NoWork

(* New values of a call are calls.                                         *)
LEMMA SentIsCall ==
  ASSUME NEW b \in Batches, NEW rows \in Seq(Rows)
  PROVE [stage |-> "sent", batch |-> b, rows |-> rows] \in Import!Call
BY DEF Import!Call
LEMMA AnsweredIsCall ==
  ASSUME NEW b \in Batches, NEW n \in Nat
  PROVE [stage |-> "answered", batch |-> b, imported |-> n] \in Import!Call
BY DEF Import!Call
LEMMA RefusedIs ==
  ASSUME Import!TypeOK, NEW m \in Calls, call[m] # Import!NoCall, call[m].stage = "sent"
  PROVE /\ Import!Refused(m) = [call EXCEPT ![m] =
                 [stage |-> "refused", batch |-> call[m].batch, rows |-> call[m].rows]]
        /\ [stage |-> "refused", batch |-> call[m].batch, rows |-> call[m].rows] \in Import!Call
<1>1. /\ call[m].rows \in Seq(Rows) /\ call[m].batch \in Batches
      /\ call[m] = [stage |-> call[m].stage, batch |-> call[m].batch, rows |-> call[m].rows]
  BY CallIs
<1> DEFINE c == [stage |-> "refused", batch |-> call[m].batch, rows |-> call[m].rows]
<1>2. [call[m] EXCEPT !.stage = "refused"] = c
  BY <1>1
<1>3. c \in Import!Call
  BY <1>1 DEF Import!Call
<1>4. Import!Refused(m) = [call EXCEPT ![m] = [call[m] EXCEPT !.stage = "refused"]]
  BY DEF Import!Refused
<1> QED BY <1>2, <1>3, <1>4

LEMMA CallsKept ==
  ASSUME Import!TypeOK, NEW m \in Calls, NEW c \in Import!Call \cup {Import!NoCall},
         call' = [call EXCEPT ![m] = c]
  PROVE /\ call' \in [Calls -> Import!Call \cup {Import!NoCall}]
        /\ call'[m] = c /\ \A n \in Calls \ {m} : call'[n] = call[n]
BY DEF Import!TypeOK

(* What is new in a draft stays so when more is.                           *)
LEMMA NewStays ==
  ASSUME NEW l, NEW l2, NEW n \in Nat, NEW i \in Int, i >= n + 1, NEW b, NEW w, NEW w2,
         \A j \in (n + 1)..i : l2[j] = l[j],
         w.seen \subseteq w2.seen, w.inserted \subseteq w2.inserted, w2.existing = w.existing,
         NewIn(l, n, i, b, w)
  PROVE NewIn(l2, n, i, b, w2)
<1>1. l2[i] = l[i] /\ \A j \in (n + 1)..(i - 1) : l2[j] = l[j]
  OBVIOUS
<1> QED BY <1>1 DEF NewIn

(* A draft is as it was if nothing that it depends on changed.             *)
LEMMA DraftRests ==
  ASSUME Import!TypeOK, AtWork, UNCHANGED <<ledger, receipt, work>>,
         work # Import!NoWork => call'[work.of] = call[work.of]
  PROVE AtWork'
<1> SUFFICES ASSUME work # Import!NoWork PROVE AtWork'
  BY DEF AtWork
<1>1. \A i : PostedOf(i, work.of)' <=> PostedOf(i, work.of)
  BY DEF PostedOf, NewIn
<1>2. Import!LiveKeys(ledger)' = Import!LiveKeys(ledger)
  BY DEF Import!LiveKeys
<1> QED BY <1>1, <1>2 DEF AtWork

LEMMA NoDraft == ASSUME work' = Import!NoWork PROVE AtWork'
BY DEF AtWork

LEMMA ReceiptsRest ==
  ASSUME ToldAreReceipts, Import!BatchPostedOnce, UNCHANGED <<ledger, receipt>>
  PROVE /\ Import!BatchPostedOnce'
        /\ UNCHANGED told => ToldAreReceipts'
<1>1. Import!BatchPostedOnce'
  BY DEF Import!BatchPostedOnce, Import!PostedBy
<1> QED BY <1>1 DEF ToldAreReceipts

(* One call becomes another, and receipts stay.                            *)
LEMMA AnswersRest ==
  ASSUME Import!TypeOK, AnswersAreReceipts, UNCHANGED receipt,
         NEW m \in Calls, \A n \in Calls \ {m} : call'[n] = call[n],
         call'[m] # Import!NoCall /\ call'[m].stage = "answered" =>
           /\ receipt[call'[m].batch] # none
           /\ call'[m].imported = receipt[call'[m].batch].imported
  PROVE AnswersAreReceipts'
<1> SUFFICES ASSUME NEW n \in Calls, call'[n] # Import!NoCall, call'[n].stage = "answered"
             PROVE /\ receipt[call'[n].batch] # none
                   /\ call'[n].imported = receipt[call'[n].batch].imported
  BY DEF AnswersAreReceipts
<1>1. CASE n = m
  BY <1>1
<1>2. CASE n # m
  BY <1>2 DEF AnswersAreReceipts
<1> QED BY <1>1, <1>2

-----------------------------------------------------------------------------
(* The dialog and the calls.                                               *)

(* A dialog may change as it likes.                                        *)
LEMMA DialogKeeps ==
  ASSUME CsvInv, dialog' \in [Dialogs -> Import!Dialog \cup {Import!Closed}],
         UNCHANGED <<ledger, receipt, listed, work, call, told, sends, edits>>
  PROVE CsvInv'
<1>1. Import!TypeOK'
  BY DEF CsvInv, Import!TypeOK
<1> QED BY <1>1, DraftRests, ReceiptsRest DEF CsvInv, AnswersAreReceipts

LEMMA PreviewKeeps ==
  ASSUME CsvInv, NEW d \in Dialogs, NEW b \in Batches, NEW f \in Files, Import!Preview(d, b, f)
  PROVE CsvInv'
<1>1. PICK at \in Import!InOrder(Import!Fresh(f)) :
        dialog' = [dialog EXCEPT ![d] =
                     [stage |-> "ready", batch |-> b, rows |-> Import!Picked(f, at)]]
  BY DEF Import!Preview
<1>2. f \in Seq(Rows) /\ Import!Fresh(f) \subseteq 1..Len(f)
  BY ImportIs DEF Import!Fresh
<1>3. Cardinality(Import!Fresh(f)) \in Nat
  <2>0. 1 \in Int /\ Len(f) \in Int
    BY <1>2
  <2>1. IsFiniteSet(1..Len(f))
    BY <2>0, FS_Interval
  <2>2. IsFiniteSet(Import!Fresh(f))
    BY <1>2, <2>1, FS_Subset
  <2> QED BY <2>2, FS_CardinalityType
<1>4. Import!Picked(f, at) \in Seq(Rows)
  <2>1. PICK n \in Nat : at \in [1..n -> Import!Fresh(f)]
    BY <1>3, ImportCounts DEF Import!InOrder
  <2>2. \A i \in 1..n : f[at[i]] \in Rows
    BY <1>2, <2>1
  <2>3. Import!Picked(f, at) = [i \in 1..n |-> f[at[i]]]
    BY <2>1 DEF Import!Picked
  <2> QED BY <2>2, <2>3
<1>5. [stage |-> "ready", batch |-> b, rows |-> Import!Picked(f, at)] \in Import!Dialog
  BY <1>4 DEF Import!Dialog
<1>6. UNCHANGED <<ledger, receipt, listed, work, call, told, sends, edits>>
  BY DEF Import!Preview
<1>7. dialog' \in [Dialogs -> Import!Dialog \cup {Import!Closed}]
  BY <1>1, <1>5 DEF CsvInv, Import!TypeOK
<1> QED BY <1>6, <1>7, DialogKeeps

LEMMA DialogIs ==
  ASSUME Import!TypeOK, NEW d \in Dialogs, dialog[d] # Import!Closed
  PROVE /\ dialog[d] \in Import!Dialog /\ dialog[d].batch \in Batches
        /\ dialog[d].rows \in Seq(Rows)
        /\ \A s \in {"ready", "importing"} : [dialog[d] EXCEPT !.stage = s] \in Import!Dialog
<1>1. dialog[d] \in Import!Dialog
  BY DEF Import!TypeOK
<1> QED BY <1>1 DEF Import!Dialog

(* A call that is sent is of no work yet.                                  *)
LEMMA SendKeeps ==
  ASSUME CsvInv, NEW m \in Calls, NEW b \in Batches, NEW rows \in Seq(Rows),
         call[m] = Import!NoCall, Import!Send(m, b, rows),
         dialog' \in [Dialogs -> Import!Dialog \cup {Import!Closed}],
         UNCHANGED <<ledger, receipt, listed, work, told, edits>>
  PROVE CsvInv'
<1> DEFINE c == [stage |-> "sent", batch |-> b, rows |-> rows]
<1>1. c \in Import!Call /\ c.stage # "answered"
  BY SentIsCall
<1> HIDE DEF c
<1>2. call' = [call EXCEPT ![m] = c] /\ sends' = sends + 1
  BY DEF Import!Send, c
<1>3. /\ call' \in [Calls -> Import!Call \cup {Import!NoCall}]
      /\ call'[m] = c /\ \A n \in Calls \ {m} : call'[n] = call[n]
  BY <1>1, <1>2, CallsKept DEF CsvInv
<1>4. Import!TypeOK'
  BY <1>2, <1>3 DEF CsvInv, Import!TypeOK
<1>5. work # Import!NoWork => call'[work.of] = call[work.of]
  BY <1>3, WorkIs DEF CsvInv, AtWork
<1>6. AtWork'
  BY <1>5, DraftRests DEF CsvInv
<1>7. AnswersAreReceipts'
  BY <1>1, <1>3, AnswersRest DEF CsvInv
<1> QED BY <1>4, <1>6, <1>7, ReceiptsRest DEF CsvInv

LEMMA ReceiveKeeps == ASSUME CsvInv, NEW m \in Calls, Import!Receive(m) PROVE CsvInv'
<1>1. /\ call[m] # Import!NoCall /\ call[m].stage \in {"answered", "refused"}
      /\ call' = [call EXCEPT ![m] = Import!NoCall]
      /\ UNCHANGED <<ledger, receipt, listed, work, sends, edits>>
  BY DEF Import!Receive
<1>2. /\ call' \in [Calls -> Import!Call \cup {Import!NoCall}]
      /\ call'[m] = Import!NoCall /\ \A n \in Calls \ {m} : call'[n] = call[n]
  BY <1>1, CallsKept DEF CsvInv
<1>3. dialog' \in [Dialogs -> Import!Dialog \cup {Import!Closed}]
  <2> DEFINE new(d) == IF ~Import!Waits(d, call[m].batch) THEN dialog[d]
                       ELSE IF call[m].stage = "answered" THEN Import!Closed
                       ELSE [dialog[d] EXCEPT !.stage = "ready"]
  <2>1. dialog' = [d \in Dialogs |-> new(d)]
    BY DEF Import!Receive
  <2>2. ASSUME NEW d \in Dialogs PROVE new(d) \in Import!Dialog \cup {Import!Closed}
    <3>1. CASE ~Import!Waits(d, call[m].batch)
      BY <3>1 DEF CsvInv, Import!TypeOK
    <3>2. CASE Import!Waits(d, call[m].batch)
      BY <3>2, DialogIs DEF CsvInv, Import!Waits
    <3> QED BY <3>1, <3>2
  <2> QED BY <2>1, <2>2
<1>4. ASSUME call[m].stage = "answered" PROVE told' \in [Batches -> Nat \cup {none}] /\ ToldAreReceipts'
  <2>1. told' = [told EXCEPT ![call[m].batch] = call[m].imported]
    BY <1>4 DEF Import!Receive
  <2>2. call[m].batch \in Batches /\ call[m].imported \in Nat
    BY <1>1, <1>4, CallIs DEF CsvInv
  <2>3. told' \in [Batches -> Nat \cup {none}]
    BY <2>1, <2>2 DEF CsvInv, Import!TypeOK
  <2>4. receipt[call[m].batch] # none /\ call[m].imported = receipt[call[m].batch].imported
    BY <1>1, <1>4 DEF CsvInv, AnswersAreReceipts
  <2>5. \A b \in Batches : told'[b] = IF b = call[m].batch THEN call[m].imported ELSE told[b]
    BY <2>1, <2>2 DEF CsvInv, Import!TypeOK
  <2>6. ToldAreReceipts'
    BY <1>1, <2>4, <2>5 DEF CsvInv, ToldAreReceipts
  <2> QED BY <2>3, <2>6
<1>5. ASSUME call[m].stage # "answered" PROVE told' \in [Batches -> Nat \cup {none}] /\ ToldAreReceipts'
  <2>1. UNCHANGED told
    BY <1>5 DEF Import!Receive
  <2> QED BY <1>1, <2>1, ReceiptsRest DEF CsvInv, Import!TypeOK
<1>6. told' \in [Batches -> Nat \cup {none}] /\ ToldAreReceipts'
  BY <1>4, <1>5
<1>7. Import!TypeOK'
  BY <1>1, <1>2, <1>3, <1>6 DEF CsvInv, Import!TypeOK
<1>8. work # Import!NoWork => call'[work.of] = call[work.of]
  BY <1>1, <1>2, WorkIs DEF CsvInv, AtWork
<1>9. AtWork'
  BY <1>1, <1>8, DraftRests DEF CsvInv
<1>10. AnswersAreReceipts'
  BY <1>1, <1>2, AnswersRest DEF CsvInv
<1> QED BY <1>1, <1>6, <1>7, <1>9, <1>10, ReceiptsRest DEF CsvInv

-----------------------------------------------------------------------------
(* The service.                                                            *)

LEMMA KeysAreKeys == ASSUME Import!TypeOK PROVE Import!LiveKeys(ledger) \in SUBSET Keys
<1>1. \A i \in 1..Len(ledger) : ledger[i] \in Import!Entry
  BY DEF Import!TypeOK
<1>2. \A i \in 1..Len(ledger) : Stored[ledger[i].row] \in Keys
  BY <1>1, ImportIs DEF Import!Entry
<1> QED BY <1>2 DEF Import!LiveKeys

LEMMA StartKeeps == ASSUME CsvInv, NEW m \in Calls, Import!Begin(m) PROVE CsvInv'
<1> DEFINE b == call[m].batch
<1>1. /\ call[m] # Import!NoCall /\ call[m].stage = "sent" /\ work = Import!NoWork
      /\ UNCHANGED <<ledger, receipt, listed, dialog, told, sends, edits>>
  BY DEF Import!Begin, Import!WriterFree
<1>2. b \in Batches /\ call[m].rows \in Seq(Rows) /\ Import!TypeOK
  BY <1>1, CallIs DEF CsvInv
<1>3. ToldAreReceipts' /\ Import!BatchPostedOnce'
  BY <1>1, ReceiptsRest DEF CsvInv
<1>4. CASE receipt[b] # none
  <2>1. UNCHANGED work /\ call' = IF Import!SameRows(m) THEN Import!Answered(m, receipt[b].imported)
                                  ELSE Import!Refused(m)
    BY <1>4 DEF Import!Begin, Import!HasReceipt
  <2>2. receipt[b] \in Import!Receipt /\ receipt[b].imported \in Nat
    BY <1>2, <1>4 DEF Import!TypeOK, Import!Receipt
  <2>3. PICK c \in Import!Call :
          /\ call' = [call EXCEPT ![m] = c]
          /\ c.stage = "answered" => c.batch = b /\ c.imported = receipt[b].imported
    <3>1. CASE Import!SameRows(m)
      BY <3>1, <2>1, <2>2, <1>2, AnsweredIsCall DEF Import!Answered
    <3>2. CASE ~Import!SameRows(m)
      BY <3>2, <2>1, <1>1, <1>2, RefusedIs
    <3> QED BY <3>1, <3>2
  <2>4. /\ call' \in [Calls -> Import!Call \cup {Import!NoCall}]
        /\ call'[m] = c /\ \A n \in Calls \ {m} : call'[n] = call[n]
    BY <2>3, <1>2, CallsKept
  <2>5. Import!TypeOK'
    BY <2>1, <2>4, <1>1, <1>2 DEF Import!TypeOK
  <2>6. AnswersAreReceipts'
    BY <2>3, <2>4, <1>1, <1>2, <1>4, AnswersRest DEF CsvInv
  <2> QED BY <2>1, <2>5, <2>6, <1>1, <1>3, NoDraft DEF CsvInv
<1>5. CASE receipt[b] = none
  <2> DEFINE w == [of |-> m, next |-> 1, existing |-> Import!LiveKeys(ledger), seen |-> {},
                   inserted |-> {}, ledger |-> ledger, imported |-> 0]
  <2>1. UNCHANGED call /\ work' = w
    BY <1>5 DEF Import!Begin, Import!HasReceipt
  <2>2. w \in Import!Work
    BY <1>2, KeysAreKeys DEF Import!Work, Import!TypeOK
  <2>3. Import!TypeOK'
    BY <2>1, <2>2, <1>1, <1>2 DEF Import!TypeOK
  <2>4. AnswersAreReceipts'
    BY <2>1, <1>1 DEF CsvInv, AnswersAreReceipts
  <2>5. /\ work'.of = m /\ work'.existing = Import!LiveKeys(ledger)' /\ work'.imported = 0
        /\ work'.ledger = ledger'
    BY <2>1, <1>1 DEF Import!LiveKeys
  <2>6. Len(ledger) \in Nat
    BY <1>2 DEF Import!TypeOK
  <2>7. AtWork'
    BY <2>1, <2>5, <2>6, <1>1, <1>5 DEF AtWork
  <2> QED BY <2>3, <2>4, <2>7, <1>3 DEF CsvInv
<1> QED BY <1>4, <1>5

(* What an open batch is of.                                               *)
LEMMA OfBatch ==
  ASSUME CsvInv, ~Import!WriterFree
  PROVE /\ work \in Import!Work /\ work.of \in Calls /\ work # Import!NoWork
        /\ call[work.of] # Import!NoCall /\ call[work.of].stage = "sent"
        /\ call[work.of].batch \in Batches /\ call[work.of].rows \in Seq(Rows)
        /\ receipt[call[work.of].batch] = none
<1>1. work # Import!NoWork /\ Import!TypeOK
  BY DEF Import!WriterFree, CsvInv
<1>2. work \in Import!Work /\ work.of \in Calls
  BY <1>1, WorkIs
<1>3. /\ call[work.of] # Import!NoCall /\ call[work.of].stage = "sent"
      /\ receipt[call[work.of].batch] = none
  BY <1>1 DEF CsvInv, AtWork
<1> QED BY <1>1, <1>2, <1>3, CallIs

LEMMA TakeRowKeeps == ASSUME CsvInv, Import!TakeRow PROVE CsvInv'
<1>0. PICK m : m = work.of
  OBVIOUS
<1> DEFINE r == call[m].rows[work.next]
           k == Folded[r]
           e == [row |-> r, live |-> TRUE, by |-> call[m].batch]
<1>1. /\ ~Import!WriterFree /\ work.next <= Len(call[m].rows)
      /\ UNCHANGED <<ledger, receipt, listed, call, dialog, told, sends, edits>>
  BY <1>0 DEF Import!TakeRow
<1>2. /\ work \in Import!Work /\ m \in Calls /\ work # Import!NoWork
      /\ call[m].batch \in Batches /\ call[m].rows \in Seq(Rows)
      /\ receipt[call[m].batch] = none /\ Import!TypeOK
  BY <1>0, <1>1, OfBatch DEF CsvInv
<1>3. /\ work.next \in Nat \ {0} /\ work.seen \in SUBSET Keys /\ work.inserted \in SUBSET Keys
      /\ work.ledger \in Seq(Import!Entry) /\ work.imported \in Nat /\ ledger \in Seq(Import!Entry)
  BY <1>2, WorkIs DEF Import!TypeOK
<1>4. work.next \in 1..Len(call[m].rows)
  BY <1>1, <1>2, <1>3
<1>5. r \in Rows /\ k \in Keys /\ Stored[r] \in Keys /\ e \in Import!Entry
  BY <1>2, <1>4, ImportIs DEF Import!Entry
<1>6. ToldAreReceipts' /\ Import!BatchPostedOnce' /\ AnswersAreReceipts'
  BY <1>1, ReceiptsRest DEF CsvInv, AnswersAreReceipts
<1>7. \/ /\ work' = [work EXCEPT !.next = @ + 1, !.seen = @ \cup {k}]
      \/ /\ ~Import!Duplicate(k)
         /\ work' = [work EXCEPT !.next = @ + 1, !.seen = @ \cup {k},
               !.inserted = @ \cup {Stored[r]}, !.imported = @ + 1, !.ledger = Append(@, e)]
  BY <1>0 DEF Import!TakeRow
<1>8. /\ work.existing = Import!LiveKeys(ledger) /\ Len(work.ledger) = Len(ledger) + work.imported
      /\ \A i \in 1..Len(ledger) : work.ledger[i] = ledger[i]
      /\ \A i \in (Len(ledger) + 1)..Len(work.ledger) : PostedOf(i, m)
      /\ call[m] # Import!NoCall /\ call[m].stage = "sent"
  BY <1>0, <1>2 DEF CsvInv, AtWork
<1>9. Import!LiveKeys(ledger)' = Import!LiveKeys(ledger)
  BY <1>1 DEF Import!LiveKeys
<1> HIDE DEF r, k, e
<1>10. CASE work' = [work EXCEPT !.next = @ + 1, !.seen = @ \cup {k}]
  <2>0. work.seen \cup {k} \in SUBSET Keys /\ work.next + 1 \in Nat \ {0}
    BY <1>3, <1>5
  <2>1. /\ work' \in Import!Work /\ work'.of = m /\ work'.existing = work.existing
        /\ work'.ledger = work.ledger /\ work'.imported = work.imported
        /\ work'.inserted = work.inserted /\ work'.seen = work.seen \cup {k}
    BY <1>0, <1>10, <1>2, <2>0 DEF Import!Work
  <2>2. Import!TypeOK'
    BY <2>1, <1>1, <1>2 DEF Import!TypeOK
  <2>3. \A i : PostedOf(i, m) => PostedOf(i, m)'
    BY <2>1, <1>1 DEF PostedOf, NewIn
  <2>4. AtWork'
    BY <2>1, <2>3, <1>1, <1>2, <1>8, <1>9 DEF AtWork
  <2> QED BY <2>2, <2>4, <1>6 DEF CsvInv
<1>11. CASE /\ ~Import!Duplicate(k)
            /\ work' = [work EXCEPT !.next = @ + 1, !.seen = @ \cup {k},
                  !.inserted = @ \cup {Stored[r]}, !.imported = @ + 1, !.ledger = Append(@, e)]
  <2>0. /\ work.seen \cup {k} \in SUBSET Keys /\ work.next + 1 \in Nat \ {0}
        /\ work.inserted \cup {Stored[r]} \in SUBSET Keys /\ work.imported + 1 \in Nat
        /\ Append(work.ledger, e) \in Seq(Import!Entry)
    BY <1>3, <1>5
  <2>1. /\ work' \in Import!Work /\ work'.of = m /\ work'.existing = work.existing
        /\ work'.ledger = Append(work.ledger, e) /\ work'.imported = work.imported + 1
        /\ work'.inserted = work.inserted \cup {Stored[r]} /\ work'.seen = work.seen \cup {k}
    BY <1>0, <1>11, <1>2, <2>0 DEF Import!Work
  <2>2. Import!TypeOK'
    BY <2>1, <1>1, <1>2 DEF Import!TypeOK
  <2>3. /\ Len(work'.ledger) = Len(work.ledger) + 1
        /\ \A i \in 1..Len(work.ledger) : work'.ledger[i] = work.ledger[i]
        /\ work'.ledger[Len(work.ledger) + 1] = e
    BY <2>1, <1>3, <1>5
  <2>4. Len(work.ledger) \in Nat /\ Len(ledger) \in Nat
    BY <1>3
  <2>5. ASSUME NEW i \in (Len(ledger) + 1)..Len(work.ledger) PROVE PostedOf(i, m)'
    <3>1. PostedOf(i, m)
      BY <1>8
    <3>2. \A j \in (Len(ledger) + 1)..i : work'.ledger[j] = work.ledger[j]
      BY <2>3, <2>4
    <3>3. i \in Int /\ i >= Len(ledger) + 1
      BY <2>4
    <3>4. /\ work.seen \subseteq work'.seen /\ work.inserted \subseteq work'.inserted
          /\ work'.existing = work.existing
      BY <2>1
    <3>5. NewIn(work'.ledger, Len(ledger), i, call[m].batch, work')
      BY <3>1, <3>2, <3>3, <3>4, <2>4, NewStays DEF PostedOf
    <3> QED BY <3>5, <1>1 DEF PostedOf
  <2>6. ASSUME NEW i, i = Len(work.ledger) + 1 PROVE PostedOf(i, m)'
    <3> DEFINE n == Len(work.ledger)
    <3>1. k \notin work.existing /\ k \notin work.seen /\ k \notin work.inserted
      BY <1>11 DEF Import!Duplicate
    <3>2. ASSUME NEW j \in (Len(ledger) + 1)..n
          PROVE k # Folded[work'.ledger[j].row] /\ k # Stored[work'.ledger[j].row]
      <4>1. PostedOf(j, m) /\ work'.ledger[j] = work.ledger[j]
        BY <1>8, <2>3, <2>4
      <4> QED BY <4>1, <3>1 DEF PostedOf, NewIn
    <3>3. e.row = r /\ e.by = call[m].batch /\ Folded[e.row] = k
      BY DEF e, k
    <3>4. (n + 1) - 1 = n /\ work'.ledger[n + 1] = e
      BY <2>3, <2>4
    <3>5. k \in work'.seen /\ Stored[r] \in work'.inserted /\ work'.existing = work.existing
      BY <2>1
    <3>6. NewIn(work'.ledger, Len(ledger), n + 1, call[m].batch, work')
      BY <3>1, <3>2, <3>3, <3>4, <3>5, Zenon DEF NewIn
    <3> QED BY <2>6, <3>6, <1>1 DEF PostedOf
  <2>7. ASSUME NEW i \in (Len(ledger) + 1)..Len(work'.ledger) PROVE PostedOf(i, m)'
    <3>1. i \in (Len(ledger) + 1)..Len(work.ledger) \/ i = Len(work.ledger) + 1
      BY <2>3, <2>4
    <3> QED BY <3>1, <2>5, <2>6
  <2>8. \A i \in 1..Len(ledger) : work'.ledger[i] = ledger[i]
    BY <2>3, <2>4, <1>3, <1>8
  <2>9. AtWork'
    BY <2>1, <2>3, <2>4, <2>7, <2>8, <1>1, <1>2, <1>3, <1>8, <1>9 DEF AtWork
  <2> QED BY <2>2, <2>9, <1>6 DEF CsvInv
<1> QED BY <1>7, <1>10, <1>11

LEMMA RefuseRowKeeps == ASSUME CsvInv, Import!RefuseRow PROVE CsvInv'
<1> DEFINE m == work.of
<1>1. /\ ~Import!WriterFree /\ work' = Import!NoWork /\ call' = Import!Refused(m)
      /\ UNCHANGED <<ledger, receipt, listed, dialog, told, sends, edits>>
  BY DEF Import!RefuseRow, Import!RolledBack
<1>2. m \in Calls /\ call[m] # Import!NoCall /\ call[m].stage = "sent" /\ Import!TypeOK
  BY <1>1, OfBatch DEF CsvInv
<1> HIDE DEF m
<1>3. PICK c \in Import!Call : call' = [call EXCEPT ![m] = c] /\ c.stage = "refused"
  BY <1>1, <1>2, RefusedIs
<1>4. /\ call' \in [Calls -> Import!Call \cup {Import!NoCall}]
      /\ call'[m] = c /\ \A n \in Calls \ {m} : call'[n] = call[n]
  BY <1>2, <1>3, CallsKept
<1>5. Import!TypeOK'
  BY <1>1, <1>2, <1>4 DEF Import!TypeOK
<1>6. AnswersAreReceipts'
  BY <1>1, <1>2, <1>3, <1>4, AnswersRest DEF CsvInv
<1> QED BY <1>1, <1>5, <1>6, ReceiptsRest, NoDraft DEF CsvInv

LEMMA FailKeeps == ASSUME CsvInv, NEW m \in Calls, Import!Fail(m) PROVE CsvInv'
<1>1. /\ call[m] # Import!NoCall /\ call' = [call EXCEPT ![m] = Import!NoCall]
      /\ UNCHANGED <<ledger, receipt, listed, dialog, told, sends, edits>>
      /\ work' = IF work.of = m THEN Import!NoWork ELSE work
  BY DEF Import!Fail, Import!RolledBack
<1>2. Import!TypeOK
  BY DEF CsvInv
<1>3. /\ call' \in [Calls -> Import!Call \cup {Import!NoCall}]
      /\ call'[m] = Import!NoCall /\ \A n \in Calls \ {m} : call'[n] = call[n]
  BY <1>1, <1>2, CallsKept
<1>4. Import!TypeOK'
  BY <1>1, <1>2, <1>3 DEF Import!TypeOK
<1>5. AnswersAreReceipts'
  BY <1>1, <1>2, <1>3, AnswersRest DEF CsvInv
<1>6. AtWork'
  <2>1. CASE work.of = m
    BY <2>1, <1>1, NoDraft
  <2>2. CASE work.of # m
    BY <2>2, <1>1, <1>2, <1>3, WorkIs, DraftRests DEF CsvInv
  <2> QED BY <2>1, <2>2
<1> QED BY <1>1, <1>4, <1>5, <1>6, ReceiptsRest DEF CsvInv

(* A range of new entries is as large as its length says.                  *)
LEMMA NewAre == ASSUME NEW n \in Nat, NEW k \in Nat
                PROVE Cardinality((n + 1)..(n + k)) = k
<1>1. n + 1 \in Int /\ n + k \in Int
  OBVIOUS
<1>2. Cardinality((n + 1)..(n + k)) = IF n + 1 > n + k THEN 0 ELSE (n + k) - (n + 1) + 1
  BY <1>1, FS_Interval
<1> QED BY <1>2

LEMMA PostKeeps == ASSUME CsvInv, Import!Commit PROVE CsvInv'
<1>0. PICK m : m = work.of
  OBVIOUS
<1>1. PICK b : b = call[m].batch
  OBVIOUS
<1> DEFINE n == Len(ledger)
           k == work.imported
           r == [rows |-> call[m].rows, imported |-> k]
<1>2. /\ ~Import!WriterFree /\ ledger' = work.ledger /\ receipt' = [receipt EXCEPT ![b] = r]
      /\ work' = Import!NoWork /\ call' = Import!Answered(m, k)
      /\ UNCHANGED <<listed, dialog, told, sends, edits>>
  BY <1>0, <1>1 DEF Import!Commit
<1>3. /\ work \in Import!Work /\ m \in Calls /\ work # Import!NoWork
      /\ call[m] # Import!NoCall /\ call[m].stage = "sent"
      /\ b \in Batches /\ call[m].rows \in Seq(Rows) /\ receipt[b] = none /\ Import!TypeOK
  BY <1>0, <1>1, <1>2, OfBatch DEF CsvInv
<1>4. work.ledger \in Seq(Import!Entry) /\ k \in Nat /\ ledger \in Seq(Import!Entry)
  BY <1>3, WorkIs DEF Import!TypeOK
<1>5. /\ Len(work.ledger) = n + k
      /\ \A i \in 1..n : work.ledger[i] = ledger[i]
      /\ \A i \in (n + 1)..Len(work.ledger) : work.ledger[i].by = b
  BY <1>0, <1>1, <1>3 DEF CsvInv, AtWork, PostedOf, NewIn
<1>6. r \in Import!Receipt /\ r # none /\ r.imported = k
  BY <1>3, <1>4, ImportIs DEF Import!Receipt
<1> HIDE DEF r
<1>7. \A c \in Batches : receipt'[c] = IF c = b THEN r ELSE receipt[c]
  BY <1>2, <1>3 DEF Import!TypeOK
<1> DEFINE a == [stage |-> "answered", batch |-> b, imported |-> k]
<1>8. a \in Import!Call /\ call' = [call EXCEPT ![m] = a]
  BY <1>1, <1>2, <1>3, <1>4, AnsweredIsCall DEF Import!Answered
<1>9. /\ call' \in [Calls -> Import!Call \cup {Import!NoCall}]
      /\ call'[m] = a /\ \A j \in Calls \ {m} : call'[j] = call[j]
  BY <1>3, <1>8, CallsKept
<1>10. Import!TypeOK'
  <2>1. receipt' \in [Batches -> Import!Receipt \cup {none}]
    BY <1>2, <1>3, <1>6 DEF Import!TypeOK
  <2> QED BY <2>1, <1>2, <1>3, <1>4, <1>9 DEF Import!TypeOK
<1>11. AnswersAreReceipts'
  <2> SUFFICES ASSUME NEW j \in Calls, call'[j] # Import!NoCall, call'[j].stage = "answered"
               PROVE /\ receipt'[call'[j].batch] # none
                     /\ call'[j].imported = receipt'[call'[j].batch].imported
    BY DEF AnswersAreReceipts
  <2>1. CASE j = m
    <3>1. call'[j].batch = b /\ call'[j].imported = k
      BY <2>1, <1>9
    <3> QED BY <3>1, <1>3, <1>6, <1>7
  <2>2. CASE j # m
    <3>1. call[j] # Import!NoCall /\ call[j].stage = "answered" /\ call'[j] = call[j]
      BY <2>2, <1>9
    <3>2. receipt[call[j].batch] # none /\ call[j].imported = receipt[call[j].batch].imported
      BY <3>1 DEF CsvInv, AnswersAreReceipts
    <3>3. call[j].batch \in Batches /\ call[j].batch # b
      BY <3>1, <3>2, <1>3, CallIs
    <3> QED BY <3>1, <3>2, <3>3, <1>7
  <2> QED BY <2>1, <2>2
<1>12. ToldAreReceipts'
  <2>1. ASSUME NEW c \in Batches, told'[c] # none
        PROVE receipt'[c] # none /\ told'[c] = receipt'[c].imported
    <3>1. told[c] # none /\ told'[c] = told[c]
      BY <2>1, <1>2
    <3>2. receipt[c] # none /\ told[c] = receipt[c].imported
      BY <3>1 DEF CsvInv, ToldAreReceipts
    <3>3. c # b
      BY <3>2, <1>3
    <3> QED BY <3>1, <3>2, <3>3, <1>7
  <2> QED BY <2>1 DEF ToldAreReceipts
<1>13. Import!BatchPostedOnce'
  <2>0. n \in Nat /\ n + k \in Nat
    BY <1>4
  <2>1. ASSUME NEW c \in Batches PROVE
          Import!PostedBy(c)' = Import!PostedBy(c) \cup IF c = b THEN (n + 1)..(n + k) ELSE {}
    <3>1. Import!PostedBy(c) = {i \in 1..n : ledger[i].by = c}
      BY DEF Import!PostedBy
    <3>2. Import!PostedBy(c)' = {i \in 1..(n + k) : work.ledger[i].by = c}
      BY <1>2, <1>5 DEF Import!PostedBy
    <3>3. \A i : i \in 1..(n + k) <=> i \in 1..n \/ i \in (n + 1)..(n + k)
      BY <2>0, <1>4
    <3>4. \A i \in 1..n : work.ledger[i].by = c <=> ledger[i].by = c
      BY <1>5
    <3>5. \A i \in (n + 1)..(n + k) : work.ledger[i].by = c <=> c = b
      BY <1>5
    <3> HIDE DEF n, k
    <3> QED BY <3>1, <3>2, <3>3, <3>4, <3>5
  <2>2. ASSUME NEW c \in Batches
        PROVE IF receipt'[c] = none THEN Import!PostedBy(c)' = {}
              ELSE Cardinality(Import!PostedBy(c)') = receipt'[c].imported
    <3>0. IF receipt[c] = none THEN Import!PostedBy(c) = {}
          ELSE Cardinality(Import!PostedBy(c)) = receipt[c].imported
      BY ImportCounts DEF CsvInv, Import!BatchPostedOnce
    <3>1. CASE c = b
      <4>1. Import!PostedBy(c)' = (n + 1)..(n + k)
        BY <3>0, <3>1, <2>1, <1>3
      <4>2. Cardinality(Import!PostedBy(c)') = k
        BY <4>1, <2>0, <1>4, NewAre
      <4> QED BY <4>2, <3>1, <1>6, <1>7
    <3>2. CASE c # b
      <4>1. Import!PostedBy(c)' = Import!PostedBy(c) /\ receipt'[c] = receipt[c]
        BY <3>2, <2>1, <1>7
      <4> QED BY <4>1, <3>0
    <3> QED BY <3>1, <3>2
  <2> QED BY <2>2, ImportCounts DEF Import!BatchPostedOnce
<1>14. AtWork'
  BY <1>2, NoDraft
<1> QED BY <1>10, <1>11, <1>12, <1>13, <1>14 DEF CsvInv

LEMMA ConfirmKeeps ==
  ASSUME CsvInv, NEW d \in Dialogs, NEW m \in Calls, Import!Confirm(d, m) PROVE CsvInv'
<1>1. /\ dialog[d] # Import!Closed /\ call[m] = Import!NoCall
      /\ Import!Send(m, dialog[d].batch, dialog[d].rows)
      /\ dialog' = [dialog EXCEPT ![d].stage = "importing"]
      /\ UNCHANGED <<ledger, receipt, listed, work, told, edits>>
  BY DEF Import!Confirm
<1>2. /\ dialog[d].batch \in Batches /\ dialog[d].rows \in Seq(Rows)
      /\ [dialog[d] EXCEPT !.stage = "importing"] \in Import!Dialog
  BY <1>1, DialogIs DEF CsvInv
<1>3. dialog' \in [Dialogs -> Import!Dialog \cup {Import!Closed}]
  BY <1>1, <1>2 DEF CsvInv, Import!TypeOK
<1> QED BY <1>1, <1>2, <1>3, SendKeeps

LEMMA EndsKeep ==
  ASSUME CsvInv, NEW d \in Dialogs, Import!LoseAnswer(d) \/ Import!Close(d) PROVE CsvInv'
<1>1. /\ dialog[d] # Import!Closed
      /\ \E c \in {[dialog[d] EXCEPT !.stage = "ready"], Import!Closed} :
           dialog' = [dialog EXCEPT ![d] = c]
      /\ UNCHANGED <<ledger, receipt, listed, work, call, told, sends, edits>>
  BY DEF Import!LoseAnswer, Import!Close
<1>2. [dialog[d] EXCEPT !.stage = "ready"] \in Import!Dialog
  BY <1>1, DialogIs DEF CsvInv
<1>3. dialog' \in [Dialogs -> Import!Dialog \cup {Import!Closed}]
  BY <1>1, <1>2 DEF CsvInv, Import!TypeOK
<1> QED BY <1>1, <1>3, DialogKeeps

LEMMA ScriptKeeps ==
  ASSUME CsvInv, NEW m \in Calls, NEW b \in Batches, NEW f \in Files, Import!Script(m, b, f)
  PROVE CsvInv'
<1>1. f \in Seq(Rows)
  BY ImportIs
<1>2. dialog' \in [Dialogs -> Import!Dialog \cup {Import!Closed}]
  BY DEF CsvInv, Import!TypeOK, Import!Script
<1> QED BY <1>1, <1>2, SendKeeps DEF Import!Script

-----------------------------------------------------------------------------
(* What else happens to the ledger, while no batch is open.                *)

LEMMA OwnerKeeps ==
  ASSUME CsvInv, work = Import!NoWork, ledger' \in Seq(Import!Entry), Len(ledger') >= Len(ledger),
         \A i \in 1..Len(ledger') : ledger'[i].by = IF i <= Len(ledger) THEN ledger[i].by ELSE none,
         listed' \in SUBSET Holders, edits' \in Nat,
         UNCHANGED <<receipt, work, call, dialog, told, sends>>
  PROVE CsvInv'
<1>1. Import!TypeOK'
  BY DEF CsvInv, Import!TypeOK
<1>2. \A b \in Batches : Import!PostedBy(b)' = Import!PostedBy(b)
  <2>0. Len(ledger) \in Nat /\ Len(ledger') \in Nat
    BY DEF CsvInv, Import!TypeOK
  <2> QED BY <2>0, ImportIs DEF Import!PostedBy
<1>3. Import!BatchPostedOnce'
  BY <1>2, ImportCounts DEF CsvInv, Import!BatchPostedOnce
<1> QED BY <1>1, <1>3, NoDraft DEF CsvInv, AnswersAreReceipts, ToldAreReceipts

LEMMA AddKeeps == ASSUME CsvInv, NEW r \in Rows, Import!Add(r) PROVE CsvInv'
<1> DEFINE e == [row |-> r, live |-> TRUE, by |-> none]
<1>1. /\ work = Import!NoWork /\ edits' = edits + 1 /\ ledger' = Append(ledger, e)
      /\ UNCHANGED <<receipt, listed, work, call, dialog, told, sends>>
  BY DEF Import!Add, Import!Edit, Import!WriterFree
<1>2. ledger \in Seq(Import!Entry) /\ edits \in Nat /\ listed \in SUBSET Holders
  BY DEF CsvInv, Import!TypeOK
<1>3. e \in Import!Entry /\ e.by = none
  BY DEF Import!Entry
<1> HIDE DEF e
<1>4. /\ ledger' \in Seq(Import!Entry) /\ Len(ledger') = Len(ledger) + 1
      /\ \A i \in 1..Len(ledger) : ledger'[i] = ledger[i]
      /\ ledger'[Len(ledger) + 1] = e /\ Len(ledger) \in Nat
  BY <1>1, <1>2, <1>3
<1>5. \A i \in 1..Len(ledger') : ledger'[i].by = IF i <= Len(ledger) THEN ledger[i].by ELSE none
  BY <1>3, <1>4
<1>6. Len(ledger') >= Len(ledger) /\ edits' \in Nat
  BY <1>1, <1>2, <1>4
<1> QED BY <1>1, <1>2, <1>4, <1>5, <1>6, OwnerKeeps

LEMMA FlagKeeps ==
  ASSUME CsvInv, NEW i \in 1..Len(ledger), Import!Delete(i) \/ Import!Restore(i) PROVE CsvInv'
<1>1. PICK f \in BOOLEAN : ledger' = [ledger EXCEPT ![i].live = f]
  BY DEF Import!Delete, Import!Restore
<1>2. /\ work = Import!NoWork /\ edits' = edits + 1
      /\ UNCHANGED <<receipt, listed, work, call, dialog, told, sends>>
  BY DEF Import!Delete, Import!Restore, Import!Edit, Import!WriterFree
<1>3. ledger \in Seq(Import!Entry) /\ edits \in Nat /\ listed \in SUBSET Holders
  BY DEF CsvInv, Import!TypeOK
<1>4. [ledger[i] EXCEPT !.live = f] \in Import!Entry /\ [ledger[i] EXCEPT !.live = f].by = ledger[i].by
  <2>1. ledger[i] \in Import!Entry
    BY <1>3
  <2> QED BY <2>1 DEF Import!Entry
<1> DEFINE e == [ledger[i] EXCEPT !.live = f]
<1> HIDE DEF e
<1>5. ledger' = [ledger EXCEPT ![i] = e]
  BY <1>1 DEF e
<1>6. e \in Import!Entry /\ e.by = ledger[i].by
  BY <1>4 DEF e
<1>7. /\ ledger' \in Seq(Import!Entry) /\ Len(ledger') = Len(ledger) /\ Len(ledger) \in Nat
      /\ \A j \in 1..Len(ledger) : ledger'[j] = IF j = i THEN e ELSE ledger[j]
  BY <1>3, <1>5, <1>6
<1>8. \A j \in 1..Len(ledger') : ledger'[j].by = IF j <= Len(ledger) THEN ledger[j].by ELSE none
  BY <1>6, <1>7
<1>9. Len(ledger') >= Len(ledger) /\ edits' \in Nat
  BY <1>2, <1>3, <1>7
<1> QED BY <1>2, <1>3, <1>7, <1>8, <1>9, OwnerKeeps

LEMMA DeactivateKeeps == ASSUME CsvInv, NEW a \in Holders, Import!Deactivate(a) PROVE CsvInv'
<1>1. /\ work = Import!NoWork /\ edits' = edits + 1 /\ listed' = listed \ {a}
      /\ UNCHANGED <<ledger, receipt, work, call, dialog, told, sends>>
  BY DEF Import!Deactivate, Import!Edit, Import!WriterFree
<1>2. /\ ledger \in Seq(Import!Entry) /\ edits \in Nat /\ listed \in SUBSET Holders
  BY DEF CsvInv, Import!TypeOK
<1>3. Len(ledger) \in Nat /\ edits' \in Nat /\ listed' \in SUBSET Holders
  BY <1>1, <1>2
<1> QED BY <1>1, <1>2, <1>3, OwnerKeeps

-----------------------------------------------------------------------------
LEMMA CsvBegins == ASSUME Import!Init PROVE CsvInv
<1>1. \A b \in Batches : receipt[b] = none /\ told[b] = none
  BY DEF Import!Init
<1>2. \A m \in Calls : call[m] = Import!NoCall
  BY DEF Import!Init
<1>3. Import!TypeOK
  <2>1. ledger \in Seq(Import!Entry) /\ Len(ledger) = 0
    BY DEF Import!Init
  <2> QED BY <2>1 DEF Import!Init, Import!TypeOK
<1>4. \A b \in Batches : Import!PostedBy(b) = {}
  BY DEF Import!Init, Import!PostedBy
<1> QED BY <1>1, <1>2, <1>3, <1>4
        DEF Import!Init, CsvInv, AtWork, AnswersAreReceipts, ToldAreReceipts, Import!BatchPostedOnce

LEMMA CsvGoesOn == ASSUME CsvInv, [Import!Next]_Import!vars PROVE CsvInv'
<1>1. CASE Import!Browser
  <2>1. ASSUME NEW d \in Dialogs, NEW b \in Batches, NEW f \in Files, Import!Preview(d, b, f)
        PROVE CsvInv'
    BY <2>1, PreviewKeeps
  <2>2. ASSUME NEW d \in Dialogs, NEW m \in Calls, Import!Confirm(d, m) PROVE CsvInv'
    BY <2>2, ConfirmKeeps
  <2>3. ASSUME NEW d \in Dialogs, Import!LoseAnswer(d) \/ Import!Close(d) PROVE CsvInv'
    BY <2>3, EndsKeep
  <2>4. ASSUME NEW m \in Calls, Import!Receive(m) PROVE CsvInv'
    BY <2>4, ReceiveKeeps
  <2>5. ASSUME NEW m \in Calls, NEW b \in Batches, NEW f \in Files, Import!Script(m, b, f)
        PROVE CsvInv'
    BY <2>5, ScriptKeeps
  <2> QED BY <1>1, <2>1, <2>2, <2>3, <2>4, <2>5 DEF Import!Browser
<1>2. CASE Import!Service
  BY <1>2, TakeRowKeeps, RefuseRowKeeps, PostKeeps, StartKeeps, FailKeeps DEF Import!Service
<1>3. CASE Import!Owner
  BY <1>3, AddKeeps, FlagKeeps, DeactivateKeeps DEF Import!Owner
<1>4. CASE UNCHANGED Import!vars
  <2>1. UNCHANGED <<ledger, receipt, listed, work, call, dialog, told, sends, edits>>
    BY <1>4 DEF Import!vars
  <2>2. dialog' \in [Dialogs -> Import!Dialog \cup {Import!Closed}]
    BY <2>1 DEF CsvInv, Import!TypeOK
  <2> QED BY <2>1, <2>2, DialogKeeps
<1> QED BY <1>1, <1>2, <1>3, <1>4 DEF Import!Next

(* Of a batch that has a receipt, and of no other, rows are posted, and as *)
(* many as it says, whoever sends it how often (csv_import_service).       *)
THEOREM ImportsInvariance == Import!Spec => []CsvInv
<1>1. Import!Init => CsvInv
  BY CsvBegins
<1>2. CsvInv /\ [Import!Next]_Import!vars => CsvInv'
  BY CsvGoesOn
<1> QED BY <1>1, <1>2, PTL DEF Import!Spec

(* What a step answers, it answers by a receipt of these rows.             *)
LEMMA AnswersSuit ==
  ASSUME CsvInv, [Import!Next]_Import!vars, NEW m \in Calls,
         call[m] # Import!NoCall, call'[m] # Import!NoCall,
         call[m].stage = "sent", call'[m].stage = "answered"
  PROVE receipt'[call[m].batch] # none /\ receipt'[call[m].batch].rows = call[m].rows
<1>0. Import!TypeOK /\ call'[m] # call[m] /\ call \in [Calls -> Import!Call \cup {Import!NoCall}]
      /\ call[m].batch \in Batches
  BY CallIs DEF CsvInv, Import!TypeOK
<1>1. ASSUME NEW n \in Calls, NEW c, call' = [call EXCEPT ![n] = c] PROVE m = n /\ call'[m] = c
  BY <1>0, <1>1
<1>2. ASSUME NEW n \in Calls, Import!Begin(n)
      PROVE receipt'[call[m].batch] # none /\ receipt'[call[m].batch].rows = call[m].rows
  <2>1. UNCHANGED receipt /\ call[n] # Import!NoCall /\ call[n].stage = "sent"
    BY <1>2 DEF Import!Begin
  <2>2. receipt[call[n].batch] # none
    BY <1>0, <1>2 DEF Import!Begin, Import!HasReceipt
  <2>3. CASE Import!SameRows(n)
    <3>1. call' = Import!Answered(n, receipt[call[n].batch].imported)
      BY <1>2, <2>2, <2>3 DEF Import!Begin, Import!HasReceipt
    <3>2. m = n
      BY <3>1, <1>1 DEF Import!Answered
    <3> QED BY <3>2, <2>1, <2>2, <2>3 DEF Import!SameRows
  <2>4. CASE ~Import!SameRows(n)
    <3>1. call' = Import!Refused(n)
      BY <1>2, <2>2, <2>4 DEF Import!Begin, Import!HasReceipt
    <3>2. PICK c : call' = [call EXCEPT ![n] = c] /\ c.stage = "refused"
      <4> DEFINE c == [stage |-> "refused", batch |-> call[n].batch, rows |-> call[n].rows]
      <4>1. Import!Refused(n) = [call EXCEPT ![n] = c]
        BY <2>1, <1>0, RefusedIs
      <4> QED BY <4>1, <3>1
    <3> QED BY <3>2, <1>1
  <2> QED BY <2>3, <2>4
<1>3. ASSUME Import!Commit
      PROVE receipt'[call[m].batch] # none /\ receipt'[call[m].batch].rows = call[m].rows
  <2>1. work.of \in Calls /\ work \in Import!Work /\ work.imported \in Nat
    BY <1>0, <1>3, OfBatch, WorkIs DEF Import!Commit
  <2>2. m = work.of
    BY <1>1, <1>3, <2>1 DEF Import!Commit, Import!Answered
  <2> DEFINE r == [rows |-> call[m].rows, imported |-> work.imported]
  <2>3. receipt' = [receipt EXCEPT ![call[m].batch] = r]
    BY <1>3, <2>2 DEF Import!Commit
  <2>4. call[m].rows \in Seq(Rows)
    BY <1>0, CallIs
  <2>5. r \in Import!Receipt
    BY <2>1, <2>4 DEF Import!Receipt
  <2>6. receipt'[call[m].batch] = r
    BY <1>0, <2>3 DEF Import!TypeOK
  <2> QED BY <2>5, <2>6, ImportIs
<1>4. ASSUME Import!RefuseRow PROVE FALSE
  <2>1. /\ work.of \in Calls /\ call[work.of] # Import!NoCall /\ call[work.of].stage = "sent"
        /\ call' = Import!Refused(work.of)
    BY <1>4, OfBatch DEF Import!RefuseRow
  <2>2. PICK c : call' = [call EXCEPT ![work.of] = c] /\ c.stage = "refused"
    <3> DEFINE c == [stage |-> "refused", batch |-> call[work.of].batch, rows |-> call[work.of].rows]
    <3>1. Import!Refused(work.of) = [call EXCEPT ![work.of] = c]
      BY <2>1, <1>0, RefusedIs
    <3> QED BY <3>1, <2>1
  <2> QED BY <2>1, <2>2, <1>1
<1>5. ASSUME NEW n \in Calls, NEW b, NEW rows, Import!Send(n, b, rows) PROVE FALSE
  BY <1>5, <1>1 DEF Import!Send
<1>6. ASSUME NEW n \in Calls, Import!Fail(n) \/ Import!Receive(n) PROVE FALSE
  <2>1. call' = [call EXCEPT ![n] = Import!NoCall]
    BY <1>6 DEF Import!Fail, Import!Receive
  <2> QED BY <2>1, <1>1
<1>7. CASE Import!Browser
  BY <1>0, <1>5, <1>6, <1>7
     DEF Import!Browser, Import!Preview, Import!Confirm, Import!LoseAnswer, Import!Close, Import!Script
<1>8. CASE Import!Service
  BY <1>0, <1>2, <1>3, <1>4, <1>6, <1>8 DEF Import!Service, Import!TakeRow
<1>9. CASE Import!Owner
  BY <1>0, <1>9 DEF Import!Owner, Import!Add, Import!Delete, Import!Restore, Import!Deactivate
<1> QED BY <1>0, <1>7, <1>8, <1>9 DEF Import!Next, Import!vars

(* For any rows, keys and files, however often a batch is sent, answered   *)
(* or not, or fails in its middle: what is posted of it is what its        *)
(* receipt says, whoever is told of an import finds it, and no answer is   *)
(* of other rows (commit).                                                 *)
THEOREM ImportsHold == Import!Spec => ImportsAreSafe
<1>1. CsvInv => Import!BatchPostedOnce /\ Import!ToldIsPosted
  BY DEF CsvInv, ToldAreReceipts, Import!BatchPostedOnce, Import!ToldIsPosted
<1>2. Import!Spec => [](Import!BatchPostedOnce /\ Import!ToldIsPosted)
  BY <1>1, ImportsInvariance, PTL
<1>3. CsvInv /\ [Import!Next]_Import!vars =>
        [\A m \in Calls : call[m] # Import!NoCall /\ call'[m] # Import!NoCall
            /\ call[m].stage = "sent" /\ call'[m].stage = "answered" =>
              receipt'[call[m].batch] # none /\ receipt'[call[m].batch].rows = call[m].rows]_Import!vars
  BY AnswersSuit
<1>4. Import!Spec => Import!AnswersAreOfTheseRows
  BY <1>3, ImportsInvariance, PTL DEF Import!Spec, Import!AnswersAreOfTheseRows
<1> QED BY <1>2, <1>4 DEF ImportsAreSafe

(* What a commit adds repeats nothing that lives or that it adds before.   *)
LEMMA NoneTwice ==
  ASSUME CsvInv, Import!Commit, NEW i \in DOMAIN ledger', i > Len(ledger), NEW j \in 1..(i - 1),
         ledger'[j].live
  PROVE ~Import!Repeats(i, j)'
<1>0. PICK b : b = call[work.of].batch
  OBVIOUS
<1> DEFINE n == Len(ledger)
<1>1. /\ work \in Import!Work /\ work # Import!NoWork /\ b \in Batches /\ receipt[b] = none
      /\ ledger' = work.ledger /\ Import!TypeOK
  BY <1>0, OfBatch DEF Import!Commit, CsvInv
<1>2. /\ work.existing = Import!LiveKeys(ledger) /\ Len(work.ledger) = n + work.imported
      /\ \A k \in 1..n : work.ledger[k] = ledger[k]
      /\ \A k \in (n + 1)..Len(work.ledger) : NewIn(work.ledger, n, k, b, work)
  BY <1>0, <1>1 DEF CsvInv, AtWork, PostedOf
<1>3. n \in Nat /\ work.ledger \in Seq(Import!Entry) /\ Len(work.ledger) \in Nat
  BY <1>1, WorkIs DEF Import!TypeOK
<1>4. i \in (n + 1)..Len(work.ledger)
  BY <1>1, <1>3
<1>5. NewIn(work.ledger, n, i, b, work)
  BY <1>2, <1>4
<1>6. CASE j > n
  <2>1. j \in (n + 1)..(i - 1)
    BY <1>6, <1>3, <1>4
  <2>2. /\ Folded[work.ledger[i].row] # Folded[work.ledger[j].row]
        /\ Folded[work.ledger[i].row] # Stored[work.ledger[j].row]
    BY <2>1, <1>5 DEF NewIn
  <2> QED BY <2>2, <1>1 DEF Import!Repeats, Import!Alike
<1>7. CASE ~(j > n)
  <2>1. j \in 1..n /\ work.ledger[j] = ledger[j] /\ ledger[j].live
    BY <1>1, <1>2, <1>3, <1>4, <1>7
  <2>2. Stored[ledger[j].row] \in Import!LiveKeys(ledger)
    BY <2>1 DEF Import!LiveKeys
  <2>3. Import!PostedBy(b) = {}
    BY <1>1 DEF CsvInv, Import!BatchPostedOnce
  <2>4. ledger[j].by # b
    BY <2>1, <2>3 DEF Import!PostedBy
  <2>5. Folded[work.ledger[i].row] \notin work.existing /\ work.ledger[i].by = b
    BY <1>5 DEF NewIn
  <2>6. Folded[work.ledger[i].row] # Stored[work.ledger[j].row] /\ work.ledger[j].by # work.ledger[i].by
    BY <2>1, <2>2, <2>4, <2>5, <1>2
  <2> QED BY <2>6, <1>1 DEF Import!Repeats, Import!Alike, Import!KeptAsFolded
<1> QED BY <1>6, <1>7

(* Only a commit adds entries of a batch.                                  *)
LEMMA OnlyCommitPosts ==
  ASSUME CsvInv, [Import!Next]_Import!vars, NEW i \in DOMAIN ledger', i > Len(ledger),
         ledger'[i].by # none
  PROVE Import!Commit
<1>1. ledger \in Seq(Import!Entry)
  BY DEF CsvInv, Import!TypeOK
<1>2. ASSUME UNCHANGED ledger PROVE FALSE
  BY <1>1, <1>2
<1>3. ASSUME NEW r \in Rows, Import!Add(r) PROVE FALSE
  <2> DEFINE e == [row |-> r, live |-> TRUE, by |-> none]
  <2>1. ledger' = Append(ledger, e) /\ e \in Import!Entry
    BY <1>3 DEF Import!Add, Import!Entry
  <2>2. e.by = none
    OBVIOUS
  <2> HIDE DEF e
  <2>3. i = Len(ledger) + 1 /\ ledger'[i] = e
    BY <1>1, <2>1
  <2> QED BY <2>2, <2>3
<1>4. ASSUME NEW k \in 1..Len(ledger), Import!Delete(k) \/ Import!Restore(k) PROVE FALSE
  <2>1. DOMAIN ledger' = DOMAIN ledger
    BY <1>4 DEF Import!Delete, Import!Restore
  <2> QED BY <1>1, <2>1
<1>5. CASE Import!Browser
  BY <1>2, <1>5 DEF Import!Browser, Import!Preview, Import!Confirm, Import!LoseAnswer, Import!Close,
                    Import!Script, Import!Receive
<1>6. CASE Import!Service
  BY <1>2, <1>6 DEF Import!Service, Import!TakeRow, Import!RefuseRow, Import!RolledBack,
                    Import!Begin, Import!Fail
<1>7. CASE Import!Owner
  BY <1>2, <1>3, <1>4, <1>7 DEF Import!Owner, Import!Deactivate
<1>8. CASE UNCHANGED Import!vars
  BY <1>2, <1>8 DEF Import!vars
<1> QED BY <1>5, <1>6, <1>7, <1>8 DEF Import!Next

(* For any rows, and any two ways of making keys of them: no import posts  *)
(* a row that is like another row it posts or like a live entry of which   *)
(* the two ways make the same key, though two batches of the same rows are *)
(* sent at once (_rows).                                                   *)
THEOREM NoneImportedTwice == Import!Spec => NoDuplicateImported
<1>1. CsvInv /\ [Import!Next]_Import!vars =>
        [\A i \in DOMAIN ledger' : Import!Posts(i) =>
            ~\E j \in 1..(i - 1) : ledger'[j].live /\ Import!Repeats(i, j)']_Import!vars
  BY OnlyCommitPosts, NoneTwice DEF Import!Posts
<1> QED BY <1>1, ImportsInvariance, PTL
        DEF Import!Spec, NoDuplicateImported, Import!NoDuplicateImported

-----------------------------------------------------------------------------
(* The calendar.  Both programs stand on the same date, and that is one.   *)
Day(v) ==
  /\ v = [y |-> v.y, m |-> v.m, d |-> v.d]
  /\ v.y \in Nat \ {0} /\ v.m \in 1..12 /\ v.d \in 1..31 /\ v.d <= Dates!Length(v.y, v.m)
DatesInv ==
  /\ frequency \in Dates!Frequencies /\ Day(date)
  /\ desktop = date /\ shortest = date.d

LEMMA YearsAre == FirstYear \in Nat \ {0} /\ LastStart \in Nat /\ LastYear \in Nat
BY DatesAssumption DEF Dates!YearsAssumption

LEMMA LengthIs ==
  ASSUME NEW y \in Nat, NEW m \in 1..12
  PROVE /\ Dates!Length(y, m) \in 28..31
        /\ Dates!Length(y, m) = IF m = 2 THEN IF Dates!Leap(y) THEN 29 ELSE 28
                                ELSE IF m \in {4, 6, 9, 11} THEN 30 ELSE 31
BY DEF Dates!Length

(* A year that a number divides is one more that it divides.               *)
LEMMA OneMore ==
  ASSUME NEW y \in Nat \ {0}
  PROVE /\ y \div 4 = (y - 1) \div 4 + IF y % 4 = 0 THEN 1 ELSE 0
        /\ y \div 100 = (y - 1) \div 100 + IF y % 100 = 0 THEN 1 ELSE 0
        /\ y \div 400 = (y - 1) \div 400 + IF y % 400 = 0 THEN 1 ELSE 0
<1>1. y \div 4 = (y - 1) \div 4 + IF y % 4 = 0 THEN 1 ELSE 0
  BY SMTT(30)
<1>2. y \div 100 = (y - 1) \div 100 + IF y % 100 = 0 THEN 1 ELSE 0
  BY SMTT(30)
<1>3. y \div 400 = (y - 1) \div 400 + IF y % 400 = 0 THEN 1 ELSE 0
  BY SMTT(30)
<1> QED BY <1>1, <1>2, <1>3

DaysTo(y) == 365 * y + y \div 4 - y \div 100 + y \div 400
Leaps(y) == IF Dates!Leap(y) THEN 1 ELSE 0

LEMMA YearIs ==
  ASSUME NEW y \in Nat \ {0}
  PROVE /\ DaysTo(y) = DaysTo(y - 1) + 365 + Leaps(y)
        /\ DaysTo(y - 1) \in Int
<1>1. y % 400 = 0 => y % 100 = 0
  BY SMTT(30)
<1>2. y % 100 = 0 => y % 4 = 0
  BY SMTT(30)
<1>3. /\ (y - 1) \div 4 \in Int /\ (y - 1) \div 100 \in Int /\ (y - 1) \div 400 \in Int
  OBVIOUS
<1> QED BY <1>1, <1>2, <1>3, OneMore DEF DaysTo, Leaps, Dates!Leap

(* The days of a year before a month.                                      *)
Before(y, m) == Dates!DaysBefore[m] + IF m > 2 THEN Leaps(y) ELSE 0

LEMMA OrdinalIs ==
  ASSUME NEW v, Day(v)
  PROVE Dates!Ordinal(v) = DaysTo(v.y - 1) + v.d + Before(v.y, v.m)
<1>1. DaysTo(v.y - 1) \in Int /\ v.d \in Int /\ v.m \in 1..12
  BY YearIs DEF Day
<1>2. Dates!DaysBefore[v.m] \in Int
  BY <1>1 DEF Dates!DaysBefore
<1> QED BY <1>1, <1>2 DEF Dates!Ordinal, DaysTo, Before, Leaps

LEMMA MonthIs ==
  ASSUME NEW y \in Nat, NEW m \in 1..12
  PROVE /\ Before(y, m) \in Int
        /\ m < 12 => Before(y, m + 1) = Before(y, m) + Dates!Length(y, m)
        /\ Before(y, 12) + 31 = 365 + Leaps(y)
        /\ Before(y, 1) = 0
<1>1. Leaps(y) \in {0, 1}
  BY DEF Leaps
<1>2. Dates!Leap(y) <=> Leaps(y) = 1
  BY DEF Leaps
<1>3. /\ Dates!DaysBefore[1] = 0 /\ Dates!DaysBefore[2] = 31 /\ Dates!DaysBefore[3] = 59
      /\ Dates!DaysBefore[4] = 90 /\ Dates!DaysBefore[5] = 120 /\ Dates!DaysBefore[6] = 151
      /\ Dates!DaysBefore[7] = 181 /\ Dates!DaysBefore[8] = 212 /\ Dates!DaysBefore[9] = 243
      /\ Dates!DaysBefore[10] = 273 /\ Dates!DaysBefore[11] = 304 /\ Dates!DaysBefore[12] = 334
  BY DEF Dates!DaysBefore
<1>4. m \in {1, 2, 3, 4, 5, 6, 7, 8, 9, 10, 11, 12}
  OBVIOUS
<1>5. Before(y, m) \in Int
  BY <1>1, <1>3, <1>4 DEF Before
<1>6. Before(y, 12) + 31 = 365 + Leaps(y) /\ Before(y, 1) = 0
  BY <1>1, <1>3 DEF Before
<1>7. /\ Dates!Length(y, m) = IF m = 2 THEN 28 + Leaps(y)
                               ELSE IF m \in {4, 6, 9, 11} THEN 30 ELSE 31
  BY <1>2, LengthIs DEF Leaps
<1>8. m < 12 => Before(y, m + 1) = Before(y, m) + Dates!Length(y, m)
  BY <1>1, <1>3, <1>4, <1>7 DEF Before
<1> QED BY <1>5, <1>6, <1>8

LEMMA BeforeIs ==
  ASSUME NEW y \in Nat, NEW m \in 1..12
  PROVE Before(y, m) \in Int
BY MonthIs

(* Two dates whose days, months and years are so far apart.                *)
LEMMA NextMonth ==
  ASSUME NEW v, NEW w, Day(v), Day(w),
         \/ v.m < 12 /\ w.m = v.m + 1 /\ w.y = v.y
         \/ v.m = 12 /\ w.m = 1 /\ w.y = v.y + 1
  PROVE Dates!Ordinal(w) - Dates!Ordinal(v) = Dates!Length(v.y, v.m) + w.d - v.d
<1>1. /\ Dates!Ordinal(v) = DaysTo(v.y - 1) + v.d + Before(v.y, v.m)
      /\ Dates!Ordinal(w) = DaysTo(w.y - 1) + w.d + Before(w.y, w.m)
  BY OrdinalIs
<1>2. /\ v.y \in Nat \ {0} /\ w.y \in Nat \ {0} /\ v.m \in 1..12 /\ w.m \in 1..12
      /\ v.d \in Int /\ w.d \in Int
  BY DEF Day
<1>3. /\ DaysTo(v.y - 1) \in Int /\ DaysTo(w.y - 1) \in Int
      /\ DaysTo(v.y) = DaysTo(v.y - 1) + 365 + Leaps(v.y) /\ Leaps(v.y) \in Int
  BY <1>2, YearIs DEF Leaps
<1>4. /\ Before(v.y, v.m) \in Int /\ Before(w.y, w.m) \in Int /\ Dates!Length(v.y, v.m) \in Int
      /\ Before(v.y, 12) \in Int
  <2>1. Before(v.y, v.m) \in Int /\ Before(v.y, 12) \in Int
    BY <1>2, BeforeIs
  <2>2. Before(w.y, w.m) \in Int
    BY <1>2, BeforeIs
  <2>3. Dates!Length(v.y, v.m) \in Int
    BY <1>2, LengthIs
  <2> QED BY <2>1, <2>2, <2>3
<1>5. CASE v.m < 12 /\ w.m = v.m + 1 /\ w.y = v.y
  <2>1. Before(w.y, w.m) = Before(v.y, v.m) + Dates!Length(v.y, v.m)
    BY <1>2, <1>5, MonthIs
  <2>2. DaysTo(w.y - 1) = DaysTo(v.y - 1)
    BY <1>5
  <2> QED BY <2>1, <2>2, <1>1, <1>2, <1>3, <1>4
<1>6. CASE v.m = 12 /\ w.m = 1 /\ w.y = v.y + 1
  <2>1. Before(w.y, w.m) = 0 /\ Before(v.y, v.m) + 31 = 365 + Leaps(v.y)
    BY <1>2, <1>6, MonthIs
  <2>2. w.y - 1 = v.y /\ Dates!Length(v.y, v.m) = 31
    BY <1>2, <1>6, LengthIs
  <2> HIDE DEF DaysTo
  <2>3. DaysTo(w.y - 1) = DaysTo(v.y - 1) + 365 + Leaps(v.y)
    BY <2>2, <1>3
  <2> QED BY <2>1, <2>2, <2>3, <1>1, <1>2, <1>3, <1>4
<1> QED BY <1>5, <1>6

(* A record is as its parts are.                                           *)
LEMMA DayOf ==
  ASSUME NEW y \in Nat \ {0}, NEW m \in 1..12, NEW d \in 1..31, d <= Dates!Length(y, m),
         NEW w, w = Dates!Date(y, m, d)
  PROVE Day(w) /\ w.y = y /\ w.m = m /\ w.d = d
BY DEF Day, Dates!Date

LEMMA AddDaysIs ==
  ASSUME NEW v, Day(v), NEW n \in 1..7
  PROVE /\ Day(Dates!AddDays(v, n))
        /\ Dates!Ordinal(Dates!AddDays(v, n)) - Dates!Ordinal(v) = n
<1> DEFINE over == v.d + n - Dates!Length(v.y, v.m)
<1>0. PICK w : w = Dates!AddDays(v, n)
  OBVIOUS
<1>1. /\ v.y \in Nat \ {0} /\ v.m \in 1..12 /\ v.d \in 1..31 /\ v.d <= Dates!Length(v.y, v.m)
      /\ v = [y |-> v.y, m |-> v.m, d |-> v.d]
  BY DEF Day
<1>2. Dates!Length(v.y, v.m) \in 28..31
  BY <1>1, LengthIs
<1>3. over \in Int /\ over <= 7
  BY <1>1, <1>2
<1>4. CASE over <= 0
  <2>2. w = Dates!Date(v.y, v.m, v.d + n)
    BY <1>0, <1>3, <1>4 DEF Dates!AddDays
  <2>3. v.d + n \in 1..31 /\ v.d + n <= Dates!Length(v.y, v.m)
    BY <1>1, <1>2, <1>4
  <2>1. w.y = v.y /\ w.m = v.m /\ w.d = v.d + n /\ w = [y |-> w.y, m |-> w.m, d |-> w.d]
    BY <2>2 DEF Dates!Date
  <2>4. Day(w)
    BY <1>1, <2>1, <2>3 DEF Day
  <2>5. /\ Dates!Ordinal(v) = DaysTo(v.y - 1) + v.d + Before(v.y, v.m)
        /\ Dates!Ordinal(w) = DaysTo(w.y - 1) + w.d + Before(w.y, w.m)
    BY <2>4, OrdinalIs
  <2>6. DaysTo(v.y - 1) \in Int /\ Before(v.y, v.m) \in Int
    BY <1>1, YearIs, BeforeIs
  <2>7. Dates!Ordinal(w) - Dates!Ordinal(v) = n
    BY <2>1, <2>5, <2>6, <1>1
  <2> QED BY <2>4, <2>7, <1>0
<1>5. CASE over > 0 /\ v.m < 12
  <2>2. w = Dates!Date(v.y, v.m + 1, over)
    BY <1>0, <1>3, <1>5 DEF Dates!AddDays
  <2>3. v.m + 1 \in 1..12 /\ Dates!Length(v.y, v.m + 1) \in 28..31
    BY <1>1, <1>5, LengthIs
  <2>4. over \in 1..31 /\ over <= Dates!Length(v.y, v.m + 1)
    BY <1>3, <1>5, <2>3
  <2>5. Day(w) /\ w.y = v.y /\ w.m = v.m + 1 /\ w.d = over
    BY <1>1, <2>2, <2>3, <2>4 DEF Day, Dates!Date
  <2>6. Dates!Ordinal(w) - Dates!Ordinal(v) = Dates!Length(v.y, v.m) + w.d - v.d
    BY <1>5, <2>5, NextMonth
  <2>7. Dates!Ordinal(w) - Dates!Ordinal(v) = n
    BY <1>1, <1>2, <2>5, <2>6
  <2> QED BY <2>5, <2>7, <1>0
<1>6. CASE over > 0 /\ v.m = 12
  <2>1. w = Dates!Date(v.y + 1, 1, over)
    BY <1>0, <1>3, <1>6 DEF Dates!AddDays
  <2>2. Dates!Length(v.y + 1, 1) \in 28..31 /\ v.y + 1 \in Nat \ {0}
    BY <1>1, LengthIs
  <2>3. over \in 1..31 /\ over <= Dates!Length(v.y + 1, 1)
    BY <1>3, <1>6, <2>2
  <2>4. Day(w) /\ w.y = v.y + 1 /\ w.m = 1 /\ w.d = over
    BY <2>1, <2>2, <2>3 DEF Day, Dates!Date
  <2>5. Dates!Ordinal(w) - Dates!Ordinal(v) = Dates!Length(v.y, v.m) + w.d - v.d
    BY <1>6, <2>4, NextMonth
  <2>6. Dates!Ordinal(w) - Dates!Ordinal(v) = n
    BY <1>1, <1>2, <2>4, <2>5
  <2> QED BY <2>4, <2>6, <1>0
<1> QED BY <1>0, <1>1, <1>3, <1>4, <1>5, <1>6

LEMMA add_monthsIs ==
  ASSUME NEW v, Day(v),
         NEW w, w = Dates!add_months(v, 1)
  PROVE /\ Day(w) /\ w.d = Dates!LessOf(v.d, Dates!Length(w.y, w.m))
        /\ 12 * w.y + w.m = 12 * v.y + v.m + 1
        /\ Dates!Ordinal(w) - Dates!Ordinal(v) \in 28..31
<1> DEFINE y == v.y + v.m \div 12
           m == (v.m % 12) + 1
           d == Dates!LessOf(v.d, Dates!Length(y, m))
<1>1. v.y \in Nat \ {0} /\ v.m \in 1..12 /\ v.d \in 1..31 /\ v.d <= Dates!Length(v.y, v.m)
  BY DEF Day
<1>2. v.m - 1 + 1 = v.m
  BY <1>1
<1>3. w = Dates!Date(y, m, d)
  BY <1>2 DEF Dates!add_months
<1>4. \/ v.m < 12 /\ m = v.m + 1 /\ y = v.y
      \/ v.m = 12 /\ m = 1 /\ y = v.y + 1
  BY <1>1
<1>5. y \in Nat \ {0} /\ m \in 1..12 /\ 12 * y + m = 12 * v.y + v.m + 1
  BY <1>1, <1>4
<1> HIDE DEF y, m
<1>6. Dates!Length(y, m) \in 28..31 /\ Dates!Length(v.y, v.m) \in 28..31
  BY <1>1, <1>5, LengthIs
<1>7. /\ d \in 1..31 /\ d <= Dates!Length(y, m) /\ d <= v.d
      /\ d = v.d \/ d = Dates!Length(y, m)
  BY <1>1, <1>6 DEF Dates!LessOf
<1>8. Day(w) /\ w.y = y /\ w.m = m /\ w.d = d
  BY <1>3, <1>5, <1>7 DEF Day, Dates!Date
<1>9. w.d = Dates!LessOf(v.d, Dates!Length(w.y, w.m))
  BY <1>8
<1> HIDE DEF d
<1>10. Dates!Ordinal(w) - Dates!Ordinal(v) = Dates!Length(v.y, v.m) + d - v.d
  BY <1>4, <1>8, NextMonth
<1>11. Dates!Ordinal(w) - Dates!Ordinal(v) \in 28..31
  BY <1>1, <1>6, <1>7, <1>10
<1> QED BY <1>5, <1>8, <1>9, <1>11

(* A year on: the day stays, or is the 28th where there was a 29th.        *)
LEMMA YearOn ==
  ASSUME NEW v, Day(v),
         NEW w, w = Dates!calculate_next_date("yearly", v)
  PROVE /\ Day(w) /\ w.y = v.y + 1 /\ w.m = v.m
        /\ w.d = Dates!LessOf(v.d, Dates!Length(w.y, w.m))
        /\ w = Dates!DesktopNext("yearly", v)
        /\ Dates!Ordinal(w) - Dates!Ordinal(v) \in {365, 366}
<1> DEFINE d == Dates!LessOf(v.d, Dates!Length(v.y + 1, v.m))
<1>1. /\ v.y \in Nat \ {0} /\ v.m \in 1..12 /\ v.d \in 1..31 /\ v.d <= Dates!Length(v.y, v.m)
      /\ v = [y |-> v.y, m |-> v.m, d |-> v.d] /\ v.y + 1 \in Nat \ {0}
  BY DEF Day
<1>2. /\ Dates!Length(v.y, v.m) = IF v.m = 2 THEN 28 + Leaps(v.y)
                                  ELSE IF v.m \in {4, 6, 9, 11} THEN 30 ELSE 31
      /\ Dates!Length(v.y + 1, v.m) = IF v.m = 2 THEN 28 + Leaps(v.y + 1)
                                      ELSE IF v.m \in {4, 6, 9, 11} THEN 30 ELSE 31
  BY <1>1, LengthIs DEF Leaps
<1>3. Leaps(v.y) \in {0, 1} /\ Leaps(v.y + 1) \in {0, 1}
  BY DEF Leaps
<1>4. v.y % 4 = 0 => (v.y + 1) % 4 # 0
  BY <1>1
<1>5. Leaps(v.y) = 1 => Leaps(v.y + 1) = 0
  BY <1>4 DEF Leaps, Dates!Leap
<1>6. IF Dates!Replaced(v) THEN d = v.d
      ELSE d = 28 /\ v.m = 2 /\ v.d = 29 /\ Leaps(v.y) = 1
  BY <1>1, <1>2, <1>3 DEF Dates!Replaced, Dates!LessOf
<1>7. d \in 1..31 /\ d <= Dates!Length(v.y + 1, v.m)
  BY <1>1, <1>2, <1>3 DEF Dates!LessOf
<1>8. w = Dates!Date(v.y + 1, v.m, d)
  <2>1. CASE Dates!Replaced(v)
    BY <2>1, <1>6 DEF Dates!calculate_next_date
  <2>2. CASE ~Dates!Replaced(v)
    BY <2>2, <1>6 DEF Dates!calculate_next_date
  <2> QED BY <2>1, <2>2
<1>9. Day(w) /\ w.y = v.y + 1 /\ w.m = v.m /\ w.d = d
  BY <1>1, <1>7, <1>8 DEF Day, Dates!Date
<1>10. w.d = Dates!LessOf(v.d, Dates!Length(w.y, w.m))
  BY <1>9
<1>11. w = Dates!DesktopNext("yearly", v)
  BY <1>8 DEF Dates!DesktopNext, Dates!DesktopYearly
<1> HIDE DEF d
<1>12. Dates!Ordinal(w) - Dates!Ordinal(v) \in {365, 366}
  <2>1. /\ Dates!Ordinal(v) = DaysTo(v.y - 1) + v.d + Before(v.y, v.m)
        /\ Dates!Ordinal(w) = DaysTo(w.y - 1) + d + Before(v.y + 1, v.m)
    BY <1>9, OrdinalIs
  <2>2. w.y - 1 = v.y
    BY <1>1, <1>9
  <2>3. DaysTo(v.y) = DaysTo(v.y - 1) + 365 + Leaps(v.y) /\ DaysTo(v.y - 1) \in Int
    BY <1>1, YearIs
  <2>4. Dates!DaysBefore[v.m] \in Int
    BY <1>1 DEF Dates!DaysBefore
  <2>5. Before(v.y + 1, v.m) - Before(v.y, v.m) = IF v.m > 2 THEN Leaps(v.y + 1) - Leaps(v.y) ELSE 0
    BY <1>1, <1>3, <2>4 DEF Before
  <2>6. Before(v.y, v.m) \in Int /\ Before(v.y + 1, v.m) \in Int
    BY <1>1, BeforeIs
  <2>7. d \in Int /\ v.d \in Int /\ v.m \in Int /\ Leaps(v.y) \in Int /\ Leaps(v.y + 1) \in Int
    BY <1>1, <1>3, <1>7
  <2>8. Dates!Ordinal(w) - Dates!Ordinal(v)
          = 365 + Leaps(v.y) + d - v.d + (Before(v.y + 1, v.m) - Before(v.y, v.m))
    BY <2>1, <2>2, <2>3, <2>6, <2>7
  <2>9. CASE v.m > 2
    <3>1. Before(v.y + 1, v.m) - Before(v.y, v.m) = Leaps(v.y + 1) - Leaps(v.y) /\ d = v.d
      BY <2>5, <2>9, <1>6
    <3> QED BY <3>1, <2>7, <2>8, <1>3
  <2>10. CASE ~(v.m > 2)
    <3>1. Before(v.y + 1, v.m) - Before(v.y, v.m) = 0
      BY <2>5, <2>10
    <3> QED BY <3>1, <2>7, <2>8, <1>3, <1>6
  <2> QED BY <2>9, <2>10
<1> QED BY <1>9, <1>10, <1>11, <1>12

(* One step of either program.                                             *)
LEMMA StepIs ==
  ASSUME DatesInv, Dates!Step
  PROVE /\ DatesInv'
        /\ Dates!Ordinal(date') - Dates!Ordinal(date) \in Dates!Gaps[frequency]
        /\ frequency = "monthly" => 12 * date'.y + date'.m = 12 * date.y + date.m + 1
        /\ frequency = "yearly" => date'.y = date.y + 1 /\ date'.m = date.m
<1> DEFINE v == date
<1>1. PICK w : w = Dates!calculate_next_date(frequency, v)
  OBVIOUS
<1>2. /\ date' = w /\ desktop' = Dates!DesktopNext(frequency, v) /\ UNCHANGED frequency
      /\ shortest' = IF frequency \in {"monthly", "yearly"}
                     THEN Dates!LessOf(v.d, Dates!Length(w.y, w.m)) ELSE w.d
      /\ Day(v) /\ frequency \in {"daily", "weekly", "monthly", "yearly"}
  BY <1>1 DEF Dates!Step, DatesInv, Dates!Frequencies
<1> HIDE DEF v
<1>3. CASE frequency \in {"daily", "weekly"}
  <2>1. PICK n : n = IF frequency = "daily" THEN 1 ELSE 7
    OBVIOUS
  <2>2. n \in 1..7 /\ Dates!Gaps[frequency] = {n}
    BY <2>1, <1>3 DEF Dates!Gaps
  <2>3. w = Dates!AddDays(v, n) /\ Dates!DesktopNext(frequency, v) = w
    BY <2>1, <1>1, <1>3 DEF Dates!calculate_next_date, Dates!DesktopNext
  <2>4. Day(w) /\ Dates!Ordinal(w) - Dates!Ordinal(v) = n
    BY <2>2, <2>3, <1>2, AddDaysIs
  <2>5. shortest' = w.d /\ frequency # "monthly" /\ frequency # "yearly"
    BY <1>2, <1>3
  <2>6. DatesInv'
    BY <2>3, <2>4, <2>5, <1>2 DEF DatesInv, Dates!Frequencies
  <2> QED BY <2>2, <2>4, <2>5, <2>6, <1>2 DEF v
<1>4. CASE frequency = "monthly"
  <2>1. w = Dates!add_months(v, 1) /\ Dates!DesktopNext(frequency, v) = w
    BY <1>1, <1>4 DEF Dates!calculate_next_date, Dates!DesktopNext
  <2>2. /\ Day(w) /\ w.d = Dates!LessOf(v.d, Dates!Length(w.y, w.m))
        /\ 12 * w.y + w.m = 12 * v.y + v.m + 1
        /\ Dates!Ordinal(w) - Dates!Ordinal(v) \in 28..31
    BY <2>1, <1>2, add_monthsIs
  <2>3. DatesInv'
    BY <2>1, <2>2, <1>2, <1>4 DEF DatesInv, Dates!Frequencies
  <2>4. Dates!Gaps[frequency] = 28..31 /\ frequency # "yearly"
    BY <1>4 DEF Dates!Gaps
  <2> QED BY <2>2, <2>3, <2>4, <1>2 DEF v
<1>5. CASE frequency = "yearly"
  <2>1. w = Dates!calculate_next_date("yearly", v)
    BY <1>1, <1>5
  <2>2. /\ Day(w) /\ w.y = v.y + 1 /\ w.m = v.m
        /\ w.d = Dates!LessOf(v.d, Dates!Length(w.y, w.m))
        /\ w = Dates!DesktopNext("yearly", v)
        /\ Dates!Ordinal(w) - Dates!Ordinal(v) \in {365, 366}
    BY <2>1, <1>2, YearOn
  <2>3. DatesInv'
    BY <2>2, <1>2, <1>5 DEF DatesInv, Dates!Frequencies
  <2>4. Dates!Gaps[frequency] = {365, 366} /\ frequency # "monthly"
    BY <1>5 DEF Dates!Gaps
  <2> QED BY <2>2, <2>3, <2>4, <1>2, <1>5 DEF v
<1> QED BY <1>2, <1>3, <1>4, <1>5

(* From any date of any year, for as long as it goes on: a schedule goes   *)
(* forward by the days of its frequency, leaves no month or year out,      *)
(* stays clamped, and has the same dates in both programs                  *)
(* (calculate_next_date, add_months).                                      *)
THEOREM DatesHold == Dates!Spec => DatesGoOn
<1>1. Dates!Init => DatesInv
  <2>1. ASSUME Dates!Init PROVE Day(date)
    <3>1. /\ date \in [y : FirstYear..LastStart, m : 1..12, d : 1..31]
          /\ date.d <= Dates!Length(date.y, date.m)
      BY <2>1 DEF Dates!Init, Dates!Dates
    <3>2. date.y \in Nat \ {0}
      BY <3>1, YearsAre
    <3> QED BY <3>1, <3>2 DEF Day
  <2> QED BY <2>1 DEF Dates!Init, DatesInv
<1>2. DatesInv /\ [Dates!Step]_Dates!vars => DatesInv'
  <2>1. ASSUME DatesInv, UNCHANGED Dates!vars PROVE DatesInv'
    BY <2>1 DEF DatesInv, Dates!vars, Day, Dates!Length, Dates!Leap
  <2> QED BY <2>1, StepIs
<1>3. Dates!Spec => []DatesInv
  BY <1>1, <1>2, PTL DEF Dates!Spec
<1>4. DatesInv => Dates!ClampedForGood /\ Dates!ProgramsAgree
  BY DEF DatesInv, Dates!ClampedForGood, Dates!ProgramsAgree
<1>5. DatesInv /\ [Dates!Step]_Dates!vars =>
        [Dates!Ordinal(date') - Dates!Ordinal(date) \in Dates!Gaps[frequency]]_Dates!vars
  BY StepIs
<1>6. DatesInv /\ [Dates!Step]_Dates!vars =>
        [ /\ frequency = "monthly" => 12 * date'.y + date'.m = 12 * date.y + date.m + 1
          /\ frequency = "yearly" => date'.y = date.y + 1 /\ date'.m = date.m ]_Dates!vars
  BY StepIs
<1> QED BY <1>3, <1>4, <1>5, <1>6, PTL
        DEF Dates!Spec, DatesGoOn, Dates!MovesForward, Dates!NoneLeftOut

-----------------------------------------------------------------------------
(* The desktop program.  A database holds of each schedule what is before  *)
(* its next date, once, and exact cents from the upgrade on.               *)
Holds(db, i, s) == db.rows[i] # none /\ db.rows[i].sched = s
DbOk(db) ==
  /\ \A i \in Program!Ids, s \in Schedules : Holds(db, i, s) =>
       db.sched[s] # none /\ db.rows[i].day < db.sched[s].next
  /\ \A i, j \in Program!Ids, s \in Schedules :
       Holds(db, i, s) /\ Holds(db, j, s) /\ db.rows[i].day = db.rows[j].day => i = j
  /\ db.upgraded => \A i \in Program!Ids : db.rows[i] # none => db.rows[i].cents = db.rows[i].amount

(* What a program read before it posts, and lists but for cents, is so.    *)
Reads(db, due, until) ==
  \A r \in due : r[2] <= until /\ db.sched[r[1]] # none /\ db.sched[r[1]].next = r[2]
Alike(e, f) == e.day = f.day /\ e.amount = f.amount /\ e.sched = f.sched
Lists(db, list) ==
  \A i \in Program!Ids : /\ db.rows[i] = none <=> list[i] = none
                         /\ db.rows[i] # none => Alike(db.rows[i], list[i])

DeskOk(f, b, q, t) ==
  /\ f \in Program!Database \cup {torn} /\ b \in Program!Database \cup {none, bad}
  /\ q \in Program!Program /\ t \in Program!Days
  /\ f \in Program!Database => DbOk(f)
  /\ b \in Program!Database => DbOk(b)
  /\ q.mode = "copying" => b \in Program!Database
  /\ q.mode \in {"open", "starting"} => f \in Program!Database
  /\ q.mode = "open" => Lists(f, q.list) /\ (q.dialog # 0 => f.rows[q.dialog] # none)
  /\ q.mode = "starting" => Reads(f, q.due, q.until)
DeskInv == /\ prog = [p \in {p1} |-> prog[p1]]
           /\ DeskOk(file, backup, prog[p1], today)

(* What is assumed of the constants.                                       *)
LEMMA ProgramIs ==
  /\ MaxId \in Nat \ {0} /\ LastDay \in Nat \ {0} /\ IsFiniteSet(Schedules)
  /\ AmountOf \in [Schedules -> Amounts]
  /\ none \notin Program!Entry /\ none \notin Program!Schedule /\ none \notin Program!Database
  /\ none \notin Amounts /\ none \notin Schedules
  /\ bad \notin Program!Database /\ torn \notin Program!Database /\ bad # none /\ bad # torn
<1>1. Program!IsFiniteSet(Schedules) <=> IsFiniteSet(Schedules)
  BY Zenon DEF Program!IsFiniteSet, IsFiniteSet
<1> QED BY <1>1, ProgramAssumption
        DEF Program!BoundsAssumption, Program!SchedulesAssumption, Program!MarksAssumption
LEMMA ProgramCounts == \A S : Program!Cardinality(S) = Cardinality(S)
BY Zenon DEF Program!Cardinality, Cardinality

(* What records are made of.                                               *)
LEMMA DbIs ==
  ASSUME NEW db \in Program!Database
  PROVE /\ db.rows \in [Program!Ids -> Program!Entry \cup {none}] /\ db.last \in 0..MaxId
        /\ db.sched \in [Schedules -> Program!Schedule \cup {none}] /\ db.upgraded \in BOOLEAN
BY DEF Program!Database
LEMMA DbOf ==
  ASSUME NEW rows \in [Program!Ids -> Program!Entry \cup {none}], NEW last \in 0..MaxId,
         NEW sched \in [Schedules -> Program!Schedule \cup {none}], NEW up \in BOOLEAN,
         NEW db, db = [rows |-> rows, last |-> last, sched |-> sched, upgraded |-> up]
  PROVE /\ db \in Program!Database
        /\ db.rows = rows /\ db.last = last /\ db.sched = sched /\ db.upgraded = up
BY DEF Program!Database
LEMMA DbExcept ==
  ASSUME NEW db \in Program!Database
  PROVE db = [rows |-> db.rows, last |-> db.last, sched |-> db.sched, upgraded |-> db.upgraded]
BY DEF Program!Database
LEMMA EntryIs ==
  ASSUME NEW e \in Program!Entry
  PROVE /\ e.day \in Program!Days /\ e.amount \in Amounts /\ e.cents \in Amounts \cup {none}
        /\ e.sched \in Schedules \cup {none} /\ e # none
        /\ e = [day |-> e.day, amount |-> e.amount, cents |-> e.cents, sched |-> e.sched]
BY ProgramIs DEF Program!Entry
LEMMA NewIs ==
  ASSUME NEW d \in Program!Days, NEW a \in Amounts, NEW s \in Schedules \cup {none}
  PROVE LET e == Program!New(d, a, s) IN
        /\ e \in Program!Entry /\ e # none
        /\ e.day = d /\ e.amount = a /\ e.cents = none /\ e.sched = s
BY ProgramIs DEF Program!New, Program!Entry
LEMMA OpenedIs ==
  ASSUME NEW db \in Program!Database
  PROVE LET q == Program!Opened(db) IN
        /\ q \in Program!Program /\ q.mode = "open" /\ q.list = db.rows /\ q.dialog = 0
<1>1. db.rows \in [Program!Ids -> Program!Entry \cup {none}]
  BY DbIs
<1>2. Program!Opened(db) = [mode |-> "open", due |-> {}, until |-> 0, list |-> db.rows, dialog |-> 0]
  BY DEF Program!Opened
<1>3. 0 \in 0..LastDay
  BY ProgramIs
<1> QED BY <1>1, <1>2, <1>3 DEF Program!Program
LEMMA ClosedIs == Program!Closed \in Program!Program /\ Program!Closed.mode = "closed"
<1>1. 0 \in 0..LastDay
  BY ProgramIs
<1> QED BY <1>1 DEF Program!Program, Program!Closed, Program!NoRows
LEMMA ProgIs ==
  ASSUME NEW q \in Program!Program
  PROVE /\ q.mode \in {"closed", "starting", "open", "copying", "broken"}
        /\ q.due \in SUBSET (Schedules \X Program!Days) /\ q.until \in 0..LastDay
        /\ q.list \in [Program!Ids -> Program!Entry \cup {none}] /\ q.dialog \in {0} \cup Program!Ids
        /\ q = [mode |-> q.mode, due |-> q.due, until |-> q.until, list |-> q.list, dialog |-> q.dialog]
BY DEF Program!Program
LEMMA ProgOf ==
  ASSUME NEW m \in {"closed", "starting", "open", "copying", "broken"},
         NEW due \in SUBSET (Schedules \X Program!Days), NEW until \in 0..LastDay,
         NEW list \in [Program!Ids -> Program!Entry \cup {none}], NEW i \in {0} \cup Program!Ids,
         NEW q, q = [mode |-> m, due |-> due, until |-> until, list |-> list, dialog |-> i]
  PROVE /\ q \in Program!Program /\ q.mode = m /\ q.due = due /\ q.until = until
        /\ q.list = list /\ q.dialog = i
BY DEF Program!Program

(* The one program's step.                                                 *)
LEMMA ProgStep ==
  ASSUME DeskInv, NEW q, prog' = [prog EXCEPT ![p1] = q]
  PROVE prog' = [p \in {p1} |-> prog'[p1]] /\ prog'[p1] = q
<1>1. prog = [p \in {p1} |-> prog[p1]]
  BY DEF DeskInv
<1> QED BY <1>1
LEMMA ReadableIs ==
  ASSUME DeskInv
  PROVE Program!Readable <=> file \in Program!Database
BY ProgramIs DEF DeskInv, DeskOk, Program!Readable

LEMMA OpenKeeps ==
  ASSUME NEW f \in Program!Database, DbOk(f), NEW b \in Program!Database \cup {none, bad},
         b \in Program!Database => DbOk(b), NEW t \in Program!Days
  PROVE DeskOk(f, b, Program!Opened(f), t)
<1>1. /\ Program!Opened(f) \in Program!Program /\ Program!Opened(f).mode = "open"
      /\ Program!Opened(f).list = f.rows /\ Program!Opened(f).dialog = 0
  BY OpenedIs
<1>2. Lists(f, f.rows)
  BY DEF Lists, Alike
<1> QED BY <1>1, <1>2 DEF DeskOk
LEMMA ShutKeeps ==
  ASSUME NEW f, NEW b, NEW q, NEW t, DeskOk(f, b, q, t)
  PROVE DeskOk(f, b, Program!Closed, t)
BY ClosedIs DEF DeskOk

LEMMA StartsKeep == ASSUME DeskInv, Program!Start(p1) PROVE DeskInv'
<1>1. /\ prog[p1].mode = "closed" /\ file \in Program!Database
      /\ UNCHANGED <<file, backup, today>> /\ today \in Program!Days /\ DbOk(file)
      /\ prog' = [prog EXCEPT ![p1] = IF Program!Due(file) = {} THEN Program!Opened(file)
                                      ELSE Program!Starting(Program!Due(file), today)]
  BY ReadableIs DEF Program!Start, DeskInv, DeskOk
<1>2. CASE Program!Due(file) = {}
  <2>1. prog' = [p \in {p1} |-> prog'[p1]] /\ prog'[p1] = Program!Opened(file)
    BY <1>1, <1>2, ProgStep
  <2>2. DeskOk(file, backup, Program!Opened(file), today)
    BY <1>1, OpenKeeps DEF DeskInv, DeskOk
  <2> QED BY <2>1, <2>2, <1>1 DEF DeskInv
<1>3. CASE Program!Due(file) # {}
  <2> DEFINE due == Program!Due(file)  q == Program!Starting(due, today)
  <2>1. prog' = [p \in {p1} |-> prog'[p1]] /\ prog'[p1] = q
    BY <1>1, <1>3, ProgStep
  <2>2. \A r \in due : /\ r \in Schedules \X Program!Days /\ file.sched[r[1]] # none
                       /\ file.sched[r[1]].next = r[2] /\ r[2] <= today
    <3>1. file.sched \in [Schedules -> Program!Schedule \cup {none}]
      BY <1>1, DbIs
    <3>2. today \in 1..LastDay /\ LastDay \in Nat
      BY <1>1, ProgramIs DEF Program!Days
    <3>3. ASSUME NEW s \in Schedules, file.sched[s] # none, file.sched[s].next <= today
          PROVE file.sched[s].next \in Program!Days
      <4>1. file.sched[s] \in Program!Schedule
        BY <3>1, <3>3
      <4>2. file.sched[s].next \in Nat \ {0}
        BY <4>1 DEF Program!Schedule
      <4> QED BY <4>2, <3>2, <3>3 DEF Program!Days
    <3> QED BY <3>3 DEF Program!Due
  <2>3. Reads(file, due, today)
    BY <2>2 DEF Reads
  <2>4. due \in SUBSET (Schedules \X Program!Days)
    BY <2>2
  <2> HIDE DEF due
  <2>5. q \in Program!Program /\ q.mode = "starting" /\ q.due = due /\ q.until = today
    <3>1. today \in 0..LastDay /\ Program!NoRows \in [Program!Ids -> Program!Entry \cup {none}]
      BY <1>1, ProgramIs DEF Program!Days, Program!NoRows
    <3> QED BY <2>4, <3>1, ProgOf DEF Program!Starting
  <2> HIDE DEF q
  <2>6. DeskOk(file, backup, q, today)
    BY <2>3, <2>5, <1>1 DEF DeskInv, DeskOk
  <2> QED BY <2>1, <2>6, <1>1 DEF DeskInv
<1> QED BY <1>2, <1>3

LEMMA ShutsKeep ==
  ASSUME DeskInv, Program!StartRefused(p1) \/ Program!Close(p1) PROVE DeskInv'
<1>1. UNCHANGED <<file, backup, today>> /\ prog' = [prog EXCEPT ![p1] = Program!Closed]
  BY DEF Program!StartRefused, Program!Close
<1>2. prog' = [p \in {p1} |-> prog'[p1]] /\ prog'[p1] = Program!Closed
  BY <1>1, ProgStep
<1>3. DeskOk(file, backup, Program!Closed, today)
  BY ShutKeeps DEF DeskInv
<1> QED BY <1>1, <1>2, <1>3 DEF DeskInv

(* What is posted is as many as fit, each after what there was.            *)
LEMMA OccurrencesFit ==
  ASSUME NEW due \in SUBSET (Schedules \X Program!Days), NEW until
  PROVE Cardinality(Program!Occurrences(due, until)) \in Nat
<1>1. IsFiniteSet(Program!Days)
  <2>1. 1 \in Int /\ LastDay \in Int
    BY ProgramIs
  <2> QED BY <2>1, FS_Interval DEF Program!Days
<1>2. IsFiniteSet(Schedules \X Program!Days)
  BY <1>1, ProgramIs, FS_Product
<1>3. Program!Occurrences(due, until) \subseteq Schedules \X Program!Days
  BY DEF Program!Occurrences
<1>4. IsFiniteSet(Program!Occurrences(due, until))
  BY <1>2, <1>3, FS_Subset
<1> QED BY <1>4, FS_CardinalityType

LEMMA PostedIs ==
  ASSUME NEW db \in Program!Database, DbOk(db),
         NEW due \in SUBSET (Schedules \X Program!Days), NEW until \in 0..LastDay,
         Reads(db, due, until), ~db.upgraded,
         NEW n \in Nat, n = Cardinality(Program!Occurrences(due, until)), db.last + n <= MaxId,
         NEW at \in Program!InOrder(due, Program!Occurrences(due, until)),
         NEW f, f = Program!Advanced(Program!Posted(db, n, at), due, until)
  PROVE f \in Program!Database /\ DbOk(f)
<1> DEFINE S == Program!Occurrences(due, until)
           new == db.last + 1..db.last + n
           rows == [i \in Program!Ids |->
                      IF i \in new THEN Program!New(at[i - db.last][2], AmountOf[at[i - db.last][1]],
                                                    at[i - db.last][1])
                      ELSE db.rows[i]]
           sched == [s \in Schedules |->
                       IF \E r \in due : r[1] = s THEN [db.sched[s] EXCEPT !.next = until + 1]
                       ELSE db.sched[s]]
<1>1. /\ db.rows \in [Program!Ids -> Program!Entry \cup {none}] /\ db.last \in 0..MaxId
      /\ db.sched \in [Schedules -> Program!Schedule \cup {none}] /\ db.upgraded \in BOOLEAN
      /\ db = [rows |-> db.rows, last |-> db.last, sched |-> db.sched, upgraded |-> db.upgraded]
  BY DbIs, DbExcept
<1>2. f = [rows |-> rows, last |-> db.last + n, sched |-> sched, upgraded |-> db.upgraded]
  <2>1. Program!Posted(db, n, at) = [db EXCEPT !.last = db.last + n, !.rows = rows]
    BY DEF Program!Posted
  <2> HIDE DEF rows
  <2>2. PICK g : g = Program!Posted(db, n, at)
    OBVIOUS
  <2>3. g = [rows |-> rows, last |-> db.last + n, sched |-> db.sched, upgraded |-> db.upgraded]
    BY <2>1, <2>2, <1>1
  <2>4. f = [g EXCEPT !.sched = sched]
    BY <2>2, <2>3 DEF Program!Advanced
  <2> HIDE DEF sched
  <2> QED BY <2>3, <2>4
<1>3. /\ at \in [1..n -> S]
      /\ \A i, j \in 1..n : i < j => ~(at[i][1] = at[j][1] /\ at[i][2] = at[j][2])
  <2>1. at \in [1..n -> S]
    BY ProgramCounts DEF Program!InOrder
  <2>2. ASSUME NEW i \in 1..n, NEW j \in 1..n, i < j
        PROVE at[i][1] = at[j][1] => at[i][2] < at[j][2]
    BY <2>1, <2>2 DEF Program!InOrder
  <2>3. \A i \in 1..n : at[i][2] \in Int
    BY <2>1, ProgramIs DEF Program!Occurrences, Program!Days
  <2> QED BY <2>1, <2>2, <2>3
<1>4. ASSUME NEW s \in Schedules
      PROVE /\ sched[s] \in Program!Schedule \cup {none}
            /\ db.sched[s] # none =>
                 /\ sched[s] # none /\ db.sched[s].next <= sched[s].next
                 /\ (\E r \in due : r[1] = s) => sched[s].next = until + 1
  <2>1. until + 1 \in Nat \ {0} /\ until \in Int
    BY ProgramIs
  <2>2. CASE \E r \in due : r[1] = s
    <3>1. PICK r \in due : r[1] = s
      BY <2>2
    <3>2. db.sched[s] # none /\ db.sched[s].next = r[2] /\ r[2] <= until
      BY <3>1 DEF Reads
    <3>3. db.sched[s] \in Program!Schedule
      BY <3>2, <1>1
    <3> DEFINE c == [db.sched[s] EXCEPT !.next = until + 1]
    <3>4. c \in Program!Schedule /\ c.next = until + 1 /\ db.sched[s].next \in Int
      BY <3>3, <2>1 DEF Program!Schedule
    <3>5. sched[s] = c
      BY <2>2
    <3> HIDE DEF c, sched
    <3> QED BY <3>2, <3>4, <3>5, <2>1, ProgramIs
  <2>3. CASE ~\E r \in due : r[1] = s
    <3>1. sched[s] = db.sched[s]
      BY <2>3
    <3>2. db.sched[s] # none => db.sched[s].next \in Nat
      BY <1>1 DEF Program!Schedule
    <3> HIDE DEF sched
    <3> QED BY <3>1, <3>2, <2>3, <1>1
  <2> QED BY <2>2, <2>3
<1>5. ASSUME NEW o \in S
      PROVE /\ o[1] \in Schedules /\ o[2] \in Program!Days /\ db.sched[o[1]] # none
            /\ db.sched[o[1]].next <= o[2] /\ o[2] <= until /\ sched[o[1]].next = until + 1
  <2>1. o[1] \in Schedules /\ o[2] \in Program!Days
    BY DEF Program!Occurrences
  <2>2. PICK r \in due : o[1] = r[1] /\ o[2] \in r[2]..until
    BY DEF Program!Occurrences
  <2>3. db.sched[o[1]] # none /\ db.sched[o[1]].next = r[2]
    BY <2>2 DEF Reads
  <2>4. r[2] \in Int /\ until \in Int
    BY ProgramIs DEF Program!Days
  <2> HIDE DEF sched
  <2> QED BY <2>1, <2>2, <2>3, <2>4, <1>4
<1>6. ASSUME NEW i \in Program!Ids
      PROVE IF i \in new
            THEN /\ i - db.last \in 1..n /\ rows[i] \in Program!Entry /\ rows[i] # none
                 /\ rows[i].sched = at[i - db.last][1] /\ rows[i].day = at[i - db.last][2]
            ELSE rows[i] = db.rows[i]
  <2>1. CASE i \in new
    <3>1. i - db.last \in 1..n
      BY <2>1, <1>1
    <3> DEFINE o == at[i - db.last]
    <3>2. o \in S
      BY <3>1, <1>3
    <3>3. o[1] \in Schedules /\ o[2] \in Program!Days /\ AmountOf[o[1]] \in Amounts
      BY <3>2, <1>5, ProgramIs
    <3>4. rows[i] = Program!New(o[2], AmountOf[o[1]], o[1])
      BY <2>1
    <3> HIDE DEF o, rows, new
    <3>5. /\ rows[i] \in Program!Entry /\ rows[i] # none
          /\ rows[i].sched = o[1] /\ rows[i].day = o[2]
      BY <3>3, <3>4, NewIs
    <3> QED BY <2>1, <3>1, <3>5 DEF o
  <2>2. CASE i \notin new
    BY <2>2
  <2> QED BY <2>1, <2>2
<1>7. rows \in [Program!Ids -> Program!Entry \cup {none}] /\ db.last + n \in 0..MaxId
  <2>1. db.last + n \in 0..MaxId
    BY <1>1, ProgramIs
  <2>2. \A i \in Program!Ids : rows[i] \in Program!Entry \cup {none}
    BY <1>1, <1>6
  <2> QED BY <2>1, <2>2
<1>8. sched \in [Schedules -> Program!Schedule \cup {none}]
  BY <1>4
<1> HIDE DEF rows, sched, new, S
<1>9. f \in Program!Database /\ f.rows = rows /\ f.sched = sched /\ f.upgraded = db.upgraded
  BY <1>1, <1>2, <1>7, <1>8, DbOf
<1>10. ASSUME NEW i \in Program!Ids, NEW s \in Schedules, Holds(f, i, s)
       PROVE /\ f.sched[s] # none /\ f.rows[i].day < f.sched[s].next
             /\ IF i \in new THEN /\ i - db.last \in 1..n /\ s = at[i - db.last][1]
                                  /\ f.rows[i].day = at[i - db.last][2]
                                  /\ db.sched[s] # none /\ db.sched[s].next <= f.rows[i].day
                             ELSE /\ Holds(db, i, s) /\ f.rows[i] = db.rows[i]
                                  /\ db.sched[s] # none /\ f.rows[i].day < db.sched[s].next
  <2>1. rows[i] # none /\ rows[i].sched = s
    BY <1>9, <1>10 DEF Holds
  <2>2. CASE i \in new
    <3>1. i - db.last \in 1..n /\ s = at[i - db.last][1] /\ rows[i].day = at[i - db.last][2]
      BY <2>1, <2>2, <1>6
    <3>2. at[i - db.last] \in S
      BY <3>1, <1>3
    <3>3. /\ db.sched[s] # none /\ db.sched[s].next <= rows[i].day /\ rows[i].day <= until
          /\ sched[s].next = until + 1 /\ rows[i].day \in Program!Days
      BY <3>1, <3>2, <1>5
    <3>4. rows[i].day \in Int /\ until \in Int /\ sched[s] # none
      BY <3>3, <1>4, ProgramIs DEF Program!Days
    <3>5. rows[i].day < sched[s].next
      BY <3>3, <3>4
    <3> QED BY <3>1, <3>3, <3>4, <3>5, <2>2, <1>9
  <2>3. CASE i \notin new
    <3>1. rows[i] = db.rows[i] /\ Holds(db, i, s)
      BY <2>1, <2>3, <1>6 DEF Holds
    <3>2. db.sched[s] # none /\ rows[i].day < db.sched[s].next
      BY <3>1 DEF DbOk
    <3>3. sched[s] # none /\ db.sched[s].next <= sched[s].next
      BY <3>2, <1>4
    <3>4. db.sched[s].next \in Int /\ sched[s].next \in Int /\ rows[i].day \in Int
      <4>1. db.sched[s] \in Program!Schedule /\ sched[s] \in Program!Schedule
        BY <3>2, <3>3, <1>1, <1>4
      <4>2. rows[i] \in Program!Entry
        BY <2>1, <1>7
      <4>3. rows[i].day \in Int
        BY <4>2, ProgramIs DEF Program!Entry, Program!Days
      <4> QED BY <4>1, <4>3 DEF Program!Schedule
    <3>5. rows[i].day < sched[s].next
      BY <3>2, <3>3, <3>4
    <3> QED BY <3>1, <3>2, <3>3, <3>5, <2>3, <1>9
  <2> QED BY <2>2, <2>3
<1>11. ASSUME NEW i \in Program!Ids, NEW j \in Program!Ids, NEW s \in Schedules,
              Holds(f, i, s), Holds(f, j, s), f.rows[i].day = f.rows[j].day
       PROVE i = j
  <2>0. /\ i \in Int /\ j \in Int /\ db.last \in Int /\ n \in Int /\ f.rows[i].day \in Int
        /\ db.sched[s] # none => db.sched[s].next \in Int
    <3>1. i \in Int /\ j \in Int /\ db.last \in Int
      BY <1>1, ProgramIs DEF Program!Ids
    <3>2. rows[i] \in Program!Entry
      BY <1>7, <1>9, <1>11 DEF Holds
    <3>3. rows[i].day \in Int
      BY <3>2, ProgramIs DEF Program!Entry, Program!Days
    <3>4. db.sched[s] # none => db.sched[s].next \in Int
      BY <1>1 DEF Program!Schedule
    <3> QED BY <3>1, <3>3, <3>4, <1>9
  <2>1. CASE i \in new /\ j \in new
    <3>1. /\ i - db.last \in 1..n /\ j - db.last \in 1..n
          /\ at[i - db.last][1] = at[j - db.last][1] /\ at[i - db.last][2] = at[j - db.last][2]
      BY <2>1, <1>10, <1>11
    <3>2. ~(i - db.last < j - db.last) /\ ~(j - db.last < i - db.last)
      BY <3>1, <1>3
    <3> QED BY <3>2, <2>0
  <2>2. CASE i \notin new /\ j \notin new
    <3>1. Holds(db, i, s) /\ Holds(db, j, s) /\ db.rows[i].day = db.rows[j].day
      BY <2>2, <1>10, <1>11
    <3> QED BY <3>1 DEF DbOk
  <2>3. CASE i \in new /\ j \notin new
    BY <2>0, <2>3, <1>10, <1>11
  <2>4. CASE i \notin new /\ j \in new
    BY <2>0, <2>4, <1>10, <1>11
  <2> QED BY <2>1, <2>2, <2>3, <2>4
<1> QED BY <1>9, <1>10, <1>11 DEF DbOk

(* A change of the file, shown in a new list.                              *)
LEMMA ShownKeeps ==
  ASSUME DeskInv, file' \in Program!Database, DbOk(file)',
         prog' = [prog EXCEPT ![p1] = Program!Opened(file')], UNCHANGED <<backup, today>>
  PROVE DeskInv'
<1>1. prog' = [p \in {p1} |-> prog'[p1]] /\ prog'[p1] = Program!Opened(file')
  BY ProgStep
<1>2. PICK f : f = file'
  OBVIOUS
<1>3. f \in Program!Database /\ DbOk(f)
  BY <1>2 DEF DbOk, Holds
<1>4. DeskOk(f, backup, Program!Opened(f), today)
  BY <1>3, OpenKeeps DEF DeskInv, DeskOk
<1> QED BY <1>1, <1>2, <1>4 DEF DeskInv

LEMMA CatchUpKeeps == ASSUME DeskInv, Program!CatchUp(p1) PROVE DeskInv'
<1> DEFINE due == prog[p1].due  until == prog[p1].until
           S == Program!Occurrences(due, until)
<1>1. /\ prog[p1].mode = "starting" /\ file \in Program!Database /\ ~file.upgraded
      /\ UNCHANGED <<backup, today>>
      /\ prog' = [prog EXCEPT ![p1] = Program!Opened(file')]
      /\ file.last + Program!Cardinality(S) <= MaxId
  BY ReadableIs DEF Program!CatchUp
<1>2. PICK at \in Program!InOrder(due, S) :
        file' = Program!Advanced(Program!Posted(file, Program!Cardinality(S), at), due, until)
  BY DEF Program!CatchUp
<1>3. /\ due \in SUBSET (Schedules \X Program!Days) /\ until \in 0..LastDay
      /\ Reads(file, due, until) /\ DbOk(file)
  BY <1>1, ProgIs DEF DeskInv, DeskOk
<1>4. Cardinality(S) \in Nat /\ Program!Cardinality(S) = Cardinality(S)
  BY <1>3, OccurrencesFit, ProgramCounts
<1> HIDE DEF due, until
<1>5. PICK f : f = file'
  OBVIOUS
<1>6. f \in Program!Database /\ DbOk(f)
  BY <1>1, <1>2, <1>3, <1>4, <1>5, PostedIs
<1>7. file' \in Program!Database /\ DbOk(file)'
  BY <1>5, <1>6 DEF DbOk, Holds
<1> QED BY <1>1, <1>7, ShownKeeps

(* Entries that have no schedule change nothing for the others.            *)
LEMMA RowsMay ==
  ASSUME NEW db \in Program!Database, DbOk(db),
         NEW f \in Program!Database, f.sched = db.sched, f.upgraded \in BOOLEAN,
         \A i \in Program!Ids : f.rows[i] # none =>
            \/ f.rows[i].sched = none
            \/ db.rows[i] # none /\ f.rows[i].day = db.rows[i].day /\ f.rows[i].sched = db.rows[i].sched,
         f.upgraded => \A i \in Program!Ids : f.rows[i] # none => f.rows[i].cents = f.rows[i].amount
  PROVE DbOk(f)
<1>1. \A i \in Program!Ids, s \in Schedules : Holds(f, i, s) =>
        Holds(db, i, s) /\ f.rows[i].day = db.rows[i].day
  BY ProgramIs DEF Holds
<1> QED BY <1>1 DEF DbOk

LEMMA AddKeepsDesk ==
  ASSUME DeskInv, NEW n \in {1, 2}, Program!AddEntries(p1, n) PROVE DeskInv'
<1>1. /\ file \in Program!Database /\ file.last + n <= MaxId
      /\ UNCHANGED <<backup, today>> /\ prog' = [prog EXCEPT ![p1] = Program!Opened(file')]
      /\ today \in Program!Days /\ DbOk(file)
  BY ReadableIs, SMTT(30) DEF Program!AddEntries, Program!Ready, Program!Change, Program!Refreshed, DeskInv, DeskOk
<1>2. PICK a \in Amounts :
        /\ \A i \in 1..n : Program!MoneyChecked(file, Program!New(today, a, none))
        /\ file' = [file EXCEPT !.last = file.last + n, !.rows = [i \in Program!Ids |->
             IF i \in file.last + 1..file.last + n THEN Program!New(today, a, none) ELSE file.rows[i]]]
  BY DEF Program!AddEntries
<1> DEFINE e == Program!New(today, a, none)
           rows == [i \in Program!Ids |-> IF i \in file.last + 1..file.last + n THEN e ELSE file.rows[i]]
<1>3. /\ e \in Program!Entry /\ e # none /\ e.day = today /\ e.amount = a
      /\ e.cents = none /\ e.sched = none
  BY <1>1, NewIs
<1>4. ~file.upgraded
  <2>1. Program!MoneyChecked(file, e)
    BY <1>2
  <2> HIDE DEF e
  <2> QED BY <2>1, <1>3, ProgramIs DEF Program!MoneyChecked
<1> HIDE DEF e
<1>5. /\ file.rows \in [Program!Ids -> Program!Entry \cup {none}] /\ file.last \in 0..MaxId
      /\ file.sched \in [Schedules -> Program!Schedule \cup {none}] /\ file.upgraded \in BOOLEAN
      /\ file = [rows |-> file.rows, last |-> file.last, sched |-> file.sched, upgraded |-> file.upgraded]
  BY <1>1, DbIs, DbExcept
<1>6. rows \in [Program!Ids -> Program!Entry \cup {none}]
  BY <1>3, <1>5
<1>7. \A i \in Program!Ids : rows[i] = e \/ rows[i] = file.rows[i]
  OBVIOUS
<1>8. file' = [file EXCEPT !.last = file.last + n, !.rows = rows]
  BY <1>2 DEF e
<1> HIDE DEF rows
<1>9. PICK f : f = file'
  OBVIOUS
<1>10. f = [rows |-> rows, last |-> file.last + n, sched |-> file.sched, upgraded |-> file.upgraded]
  BY <1>5, <1>8, <1>9
<1>11. file.last + n \in 0..MaxId
  BY <1>1, <1>5, ProgramIs
<1>12. /\ f \in Program!Database /\ f.rows = rows /\ f.sched = file.sched /\ f.upgraded = file.upgraded
  BY <1>5, <1>6, <1>10, <1>11, DbOf
<1>13. DbOk(f)
  BY <1>1, <1>3, <1>4, <1>5, <1>7, <1>12, RowsMay
<1>14. file' \in Program!Database /\ DbOk(file)'
  BY <1>9, <1>12, <1>13 DEF DbOk, Holds
<1> QED BY <1>1, <1>14, ShownKeeps

(* One row becomes another, or none.                                       *)
LEMMA RowIs ==
  ASSUME file \in Program!Database, NEW i \in Program!Ids, NEW e \in Program!Entry \cup {none},
         file' = Program!WithRow(i, e)
  PROVE \E f \in Program!Database :
          /\ f = file' /\ f.sched = file.sched /\ f.upgraded = file.upgraded
          /\ f.rows[i] = e /\ \A j \in Program!Ids \ {i} : f.rows[j] = file.rows[j]
<1>0. PICK db : db = file
  OBVIOUS
<1> DEFINE rows == [db.rows EXCEPT ![i] = e]
<1>1. /\ db.rows \in [Program!Ids -> Program!Entry \cup {none}] /\ db.last \in 0..MaxId
      /\ db.sched \in [Schedules -> Program!Schedule \cup {none}] /\ db.upgraded \in BOOLEAN
      /\ db = [rows |-> db.rows, last |-> db.last, sched |-> db.sched, upgraded |-> db.upgraded]
  <2>1. db \in Program!Database
    BY <1>0
  <2> QED BY <2>1, DbIs, DbExcept
<1>2. /\ rows \in [Program!Ids -> Program!Entry \cup {none}] /\ rows[i] = e
      /\ \A j \in Program!Ids \ {i} : rows[j] = db.rows[j]
  BY <1>1
<1> HIDE DEF rows
<1>f. PICK f : f = file'
  OBVIOUS
<1>r. f = [db EXCEPT !.rows = [db.rows EXCEPT ![i] = e]]
  BY <1>0, <1>f DEF Program!WithRow
<1>3. f = [db EXCEPT !.rows = rows]
  BY <1>r DEF rows
<1>4. f = [rows |-> rows, last |-> db.last, sched |-> db.sched, upgraded |-> db.upgraded]
  BY <1>1, <1>3
<1>5. /\ f \in Program!Database /\ f.rows = rows /\ f.sched = db.sched /\ f.upgraded = db.upgraded
  BY <1>1, <1>2, <1>4, DbOf
<1> QED BY <1>0, <1>2, <1>f, <1>5

LEMMA DeleteEntryKeeps ==
  ASSUME DeskInv, NEW i \in Program!Ids, Program!DeleteEntry(p1, i) PROVE DeskInv'
<1>1. /\ file \in Program!Database /\ DbOk(file) /\ UNCHANGED <<backup, today>>
      /\ prog' = [prog EXCEPT ![p1] = Program!Opened(file')]
      /\ file' = Program!WithRow(i, none)
  BY ReadableIs DEF Program!DeleteEntry, Program!Ready, Program!Change, Program!Refreshed, DeskInv, DeskOk
<1>4. PICK f \in Program!Database :
        /\ f = file' /\ f.sched = file.sched /\ f.upgraded = file.upgraded
        /\ f.rows[i] = none /\ \A j \in Program!Ids \ {i} : f.rows[j] = file.rows[j]
  BY <1>1, RowIs
<1>5. DbOk(f)
  <2>1. file.upgraded => \A j \in Program!Ids : file.rows[j] # none => file.rows[j].cents = file.rows[j].amount
    BY <1>1 DEF DbOk
  <2>2. f.upgraded \in BOOLEAN
    BY <1>4, DbIs
  <2>3. f.upgraded => \A j \in Program!Ids : f.rows[j] # none => f.rows[j].cents = f.rows[j].amount
    BY <2>1, <1>4
  <2>4. \A j \in Program!Ids : f.rows[j] # none => f.rows[j] = file.rows[j]
    BY <1>4
  <2> QED BY <2>2, <2>3, <2>4, <1>1, <1>4, RowsMay
<1>6. file' \in Program!Database /\ DbOk(file)'
  BY <1>4, <1>5 DEF DbOk, Holds
<1> QED BY <1>1, <1>6, ShownKeeps

LEMMA SaveEditKeeps == ASSUME DeskInv, Program!SaveEdit(p1) PROVE DeskInv'
<1>1. /\ file \in Program!Database /\ DbOk(file) /\ UNCHANGED <<backup, today>>
      /\ prog' = [prog EXCEPT ![p1] = Program!Opened(file')]
      /\ prog[p1].dialog # 0 /\ prog[p1] \in Program!Program
  BY ReadableIs DEF Program!SaveEdit, Program!Change, Program!Refreshed, DeskInv, DeskOk
<1>2. PICK i \in Program!Ids : i = prog[p1].dialog
  BY <1>1, ProgIs
<1>3. CASE file.rows[i] = none
  <2>1. UNCHANGED file
    BY <1>2, <1>3 DEF Program!SaveEdit
  <2>2. DbOk(file)'
    BY <2>1, <1>1 DEF DbOk, Holds
  <2> QED BY <2>1, <2>2, <1>1, ShownKeeps
<1>4. CASE file.rows[i] # none
  <2>1. PICK a \in Amounts :
          /\ Program!MoneyChecked(file, [file.rows[i] EXCEPT !.amount = a])
          /\ file' = Program!WithRow(i, [file.rows[i] EXCEPT !.amount = a])
    BY <1>2, <1>4 DEF Program!SaveEdit
  <2>2. PICK e : e = [file.rows[i] EXCEPT !.amount = a]
    OBVIOUS
  <2>3. file.rows[i] \in Program!Entry
    BY <1>1, <1>4, DbIs
  <2>4. /\ e \in Program!Entry /\ e.day = file.rows[i].day /\ e.sched = file.rows[i].sched
        /\ e.cents = file.rows[i].cents /\ e.amount = a
    BY <2>2, <2>3 DEF Program!Entry
  <2>6. file' = Program!WithRow(i, e)
    BY <2>1, <2>2
  <2>7. PICK f \in Program!Database :
          /\ f = file' /\ f.sched = file.sched /\ f.upgraded = file.upgraded
          /\ f.rows[i] = e /\ \A j \in Program!Ids \ {i} : f.rows[j] = file.rows[j]
    BY <1>1, <2>4, <2>6, RowIs
  <2>8. DbOk(f)
    <3>1. file.upgraded => e.cents = e.amount
      BY <2>1, <2>2 DEF Program!MoneyChecked
    <3>2. file.upgraded => \A j \in Program!Ids : file.rows[j] # none => file.rows[j].cents = file.rows[j].amount
      BY <1>1 DEF DbOk
    <3>3. f.upgraded \in BOOLEAN
      BY <2>7, DbIs
    <3>4. f.upgraded => \A j \in Program!Ids : f.rows[j] # none => f.rows[j].cents = f.rows[j].amount
      BY <3>1, <3>2, <2>7
    <3>5. \A j \in Program!Ids : f.rows[j] # none =>
             file.rows[j] # none /\ f.rows[j].day = file.rows[j].day /\ f.rows[j].sched = file.rows[j].sched
      BY <1>4, <2>4, <2>7
    <3> QED BY <3>3, <3>4, <3>5, <1>1, <2>7, RowsMay
  <2>9. file' \in Program!Database /\ DbOk(file)'
    BY <2>7, <2>8 DEF DbOk, Holds
  <2> QED BY <2>9, <1>1, ShownKeeps
<1> QED BY <1>3, <1>4

(* What is not of entries.                                                 *)
LEMMA DialogsKeep ==
  ASSUME DeskInv, Program!CloseEdit(p1) \/ \E i \in Program!Ids : Program!OpenEdit(p1, i)
  PROVE DeskInv'
<1> DEFINE q == prog[p1]
<1>1. PICK i \in {0} \cup Program!Ids :
        /\ prog' = [prog EXCEPT ![p1].dialog = i] /\ UNCHANGED <<file, backup, today>>
        /\ q.mode = "open" /\ (i # 0 => file.rows[i] # none)
  BY DEF Program!CloseEdit, Program!OpenEdit, Program!Ready
<1>2. q \in Program!Program
  BY DEF DeskInv, DeskOk
<1>3. PICK r : r = [q EXCEPT !.dialog = i]
  OBVIOUS
<1>4. /\ r \in Program!Program /\ r.mode = q.mode /\ r.list = q.list /\ r.dialog = i
  <2>1. PICK o \in Program!Program : o = q
    BY <1>2
  <2>2. /\ o.mode \in {"closed", "starting", "open", "copying", "broken"}
        /\ o.due \in SUBSET (Schedules \X Program!Days) /\ o.until \in 0..LastDay
        /\ o.list \in [Program!Ids -> Program!Entry \cup {none}]
        /\ o = [mode |-> o.mode, due |-> o.due, until |-> o.until, list |-> o.list, dialog |-> o.dialog]
    BY ProgIs
  <2> HIDE DEF q
  <2>3. r = [o EXCEPT !.dialog = i]
    BY <1>3, <2>1
  <2>4. r = [mode |-> o.mode, due |-> o.due, until |-> o.until, list |-> o.list, dialog |-> i]
    BY <2>2, <2>3
  <2>5. r \in Program!Program /\ r.mode = o.mode /\ r.list = o.list /\ r.dialog = i
    BY <2>2, <2>4, ProgOf, SMTT(30)
  <2> QED BY <2>1, <2>5
<1>5. prog' = [prog EXCEPT ![p1] = r]
  BY <1>1, <1>3
<1>6. prog' = [p \in {p1} |-> prog'[p1]] /\ prog'[p1] = r
  BY <1>5, ProgStep
<1>7. DeskOk(file, backup, r, today)
  BY <1>1, <1>4 DEF DeskInv, DeskOk
<1> QED BY <1>1, <1>6, <1>7 DEF DeskInv

(* A change of schedules only.                                             *)
LEMMA SchedulesMay ==
  ASSUME DeskInv, prog[p1].mode = "open", NEW s \in Schedules, NEW c \in Program!Schedule,
         file \in Program!Database, file' = [file EXCEPT !.sched = [file.sched EXCEPT ![s] = c]],
         file.sched[s] = none \/ (file.sched[s] # none /\ c.next = file.sched[s].next),
         UNCHANGED <<prog, backup, today>>
  PROVE DeskInv'
<1> DEFINE sched == [file.sched EXCEPT ![s] = c]
<1>1. /\ file.rows \in [Program!Ids -> Program!Entry \cup {none}] /\ file.last \in 0..MaxId
      /\ file.sched \in [Schedules -> Program!Schedule \cup {none}] /\ file.upgraded \in BOOLEAN
      /\ file = [rows |-> file.rows, last |-> file.last, sched |-> file.sched, upgraded |-> file.upgraded]
  BY DbIs, DbExcept
<1>2. /\ sched \in [Schedules -> Program!Schedule \cup {none}] /\ sched[s] = c
      /\ \A t \in Schedules \ {s} : sched[t] = file.sched[t]
  BY <1>1
<1>3. file' = [file EXCEPT !.sched = sched]
  OBVIOUS
<1> HIDE DEF sched
<1>4. PICK f : f = file'
  OBVIOUS
<1>5. f = [rows |-> file.rows, last |-> file.last, sched |-> sched, upgraded |-> file.upgraded]
  BY <1>1, <1>3, <1>4
<1>6. f \in Program!Database /\ f.rows = file.rows /\ f.sched = sched /\ f.upgraded = file.upgraded
  BY <1>1, <1>2, <1>5, DbOf
<1>7. DbOk(file) /\ c # none
  BY ProgramIs DEF DeskInv, DeskOk
<1>8. \A t \in Schedules : file.sched[t] # none => sched[t] # none /\ sched[t].next = file.sched[t].next
  BY <1>2, <1>7
<1>9. \A i \in Program!Ids, t \in Schedules : Holds(f, i, t) <=> Holds(file, i, t)
  BY <1>6 DEF Holds
<1>10. DbOk(f)
  BY <1>6, <1>7, <1>8, <1>9 DEF DbOk
<1>11. DeskOk(f, backup, prog[p1], today)
  BY <1>6, <1>10 DEF DeskInv, DeskOk, Lists
<1> QED BY <1>4, <1>11 DEF DeskInv

LEMMA SchedulesKeep ==
  ASSUME DeskInv, NEW s \in Schedules, Program!AddSchedule(p1, s) \/ Program!RemoveSchedule(p1, s)
  PROVE DeskInv'
<1>1. /\ prog[p1].mode = "open" /\ file \in Program!Database /\ UNCHANGED <<prog, backup, today>>
      /\ today \in Program!Days
  BY ReadableIs DEF Program!AddSchedule, Program!RemoveSchedule, Program!Ready, DeskInv, DeskOk
<1>2. CASE Program!AddSchedule(p1, s)
  <2> DEFINE c == [next |-> today + 1, active |-> TRUE]
  <2>1. today + 1 \in Nat \ {0}
    BY <1>1, ProgramIs DEF Program!Days
  <2>2. c \in Program!Schedule
    BY <2>1 DEF Program!Schedule
  <2>3. file.sched[s] = none /\ file' = [file EXCEPT !.sched = [file.sched EXCEPT ![s] = c]]
    BY <1>2 DEF Program!AddSchedule, Program!WithSchedule
  <2> QED BY <2>2, <2>3, <1>1, SchedulesMay
<1>3. CASE Program!RemoveSchedule(p1, s)
  <2>1. PICK c : c = [file.sched[s] EXCEPT !.active = FALSE]
    OBVIOUS
  <2>2. file.sched[s] # none /\ file' = [file EXCEPT !.sched = [file.sched EXCEPT ![s] = c]]
    BY <1>3, <2>1 DEF Program!RemoveSchedule, Program!WithSchedule
  <2>3. file.sched[s] \in Program!Schedule
    BY <1>1, <2>2, DbIs
  <2>4. c \in Program!Schedule /\ c.next = file.sched[s].next
    BY <2>1, <2>3 DEF Program!Schedule
  <2> QED BY <2>2, <2>4, <1>1, SchedulesMay
<1> QED BY <1>2, <1>3

LEMMA MakeBackupKeeps == ASSUME DeskInv, Program!MakeBackup(p1) PROVE DeskInv'
<1>1. file \in Program!Database /\ backup' = file /\ UNCHANGED <<file, prog, today>>
  BY ReadableIs DEF Program!MakeBackup, Program!Ready
<1>2. DeskOk(file, file, prog[p1], today)
  BY <1>1 DEF DeskInv, DeskOk
<1> QED BY <1>1, <1>2 DEF DeskInv

(* A program that copies, or is broken, lists nothing to act on.           *)
LEMMA ModeIs ==
  ASSUME NEW q \in Program!Program, NEW m \in {"closed", "starting", "open", "copying", "broken"}
  PROVE [q EXCEPT !.mode = m] \in Program!Program /\ [q EXCEPT !.mode = m].mode = m
<1>1. PICK r : r = [q EXCEPT !.mode = m]
  OBVIOUS
<1>2. r = [mode |-> m, due |-> q.due, until |-> q.until, list |-> q.list, dialog |-> q.dialog]
  BY <1>1, ProgIs
<1>3. /\ q.due \in SUBSET (Schedules \X Program!Days) /\ q.until \in 0..LastDay
      /\ q.list \in [Program!Ids -> Program!Entry \cup {none}] /\ q.dialog \in {0} \cup Program!Ids
  BY ProgIs
<1>4. r \in Program!Program /\ r.mode = m
  BY <1>2, <1>3 DEF Program!Program
<1> QED BY <1>1, <1>4

LEMMA BackupKeeps ==
  ASSUME DeskInv, Program!BeginRestore(p1) \/ Program!Copied(p1) \/ Program!CopyFails(p1)
  PROVE DeskInv'
<1>0. prog[p1] \in Program!Program
  BY DEF DeskInv, DeskOk
<1>1. CASE Program!BeginRestore(p1)
  <2>1. PICK r : r = [prog[p1] EXCEPT !.mode = "copying"]
    OBVIOUS
  <2>2. /\ backup \in Program!Database /\ UNCHANGED <<file, backup, today>>
        /\ prog' = [prog EXCEPT ![p1] = r]
    BY <1>1, <2>1 DEF Program!BeginRestore, Program!Valid, DeskInv, DeskOk
  <2>3. r \in Program!Program /\ r.mode = "copying"
    BY <1>0, <2>1, ModeIs
  <2>4. DeskOk(file, backup, r, today)
    BY <2>2, <2>3 DEF DeskInv, DeskOk
  <2> QED BY <2>2, <2>4, ProgStep DEF DeskInv
<1>2. CASE Program!Copied(p1)
  <2>1. backup \in Program!Database /\ DbOk(backup) /\ file' = backup
    BY <1>2 DEF Program!Copied, DeskInv, DeskOk
  <2>2. prog' = [prog EXCEPT ![p1] = Program!Opened(file')] /\ UNCHANGED <<backup, today>>
    BY <1>2, <2>1, ProgramIs DEF Program!Copied, Program!Shown, Program!Refreshed
  <2>3. DbOk(file)'
    BY <2>1 DEF DbOk, Holds
  <2> QED BY <2>1, <2>2, <2>3, ShownKeeps
<1>3. CASE Program!CopyFails(p1)
  <2>1. PICK r : r = [prog[p1] EXCEPT !.mode = "broken"]
    OBVIOUS
  <2>2. /\ file' \in {file, torn} /\ UNCHANGED <<backup, today>>
        /\ prog' = [prog EXCEPT ![p1] = r]
    BY <1>3, <2>1 DEF Program!CopyFails
  <2>3. r \in Program!Program /\ r.mode = "broken"
    BY <1>0, <2>1, ModeIs
  <2>4. DeskOk(file, backup, r, today) /\ DeskOk(torn, backup, r, today)
    BY <2>3, ProgramIs DEF DeskInv, DeskOk
  <2> QED BY <2>2, <2>4, ProgStep DEF DeskInv
<1> QED BY <1>1, <1>2, <1>3

LEMMA UpgradeKeeps == ASSUME DeskInv, Program!Upgrade PROVE DeskInv'
<1> DEFINE rows == [i \in Program!Ids |-> IF file.rows[i] = none THEN none
                                          ELSE [file.rows[i] EXCEPT !.cents = file.rows[i].amount]]
<1>1. /\ file \in Program!Database /\ DbOk(file) /\ UNCHANGED <<backup, prog, today>>
      /\ file' = [file EXCEPT !.upgraded = TRUE, !.rows = rows]
  BY ReadableIs DEF Program!Upgrade, DeskInv, DeskOk
<1>2. /\ file.rows \in [Program!Ids -> Program!Entry \cup {none}] /\ file.last \in 0..MaxId
      /\ file.sched \in [Schedules -> Program!Schedule \cup {none}] /\ file.upgraded \in BOOLEAN
      /\ file = [rows |-> file.rows, last |-> file.last, sched |-> file.sched, upgraded |-> file.upgraded]
  BY <1>1, DbIs, DbExcept
<1>3. ASSUME NEW i \in Program!Ids
      PROVE /\ rows[i] \in Program!Entry \cup {none}
            /\ (rows[i] = none <=> file.rows[i] = none)
            /\ rows[i] # none => Alike(rows[i], file.rows[i]) /\ rows[i].cents = rows[i].amount
  <2>1. CASE file.rows[i] = none
    BY <2>1
  <2>2. CASE file.rows[i] # none
    <3>1. PICK e : e = [file.rows[i] EXCEPT !.cents = file.rows[i].amount]
      OBVIOUS
    <3>2. file.rows[i] \in Program!Entry
      BY <1>2, <2>2
    <3>3. e \in Program!Entry /\ Alike(e, file.rows[i]) /\ e.cents = e.amount
      BY <3>1, <3>2 DEF Program!Entry, Alike
    <3>4. rows[i] = e /\ e # none
      BY <2>2, <3>1, <3>3, ProgramIs
    <3> HIDE DEF rows
    <3> QED BY <2>2, <3>3, <3>4
  <2> QED BY <2>1, <2>2
<1>4. rows \in [Program!Ids -> Program!Entry \cup {none}]
  <2>1. rows = [i \in Program!Ids |-> rows[i]]
    OBVIOUS
  <2> HIDE DEF rows
  <2>2. \A i \in Program!Ids : rows[i] \in Program!Entry \cup {none}
    BY <1>3
  <2> QED BY <2>1, <2>2
<1> HIDE DEF rows
<1>5. PICK f : f = file'
  OBVIOUS
<1>6. f = [rows |-> rows, last |-> file.last, sched |-> file.sched, upgraded |-> TRUE]
  BY <1>1, <1>2, <1>5
<1>7. f \in Program!Database /\ f.rows = rows /\ f.sched = file.sched /\ f.upgraded = TRUE
  <2>1. /\ file.last \in 0..MaxId /\ file.sched \in [Schedules -> Program!Schedule \cup {none}]
    BY <1>2
  <2> QED BY <1>4, <1>6, <2>1 DEF Program!Database
<1>8. DbOk(f)
  BY <1>1, <1>3, <1>7, RowsMay DEF Alike
<1>9. ASSUME NEW list, Lists(file, list) PROVE Lists(f, list)
  BY <1>3, <1>7, <1>9 DEF Lists, Alike
<1>10. \A i \in Program!Ids : file.rows[i] # none => f.rows[i] # none
  BY <1>3, <1>7
<1>11. \A due, until : Reads(file, due, until) => Reads(f, due, until)
  BY <1>7 DEF Reads
<1>12. prog[p1].dialog \in {0} \cup Program!Ids
  BY ProgIs DEF DeskInv, DeskOk
<1>13. DeskOk(f, backup, prog[p1], today)
  BY <1>1, <1>7, <1>8, <1>9, <1>10, <1>11, <1>12 DEF DeskInv, DeskOk
<1> QED BY <1>1, <1>5, <1>13 DEF DeskInv

LEMMA AroundKeeps == ASSUME DeskInv, Program!DamageBackup \/ Program!NextDay PROVE DeskInv'
<1>1. CASE Program!DamageBackup
  <2>1. backup' = bad /\ prog[p1].mode # "copying" /\ UNCHANGED <<file, prog, today>>
    BY <1>1 DEF Program!DamageBackup
  <2>2. DeskOk(file, bad, prog[p1], today)
    BY <2>1, ProgramIs DEF DeskInv, DeskOk
  <2> QED BY <2>1, <2>2 DEF DeskInv
<1>2. CASE Program!NextDay
  <2>1. today < LastDay /\ today' = today + 1 /\ UNCHANGED <<file, backup, prog>>
    BY <1>2 DEF Program!NextDay
  <2>2. today' \in Program!Days
    BY <2>1, ProgramIs DEF DeskInv, DeskOk, Program!Days
  <2>3. DeskOk(file, backup, prog[p1], today')
    BY <2>2 DEF DeskInv, DeskOk
  <2> QED BY <2>1, <2>3 DEF DeskInv
<1> QED BY <1>1, <1>2

LEMMA DeskBegins == ASSUME Program!Init PROVE DeskInv
<1>1. PICK f : f = file
  OBVIOUS
<1>2. f = [rows |-> Program!NoRows, last |-> 0, sched |-> [s \in Schedules |-> none], upgraded |-> FALSE]
  BY <1>1 DEF Program!Init
<1>3. /\ Program!NoRows \in [Program!Ids -> Program!Entry \cup {none}] /\ 0 \in 0..MaxId
      /\ 1 \in Program!Days
  BY ProgramIs DEF Program!NoRows, Program!Days
<1>4. f \in Program!Database /\ f.rows = Program!NoRows /\ f.upgraded = FALSE
  <2>1. PICK u \in BOOLEAN : u = FALSE
    OBVIOUS
  <2>2. PICK c \in [Schedules -> Program!Schedule \cup {none}] : c = [s \in Schedules |-> none]
    OBVIOUS
  <2>3. f = [rows |-> Program!NoRows, last |-> 0, sched |-> c, upgraded |-> u]
    BY <1>2, <2>1, <2>2
  <2> QED BY <1>3, <2>1, <2>3, DbOf
<1>5. DbOk(f)
  BY <1>4 DEF DbOk, Holds, Program!NoRows
<1>6. /\ backup = none /\ today = 1 /\ prog = [p \in {p1} |-> Program!Closed]
  BY DEF Program!Init
<1>7. DeskOk(f, none, Program!Closed, 1)
  BY <1>3, <1>4, <1>5, ClosedIs, ProgramIs DEF DeskOk
<1> QED BY <1>1, <1>6, <1>7 DEF DeskInv

LEMMA DeskGoesOn == ASSUME DeskInv, [Program!Next]_Program!vars PROVE DeskInv'
<1>1. ASSUME UNCHANGED Program!vars PROVE DeskInv'
  BY <1>1 DEF Program!vars, DeskInv
<1>2. ASSUME Program!AddTransaction(p1) \/ Program!ImportFromCsv(p1) PROVE DeskInv'
  BY <1>2, AddKeepsDesk DEF Program!AddTransaction, Program!ImportFromCsv
<1>3. ASSUME Program!CloseEdit(p1) \/ \E i \in Program!Ids : Program!OpenEdit(p1, i) PROVE DeskInv'
  BY <1>3, DialogsKeep
<1> QED BY <1>1, <1>2, <1>3, StartsKeep, ShutsKeep, CatchUpKeeps, DeleteEntryKeeps, SaveEditKeeps,
           SchedulesKeep, MakeBackupKeeps, BackupKeeps, UpgradeKeeps, AroundKeeps DEF Program!Next

(* With one program, for any schedules and days: what a database holds of  *)
(* a schedule is before its next date, once, and what the window lists is  *)
(* what the file has, but for cents (process_recurring_transactions).      *)
THEOREM DeskInvariance == Program!Spec => []DeskInv
<1>1. Program!Init => DeskInv
  BY DeskBegins
<1>2. DeskInv /\ [Program!Next]_Program!vars => DeskInv'
  BY DeskGoesOn
<1> QED BY <1>1, <1>2, PTL DEF Program!Spec

(* With one program, for any schedules, amounts and days: it posts no      *)
(* occurrence twice, though it is killed, days pass and backups come back, *)
(* restores no file that fails the check, and keeps amounts and cents in   *)
(* step once the file is upgraded (restore_backup).                        *)
THEOREM DesktopHolds == Program!Spec => []DesktopKeepsBooks
<1>1. DeskInv => DesktopKeepsBooks
  <2>1. ASSUME DeskInv PROVE Program!PostedOnce
    <3> SUFFICES ASSUME file \in Program!Database, NEW s \in Schedules, NEW d \in Program!Days
                 PROVE Program!Cardinality({i \in Program!Ids : file.rows[i] # none
                          /\ file.rows[i].sched = s /\ file.rows[i].day = d}) <= 1
      BY <2>1, ReadableIs DEF Program!PostedOnce
    <3> DEFINE X == {i \in Program!Ids : file.rows[i] # none
                          /\ file.rows[i].sched = s /\ file.rows[i].day = d}
    <3>1. \A i, j \in X : i = j
      BY <2>1 DEF DeskInv, DeskOk, DbOk, Holds
    <3>2. X = {} \/ \E i \in X : X = {i}
      BY <3>1
    <3>3. Cardinality(X) \in {0, 1}
      <4> HIDE DEF X
      <4> QED BY <3>2, FS_EmptySet, FS_Singleton
    <3> QED BY <3>3, ProgramCounts
  <2>2. ASSUME DeskInv PROVE Program!NothingBadRestored /\ Program!MoneyAgrees
    BY <2>2, ReadableIs, ProgramIs
       DEF DeskInv, DeskOk, DbOk, Program!NothingBadRestored, Program!MoneyAgrees
  <2> QED BY <2>1, <2>2 DEF DesktopKeepsBooks
<1> QED BY <1>1, DeskInvariance, PTL

(* What is acted on is what is listed.                                     *)
LEMMA ListedIs ==
  ASSUME DeskInv, NEW i \in Program!Ids,
         Program!DeleteEntry(p1, i) \/ (Program!SaveEdit(p1) /\ prog[p1].dialog = i)
  PROVE /\ file.rows[i] # none
        /\ [file.rows[i] EXCEPT !.cents = none] = [prog[p1].list[i] EXCEPT !.cents = none]
<1>1. prog[p1].mode = "open" /\ prog[p1] \in Program!Program
  BY DEF Program!DeleteEntry, Program!Ready, Program!SaveEdit, DeskInv, DeskOk
<1>2. file \in Program!Database /\ Lists(file, prog[p1].list)
  BY <1>1 DEF DeskInv, DeskOk
<1>3. file.rows[i] # none
  <2>1. i # 0
    BY ProgramIs DEF Program!Ids
  <2>2. CASE Program!DeleteEntry(p1, i)
    BY <1>2, <2>2 DEF Program!DeleteEntry, Lists
  <2>3. CASE Program!SaveEdit(p1) /\ prog[p1].dialog = i
    BY <1>1, <2>1, <2>3 DEF DeskInv, DeskOk
  <2> QED BY <2>2, <2>3
<1>4. Alike(file.rows[i], prog[p1].list[i]) /\ prog[p1].list[i] # none
  BY <1>2, <1>3 DEF Lists
<1>5. PICK e \in Program!Entry : e = file.rows[i]
  BY <1>2, <1>3, DbIs
<1>6. PICK l \in Program!Entry : l = prog[p1].list[i]
  BY <1>1, <1>4, ProgIs
<1>7. [e EXCEPT !.cents = none] = [l EXCEPT !.cents = none]
  BY <1>4, <1>5, <1>6 DEF Program!Entry, Alike
<1> QED BY <1>3, <1>5, <1>6, <1>7

(* Once upgraded, entries stay but for a restore.                          *)
LEMMA UpgradedStay ==
  ASSUME DeskInv, [Program!Next]_Program!vars, Program!Readable, file.upgraded,
         ~Program!Copied(p1), ~Program!CopyFails(p1), NEW i \in Program!Ids, file.rows[i] # none
  PROVE file'.rows[i] # none
<1>1. file \in Program!Database
  BY ReadableIs
<1>2. ASSUME UNCHANGED file PROVE file'.rows[i] # none
  BY <1>2
<1>3. ASSUME NEW n \in {1, 2}, Program!AddEntries(p1, n) PROVE FALSE
  <2>1. today \in Program!Days
    BY DEF DeskInv, DeskOk
  <2>2. PICK a \in Amounts : \A j \in 1..n : Program!MoneyChecked(file, Program!New(today, a, none))
    BY <1>3 DEF Program!AddEntries
  <2> DEFINE e == Program!New(today, a, none)
  <2>3. Program!MoneyChecked(file, e)
    BY <2>2
  <2>4. e.amount = a /\ e.cents = none
    BY <2>1, NewIs
  <2> HIDE DEF e
  <2> QED BY <2>3, <2>4, ProgramIs DEF Program!MoneyChecked
<1>4. ASSUME NEW j \in Program!Ids, Program!DeleteEntry(p1, j) PROVE FALSE
  BY <1>4 DEF Program!DeleteEntry, Program!MayDelete
<1>5. ASSUME Program!SaveEdit(p1) PROVE file'.rows[i] # none
  <2>1. prog[p1].dialog # 0 /\ prog[p1] \in Program!Program
    BY <1>5 DEF Program!SaveEdit, DeskInv, DeskOk
  <2>2. PICK j \in Program!Ids : j = prog[p1].dialog
    BY <2>1, ProgIs
  <2>3. CASE file.rows[j] = none
    BY <1>5, <2>2, <2>3 DEF Program!SaveEdit
  <2>4. CASE file.rows[j] # none
    <3>1. PICK a \in Amounts :
            file' = Program!WithRow(j, [file.rows[j] EXCEPT !.amount = a])
      BY <1>5, <2>2, <2>4 DEF Program!SaveEdit
    <3>2. PICK e : e = [file.rows[j] EXCEPT !.amount = a]
      OBVIOUS
    <3>3. file.rows[j] \in Program!Entry
      BY <1>1, <2>4, DbIs
    <3>4. e \in Program!Entry /\ e # none
      BY <3>2, <3>3, ProgramIs DEF Program!Entry
    <3>5. file' = Program!WithRow(j, e)
      BY <3>1, <3>2
    <3>6. file \in Program!Database /\ e \in Program!Entry \cup {none}
      BY <1>1, <3>4
    <3>7. PICK f \in Program!Database :
            /\ f = file' /\ f.sched = file.sched /\ f.upgraded = file.upgraded
            /\ f.rows[j] = e /\ \A k \in Program!Ids \ {j} : f.rows[k] = file.rows[k]
      BY <3>5, <3>6, RowIs
    <3> QED BY <3>4, <3>7
  <2> QED BY <2>3, <2>4
<1>6. ASSUME NEW s \in Schedules, Program!AddSchedule(p1, s) \/ Program!RemoveSchedule(p1, s)
      PROVE file'.rows[i] # none
  <2>1. PICK x : file' = [file EXCEPT !.sched = x]
    BY <1>6 DEF Program!AddSchedule, Program!RemoveSchedule, Program!WithSchedule
  <2>2. file'.rows = file.rows
    BY <2>1, <1>1, DbExcept
  <2> QED BY <2>2
<1>7. ~Program!Upgrade /\ ~Program!CatchUp(p1)
  BY DEF Program!Upgrade, Program!CatchUp
<1>8. CASE UNCHANGED Program!vars
  BY <1>2, <1>8 DEF Program!vars
<1>9. CASE Program!DamageBackup \/ Program!NextDay \/ Program!Start(p1) \/ Program!StartRefused(p1)
           \/ Program!Close(p1) \/ Program!CloseEdit(p1) \/ Program!MakeBackup(p1)
           \/ Program!BeginRestore(p1) \/ \E j \in Program!Ids : Program!OpenEdit(p1, j)
  BY <1>2, <1>9 DEF Program!DamageBackup, Program!NextDay, Program!Start, Program!StartRefused,
     Program!Close, Program!CloseEdit, Program!MakeBackup, Program!BeginRestore, Program!OpenEdit
<1> QED BY <1>3, <1>4, <1>5, <1>6, <1>7, <1>8, <1>9
        DEF Program!Next, Program!AddTransaction, Program!ImportFromCsv

(* With one program: what is edited or deleted by its id is the entry that *)
(* is listed under it, and once the file is upgraded, entries go only by a *)
(* restore (legacy_desktop.py, migration 5's triggers).                    *)
THEOREM DesktopActs == Program!Spec => ActsOnWhatIsListed
<1>1. DeskInv /\ [Program!Next]_Program!vars =>
        [\A p \in {p1}, i \in Program!Ids :
           Program!DeleteEntry(p, i) \/ (Program!SaveEdit(p) /\ prog[p].dialog = i) =>
             /\ file.rows[i] # none
             /\ [file.rows[i] EXCEPT !.cents = none] = [prog[p].list[i] EXCEPT !.cents = none]]_Program!vars
  BY ListedIs
<1>2. DeskInv /\ [Program!Next]_Program!vars =>
        [Program!Readable /\ file.upgraded /\ ~(\E p \in {p1} : Program!Copied(p) \/ Program!CopyFails(p)) =>
           \A i \in Program!Ids : file.rows[i] # none => file'.rows[i] # none]_Program!vars
  BY UpgradedStay
<1> QED BY <1>1, <1>2, DeskInvariance, PTL
        DEF Program!Spec, ActsOnWhatIsListed, Program!ActsOnWhatIsListed, Program!EntriesStay

-----------------------------------------------------------------------------
(* Sums (the instance Report).  What holds of a finite set if it holds of  *)
(* its proper subsets.                                                     *)
LEMMA Descent ==
  ASSUME NEW S, IsFiniteSet(S), NEW G,
         \A U \in SUBSET S : (\A V \in SUBSET U : V # U => V \in G) => U \in G
  PROVE  \A U \in SUBSET S : U \in G
<1> SUFFICES ASSUME {U \in SUBSET S : U \notin G} # {} PROVE FALSE
  OBVIOUS
<1>1. PICK T : T = {U \in SUBSET S : U \notin G}
  OBVIOUS
<1>2. T \subseteq FiniteSubsetsOf(S) /\ T # {}
  BY <1>1, FS_Subset DEF FiniteSubsetsOf
<1>3. PICK U \in T : \A V \in T : <<V, U>> \notin StrictSubsetOrdering(S)
  BY <1>2, FS_StrictSubsetOrderingWellFounded, WFMin
<1>4. \A V \in SUBSET U : V # U => V \in G
  BY <1>1, <1>3 DEF StrictSubsetOrdering
<1> QED BY <1>1, <1>3, <1>4

(* What the fold of a sum adds next, and the function it makes of that.    *)
Picked(s) == CHOOSE x \in s : TRUE
Adds(g, f, S) ==
  g = [s \in SUBSET S |-> IF s = {} THEN 0 ELSE f[Picked(s)] + g[s \ {Picked(s)}]]

LEMMA SumIs ==
  ASSUME NEW f, NEW S
  PROVE  SumFunctionOnSet(f, S) = (CHOOSE g : Adds(g, f, S))[S]
BY DEF SumFunctionOnSet, FoldFunctionOnSet, MapThenFoldSet, Adds, Picked

LEMMA NextIsIn == \A s : s # {} => Picked(s) \in s
BY DEF Picked

LEMMA AddsOnce ==
  ASSUME NEW f, NEW S, NEW T, IsFiniteSet(T), T \subseteq S, NEW g, NEW h,
         Adds(g, f, S), Adds(h, f, T)
  PROVE  g[T] = h[T]
<1>1. PICK G : G = {U \in SUBSET T : g[U] = h[U]}
  OBVIOUS
<1>2. ASSUME NEW U \in SUBSET T, \A V \in SUBSET U : V # U => V \in G
      PROVE  U \in G
  <2>1. /\ g[U] = IF U = {} THEN 0 ELSE f[Picked(U)] + g[U \ {Picked(U)}]
        /\ h[U] = IF U = {} THEN 0 ELSE f[Picked(U)] + h[U \ {Picked(U)}]
    BY DEF Adds
  <2>2. CASE U # {}
    <3>1. Picked(U) \in U
      BY <2>2, NextIsIn
    <3>2. U \ {Picked(U)} \in G
      BY <1>2, <3>1
    <3> QED BY <1>1, <2>1, <2>2, <3>2
  <2> QED BY <1>1, <2>1, <2>2
<1>3. \A U \in SUBSET T : U \in G
  BY <1>2, Descent
<1> QED BY <1>1, <1>3

LEMMA AddsExists ==
  ASSUME NEW f, NEW S, IsFiniteSet(S)
  PROVE  \E g : Adds(g, f, S)
<1>1. PICK G : G = {U \in SUBSET S : \E g : Adds(g, f, U)}
  OBVIOUS
<1>2. ASSUME NEW U \in SUBSET S, \A V \in SUBSET U : V # U => V \in G
      PROVE  U \in G
  <2>0. \A V \in SUBSET U : IsFiniteSet(V)
    BY FS_Subset
  <2>1. \A V \in SUBSET U : V # U => Adds(CHOOSE g : Adds(g, f, V), f, V)
    BY <1>1, <1>2
  <2> DEFINE sum(V) == (CHOOSE g : Adds(g, f, V))[V]
             value(V) == IF V = {} THEN 0 ELSE f[Picked(V)] + sum(V \ {Picked(V)})
             g == [V \in SUBSET U |-> value(V)]
  <2>2. ASSUME NEW V \in SUBSET U, V # U PROVE sum(V) = value(V)
    <3>1. PICK h : h = (CHOOSE x : Adds(x, f, V)) /\ Adds(h, f, V)
      BY <2>1, <2>2
    <3>2. h[V] = IF V = {} THEN 0 ELSE f[Picked(V)] + h[V \ {Picked(V)}]
      BY <3>1 DEF Adds
    <3>3. CASE V # {}
      <4>1. PICK W : W = V \ {Picked(V)}
        OBVIOUS
      <4>2. W \in SUBSET U /\ W # U /\ W \subseteq V
        BY <4>1, <3>3, NextIsIn
      <4>3. h[W] = sum(W)
        BY <2>0, <2>1, <3>1, <4>2, AddsOnce
      <4> QED BY <3>1, <3>2, <3>3, <4>1, <4>3
    <3> QED BY <3>1, <3>2, <3>3
  <2>3. ASSUME NEW V \in SUBSET U, V # {} PROVE g[V \ {Picked(V)}] = sum(V \ {Picked(V)})
    <3>1. V \ {Picked(V)} \in SUBSET U /\ V \ {Picked(V)} # U
      BY <2>3, NextIsIn
    <3> QED BY <2>2, <3>1
  <2>4. g = [V \in SUBSET U |-> IF V = {} THEN 0 ELSE f[Picked(V)] + g[V \ {Picked(V)}]]
    <3> HIDE DEF sum
    <3>1. \A V \in SUBSET U : value(V) = IF V = {} THEN 0 ELSE f[Picked(V)] + g[V \ {Picked(V)}]
      BY <2>3
    <3> QED BY <3>1
  <2>5. Adds(g, f, U)
    <3> HIDE DEF g
    <3> QED BY <2>4 DEF Adds
  <2> QED BY <1>1, <2>5
<1>3. S \in G
  BY <1>2, Descent
<1> QED BY <1>1, <1>3

LEMMA SumOfNone == ASSUME NEW f PROVE SumFunctionOnSet(f, {}) = 0
<1>1. IsFiniteSet({})
  BY FS_EmptySet
<1>2. PICK g : g = (CHOOSE x : Adds(x, f, {})) /\ Adds(g, f, {})
  BY <1>1, AddsExists
<1>3. g[{}] = 0
  BY <1>2 DEF Adds
<1> QED BY <1>2, <1>3, SumIs

LEMMA SumOfNext ==
  ASSUME NEW f, NEW S, IsFiniteSet(S), S # {}
  PROVE  SumFunctionOnSet(f, S) = f[Picked(S)] + SumFunctionOnSet(f, S \ {Picked(S)})
<1>1. PICK T : T = S \ {Picked(S)}
  OBVIOUS
<1>2. IsFiniteSet(T) /\ T \subseteq S
  BY <1>1, FS_Subset
<1>3. PICK g : g = (CHOOSE x : Adds(x, f, S)) /\ Adds(g, f, S)
  BY AddsExists
<1>4. PICK h : h = (CHOOSE x : Adds(x, f, T)) /\ Adds(h, f, T)
  BY <1>2, AddsExists
<1>5. g[T] = h[T]
  BY <1>2, <1>3, <1>4, AddsOnce
<1>6. g[S] = f[Picked(S)] + g[T]
  BY <1>1, <1>3 DEF Adds
<1> QED BY <1>1, <1>3, <1>4, <1>5, <1>6, SumIs

(* The sum of integers.                                                    *)
LEMMA SumIsInt ==
  ASSUME NEW f, NEW S, IsFiniteSet(S), \A x \in S : f[x] \in Int
  PROVE  \A T \in SUBSET S : SumFunctionOnSet(f, T) \in Int
<1>1. PICK G : G = {U \in SUBSET S : SumFunctionOnSet(f, U) \in Int}
  OBVIOUS
<1>2. ASSUME NEW U \in SUBSET S, \A V \in SUBSET U : V # U => V \in G
      PROVE  U \in G
  <2>1. CASE U = {}
    BY <1>1, <2>1, SumOfNone
  <2>2. CASE U # {}
    <3>1. Picked(U) \in U /\ U \ {Picked(U)} \in G /\ f[Picked(U)] \in Int
      BY <1>2, <2>2, NextIsIn
    <3>2. SumFunctionOnSet(f, U) = f[Picked(U)] + SumFunctionOnSet(f, U \ {Picked(U)})
      BY <2>2, FS_Subset, SumOfNext
    <3> QED BY <1>1, <3>1, <3>2
  <2> QED BY <2>1, <2>2
<1>3. \A T \in SUBSET S : T \in G
  BY <1>2, Descent
<1> QED BY <1>1, <1>3

(* The order does not matter.                                              *)
LEMMA SumLess ==
  ASSUME NEW f, NEW S, IsFiniteSet(S), \A x \in S : f[x] \in Int
  PROVE  \A x \in S : SumFunctionOnSet(f, S) = f[x] + SumFunctionOnSet(f, S \ {x})
<1>1. PICK G : G = {U \in SUBSET S : \A x \in U :
                      SumFunctionOnSet(f, U) = f[x] + SumFunctionOnSet(f, U \ {x})}
  OBVIOUS
<1>2. ASSUME NEW U \in SUBSET S, \A V \in SUBSET U : V # U => V \in G
      PROVE  U \in G
  <2> SUFFICES ASSUME NEW x \in U
               PROVE  SumFunctionOnSet(f, U) = f[x] + SumFunctionOnSet(f, U \ {x})
    BY <1>1
  <2>1. PICK p : p = Picked(U)
    OBVIOUS
  <2>2. /\ p \in U
        /\ SumFunctionOnSet(f, U) = f[p] + SumFunctionOnSet(f, U \ {p})
    BY <2>1, NextIsIn, FS_Subset, SumOfNext
  <2>3. CASE x = p
    BY <2>2, <2>3
  <2>4. CASE x # p
    <3>1. U \ {p} \in G /\ x \in U \ {p} /\ U \ {x} \in G /\ p \in U \ {x}
      BY <1>2, <2>2, <2>4
    <3>2. SumFunctionOnSet(f, U \ {p}) = f[x] + SumFunctionOnSet(f, (U \ {p}) \ {x})
      BY <1>1, <3>1
    <3>3. SumFunctionOnSet(f, U \ {x}) = f[p] + SumFunctionOnSet(f, (U \ {x}) \ {p})
      BY <1>1, <3>1
    <3>4. (U \ {p}) \ {x} = (U \ {x}) \ {p}
      OBVIOUS
    <3>5. PICK m : m = SumFunctionOnSet(f, (U \ {p}) \ {x})
      OBVIOUS
    <3>6. m \in Int /\ f[x] \in Int /\ f[p] \in Int
      BY <2>2, <3>5, SumIsInt
    <3>7. PICK s, t, u : /\ s = SumFunctionOnSet(f, U \ {p})
                         /\ t = SumFunctionOnSet(f, U \ {x}) /\ u = SumFunctionOnSet(f, U)
      OBVIOUS
    <3>8. u = f[p] + s /\ s = f[x] + m /\ t = f[p] + m
      BY <2>2, <3>2, <3>3, <3>4, <3>5, <3>7
    <3>9. u = f[x] + t
      BY <3>6, <3>8
    <3> QED BY <3>7, <3>9
  <2> QED BY <2>3, <2>4
<1>3. S \in G
  BY <1>2, Descent
<1> QED BY <1>1, <1>3

LEMMA SumOfBoth ==
  ASSUME NEW f, NEW A, NEW B, IsFiniteSet(A), IsFiniteSet(B), A \cap B = {},
         \A x \in A \cup B : f[x] \in Int
  PROVE  SumFunctionOnSet(f, A \cup B) = SumFunctionOnSet(f, A) + SumFunctionOnSet(f, B)
<1>1. PICK G : G = {U \in SUBSET B :
                 SumFunctionOnSet(f, A \cup U) = SumFunctionOnSet(f, A) + SumFunctionOnSet(f, U)}
  OBVIOUS
<1>0. PICK C : C = A \cup B /\ IsFiniteSet(C)
  BY FS_Union
<1>2. ASSUME NEW U \in SUBSET B, \A V \in SUBSET U : V # U => V \in G
      PROVE  U \in G
  <2>0. SumFunctionOnSet(f, A) \in Int /\ IsFiniteSet(U) /\ IsFiniteSet(A \cup U)
    BY <1>0, SumIsInt, FS_Subset
  <2>1. CASE U = {}
    BY <1>1, <2>0, <2>1, SumOfNone
  <2>2. CASE U # {}
    <3>1. PICK x : x \in U
      BY <2>2
    <3>2. U \ {x} \in G
      BY <1>2, <3>1
    <3>3. SumFunctionOnSet(f, A \cup (U \ {x})) = SumFunctionOnSet(f, A) + SumFunctionOnSet(f, U \ {x})
      BY <1>1, <3>2
    <3>4. SumFunctionOnSet(f, U) = f[x] + SumFunctionOnSet(f, U \ {x})
      BY <2>0, <3>1, SumLess
    <3>5. SumFunctionOnSet(f, A \cup U) = f[x] + SumFunctionOnSet(f, (A \cup U) \ {x})
      BY <2>0, <3>1, SumLess
    <3>6. (A \cup U) \ {x} = A \cup (U \ {x})
      BY <3>1
    <3>7. f[x] \in Int /\ SumFunctionOnSet(f, U \ {x}) \in Int
      BY <1>0, <3>1, SumIsInt
    <3>8. PICK a, b : a = SumFunctionOnSet(f, A) /\ b = SumFunctionOnSet(f, U \ {x})
      OBVIOUS
    <3>9. SumFunctionOnSet(f, A \cup U) = f[x] + (a + b)
      BY <3>3, <3>5, <3>6, <3>8
    <3>10. f[x] + (a + b) = a + (f[x] + b)
      BY <2>0, <3>7, <3>8
    <3> QED BY <1>1, <3>4, <3>8, <3>9, <3>10
  <2> QED BY <2>1, <2>2
<1>3. B \in G
  BY <1>2, Descent
<1> QED BY <1>1, <1>3

LEMMA SumOfOne ==
  ASSUME NEW f, NEW x, f[x] \in Int
  PROVE  SumFunctionOnSet(f, {x}) = f[x]
<1>1. IsFiniteSet({x})
  BY FS_Singleton
<1>2. SumFunctionOnSet(f, {x}) = f[x] + SumFunctionOnSet(f, {x} \ {x})
  BY <1>1, SumLess
<1>3. {x} \ {x} = {}
  OBVIOUS
<1> QED BY <1>2, <1>3, SumOfNone

(* Sums of functions that agree, and of the sum of two functions.          *)
LEMMA SumOfSums ==
  ASSUME NEW f, NEW g, NEW h, NEW S, IsFiniteSet(S),
         \A x \in S : f[x] \in Int /\ g[x] \in Int /\ h[x] = f[x] + g[x]
  PROVE  SumFunctionOnSet(h, S) = SumFunctionOnSet(f, S) + SumFunctionOnSet(g, S)
<1>1. PICK G : G = {U \in SUBSET S :
                 SumFunctionOnSet(h, U) = SumFunctionOnSet(f, U) + SumFunctionOnSet(g, U)}
  OBVIOUS
<1>2. ASSUME NEW U \in SUBSET S, \A V \in SUBSET U : V # U => V \in G
      PROVE  U \in G
  <2>0. IsFiniteSet(U) /\ \A x \in U : h[x] \in Int
    BY FS_Subset
  <2>1. CASE U = {}
    BY <1>1, <2>1, SumOfNone
  <2>2. CASE U # {}
    <3>1. PICK x : x \in U
      BY <2>2
    <3>2. U \ {x} \in G
      BY <1>2, <3>1
    <3>3. SumFunctionOnSet(f, U) = f[x] + SumFunctionOnSet(f, U \ {x})
      BY <2>0, <3>1, SumLess
    <3>4. SumFunctionOnSet(g, U) = g[x] + SumFunctionOnSet(g, U \ {x})
      BY <2>0, <3>1, SumLess
    <3>5. SumFunctionOnSet(h, U) = h[x] + SumFunctionOnSet(h, U \ {x})
      BY <2>0, <3>1, SumLess
    <3>6. SumFunctionOnSet(f, U \ {x}) \in Int /\ SumFunctionOnSet(g, U \ {x}) \in Int
      BY SumIsInt
    <3>7. SumFunctionOnSet(h, U \ {x}) = SumFunctionOnSet(f, U \ {x}) + SumFunctionOnSet(g, U \ {x})
      BY <1>1, <3>2
    <3>8. f[x] \in Int /\ g[x] \in Int /\ h[x] = f[x] + g[x]
      BY <3>1
    <3> QED BY <1>1, <3>3, <3>4, <3>5, <3>6, <3>7, <3>8
  <2> QED BY <2>1, <2>2
<1>3. S \in G
  BY <1>2, Descent
<1> QED BY <1>1, <1>3

LEMMA SumOfSame ==
  ASSUME NEW f, NEW h, NEW S, IsFiniteSet(S), \A x \in S : f[x] \in Int /\ h[x] = f[x]
  PROVE  SumFunctionOnSet(h, S) = SumFunctionOnSet(f, S)
<1>1. PICK G : G = {U \in SUBSET S : SumFunctionOnSet(h, U) = SumFunctionOnSet(f, U)}
  OBVIOUS
<1>2. ASSUME NEW U \in SUBSET S, \A V \in SUBSET U : V # U => V \in G
      PROVE  U \in G
  <2>0. IsFiniteSet(U)
    BY FS_Subset
  <2>1. CASE U = {}
    BY <1>1, <2>1, SumOfNone
  <2>2. CASE U # {}
    <3>1. PICK x : x = Picked(U) /\ x \in U
      BY <2>2, NextIsIn
    <3>2. SumFunctionOnSet(f, U) = f[x] + SumFunctionOnSet(f, U \ {x})
      BY <2>0, <2>2, <3>1, SumOfNext
    <3>3. SumFunctionOnSet(h, U) = h[x] + SumFunctionOnSet(h, U \ {x})
      BY <2>0, <2>2, <3>1, SumOfNext
    <3>4. SumFunctionOnSet(h, U \ {x}) = SumFunctionOnSet(f, U \ {x})
      BY <1>1, <1>2, <3>1
    <3> QED BY <1>1, <3>1, <3>2, <3>3, <3>4
  <2> QED BY <2>1, <2>2
<1>3. S \in G
  BY <1>2, Descent
<1> QED BY <1>1, <1>3

(* A set in parts: the sum is the sum of the parts'.                       *)
LEMMA SumOfParts ==
  ASSUME NEW f, NEW S, IsFiniteSet(S), \A x \in S : f[x] \in Int,
         NEW K, IsFiniteSet(K), NEW P, \A k \in K : P[k] \subseteq S,
         \A x \in S : \E k \in K : x \in P[k],
         \A j, k \in K : j # k => P[j] \cap P[k] = {},
         NEW h, \A k \in K : h[k] = SumFunctionOnSet(f, P[k])
  PROVE  SumFunctionOnSet(h, K) = SumFunctionOnSet(f, S)
<1> DEFINE all(U) == {x \in S : \E k \in U : x \in P[k]}
<1>1. PICK G : G = {U \in SUBSET K : SumFunctionOnSet(h, U) = SumFunctionOnSet(f, all(U))}
  OBVIOUS
<1>0. \A k \in K : h[k] \in Int
  BY SumIsInt
<1>2. ASSUME NEW U \in SUBSET K, \A V \in SUBSET U : V # U => V \in G
      PROVE  U \in G
  <2>0. IsFiniteSet(U) /\ \A V \in SUBSET S : IsFiniteSet(V)
    BY FS_Subset
  <2>1. CASE U = {}
    <3>1. all(U) = {}
      BY <2>1
    <3> QED BY <1>1, <2>1, <3>1, SumOfNone
  <2>2. CASE U # {}
    <3>1. PICK k : k \in U
      BY <2>2
    <3>2. PICK A, B : A = all(U \ {k}) /\ B = P[k]
      OBVIOUS
    <3>3. SumFunctionOnSet(h, U) = h[k] + SumFunctionOnSet(h, U \ {k})
      BY <1>0, <2>0, <3>1, SumLess
    <3>4. SumFunctionOnSet(h, U \ {k}) = SumFunctionOnSet(f, A)
      BY <1>1, <1>2, <3>1, <3>2
    <3>5. /\ A \in SUBSET S /\ B \in SUBSET S /\ A \cap B = {} /\ all(U) = A \cup B
      BY <3>1, <3>2
    <3>6. SumFunctionOnSet(f, A \cup B) = SumFunctionOnSet(f, A) + SumFunctionOnSet(f, B)
      BY <2>0, <3>5, SumOfBoth
    <3>7. SumFunctionOnSet(f, A) \in Int /\ SumFunctionOnSet(f, B) \in Int
      BY <3>5, SumIsInt
    <3>8. h[k] = SumFunctionOnSet(f, B)
      BY <3>1, <3>2
    <3>9. PICK a, b : a = SumFunctionOnSet(f, A) /\ b = SumFunctionOnSet(f, B)
      OBVIOUS
    <3>10. SumFunctionOnSet(h, U) = b + a /\ SumFunctionOnSet(f, all(U)) = a + b
      BY <3>3, <3>4, <3>5, <3>6, <3>8, <3>9
    <3>11. b + a = a + b
      BY <3>7, <3>9
    <3> QED BY <1>1, <3>10, <3>11
  <2> QED BY <2>1, <2>2
<1>3. K \in G
  BY <1>2, Descent
<1>4. all(K) = S
  OBVIOUS
<1> QED BY <1>1, <1>3, <1>4

-----------------------------------------------------------------------------
(* The reports.  What a request has been answered is what the queries tell *)
(* of the ledger, which stays as it is until the request ends, for the day *)
(* in which it began.                                                      *)
First(d, n) == d - n + 1
Daily(d, n) == [k \in 1..n |-> Report!Net(Report!From(First(d, n) + k - 1, First(d, n) + k - 1))]
Cards(d, n) == Report!Period(First(d, n), d)
CardsBefore(d, n) == Report!Period(First(d, n) - 1 - n + 1, First(d, n) - 1)
Shared(d, n) == Report!ByCategory(Report!From(First(d, n), d))
Chart(d, n) == Report!Running(Report!Before(First(d, n)), Daily(d, n))

Month1(d, n) == Report!MonthOf(d) - n + 1
InIts(d, n, k) == Report!InMonth(Month1(d, n) + k - 1, d)
Months(d, n) == [k \in 1..n |-> [income |-> Report!Income(InIts(d, n, k)),
                                 expense |-> Report!Expense(InIts(d, n, k))]]
SharedMonths(d, n) == Report!ByCategory(Report!From(Report!FirstOf(Month1(d, n)), d))
Trend(d, n, c) == [k \in 1..n |-> Report!Expense({i \in InIts(d, n, k) : Category[i] = c})]
Listings(d, n) ==
  {Report!Restrict(SharedMonths(d, n), T) : T \in Report!Largest(SharedMonths(d, n), Listed)}
Trends(d, n, list) == {[c \in T |-> Trend(d, n, c)] : T \in Report!Largest(list, Trended)}
Monthly(d, n) == [k \in 1..n |-> Report!Net(InIts(d, n, k))]
MonthChart(d, n) == Report!Running(Report!Before(Report!FirstOf(Month1(d, n))), Monthly(d, n))

Knows(q, k, f, v) == q.step > k => f \in DOMAIN q /\ q[f] = v
OneOf(q, k, f, V) == q.step > k => f \in DOMAIN q /\ q[f] \in V
DashboardIs(q, d, n) ==
  /\ Knows(q, 1, "summary", Cards(d, n)) /\ Knows(q, 2, "previous", CardsBefore(d, n))
  /\ Knows(q, 3, "categories", Shared(d, n)) /\ Knows(q, 4, "accounts", Report!List(d))
  /\ Knows(q, 5, "total", Report!Total(d)) /\ Knows(q, 6, "opening", Report!Before(First(d, n)))
  /\ Knows(q, 7, "history", Chart(d, n))
MonthlyIs(q, d, n) ==
  /\ Knows(q, 1, "rows", Months(d, n)) /\ OneOf(q, 2, "categories", Listings(d, n))
  /\ OneOf(q, 3, "trends", Trends(d, n, q.categories))
  /\ Knows(q, 4, "opening", Report!Before(Report!FirstOf(Month1(d, n))))
  /\ Knows(q, 5, "balances", MonthChart(d, n))
Asked(q) ==
  /\ {"page", "day", "span", "step"} \subseteq DOMAIN q /\ q.page \in {"dashboard", "monthly"}
  /\ q.day \in Report!Days /\ q.span \in Spans /\ q.step \in Nat \ {0}
Told(q) ==
  /\ Asked(q)
  /\ q.page = "dashboard" => DashboardIs(q, q.day, q.span)
  /\ q.page = "monthly" => MonthlyIs(q, q.day, q.span)
ReportInv == Report!TypeOK /\ (query # none => Told(query))

LEMMA Finite == IsFiniteSet(Numbers) /\ IsFiniteSet(Moves) /\ IsFiniteSet(Holders)
  BY ReportsAssumption DEF Report!SetsAssumption, Report!IsFiniteSet, IsFiniteSet

LEMMA ReportTypes ==
  /\ Cents \in [Numbers \cup Moves -> Nat] /\ Cents \in [Numbers \cup Moves -> Int] /\ Opening \in [Holders -> Int] /\ x1 \in Holders
  /\ LastDay \in Nat \ {0} /\ DaysPerMonth \in Nat \ {0} /\ Spans \subseteq Nat \ {0}
  /\ Listed \in Nat /\ Trended \in Nat
  BY ReportsAssumption DEF Report!AmountsAssumption, Report!MainAssumption, Report!DaysAssumption

(* The queries read nothing but the ledger.                                *)
LEMMA SameQueries ==
  ASSUME UNCHANGED <<txs, moves, usable>>
  PROVE  \A d, n : /\ Cards(d, n)' = Cards(d, n) /\ CardsBefore(d, n)' = CardsBefore(d, n)
                   /\ Shared(d, n)' = Shared(d, n) /\ Report!List(d)' = Report!List(d)
                   /\ Report!Total(d)' = Report!Total(d) /\ Report!Before(d)' = Report!Before(d)
                   /\ Chart(d, n)' = Chart(d, n) /\ Months(d, n)' = Months(d, n)
                   /\ SharedMonths(d, n)' = SharedMonths(d, n) /\ Listings(d, n)' = Listings(d, n)
                   /\ \A c : Trends(d, n, c)' = Trends(d, n, c)
                   /\ MonthChart(d, n)' = MonthChart(d, n)
<1>1. \A a, b : Report!From(a, b)' = Report!From(a, b)
  BY DEF Report!From, Report!Posted, Report!PostedLive
<1>2. \A S : Report!Income(S)' = Report!Income(S) /\ Report!Expense(S)' = Report!Expense(S)
  BY DEF Report!Income, Report!Expense, Report!Sum
<1>3. \A S : Report!Net(S)' = Report!Net(S)
  BY <1>2 DEF Report!Net
<1>4. \A S : Report!ByCategory(S)' = Report!ByCategory(S)
  BY <1>2 DEF Report!ByCategory
<1>5. \A d : Report!Total(d)' = Report!Total(d) /\ Report!Before(d)' = Report!Before(d)
  BY <1>1, <1>3 DEF Report!Total, Report!Before, Report!Opened
<1>6. \A a, d : Report!Balance(a, d)' = Report!Balance(a, d)
  BY <1>1, <1>3 DEF Report!Balance, Report!In, Report!Out, Report!Sum
<1>7. \A m, d : Report!InMonth(m, d)' = Report!InMonth(m, d)
  BY <1>1 DEF Report!InMonth
<1>8. \A d, n : Daily(d, n)' = Daily(d, n) /\ Monthly(d, n)' = Monthly(d, n)
  BY <1>1, <1>3, <1>7 DEF Daily, Monthly, InIts
<1>9. \A d, n : Cards(d, n)' = Cards(d, n) /\ CardsBefore(d, n)' = CardsBefore(d, n)
  BY <1>1, <1>2 DEF Cards, CardsBefore, Report!Period
<1>10. \A d, n : Shared(d, n)' = Shared(d, n) /\ SharedMonths(d, n)' = SharedMonths(d, n)
  BY <1>1, <1>4 DEF Shared, SharedMonths
<1>11. \A d : Report!List(d)' = Report!List(d)
  BY <1>6 DEF Report!List
<1>12. \A d, n : Chart(d, n)' = Chart(d, n) /\ MonthChart(d, n)' = MonthChart(d, n)
  BY <1>5, <1>8 DEF Chart, MonthChart, Report!Running
<1>13. \A d, n : Months(d, n)' = Months(d, n)
  BY <1>2, <1>7 DEF Months, InIts
<1>14. \A d, n, c : Trend(d, n, c)' = Trend(d, n, c)
  BY <1>2, <1>7 DEF Trend, InIts
<1>15. \A d, n : Listings(d, n)' = Listings(d, n)
  BY <1>10 DEF Listings, Report!Largest, Report!Restrict
<1>16. \A d, n, c : Trends(d, n, c)' = Trends(d, n, c)
  BY <1>14 DEF Trends, Report!Largest
<1> QED BY <1>16, <1>5, <1>9, <1>10, <1>11, <1>12, <1>13, <1>15

(* An answer is added to those before.                                     *)
LEMMA AnswerAdds ==
  ASSUME NEW q, NEW x, NEW name, DOMAIN x = {name}, name \notin {"page", "day", "span", "step"},
         {"page", "day", "span", "step"} \subseteq DOMAIN q, NEW r,
         r = LET asked == [q EXCEPT !.step = @ + 1]
             IN  [f \in DOMAIN asked \cup DOMAIN x |-> IF f \in DOMAIN x THEN x[f] ELSE asked[f]]
  PROVE  /\ {"page", "day", "span", "step"} \subseteq DOMAIN r
         /\ r.page = q.page /\ r.day = q.day /\ r.span = q.span /\ r.step = q.step + 1
         /\ name \in DOMAIN r /\ r[name] = x[name]
         /\ \A f \in DOMAIN q : f # "step" /\ f # name => f \in DOMAIN r /\ r[f] = q[f]
OBVIOUS

(* The queries of a dashboard and of a monthly report, by their names.     *)
Answers(x, f, v) == DOMAIN x = {f} /\ x[f] = v

LEMMA DashboardAnswers ==
  ASSUME NEW q, NEW d, NEW n, q.day = d, q.span = n,
         q.step > 6 => q.opening = Report!Before(First(d, n)), q.step \in Nat
  PROVE  /\ q.step = 1 => Answers(Report!Dashboard(q), "summary", Cards(d, n))
         /\ q.step = 2 => Answers(Report!Dashboard(q), "previous", CardsBefore(d, n))
         /\ q.step = 3 => Answers(Report!Dashboard(q), "categories", Shared(d, n))
         /\ q.step = 4 => Answers(Report!Dashboard(q), "accounts", Report!List(d))
         /\ q.step = 5 => Answers(Report!Dashboard(q), "total", Report!Total(d))
         /\ q.step = 6 => Answers(Report!Dashboard(q), "opening", Report!Before(First(d, n)))
         /\ q.step = 7 => Answers(Report!Dashboard(q), "history", Chart(d, n))
<1>0. Report!Day(q) = d /\ Report!Start(q) = First(d, n)
  BY DEF Report!Day, Report!Start, First
<1>1. CASE q.step = 1
  <2>1. Report!Dashboard(q) = [summary |-> Cards(d, n)]
    BY <1>0, <1>1 DEF Report!Dashboard, Cards
  <2> QED BY <1>1, <2>1 DEF Answers
<1>2. CASE q.step = 2
  <2>1. Report!Dashboard(q) = [previous |-> CardsBefore(d, n)]
    BY <1>0, <1>2 DEF Report!Dashboard, CardsBefore, Report!PreviousEnd
  <2> QED BY <1>2, <2>1 DEF Answers
<1>3. CASE q.step = 3
  <2>1. Report!Dashboard(q) = [categories |-> Shared(d, n)]
    BY <1>0, <1>3 DEF Report!Dashboard, Shared
  <2> QED BY <1>3, <2>1 DEF Answers
<1>4. CASE q.step = 4
  <2>1. Report!Dashboard(q) = [accounts |-> Report!List(d)]
    BY <1>0, <1>4 DEF Report!Dashboard
  <2> QED BY <1>4, <2>1 DEF Answers
<1>5. CASE q.step = 5
  <2>1. Report!Dashboard(q) = [total |-> Report!Total(d)]
    BY <1>0, <1>5 DEF Report!Dashboard
  <2> QED BY <1>5, <2>1 DEF Answers
<1>6. CASE q.step = 6
  <2>1. Report!Dashboard(q) = [opening |-> Report!Before(First(d, n))]
    BY <1>0, <1>6 DEF Report!Dashboard
  <2> QED BY <1>6, <2>1 DEF Answers
<1>7. CASE q.step = 7
  <2>1. Report!Dashboard(q) = [history |-> Chart(d, n)]
    BY <1>0, <1>7 DEF Report!Dashboard, Chart, Daily
  <2> QED BY <1>7, <2>1 DEF Answers
<1> QED BY <1>1, <1>2, <1>3, <1>4, <1>5, <1>6, <1>7

AnswersOneOf(x, f, V) == DOMAIN x = {f} /\ x[f] \in V

LEMMA MonthlyAnswers ==
  ASSUME NEW q, NEW d, NEW n, q.day = d, q.span = n,
         q.step > 4 => q.opening = Report!Before(Report!FirstOf(Month1(d, n))), q.step \in Nat,
         NEW y \in Report!Monthly(q)
  PROVE  /\ q.step = 1 => Answers(y, "rows", Months(d, n))
         /\ q.step = 2 => AnswersOneOf(y, "categories", Listings(d, n))
         /\ q.step = 3 => AnswersOneOf(y, "trends", Trends(d, n, q.categories))
         /\ q.step = 4 => Answers(y, "opening", Report!Before(Report!FirstOf(Month1(d, n))))
         /\ q.step = 5 => Answers(y, "balances", MonthChart(d, n))
<1>0. Report!Day(q) = d /\ Report!FirstMonth(q) = Month1(d, n)
  BY DEF Report!Day, Report!FirstMonth, Month1
<1>1. CASE q.step = 1
  <2>1. y = [rows |-> Months(d, n)]
    BY <1>0, <1>1 DEF Report!Monthly, Months, InIts
  <2> QED BY <1>1, <2>1 DEF Answers
<1>2. CASE q.step = 2
  <2>1. PICK a : a = SharedMonths(d, n)
    OBVIOUS
  <2>2. Report!Monthly(q) = {[categories |-> Report!Restrict(a, T)] : T \in Report!Largest(a, Listed)}
    BY <1>0, <1>2, <2>1 DEF Report!Monthly, SharedMonths
  <2>3. PICK T \in Report!Largest(a, Listed) : y = [categories |-> Report!Restrict(a, T)]
    BY <2>2
  <2>4. Report!Restrict(a, T) \in Listings(d, n)
    BY <2>1 DEF Listings
  <2> QED BY <1>2, <2>3, <2>4 DEF AnswersOneOf
<1>3. CASE q.step = 3
  <2>1. PICK T \in Report!Largest(q.categories, Trended) :
          y = [trends |-> [c \in T |-> [k \in 1..q.span |->
                 Report!Expense({i \in Report!InMonth(Report!FirstMonth(q) + k - 1, Report!Day(q)) :
                                   Category[i] = c})]]]
    BY <1>3 DEF Report!Monthly
  <2>2. \A c : Trend(d, n, c) =
          [k \in 1..q.span |->
             Report!Expense({i \in Report!InMonth(Report!FirstMonth(q) + k - 1, Report!Day(q)) :
                               Category[i] = c})]
    BY <1>0 DEF Trend, InIts
  <2>3. PICK t : t = [c \in T |-> [k \in 1..q.span |->
             Report!Expense({i \in Report!InMonth(Report!FirstMonth(q) + k - 1, Report!Day(q)) :
                               Category[i] = c})]]
    OBVIOUS
  <2>4. t = [c \in T |-> t[c]] /\ DOMAIN t = T
    BY <2>3
  <2>5. \A c \in DOMAIN t : t[c] = Trend(d, n, c)
    BY <2>2, <2>3
  <2>6. t = [c \in T |-> Trend(d, n, c)]
    BY <2>4, <2>5
  <2>7. t \in Trends(d, n, q.categories)
    BY <2>6 DEF Trends
  <2>8. y = [trends |-> t]
    BY <2>1, <2>3
  <2> QED BY <1>3, <2>7, <2>8 DEF AnswersOneOf
<1>4. CASE q.step = 4
  <2>1. y = [opening |-> Report!Before(Report!FirstOf(Month1(d, n)))]
    BY <1>0, <1>4 DEF Report!Monthly
  <2> QED BY <1>4, <2>1 DEF Answers
<1>5. CASE q.step = 5
  <2>1. y = [balances |-> MonthChart(d, n)]
    BY <1>0, <1>5 DEF Report!Monthly, MonthChart, Monthly, InIts
  <2> QED BY <1>5, <2>1 DEF Answers
<1> QED BY <1>1, <1>2, <1>3, <1>4, <1>5

Takes(q, x, r) ==
  /\ Asked(q) /\ DOMAIN x \cap {"page", "day", "span", "step"} = {}
  /\ r = LET asked == [q EXCEPT !.step = @ + 1]
         IN  [f \in DOMAIN asked \cup DOMAIN x |-> IF f \in DOMAIN x THEN x[f] ELSE asked[f]]
Goes(q, x, k, f, v) ==
  /\ k \in Nat \ {0} /\ f \notin {"page", "day", "span", "step"}
  /\ Knows(q, k, f, v) /\ IF q.step = k THEN Answers(x, f, v) ELSE f \notin DOMAIN x

GoesTo(q, x, k, f, V) ==
  /\ k \in Nat \ {0} /\ f \notin {"page", "day", "span", "step"}
  /\ OneOf(q, k, f, V) /\ IF q.step = k THEN AnswersOneOf(x, f, V) ELSE f \notin DOMAIN x

LEMMA OneMoreTold ==
  ASSUME NEW q, NEW x, NEW r, NEW f, NEW v, NEW k, Takes(q, x, r), Goes(q, x, k, f, v)
  PROVE  Knows(r, k, f, v)
<1>1. q.step \in Nat /\ "step" \in DOMAIN q /\ k \in Nat
  BY DEF Asked, Takes, Goes
<1>2. r.step = q.step + 1
  BY <1>1 DEF Takes
<1>3. CASE q.step = k
  BY <1>3 DEF Answers, Knows, Takes, Goes
<1>4. CASE q.step > k
  BY <1>1, <1>4 DEF Knows, Takes, Goes
<1>5. CASE q.step < k
  BY <1>1, <1>2, <1>5 DEF Knows
<1> QED BY <1>1, <1>3, <1>4, <1>5

LEMMA OneOfTold ==
  ASSUME NEW q, NEW x, NEW r, NEW f, NEW V, NEW k, Takes(q, x, r), GoesTo(q, x, k, f, V)
  PROVE  OneOf(r, k, f, V)
<1>1. q.step \in Nat /\ "step" \in DOMAIN q /\ k \in Nat
  BY DEF Asked, Takes, GoesTo
<1>2. r.step = q.step + 1
  BY <1>1 DEF Takes
<1>3. CASE q.step = k
  BY <1>3 DEF AnswersOneOf, OneOf, Takes, GoesTo
<1>4. CASE q.step > k
  BY <1>1, <1>4 DEF OneOf, Takes, GoesTo
<1>5. CASE q.step < k
  BY <1>1, <1>2, <1>5 DEF OneOf
<1> QED BY <1>1, <1>3, <1>4, <1>5

LEMMA StaysTold ==
  ASSUME UNCHANGED <<txs, moves, usable>>, NEW r, Told(r)
  PROVE  Told(r)'
BY SameQueries DEF Told, Asked, DashboardIs, MonthlyIs, Knows, OneOf

LEMMA QueryTells ==
  ASSUME Told(query), Report!Query
  PROVE  Told(query)'
<1>1. PICK q, r : q = query /\ r = query'
  OBVIOUS
<1>2. PICK y \in IF q.page = "dashboard" THEN {Report!Dashboard(q)} ELSE Report!Monthly(q) :
        r = LET asked == [q EXCEPT !.step = @ + 1]
            IN  [f \in DOMAIN asked \cup DOMAIN y |-> IF f \in DOMAIN y THEN y[f] ELSE asked[f]]
  BY <1>1 DEF Report!Query
<1>3. PICK d, n : d = q.day /\ n = q.span
  OBVIOUS
<1>4. r = LET asked == [q EXCEPT !.step = @ + 1]
          IN  [f \in DOMAIN asked \cup DOMAIN y |-> IF f \in DOMAIN y THEN y[f] ELSE asked[f]]
  BY <1>2
<1>5. Asked(q) /\ q.step \in Nat \ {0}
  BY <1>1 DEF Told, Asked
<1>6. CASE q.page = "dashboard"
  <2>1. y = Report!Dashboard(q) /\ q.step <= 7 /\ DashboardIs(q, d, n)
    BY <1>1, <1>2, <1>3, <1>6 DEF Report!Query, Report!Steps, Told
  <2>2. q.step > 6 => q.opening = Report!Before(First(d, n))
    BY <2>1 DEF DashboardIs, Knows
  <2>3. /\ q.step = 1 => Answers(y, "summary", Cards(d, n))
        /\ q.step = 2 => Answers(y, "previous", CardsBefore(d, n))
        /\ q.step = 3 => Answers(y, "categories", Shared(d, n))
        /\ q.step = 4 => Answers(y, "accounts", Report!List(d))
        /\ q.step = 5 => Answers(y, "total", Report!Total(d))
        /\ q.step = 6 => Answers(y, "opening", Report!Before(First(d, n)))
        /\ q.step = 7 => Answers(y, "history", Chart(d, n))
    BY <1>3, <1>5, <2>1, <2>2, DashboardAnswers
  <2>4. q.step \in {1, 2, 3, 4, 5, 6, 7}
    BY <1>5, <2>1
  <2>5. PICK name \in {"summary", "previous", "categories", "accounts", "total", "opening", "history"} :
          DOMAIN y = {name}
    BY <2>3, <2>4 DEF Answers
  <2>6. /\ r.page = q.page /\ r.day = d /\ r.span = n /\ r.step = q.step + 1
        /\ {"page", "day", "span", "step"} \subseteq DOMAIN r
    BY <1>3, <1>4, <1>5, <2>5, AnswerAdds DEF Asked
  <2>7. DOMAIN y \cap {"page", "day", "span", "step"} = {}
    BY <2>5
  <2>8. /\ Knows(r, 1, "summary", Cards(d, n)) /\ Knows(r, 2, "previous", CardsBefore(d, n))
        /\ Knows(r, 3, "categories", Shared(d, n)) /\ Knows(r, 4, "accounts", Report!List(d))
        /\ Knows(r, 5, "total", Report!Total(d)) /\ Knows(r, 6, "opening", Report!Before(First(d, n)))
        /\ Knows(r, 7, "history", Chart(d, n))
    <3>1. /\ q.step # 1 => "summary" \notin DOMAIN y
          /\ q.step # 2 => "previous" \notin DOMAIN y
          /\ q.step # 3 => "categories" \notin DOMAIN y
          /\ q.step # 4 => "accounts" \notin DOMAIN y
          /\ q.step # 5 => "total" \notin DOMAIN y
          /\ q.step # 6 => "opening" \notin DOMAIN y
          /\ q.step # 7 => "history" \notin DOMAIN y
      BY <2>3, <2>4 DEF Answers
    <3>2. /\ Knows(q, 1, "summary", Cards(d, n)) /\ Knows(q, 2, "previous", CardsBefore(d, n))
          /\ Knows(q, 3, "categories", Shared(d, n)) /\ Knows(q, 4, "accounts", Report!List(d))
          /\ Knows(q, 5, "total", Report!Total(d)) /\ Knows(q, 6, "opening", Report!Before(First(d, n)))
          /\ Knows(q, 7, "history", Chart(d, n))
      BY <2>1 DEF DashboardIs
    <3>3. Takes(q, y, r)
      BY <1>4, <1>5, <2>7 DEF Takes
    <3>4. Goes(q, y, 1, "summary", Cards(d, n))
      BY <2>3, <3>1, <3>2 DEF Goes
    <3>5. Goes(q, y, 2, "previous", CardsBefore(d, n))
      BY <2>3, <3>1, <3>2 DEF Goes
    <3>6. Goes(q, y, 3, "categories", Shared(d, n))
      BY <2>3, <3>1, <3>2 DEF Goes
    <3>7. Goes(q, y, 4, "accounts", Report!List(d))
      BY <2>3, <3>1, <3>2 DEF Goes
    <3>8. Goes(q, y, 5, "total", Report!Total(d))
      BY <2>3, <3>1, <3>2 DEF Goes
    <3>9. Goes(q, y, 6, "opening", Report!Before(First(d, n)))
      BY <2>3, <3>1, <3>2 DEF Goes
    <3>10. Goes(q, y, 7, "history", Chart(d, n))
      BY <2>3, <3>1, <3>2 DEF Goes
    <3> QED BY <3>3, <3>4, <3>5, <3>6, <3>7, <3>8, <3>9, <3>10, OneMoreTold
  <2>9. Told(r)
    BY <1>3, <1>5, <1>6, <2>6, <2>8 DEF Told, Asked, DashboardIs
  <2> QED BY <1>1, <2>9, StaysTold DEF Report!Query, Report!ledger
<1>7. CASE q.page = "monthly"
  <2>1. y \in Report!Monthly(q) /\ q.step <= 5 /\ MonthlyIs(q, d, n)
    BY <1>1, <1>2, <1>3, <1>7 DEF Report!Query, Report!Steps, Told
  <2>2. q.step > 4 => q.opening = Report!Before(Report!FirstOf(Month1(d, n)))
    BY <2>1 DEF MonthlyIs, Knows
  <2>3. /\ q.step = 1 => Answers(y, "rows", Months(d, n))
        /\ q.step = 2 => AnswersOneOf(y, "categories", Listings(d, n))
        /\ q.step = 3 => AnswersOneOf(y, "trends", Trends(d, n, q.categories))
        /\ q.step = 4 => Answers(y, "opening", Report!Before(Report!FirstOf(Month1(d, n))))
        /\ q.step = 5 => Answers(y, "balances", MonthChart(d, n))
    BY <1>3, <1>5, <2>1, <2>2, MonthlyAnswers
  <2>4. q.step \in {1, 2, 3, 4, 5}
    BY <1>5, <2>1
  <2>5. PICK name \in {"rows", "categories", "trends", "opening", "balances"} : DOMAIN y = {name}
    BY <2>3, <2>4 DEF Answers, AnswersOneOf
  <2>6. /\ r.page = q.page /\ r.day = d /\ r.span = n /\ r.step = q.step + 1
        /\ {"page", "day", "span", "step"} \subseteq DOMAIN r
    BY <1>3, <1>4, <1>5, <2>5, AnswerAdds DEF Asked
  <2>7. DOMAIN y \cap {"page", "day", "span", "step"} = {}
    BY <2>5
  <2>8. /\ Knows(r, 1, "rows", Months(d, n)) /\ OneOf(r, 2, "categories", Listings(d, n))
        /\ OneOf(r, 3, "trends", Trends(d, n, q.categories))
        /\ Knows(r, 4, "opening", Report!Before(Report!FirstOf(Month1(d, n))))
        /\ Knows(r, 5, "balances", MonthChart(d, n))
    <3>1. /\ q.step # 1 => "rows" \notin DOMAIN y
          /\ q.step # 2 => "categories" \notin DOMAIN y
          /\ q.step # 3 => "trends" \notin DOMAIN y
          /\ q.step # 4 => "opening" \notin DOMAIN y
          /\ q.step # 5 => "balances" \notin DOMAIN y
      BY <2>3, <2>4 DEF Answers, AnswersOneOf
    <3>2. /\ Knows(q, 1, "rows", Months(d, n)) /\ OneOf(q, 2, "categories", Listings(d, n))
          /\ OneOf(q, 3, "trends", Trends(d, n, q.categories))
          /\ Knows(q, 4, "opening", Report!Before(Report!FirstOf(Month1(d, n))))
          /\ Knows(q, 5, "balances", MonthChart(d, n))
      BY <2>1 DEF MonthlyIs
    <3>3. Takes(q, y, r)
      BY <1>4, <1>5, <2>7 DEF Takes
    <3>4. Goes(q, y, 1, "rows", Months(d, n))
      BY <2>3, <3>1, <3>2 DEF Goes
    <3>5. GoesTo(q, y, 2, "categories", Listings(d, n))
      BY <2>3, <3>1, <3>2 DEF GoesTo
    <3>6. GoesTo(q, y, 3, "trends", Trends(d, n, q.categories))
      BY <2>3, <3>1, <3>2 DEF GoesTo
    <3>7. Goes(q, y, 4, "opening", Report!Before(Report!FirstOf(Month1(d, n))))
      BY <2>3, <3>1, <3>2 DEF Goes
    <3>8. Goes(q, y, 5, "balances", MonthChart(d, n))
      BY <2>3, <3>1, <3>2 DEF Goes
    <3> QED BY <3>3, <3>4, <3>5, <3>6, <3>7, <3>8, OneMoreTold, OneOfTold
  <2>9. q.step > 2 => r.categories = q.categories
    BY <1>3, <1>4, <1>5, <2>1, <2>3, <2>4, <2>5, AnswerAdds
       DEF Asked, MonthlyIs, OneOf, Answers, AnswersOneOf
  <2>10. OneOf(r, 3, "trends", Trends(d, n, r.categories))
    BY <1>5, <2>6, <2>8, <2>9 DEF OneOf
  <2>11. Told(r)
    BY <1>3, <1>5, <1>7, <2>6, <2>8, <2>10 DEF Told, Asked, MonthlyIs
  <2> QED BY <1>1, <2>11, StaysTold DEF Report!Query, Report!ledger
<1> QED BY <1>5, <1>6, <1>7 DEF Asked

LEMMA ReportTypesKeep ==
  ASSUME Report!TypeOK, Report!Next
  PROVE  Report!TypeOK'
<1> USE DEF Report!ledger, Report!Commit
<1>1. ASSUME NEW i \in Numbers, Report!Delete(i) PROVE Report!TypeOK'
  <2>1. txs[i] \in Report!Transaction /\ txs' = [txs EXCEPT ![i].live = FALSE]
    BY <1>1 DEF Report!Delete, Report!TypeOK
  <2>2. [txs[i] EXCEPT !.live = FALSE] \in Report!Transaction
    BY <2>1 DEF Report!Transaction
  <2>3. txs' = [txs EXCEPT ![i] = [txs[i] EXCEPT !.live = FALSE]]
    BY <2>1
  <2> QED BY <1>1, <2>2, <2>3 DEF Report!Delete, Report!TypeOK
<1>2. ASSUME NEW i \in Numbers, Report!Restore(i) PROVE Report!TypeOK'
  <2>1. txs[i] \in Report!Transaction /\ txs' = [txs EXCEPT ![i].live = TRUE]
    BY <1>2 DEF Report!Restore, Report!TypeOK
  <2>2. [txs[i] EXCEPT !.live = TRUE] \in Report!Transaction
    BY <2>1 DEF Report!Transaction
  <2>3. txs' = [txs EXCEPT ![i] = [txs[i] EXCEPT !.live = TRUE]]
    BY <2>1
  <2> QED BY <1>2, <2>2, <2>3 DEF Report!Restore, Report!TypeOK
<1>3. ASSUME NEW i \in Numbers, NEW t \in Report!Transaction, Report!Add(i, t) \/ Report!Update(i, t)
      PROVE Report!TypeOK'
  BY <1>3 DEF Report!Add, Report!Update, Report!TypeOK
<1>4. ASSUME NEW m \in Moves, Report!DeleteTransfer(m) PROVE Report!TypeOK'
  BY <1>4 DEF Report!DeleteTransfer, Report!TypeOK
<1>5. ASSUME NEW m \in Moves, NEW v \in Report!Move, Report!AddTransfer(m, v) PROVE Report!TypeOK'
  BY <1>5 DEF Report!AddTransfer, Report!TypeOK
<1>6. ASSUME NEW a \in Holders, Report!Deactivate(a) PROVE Report!TypeOK'
  BY <1>6 DEF Report!Deactivate, Report!TypeOK
<1>7. ASSUME Report!Begin \/ Report!Query \/ Report!Answer PROVE Report!TypeOK'
  BY <1>7 DEF Report!Begin, Report!Query, Report!Answer, Report!TypeOK
<1>8. ASSUME Report!Midnight PROVE Report!TypeOK'
  BY <1>8, ReportTypes DEF Report!Midnight, Report!TypeOK, Report!Days
<1> QED BY <1>1, <1>2, <1>3, <1>4, <1>5, <1>6, <1>7, <1>8 DEF Report!Next

LEMMA BeginTells ==
  ASSUME Report!TypeOK, Report!Begin
  PROVE  Told(query)'
<1>1. PICK page \in {"dashboard", "monthly"}, n \in Spans :
        query' = [page |-> page, day |-> day, span |-> n, step |-> 1]
  BY DEF Report!Begin, Report!Steps
<1>2. PICK r : r = query' /\ r.step = 1
  BY <1>1
<1>3. Asked(r)
  BY <1>1, <1>2 DEF Asked, Report!TypeOK
<1>4. Told(r)
  BY <1>2, <1>3 DEF Told, DashboardIs, MonthlyIs, Knows, OneOf
<1> QED BY <1>2, <1>4, StaysTold DEF Report!Begin, Report!ledger

(* A commit comes between requests, midnight leaves the ledger.            *)
LEMMA ReportStep == ReportInv /\ [Report!Next]_Report!vars => ReportInv'
<1> SUFFICES ASSUME ReportInv, [Report!Next]_Report!vars PROVE ReportInv'
  OBVIOUS
<1>1. CASE Report!Next
  <2>1. Report!TypeOK'
    BY <1>1, ReportTypesKeep DEF ReportInv
  <2>2. CASE Report!Begin
    BY <2>1, <2>2, BeginTells DEF ReportInv
  <2>3. CASE Report!Query
    BY <2>1, <2>3, QueryTells DEF ReportInv, Report!Query
  <2>4. CASE Report!Midnight
    <3>1. PICK r : r = query
      OBVIOUS
    <3>2. UNCHANGED <<txs, moves, usable>> /\ query' = r
      BY <2>4, <3>1 DEF Report!Midnight, Report!ledger
    <3> QED BY <2>1, <3>1, <3>2, StaysTold DEF ReportInv
  <2>5. CASE query' = none
    BY <2>1, <2>5 DEF ReportInv
  <2>6. Report!Begin \/ Report!Query \/ Report!Midnight \/ query' = none
    BY <1>1 DEF Report!Next, Report!Answer, Report!Delete, Report!Restore, Report!Add, Report!Update,
        Report!DeleteTransfer, Report!AddTransfer, Report!Deactivate, Report!Commit
  <2> QED BY <2>2, <2>3, <2>4, <2>5, <2>6
<1>2. CASE UNCHANGED Report!vars
  <2>1. PICK r : r = query
    OBVIOUS
  <2>2. UNCHANGED <<txs, moves, usable>> /\ query' = r /\ day' = day
    BY <1>2, <2>1 DEF Report!vars
  <2>3. Report!TypeOK'
    BY <2>2 DEF ReportInv, Report!TypeOK
  <2> QED BY <2>1, <2>2, <2>3, StaysTold DEF ReportInv
<1> QED BY <1>1, <1>2

THEOREM ReportInvariance == Report!Spec => []ReportInv
<1>1. Report!Init => ReportInv
  BY DEF Report!Init, ReportInv, Report!TypeOK
<1> QED BY <1>1, ReportStep, PTL DEF Report!Spec

-----------------------------------------------------------------------------
(* What the queries tell of a ledger.                                      *)
LEMMA SumsHere ==
  /\ \A S : Report!Sum(S) = SumFunctionOnSet(Cents, S)
  /\ \A f, S : Report!SumFunctionOnSet(f, S) = SumFunctionOnSet(f, S)
  /\ \A f : Report!SumFunction(f) = SumFunctionOnSet(f, DOMAIN f)
<1>1. \A f, S : Report!SumFunctionOnSet(f, S) = SumFunctionOnSet(f, S)
  BY DEF Report!SumFunctionOnSet, SumFunctionOnSet, Report!FoldFunctionOnSet,
         FoldFunctionOnSet, Report!MapThenFoldSet, MapThenFoldSet
<1> QED BY <1>1 DEF Report!Sum, Report!SumFunction

Ins(S) == {i \in S : txs[i].kind = "income"}
Outs(S) == {i \in S : txs[i].kind = "expense"}

LEMMA NetIs ==
  ASSUME NEW S \in SUBSET Numbers
  PROVE  /\ Report!Income(S) = SumFunctionOnSet(Cents, Ins(S)) /\ Report!Income(S) \in Int
         /\ Report!Expense(S) = SumFunctionOnSet(Cents, Outs(S)) /\ Report!Expense(S) \in Int
         /\ Report!Net(S) = Report!Income(S) - Report!Expense(S) /\ Report!Net(S) \in Int
<1>1. Ins(S) \in SUBSET Numbers /\ Outs(S) \in SUBSET Numbers
  BY DEF Ins, Outs
<1>2. \A i \in Numbers : Cents[i] \in Int
  BY ReportTypes
<1>3. SumFunctionOnSet(Cents, Ins(S)) \in Int /\ SumFunctionOnSet(Cents, Outs(S)) \in Int
  BY <1>1, <1>2, Finite, SumIsInt
<1>4. Report!Income(S) = SumFunctionOnSet(Cents, Ins(S)) /\ Report!Expense(S) = SumFunctionOnSet(Cents, Outs(S))
  BY SumsHere DEF Report!Income, Report!Expense, Ins, Outs
<1>5. Report!Net(S) = Report!Income(S) - Report!Expense(S)
  BY DEF Report!Net
<1> QED BY <1>3, <1>4, <1>5

LEMMA NetOfBoth ==
  ASSUME NEW A \in SUBSET Numbers, NEW B \in SUBSET Numbers, A \cap B = {}
  PROVE  /\ Report!Income(A \cup B) = Report!Income(A) + Report!Income(B)
         /\ Report!Expense(A \cup B) = Report!Expense(A) + Report!Expense(B)
         /\ Report!Net(A \cup B) = Report!Net(A) + Report!Net(B)
<1>0. \A i \in Numbers : Cents[i] \in Int
  BY ReportTypes
<1>1. /\ Ins(A \cup B) = Ins(A) \cup Ins(B) /\ Ins(A) \cap Ins(B) = {}
      /\ Outs(A \cup B) = Outs(A) \cup Outs(B) /\ Outs(A) \cap Outs(B) = {}
  BY DEF Ins, Outs
<1>2. /\ Ins(A) \subseteq Numbers /\ Ins(B) \subseteq Numbers
      /\ Outs(A) \subseteq Numbers /\ Outs(B) \subseteq Numbers
  BY DEF Ins, Outs
<1>3. IsFiniteSet(Ins(A)) /\ IsFiniteSet(Ins(B)) /\ IsFiniteSet(Outs(A)) /\ IsFiniteSet(Outs(B))
  BY <1>2, Finite, FS_Subset
<1>4. SumFunctionOnSet(Cents, Ins(A) \cup Ins(B))
        = SumFunctionOnSet(Cents, Ins(A)) + SumFunctionOnSet(Cents, Ins(B))
  BY <1>0, <1>1, <1>2, <1>3, SumOfBoth
<1>5. SumFunctionOnSet(Cents, Outs(A) \cup Outs(B))
        = SumFunctionOnSet(Cents, Outs(A)) + SumFunctionOnSet(Cents, Outs(B))
  BY <1>0, <1>1, <1>2, <1>3, SumOfBoth
<1>6. /\ Report!Income(A \cup B) = Report!Income(A) + Report!Income(B)
      /\ Report!Expense(A \cup B) = Report!Expense(A) + Report!Expense(B)
  BY <1>1, <1>4, <1>5, NetIs
<1>7. /\ Report!Income(A) \in Int /\ Report!Income(B) \in Int
      /\ Report!Expense(A) \in Int /\ Report!Expense(B) \in Int
      /\ Report!Net(A) = Report!Income(A) - Report!Expense(A)
      /\ Report!Net(B) = Report!Income(B) - Report!Expense(B)
      /\ Report!Net(A \cup B) = Report!Income(A \cup B) - Report!Expense(A \cup B)
  BY NetIs
<1> QED BY <1>6, <1>7

Parts(P, K, S) ==
  /\ \A k \in K : P[k] \subseteq S
  /\ \A i \in S : \E k \in K : i \in P[k]
  /\ \A j, k \in K : j # k => P[j] \cap P[k] = {}

LEMMA ExpenseOfParts ==
  ASSUME NEW S \in SUBSET Numbers, NEW K, IsFiniteSet(K), NEW P, Parts(P, K, S),
         NEW h, \A k \in K : h[k] = Report!Expense(P[k])
  PROVE  SumFunctionOnSet(h, K) = Report!Expense(S)
<1>1. PICK Q : Q = [k \in K |-> Outs(P[k])]
  OBVIOUS
<1>2. Parts(Q, K, Outs(S))
  BY <1>1 DEF Parts, Outs
<1>3. /\ IsFiniteSet(Outs(S)) /\ \A i \in Outs(S) : Cents[i] \in Int
  BY Finite, ReportTypes, FS_Subset DEF Outs
<1>4. \A k \in K : h[k] = SumFunctionOnSet(Cents, Q[k])
  BY <1>1, NetIs DEF Parts
<1>5. SumFunctionOnSet(h, K) = SumFunctionOnSet(Cents, Outs(S))
  BY <1>2, <1>3, <1>4, SumOfParts DEF Parts
<1> QED BY <1>5, NetIs

LEMMA IncomeOfParts ==
  ASSUME NEW S \in SUBSET Numbers, NEW K, IsFiniteSet(K), NEW P, Parts(P, K, S),
         NEW h, \A k \in K : h[k] = Report!Income(P[k])
  PROVE  SumFunctionOnSet(h, K) = Report!Income(S)
<1>1. PICK Q : Q = [k \in K |-> Ins(P[k])]
  OBVIOUS
<1>2. Parts(Q, K, Ins(S))
  BY <1>1 DEF Parts, Ins
<1>3. /\ IsFiniteSet(Ins(S)) /\ \A i \in Ins(S) : Cents[i] \in Int
  BY Finite, ReportTypes, FS_Subset DEF Ins
<1>4. \A k \in K : h[k] = SumFunctionOnSet(Cents, Q[k])
  BY <1>1, NetIs DEF Parts
<1>5. SumFunctionOnSet(h, K) = SumFunctionOnSet(Cents, Ins(S))
  BY <1>2, <1>3, <1>4, SumOfParts DEF Parts
<1> QED BY <1>5, NetIs

LEMMA NetOfParts ==
  ASSUME NEW S \in SUBSET Numbers, NEW K, IsFiniteSet(K), NEW P, Parts(P, K, S),
         NEW h, \A k \in K : h[k] = Report!Net(P[k])
  PROVE  SumFunctionOnSet(h, K) = Report!Net(S)
<1>1. PICK f, g : f = [k \in K |-> Report!Income(P[k])] /\ g = [k \in K |-> Report!Expense(P[k])]
  OBVIOUS
<1>2. SumFunctionOnSet(f, K) = Report!Income(S) /\ SumFunctionOnSet(g, K) = Report!Expense(S)
  <2>1. \A k \in K : f[k] = Report!Income(P[k]) /\ g[k] = Report!Expense(P[k])
    BY <1>1
  <2>2. SumFunctionOnSet(f, K) = Report!Income(S)
    BY <2>1, IncomeOfParts
  <2>3. SumFunctionOnSet(g, K) = Report!Expense(S)
    BY <2>1, ExpenseOfParts
  <2> QED BY <2>2, <2>3
<1>3. \A k \in K : h[k] \in Int /\ g[k] \in Int /\ f[k] = h[k] + g[k]
  <2> SUFFICES ASSUME NEW k \in K PROVE h[k] \in Int /\ g[k] \in Int /\ f[k] = h[k] + g[k]
    OBVIOUS
  <2>1. P[k] \in SUBSET Numbers /\ f[k] = Report!Income(P[k]) /\ g[k] = Report!Expense(P[k]) /\ h[k] = Report!Net(P[k])
    BY <1>1 DEF Parts
  <2>2. PICK T \in SUBSET Numbers : T = P[k]
    BY <2>1
  <2> QED BY <2>1, <2>2, NetIs
<1>4. SumFunctionOnSet(f, K) = SumFunctionOnSet(h, K) + SumFunctionOnSet(g, K)
  BY <1>3, SumOfSums
<1>5. SumFunctionOnSet(h, K) \in Int
  BY <1>3, SumIsInt
<1>6. /\ Report!Income(S) \in Int /\ Report!Expense(S) \in Int
      /\ Report!Net(S) = Report!Income(S) - Report!Expense(S)
  BY NetIs
<1>7. PICK b : b = SumFunctionOnSet(h, K)
  OBVIOUS
<1>8. PICK p, q, m : p = Report!Income(S) /\ q = Report!Expense(S) /\ m = Report!Net(S)
  OBVIOUS
<1>9. p = b + q
  BY <1>2, <1>4, <1>7, <1>8
<1>10. b \in Int /\ p \in Int /\ q \in Int /\ m = p - q
  BY <1>5, <1>6, <1>7, <1>8
<1>11. b = m
  BY <1>9, <1>10
<1> QED BY <1>7, <1>8, <1>11

(* Days one after another.                                                 *)
LEMMA PostedBetween ==
  ASSUME Report!TypeOK, NEW a, NEW b
  PROVE  /\ Report!From(a, b) \in SUBSET Numbers
         /\ \A i \in Report!From(a, b) :
              txs[i].day \in Nat /\ txs[i].day >= 1 /\ txs[i].account \in Holders
<1>1. \A i \in Report!From(a, b) : txs[i] \in Report!Transaction
  BY DEF Report!From, Report!Posted, Report!PostedLive, Report!TypeOK
<1> QED BY <1>1, ReportTypes DEF Report!From, Report!Transaction, Report!Days

LEMMA Ranges ==
  ASSUME Report!TypeOK, NEW a \in Int, NEW b \in Int, NEW c \in Int, b <= c, a <= b + 1 \/ a = 1
  PROVE  /\ Report!From(a, b) \cap Report!From(b + 1, c) = {}
         /\ Report!From(a, c) = Report!From(a, b) \cup Report!From(b + 1, c)
<1>1. \A i : i \in Report!From(a, c) =>
        i \in Report!From(a, b) \/ i \in Report!From(b + 1, c)
  BY PostedBetween DEF Report!From
<1>2. \A i : i \in Report!From(a, b) => i \in Report!From(a, c) /\ i \notin Report!From(b + 1, c)
  BY PostedBetween DEF Report!From
<1>3. \A i : i \in Report!From(b + 1, c) => i \in Report!From(a, c)
  BY PostedBetween DEF Report!From
<1> QED BY <1>1, <1>2, <1>3

LEMMA NetOfRanges ==
  ASSUME Report!TypeOK, NEW a \in Int, NEW b \in Int, NEW c \in Int, b <= c, a <= b + 1 \/ a = 1
  PROVE  /\ Report!Net(Report!From(a, c)) = Report!Net(Report!From(a, b)) + Report!Net(Report!From(b + 1, c))
         /\ Report!Income(Report!From(a, c)) = Report!Income(Report!From(a, b)) + Report!Income(Report!From(b + 1, c))
<1>1. PICK A, B : /\ A = Report!From(a, b) /\ B = Report!From(b + 1, c)
                  /\ A \in SUBSET Numbers /\ B \in SUBSET Numbers
  BY PostedBetween
<1>2. A \cap B = {} /\ Report!From(a, c) = A \cup B
  BY <1>1, Ranges
<1> QED BY <1>1, <1>2, NetOfBoth

LEMMA OpenedIsInt == Report!Opened = SumFunctionOnSet(Opening, Holders) /\ Report!Opened \in Int
BY SumsHere, Finite, ReportTypes, SumIsInt DEF Report!Opened

LEMMA TotalGoesOn ==
  ASSUME Report!TypeOK, NEW a \in Int, NEW d \in Int, a <= d + 1
  PROVE  /\ Report!Total(d) = Report!Before(a) + Report!Net(Report!From(a, d))
         /\ Report!Before(a) \in Int /\ Report!Total(d) \in Int
<1>1. a - 1 \in Int /\ a - 1 <= d /\ (a - 1) + 1 = a
  OBVIOUS
<1>2. Report!Net(Report!From(1, d)) = Report!Net(Report!From(1, a - 1)) + Report!Net(Report!From(a, d))
  BY <1>1, NetOfRanges
<1>3. /\ Report!Net(Report!From(1, d)) \in Int /\ Report!Net(Report!From(1, a - 1)) \in Int
      /\ Report!Net(Report!From(a, d)) \in Int
  BY PostedBetween, NetIs
<1> QED BY <1>2, <1>3, OpenedIsInt DEF Report!Total, Report!Before

(* The chart, day by day.                                                  *)
LEMMA UptoIs ==
  ASSUME NEW k \in Nat
  PROVE  IsFiniteSet(1..k) /\ \A j \in 1..k : j \in Int /\ j >= 1 /\ j <= k
<1>1. IsFiniteSet(1..k)
  BY FS_Interval
<1> QED BY <1>1

LEMMA ChartIs ==
  ASSUME Report!TypeOK, NEW d \in Nat, NEW n \in Nat
  PROVE  /\ DOMAIN Chart(d, n) = 1..n
         /\ \A k \in 1..n : Chart(d, n)[k] = Report!Total(First(d, n) + k - 1)
<1>1. PICK h : h = Daily(d, n)
  OBVIOUS
<1>2. DOMAIN h = 1..n
  BY <1>1 DEF Daily
<1>3. PICK a : a = First(d, n) /\ a \in Int
  BY DEF First
<1>4. ASSUME NEW k \in 1..n
      PROVE  Report!Before(a) + SumFunctionOnSet(h, 1..k) = Report!Total(a + k - 1)
  <2>1. k \in Nat /\ k >= 1 /\ a + k - 1 \in Int /\ a <= (a + k - 1) + 1
    BY <1>3
  <2>2. PICK P : P = [j \in 1..k |-> Report!From(a + j - 1, a + j - 1)]
    OBVIOUS
  <2>3. PICK S : S = Report!From(a, a + k - 1) /\ S \in SUBSET Numbers
    BY PostedBetween
  <2>4. \A j \in 1..k : P[j] \subseteq S
    <3> SUFFICES ASSUME NEW j \in 1..k, NEW i \in P[j] PROVE i \in S
      OBVIOUS
    <3>1. i \in Report!From(a + j - 1, a + j - 1)
      BY <2>2
    <3>2. txs[i].day \in Nat
      BY <3>1, PostedBetween
    <3> QED BY <1>3, <2>1, <2>3, <3>1, <3>2 DEF Report!From
  <2>5. \A i \in S : \E j \in 1..k : i \in P[j]
    <3> SUFFICES ASSUME NEW i \in S PROVE \E j \in 1..k : i \in P[j]
      OBVIOUS
    <3>1. txs[i].day \in Nat /\ txs[i].day >= a /\ txs[i].day <= a + k - 1
      BY <2>3, PostedBetween DEF Report!From
    <3>2. PICK j : j = txs[i].day - a + 1 /\ j \in 1..k
      BY <1>3, <2>1, <3>1
    <3>3. a + j - 1 = txs[i].day
      BY <1>3, <3>1, <3>2
    <3>4. i \in Report!From(a + j - 1, a + j - 1)
      BY <2>3, <3>1, <3>3 DEF Report!From
    <3> QED BY <2>2, <3>2, <3>4
  <2>6. \A j, l \in 1..k : j # l => P[j] \cap P[l] = {}
    <3> SUFFICES ASSUME NEW j \in 1..k, NEW l \in 1..k, NEW i \in P[j], i \in P[l] PROVE j = l
      OBVIOUS
    <3>1. i \in Report!From(a + j - 1, a + j - 1) /\ i \in Report!From(a + l - 1, a + l - 1)
      BY <2>2
    <3>2. /\ txs[i].day \in Nat /\ txs[i].day >= a + j - 1 /\ txs[i].day <= a + j - 1
          /\ txs[i].day >= a + l - 1 /\ txs[i].day <= a + l - 1
      BY <3>1, PostedBetween DEF Report!From
    <3> QED BY <1>3, <3>2
  <2>7. Parts(P, 1..k, S)
    BY <2>4, <2>5, <2>6 DEF Parts
  <2>8. \A j \in 1..k : h[j] = Report!Net(P[j])
    BY <1>1, <1>3, <2>1, <2>2 DEF Daily
  <2>9. SumFunctionOnSet(h, 1..k) = Report!Net(S)
    BY <2>1, <2>3, <2>7, <2>8, UptoIs, NetOfParts
  <2>10. Report!Total(a + k - 1) = Report!Before(a) + Report!Net(Report!From(a, a + k - 1))
    BY <1>3, <2>1, TotalGoesOn
  <2> QED BY <2>3, <2>9, <2>10
<1>5. Chart(d, n) = [k \in 1..n |-> Report!Before(a) + SumFunctionOnSet(h, 1..k)]
  BY <1>1, <1>2, <1>3, SumsHere DEF Chart, Report!Running
<1> QED BY <1>3, <1>4, <1>5

LEMMA Span == \A d \in Report!Days : \A n \in Spans :
                /\ d \in Nat /\ n \in Nat /\ n >= 1 /\ d >= 1 /\ d <= LastDay
                /\ First(d, n) \in Int /\ First(d, n) = d - n + 1
BY ReportTypes DEF Report!Days, First

(* What a finished request holds.                                          *)
LEMMA DashboardHas ==
  ASSUME ReportInv, Report!Shown("dashboard")
  PROVE  /\ Report!TypeOK /\ query.day \in Report!Days /\ query.span \in Spans
         /\ query.summary = Cards(query.day, query.span)
         /\ query.previous = CardsBefore(query.day, query.span)
         /\ query.categories = Shared(query.day, query.span)
         /\ query.accounts = Report!List(query.day) /\ query.total = Report!Total(query.day)
         /\ query.opening = Report!Before(First(query.day, query.span))
         /\ query.history = Chart(query.day, query.span)
<1>1. query # none /\ query.page = "dashboard" /\ query.step > 7
  BY DEF Report!Shown, Report!Steps
<1>2. /\ Report!TypeOK /\ Asked(query) /\ DashboardIs(query, query.day, query.span)
  BY <1>1 DEF ReportInv, Told
<1>3. query.step \in Nat
  BY <1>2 DEF Asked
<1>4. query.step > 1 /\ query.step > 2 /\ query.step > 3 /\ query.step > 4 /\ query.step > 5 /\ query.step > 6
  BY <1>1, <1>3
<1> QED BY <1>1, <1>2, <1>4 DEF Asked, DashboardIs, Knows

LEMMA MonthlyHas ==
  ASSUME ReportInv, Report!Shown("monthly")
  PROVE  /\ Report!TypeOK /\ query.day \in Report!Days /\ query.span \in Spans
         /\ query.rows = Months(query.day, query.span)
         /\ query.categories \in Listings(query.day, query.span)
         /\ query.trends \in Trends(query.day, query.span, query.categories)
         /\ query.opening = Report!Before(Report!FirstOf(Month1(query.day, query.span)))
         /\ query.balances = MonthChart(query.day, query.span)
<1>1. query # none /\ query.page = "monthly" /\ query.step > 5
  BY DEF Report!Shown, Report!Steps
<1>2. /\ Report!TypeOK /\ Asked(query) /\ MonthlyIs(query, query.day, query.span)
  BY <1>1 DEF ReportInv, Told
<1>3. query.step \in Nat
  BY <1>2 DEF Asked
<1>4. query.step > 1 /\ query.step > 2 /\ query.step > 3 /\ query.step > 4
  BY <1>1, <1>3
<1> QED BY <1>1, <1>2, <1>4 DEF Asked, MonthlyIs, Knows, OneOf

LEMMA ChartMeets == ReportInv => Report!ChartMeetsCards
<1> SUFFICES ASSUME ReportInv, Report!Shown("dashboard")
             PROVE  /\ query.history[query.span] = query.total
                    /\ query.summary.income - query.summary.expense = query.total - query.opening
  BY DEF Report!ChartMeetsCards
<1>1. PICK d, n : d = query.day /\ n = query.span
  OBVIOUS
<1>2. /\ Report!TypeOK /\ d \in Report!Days /\ n \in Spans
      /\ query.summary = Cards(d, n) /\ query.total = Report!Total(d)
      /\ query.opening = Report!Before(First(d, n)) /\ query.history = Chart(d, n)
  BY <1>1, DashboardHas
<1>3. /\ d \in Nat /\ n \in Nat /\ n \in 1..n /\ First(d, n) + n - 1 = d
      /\ First(d, n) \in Int /\ First(d, n) <= d + 1 /\ d \in Int
  BY <1>2, Span
<1>4. Chart(d, n)[n] = Report!Total(d)
  BY <1>2, <1>3, ChartIs
<1>5. PICK S : S = Report!From(First(d, n), d) /\ S \in SUBSET Numbers
  BY <1>2, PostedBetween
<1>6. query.summary.income = Report!Income(S) /\ query.summary.expense = Report!Expense(S)
  BY <1>2, <1>5 DEF Cards, Report!Period
<1>7. /\ Report!Total(d) = Report!Before(First(d, n)) + Report!Net(S)
      /\ Report!Before(First(d, n)) \in Int
  BY <1>2, <1>3, <1>5, TotalGoesOn
<1>8. Report!Net(S) = Report!Income(S) - Report!Expense(S) /\ Report!Net(S) \in Int
  BY <1>5, NetIs
<1>9. PICK x, y : x = Report!Before(First(d, n)) /\ y = Report!Net(S)
  OBVIOUS
<1>10. (x + y) - x = y
  BY <1>7, <1>8, <1>9
<1> QED BY <1>1, <1>2, <1>4, <1>6, <1>7, <1>8, <1>9, <1>10

LEMMA PeriodsDoMeet == ReportInv => Report!PeriodsMeet
<1> SUFFICES ASSUME ReportInv, Report!Shown("dashboard")
             PROVE  /\ query.previous.income - query.previous.expense
                         = query.opening - Report!Before(query.day - 2 * query.span + 1)
                    /\ query.summary.income + query.previous.income
                         = Report!Income(Report!From(query.day - 2 * query.span + 1, query.day))
  BY DEF Report!PeriodsMeet
<1>1. PICK d, n : d = query.day /\ n = query.span
  OBVIOUS
<1>2. /\ Report!TypeOK /\ d \in Report!Days /\ n \in Spans
      /\ query.summary = Cards(d, n) /\ query.previous = CardsBefore(d, n)
      /\ query.opening = Report!Before(First(d, n))
  BY <1>1, DashboardHas
<1>3. PICK a, b : a = d - 2 * n + 1 /\ b = d - n
  OBVIOUS
<1>4. /\ d \in Int /\ a \in Int /\ b \in Int /\ b <= d /\ a <= b + 1
      /\ First(d, n) = b + 1 /\ First(d, n) - 1 = b /\ First(d, n) - 1 - n + 1 = a
      /\ (b + 1) - 1 = b
  BY <1>2, <1>3, Span
<1>5. PICK S, R : /\ S = Report!From(b + 1, d) /\ S \in SUBSET Numbers
                  /\ R = Report!From(a, b) /\ R \in SUBSET Numbers
  BY <1>2, PostedBetween
<1>6. /\ query.summary.income = Report!Income(S)
      /\ query.previous.income = Report!Income(R) /\ query.previous.expense = Report!Expense(R)
  BY <1>2, <1>4, <1>5 DEF Cards, CardsBefore, Report!Period
<1>7. Report!Income(Report!From(a, d)) = Report!Income(R) + Report!Income(S)
  BY <1>2, <1>4, <1>5, NetOfRanges
<1>8. /\ Report!Income(R) \in Int /\ Report!Income(S) \in Int
      /\ Report!Net(R) = Report!Income(R) - Report!Expense(R) /\ Report!Net(R) \in Int
  BY <1>5, NetIs
<1>9. Report!Total(b) = Report!Before(a) + Report!Net(R) /\ Report!Before(a) \in Int
  BY <1>2, <1>4, <1>5, TotalGoesOn
<1>10. Report!Before(b + 1) = Report!Total(b)
  BY <1>4 DEF Report!Before, Report!Total
<1>11. PICK x, y : x = Report!Before(a) /\ y = Report!Net(R)
  OBVIOUS
<1>12. (x + y) - x = y
  BY <1>8, <1>9, <1>11
<1>13. query.opening - Report!Before(a) = Report!Net(R)
  BY <1>2, <1>4, <1>9, <1>10, <1>11, <1>12
<1>14. query.summary.income + query.previous.income = Report!Income(Report!From(a, d))
  BY <1>6, <1>7, <1>8
<1> QED BY <1>1, <1>3, <1>6, <1>8, <1>13, <1>14

LEMMA DeletedNowhere == ReportInv => Report!DeletedCountsNowhere
<1> SUFFICES ASSUME ReportInv, NEW i \in Numbers, txs[i] # none, ~txs[i].live
             PROVE  /\ i \notin Report!From(1, LastDay)
                    /\ Report!Shown("dashboard") =>
                         \A k \in 1..query.span : query.history[k] =
                           Report!Opened + Report!Net({j \in Numbers \ {i} :
                             Report!Posted(j) /\ txs[j].day <= query.day - query.span + k})
  BY DEF Report!DeletedCountsNowhere
<1>1. ~Report!Posted(i)
  BY DEF Report!Posted, Report!PostedLive
<1>2. i \notin Report!From(1, LastDay)
  BY <1>1 DEF Report!From
<1>3. ASSUME Report!Shown("dashboard"), NEW k \in 1..query.span
      PROVE  query.history[k] = Report!Opened + Report!Net({j \in Numbers \ {i} :
                 Report!Posted(j) /\ txs[j].day <= query.day - query.span + k})
  <2>1. PICK d, n : d = query.day /\ n = query.span
    OBVIOUS
  <2>2. /\ Report!TypeOK /\ d \in Report!Days /\ n \in Spans /\ query.history = Chart(d, n)
    BY <1>3, <2>1, DashboardHas
  <2>3. d \in Nat /\ n \in Nat /\ k \in 1..n /\ First(d, n) + k - 1 = d - n + k
    BY <1>3, <2>1, <2>2, Span
  <2>4. query.history[k] = Report!Opened + Report!Net(Report!From(1, d - n + k))
    BY <2>2, <2>3, ChartIs DEF Report!Total
  <2>5. \A j \in Numbers : Report!Posted(j) => txs[j].day \in Nat /\ txs[j].day >= 1
    <3> SUFFICES ASSUME NEW j \in Numbers, Report!Posted(j)
                 PROVE  txs[j].day \in Nat /\ txs[j].day >= 1
      OBVIOUS
    <3>1. txs[j] \in Report!Transaction
      BY <2>2 DEF Report!Posted, Report!PostedLive, Report!TypeOK
    <3> QED BY <3>1, ReportTypes DEF Report!Transaction, Report!Days
  <2>6. Report!From(1, d - n + k) = {j \in Numbers \ {i} :
           Report!Posted(j) /\ txs[j].day <= d - n + k}
    BY <1>1, <2>5 DEF Report!From
  <2> QED BY <2>1, <2>4, <2>6
<1> QED BY <1>2, <1>3

(* Months, of any length.                                                  *)
LEMMA MonthBegins ==
  ASSUME NEW d \in Int
  PROVE  /\ Report!MonthOf(d) \in Int
         /\ \A m \in Int : Report!FirstOf(m) \in Int /\ (Report!FirstOf(m) <= d <=> m <= Report!MonthOf(d))
<1>1. PICK M \in Nat : M = DaysPerMonth /\ M > 0
  BY ReportTypes
<1>2. (d - 1) \div M \in Int
  BY <1>1
<1>3. \A m \in Int : m * M + 1 \in Int /\ (m * M + 1 <= d <=> m <= (d - 1) \div M)
  BY <1>1
<1> QED BY <1>1, <1>2, <1>3 DEF Report!MonthOf, Report!FirstOf

LEMMA MonthSpan ==
  ASSUME NEW d \in Report!Days, NEW n \in Spans
  PROVE  /\ Month1(d, n) \in Int /\ Month1(d, n) + n - 1 = Report!MonthOf(d)
         /\ Report!FirstOf(Month1(d, n)) \in Int /\ Report!FirstOf(Month1(d, n)) <= d
<1>1. d \in Int /\ n \in Nat /\ n >= 1
  BY Span
<1>2. Report!MonthOf(d) \in Int
  BY <1>1, MonthBegins
<1>3. /\ Month1(d, n) \in Int /\ Month1(d, n) + n - 1 = Report!MonthOf(d)
      /\ Month1(d, n) <= Report!MonthOf(d)
  BY <1>1, <1>2 DEF Month1
<1> QED BY <1>1, <1>3, MonthBegins

MonthSets(d, n) == [k \in 1..n |-> InIts(d, n, k)]
AllMonths(d, n) == Report!From(Report!FirstOf(Month1(d, n)), d)

LEMMA MonthParts ==
  ASSUME Report!TypeOK, NEW d \in Report!Days, NEW n \in Spans
  PROVE  /\ AllMonths(d, n) \in SUBSET Numbers /\ IsFiniteSet(1..n)
         /\ Parts(MonthSets(d, n), 1..n, AllMonths(d, n))
         /\ \A k \in 1..n : MonthSets(d, n)[k] = InIts(d, n, k) /\ InIts(d, n, k) \in SUBSET Numbers
<1>1. PICK a, z : a = Month1(d, n) /\ z = Report!MonthOf(d)
  OBVIOUS
<1>2. a \in Int /\ z \in Int /\ n \in Nat /\ n >= 1 /\ d \in Int /\ a + n - 1 = z
  BY <1>1, MonthSpan, MonthBegins, Span
<1>3. PICK S : S = AllMonths(d, n) /\ S = Report!From(Report!FirstOf(a), d)
  BY <1>1 DEF AllMonths
<1>4. \A k \in 1..n : MonthSets(d, n)[k] = InIts(d, n, k)
  BY DEF MonthSets
<1>5. \A k \in 1..n : InIts(d, n, k) =
         {i \in Report!From(Report!FirstOf(a + k - 1), d) : Report!MonthOf(txs[i].day) = a + k - 1}
  BY <1>1 DEF InIts, Report!InMonth
<1>6. \A k \in 1..n : InIts(d, n, k) \subseteq S
  <2> SUFFICES ASSUME NEW k \in 1..n, NEW i \in InIts(d, n, k) PROVE i \in S
    OBVIOUS
  <2>1. k \in Int /\ k >= 1 /\ a + k - 1 \in Int /\ a <= a + k - 1
    BY <1>2
  <2>2. i \in Report!From(Report!FirstOf(a + k - 1), d) /\ Report!MonthOf(txs[i].day) = a + k - 1
    BY <1>5
  <2>3. txs[i].day \in Int
    BY <2>2, PostedBetween
  <2>4. Report!FirstOf(a) <= txs[i].day
    BY <1>2, <2>1, <2>2, <2>3, MonthBegins
  <2> QED BY <1>3, <2>2, <2>4 DEF Report!From
<1>7. \A i \in S : \E k \in 1..n : i \in InIts(d, n, k)
  <2> SUFFICES ASSUME NEW i \in S PROVE \E k \in 1..n : i \in InIts(d, n, k)
    OBVIOUS
  <2>1. txs[i].day \in Int /\ Report!FirstOf(a) <= txs[i].day /\ txs[i].day <= d
    BY <1>2, <1>3, PostedBetween, MonthBegins DEF Report!From
  <2>2. PICK x : x = Report!MonthOf(txs[i].day) /\ x \in Int
    BY <2>1, MonthBegins
  <2>3. a <= x /\ Report!FirstOf(x) <= txs[i].day /\ Report!FirstOf(x) \in Int
    BY <1>2, <2>1, <2>2, MonthBegins
  <2>4. x <= z
    <3>1. Report!FirstOf(x) <= d
      BY <1>2, <2>1, <2>3
    <3> QED BY <1>1, <1>2, <2>2, <3>1, MonthBegins
  <2>5. PICK k : k = x - a + 1 /\ k \in 1..n /\ a + k - 1 = x
    BY <1>2, <2>2, <2>3, <2>4
  <2>6. i \in Report!From(Report!FirstOf(x), d)
    BY <1>3, <2>1, <2>3 DEF Report!From
  <2> QED BY <1>5, <2>2, <2>5, <2>6
<1>8. \A j, k \in 1..n : j # k => InIts(d, n, j) \cap InIts(d, n, k) = {}
  <2> SUFFICES ASSUME NEW j \in 1..n, NEW k \in 1..n, NEW i \in InIts(d, n, j), i \in InIts(d, n, k)
               PROVE  j = k
    OBVIOUS
  <2>1. a + j - 1 = a + k - 1
    BY <1>5
  <2> QED BY <1>2, <2>1
<1>9. S \in SUBSET Numbers /\ IsFiniteSet(1..n)
  BY <1>2, <1>3, PostedBetween, UptoIs
<1> QED BY <1>3, <1>4, <1>6, <1>7, <1>8, <1>9 DEF Parts

LEMMA MonthsDoChain == ReportInv => Report!MonthsChain
<1> SUFFICES ASSUME ReportInv, Report!Shown("monthly")
             PROVE  /\ \A k \in 1..query.span :
                         query.rows[k].income - query.rows[k].expense =
                           query.balances[k]
                             - (IF k = 1 THEN query.opening ELSE query.balances[k - 1])
                    /\ query.balances[query.span] = Report!Total(query.day)
  BY DEF Report!MonthsChain
<1>1. PICK d, n : d = query.day /\ n = query.span
  OBVIOUS
<1>2. /\ Report!TypeOK /\ d \in Report!Days /\ n \in Spans /\ query.rows = Months(d, n)
      /\ query.opening = Report!Before(Report!FirstOf(Month1(d, n)))
      /\ query.balances = MonthChart(d, n)
  BY <1>1, MonthlyHas
<1>3. PICK h, b : h = Monthly(d, n) /\ b = Report!Before(Report!FirstOf(Month1(d, n)))
  OBVIOUS
<1>4. n \in Nat /\ n >= 1 /\ d \in Int
  BY <1>2, Span
<1>5. b \in Int /\ Report!Total(d) = b + Report!Net(AllMonths(d, n))
  <2>1. PICK a : /\ a = Report!FirstOf(Month1(d, n)) /\ a \in Int /\ a <= d + 1
    BY <1>2, <1>4, MonthSpan
  <2> QED BY <1>2, <1>3, <1>4, <2>1, TotalGoesOn DEF AllMonths
<1>6. \A k \in 1..n : h[k] = Report!Net(InIts(d, n, k)) /\ h[k] \in Int
  <2> SUFFICES ASSUME NEW k \in 1..n
               PROVE  h[k] = Report!Net(InIts(d, n, k)) /\ h[k] \in Int
    OBVIOUS
  <2>1. h[k] = Report!Net(InIts(d, n, k))
    BY <1>3 DEF Monthly
  <2>2. PICK S \in SUBSET Numbers : S = InIts(d, n, k)
    BY <1>2, MonthParts
  <2> QED BY <2>1, <2>2, NetIs
<1>7. \A k \in 1..n : query.rows[k].income - query.rows[k].expense = h[k]
  <2> SUFFICES ASSUME NEW k \in 1..n
               PROVE  query.rows[k].income - query.rows[k].expense = h[k]
    OBVIOUS
  <2>1. PICK S \in SUBSET Numbers : S = InIts(d, n, k)
    BY <1>2, MonthParts
  <2>2. query.rows[k].income = Report!Income(S) /\ query.rows[k].expense = Report!Expense(S)
    BY <1>2, <2>1 DEF Months
  <2> QED BY <1>6, <2>1, <2>2, NetIs
<1>8. \A k \in 1..n : query.balances[k] = b + SumFunctionOnSet(h, 1..k)
  <2>1. DOMAIN h = 1..n
    BY <1>3 DEF Monthly
  <2> QED BY <1>2, <1>3, <2>1, SumsHere DEF MonthChart, Report!Running
<1>9. query.balances[n] = Report!Total(d)
  <2>1. \A k \in 1..n : h[k] = Report!Net(MonthSets(d, n)[k])
    BY <1>2, <1>6, MonthParts
  <2>2. PICK P, S, K : P = MonthSets(d, n) /\ S = AllMonths(d, n) /\ K = 1..n
    OBVIOUS
  <2>3. /\ S \in SUBSET Numbers /\ IsFiniteSet(K) /\ Parts(P, K, S)
        /\ \A k \in K : h[k] = Report!Net(P[k])
    BY <1>2, <2>1, <2>2, MonthParts
  <2>4. SumFunctionOnSet(h, K) = Report!Net(S)
    BY <2>3, NetOfParts
  <2>5. n \in 1..n
    BY <1>4
  <2> QED BY <1>5, <1>8, <2>2, <2>4, <2>5
<1>10. ASSUME NEW k \in 1..n
       PROVE  h[k] = query.balances[k] - (IF k = 1 THEN b ELSE query.balances[k - 1])
  <2>1. /\ k \in Nat /\ k >= 1 /\ k \in 1..k /\ IsFiniteSet(1..k) /\ \A j \in 1..k : h[j] \in Int
    BY <1>4, <1>6, UptoIs
  <2>2. (1..k) \ {k} = 1..(k - 1)
    BY <2>1
  <2>3. SumFunctionOnSet(h, 1..k) = h[k] + SumFunctionOnSet(h, 1..(k - 1))
    BY <2>1, <2>2, SumLess
  <2>4. SumFunctionOnSet(h, 1..(k - 1)) \in Int /\ h[k] \in Int
    BY <2>1, <2>2, SumIsInt
  <2>5. PICK s : s = SumFunctionOnSet(h, 1..(k - 1)) /\ s \in Int
    BY <2>4
  <2>6. query.balances[k] = b + (h[k] + s)
    BY <1>8, <2>3, <2>5
  <2>7. CASE k = 1
    <3>1. 1..(k - 1) = {}
      BY <2>7
    <3>2. s = 0
      BY <2>5, <3>1, SumOfNone
    <3> QED BY <1>5, <2>4, <2>6, <2>7, <3>2
  <2>8. CASE k # 1
    <3>1. k - 1 \in 1..n
      BY <2>1, <2>8, <1>4
    <3>2. query.balances[k - 1] = b + s
      BY <1>8, <2>5, <3>1
    <3> QED BY <1>5, <2>4, <2>5, <2>6, <2>8, <3>2
  <2> QED BY <2>7, <2>8
<1> QED BY <1>1, <1>2, <1>3, <1>7, <1>9, <1>10

(* Categories.                                                             *)
InCategory(S, c) == {i \in S : Category[i] = c}
Used(S) == {Category[i] : i \in Outs(S)}

LEMMA SharedIs ==
  ASSUME NEW S
  PROVE  /\ DOMAIN Report!ByCategory(S) = Used(S)
         /\ \A c \in Used(S) : Report!ByCategory(S)[c] = Report!Expense(InCategory(S, c))
BY DEF Report!ByCategory, Used, Outs, InCategory

LEMMA UsedFinite == ASSUME NEW S \in SUBSET Numbers PROVE IsFiniteSet(Used(S))
<1>1. IsFiniteSet(Outs(S))
  BY Finite, FS_Subset DEF Outs
<1>2. PICK f, T, U : T = Outs(S) /\ U = Used(S) /\ f = [i \in T |-> Category[i]]
  OBVIOUS
<1>3. f \in Surjection(T, U)
  BY <1>2 DEF Surjection, Used
<1>4. IsFiniteSet(U)
  BY <1>1, <1>2, <1>3, FS_Surjection
<1> QED BY <1>2, <1>4

(* The categories share the expenses out.                                  *)
LEMMA SharesAre ==
  ASSUME NEW S \in SUBSET Numbers
  PROVE  Report!SumFunction(Report!ByCategory(S)) = Report!Expense(S)
<1>1. PICK h, K : h = Report!ByCategory(S) /\ K = Used(S)
  OBVIOUS
<1>2. PICK P, T : T = Outs(S) /\ P = [c \in K |-> {i \in T : Category[i] = c}]
  OBVIOUS
<1>3. IsFiniteSet(K) /\ DOMAIN h = K
  BY <1>1, UsedFinite, SharedIs
<1>4. IsFiniteSet(T) /\ \A i \in T : Cents[i] \in Int
  BY <1>2, Finite, ReportTypes, FS_Subset DEF Outs
<1>5. /\ \A c \in K : P[c] \subseteq T
      /\ \A i \in T : \E c \in K : i \in P[c]
      /\ \A b, c \in K : b # c => P[b] \cap P[c] = {}
  BY <1>1, <1>2 DEF Used
<1>6. \A c \in K : h[c] = SumFunctionOnSet(Cents, P[c])
  <2> SUFFICES ASSUME NEW c \in K PROVE h[c] = SumFunctionOnSet(Cents, P[c])
    OBVIOUS
  <2>1. InCategory(S, c) \in SUBSET Numbers /\ Outs(InCategory(S, c)) = P[c]
    BY <1>2 DEF InCategory, Outs
  <2>2. h[c] = Report!Expense(InCategory(S, c))
    BY <1>1, SharedIs
  <2>3. Report!Expense(InCategory(S, c)) = SumFunctionOnSet(Cents, Outs(InCategory(S, c)))
    BY <2>1, NetIs
  <2> QED BY <2>1, <2>2, <2>3
<1>7. SumFunctionOnSet(h, K) = SumFunctionOnSet(Cents, T)
  BY <1>3, <1>4, <1>5, <1>6, SumOfParts
<1>8. Report!SumFunction(h) = SumFunctionOnSet(h, K)
  BY <1>3, SumsHere
<1>9. Report!Expense(S) = SumFunctionOnSet(Cents, T)
  BY <1>2, NetIs
<1> QED BY <1>1, <1>7, <1>8, <1>9

LEMMA SameCardinality == \A S : Report!Cardinality(S) = Cardinality(S)
BY DEF Report!Cardinality, Cardinality, Report!IsFiniteSet, IsFiniteSet

LEMMA LargestAre ==
  ASSUME NEW totals, NEW n \in Nat, IsFiniteSet(DOMAIN totals), NEW S \in Report!Largest(totals, n)
  PROVE  /\ S \subseteq DOMAIN totals /\ (Cardinality(S) < n => S = DOMAIN totals)
         /\ \A c \in S, e \in DOMAIN totals \ S : totals[e] <= totals[c]
<1>1. S \subseteq DOMAIN totals /\ (Cardinality(S) = n \/ S = DOMAIN totals)
  BY SameCardinality DEF Report!Largest
<1> QED BY <1>1 DEF Report!Largest

(* A part of what is spent is not more than all of it.                     *)
LEMMA SumIsNat ==
  ASSUME NEW f, NEW S, IsFiniteSet(S), \A x \in S : f[x] \in Nat
  PROVE  \A T \in SUBSET S : SumFunctionOnSet(f, T) \in Nat
<1>1. PICK G : G = {U \in SUBSET S : SumFunctionOnSet(f, U) \in Nat}
  OBVIOUS
<1>2. ASSUME NEW U \in SUBSET S, \A V \in SUBSET U : V # U => V \in G
      PROVE  U \in G
  <2>1. CASE U = {}
    BY <1>1, <2>1, SumOfNone
  <2>2. CASE U # {}
    <3>1. Picked(U) \in U /\ U \ {Picked(U)} \in G /\ f[Picked(U)] \in Nat
      BY <1>2, <2>2, NextIsIn
    <3>2. SumFunctionOnSet(f, U) = f[Picked(U)] + SumFunctionOnSet(f, U \ {Picked(U)})
      BY <2>2, FS_Subset, SumOfNext
    <3> QED BY <1>1, <3>1, <3>2
  <2> QED BY <2>1, <2>2
<1>3. \A U \in SUBSET S : U \in G
  BY <1>2, Descent
<1> QED BY <1>1, <1>3

LEMMA PartOfSum ==
  ASSUME NEW f, NEW S, IsFiniteSet(S), \A x \in S : f[x] \in Nat, NEW T \in SUBSET S
  PROVE  SumFunctionOnSet(f, T) <= SumFunctionOnSet(f, S)
<1>1. PICK U : U = S \ T
  OBVIOUS
<1>2. /\ IsFiniteSet(T) /\ IsFiniteSet(U) /\ T \cap U = {} /\ T \cup U = S
      /\ U \in SUBSET S
  BY <1>1, FS_Subset
<1>3. SumFunctionOnSet(f, S) = SumFunctionOnSet(f, T) + SumFunctionOnSet(f, U)
  BY <1>2, SumOfBoth
<1>4. PICK t, u : t = SumFunctionOnSet(f, T) /\ u = SumFunctionOnSet(f, U)
  OBVIOUS
<1>5. t \in Nat /\ u \in Nat
  BY <1>2, <1>4, SumIsNat
<1>6. t <= t + u
  BY <1>5
<1> QED BY <1>3, <1>4, <1>6

LEMMA TrendIs ==
  ASSUME Report!TypeOK, NEW d \in Report!Days, NEW n \in Spans, NEW c
  PROVE  Report!SumFunction(Trend(d, n, c)) = Report!Expense(InCategory(AllMonths(d, n), c))
<1>1. PICK P, S, K, h : /\ S = InCategory(AllMonths(d, n), c) /\ K = 1..n /\ h = Trend(d, n, c)
                        /\ P = [k \in K |-> InCategory(InIts(d, n, k), c)]
  OBVIOUS
<1>2. PICK Q, R : Q = MonthSets(d, n) /\ R = AllMonths(d, n)
  OBVIOUS
<1>3. /\ R \in SUBSET Numbers /\ IsFiniteSet(K) /\ Parts(Q, K, R)
      /\ \A k \in K : Q[k] = InIts(d, n, k)
  BY <1>1, <1>2, MonthParts
<1>4. S \in SUBSET Numbers /\ Parts(P, K, S)
  BY <1>1, <1>2, <1>3 DEF Parts, InCategory
<1>5. DOMAIN h = K /\ \A k \in K : h[k] = Report!Expense(P[k])
  BY <1>1 DEF Trend, InCategory
<1>6. SumFunctionOnSet(h, K) = Report!Expense(S)
  BY <1>3, <1>4, <1>5, ExpenseOfParts
<1> QED BY <1>1, <1>5, <1>6, SumsHere

(* What a report lists, of all the categories of its months.               *)
LEMMA CategoriesListed ==
  ASSUME ReportInv, Report!Shown("monthly")
  PROVE  LET S == AllMonths(query.day, query.span)
             all == Report!ByCategory(S)
             T == DOMAIN query.categories IN
         /\ Report!TypeOK /\ query.day \in Report!Days /\ query.span \in Spans
         /\ S \in SUBSET Numbers /\ all = Report!InMonths(query.day, query.span)
         /\ DOMAIN all = Used(S) /\ IsFiniteSet(DOMAIN all)
         /\ \A x \in DOMAIN all : all[x] = Report!Expense(InCategory(S, x)) /\ all[x] \in Nat
         /\ T \in Report!Largest(all, Listed) /\ T \subseteq DOMAIN all
         /\ \A c \in T : query.categories[c] = all[c]
<1>1. PICK d, n, list : d = query.day /\ n = query.span /\ list = query.categories
  OBVIOUS
<1>2. PICK S, all, T : S = AllMonths(d, n) /\ all = Report!ByCategory(S) /\ T = DOMAIN list
  OBVIOUS
<1>3. Report!TypeOK /\ d \in Report!Days /\ n \in Spans /\ list \in Listings(d, n)
  BY <1>1, MonthlyHas
<1>4. all = SharedMonths(d, n) /\ all = Report!InMonths(d, n)
  BY <1>2 DEF SharedMonths, AllMonths, Report!InMonths, Month1
<1>5. S \in SUBSET Numbers
  BY <1>2, <1>3, MonthParts
<1>6. /\ DOMAIN all = Used(S) /\ IsFiniteSet(DOMAIN all)
      /\ \A x \in DOMAIN all : all[x] = Report!Expense(InCategory(S, x))
  BY <1>2, <1>5, SharedIs, UsedFinite
<1>7. ASSUME NEW x \in DOMAIN all PROVE all[x] \in Nat
  <2>1. PICK A : A = InCategory(S, x)
    OBVIOUS
  <2>2. A \in SUBSET Numbers /\ Outs(A) \in SUBSET Numbers
    BY <1>5, <2>1 DEF InCategory, Outs
  <2>3. all[x] = SumFunctionOnSet(Cents, Outs(A))
    BY <1>6, <2>1, <2>2, NetIs
  <2>4. \A i \in Numbers : Cents[i] \in Nat
    BY ReportTypes
  <2> QED BY <2>2, <2>3, <2>4, Finite, SumIsNat
<1>8. PICK U \in Report!Largest(all, Listed) : list = Report!Restrict(all, U)
  BY <1>3, <1>4 DEF Listings
<1>9. U = T /\ \A c \in T : list[c] = all[c]
  BY <1>2, <1>8 DEF Report!Restrict
<1>10. T \in Report!Largest(all, Listed) /\ T \subseteq DOMAIN all
  BY <1>8, <1>9 DEF Report!Largest
<1> QED BY <1>1, <1>2, <1>3, <1>4, <1>5, <1>6, <1>7, <1>9, <1>10

LEMMA CategoriesDoAddUp == ReportInv => Report!CategoriesAddUp
<1> SUFFICES ASSUME ReportInv PROVE Report!CategoriesAddUp
  OBVIOUS
<1>1. ASSUME Report!Shown("dashboard")
      PROVE  Report!SumFunction(query.categories) = query.summary.expense
  <2>1. PICK S : S = Report!From(First(query.day, query.span), query.day)
    OBVIOUS
  <2>2. /\ S \in SUBSET Numbers /\ query.categories = Report!ByCategory(S)
        /\ query.summary.expense = Report!Expense(S)
    BY <1>1, <2>1, DashboardHas, PostedBetween DEF Shared, Cards, Report!Period
  <2> QED BY <2>2, SharesAre
<1>2. ASSUME Report!Shown("monthly")
      PROVE  /\ Report!Shares(query) <= Report!Spent(query)
             /\ Report!Cardinality(DOMAIN query.categories) < Listed =>
                  Report!Shares(query) = Report!Spent(query)
  <2>1. PICK d, n, g : d = query.day /\ n = query.span /\ g = query.categories
    OBVIOUS
  <2>2. PICK P, S, K : P = MonthSets(d, n) /\ S = AllMonths(d, n) /\ K = 1..n
    OBVIOUS
  <2>3. PICK all, T : all = Report!ByCategory(S) /\ T = DOMAIN g
    OBVIOUS
  <2>4. /\ Report!TypeOK /\ d \in Report!Days /\ n \in Spans /\ S \in SUBSET Numbers
        /\ IsFiniteSet(DOMAIN all) /\ \A x \in DOMAIN all : all[x] \in Nat
        /\ T \in Report!Largest(all, Listed) /\ T \subseteq DOMAIN all
        /\ \A c \in T : g[c] = all[c]
    BY <1>2, <2>1, <2>2, <2>3, CategoriesListed
  <2>5. query.rows = Months(d, n)
    BY <1>2, <2>1, MonthlyHas
  <2>6. PICK h : h = [k \in 1..query.span |-> query.rows[k].expense]
    OBVIOUS
  <2>7. /\ IsFiniteSet(K) /\ Parts(P, K, S) /\ \A k \in K : P[k] = InIts(d, n, k)
    BY <2>2, <2>4, MonthParts
  <2>8. DOMAIN h = K /\ \A k \in K : h[k] = Report!Expense(P[k])
    BY <2>1, <2>2, <2>5, <2>6, <2>7 DEF Months
  <2>9. SumFunctionOnSet(h, K) = Report!Expense(S)
    BY <2>4, <2>7, <2>8, ExpenseOfParts
  <2>10. Report!Spent(query) = Report!Expense(S)
    BY <2>6, <2>8, <2>9, SumsHere DEF Report!Spent
  <2>11. SumFunctionOnSet(all, DOMAIN all) = Report!Expense(S)
    BY <2>3, <2>4, SharesAre, SumsHere
  <2>12. Report!Shares(query) = SumFunctionOnSet(all, T)
    <3>1. IsFiniteSet(T) /\ \A x \in T : all[x] \in Int /\ g[x] = all[x]
      BY <2>4, FS_Subset
    <3>2. SumFunctionOnSet(g, T) = SumFunctionOnSet(all, T)
      BY <3>1, SumOfSame
    <3> QED BY <2>1, <2>3, <3>2, SumsHere DEF Report!Shares
  <2>13. SumFunctionOnSet(all, T) <= SumFunctionOnSet(all, DOMAIN all)
    BY <2>4, PartOfSum
  <2>14. Report!Cardinality(T) < Listed => T = DOMAIN all
    BY <2>4, ReportTypes, LargestAre, SameCardinality
  <2> QED BY <2>1, <2>3, <2>10, <2>11, <2>12, <2>13, <2>14
<1>3. ASSUME Report!Shown("monthly"), NEW c \in DOMAIN query.trends
      PROVE  /\ Report!SumFunction(query.trends[c]) = query.categories[c]
             /\ LET all == Report!InMonths(query.day, query.span) IN
                \A e \in DOMAIN all \ DOMAIN query.trends : all[e] <= query.categories[c]
  <2>1. PICK d, n, g : d = query.day /\ n = query.span /\ g = query.categories
    OBVIOUS
  <2>2. PICK S, all, T : S = AllMonths(d, n) /\ all = Report!ByCategory(S) /\ T = DOMAIN g
    OBVIOUS
  <2>3. /\ Report!TypeOK /\ d \in Report!Days /\ n \in Spans /\ all = Report!InMonths(d, n)
        /\ IsFiniteSet(DOMAIN all) /\ \A x \in DOMAIN all : all[x] = Report!Expense(InCategory(S, x))
        /\ T \in Report!Largest(all, Listed) /\ T \subseteq DOMAIN all
        /\ \A x \in T : g[x] = all[x]
    BY <1>3, <2>1, <2>2, CategoriesListed
  <2>4. PICK U \in Report!Largest(g, Trended) : query.trends = [x \in U |-> Trend(d, n, x)]
    BY <1>3, <2>1, MonthlyHas DEF Trends
  <2>5. IsFiniteSet(T)
    BY <2>3, FS_Subset
  <2>6. /\ DOMAIN query.trends = U /\ U \subseteq T /\ c \in U /\ query.trends[c] = Trend(d, n, c)
        /\ \A x \in T \ U : g[x] <= g[c]
    BY <1>3, <2>2, <2>4, <2>5, ReportTypes, LargestAre
  <2>7. \A x \in DOMAIN all \ T : all[x] <= all[c]
    BY <2>3, <2>6, ReportTypes, LargestAre
  <2>8. Report!SumFunction(query.trends[c]) = g[c]
    BY <2>2, <2>3, <2>6, TrendIs
  <2>9. \A e \in DOMAIN all \ U : all[e] <= g[c]
    BY <2>3, <2>6, <2>7
  <2> QED BY <2>1, <2>3, <2>6, <2>8, <2>9
<1> QED BY <1>1, <1>2, <1>3 DEF Report!CategoriesAddUp, Report!Shares

(* Accounts.  What one transfer takes from an account another gets.        *)
Moved(d) == {m \in Moves : moves[m] # none /\ moves[m].day <= d}

LEMMA TransfersCancel ==
  ASSUME Report!TypeOK, NEW d \in Report!Days,
         NEW f, NEW g, \A a \in Holders : f[a] = Report!In(a, d) /\ g[a] = Report!Out(a, d)
  PROVE  /\ SumFunctionOnSet(f, Holders) = SumFunctionOnSet(g, Holders)
         /\ \A a \in Holders : f[a] \in Int /\ g[a] \in Int
<1>1. PICK S : S = Moved(d) /\ S \in SUBSET Moves
  BY DEF Moved
<1>2. IsFiniteSet(S) /\ \A m \in S : Cents[m] \in Int
  BY <1>1, Finite, ReportTypes, FS_Subset
<1>3. \A m \in S : moves[m].from \in Holders /\ moves[m].to \in Holders
  <2>1. \A m \in S : moves[m] \in Report!Move
    BY <1>1 DEF Moved, Report!TypeOK
  <2> QED BY <2>1 DEF Report!Move
<1>4. PICK P, Q : /\ P = [a \in Holders |-> {m \in S : moves[m].to = a}]
                  /\ Q = [a \in Holders |-> {m \in S : moves[m].from = a}]
  OBVIOUS
<1>5. \A a \in Holders : /\ f[a] = SumFunctionOnSet(Cents, P[a])
                         /\ g[a] = SumFunctionOnSet(Cents, Q[a])
  <2> SUFFICES ASSUME NEW a \in Holders
               PROVE  /\ f[a] = SumFunctionOnSet(Cents, P[a])
                      /\ g[a] = SumFunctionOnSet(Cents, Q[a])
    OBVIOUS
  <2>1. /\ P[a] = {m \in Moves : moves[m] # none /\ moves[m].to = a /\ moves[m].day <= d}
        /\ Q[a] = {m \in Moves : moves[m] # none /\ moves[m].from = a /\ moves[m].day <= d}
    BY <1>1, <1>4 DEF Moved
  <2>2. /\ Report!In(a, d) = Report!Sum(P[a]) /\ Report!Out(a, d) = Report!Sum(Q[a])
    BY <2>1 DEF Report!In, Report!Out
  <2> QED BY <2>2, SumsHere
<1>6. /\ \A a \in Holders : P[a] \subseteq S
      /\ \A m \in S : \E a \in Holders : m \in P[a]
      /\ \A a, b \in Holders : a # b => P[a] \cap P[b] = {}
  BY <1>3, <1>4
<1>7. /\ \A a \in Holders : Q[a] \subseteq S
      /\ \A m \in S : \E a \in Holders : m \in Q[a]
      /\ \A a, b \in Holders : a # b => Q[a] \cap Q[b] = {}
  BY <1>3, <1>4
<1>8. \A a \in Holders : f[a] = SumFunctionOnSet(Cents, P[a])
  BY <1>5
<1>9. \A a \in Holders : g[a] = SumFunctionOnSet(Cents, Q[a])
  BY <1>5
<1>10. SumFunctionOnSet(f, Holders) = SumFunctionOnSet(Cents, S)
  BY <1>2, <1>6, <1>8, Finite, SumOfParts
<1>11. SumFunctionOnSet(g, Holders) = SumFunctionOnSet(Cents, S)
  BY <1>2, <1>7, <1>9, Finite, SumOfParts
<1>12. \A a \in Holders : f[a] \in Int /\ g[a] \in Int
  BY <1>2, <1>5, <1>6, <1>7, SumIsInt
<1> QED BY <1>10, <1>11, <1>12

OfAccount(S, a) == {i \in S : txs[i].account = a}

LEMMA EntriesOfAll ==
  ASSUME Report!TypeOK, NEW d \in Report!Days,
         NEW h, \A a \in Holders : h[a] = Report!Net(OfAccount(Report!From(1, d), a))
  PROVE  /\ SumFunctionOnSet(h, Holders) = Report!Net(Report!From(1, d))
         /\ \A a \in Holders : h[a] \in Int
<1>1. PICK S : S = Report!From(1, d) /\ S \in SUBSET Numbers
  BY PostedBetween
<1>2. \A i \in S : txs[i].account \in Holders
  BY <1>1, PostedBetween
<1>3. PICK P : P = [a \in Holders |-> OfAccount(S, a)]
  OBVIOUS
<1>4. Parts(P, Holders, S)
  BY <1>2, <1>3 DEF Parts, OfAccount
<1>5. \A a \in Holders : h[a] = Report!Net(P[a])
  BY <1>1, <1>3
<1>6. SumFunctionOnSet(h, Holders) = Report!Net(S)
  BY <1>1, <1>4, <1>5, Finite, NetOfParts
<1>7. \A a \in Holders : h[a] \in Int
  <2> SUFFICES ASSUME NEW a \in Holders PROVE h[a] \in Int
    OBVIOUS
  <2>1. PICK T \in SUBSET Numbers : T = P[a]
    BY <1>1, <1>4 DEF Parts
  <2> QED BY <1>5, <2>1, NetIs
<1> QED BY <1>1, <1>6, <1>7

LEMMA AccountsDoAddUp == ReportInv => Report!AccountsAddUp
<1> SUFFICES ASSUME ReportInv, Report!Shown("dashboard")
             PROVE  query.total = Report!SumFunction(query.accounts)
                      + Report!SumFunction([a \in Holders \ DOMAIN query.accounts |->
                                              Report!Balance(a, query.day)])
  BY DEF Report!AccountsAddUp
<1>1. PICK d : d = query.day
  OBVIOUS
<1>2. /\ Report!TypeOK /\ d \in Report!Days
      /\ query.accounts = Report!List(d) /\ query.total = Report!Total(d)
  BY <1>1, DashboardHas
<1>3. PICK A, B, l, r : /\ A = usable /\ B = Holders \ A
                        /\ l = Report!List(d) /\ r = [a \in B |-> Report!Balance(a, d)]
  OBVIOUS
<1>4. /\ A \subseteq Holders /\ A \cup B = Holders /\ A \cap B = {}
      /\ IsFiniteSet(A) /\ IsFiniteSet(B)
  <2>1. A \subseteq Holders
    BY <1>2, <1>3 DEF Report!TypeOK
  <2>2. /\ A \in SUBSET Holders /\ B \in SUBSET Holders /\ A \cup B = Holders /\ A \cap B = {}
    BY <1>3, <2>1
  <2> QED BY <2>2, Finite, FS_Subset
<1>5. PICK bal, o, e, in, out, p, q :
        /\ bal = [a \in Holders |-> Report!Balance(a, d)]
        /\ o = Opening
        /\ e = [a \in Holders |-> Report!Net(OfAccount(Report!From(1, d), a))]
        /\ in = [a \in Holders |-> Report!In(a, d)] /\ out = [a \in Holders |-> Report!Out(a, d)]
        /\ p = [a \in Holders |-> o[a] + e[a]] /\ q = [a \in Holders |-> p[a] + in[a]]
  OBVIOUS
<1>6. /\ SumFunctionOnSet(in, Holders) = SumFunctionOnSet(out, Holders)
      /\ \A a \in Holders : in[a] \in Int /\ out[a] \in Int
  <2>1. \A a \in Holders : in[a] = Report!In(a, d) /\ out[a] = Report!Out(a, d)
    BY <1>5
  <2> QED BY <1>2, <2>1, TransfersCancel
<1>7. /\ SumFunctionOnSet(e, Holders) = Report!Net(Report!From(1, d))
      /\ \A a \in Holders : e[a] \in Int
  <2>1. \A a \in Holders : e[a] = Report!Net(OfAccount(Report!From(1, d), a))
    BY <1>5
  <2> QED BY <1>2, <2>1, EntriesOfAll
<1>8. SumFunctionOnSet(o, Holders) = Report!Opened /\ \A a \in Holders : o[a] \in Int
  BY <1>5, OpenedIsInt, ReportTypes
<1>9. \A a \in Holders : bal[a] = o[a] + e[a] + in[a] - out[a]
  BY <1>5 DEF Report!Balance, OfAccount
<1>10. /\ \A a \in Holders : p[a] = o[a] + e[a] /\ p[a] \in Int
       /\ \A a \in Holders : q[a] = p[a] + in[a]
       /\ \A a \in Holders : bal[a] \in Int /\ q[a] = bal[a] + out[a]
  <2> SUFFICES ASSUME NEW a \in Holders
               PROVE  /\ p[a] = o[a] + e[a] /\ p[a] \in Int
                      /\ q[a] = p[a] + in[a]
                      /\ bal[a] \in Int /\ q[a] = bal[a] + out[a]
    OBVIOUS
  <2>1. p[a] = o[a] + e[a] /\ q[a] = p[a] + in[a]
    BY <1>5
  <2> QED BY <1>6, <1>7, <1>8, <1>9, <2>1
<1>11. SumFunctionOnSet(p, Holders) = SumFunctionOnSet(o, Holders) + SumFunctionOnSet(e, Holders)
  BY <1>7, <1>8, <1>10, Finite, SumOfSums
<1>12. SumFunctionOnSet(q, Holders) = SumFunctionOnSet(p, Holders) + SumFunctionOnSet(in, Holders)
  BY <1>6, <1>10, Finite, SumOfSums
<1>13. SumFunctionOnSet(q, Holders) = SumFunctionOnSet(bal, Holders) + SumFunctionOnSet(out, Holders)
  BY <1>6, <1>10, Finite, SumOfSums
<1>14. /\ SumFunctionOnSet(in, Holders) \in Int /\ SumFunctionOnSet(p, Holders) \in Int
       /\ SumFunctionOnSet(bal, Holders) \in Int
  BY <1>6, <1>10, Finite, SumIsInt
<1>15. PICK x, y, z : /\ x = SumFunctionOnSet(in, Holders) /\ y = SumFunctionOnSet(p, Holders)
                      /\ z = SumFunctionOnSet(bal, Holders)
  OBVIOUS
<1>16. y + x = z + x /\ x \in Int /\ y \in Int /\ z \in Int
  BY <1>6, <1>12, <1>13, <1>14, <1>15
<1>17. y = z
  BY <1>16
<1>18. SumFunctionOnSet(bal, Holders) = Report!Total(d)
  BY <1>7, <1>8, <1>11, <1>15, <1>17 DEF Report!Total
<1>19. /\ \A a \in A : l[a] = bal[a] /\ bal[a] \in Int
       /\ \A a \in B : r[a] = bal[a] /\ bal[a] \in Int
       /\ DOMAIN l = A /\ DOMAIN r = B
  BY <1>3, <1>4, <1>5, <1>10 DEF Report!List
<1>20. SumFunctionOnSet(l, A) = SumFunctionOnSet(bal, A)
  BY <1>4, <1>19, SumOfSame
<1>21. SumFunctionOnSet(r, B) = SumFunctionOnSet(bal, B)
  BY <1>4, <1>19, SumOfSame
<1>22. SumFunctionOnSet(bal, A \cup B) = SumFunctionOnSet(bal, A) + SumFunctionOnSet(bal, B)
  BY <1>4, <1>10, SumOfBoth
<1>23. Report!SumFunction(l) = SumFunctionOnSet(l, A) /\ Report!SumFunction(r) = SumFunctionOnSet(r, B)
  BY <1>19, SumsHere
<1>24. r = [a \in Holders \ DOMAIN query.accounts |-> Report!Balance(a, query.day)]
  BY <1>1, <1>2, <1>3, <1>19
<1> QED BY <1>2, <1>3, <1>4, <1>18, <1>20, <1>21, <1>22, <1>23, <1>24

(* What the pages show adds up.                                            *)
THEOREM PagesHold == Report!Spec => []PagesAddUp
<1>1. ReportInv => PagesAddUp
  BY AccountsDoAddUp, ChartMeets, PeriodsDoMeet, MonthsDoChain, CategoriesDoAddUp, DeletedNowhere
     DEF PagesAddUp
<1> QED BY <1>1, ReportInvariance, PTL

=============================================================================
