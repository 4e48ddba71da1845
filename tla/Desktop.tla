------------------------------- MODULE Desktop -------------------------------
(***************************************************************************)
(* The archived desktop program (legacy_desktop.py), whose SQLite file the *)
(* web application takes over: it catches up on schedules when it starts,  *)
(* lists, edits and deletes entries by id, backs its file up and copies a  *)
(* backup back over it.  The web application may upgrade the file at any   *)
(* moment; its triggers then stand between the desktop's statements and    *)
(* the rows.  Budgets, settings and charts are left out.                   *)
(***************************************************************************)
EXTENDS Integers, FiniteSets

CONSTANTS
  Programs,                  \* copies of the program that may run
  Schedules, Amounts,
  AmountOf,                  \* [Schedules -> Amounts]
  MaxId, LastDay,            \* bounds: entries made, days
  None, Bad, Torn            \* nothing; a file that fails the integrity check; half a copy

(* What is assumed of the constants.                                       *)
BoundsAssumption == {MaxId, LastDay} \subseteq Nat \ {0}
SchedulesAssumption == IsFiniteSet(Schedules) /\ AmountOf \in [Schedules -> Amounts]

VARIABLES
  file,         \* the database, or Bad, or Torn
  backup,       \* None, Bad, or a database
  prog,         \* each program: its mode, what it read, lists and has in a dialog
  today

vars == <<file, backup, prog, today>>

-----------------------------------------------------------------------------
(* An entry has exact cents only from the upgrade on.                      *)
Ids == 1..MaxId
Days == 1..LastDay
Entry == [day : Days, amount : Amounts, cents : Amounts \cup {None}, sched : Schedules \cup {None}]
Schedule == [next : Nat \ {0}, active : BOOLEAN]
Database == [rows : [Ids -> Entry \cup {None}], last : 0..MaxId,
             sched : [Schedules -> Schedule \cup {None}], upgraded : BOOLEAN]
Program == [mode : {"closed", "starting", "open", "copying", "broken"},
            due : SUBSET (Schedules \X Days), until : 0..LastDay,
            list : [Ids -> Entry \cup {None}], dialog : {0} \cup Ids]

MarksAssumption == /\ None \notin Entry \cup Schedule \cup Database \cup Amounts \cup Schedules
                   /\ {Bad, Torn} \cap Database = {} /\ Bad \notin {None, Torn}

TypeOK ==
  /\ file \in Database \cup {Bad, Torn} /\ backup \in Database \cup {None, Bad}
  /\ prog \in [Programs -> Program] /\ today \in Days

NoRows == [i \in Ids |-> None]
Closed == [mode |-> "closed", due |-> {}, until |-> 0, list |-> NoRows, dialog |-> 0]
Starting(due, until) == [mode |-> "starting", due |-> due, until |-> until, list |-> NoRows, dialog |-> 0]
Opened(db) == [mode |-> "open", due |-> {}, until |-> 0, list |-> db.rows, dialog |-> 0]
New(day, amount, s) == [day |-> day, amount |-> amount, cents |-> None, sched |-> s]

Readable == file \notin {Bad, Torn}

(* The triggers of migrations 4 and 5, once they are there.                *)
Unchecked(db, e) == TRUE                        \* variant: no triggers on money
MoneyChecked(db, e) == db.upgraded => e.cents = e.amount
DeletesOnceUpgraded(db) == TRUE                 \* variant: no trigger on DELETE
MayDelete(db) == ~db.upgraded

-----------------------------------------------------------------------------
(* Starting: the schedules that are due are read, then posted up to the    *)
(* day that was read in one transaction, which an upgraded file refuses.   *)
Due(db) == {<<s, db.sched[s].next>> : s \in {t \in Schedules :
              db.sched[t] # None /\ db.sched[t].active /\ db.sched[t].next <= today}}

Start(p) ==
  /\ prog[p].mode = "closed" /\ Readable
  /\ prog' = [prog EXCEPT ![p] =
       IF Due(file) = {} THEN Opened(file) ELSE Starting(Due(file), today)]
  /\ UNCHANGED <<file, backup, today>>

Occurrences(due, until) ==
  {o \in Schedules \X Days : \E r \in due : o[1] = r[1] /\ o[2] \in r[2]..until}
(* They are inserted schedule by schedule, day by day.                     *)
InOrder(due, S) ==
  {at \in [1..Cardinality(S) -> S] : \A i, j \in DOMAIN at : i < j =>
     IF at[i][1] = at[j][1]
     THEN at[i][2] < at[j][2] /\ \A k \in i..j : at[k][1] = at[i][1]
     ELSE \A r, q \in due : r[1] = at[i][1] /\ q[1] = at[j][1] => r[2] <= q[2]}
Posted(db, n, at) ==
  [db EXCEPT !.last = @ + n, !.rows = [i \in Ids |->
     IF i \in db.last + 1..db.last + n
     THEN LET o == at[i - db.last] IN New(o[2], AmountOf[o[1]], o[1])
     ELSE db.rows[i]]]
AdvancedNot(db, due, until) == db                          \* variant: next_date stays
Advanced(db, due, until) ==
  [db EXCEPT !.sched = [s \in Schedules |->
     IF \E r \in due : r[1] = s THEN [db.sched[s] EXCEPT !.next = until + 1] ELSE db.sched[s]]]

CatchUp(p) ==
  /\ prog[p].mode = "starting" /\ Readable /\ ~file.upgraded
  /\ LET S == Occurrences(prog[p].due, prog[p].until)
     IN /\ file.last + Cardinality(S) <= MaxId
        /\ \E at \in InOrder(prog[p].due, S) :
             file' = Advanced(Posted(file, Cardinality(S), at), prog[p].due, prog[p].until)
  /\ prog' = [prog EXCEPT ![p] = Opened(file')]
  /\ UNCHANGED <<backup, today>>

StartRefused(p) ==
  /\ prog[p].mode = "starting" /\ (Readable => file.upgraded)
  /\ prog' = [prog EXCEPT ![p] = Closed]
  /\ UNCHANGED <<file, backup, today>>

(* The window is closed, or the program is killed; no commit is halfway.   *)
Close(p) ==
  /\ prog[p].mode \notin {"closed", "copying"}
  /\ prog' = [prog EXCEPT ![p] = Closed]
  /\ UNCHANGED <<file, backup, today>>

-----------------------------------------------------------------------------
(* The main window, which an open dialog blocks.  Every change of entries  *)
(* is followed by a new list.                                              *)
Ready(p) == prog[p].mode = "open" /\ prog[p].dialog = 0 /\ Readable
Refreshed(p) == prog' = [prog EXCEPT ![p] = Opened(file')]
Change(p) == Refreshed(p) /\ UNCHANGED <<backup, today>>

AddEntries(p, n) ==
  /\ Ready(p) /\ file.last + n <= MaxId
  /\ \E a \in Amounts :
       /\ \A i \in 1..n : MoneyChecked(file, New(today, a, None))
       /\ file' = [file EXCEPT !.last = @ + n, !.rows = [i \in Ids |->
            IF i \in file.last + 1..file.last + n THEN New(today, a, None) ELSE file.rows[i]]]
  /\ Change(p)

AddTransaction(p) == AddEntries(p, 1)
ImportFromCsv(p) == AddEntries(p, 2)

WithRow(i, e) == [file EXCEPT !.rows = [file.rows EXCEPT ![i] = e]]

DeleteEntry(p, i) ==
  /\ Ready(p) /\ prog[p].list[i] # None /\ MayDelete(file)
  /\ file' = WithRow(i, None)
  /\ Change(p)

OpenEdit(p, i) ==
  /\ Ready(p) /\ prog[p].list[i] # None /\ file.rows[i] # None
  /\ prog' = [prog EXCEPT ![p].dialog = i]
  /\ UNCHANGED <<file, backup, today>>

CloseEdit(p) ==
  /\ prog[p].mode = "open" /\ prog[p].dialog # 0
  /\ prog' = [prog EXCEPT ![p].dialog = 0]
  /\ UNCHANGED <<file, backup, today>>

SaveEdit(p) ==
  /\ prog[p].mode = "open" /\ prog[p].dialog # 0 /\ Readable
  /\ LET i == prog[p].dialog
     IN IF file.rows[i] = None THEN UNCHANGED file
        ELSE \E a \in Amounts : LET e == [file.rows[i] EXCEPT !.amount = a] IN
               MoneyChecked(file, e) /\ file' = WithRow(i, e)
  /\ Change(p)

WithSchedule(s, c) == [file EXCEPT !.sched = [file.sched EXCEPT ![s] = c]]

AddSchedule(p, s) ==
  /\ Ready(p) /\ file.sched[s] = None /\ ~file.upgraded
  /\ file' = WithSchedule(s, [next |-> today + 1, active |-> TRUE])
  /\ UNCHANGED <<prog, backup, today>>

RemoveSchedule(p, s) ==
  /\ Ready(p) /\ file.sched[s] # None /\ file.sched[s].active
  /\ file' = WithSchedule(s, [file.sched[s] EXCEPT !.active = FALSE])
  /\ UNCHANGED <<prog, backup, today>>

-----------------------------------------------------------------------------
(* A backup is checked, the connection closed, the file written over and   *)
(* opened again, without catching up.  A copy that fails leaves a program  *)
(* without a connection, and perhaps half a file.                          *)
MakeBackup(p) ==
  /\ Ready(p)
  /\ backup' = file
  /\ UNCHANGED <<file, prog, today>>

ValidUnchecked == backup # None                 \* variant: no integrity_check
Valid == backup \notin {None, Bad}
BeginRestore(p) ==
  /\ Ready(p) /\ Valid
  /\ prog' = [prog EXCEPT ![p].mode = "copying"]
  /\ UNCHANGED <<file, backup, today>>

NotShown(p) == prog' = [prog EXCEPT ![p].mode = "open"]    \* variant: the list stays
Shown(p) == Refreshed(p)
Copied(p) ==
  /\ prog[p].mode = "copying"
  /\ file' = backup /\ (IF backup = Bad THEN prog' = [prog EXCEPT ![p].mode = "broken"] ELSE Shown(p))
  /\ UNCHANGED <<backup, today>>

CopyFails(p) ==
  /\ prog[p].mode = "copying"
  /\ prog' = [prog EXCEPT ![p].mode = "broken"]
  /\ file' \in {file, Torn}
  /\ UNCHANGED <<backup, today>>

-----------------------------------------------------------------------------
(* Around the program.                                                     *)
Upgrade ==
  /\ Readable /\ ~file.upgraded
  /\ file' = [file EXCEPT !.upgraded = TRUE, !.rows = [i \in Ids |->
       IF file.rows[i] = None THEN None ELSE [file.rows[i] EXCEPT !.cents = file.rows[i].amount]]]
  /\ UNCHANGED <<backup, prog, today>>

DamageBackup ==
  /\ backup \notin {None, Bad} /\ \A p \in Programs : prog[p].mode # "copying"
  /\ backup' = Bad
  /\ UNCHANGED <<file, prog, today>>

NextDay ==
  /\ today < LastDay
  /\ today' = today + 1
  /\ UNCHANGED <<file, backup, prog>>

Init ==
  /\ file = [rows |-> NoRows, last |-> 0, sched |-> [s \in Schedules |-> None], upgraded |-> FALSE]
  /\ backup = None /\ prog = [p \in Programs |-> Closed] /\ today = 1

Next ==
  \/ Upgrade \/ DamageBackup \/ NextDay
  \/ \E p \in Programs :
       \/ Start(p) \/ CatchUp(p) \/ StartRefused(p) \/ Close(p)
       \/ CloseEdit(p) \/ SaveEdit(p) \/ MakeBackup(p)
       \/ BeginRestore(p) \/ Copied(p) \/ CopyFails(p)
       \/ AddTransaction(p) \/ ImportFromCsv(p)
       \/ \E i \in Ids : DeleteEntry(p, i) \/ OpenEdit(p, i)
       \/ \E s \in Schedules : AddSchedule(p, s) \/ RemoveSchedule(p, s)

Spec == Init /\ [][Next]_vars

-----------------------------------------------------------------------------
(* With one program, no occurrence of a schedule is posted twice, whether  *)
(* it is killed before the catch-up is committed, days pass, or an older   *)
(* backup takes back both the entries and the schedule's date (:167, :184).*)
PostedOnce ==
  Readable => \A s \in Schedules, d \in Days :
    Cardinality({i \in Ids : file.rows[i] # None /\ file.rows[i].sched = s /\ file.rows[i].day = d}) <= 1

(* With one program, what is edited or deleted by its id is the entry that *)
(* is listed under it, although a restore gives ids to other entries.      *)
ActsOnWhatIsListed ==
  [][\A p \in Programs, i \in Ids :
       DeleteEntry(p, i) \/ (SaveEdit(p) /\ prog[p].dialog = i) =>
         /\ file.rows[i] # None
         /\ [file.rows[i] EXCEPT !.cents = None] = [prog[p].list[i] EXCEPT !.cents = None]]_vars

(* A file that fails the integrity check never takes the database's place  *)
(* ("Validate the backup before replacing anything", :522).                *)
NothingBadRestored == file # Bad

(* Once upgraded, amounts and cents agree, whatever the desktop writes     *)
(* (README.md:208).                                                        *)
MoneyAgrees ==
  Readable /\ file.upgraded =>
    \A i \in Ids : file.rows[i] # None => file.rows[i].cents = file.rows[i].amount

(* Nor are its entries lost then (README.md:243) but by putting a backup   *)
(* in the file's place.                                                    *)
EntriesStay ==
  [][Readable /\ file.upgraded /\ ~(\E p \in Programs : Copied(p) \/ CopyFails(p)) =>
       \A i \in Ids : file.rows[i] # None => file'.rows[i] # None]_vars
=============================================================================
