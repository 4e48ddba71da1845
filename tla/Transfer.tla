------------------------------ MODULE Transfer ------------------------------
(***************************************************************************)
(* Moving a SQLite database to an empty PostgreSQL schema: the source's    *)
(* writer is reserved, the target's schema, rows, sequences and guards are *)
(* one transaction.  Meanwhile applications use the source, and may be     *)
(* started on the target.  One table stands for all: the ids of its rows,  *)
(* and the sequence its ids come from.                                     *)
(***************************************************************************)
EXTENDS Integers, FiniteSets, FiniteSetsExt

CONSTANTS
  Movers, Commits,       \* transfers; those that are not a dry run (--yes)
  Nobody,
  MaxId, MaxCrashes      \* bounds: ids of the table; deaths of transfers

ASSUME MoversAssumption == Commits \subseteq Movers /\ Nobody \notin Movers
ASSUME BoundsAssumption == MaxId \in Nat \ {0} /\ MaxCrashes \in Nat

VARIABLES
  source, sequence, used,    \* ids in the source, the highest it gave, all it ever gave
  reserved,                  \* the transfer that has the source's writer
  target,                    \* the committed target: is it made, ids, sequence
  lock, draft,               \* who has the target's lock, and its transaction
  step, snapshot, backups,   \* of each transfer; the backups of the source
  moved,                     \* whether the target's rows came from the source
  crashes

vars == <<source, sequence, used, reserved, target, lock, draft, step, snapshot,
          backups, moved, crashes>>
Source == <<source, sequence, used>>

-----------------------------------------------------------------------------
Empty == [made |-> FALSE, ids |-> {}, seq |-> 0]
Highest(S) == Max(S \cup {0})
Tables == [made : BOOLEAN, ids : SUBSET Nat, seq : Nat]
Steps == {"idle", "reserved", "backed up", "copying", "locked", "copied", "done"}

TypeOK ==
  /\ {source, used} \subseteq SUBSET Nat /\ sequence \in Nat
  /\ {reserved, lock} \subseteq Movers \cup {Nobody}
  /\ {target, draft} \subseteq Tables
  /\ step \in [Movers -> Steps]
  /\ snapshot \in [Movers -> [ids : SUBSET Nat, seq : Nat]]
  /\ backups \subseteq SUBSET Nat /\ moved \in BOOLEAN /\ crashes \in Nat

Goes(m, from, to) == step[m] = from /\ step' = [step EXCEPT ![m] = to]

(* Both applications.  Once rows have moved, the source's is not started   *)
(* again (README.md:443).                                                  *)
SourceInsert ==
  /\ reserved = Nobody /\ ~moved /\ sequence < MaxId
  /\ sequence' = sequence + 1 /\ source' = source \cup {sequence'} /\ used' = used \cup {sequence'}
  /\ UNCHANGED <<reserved, target, lock, draft, step, snapshot, backups, moved, crashes>>

SourceDelete(i) ==
  /\ reserved = Nobody /\ ~moved /\ i \in source /\ source' = source \ {i}
  /\ UNCHANGED <<sequence, used, reserved, target, lock, draft, step, snapshot, backups, moved, crashes>>

TargetStart ==
  /\ lock = Nobody /\ ~target.made
  /\ target' = [made |-> TRUE, ids |-> {1}, seq |-> 1]
  /\ UNCHANGED <<source, sequence, used, reserved, lock, draft, step, snapshot, backups, moved, crashes>>

TargetInsert ==
  /\ lock = Nobody /\ target.made /\ target.seq < MaxId
  /\ target' = [target EXCEPT !.ids = @ \cup {target.seq + 1}, !.seq = @ + 1]
  /\ UNCHANGED <<source, sequence, used, reserved, lock, draft, step, snapshot, backups, moved, crashes>>

-----------------------------------------------------------------------------
(* transfer_sqlite                                                         *)

NotReserved(m) == reserved' = reserved       \* variant: writers go on
ReserveWriter(m) == reserved = Nobody /\ reserved' = m
Reserving(m) == ReserveWriter(m)

Reserve(m) ==
  /\ Goes(m, "idle", "reserved") /\ Reserving(m)
  /\ UNCHANGED <<source, sequence, used, target, lock, draft, snapshot, backups, moved, crashes>>

(* A backup unless it is a dry run, and then a snapshot to copy from.      *)
BackUp(m) ==
  /\ Goes(m, "reserved", "backed up")
  /\ backups' = IF m \in Commits THEN backups \cup {source} ELSE backups
  /\ UNCHANGED <<source, sequence, used, reserved, target, lock, draft, snapshot, moved, crashes>>

TakeSnapshot(m) ==
  /\ Goes(m, "backed up", "copying")
  /\ snapshot' = [snapshot EXCEPT ![m] = [ids |-> source, seq |-> sequence]]
  /\ UNCHANGED <<source, sequence, used, reserved, target, lock, draft, backups, moved, crashes>>

LockTarget(m) ==
  /\ Goes(m, "copying", "locked") /\ lock = Nobody
  /\ lock' = m /\ draft' = target
  /\ UNCHANGED <<source, sequence, used, reserved, target, snapshot, backups, moved, crashes>>

(* The schema must be empty; rows are copied and compared, the sequence    *)
(* goes on where the source's was.                                         *)
AnyTarget == TRUE                            \* variant: the schema may be there
EmptyTarget == ~draft.made
Accepts == EmptyTarget

AfterRows(s) == Highest(s.ids)               \* variant: of the rows alone
AfterSource(s) == Max(s.ids \cup {s.seq})
NextAfter(s) == AfterSource(s)

Copy(m) ==
  /\ Goes(m, "locked", "copied") /\ Accepts
  /\ draft' = [made |-> TRUE, ids |-> snapshot[m].ids, seq |-> NextAfter(snapshot[m])]
  /\ UNCHANGED <<source, sequence, used, reserved, target, lock, snapshot, backups, moved, crashes>>

Released(m) ==
  /\ reserved' = IF reserved = m THEN Nobody ELSE reserved
  /\ lock' = IF lock = m THEN Nobody ELSE lock
  /\ draft' = IF lock = m THEN Empty ELSE draft
  /\ UNCHANGED <<source, sequence, used, snapshot, backups>>

(* A dry run is rolled back.                                               *)
Finish(m) ==
  /\ Goes(m, "copied", "done")
  /\ target' = IF m \in Commits THEN draft ELSE target
  /\ moved' = (moved \/ m \in Commits)
  /\ Released(m) /\ UNCHANGED crashes

Refuse(m) ==
  /\ Goes(m, "locked", "done") /\ ~Accepts
  /\ Released(m) /\ UNCHANGED <<target, moved, crashes>>

Die(m) ==
  /\ step[m] \notin {"idle", "done"} /\ crashes < MaxCrashes
  /\ step' = [step EXCEPT ![m] = "idle"] /\ crashes' = crashes + 1
  /\ Released(m) /\ UNCHANGED <<target, moved>>

Init ==
  /\ source = {1} /\ sequence = 1 /\ used = {1}
  /\ reserved = Nobody
  /\ target = Empty /\ lock = Nobody /\ draft = Empty
  /\ step = [m \in Movers |-> "idle"]
  /\ snapshot = [m \in Movers |-> [ids |-> {}, seq |-> 0]]
  /\ backups = {} /\ moved = FALSE /\ crashes = 0

Move(m) ==
  \/ Reserve(m) \/ BackUp(m) \/ TakeSnapshot(m) \/ LockTarget(m)
  \/ Copy(m) \/ Finish(m) \/ Refuse(m) \/ Die(m)

Next ==
  \/ SourceInsert \/ TargetStart \/ TargetInsert
  \/ \E i \in source : SourceDelete(i)
  \/ \E m \in Movers : Move(m)

Spec == Init /\ [][Next]_vars

-----------------------------------------------------------------------------
(* Properties                                                              *)

(* What arrives is the source as it is at that moment, and as its backup   *)
(* has it: nothing was written to the source meanwhile (README.md:438).    *)
ArrivesWhole ==
  [][moved' /\ ~moved => target'.ids = source /\ source \in backups]_vars

(* A target in use keeps its rows, whoever else writes to it.              *)
OccupiedIsKept == [][target.ids \subseteq target'.ids]_vars

(* New rows of the target have ids the source never gave, not even to rows *)
(* that it deleted (setval).                                               *)
NewIdsAreNew ==
  [][moved /\ target'.ids # target.ids => (target'.ids \ target.ids) \cap used = {}]_vars

(* A transfer is whole: the source arrives as it is, nothing of a target   *)
(* in use is lost, and no id is given twice (migrate_sqlite).              *)
TransferIsWhole == ArrivesWhole /\ OccupiedIsKept /\ NewIdsAreNew
=============================================================================
