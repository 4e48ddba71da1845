-------------------------- MODULE StorageProofs --------------------------
(***************************************************************************)
(* The database as a whole, in four parts.                                 *)
(*                                                                         *)
(* The transfer, for any number of transfers, rows and crashes: what       *)
(* arrives in PostgreSQL is the source as it is and as its backup has it,  *)
(* a target in use keeps its rows, and its new ids are new. The argument   *)
(* is that a transfer under way has the source's writer, so what it has    *)
(* read is what is there, and that the rows of a source that has moved     *)
(* stand still.                                                            *)
(*                                                                         *)
(* The upgrade of PostgreSQL (the instance Postgres), backup and restore   *)
(* (Disk) and the upgrade of SQLite (Lite), for any number of processes,   *)
(* writes, deaths and failures, each with its argument at its head.        *)
(***************************************************************************)
EXTENDS MCStorage, Sequences, TLAPS

-----------------------------------------------------------------------------
(* The inductive invariant.                                                *)

HasSource == {"reserved", "backed up", "copying", "locked", "copied"}
HasBackup == {"backed up", "copying", "locked", "copied"}
HasSnapshot == {"copying", "locked", "copied"}
HasLock == {"locked", "copied"}

(* Ids are given in order, and remembered.                                 *)
Given == /\ source \subseteq used
         /\ \A i \in used : i <= sequence
(* Who is in the middle of a transfer holds what it needs for it.          *)
Holds == \A m \in Movers : /\ step[m] \in HasSource <=> reserved = m
                           /\ step[m] \in HasLock <=> lock = m
(* What it has read is what is there.                                      *)
Current ==
  \A m \in Movers :
    /\ step[m] \in HasSnapshot => snapshot[m] = [ids |-> source, seq |-> sequence]
    /\ step[m] \in HasBackup /\ m \in Commits => source \in backups
(* What it has done so far.                                                *)
Copied ==
  \A m \in Movers :
    /\ step[m] = "locked" => draft = target
    /\ step[m] = "copied" => /\ ~target.made
                             /\ draft = [made |-> TRUE, ids |-> source, seq |-> sequence]
(* The target's ids go on where the source's stopped.                      *)
Beyond == /\ ~target.made => target = Empty
          /\ moved => target.made /\ target.seq >= sequence
IInv == TypeOK /\ Given /\ Holds /\ Current /\ Copied /\ Beyond

-----------------------------------------------------------------------------
(* What a step does to the rows of the target.                             *)

RowsStay == target.ids \subseteq target'.ids
Whole == moved' /\ ~moved => target'.ids = source /\ source \in backups
NewOnes == moved /\ target'.ids # target.ids => (target'.ids \ target.ids) \cap used = {}
Rows == RowsStay /\ Whole /\ NewOnes
Stays == IInv' /\ Rows

(* Where nobody touches the target, nothing happens to its rows.           *)
LEMMA TargetStays ==
  ASSUME UNCHANGED <<target, moved>>
  PROVE Rows
  BY DEF Rows, RowsStay, Whole, NewOnes

(* The sequence of a source is not below its rows.                         *)
LEMMA SequenceIsHighest ==
  ASSUME IInv
  PROVE AfterSource([ids |-> source, seq |-> sequence]) = sequence
<1> DEFINE S == source \cup {sequence}
<1>1. S \subseteq Nat /\ sequence \in S /\ \A i \in S : sequence >= i
  BY DEF IInv, TypeOK, Given
<1>2. \A x \in S : (\A y \in S : x >= y) => x = sequence
  BY <1>1
<1> HIDE DEF S
<1>3. (CHOOSE x \in S : \A y \in S : x >= y) = sequence
  BY <1>1, <1>2
<1> QED BY <1>3 DEF S, AfterSource, Max

(* One row in the source, and a target that is not made.                   *)
LEMMA InitInv == Init => IInv
<1> SUFFICES ASSUME Init PROVE IInv
  OBVIOUS
<1>1. Empty \in Tables
  BY DEF Empty, Tables
<1>2. TypeOK
  <2>1. /\ {source, used} \subseteq SUBSET Nat /\ sequence \in Nat
        /\ backups \subseteq SUBSET Nat /\ moved \in BOOLEAN /\ crashes \in Nat
    <3>1. {1} \in SUBSET Nat /\ {} \subseteq SUBSET Nat
      OBVIOUS
    <3> QED BY <3>1 DEF Init
  <2>2. /\ {reserved, lock} \subseteq Movers \cup {Nobody} /\ {target, draft} \subseteq Tables
        /\ step \in [Movers -> Steps]
    BY <1>1 DEF Init, Steps
  <2>3. snapshot \in [Movers -> [ids : SUBSET Nat, seq : Nat]]
    <3>1. [ids |-> {}, seq |-> 0] \in [ids : SUBSET Nat, seq : Nat]
      OBVIOUS
    <3> QED BY <3>1 DEF Init
  <2> QED BY <2>1, <2>2, <2>3 DEF TypeOK
<1>3. Given /\ Beyond
  BY DEF Init, Given, Beyond
<1>4. Holds
  BY MoversAssumption DEF Init, Holds, HasSource, HasLock, MoversAssumption
<1>5. Current /\ Copied
  BY DEF Init, Current, Copied, HasSnapshot, HasBackup
<1> QED BY <1>2, <1>3, <1>4, <1>5 DEF IInv

(* While nobody has the writer, nobody is under way.                       *)
LEMMA NobodyMoves ==
  ASSUME IInv, reserved = Nobody, NEW m \in Movers
  PROVE step[m] \notin HasSource
  BY MoversAssumption DEF IInv, Holds, MoversAssumption

LEMMA SourceKeeps ==
  ASSUME IInv, SourceInsert \/ \E i \in source : SourceDelete(i)
  PROVE Stays
<1>1. /\ reserved = Nobody /\ ~moved
      /\ UNCHANGED <<reserved, target, lock, draft, step, snapshot, backups, moved, crashes>>
  BY DEF SourceInsert, SourceDelete
<1>2. source' \in SUBSET Nat /\ used' \in SUBSET Nat /\ sequence' \in Nat /\ Given'
  <2>1. CASE SourceInsert
    BY <2>1 DEF SourceInsert, IInv, TypeOK, Given
  <2>2. ASSUME NEW i \in source, SourceDelete(i)
        PROVE source' \in SUBSET Nat /\ used' \in SUBSET Nat /\ sequence' \in Nat /\ Given'
    BY <2>2 DEF SourceDelete, IInv, TypeOK, Given
  <2> QED BY <2>1, <2>2
<1>3. TypeOK'
  BY <1>1, <1>2 DEF IInv, TypeOK
<1>4. \A m \in Movers : step'[m] \notin HasSource
  BY <1>1, NobodyMoves
<1>5. Holds' /\ Beyond'
  BY <1>1 DEF IInv, Holds, Beyond
<1>6. Current' /\ Copied'
  BY <1>4 DEF Current, Copied, HasSource, HasSnapshot, HasBackup
<1> QED BY <1>1, <1>2, <1>3, <1>5, <1>6, TargetStays DEF Stays, IInv

LEMMA TargetKeeps ==
  ASSUME IInv, TargetStart \/ TargetInsert
  PROVE Stays
<1>1. /\ lock = Nobody
      /\ UNCHANGED <<source, sequence, used, reserved, lock, draft, step, snapshot, backups, moved, crashes>>
  BY DEF TargetStart, TargetInsert
<1>2. \A m \in Movers : step[m] \notin HasLock
  BY <1>1, MoversAssumption DEF IInv, Holds, MoversAssumption
<1>3. target \in Tables /\ sequence \in Nat /\ used \subseteq Nat /\ used \in SUBSET Nat
  BY DEF IInv, TypeOK
<1>4. CASE TargetStart
  <2>1. ~target.made /\ target = Empty /\ ~moved /\ target' = [made |-> TRUE, ids |-> {1}, seq |-> 1]
    BY <1>4 DEF TargetStart, IInv, Beyond
  <2>2. target' \in Tables /\ Beyond'
    BY <1>1, <2>1 DEF Tables, Beyond
  <2>3. Rows
    BY <1>1, <2>1 DEF Rows, RowsStay, Whole, NewOnes, Empty
  <2>4. TypeOK'
    BY <1>1, <2>2 DEF IInv, TypeOK
  <2>5. Given' /\ Holds' /\ Current' /\ Copied'
    BY <1>1, <1>2 DEF IInv, Given, Holds, Current, Copied, HasLock
  <2> QED BY <2>2, <2>3, <2>4, <2>5 DEF Stays, IInv
<1>5. CASE TargetInsert
  <2>1. target.made /\ target' = [target EXCEPT !.ids = target.ids \cup {target.seq + 1},
                                               !.seq = target.seq + 1]
    BY <1>5 DEF TargetInsert
  <2>2. /\ target'.made /\ target'.ids = target.ids \cup {target.seq + 1}
        /\ target'.seq = target.seq + 1 /\ target.seq \in Nat /\ target' \in Tables
    <3>1. target.seq \in Nat /\ target.ids \in SUBSET Nat /\ target.seq + 1 \in Nat
      BY <1>3 DEF Tables
    <3>2. target.ids \cup {target.seq + 1} \in SUBSET Nat
      BY <3>1
    <3> DEFINE S == target.ids \cup {target.seq + 1}
               k == target.seq + 1
    <3>3. target' = [target EXCEPT !.ids = S, !.seq = k]
      BY <2>1
    <3>4. S \in SUBSET Nat /\ k \in Nat
      BY <3>1, <3>2
    <3> HIDE DEF S, k
    <3>5. target'.made /\ target'.ids = S /\ target'.seq = k /\ target' \in Tables
      BY <1>3, <2>1, <3>3, <3>4 DEF Tables
    <3> QED BY <3>1, <3>5 DEF S, k
  <2>3. Beyond'
    BY <1>1, <1>3, <2>2 DEF IInv, Beyond
  <2>4. moved => target.seq + 1 \notin used
    BY <1>3, <2>2 DEF IInv, Beyond, Given
  <2>5. Rows
    BY <1>1, <2>2, <2>4 DEF Rows, RowsStay, Whole, NewOnes
  <2>6. TypeOK'
    BY <1>1, <2>2 DEF IInv, TypeOK
  <2>7. Given' /\ Holds' /\ Current' /\ Copied'
    BY <1>1, <1>2 DEF IInv, Given, Holds, Current, Copied, HasLock
  <2> QED BY <2>3, <2>5, <2>6, <2>7 DEF Stays, IInv
<1> QED BY <1>4, <1>5

(* A transfer goes a step on, and takes or leaves what is nobody else's.   *)
LEMMA HoldsAfter ==
  ASSUME IInv, NEW m \in Movers, NEW s \in Steps, step' = [step EXCEPT ![m] = s],
         s \in HasSource <=> reserved' = m, s \in HasLock <=> lock' = m,
         reserved' = reserved \/ (reserved \in {m, Nobody} /\ reserved' \in {m, Nobody}),
         lock' = lock \/ (lock \in {m, Nobody} /\ lock' \in {m, Nobody})
  PROVE /\ Holds'
        /\ step' \in [Movers -> Steps] /\ step'[m] = s
        /\ \A n \in Movers \ {m} : step'[n] = step[n]
<1>1. /\ step' \in [Movers -> Steps] /\ step'[m] = s
      /\ \A n \in Movers \ {m} : step'[n] = step[n]
  BY DEF IInv, TypeOK
<1>2. ASSUME NEW n \in Movers \ {m}
      PROVE /\ step'[n] \in HasSource <=> reserved' = n
            /\ step'[n] \in HasLock <=> lock' = n
  <2>1. /\ step[n] \in HasSource <=> reserved = n
        /\ step[n] \in HasLock <=> lock = n
    BY DEF IInv, Holds
  <2>2. n # Nobody
    BY MoversAssumption DEF MoversAssumption
  <2> QED BY <1>1, <2>1, <2>2
<1>3. /\ step'[m] \in HasSource <=> reserved' = m
      /\ step'[m] \in HasLock <=> lock' = m
  BY <1>1
<1>4. Holds'
  BY <1>2, <1>3 DEF Holds
<1> QED BY <1>1, <1>4

(* The first steps of a transfer, under the source's writer.               *)
LEMMA PreparingKeeps ==
  ASSUME IInv, NEW m \in Movers, Reserve(m) \/ BackUp(m) \/ TakeSnapshot(m)
  PROVE Stays
<1>1. UNCHANGED <<source, sequence, used, target, lock, draft, moved, crashes>>
  BY DEF Reserve, BackUp, TakeSnapshot
<1>2. Given' /\ Beyond'
  BY <1>1 DEF IInv, Given, Beyond
<1>3. CASE Reserve(m)
  <2>1. /\ step[m] = "idle" /\ step' = [step EXCEPT ![m] = "reserved"]
        /\ reserved = Nobody /\ reserved' = m /\ UNCHANGED <<snapshot, backups>>
    BY <1>3 DEF Reserve, Goes, Reserving, ReserveWriter
  <2>2. TypeOK'
    BY <1>1, <2>1 DEF IInv, TypeOK, Steps
  <2>3. \A n \in Movers : step'[n] = IF n = m THEN "reserved" ELSE step[n]
    BY <2>1 DEF IInv, TypeOK
  <2>4. \A n \in Movers : step[n] \notin HasSource
    BY <2>1, NobodyMoves
  <2>5. Holds'
    <3>1. lock # m
      BY <2>4 DEF IInv, Holds, HasSource, HasLock
    <3> QED BY <1>1, <2>1, <3>1, HoldsAfter DEF Steps, HasSource, HasLock
  <2>6. Current' /\ Copied'
    BY <1>1, <2>3, <2>4 DEF Current, Copied, HasSource, HasSnapshot, HasBackup
  <2> QED BY <1>1, <1>2, <2>2, <2>5, <2>6, TargetStays DEF Stays, IInv
<1>4. CASE BackUp(m)
  <2>1. /\ step[m] = "reserved" /\ step' = [step EXCEPT ![m] = "backed up"]
        /\ backups' = IF m \in Commits THEN backups \cup {source} ELSE backups
        /\ UNCHANGED <<snapshot, reserved>>
    BY <1>4 DEF BackUp, Goes
  <2>2. TypeOK'
    BY <1>1, <2>1 DEF IInv, TypeOK, Steps
  <2>3. \A n \in Movers : step'[n] = IF n = m THEN "backed up" ELSE step[n]
    BY <2>1 DEF IInv, TypeOK
  <2>4. Holds'
    <3>1. reserved = m /\ lock # m
      BY <2>1 DEF IInv, Holds, HasSource, HasLock
    <3> QED BY <1>1, <2>1, <3>1, HoldsAfter DEF Steps, HasSource, HasLock
  <2>5. Current'
    <3> SUFFICES ASSUME NEW n \in Movers
                 PROVE /\ step'[n] \in HasSnapshot => snapshot[n] = [ids |-> source, seq |-> sequence]
                       /\ step'[n] \in HasBackup /\ n \in Commits => source \in backups'
      BY <1>1, <2>1 DEF Current
    <3>1. CASE n = m
      <4>1. step'[n] = "backed up"
        BY <2>3, <3>1
      <4>2. step'[n] \notin HasSnapshot
        BY <4>1 DEF HasSnapshot
      <4>3. n \in Commits => source \in backups'
        BY <2>1, <3>1
      <4> QED BY <4>2, <4>3
    <3>2. CASE n # m
      <4>1. step'[n] = step[n]
        BY <2>3, <3>2
      <4>2. source \in backups => source \in backups'
        BY <2>1
      <4> QED BY <4>1, <4>2 DEF IInv, Current
    <3> QED BY <3>1, <3>2
  <2>6. Copied'
    BY <1>1, <2>3 DEF IInv, Copied
  <2> QED BY <1>1, <1>2, <2>2, <2>4, <2>5, <2>6, TargetStays DEF Stays, IInv
<1>5. CASE TakeSnapshot(m)
  <2>1. /\ step[m] = "backed up" /\ step' = [step EXCEPT ![m] = "copying"]
        /\ snapshot' = [snapshot EXCEPT ![m] = [ids |-> source, seq |-> sequence]]
        /\ UNCHANGED <<backups, reserved>>
    BY <1>5 DEF TakeSnapshot, Goes
  <2>2. TypeOK'
    BY <1>1, <2>1 DEF IInv, TypeOK, Steps
  <2>3. \A n \in Movers : /\ step'[n] = IF n = m THEN "copying" ELSE step[n]
                          /\ snapshot'[n] = IF n = m THEN [ids |-> source, seq |-> sequence]
                                            ELSE snapshot[n]
    BY <2>1 DEF IInv, TypeOK
  <2>4. Holds'
    <3>1. reserved = m /\ lock # m
      BY <2>1 DEF IInv, Holds, HasSource, HasLock
    <3> QED BY <1>1, <2>1, <3>1, HoldsAfter DEF Steps, HasSource, HasLock
  <2>5. Current'
    <3> SUFFICES ASSUME NEW n \in Movers
                 PROVE /\ step'[n] \in HasSnapshot => snapshot'[n] = [ids |-> source, seq |-> sequence]
                       /\ step'[n] \in HasBackup /\ n \in Commits => source \in backups
      BY <1>1, <2>1 DEF Current
    <3>1. CASE n = m
      <4>1. m \in Commits => source \in backups
        BY <2>1 DEF IInv, Current, HasBackup
      <4> QED BY <2>3, <3>1, <4>1
    <3>2. CASE n # m
      BY <2>3, <3>2 DEF IInv, Current
    <3> QED BY <3>1, <3>2
  <2>6. Copied'
    BY <1>1, <2>3 DEF IInv, Copied
  <2> QED BY <1>1, <1>2, <2>2, <2>4, <2>5, <2>6, TargetStays DEF Stays, IInv
<1> QED BY <1>3, <1>4, <1>5

(* The target's transaction up to its end.                                 *)
LEMMA CopyingKeeps ==
  ASSUME IInv, NEW m \in Movers, LockTarget(m) \/ Copy(m)
  PROVE Stays
<1>1. UNCHANGED <<source, sequence, used, reserved, target, snapshot, backups, moved, crashes>>
  BY DEF LockTarget, Copy
<1>2. Given' /\ Beyond'
  BY <1>1 DEF IInv, Given, Beyond
<1>3. CASE LockTarget(m)
  <2>1. /\ step[m] = "copying" /\ step' = [step EXCEPT ![m] = "locked"]
        /\ lock = Nobody /\ lock' = m /\ draft' = target
    BY <1>3 DEF LockTarget, Goes
  <2>2. TypeOK'
    BY <1>1, <2>1 DEF IInv, TypeOK, Steps
  <2>3. \A n \in Movers : step'[n] = IF n = m THEN "locked" ELSE step[n]
    BY <2>1 DEF IInv, TypeOK
  <2>4. \A n \in Movers : step[n] \notin HasLock
    BY <2>1, MoversAssumption DEF IInv, Holds, MoversAssumption
  <2>5. Holds'
    <3>1. reserved = m
      BY <2>1 DEF IInv, Holds, HasSource
    <3> QED BY <1>1, <2>1, <3>1, HoldsAfter DEF Steps, HasSource, HasLock
  <2>6. Current'
    BY <1>1, <2>1, <2>3 DEF IInv, Current, HasSnapshot, HasBackup
  <2>7. Copied'
    BY <1>1, <2>1, <2>3, <2>4 DEF Copied, HasLock
  <2> QED BY <1>1, <1>2, <2>2, <2>5, <2>6, <2>7, TargetStays DEF Stays, IInv
<1>4. CASE Copy(m)
  <2>1. /\ step[m] = "locked" /\ step' = [step EXCEPT ![m] = "copied"]
        /\ ~draft.made /\ lock' = lock
        /\ draft' = [made |-> TRUE, ids |-> snapshot[m].ids, seq |-> NextAfter(snapshot[m])]
    BY <1>4 DEF Copy, Goes, Accepts, EmptyTarget
  <2>2. snapshot[m] = [ids |-> source, seq |-> sequence] /\ draft = target
    BY <2>1 DEF IInv, Current, Copied, HasSnapshot
  <2>3. draft' = [made |-> TRUE, ids |-> source, seq |-> sequence]
    <3>1. NextAfter(snapshot[m]) = sequence
      BY <2>2, SequenceIsHighest DEF NextAfter
    <3>2. snapshot[m].ids = source
      BY <2>2
    <3> QED BY <2>1, <3>1, <3>2
  <2>4. TypeOK'
    <3>1. draft' \in Tables
      BY <2>3 DEF IInv, TypeOK, Tables
    <3> QED BY <1>1, <2>1, <3>1 DEF IInv, TypeOK, Steps
  <2>5. \A n \in Movers : step'[n] = IF n = m THEN "copied" ELSE step[n]
    BY <2>1 DEF IInv, TypeOK
  <2>6. \A n \in Movers : n # m => step[n] \notin HasLock
    BY <2>1 DEF IInv, Holds, HasLock
  <2>7. Holds'
    <3>1. reserved = m /\ lock = m
      BY <2>1 DEF IInv, Holds, HasSource, HasLock
    <3> QED BY <1>1, <2>1, <3>1, HoldsAfter DEF Steps, HasSource, HasLock
  <2>8. Current'
    BY <1>1, <2>1, <2>5 DEF IInv, Current, HasSnapshot, HasBackup
  <2>9. Copied'
    <3>1. target' = target /\ source' = source /\ sequence' = sequence /\ ~target.made
      BY <1>1, <2>1, <2>2
    <3>2. step'[m] = "copied" /\ \A n \in Movers \ {m} : step'[n] \notin {"locked", "copied"}
      BY <2>5, <2>6 DEF HasLock
    <3> QED BY <2>3, <3>1, <3>2 DEF Copied
  <2> QED BY <1>1, <1>2, <2>4, <2>7, <2>8, <2>9, TargetStays DEF Stays, IInv
<1> QED BY <1>3, <1>4

(* A transfer that ends or dies lets go of what it held.                   *)
LEMMA LettingGo ==
  ASSUME IInv, NEW m \in Movers, NEW s \in {"idle", "done"},
         step' = [step EXCEPT ![m] = s], Released(m)
  PROVE /\ UNCHANGED <<source, sequence, used, snapshot, backups>>
        /\ {reserved', lock'} \subseteq Movers \cup {Nobody} /\ draft' \in Tables
        /\ step' \in [Movers -> Steps]
        /\ Given' /\ Holds' /\ Current'
        /\ \A n \in Movers : /\ step'[n] = "locked" => step[n] = "locked" /\ draft' = draft
                             /\ step'[n] = "copied" => step[n] = "copied" /\ draft' = draft
                             /\ step[n] \in HasLock => n = m \/ lock # m
<1>1. /\ reserved' = IF reserved = m THEN Nobody ELSE reserved
      /\ lock' = IF lock = m THEN Nobody ELSE lock
      /\ draft' = IF lock = m THEN Empty ELSE draft
      /\ UNCHANGED <<source, sequence, used, snapshot, backups>>
  BY DEF Released
<1>2. \A n \in Movers : step'[n] = IF n = m THEN s ELSE step[n]
  BY DEF IInv, TypeOK
<1>3. Nobody \notin Movers
  BY MoversAssumption DEF MoversAssumption
<1>4. Given'
  BY <1>1 DEF IInv, Given
<1>5. Holds'
  <2> SUFFICES ASSUME NEW n \in Movers
               PROVE /\ step'[n] \in HasSource <=> reserved' = n
                     /\ step'[n] \in HasLock <=> lock' = n
    BY DEF Holds
  <2>1. /\ step[n] \in HasSource <=> reserved = n
        /\ step[n] \in HasLock <=> lock = n
    BY DEF IInv, Holds
  <2>2. CASE n = m
    BY <1>1, <1>2, <1>3, <2>2 DEF HasSource, HasLock
  <2>3. CASE n # m
    BY <1>1, <1>2, <1>3, <2>1, <2>3
  <2> QED BY <2>2, <2>3
<1>6. Current'
  BY <1>1, <1>2 DEF IInv, Current, HasSnapshot, HasBackup
<1>7. \A n \in Movers : /\ step'[n] = "locked" => step[n] = "locked" /\ draft' = draft
                        /\ step'[n] = "copied" => step[n] = "copied" /\ draft' = draft
                        /\ step[n] \in HasLock => n = m \/ lock # m
  BY <1>1, <1>2 DEF IInv, Holds, HasLock
<1>8. draft' \in Tables
  BY <1>1 DEF IInv, TypeOK, Empty, Tables
<1>9. {reserved', lock'} \subseteq Movers \cup {Nobody} /\ step' \in [Movers -> Steps]
  BY <1>1 DEF IInv, TypeOK, Steps
<1> QED BY <1>1, <1>4, <1>5, <1>6, <1>7, <1>8, <1>9

LEMMA RefuseOrDieKeeps ==
  ASSUME IInv, NEW m \in Movers, Refuse(m) \/ Die(m)
  PROVE Stays
<1>1. PICK s \in {"idle", "done"} : step' = [step EXCEPT ![m] = s]
  BY DEF Refuse, Die, Goes
<1>2. Released(m) /\ UNCHANGED <<target, moved>> /\ crashes' \in Nat
  BY DEF Refuse, Die, IInv, TypeOK
<1>3. /\ UNCHANGED <<source, sequence, used, snapshot, backups>>
      /\ {reserved', lock'} \subseteq Movers \cup {Nobody} /\ draft' \in Tables
      /\ step' \in [Movers -> Steps]
      /\ Given' /\ Holds' /\ Current'
      /\ \A n \in Movers : /\ step'[n] = "locked" => step[n] = "locked" /\ draft' = draft
                           /\ step'[n] = "copied" => step[n] = "copied" /\ draft' = draft
  BY <1>1, <1>2, LettingGo
<1>4. TypeOK'
  BY <1>2, <1>3 DEF IInv, TypeOK
<1>5. Copied' /\ Beyond'
  BY <1>2, <1>3 DEF IInv, Copied, Beyond
<1> QED BY <1>2, <1>3, <1>4, <1>5, TargetStays DEF Stays, IInv

LEMMA FinishKeeps ==
  ASSUME IInv, NEW m \in Movers, Finish(m)
  PROVE Stays
<1>1. /\ step[m] = "copied" /\ step' = [step EXCEPT ![m] = "done"]
      /\ target' = IF m \in Commits THEN draft ELSE target
      /\ moved' = (moved \/ m \in Commits)
      /\ Released(m) /\ crashes' = crashes
  BY DEF Finish, Goes
<1>2. /\ UNCHANGED <<source, sequence, used, snapshot, backups>>
      /\ {reserved', lock'} \subseteq Movers \cup {Nobody} /\ draft' \in Tables
      /\ step' \in [Movers -> Steps]
      /\ Given' /\ Holds' /\ Current'
      /\ \A n \in Movers : /\ step'[n] = "locked" => step[n] = "locked" /\ draft' = draft
                           /\ step'[n] = "copied" => step[n] = "copied" /\ draft' = draft
                           /\ step[n] \in HasLock => n = m \/ lock # m
  BY <1>1, LettingGo
<1>3. /\ ~target.made /\ draft = [made |-> TRUE, ids |-> source, seq |-> sequence]
      /\ target = Empty /\ ~moved
  BY <1>1 DEF IInv, Copied, Beyond
<1>4. lock = m
  BY <1>1 DEF IInv, Holds, HasLock
<1>5. \A n \in Movers : step'[n] \notin HasLock
  <2>1. \A n \in Movers : step'[n] = IF n = m THEN "done" ELSE step[n]
    BY <1>1 DEF IInv, TypeOK
  <2> QED BY <1>2, <1>4, <2>1 DEF HasLock
<1>6. TypeOK'
  <2>1. target' \in Tables /\ moved' \in BOOLEAN
    BY <1>1 DEF IInv, TypeOK
  <2> QED BY <1>1, <1>2, <2>1 DEF IInv, TypeOK
<1>7. Copied'
  BY <1>5 DEF Copied, HasLock
<1>8. Beyond'
  BY <1>1, <1>2, <1>3 DEF IInv, TypeOK, Beyond
<1>9. m \in Commits => source \in backups
  BY <1>1 DEF IInv, Current, HasBackup
<1>10. Rows
  BY <1>1, <1>3, <1>9 DEF Rows, RowsStay, Whole, NewOnes, Empty
<1> QED BY <1>2, <1>6, <1>7, <1>8, <1>10 DEF Stays, IInv

-----------------------------------------------------------------------------
(* The theorems.                                                           *)

LEMMA StepKeeps == ASSUME IInv, [Next]_vars PROVE Stays
<1>1. CASE SourceInsert \/ \E i \in source : SourceDelete(i)
  BY <1>1, SourceKeeps
<1>2. CASE TargetStart \/ TargetInsert
  BY <1>2, TargetKeeps
<1>3. ASSUME NEW m \in Movers, Reserve(m) \/ BackUp(m) \/ TakeSnapshot(m) PROVE Stays
  BY <1>3, PreparingKeeps
<1>4. ASSUME NEW m \in Movers, LockTarget(m) \/ Copy(m) PROVE Stays
  BY <1>4, CopyingKeeps
<1>5. ASSUME NEW m \in Movers, Refuse(m) \/ Die(m) PROVE Stays
  BY <1>5, RefuseOrDieKeeps
<1>6. ASSUME NEW m \in Movers, Finish(m) PROVE Stays
  BY <1>6, FinishKeeps
<1>7. CASE UNCHANGED vars
  <2>1. TypeOK' /\ Given' /\ Holds'
    BY <1>7 DEF vars, IInv, TypeOK, Given, Holds
  <2>2. Current' /\ Copied' /\ Beyond'
    BY <1>7 DEF vars, IInv, Current, Copied, Beyond
  <2>3. Rows
    BY <1>7, TargetStays DEF vars
  <2> QED BY <2>1, <2>2, <2>3 DEF Stays, IInv
<1> QED BY <1>1, <1>2, <1>3, <1>4, <1>5, <1>6, <1>7 DEF Next, Move

(* A transfer under way holds the writer, and what it read is what is      *)
(* there.                                                                  *)
THEOREM Invariance == Spec => []IInv
<1>1. IInv /\ [Next]_vars => IInv'
  BY StepKeeps DEF Stays
<1> QED BY InitInv, <1>1, PTL DEF Spec

(* Type correctness of the transfer.                                       *)
THEOREM TypeCorrect == Spec => []TypeOK
<1>1. IInv => TypeOK
  BY DEF IInv
<1> QED BY Invariance, <1>1, PTL

(* What arrives is the source as it is and as its backup has it            *)
(* (transfer_sqlite).                                                      *)
THEOREM WholeSourceArrives == Spec => ArrivesWhole
<1>1. IInv /\ [Next]_vars => [moved' /\ ~moved => target'.ids = source /\ source \in backups]_vars
  BY StepKeeps DEF Stays, Rows, Whole
<1> QED BY Invariance, <1>1, PTL DEF Spec, ArrivesWhole

(* No transfer, nor its death, takes a row from a target in use.           *)
THEOREM TargetKeepsItsRows == Spec => OccupiedIsKept
<1>1. IInv /\ [Next]_vars => [target.ids \subseteq target'.ids]_vars
  BY StepKeeps DEF Stays, Rows, RowsStay
<1> QED BY Invariance, <1>1, PTL DEF Spec, OccupiedIsKept

(* After the move no id is given that the source ever gave.                *)
THEOREM IdsAreNotGivenAgain == Spec => NewIdsAreNew
<1>1. IInv /\ [Next]_vars =>
        [moved /\ target'.ids # target.ids => (target'.ids \ target.ids) \cap used = {}]_vars
  BY StepKeeps DEF Stays, Rows, NewOnes
<1> QED BY Invariance, <1>1, PTL DEF Spec, NewIdsAreNew

(* A transfer is whole, in all that its run checks.                        *)
THEOREM TransfersAreWhole == Spec => TransferIsWhole
BY WholeSourceArrives, TargetKeepsItsRows, IdsAreNotGivenAgain, PTL DEF TransferIsWhole

-----------------------------------------------------------------------------
(* Processes that start on one PostgreSQL database: any number of them,    *)
(* whatever their settings and whoever dies.  What was read under the lock *)
(* still holds, and the draft is a version's schema, or one with what the  *)
(* next version adds.                                                      *)

PgAssumed == Postgres!ProcessesAssumption /\ Postgres!CurrencyAssumption
LEMMA PgIsAssumed == PgAssumed
BY PostgresAssumption DEF PgAssumed

Latest == 5
PgAll(S) == UNION {Postgres!PartsOf(v) : v \in S}
PgSound(vs, ps) == \E n \in 0..Latest : vs = 1..n /\ ps = PgAll(1..n)
PgDrafted(vs, ps) ==
  \/ PgSound(vs, ps)
  \/ \E n \in 1..3 : vs = 1..n /\ ps = PgAll(1..n) \cup Postgres!PartsOf(n + 1)
PgBusy == {"reading", "upgrading", "checking"}
(* What a process has drafted, which has read the version.                 *)
PgFollows(p, d) ==
  /\ pgVersions \subseteq d.versions /\ PgDrafted(d.versions, d.parts)
  /\ pgVersions # {} => d.main = main
PgType == /\ pgState \in [Servers -> {"down", "up"} \cup PgBusy]
          /\ DOMAIN pgDraft = Servers /\ DOMAIN found = Servers
PgInv ==
  /\ PgType /\ PgSound(pgVersions, pgParts)
  /\ \A p \in Servers :
       /\ pgState[p] \in PgBusy <=> pgLock = p
       /\ pgState[p] = "reading" => pgDraft[p] = Postgres!Committed
       /\ pgState[p] \in {"upgrading", "checking"} => PgFollows(p, pgDraft[p])
       /\ pgState[p] = "upgrading" => found[p] = pgVersions
       /\ pgState[p] = "checking" => pgDraft[p].versions = 1..4
  /\ Postgres!UpIsAtHome

LEMMA Intervals == \A m, n \in Nat : 1..m = 1..n => m = n
<1> SUFFICES ASSUME NEW m \in Nat, NEW n \in Nat, 1..m = 1..n PROVE m = n
  OBVIOUS
<1>1. ASSUME NEW a \in Nat, NEW b \in Nat, a < b, 1..a = 1..b PROVE FALSE
  <2>1. b \in 1..b /\ b \notin 1..a
    BY <1>1
  <2> QED BY <1>1, <2>1
<1> QED BY <1>1

LEMMA PgAdds == \A n \in Nat : PgAll(1..n + 1) = PgAll(1..n) \cup Postgres!PartsOf(n + 1)
<1> SUFFICES ASSUME NEW n \in Nat
             PROVE PgAll(1..n + 1) = PgAll(1..n) \cup Postgres!PartsOf(n + 1)
  OBVIOUS
<1>1. 1..n + 1 = (1..n) \cup {n + 1}
  OBVIOUS
<1> QED BY <1>1 DEF PgAll

(* A version's schema, with what a later one brings, is the later one's.   *)
LEMMA PgGrows == \A m, n \in Nat : m <= n => PgAll(1..n) = PgAll(1..m) \cup PgAll((1..n) \ (1..m))
<1> SUFFICES ASSUME NEW m \in Nat, NEW n \in Nat, m <= n
             PROVE PgAll(1..n) = PgAll(1..m) \cup PgAll((1..n) \ (1..m))
  OBVIOUS
<1>1. 1..n = (1..m) \cup ((1..n) \ (1..m))
  OBVIOUS
<1> QED BY <1>1 DEF PgAll

LEMMA PgFirst == PgAssumed /\ Postgres!Init => PgInv
<1> SUFFICES ASSUME PgAssumed, Postgres!Init PROVE PgInv
  OBVIOUS
<1>1. PgSound(pgVersions, pgParts)
  <2>1. PICK n \in 0..Latest : pgVersions = 1..n
    BY DEF Postgres!Init, Postgres!SCHEMA_VERSION, Latest
  <2> QED BY <2>1 DEF Postgres!Init, PgSound, PgAll
<1> QED BY <1>1 DEF PgInv, PgType, PgBusy, Postgres!Init, Postgres!UpIsAtHome,
                    Postgres!NoDraft, PgAssumed, Postgres!ProcessesAssumption

(* What one statement of an upgrade makes of a draft.                      *)
LEMMA PgApplies ==
  ASSUME NEW d, NEW e, PgDrafted(d.versions, d.parts), Postgres!Supported(d.versions),
         NEW v, v = Postgres!NextVersion(d), v <= 4,
         IF Postgres!PartsOf(v) \subseteq d.parts
         THEN e.versions = d.versions \cup {v} /\ e.parts = d.parts
         ELSE e.versions = d.versions /\ e.parts = d.parts \cup Postgres!PartsOf(v)
  PROVE d.versions \subseteq e.versions /\ PgDrafted(e.versions, e.parts)
<1>1. PICK n \in 1..4 : d.versions = 1..n
  BY DEF Postgres!Supported, Postgres!SCHEMA_VERSION
<1>2. v = n + 1
  <2>1. \A w \in 1..5 : d.versions = 1..(w - 1) => w = n + 1
    BY <1>1, Intervals
  <2>2. n + 1 \in 1..5 /\ d.versions = 1..((n + 1) - 1)
    BY <1>1
  <2> QED BY <2>1, <2>2 DEF Postgres!NextVersion, Postgres!SCHEMA_VERSION
<1>3. n \in 1..3 /\ n \in Nat /\ n + 1 \in 0..Latest
  BY <1>2 DEF Latest
<1>4. d.parts \in {PgAll(1..n), PgAll(1..n) \cup Postgres!PartsOf(v)}
  <2>1. CASE PgSound(d.versions, d.parts)
    BY <1>1, <1>3, <2>1, Intervals DEF PgSound, Latest
  <2>2. CASE ~PgSound(d.versions, d.parts)
    <3>1. PICK m \in 1..3 : d.versions = 1..m /\ d.parts = PgAll(1..m) \cup Postgres!PartsOf(m + 1)
      BY <2>2 DEF PgDrafted
    <3> QED BY <1>1, <1>2, <1>3, <3>1, Intervals
  <2> QED BY <2>1, <2>2
<1>5. CASE Postgres!PartsOf(v) \subseteq d.parts
  <2>0. 1..n + 1 = (1..n) \cup {n + 1} /\ PgAll(1..n + 1) = PgAll(1..n) \cup Postgres!PartsOf(v)
    BY <1>2, <1>3, PgAdds
  <2>1. e.parts = PgAll(1..n + 1) /\ e.versions = 1..n + 1
    BY <1>1, <1>2, <1>4, <1>5, <2>0
  <2> QED BY <1>1, <1>3, <2>1 DEF PgDrafted, PgSound
<1>6. CASE ~(Postgres!PartsOf(v) \subseteq d.parts)
  <2>1. e.parts = PgAll(1..n) \cup Postgres!PartsOf(n + 1) /\ e.versions = 1..n
    BY <1>1, <1>2, <1>4, <1>6
  <2> QED BY <1>1, <1>3, <2>1 DEF PgDrafted
<1> QED BY <1>5, <1>6

(* What is committed is the newest schema, whole.                          *)
LEMMA PgWhole ==
  ASSUME NEW d, PgDrafted(d.versions, d.parts), d.versions = 1..4
  PROVE d.parts = PgAll(1..4)
  BY Intervals DEF PgDrafted, PgSound, Latest

LEMMA PgSteps == PgAssumed /\ PgInv /\ [Postgres!Next]_(Postgres!vars) => PgInv'
<1> SUFFICES ASSUME PgAssumed, PgInv, [Postgres!Next]_(Postgres!vars) PROVE PgInv'
  OBVIOUS
<1> USE DEF PgBusy
<1>0. Nobody \notin Servers
  BY DEF PgAssumed, Postgres!ProcessesAssumption
<1>1. CASE UNCHANGED Postgres!vars
  BY <1>1 DEF PgInv, PgType, PgSound, PgFollows, PgDrafted, Postgres!vars, Postgres!UpIsAtHome,
              Postgres!Committed
<1>2. ASSUME NEW p \in Servers, Postgres!Lock(p) PROVE PgInv'
  BY <1>0, <1>2 DEF PgInv, PgType, PgSound, PgFollows, PgDrafted, Postgres!Lock, Postgres!LockFree,
              Postgres!Goes, Postgres!Quiet, Postgres!UpIsAtHome, Postgres!Committed
<1>3. ASSUME NEW p \in Servers, Postgres!Read(p) PROVE PgInv'
  BY <1>0, <1>3 DEF PgInv, PgType, PgSound, PgFollows, PgDrafted, Postgres!Read,
              Postgres!Goes, Postgres!Quiet, Postgres!UpIsAtHome, Postgres!Committed
<1>4. ASSUME NEW p \in Servers, NEW d, pgState[p] = "upgrading",
             pgDraft' = [pgDraft EXCEPT ![p] = d], PgFollows(p, d),
             UNCHANGED <<pgVersions, pgParts, main, pgLock, pgState, found>>
      PROVE PgInv'
  BY <1>0, <1>4 DEF PgInv, PgType, PgSound, PgFollows, PgDrafted, Postgres!UpIsAtHome
<1>5. ASSUME NEW p \in Servers, Postgres!Create(p) PROVE PgInv'
  <2>1. PICK d : d = [versions |-> {1}, parts |-> Postgres!PartsOf(1), main |-> BaseCurrency[p]]
    OBVIOUS
  <2>2. 1..1 = {1} /\ PgAll(1..1) = Postgres!PartsOf(1) /\ 1 \in 0..Latest
    <3>1. 1..1 = {1}
      OBVIOUS
    <3> QED BY <3>1 DEF PgAll, Latest
  <2>3. PgFollows(p, d)
    <3>1. pgVersions = {}
      BY <1>5 DEF PgInv, Postgres!Create
    <3>2. d.versions = 1..1 /\ d.parts = PgAll(1..1)
      BY <2>1, <2>2
    <3> QED BY <2>2, <3>1, <3>2 DEF PgFollows, PgDrafted, PgSound
  <2> QED BY <1>4, <1>5, <2>1, <2>3 DEF Postgres!Create, Postgres!Quiet
<1>6. ASSUME NEW p \in Servers, Postgres!Apply(p) PROVE PgInv'
  <2>1. PICK d : d = pgDraft[p]
    OBVIOUS
  <2>2. PICK v : v = Postgres!NextVersion(d)
    OBVIOUS
  <2>3. PICK e : e = IF Postgres!PartsOf(v) \subseteq d.parts
                     THEN [d EXCEPT !.versions = @ \cup {v}]
                     ELSE [d EXCEPT !.parts = @ \cup Postgres!PartsOf(v)]
    OBVIOUS
  <2>4. /\ pgDraft' = [pgDraft EXCEPT ![p] = e] /\ v <= 4 /\ Postgres!Supported(d.versions)
        /\ PgFollows(p, d) /\ pgState[p] = "upgrading"
    BY <1>6, <2>1, <2>2, <2>3 DEF Postgres!Apply, Postgres!SCHEMA_VERSION, PgInv
  <2>5. /\ e.main = d.main
        /\ IF Postgres!PartsOf(v) \subseteq d.parts
           THEN e.versions = d.versions \cup {v} /\ e.parts = d.parts
           ELSE e.versions = d.versions /\ e.parts = d.parts \cup Postgres!PartsOf(v)
    BY <2>3, <2>4 DEF PgFollows
  <2>6. d.versions \subseteq e.versions /\ PgDrafted(e.versions, e.parts)
    BY <2>2, <2>4, <2>5, PgApplies DEF PgFollows
  <2>7. PgFollows(p, e)
    BY <2>4, <2>5, <2>6 DEF PgFollows
  <2> QED BY <1>4, <1>6, <2>4, <2>7 DEF Postgres!Apply, Postgres!Quiet
<1>7. ASSUME NEW p \in Servers, Postgres!Upgraded(p) PROVE PgInv'
  BY <1>0, <1>7 DEF PgInv, PgType, PgSound, PgFollows, PgDrafted, Postgres!Upgraded,
              Postgres!Goes, Postgres!Quiet, Postgres!UpIsAtHome, Postgres!SCHEMA_VERSION
<1>8. ASSUME NEW p \in Servers, Postgres!Commit(p) PROVE PgInv'
  <2>1. /\ pgState[p] = "checking" /\ pgState' = [pgState EXCEPT ![p] = "up"]
        /\ pgVersions' = 1..4 /\ main' = BaseCurrency[p] /\ pgVersions \subseteq 1..4
        /\ pgVersions # {} => main' = main
        /\ PgDrafted(pgDraft[p].versions, pgDraft[p].parts) /\ pgDraft[p].versions = 1..4
        /\ pgParts' = pgDraft[p].parts /\ pgLock = p /\ pgLock' = Nobody /\ found' = found
        /\ pgDraft' = [pgDraft EXCEPT ![p] = Postgres!NoDraft]
    BY <1>8 DEF Postgres!Commit, Postgres!Goes, Postgres!Stored, Postgres!Ended,
                Postgres!SameCurrency, PgInv, PgFollows
  <2>2. pgParts' = PgAll(1..4)
    BY <2>1, PgWhole
  <2>3. PgSound(pgVersions', pgParts')
    BY <2>1, <2>2 DEF PgSound, Latest
  <2>4. \A q \in Servers \ {p} : pgState'[q] = pgState[q] /\ pgState[q] \notin PgBusy
    BY <2>1 DEF PgInv, PgType
  <2>5. Postgres!UpIsAtHome'
    <3> SUFFICES ASSUME NEW q \in Servers, pgState'[q] = "up"
                 PROVE pgVersions' = 1..4 /\ main' = BaseCurrency[q]
      BY DEF Postgres!UpIsAtHome, Postgres!SCHEMA_VERSION
    <3>1. CASE q = p
      BY <2>1, <3>1
    <3>2. CASE q # p
      <4>1. pgVersions = 1..4 /\ main = BaseCurrency[q] /\ 1 \in 1..4
        BY <2>4, <3>2 DEF PgInv, Postgres!UpIsAtHome, Postgres!SCHEMA_VERSION
      <4> QED BY <2>1, <4>1
    <3> QED BY <3>1, <3>2
  <2>6. PgType' /\ pgState'[p] = "up"
    BY <2>1 DEF PgInv, PgType
  <2> QED BY <1>0, <2>1, <2>3, <2>4, <2>5, <2>6 DEF PgInv
<1>9. ASSUME NEW p \in Servers, Postgres!Fail(p), pgState[p] \in PgBusy PROVE PgInv'
  BY <1>0, <1>9 DEF PgInv, PgType, PgSound, PgFollows, PgDrafted, Postgres!Fail,
              Postgres!RolledBack, Postgres!Ended, Postgres!UpIsAtHome, Postgres!Committed
<1>10. ASSUME NEW p \in Servers, Postgres!Refuse(p) PROVE PgInv'
  BY <1>9, <1>10 DEF Postgres!Refuse
<1>11. ASSUME NEW p \in Servers, Postgres!Crash(p) PROVE PgInv'
  <2>1. CASE pgState[p] \in PgBusy /\ Postgres!Fail(p)
    BY <1>9, <2>1
  <2>2. CASE Postgres!Goes(p, "up", "down") /\ UNCHANGED <<pgVersions, pgParts, main, pgLock, pgDraft, found>>
    BY <1>0, <2>2 DEF PgInv, PgType, PgSound, PgFollows, PgDrafted, Postgres!Goes,
                Postgres!UpIsAtHome, Postgres!Committed
  <2> QED BY <1>11, <2>1, <2>2 DEF Postgres!Crash
<1> QED BY <1>1, <1>2, <1>3, <1>5, <1>6, <1>7, <1>8, <1>10, <1>11 DEF Postgres!Next, Postgres!Step

LEMMA PgInvariance == ASSUME PgAssumed PROVE Postgres!Spec => []PgInv
<1>1. Postgres!Init => PgInv
  BY PgFirst
<1>2. PgInv /\ [Postgres!Next]_(Postgres!vars) => PgInv'
  BY PgSteps
<1> QED BY <1>1, <1>2, PTL DEF Postgres!Spec

(* Servers with different settings never run on one database, whoever    *)
(* made it, nor start on one that a later release has upgraded before      *)
(* (PostgresDatabase.__init__).                                            *)
LEMMA SettingsAgree == ASSUME PgAssumed PROVE Postgres!Spec => []Postgres!UpIsAtHome
<1>1. PgInv => Postgres!UpIsAtHome
  BY DEF PgInv
<1> QED BY <1>1, PgInvariance, PTL

(* Every step is a step of the promise or a stutter: others see the old    *)
(* schema or the new one, whoever dies on the way.                         *)
LEMMA PgUpgradesAtOnce == ASSUME PgAssumed PROVE Postgres!Spec => Postgres!UpgradesAtOnce
<1>1. Postgres!Init => Postgres!Promise!Init
  <2> SUFFICES ASSUME Postgres!Init PROVE Postgres!Promise!Init
    OBVIOUS
  <2>1. PICK n \in 0..5 : pgVersions = 1..n
    BY DEF Postgres!Init, Postgres!SCHEMA_VERSION
  <2> QED BY <2>1 DEF Postgres!Init, Postgres!Promise!Init, Postgres!SCHEMA_VERSION
<1>2. PgInv /\ [Postgres!Next]_(Postgres!vars) => [Postgres!Promise!Next]_<<pgVersions, pgParts>>
  <2> SUFFICES ASSUME PgInv, Postgres!Next, <<pgVersions, pgParts>>' # <<pgVersions, pgParts>>
               PROVE Postgres!Promise!Next
    BY DEF Postgres!vars
  <2>1. PICK p \in Servers : Postgres!Commit(p)
    BY DEF Postgres!Next, Postgres!Step, Postgres!Lock, Postgres!Read, Postgres!Create,
           Postgres!Apply, Postgres!Upgraded, Postgres!Refuse, Postgres!Crash, Postgres!Fail,
           Postgres!RolledBack, Postgres!Quiet
  <2>2. /\ pgVersions' = 1..4 /\ pgParts' = PgAll(1..4) /\ pgVersions \subseteq 1..4
    BY <2>1, PgWhole DEF Postgres!Commit, Postgres!Goes, Postgres!Stored, PgInv, PgFollows, PgBusy
  <2>3. PICK n \in 0..Latest : pgVersions = 1..n /\ pgParts = PgAll(1..n)
    BY DEF PgInv, PgSound
  <2>4. n \in 0..3
    <3>1. n # 5
      <4>1. 5 \in 1..5 /\ 5 \notin 1..4
        OBVIOUS
      <4> QED BY <2>2, <2>3, <4>1
    <3>2. n # 4
      BY <2>2, <2>3
    <3> QED BY <2>3, <3>1, <3>2 DEF Latest
  <2>5. pgParts' = pgParts \cup UNION {Postgres!PartsOf(v) : v \in pgVersions' \ pgVersions}
    BY <2>2, <2>3, <2>4, PgGrows DEF PgAll
  <2>6. 4 \in 1..5 /\ pgVersions \subseteq 1..4 /\ 4 \notin pgVersions
    BY <2>3, <2>4
  <2>7. Postgres!Promise!Upgrade(4)
    BY <2>2, <2>5, <2>6 DEF Postgres!Promise!Upgrade, Postgres!SCHEMA_VERSION
  <2> QED BY <2>6, <2>7 DEF Postgres!Promise!Next, Postgres!SCHEMA_VERSION
<1> QED BY <1>1, <1>2, PgInvariance, PTL DEF Postgres!Spec, Postgres!UpgradesAtOnce,
                                             Postgres!Promise!Spec

-----------------------------------------------------------------------------
(* A SQLite database that is backed up and restored, for any number of     *)
(* writes, deaths and damages.  Whoever restores has the application       *)
(* stopped and takes an archive; what was committed last is what is found, *)
(* unless the file is damaged or what was committed is an archive's.       *)

DiskAssumed == Disk!BoundsAssumption /\ Disk!DistinctAssumption
LEMMA DiskIsAssumed == DiskAssumed
BY DiskAssumption DEF DiskAssumed

Logs == [base : Disk!Files, last : Disk!Contents]
DiskType ==
  /\ file \in Disk!Files /\ wal \in Logs \cup {None} /\ archives \subseteq Disk!Files
  /\ temp \in Disk!Files /\ written \in 0..MaxWrites
DiskInv ==
  /\ DiskType
  /\ restoring # "idle" => app # "running" /\ temp \in archives /\ temp \in Disk!Contents
  /\ expected \in Disk!Contents
  /\ expected \in archives \/ file = Corrupt \/ Disk!Now = expected
  /\ restoring = "saved" =>
       expected \in archives \/ (file = Corrupt /\ Disk!Database \in preserved)
  /\ restoring = "replaced" => expected \in archives
(* Of a disk that keeps what it is given: the log is the file's.           *)
SoundInv ==
  /\ DiskType /\ file \in Disk!Contents /\ (wal # None => wal.base = file)
  /\ restoring # "idle" => app # "running" /\ temp \in Disk!Contents
  /\ restoring \in {"alone", "saved", "replaced"} => wal = None
  /\ Disk!Now = expected

LEMMA DiskKinds ==
  ASSUME DiskAssumed
  PROVE /\ None \notin Logs /\ Disk!Contents \subseteq Disk!Files
        /\ Corrupt \notin Disk!Contents /\ Mixed \in Disk!Files /\ Corrupt \in Disk!Files
        /\ MaxWrites \in Nat /\ 0 \in Disk!Contents /\ Newer \in Disk!Files
  BY DEF DiskAssumed, Disk!BoundsAssumption, Disk!DistinctAssumption, Logs, Disk!Files,
         Disk!Contents

LEMMA NowIsAFile == ASSUME DiskAssumed, DiskType PROVE Disk!Now \in Disk!Files
  BY DiskKinds DEF DiskType, Disk!Now, Disk!Opened, Logs

LEMMA MergeKeepsNow == Disk!Merge => Disk!Now' = Disk!Now /\ (file = Corrupt => file' = Corrupt)
  BY DEF Disk!Merge, Disk!Now, Disk!Opened

LEMMA DiskFirst == DiskAssumed /\ Disk!Init => DiskInv /\ SoundInv
  BY DiskKinds DEF Disk!Init, DiskInv, DiskType, SoundInv, Disk!Now, Disk!Opened

LEMMA DiskTyped == DiskAssumed /\ DiskInv /\ [Disk!Next]_(Disk!vars) => DiskType'
<1> SUFFICES ASSUME DiskAssumed, DiskInv, [Disk!Next]_(Disk!vars) PROVE DiskType'
  OBVIOUS
<1>1. DiskType /\ Disk!Now \in Disk!Files
  BY NowIsAFile DEF DiskInv
<1>2. UNCHANGED <<file, wal>> \/ Disk!Merge => file' \in Disk!Files /\ wal' \in Logs \cup {None}
  BY <1>1 DEF DiskType, Disk!Merge
<1>3. CASE UNCHANGED Disk!vars
  BY <1>3 DEF DiskInv, DiskType, Disk!vars
<1>4. CASE Disk!StartApp
  BY <1>1, <1>2, <1>4 DEF Disk!StartApp, DiskType
<1>5. CASE Disk!Write
  <2>1. written + 1 \in Disk!Contents /\ written + 1 \in 0..MaxWrites
    BY <1>1, <1>5, DiskKinds DEF Disk!Write, DiskType, Disk!Contents
  <2>2. wal' \in Logs
    BY <1>1, <1>5, <2>1 DEF Disk!Write, DiskType, Logs
  <2> QED BY <1>1, <1>5, <2>1, <2>2 DEF Disk!Write, DiskType
<1>6. CASE Disk!StopApp
  BY <1>1, <1>2, <1>6 DEF Disk!StopApp, DiskType
<1>7. CASE Disk!KillApp
  BY <1>1, <1>7 DEF Disk!KillApp, DiskType
<1>8. CASE Disk!Rot
  BY <1>1, <1>8, DiskKinds DEF Disk!Rot, DiskType
<1>9. CASE Disk!CreateBackup
  BY <1>1, <1>9 DEF Disk!CreateBackup, Disk!Snapshot, DiskType
<1>10. CASE \E a \in archives : Disk!Extract(a)
  BY <1>1, <1>10 DEF Disk!Extract, DiskType
<1>11. CASE Disk!AssertExclusive
  BY <1>1, <1>2, <1>11 DEF Disk!AssertExclusive, Disk!Exclusive, Disk!OpenedAlone,
                           Disk!Database, DiskType
<1>12. CASE Disk!SaveOld
  BY <1>1, <1>12 DEF Disk!SaveOld, Disk!Snapshot, DiskType
<1>13. CASE Disk!Replace
  BY <1>1, <1>13 DEF Disk!Replace, DiskType
<1>14. CASE Disk!RemoveSidecars
  BY <1>1, <1>14 DEF Disk!RemoveSidecars, DiskType
<1>15. CASE Disk!FailSave \/ Disk!Die
  BY <1>1, <1>15 DEF Disk!FailSave, Disk!Die, DiskType
<1> QED BY <1>3, <1>4, <1>5, <1>6, <1>7, <1>8, <1>9, <1>10, <1>11, <1>12, <1>13, <1>14, <1>15
        DEF Disk!Next, Disk!Restore

LEMMA DiskSteps == DiskAssumed /\ DiskInv /\ [Disk!Next]_(Disk!vars) => DiskInv'
<1> SUFFICES ASSUME DiskAssumed, DiskInv, [Disk!Next]_(Disk!vars) PROVE DiskInv'
  OBVIOUS
<1>0. DiskType /\ DiskType' /\ None \notin Logs
  BY DiskTyped, DiskKinds DEF DiskInv
<1> USE DEF Disk!Database
<1>1. UNCHANGED <<file, wal>> => Disk!Now' = Disk!Now
  BY DEF Disk!Now, Disk!Opened
<1>3. CASE UNCHANGED Disk!vars
  BY <1>0, <1>1, <1>3 DEF DiskInv, Disk!vars
<1>4. CASE Disk!StartApp
  BY <1>0, <1>4, MergeKeepsNow DEF DiskInv, Disk!StartApp
<1>5. CASE Disk!Write
  <2>1. wal' = [base |-> file, last |-> written + 1] /\ wal' \in Logs /\ expected' = written + 1
    BY <1>0, <1>5, DiskKinds DEF Disk!Write, Logs, DiskType, Disk!Contents
  <2>2. expected' \in Disk!Contents
    BY <1>0, <1>5, <2>1, DiskKinds DEF Disk!Write, Disk!Contents, DiskType
  <2>3. file' = Corrupt \/ Disk!Now' = expected'
    BY <1>0, <1>5, <2>1 DEF Disk!Write, Disk!Now, Disk!Opened
  <2> QED BY <1>0, <1>5, <2>2, <2>3 DEF DiskInv, Disk!Write
<1>6. CASE Disk!StopApp
  BY <1>0, <1>6, MergeKeepsNow DEF DiskInv, Disk!StopApp
<1>7. CASE Disk!KillApp
  BY <1>0, <1>1, <1>7 DEF DiskInv, Disk!KillApp
<1>8. CASE Disk!Rot
  <2>1. file # Corrupt
    BY <1>8, DiskKinds DEF Disk!Rot, Disk!Sound
  <2> QED BY <1>0, <1>8, <2>1 DEF DiskInv, Disk!Rot
<1>9. CASE Disk!CreateBackup
  BY <1>0, <1>1, <1>9 DEF DiskInv, Disk!CreateBackup, Disk!Snapshot
<1>10. CASE \E a \in archives : Disk!Extract(a)
  BY <1>0, <1>1, <1>10 DEF DiskInv, Disk!Extract, Disk!Verified, Disk!Sound
<1>11. CASE Disk!AssertExclusive
  BY <1>0, <1>1, <1>11, MergeKeepsNow
  DEF DiskInv, Disk!AssertExclusive, Disk!Exclusive, Disk!OpenedAlone
<1>12. CASE Disk!SaveOld
  <2>1. /\ restoring' = "saved" /\ restoring = "alone" /\ UNCHANGED <<file, wal, app, temp, expected>>
        /\ archives \subseteq archives' /\ preserved \subseteq preserved'
        /\ Disk!Sound(Disk!Now) => Disk!Now \in archives'
        /\ ~Disk!Sound(Disk!Now) => Disk!Database \in preserved'
    BY <1>12 DEF Disk!SaveOld, Disk!Snapshot, Disk!Preserve
  <2>2. CASE expected \in archives
    BY <1>0, <1>1, <2>1, <2>2 DEF DiskInv
  <2>3. CASE file = Corrupt
    <3>1. ~Disk!Sound(Disk!Now)
      BY <2>3, DiskKinds DEF Disk!Now, Disk!Opened, Disk!Sound
    <3> QED BY <1>0, <1>1, <2>1, <2>3, <3>1 DEF DiskInv
  <2>4. CASE Disk!Now = expected
    <3>1. expected \in archives'
      BY <2>1, <2>4 DEF DiskInv, Disk!Sound
    <3> QED BY <1>0, <1>1, <2>1, <2>4, <3>1 DEF DiskInv
  <2> QED BY <2>2, <2>3, <2>4 DEF DiskInv
<1>13. CASE Disk!Replace
  BY <1>0, <1>13 DEF DiskInv, Disk!Replace
<1>14. CASE Disk!RemoveSidecars
  BY <1>0, <1>14 DEF DiskInv, Disk!RemoveSidecars, Disk!Now, Disk!Opened
<1>15. CASE Disk!FailSave \/ Disk!Die
  BY <1>0, <1>1, <1>15 DEF DiskInv, Disk!FailSave, Disk!NotSaved, Disk!GivesUp, Disk!Die
<1> QED BY <1>3, <1>4, <1>5, <1>6, <1>7, <1>8, <1>9, <1>10, <1>11, <1>12, <1>13, <1>14, <1>15
        DEF Disk!Next, Disk!Restore

LEMMA DiskInvariance == ASSUME DiskAssumed PROVE Disk!Spec => []DiskInv
<1>1. Disk!Init => DiskInv
  BY DiskFirst
<1>2. DiskInv /\ [Disk!Next]_(Disk!vars) => DiskInv'
  BY DiskSteps
<1> QED BY <1>1, <1>2, PTL DEF Disk!Spec

(* What a restore replaces is not lost: an archive holds it, or it was     *)
(* damaged and its files are kept, also if the disk does damage it while   *)
(* the restore is under way (restore_backup).                              *)
THEOREM NothingIsLost == Disk!Spec => Disk!NothingLost
<1>1. DiskInv /\ [Disk!Next]_(Disk!vars) =>
        [file' # file /\ restoring = "saved" /\ restoring' = "replaced" =>
           expected \in archives \/ Disk!Database \in preserved]_(Disk!vars)
  BY DEF DiskInv
<1>2. Disk!Spec => []DiskInv
  BY DiskIsAssumed, DiskInvariance
<1> QED BY <1>1, <1>2, PTL DEF Disk!Spec, Disk!NothingLost

(* A disk that has done no damage had done none before.                    *)
LEMMA RotsGrow ==
  DiskAssumed /\ rots \in Nat /\ [Disk!Next]_(Disk!vars)
    => rots' \in Nat /\ (rots' = 0 => rots = 0 /\ ~Disk!Rot)
  BY DEF Disk!Next, Disk!vars, Disk!StartApp, Disk!Write, Disk!StopApp, Disk!KillApp, Disk!Rot,
         Disk!CreateBackup, Disk!Restore, Disk!Extract, Disk!AssertExclusive, Disk!SaveOld,
         Disk!Replace, Disk!RemoveSidecars, Disk!FailSave, Disk!Die

(* While the disk keeps what it is given.                                  *)
LEMMA SoundSteps ==
  DiskAssumed /\ ~Disk!Rot /\ DiskInv /\ SoundInv /\ [Disk!Next]_(Disk!vars) => SoundInv'
<1> SUFFICES ASSUME DiskAssumed, ~Disk!Rot, DiskInv, SoundInv, [Disk!Next]_(Disk!vars)
             PROVE SoundInv'
  OBVIOUS
<1>0. /\ DiskType' /\ None \notin Logs /\ Corrupt \notin Disk!Contents /\ file # Corrupt
      /\ file \in Disk!Contents /\ expected \in Disk!Contents /\ Disk!Sound(Disk!Now)
  <2>1. DiskType' /\ None \notin Logs /\ Corrupt \notin Disk!Contents
    BY DiskTyped, DiskKinds
  <2>2. expected \in Disk!Contents
    BY DEF DiskInv
  <2>3. file \in Disk!Contents /\ Disk!Now = expected
    BY DEF SoundInv
  <2> QED BY <2>1, <2>2, <2>3 DEF Disk!Sound
<1> USE DEF Disk!Database
<1>1. UNCHANGED <<file, wal, expected>> =>
        /\ file' \in Disk!Contents /\ (wal' # None => wal'.base = file')
        /\ wal = None => wal' = None
        /\ Disk!Now' = expected'
  BY DEF SoundInv, Disk!Now, Disk!Opened
<1>2. Disk!Merge => file' \in Disk!Contents /\ wal' = None /\ Disk!Now' = Disk!Now
  BY <1>0, MergeKeepsNow DEF Disk!Merge, Disk!Sound
<1>3. CASE UNCHANGED Disk!vars
  BY <1>0, <1>1, <1>3 DEF SoundInv, Disk!vars
<1>4. CASE Disk!StartApp
  BY <1>0, <1>2, <1>4 DEF SoundInv, Disk!StartApp
<1>5. CASE Disk!Write
  <2>1. wal' = [base |-> file, last |-> written + 1] /\ wal' \in Logs /\ expected' = written + 1
    BY <1>0, <1>5, DiskKinds DEF Disk!Write, Logs, DiskType, Disk!Contents
  <2>2. Disk!Now' = expected'
    BY <1>0, <1>5, <2>1 DEF Disk!Write, Disk!Now, Disk!Opened
  <2> QED BY <1>0, <1>5, <2>1, <2>2 DEF SoundInv, DiskInv, Disk!Write
<1>6. CASE Disk!StopApp
  BY <1>0, <1>2, <1>6 DEF SoundInv, Disk!StopApp
<1>7. CASE Disk!KillApp
  BY <1>0, <1>1, <1>7 DEF SoundInv, Disk!KillApp
<1>9. CASE Disk!CreateBackup
  BY <1>0, <1>1, <1>9 DEF SoundInv, Disk!CreateBackup
<1>10. CASE \E a \in archives : Disk!Extract(a)
  BY <1>0, <1>1, <1>10 DEF SoundInv, Disk!Extract, Disk!Verified, Disk!Sound
<1>11. CASE Disk!AssertExclusive
  BY <1>0, <1>2, <1>11 DEF SoundInv, Disk!AssertExclusive, Disk!Exclusive, Disk!OpenedAlone
<1>12. CASE Disk!SaveOld
  BY <1>0, <1>1, <1>12 DEF SoundInv, Disk!SaveOld
<1>13. CASE Disk!Replace
  BY <1>0, <1>13 DEF SoundInv, Disk!Replace, Disk!Now, Disk!Opened
<1>14. CASE Disk!RemoveSidecars
  BY <1>0, <1>14 DEF SoundInv, Disk!RemoveSidecars, Disk!Now, Disk!Opened
<1>15. CASE Disk!FailSave \/ Disk!Die
  BY <1>0, <1>1, <1>15 DEF SoundInv, Disk!FailSave, Disk!NotSaved, Disk!GivesUp, Disk!Die
<1> QED BY <1>3, <1>4, <1>5, <1>6, <1>7, <1>9, <1>10, <1>11, <1>12, <1>13, <1>14, <1>15
        DEF Disk!Next, Disk!Restore

(* Whoever dies and whenever, what is found when the database is opened is *)
(* what was committed or restored last, while the disk keeps what it is    *)
(* given (restore_backup).                                                 *)
THEOREM LastIsThere == Disk!Spec => []WhatIsThere
<1> DEFINE Inv == rots \in Nat /\ (rots = 0 => SoundInv)
<1>0. Disk!Spec => []DiskInv
  BY DiskIsAssumed, DiskInvariance
<1>1. Disk!Init => Inv
  BY DiskIsAssumed, DiskFirst DEF Disk!Init
<1>2. DiskInv /\ Inv /\ [Disk!Next]_(Disk!vars) => Inv'
  BY DiskIsAssumed, RotsGrow, SoundSteps
<1>3. DiskInv /\ Inv => WhatIsThere
  BY DEF DiskInv, SoundInv, WhatIsThere, Disk!WhatIsThere, Disk!Sound
<1> QED BY <1>0, <1>1, <1>2, <1>3, PTL DEF Disk!Spec

-----------------------------------------------------------------------------
(* Processes that start on one SQLite database and upgrade it, each in     *)
(* steps, from any version, with any number of processes and deaths.       *)

LiteAssumed == Lite!ProcessesAssumption /\ Lite!VersionAssumption
LEMMA LiteIsAssumed == LiteAssumed
BY LiteAssumption DEF LiteAssumed

(* The programs, statement by statement.                                   *)
Is(v, i, op, what) == Lite!Program(v)[i] = Lite!Do(op, what)

LEMMA Program1 ==
  /\ Len(Lite!Program(1)) = 10
  /\ Is(1, 1, "ensure", "accounts_and_transfers")
  /\ Is(1, 2, "look", "account_of_a_transaction")
  /\ Is(1, 3, "add", "account_of_a_transaction")
  /\ Is(1, 4, "look", "account_of_a_schedule")
  /\ Is(1, 5, "add", "account_of_a_schedule")
  /\ Is(1, 6, "look", "Main_Account")
  /\ Is(1, 7, "insert", "Main_Account")
  /\ Is(1, 8, "update", "entries_in_Main_Account")
  /\ Is(1, 9, "commit", "none")
  /\ Is(1, 10, "ensure", "indexes_of_accounts")
  BY DEF Is, Lite!Program, Lite!migration_1_accounts_and_transfers

LEMMA Program2 ==
  /\ Len(Lite!Program(2)) = 6
  /\ Is(2, 1, "look", "cents_of_transactions")
  /\ Is(2, 2, "add", "cents_of_transactions")
  /\ Is(2, 3, "update", "exact_transactions")
  /\ Is(2, 4, "look", "cents_of_others")
  /\ Is(2, 5, "add", "cents_of_others")
  /\ Is(2, 6, "update", "exact_others")
  BY DEF Is, Lite!Program, Lite!migration_2_integer_money

LEMMA Program3 ==
  /\ Len(Lite!Program(3)) = 1
  /\ Is(3, 1, "add", "occurrences")
  BY DEF Is, Lite!Program, Lite!migration_3_recurring_occurrences

LEMMA Program4 ==
  /\ Len(Lite!Program(4)) = 3
  /\ Is(4, 1, "begin", "none")
  /\ Is(4, 2, "validate", "money")
  /\ Is(4, 3, "add", "money_guards")
  BY DEF Is, Lite!Program, Lite!migration_4_money_constraints

LEMMA Program5 ==
  /\ Len(Lite!Program(5)) = 2
  /\ Is(5, 1, "begin", "none")
  /\ Is(5, 2, "add", "audit")
  BY DEF Is, Lite!Program, Lite!migrate_transaction_audit

LEMMA Program6 ==
  /\ Len(Lite!Program(6)) = 2
  /\ Is(6, 1, "begin", "none")
  /\ Is(6, 2, "add", "reconciliation")
  BY DEF Is, Lite!Program, Lite!migrate_reconciliation

LEMMA Program7 ==
  /\ Len(Lite!Program(7)) = 3
  /\ Is(7, 1, "begin", "none")
  /\ Is(7, 2, "recheck", "none")
  /\ Is(7, 3, "add", "query_indexes")
  BY DEF Is, Lite!Program, Lite!migrate_query_indexes

LEMMA Program8 ==
  /\ Len(Lite!Program(8)) = 4
  /\ Is(8, 1, "begin", "none")
  /\ Is(8, 2, "recheck", "none")
  /\ Is(8, 3, "validate", "orphan")
  /\ Is(8, 4, "add", "ownership")
  BY DEF Is, Lite!Program, Lite!migrate_ownership

LEMMA Program9 ==
  /\ Len(Lite!Program(9)) = 3
  /\ Is(9, 1, "begin", "none")
  /\ Is(9, 2, "recheck", "none")
  /\ Is(9, 3, "add", "usernames")
  BY DEF Is, Lite!Program, Lite!migrate_user_accounts

Length(v) == Len(Lite!Program(v))
Op(v, i) == Lite!Program(v)[i].op
Part(v, i) == Lite!Program(v)[i].part
Made(v, i) == Op(v, i) \in {"ensure", "add", "insert", "update"}
Late(v) == CASE v = 7 -> "query_indexes" [] v = 8 -> "ownership" [] v = 9 -> "usernames"

(* What the proofs use of a statement: what is looked for is added next,   *)
(* the later programs start in a transaction, and what the last three add  *)
(* no other adds.                                                          *)
Regular(v, i) ==
  /\ Op(v, i) \in {"ensure", "look", "add", "insert", "update", "commit", "begin", "recheck",
                   "validate"}
  /\ Op(v, i) = "look" => /\ i + 1 <= Length(v) /\ Part(v, i + 1) = Part(v, i)
                          /\ Op(v, i + 1) # "validate"
  /\ Op(v, i) = "begin" => i = 1 /\ v >= 4
  /\ Op(v, i) = "recheck" => i = 2 /\ v >= 7
  /\ v >= 4 => /\ i = 1 => Op(v, i) = "begin"
               /\ Op(v, i) \in {"begin", "recheck", "validate", "add"}
  /\ v >= 7 => /\ i = 2 => Op(v, i) = "recheck"
               /\ Op(v, i) = "add" => i = Length(v) /\ Part(v, i) = Late(v)
  /\ Made(v, i) => \A w \in 7..9 : Part(v, i) = Late(w) => v = w

LEMMA AllRegular ==
  \A v \in 1..9 : Length(v) \in 1..10 /\ \A i \in 1..Length(v) : Regular(v, i)
<1>0. /\ \A w \in 7..9 : w = 7 \/ w = 8 \/ w = 9
      /\ Late(7) = "query_indexes" /\ Late(8) = "ownership" /\ Late(9) = "usernames"
  BY DEF Late
<1>1. Length(1) \in 1..10 /\ \A i \in 1..Length(1) : Regular(1, i)
  <2>1. ASSUME NEW i \in 1..Length(1) PROVE Regular(1, i)
    <3>0. i \in 1..10
      BY Program1 DEF Length
    <3>1. i = 1 \/ i = 2 \/ i = 3 \/ i = 4 \/ i = 5 \/ i = 6 \/ i = 7 \/ i = 8 \/ i = 9 \/ i = 10
      BY <3>0
    <3>2. CASE i = 1
      BY <1>0, <3>2, Program1 DEF Is, Lite!Do, Length, Regular, Op, Part, Made
    <3>3. CASE i = 2
      BY <1>0, <3>3, Program1 DEF Is, Lite!Do, Length, Regular, Op, Part, Made
    <3>4. CASE i = 3
      BY <1>0, <3>4, Program1 DEF Is, Lite!Do, Length, Regular, Op, Part, Made
    <3>5. CASE i = 4
      BY <1>0, <3>5, Program1 DEF Is, Lite!Do, Length, Regular, Op, Part, Made
    <3>6. CASE i = 5
      BY <1>0, <3>6, Program1 DEF Is, Lite!Do, Length, Regular, Op, Part, Made
    <3>7. CASE i = 6
      BY <1>0, <3>7, Program1 DEF Is, Lite!Do, Length, Regular, Op, Part, Made
    <3>8. CASE i = 7
      BY <1>0, <3>8, Program1 DEF Is, Lite!Do, Length, Regular, Op, Part, Made
    <3>9. CASE i = 8
      BY <1>0, <3>9, Program1 DEF Is, Lite!Do, Length, Regular, Op, Part, Made
    <3>10. CASE i = 9
      BY <1>0, <3>10, Program1 DEF Is, Lite!Do, Length, Regular, Op, Part, Made
    <3>11. CASE i = 10
      BY <1>0, <3>11, Program1 DEF Is, Lite!Do, Length, Regular, Op, Part, Made
    <3> QED BY <3>1, <3>2, <3>3, <3>4, <3>5, <3>6, <3>7, <3>8, <3>9, <3>10, <3>11
  <2> QED BY <2>1, Program1 DEF Length
<1>2. Length(2) \in 1..10 /\ \A i \in 1..Length(2) : Regular(2, i)
  <2>1. ASSUME NEW i \in 1..Length(2) PROVE Regular(2, i)
    <3>0. i \in 1..6
      BY Program2 DEF Length
    <3>1. i = 1 \/ i = 2 \/ i = 3 \/ i = 4 \/ i = 5 \/ i = 6
      BY <3>0
    <3>2. CASE i = 1
      BY <1>0, <3>2, Program2 DEF Is, Lite!Do, Length, Regular, Op, Part, Made
    <3>3. CASE i = 2
      BY <1>0, <3>3, Program2 DEF Is, Lite!Do, Length, Regular, Op, Part, Made
    <3>4. CASE i = 3
      BY <1>0, <3>4, Program2 DEF Is, Lite!Do, Length, Regular, Op, Part, Made
    <3>5. CASE i = 4
      BY <1>0, <3>5, Program2 DEF Is, Lite!Do, Length, Regular, Op, Part, Made
    <3>6. CASE i = 5
      BY <1>0, <3>6, Program2 DEF Is, Lite!Do, Length, Regular, Op, Part, Made
    <3>7. CASE i = 6
      BY <1>0, <3>7, Program2 DEF Is, Lite!Do, Length, Regular, Op, Part, Made
    <3> QED BY <3>1, <3>2, <3>3, <3>4, <3>5, <3>6, <3>7
  <2> QED BY <2>1, Program2 DEF Length
<1>3. Length(3) \in 1..10 /\ \A i \in 1..Length(3) : Regular(3, i)
  BY <1>0, Program3 DEF Is, Lite!Do, Length, Regular, Op, Part, Made
<1>4. Length(4) \in 1..10 /\ \A i \in 1..Length(4) : Regular(4, i)
  <2>1. ASSUME NEW i \in 1..Length(4) PROVE Regular(4, i)
    <3>0. i \in 1..3
      BY Program4 DEF Length
    <3>1. i = 1 \/ i = 2 \/ i = 3
      BY <3>0
    <3>2. CASE i = 1
      BY <1>0, <3>2, Program4 DEF Is, Lite!Do, Length, Regular, Op, Part, Made
    <3>3. CASE i = 2
      BY <1>0, <3>3, Program4 DEF Is, Lite!Do, Length, Regular, Op, Part, Made
    <3>4. CASE i = 3
      BY <1>0, <3>4, Program4 DEF Is, Lite!Do, Length, Regular, Op, Part, Made
    <3> QED BY <3>1, <3>2, <3>3, <3>4
  <2> QED BY <2>1, Program4 DEF Length
<1>5. Length(5) \in 1..10 /\ \A i \in 1..Length(5) : Regular(5, i)
  BY <1>0, Program5 DEF Is, Lite!Do, Length, Regular, Op, Part, Made
<1>6. Length(6) \in 1..10 /\ \A i \in 1..Length(6) : Regular(6, i)
  BY <1>0, Program6 DEF Is, Lite!Do, Length, Regular, Op, Part, Made
<1>7. Length(7) \in 1..10 /\ \A i \in 1..Length(7) : Regular(7, i)
  <2>1. ASSUME NEW i \in 1..Length(7) PROVE Regular(7, i)
    <3>0. i \in 1..3
      BY Program7 DEF Length
    <3>1. i = 1 \/ i = 2 \/ i = 3
      BY <3>0
    <3>2. CASE i = 1
      BY <1>0, <3>2, Program7 DEF Is, Lite!Do, Length, Regular, Op, Part, Made
    <3>3. CASE i = 2
      BY <1>0, <3>3, Program7 DEF Is, Lite!Do, Length, Regular, Op, Part, Made
    <3>4. CASE i = 3
      BY <1>0, <3>4, Program7 DEF Is, Lite!Do, Length, Regular, Op, Part, Made
    <3> QED BY <3>1, <3>2, <3>3, <3>4
  <2> QED BY <2>1, Program7 DEF Length
<1>8. Length(8) \in 1..10 /\ \A i \in 1..Length(8) : Regular(8, i)
  <2>1. ASSUME NEW i \in 1..Length(8) PROVE Regular(8, i)
    <3>0. i \in 1..4
      BY Program8 DEF Length
    <3>1. i = 1 \/ i = 2 \/ i = 3 \/ i = 4
      BY <3>0
    <3>2. CASE i = 1
      BY <1>0, <3>2, Program8 DEF Is, Lite!Do, Length, Regular, Op, Part, Made
    <3>3. CASE i = 2
      BY <1>0, <3>3, Program8 DEF Is, Lite!Do, Length, Regular, Op, Part, Made
    <3>4. CASE i = 3
      BY <1>0, <3>4, Program8 DEF Is, Lite!Do, Length, Regular, Op, Part, Made
    <3>5. CASE i = 4
      BY <1>0, <3>5, Program8 DEF Is, Lite!Do, Length, Regular, Op, Part, Made
    <3> QED BY <3>1, <3>2, <3>3, <3>4, <3>5
  <2> QED BY <2>1, Program8 DEF Length
<1>9. Length(9) \in 1..10 /\ \A i \in 1..Length(9) : Regular(9, i)
  <2>1. ASSUME NEW i \in 1..Length(9) PROVE Regular(9, i)
    <3>0. i \in 1..3
      BY Program9 DEF Length
    <3>1. i = 1 \/ i = 2 \/ i = 3
      BY <3>0
    <3>2. CASE i = 1
      BY <1>0, <3>2, Program9 DEF Is, Lite!Do, Length, Regular, Op, Part, Made
    <3>3. CASE i = 2
      BY <1>0, <3>3, Program9 DEF Is, Lite!Do, Length, Regular, Op, Part, Made
    <3>4. CASE i = 3
      BY <1>0, <3>4, Program9 DEF Is, Lite!Do, Length, Regular, Op, Part, Made
    <3> QED BY <3>1, <3>2, <3>3, <3>4
  <2> QED BY <2>1, Program9 DEF Length
<1>10. \A v \in 1..9 : \/ v = 1 \/ v = 2 \/ v = 3 \/ v = 4 \/ v = 5
                     \/ v = 6 \/ v = 7 \/ v = 8 \/ v = 9
  OBVIOUS
<1> QED BY <1>10, <1>1, <1>2, <1>3, <1>4, <1>5, <1>6, <1>7, <1>8, <1>9

(* What a version's program makes is what its statements make.             *)
LEMMA PartsAreMade ==
  \A v \in 1..9 : Lite!PartsOf(v) = {Part(v, i) : i \in {j \in 1..Length(v) : Made(v, j)}}
<1> SUFFICES ASSUME NEW v \in 1..9 PROVE DOMAIN Lite!Program(v) = 1..Length(v)
  BY DEF Lite!PartsOf, Part, Made, Op
<1> USE DEF Length, Lite!Program
<1>1. CASE v = 1
  BY <1>1 DEF Lite!migration_1_accounts_and_transfers
<1>2. CASE v = 2
  BY <1>2 DEF Lite!migration_2_integer_money
<1>3. CASE v = 3
  BY <1>3 DEF Lite!migration_3_recurring_occurrences
<1>4. CASE v = 4
  BY <1>4 DEF Lite!migration_4_money_constraints
<1>5. CASE v = 5
  BY <1>5 DEF Lite!migrate_transaction_audit
<1>6. CASE v = 6
  BY <1>6 DEF Lite!migrate_reconciliation
<1>7. CASE v = 7
  BY <1>7 DEF Lite!migrate_query_indexes
<1>8. CASE v = 8
  BY <1>8 DEF Lite!migrate_ownership
<1>9. CASE v = 9
  BY <1>9 DEF Lite!migrate_user_accounts
<1> QED BY <1>1, <1>2, <1>3, <1>4, <1>5, <1>6, <1>7, <1>8, <1>9

(* A process that upgrades, at statement i of version v: its own view has  *)
(* what the statements before i make and what they validate.  In a         *)
(* transaction it is alone to change anything, and since version 4 it is   *)
(* in one from its first statement on.                                     *)
Through(v, i, ps, fs) ==
  \A j \in 1..(i - 1) : /\ Made(v, j) => Part(v, j) \in ps
                        /\ Op(v, j) = "validate" => Part(v, j) \notin fs
Within(v, i, vs, ps, d) ==
  /\ i > 1 /\ d = [versions |-> vs, parts |-> d.parts]
  /\ ps \subseteq d.parts /\ d.parts \subseteq ps \cup Lite!PartsOf(v)
  /\ v >= 7 /\ i <= Length(v) => d.parts = ps
  /\ v >= 7 /\ i >= 3 => v \notin vs
On(p, w, v, i, n, vs, ps, d, fs) ==
  /\ v \in 1..9 /\ i \in 1..Length(v) + 1 /\ n < v /\ 1..(v - 1) \subseteq vs
  /\ IF w = p THEN Within(v, i, vs, ps, d) /\ Through(v, i, d.parts, fs)
     ELSE (v < 4 \/ i = 1) /\ Through(v, i, ps, fs)

(* What is recorded is there, and what the last versions bring only then.  *)
WholeOf(v, ps, fs) == /\ Lite!PartsOf(v) \subseteq ps
                      /\ v = 4 => "money" \notin fs
                      /\ v = 8 => "orphan" \notin fs
LiteSound(vs, ps, fs) ==
  /\ \E n \in 0..9 : vs = 1..n
  /\ \A v \in vs : WholeOf(v, ps, fs)
  /\ \A w \in 7..9 : Late(w) \in ps => w \in vs

LiteType ==
  /\ writer \in Processes \cup {Nobody}
  /\ state \in [Processes -> {"down", "upgrading", "up"}]
  /\ place \in [Processes -> Nat \X Nat]
  /\ since \in [Processes -> Nat] /\ DOMAIN why = Processes
IsOn(p) == On(p, writer, place[p][1], place[p][2], since[p], versions, parts, upgrade, faults)
LiteInv ==
  /\ LiteType /\ LiteSound(versions, parts, faults)
  /\ \A p \in Processes : /\ state[p] = "upgrading" => IsOn(p)
                          /\ writer = p => state[p] = "upgrading"
  /\ Lite!StartsTogether

LEMMA OnKeeps ==
  ASSUME NEW p, NEW w, NEW v, NEW i, NEW n, NEW vs, NEW ps, NEW d, NEW fs,
         On(p, w, v, i, n, vs, ps, d, fs),
         NEW w2, NEW vs2, NEW ps2, NEW d2, NEW fs2, w2 = p <=> w = p,
         vs \subseteq vs2, ps \subseteq ps2, fs2 \subseteq fs,
         w = p => vs2 = vs /\ ps2 = ps /\ d2 = d
  PROVE On(p, w2, v, i, n, vs2, ps2, d2, fs2)
  BY DEF On, Within, Through

LEMMA OnNext ==
  ASSUME NEW v \in 1..9, NEW i \in 1..Length(v), NEW ps, NEW fs, Through(v, i, ps, fs),
         Made(v, i) => Part(v, i) \in ps, Op(v, i) = "validate" => Part(v, i) \notin fs
  PROVE i + 1 \in 1..Length(v) + 1 /\ Through(v, i + 1, ps, fs)
<1>1. Length(v) \in Nat
  BY AllRegular
<1>2. \A j \in 1..((i + 1) - 1) : j = i \/ j \in 1..(i - 1)
  BY <1>1
<1> QED BY <1>1, <1>2 DEF Through

LEMMA Completed ==
  ASSUME NEW v \in 1..9, NEW ps, NEW fs, Through(v, Length(v) + 1, ps, fs)
  PROVE WholeOf(v, ps, fs)
<1>1. Length(v) \in Nat /\ (Length(v) + 1) - 1 = Length(v)
  BY AllRegular
<1>2. \A j \in 1..Length(v) : /\ Made(v, j) => Part(v, j) \in ps
                              /\ Op(v, j) = "validate" => Part(v, j) \notin fs
  BY <1>1 DEF Through
<1>3. Lite!PartsOf(v) \subseteq ps
  BY <1>2, PartsAreMade
<1>4. v = 4 => "money" \notin fs
  BY <1>2, Program4 DEF Length, Op, Part, Is, Lite!Do
<1>5. v = 8 => "orphan" \notin fs
  BY <1>2, Program8 DEF Length, Op, Part, Is, Lite!Do
<1> QED BY <1>3, <1>4, <1>5 DEF WholeOf

LEMMA MadeIsPart ==
  \A v \in 1..9 : \A i \in 1..Length(v) : Made(v, i) => Part(v, i) \in Lite!PartsOf(v)
  BY PartsAreMade

LEMMA LateIsOwn == \A v \in 1..9, w \in 7..9 : Late(w) \in Lite!PartsOf(v) => v = w
<1> SUFFICES ASSUME NEW v \in 1..9, NEW w \in 7..9, Late(w) \in Lite!PartsOf(v) PROVE v = w
  OBVIOUS
<1>1. PICK i \in 1..Length(v) : Made(v, i) /\ Part(v, i) = Late(w)
  BY PartsAreMade
<1> QED BY <1>1, AllRegular DEF Regular

LEMMA CurrentIs == ASSUME NEW d, NEW n \in 0..9, d.versions = 1..n PROVE Lite!Current(d) = n
<1>1. CASE n = 0
  BY <1>1 DEF Lite!Current
<1>2. CASE n # 0
  <2>1. n \in d.versions /\ \A w \in d.versions : w \in Int /\ w <= n
    BY <1>2
  <2>2. PICK c : c = Lite!Current(d)
    OBVIOUS
  <2>3. c \in d.versions /\ \A w \in d.versions : w <= c
    BY <2>1, <2>2 DEF Lite!Current
  <2>4. n <= c /\ c <= n /\ c \in Int
    BY <2>1, <2>3
  <2> QED BY <2>2, <2>4
<1> QED BY <1>1, <1>2

(* The statement at which a process is, and the version's row at the end.  *)
LEMMA AtStatement ==
  ASSUME NEW p, NEW op, Lite!Upgrading(p, op), IsOn(p)
  PROVE /\ state[p] = "upgrading" /\ place[p][1] \in 1..9
        /\ op # "version" => /\ place[p][2] \in 1..Length(place[p][1])
                             /\ Op(place[p][1], place[p][2]) = op
                             /\ Lite!Statement(p).part = Part(place[p][1], place[p][2])
        /\ op = "version" => place[p][2] = Length(place[p][1]) + 1
<1>1. /\ state[p] = "upgrading" /\ Lite!Statement(p).op = op
      /\ place[p][1] \in 1..9 /\ place[p][2] \in 1..Length(place[p][1]) + 1
  BY DEF Lite!Upgrading, IsOn, On
<1>2. Length(place[p][1]) \in Nat
  BY <1>1, AllRegular
<1>3. CASE place[p][2] <= Length(place[p][1])
  <2>1. place[p][2] \in 1..Length(place[p][1])
    BY <1>1, <1>2, <1>3
  <2>2. Op(place[p][1], place[p][2]) # "version"
    BY <1>1, <2>1, AllRegular DEF Regular
  <2> QED BY <1>1, <1>3, <2>1, <2>2 DEF Lite!Statement, Length, Op, Part
<1>4. CASE ~(place[p][2] <= Length(place[p][1]))
  <2>1. Lite!Statement(p).op = "version"
    BY <1>4 DEF Lite!Statement, Length, Lite!Do
  <2> QED BY <1>1, <1>2, <1>4, <2>1
<1> QED BY <1>3, <1>4

(* A step of one process, the others not being disturbed.                  *)
LEMMA OneMoves ==
  ASSUME LiteAssumed, LiteInv, NEW p \in Processes, LiteType',
         LiteSound(versions', parts', faults'),
         \A q \in Processes \ {p} : /\ state'[q] = state[q] /\ place'[q] = place[q]
                                    /\ since'[q] = since[q] /\ why'[q] = why[q],
         versions \subseteq versions' /\ parts \subseteq parts' /\ faults' \subseteq faults,
         \/ UNCHANGED <<versions, parts, writer, upgrade>>
         \/ writer \in {p, Nobody} /\ writer' \in {p, Nobody},
         state'[p] = "upgrading" => IsOn(p)',
         writer' = p => state'[p] = "upgrading",
         since'[p] >= 6 => why'[p] # "exists"
  PROVE LiteInv'
<1>0. Nobody \notin Processes
  BY DEF LiteAssumed, Lite!ProcessesAssumption
<1>1. ASSUME NEW q \in Processes \ {p}, state'[q] = "upgrading" PROVE IsOn(q)'
  <2>1. IsOn(q) /\ place'[q] = place[q] /\ since'[q] = since[q]
    BY <1>1 DEF LiteInv
  <2>2. writer' = q <=> writer = q
    BY <1>0
  <2>3. writer = q => versions' = versions /\ parts' = parts /\ upgrade' = upgrade
    BY <1>0
  <2> QED BY <2>1, <2>2, <2>3, OnKeeps DEF IsOn
<1>2. ASSUME NEW q \in Processes \ {p}, writer' = q PROVE state'[q] = "upgrading"
  BY <1>0, <1>2 DEF LiteInv
<1>3. Lite!StartsTogether'
  BY DEF LiteInv, Lite!StartsTogether
<1> QED BY <1>1, <1>2, <1>3 DEF LiteInv

LEMMA LiteFirst == LiteAssumed /\ Lite!Init => LiteInv
<1> SUFFICES ASSUME LiteAssumed, Lite!Init PROVE LiteInv
  OBVIOUS
<1>1. Nobody \notin Processes /\ FirstVersion \in 0..9
  BY DEF LiteAssumed, Lite!ProcessesAssumption, Lite!VersionAssumption
<1>2. versions = 1..FirstVersion /\ parts = UNION {Lite!PartsOf(v) : v \in versions}
  BY DEF Lite!Init
<1>3. /\ "money" \in faults => FirstVersion < 4
      /\ "orphan" \in faults => FirstVersion < 8
  BY <1>1 DEF Lite!Init
<1>4. \A v \in versions : v \in 1..9 /\ WholeOf(v, parts, faults)
  BY <1>1, <1>2, <1>3 DEF WholeOf
<1>5. \A w \in 7..9 : Late(w) \in parts => w \in versions
  BY <1>2, <1>4, LateIsOwn
<1>6. LiteSound(versions, parts, faults)
  BY <1>1, <1>2, <1>4, <1>5 DEF LiteSound
<1>7. LiteType
  BY DEF LiteType, Lite!Init
<1> QED BY <1>1, <1>6, <1>7 DEF LiteInv, Lite!Init, Lite!StartsTogether

(* What a step does to the process that takes it: it goes on to a later    *)
(* statement, to the next version, or ends.                                *)
LEMMA Jumps ==
  ASSUME LiteAssumed, LiteInv, NEW p \in Processes, state[p] = "upgrading",
         NEW k \in {1, 2}, Lite!Jump(p, k), writer' \in Processes \cup {Nobody},
         UNCHANGED <<versions, faults, state, since, why>>, parts \subseteq parts',
         LiteSound(versions, parts', faults),
         \/ UNCHANGED <<parts, writer, upgrade>>
         \/ writer \in {p, Nobody} /\ writer' \in {p, Nobody},
         On(p, writer', place[p][1], place[p][2] + k, since[p], versions, parts', upgrade', faults)
  PROVE LiteInv'
<1>1. place' = [place EXCEPT ![p] = <<place[p][1], place[p][2] + k>>]
  BY DEF Lite!Jump
<1>2. LiteType'
  <2>1. place[p][1] \in Nat /\ place[p][2] + k \in Nat
    BY DEF LiteInv, LiteType
  <2> QED BY <1>1, <2>1 DEF LiteInv, LiteType
<1>3. place'[p][1] = place[p][1] /\ place'[p][2] = place[p][2] + k
  BY <1>1 DEF LiteInv, LiteType
<1>4. IsOn(p)'
  BY <1>3 DEF IsOn
<1>5. \A q \in Processes \ {p} : place'[q] = place[q]
  BY <1>1 DEF LiteInv, LiteType
<1>6. since[p] >= 6 => why[p] # "exists"
  BY DEF LiteInv, Lite!StartsTogether
<1> QED BY <1>2, <1>4, <1>5, <1>6, OneMoves

LEMMA Advances ==
  ASSUME LiteAssumed, LiteInv, NEW p \in Processes, state[p] = "upgrading", Lite!Advance(p),
         UNCHANGED <<faults, since, why>>,
         versions \subseteq versions', 1..place[p][1] \subseteq versions', parts \subseteq parts',
         LiteSound(versions', parts', faults), writer' = Nobody, writer \in {p, Nobody}
  PROVE LiteInv'
<1>0. Nobody \notin Processes
  BY DEF LiteAssumed, Lite!ProcessesAssumption
<1>1. PICK v \in 1..9 : v = place[p][1] /\ since[p] < v
  BY DEF LiteInv, IsOn, On
<1>2. since[p] >= 6 => why[p] # "exists"
  BY DEF LiteInv, Lite!StartsTogether
<1>3. CASE v = 9
  <2>1. state' = [state EXCEPT ![p] = "up"] /\ place' = place
    BY <1>1, <1>3 DEF Lite!Advance, Lite!Version, Lite!LATEST_SCHEMA_VERSION
  <2>2. LiteType' /\ state'[p] = "up" /\ \A q \in Processes \ {p} : state'[q] = state[q]
    BY <2>1 DEF LiteInv, LiteType
  <2> QED BY <1>0, <1>2, <2>1, <2>2, OneMoves
<1>4. CASE v # 9
  <2>1. place' = [place EXCEPT ![p] = <<v + 1, 1>>] /\ state' = state
    BY <1>1, <1>4 DEF Lite!Advance, Lite!Version, Lite!LATEST_SCHEMA_VERSION
  <2>2. /\ LiteType' /\ place'[p][1] = v + 1 /\ place'[p][2] = 1
        /\ \A q \in Processes \ {p} : place'[q] = place[q]
    BY <2>1 DEF LiteInv, LiteType
  <2>3. v + 1 \in 1..9 /\ since[p] < v + 1 /\ 1 \in 1..Length(v + 1) + 1
    <3>1. v + 1 \in 1..9
      BY <1>4
    <3>2. Length(v + 1) \in Nat
      BY <3>1, AllRegular
    <3> QED BY <1>1, <3>1, <3>2 DEF LiteInv, LiteType
  <2>4. IsOn(p)'
    BY <1>0, <1>1, <2>2, <2>3 DEF IsOn, On, Through
  <2> QED BY <1>0, <1>2, <2>1, <2>2, <2>4, OneMoves
<1> QED BY <1>3, <1>4

LEMMA Ends ==
  ASSUME LiteAssumed, LiteInv, NEW p \in Processes, state' = [state EXCEPT ![p] = "down"],
         UNCHANGED <<versions, parts, faults, place, since>>,
         IF writer = p THEN writer' = Nobody ELSE UNCHANGED <<writer, upgrade>>,
         DOMAIN why' = Processes /\ \A q \in Processes \ {p} : why'[q] = why[q],
         since[p] >= 6 => why'[p] # "exists"
  PROVE LiteInv'
<1>0. Nobody \notin Processes
  BY DEF LiteAssumed, Lite!ProcessesAssumption
<1>1. LiteType' /\ state'[p] = "down" /\ \A q \in Processes \ {p} : state'[q] = state[q]
  BY DEF LiteInv, LiteType
<1>2. LiteSound(versions', parts', faults') /\ writer' # p
  BY <1>0 DEF LiteInv
<1> QED BY <1>1, <1>2, OneMoves

LEMMA FailEnds ==
  ASSUME LiteAssumed, LiteInv, NEW p \in Processes, NEW reason, Lite!Fail(p, reason),
         since[p] >= 6 => reason # "exists"
  PROVE LiteInv'
<1>1. /\ state' = [state EXCEPT ![p] = "down"] /\ why' = [why EXCEPT ![p] = reason]
      /\ UNCHANGED <<versions, parts, faults, place, since>>
      /\ IF writer = p THEN writer' = Nobody ELSE UNCHANGED <<writer, upgrade>>
  BY DEF Lite!Fail, Lite!InTransaction, Lite!RolledBack, Lite!Uncommitted, Lite!Finished
<1>2. /\ DOMAIN why' = Processes /\ \A q \in Processes \ {p} : why'[q] = why[q]
      /\ since[p] >= 6 => why'[p] # "exists"
  BY <1>1 DEF LiteInv, LiteType
<1> QED BY <1>1, <1>2, Ends

LEMMA CrashEnds == ASSUME LiteAssumed, LiteInv, NEW p \in Processes, Lite!Crash(p) PROVE LiteInv'
<1>1. /\ state' = [state EXCEPT ![p] = "down"] /\ why' = why
      /\ UNCHANGED <<versions, parts, faults, place, since>>
      /\ IF writer = p THEN writer' = Nobody ELSE UNCHANGED <<writer, upgrade>>
  BY DEF Lite!Crash, Lite!InTransaction, Lite!Uncommitted, Lite!Finished
<1>2. DOMAIN why' = Processes /\ (since[p] >= 6 => why'[p] # "exists")
  BY <1>1 DEF LiteInv, LiteType, Lite!StartsTogether
<1> QED BY <1>1, <1>2, Ends

LEMMA StartGoesOn == ASSUME LiteAssumed, LiteInv, NEW p \in Processes, Lite!Start(p) PROVE LiteInv'
<1>0. Nobody \notin Processes
  BY DEF LiteAssumed, Lite!ProcessesAssumption
<1>1. writer # p
  BY DEF LiteInv, Lite!Start
<1>2. PICK n \in 0..9 : versions = 1..n
  BY DEF LiteInv, LiteSound
<1>3. Lite!Current(Lite!Seen(p)) = n
  BY <1>1, <1>2, CurrentIs DEF Lite!Seen, Lite!InTransaction
<1>4. /\ UNCHANGED <<versions, parts, writer, upgrade, faults>>
      /\ since' = [since EXCEPT ![p] = n] /\ why' = [why EXCEPT ![p] = "none"]
      /\ state' = [state EXCEPT ![p] = IF n = 9 THEN "up" ELSE "upgrading"]
      /\ place' = [place EXCEPT ![p] = IF n = 9 THEN <<n, 1>> ELSE <<n + 1, 1>>]
  BY <1>3 DEF Lite!Start, Lite!LATEST_SCHEMA_VERSION
<1>5. /\ LiteType' /\ since'[p] = n /\ why'[p] = "none"
      /\ state'[p] = "upgrading" => n # 9 /\ place'[p][1] = n + 1 /\ place'[p][2] = 1
      /\ \A q \in Processes \ {p} : /\ state'[q] = state[q] /\ place'[q] = place[q]
                                    /\ since'[q] = since[q] /\ why'[q] = why[q]
  BY <1>4 DEF LiteInv, LiteType
<1>6. ASSUME state'[p] = "upgrading" PROVE IsOn(p)'
  <2>1. n + 1 \in 1..9 /\ (n + 1) - 1 = n /\ n < n + 1
    BY <1>5, <1>6
  <2>2. 1 \in 1..Length(n + 1) + 1
    BY <2>1, AllRegular
  <2> QED BY <1>1, <1>2, <1>4, <1>5, <1>6, <2>1, <2>2 DEF IsOn, On, Through
<1>7. LiteSound(versions', parts', faults')
  BY <1>4 DEF LiteInv
<1> QED BY <1>1, <1>4, <1>5, <1>6, <1>7, OneMoves

(* The statements of a process that upgrades.                              *)
LEMMA DefineGoesOn ==
  ASSUME LiteAssumed, LiteInv, NEW p \in Processes, NEW op \in {"ensure", "add"},
         Lite!Upgrading(p, op), Lite!Define(p, Lite!Statement(p).part), Lite!Jump(p, 1),
         UNCHANGED <<faults, state, since, why>>
  PROVE LiteInv'
<1>0. Nobody \notin Processes /\ state[p] = "upgrading" /\ IsOn(p)
  BY DEF LiteAssumed, Lite!ProcessesAssumption, Lite!Upgrading, LiteInv
<1>1. PICK v, i, x : v = place[p][1] /\ i = place[p][2] /\ x = Part(v, i)
  OBVIOUS
<1>2. /\ v \in 1..9 /\ i \in 1..Length(v) /\ Op(v, i) = op /\ Made(v, i)
      /\ Lite!Statement(p).part = x
  BY <1>0, <1>1, AtStatement DEF Made
<1>3. Regular(v, i) /\ Length(v) \in Nat /\ x \in Lite!PartsOf(v)
  BY <1>1, <1>2, AllRegular, MadeIsPart
<1>4. i # 1 \/ v < 4
  BY <1>2, <1>3 DEF Regular
<1>5. On(p, writer, v, i, since[p], versions, parts, upgrade, faults)
  BY <1>0, <1>1 DEF IsOn
<1>6. CASE writer = p
  <2>1. /\ Within(v, i, versions, parts, upgrade)
        /\ Through(v, i, upgrade.parts, faults)
    BY <1>5, <1>6 DEF On
  <2>2. /\ upgrade' = [upgrade EXCEPT !.parts = @ \cup {x}] /\ writer' = p
        /\ versions' = versions /\ parts' = parts
    BY <1>2, <1>6 DEF Lite!Define, Lite!InTransaction, Lite!Reserve, Lite!With, Lite!Uncommitted
  <2>3. upgrade' = [versions |-> versions, parts |-> upgrade'.parts] /\ upgrade'.parts = upgrade.parts \cup {x}
    BY <2>1, <2>2 DEF Within
  <2>4. i + 1 \in 1..Length(v) + 1 /\ Through(v, i + 1, upgrade'.parts, faults)
    <3>1. Through(v, i, upgrade'.parts, faults)
      BY <2>1, <2>3 DEF Through
    <3> QED BY <1>1, <1>2, <2>3, <3>1, OnNext
  <2>5. v >= 7 => i + 1 > Length(v) /\ v \notin versions
    BY <1>2, <1>3, <2>1 DEF Regular, Within
  <2>6. Within(v, i + 1, versions, parts, upgrade')
    BY <1>2, <1>3, <2>1, <2>3, <2>5 DEF Within
  <2>7. On(p, p, v, i + 1, since[p], versions, parts, upgrade', faults)
    BY <1>5, <2>4, <2>6 DEF On
  <2> QED BY <1>0, <1>1, <1>6, <2>2, <2>7, Jumps DEF LiteInv
<1>7. CASE writer # p
  <2>1. v < 4 /\ Through(v, i, parts, faults)
    BY <1>4, <1>5, <1>7 DEF On
  <2>2. /\ writer = Nobody /\ UNCHANGED <<writer, upgrade, versions>> /\ parts' = parts \cup {x}
    BY <1>2, <1>7 DEF Lite!Define, Lite!InTransaction, Lite!Free, Lite!Store, Lite!With, Lite!Seen
  <2>3. LiteSound(versions, parts', faults)
    <3>1. \A w \in 7..9 : x # Late(w)
      BY <1>2, <1>3, <2>1, LateIsOwn
    <3> QED BY <2>2, <3>1 DEF LiteInv, LiteSound, WholeOf
  <2>4. i + 1 \in 1..Length(v) + 1 /\ Through(v, i + 1, parts', faults)
    <3>1. Through(v, i, parts', faults)
      BY <2>1, <2>2 DEF Through
    <3> QED BY <1>1, <1>2, <2>2, <3>1, OnNext
  <2>5. On(p, writer', v, i + 1, since[p], versions, parts', upgrade', faults)
    BY <1>5, <1>7, <2>1, <2>2, <2>4 DEF On
  <2> QED BY <1>0, <1>1, <2>2, <2>3, <2>5, Jumps DEF LiteInv, LiteType
<1> QED BY <1>6, <1>7

LEMMA ChangeGoesOn == ASSUME LiteAssumed, LiteInv, NEW p \in Processes, Lite!Change(p) PROVE LiteInv'
<1>0. /\ Nobody \notin Processes /\ state[p] = "upgrading" /\ IsOn(p)
      /\ UNCHANGED <<faults, state, since, why>>
  BY DEF LiteAssumed, Lite!ProcessesAssumption, Lite!Upgrading, LiteInv, Lite!Change, Lite!Quiet
<1>1. PICK v, i, x : v = place[p][1] /\ i = place[p][2] /\ x = Part(v, i)
  OBVIOUS
<1>2. /\ v \in 1..9 /\ i \in 1..Length(v) /\ Op(v, i) \in {"insert", "update"} /\ Made(v, i)
      /\ Lite!Statement(p).part = x
  BY <1>0, <1>1, AtStatement DEF Made, Lite!Change
<1>3. Regular(v, i) /\ Length(v) \in Nat /\ x \in Lite!PartsOf(v)
  BY <1>1, <1>2, AllRegular, MadeIsPart
<1>4. v < 4
  BY <1>2, <1>3 DEF Regular
<1>5. On(p, writer, v, i, since[p], versions, parts, upgrade, faults)
  BY <1>0, <1>1 DEF IsOn
<1>6. PICK d : d = Lite!Seen(p)
  OBVIOUS
<1>7. /\ d = [versions |-> versions, parts |-> d.parts] /\ parts \subseteq d.parts
      /\ d.parts \subseteq parts \cup Lite!PartsOf(v) /\ Through(v, i, d.parts, faults)
  BY <1>5, <1>6 DEF On, Within, Lite!Seen, Lite!InTransaction
<1>8. /\ upgrade' = [d EXCEPT !.parts = @ \cup {x}] /\ writer' = p /\ writer \in {p, Nobody}
      /\ versions' = versions /\ parts' = parts /\ Lite!Jump(p, 1)
  BY <1>2, <1>6 DEF Lite!Change, Lite!Reserve, Lite!With, Lite!Uncommitted, Lite!Free
<1>9. upgrade' = [versions |-> versions, parts |-> upgrade'.parts] /\ upgrade'.parts = d.parts \cup {x}
  BY <1>7, <1>8
<1>10. i + 1 \in 1..Length(v) + 1 /\ Through(v, i + 1, upgrade'.parts, faults)
  <2>1. Through(v, i, upgrade'.parts, faults)
    BY <1>7, <1>9 DEF Through
  <2> QED BY <1>1, <1>2, <1>9, <2>1, OnNext
<1>11. Within(v, i + 1, versions, parts, upgrade')
  BY <1>2, <1>3, <1>4, <1>7, <1>9 DEF Within
<1>12. On(p, p, v, i + 1, since[p], versions, parts, upgrade', faults)
  BY <1>5, <1>10, <1>11 DEF On
<1> QED BY <1>0, <1>1, <1>8, <1>12, Jumps DEF LiteInv

LEMMA CommitGoesOn == ASSUME LiteAssumed, LiteInv, NEW p \in Processes, Lite!Commit(p) PROVE LiteInv'
<1>0. /\ Nobody \notin Processes /\ state[p] = "upgrading" /\ IsOn(p) /\ Lite!Jump(p, 1)
      /\ UNCHANGED <<faults, state, since, why>>
  BY DEF LiteAssumed, Lite!ProcessesAssumption, Lite!Upgrading, LiteInv, Lite!Commit, Lite!Quiet
<1>1. PICK v, i : v = place[p][1] /\ i = place[p][2]
  OBVIOUS
<1>2. v \in 1..9 /\ i \in 1..Length(v) /\ Op(v, i) = "commit"
  BY <1>0, <1>1, AtStatement DEF Lite!Commit
<1>3. v < 4 /\ ~Made(v, i)
  BY <1>2, AllRegular DEF Regular, Made
<1>4. On(p, writer, v, i, since[p], versions, parts, upgrade, faults)
  BY <1>0, <1>1 DEF IsOn
<1>5. CASE writer = p
  <2>1. Within(v, i, versions, parts, upgrade) /\ Through(v, i, upgrade.parts, faults)
    BY <1>4, <1>5 DEF On
  <2>2. versions' = versions /\ parts' = upgrade.parts /\ writer' = Nobody
    BY <1>5, <2>1 DEF Lite!Commit, Lite!InTransaction, Lite!Store, Lite!Finished, Within
  <2>3. LiteSound(versions, parts', faults)
    <3>1. \A w \in 7..9 : Late(w) \notin Lite!PartsOf(v)
      BY <1>2, <1>3, LateIsOwn
    <3> QED BY <2>1, <2>2, <3>1 DEF LiteInv, LiteSound, WholeOf, Within
  <2>4. i + 1 \in 1..Length(v) + 1 /\ Through(v, i + 1, parts', faults)
    BY <1>2, <1>3, <2>1, <2>2, OnNext
  <2>5. On(p, Nobody, v, i + 1, since[p], versions, parts', upgrade', faults)
    BY <1>0, <1>3, <1>4, <2>4 DEF On
  <2>6. parts \subseteq parts'
    BY <2>1, <2>2 DEF Within
  <2> QED BY <1>0, <1>1, <1>5, <2>2, <2>3, <2>5, <2>6, Jumps
<1>6. CASE writer # p
  <2>1. UNCHANGED <<versions, parts, writer, upgrade>>
    BY <1>6 DEF Lite!Commit, Lite!InTransaction
  <2>2. Through(v, i, parts, faults)
    BY <1>4, <1>6 DEF On
  <2>3. i + 1 \in 1..Length(v) + 1 /\ Through(v, i + 1, parts, faults)
    BY <1>2, <1>3, <2>2, OnNext
  <2>4. On(p, writer', v, i + 1, since[p], versions, parts', upgrade', faults)
    BY <1>3, <1>4, <1>6, <2>1, <2>3 DEF On
  <2> QED BY <1>0, <1>1, <2>1, <2>4, Jumps DEF LiteInv, LiteType
<1> QED BY <1>5, <1>6

LEMMA BeginGoesOn == ASSUME LiteAssumed, LiteInv, NEW p \in Processes, Lite!Begin(p) PROVE LiteInv'
<1>0. /\ Nobody \notin Processes /\ state[p] = "upgrading" /\ IsOn(p) /\ Lite!Jump(p, 1)
      /\ UNCHANGED <<versions, parts, faults, state, since, why>>
  BY DEF LiteAssumed, Lite!ProcessesAssumption, Lite!Upgrading, LiteInv, Lite!Begin, Lite!Quiet,
         Lite!Uncommitted
<1>1. PICK v, i : v = place[p][1] /\ i = place[p][2]
  OBVIOUS
<1>2. v \in 1..9 /\ i \in 1..Length(v) /\ Op(v, i) = "begin"
  BY <1>0, <1>1, AtStatement DEF Lite!Begin
<1>3. i = 1 /\ v >= 4 /\ ~Made(v, i)
  BY <1>2, AllRegular DEF Regular, Made
<1>4. On(p, writer, v, i, since[p], versions, parts, upgrade, faults)
  BY <1>0, <1>1 DEF IsOn
<1>5. writer # p /\ Through(v, i, parts, faults)
  BY <1>3, <1>4 DEF On, Within
<1>6. /\ writer \in {p, Nobody} /\ writer' = p
      /\ upgrade' = [versions |-> versions, parts |-> parts]
  BY <1>5 DEF Lite!Begin, Lite!Reserved, Lite!Reserve, Lite!Free, Lite!Seen, Lite!InTransaction
<1>7. i + 1 \in 1..Length(v) + 1 /\ Through(v, i + 1, upgrade'.parts, faults)
  BY <1>2, <1>3, <1>5, <1>6, OnNext
<1>8. Within(v, i + 1, versions, parts, upgrade')
  BY <1>3, <1>6 DEF Within
<1>9. On(p, p, v, i + 1, since[p], versions, parts, upgrade', faults)
  BY <1>4, <1>7, <1>8 DEF On
<1> QED BY <1>0, <1>1, <1>6, <1>9, Jumps DEF LiteInv

LEMMA RecheckGoesOn == ASSUME LiteAssumed, LiteInv, NEW p \in Processes, Lite!Recheck(p) PROVE LiteInv'
<1>0. /\ Nobody \notin Processes /\ state[p] = "upgrading" /\ IsOn(p)
      /\ UNCHANGED <<versions, parts, faults, since, why>>
  BY DEF LiteAssumed, Lite!ProcessesAssumption, Lite!Upgrading, LiteInv, Lite!Recheck, Lite!Quiet,
         Lite!Uncommitted
<1>1. PICK v, i : v = place[p][1] /\ i = place[p][2]
  OBVIOUS
<1>2. v \in 1..9 /\ i \in 1..Length(v) /\ Op(v, i) = "recheck" /\ Length(v) \in Nat
  BY <1>0, <1>1, AtStatement, AllRegular DEF Lite!Recheck
<1>3. i = 2 /\ v >= 7 /\ ~Made(v, i)
  BY <1>2, AllRegular DEF Regular, Made
<1>4. On(p, writer, v, i, since[p], versions, parts, upgrade, faults)
  BY <1>0, <1>1 DEF IsOn
<1>5. /\ writer = p /\ Within(v, i, versions, parts, upgrade)
      /\ Through(v, i, upgrade.parts, faults)
  BY <1>2, <1>3, <1>4 DEF On
<1>6. PICK n \in 0..9 : versions = 1..n
  BY DEF LiteInv, LiteSound
<1>7. Lite!AlreadyDone(p) <=> n >= v
  <2>1. Lite!Seen(p) = upgrade /\ upgrade.versions = 1..n
    BY <1>5, <1>6 DEF Lite!Seen, Lite!InTransaction, Within
  <2> QED BY <1>1, <2>1, CurrentIs DEF Lite!AlreadyDone, Lite!Version
<1>8. CASE n >= v
  <2>1. writer' = Nobody /\ Lite!Advance(p)
    BY <1>7, <1>8 DEF Lite!Recheck, Lite!Finished
  <2>2. 1..v \subseteq versions
    BY <1>2, <1>6, <1>8
  <2>3. LiteSound(versions', parts', faults')
    BY <1>0 DEF LiteInv
  <2> QED BY <1>0, <1>1, <1>5, <2>1, <2>2, <2>3, Advances
<1>9. CASE ~(n >= v)
  <2>1. UNCHANGED <<writer, upgrade, state>> /\ Lite!Jump(p, 1)
    BY <1>7, <1>9 DEF Lite!Recheck
  <2>2. i + 1 \in 1..Length(v) + 1 /\ Through(v, i + 1, upgrade.parts, faults)
    BY <1>2, <1>3, <1>5, OnNext
  <2>3. Within(v, i + 1, versions, parts, upgrade)
    BY <1>2, <1>3, <1>5, <1>6, <1>9 DEF Within
  <2>4. On(p, p, v, i + 1, since[p], versions, parts, upgrade, faults)
    BY <1>4, <2>2, <2>3 DEF On
  <2> QED BY <1>0, <1>1, <1>5, <2>1, <2>4, Jumps DEF LiteInv
<1> QED BY <1>8, <1>9

(* A statement that makes nothing: what holds where it stands, holds next. *)
LEMMA OnPasses ==
  ASSUME NEW p, NEW w, NEW v, NEW i \in 1..Length(v), NEW n, NEW vs, NEW ps, NEW d, NEW fs,
         On(p, w, v, i, n, vs, ps, d, fs), Op(v, i) \in {"look", "validate"},
         Op(v, i) = "validate" => Part(v, i) \notin fs
  PROVE On(p, w, v, i + 1, n, vs, ps, d, fs)
<1>1. v \in 1..9
  BY DEF On
<1>2. Regular(v, i) /\ Length(v) \in Nat /\ ~Made(v, i)
  BY <1>1, AllRegular DEF Made
<1>3. i # 1 \/ v < 4
  BY <1>1, <1>2 DEF Regular
<1>4. CASE w = p
  <2>1. Within(v, i, vs, ps, d) /\ Through(v, i, d.parts, fs)
    BY <1>4 DEF On
  <2>2. i + 1 \in 1..Length(v) + 1 /\ Through(v, i + 1, d.parts, fs)
    BY <1>1, <1>2, <2>1, OnNext
  <2>3. v >= 7 => i >= 3
    BY <1>1, <1>2, <1>3 DEF Regular
  <2>4. Within(v, i + 1, vs, ps, d)
    BY <1>1, <1>2, <2>1, <2>3 DEF Within
  <2> QED BY <1>4, <2>2, <2>4 DEF On
<1>5. CASE w # p
  <2>1. v < 4 /\ Through(v, i, ps, fs)
    BY <1>1, <1>3, <1>5 DEF On
  <2>2. i + 1 \in 1..Length(v) + 1 /\ Through(v, i + 1, ps, fs)
    BY <1>1, <1>2, <2>1, OnNext
  <2> QED BY <1>5, <2>1, <2>2 DEF On
<1> QED BY <1>4, <1>5

LEMMA ValidateGoesOn == ASSUME LiteAssumed, LiteInv, NEW p \in Processes, Lite!Validate(p) PROVE LiteInv'
<1>0. /\ state[p] = "upgrading" /\ IsOn(p) /\ Lite!Jump(p, 1)
      /\ UNCHANGED <<versions, parts, writer, upgrade, faults, state, since, why>>
  BY DEF Lite!Upgrading, LiteInv, Lite!Validate, Lite!Quiet
<1>1. PICK v, i : v = place[p][1] /\ i = place[p][2]
  OBVIOUS
<1>2. i \in 1..Length(v) /\ Op(v, i) = "validate" /\ Part(v, i) \notin faults
  BY <1>0, <1>1, AtStatement DEF Lite!Validate
<1>3. On(p, writer, v, i + 1, since[p], versions, parts, upgrade, faults)
  BY <1>0, <1>1, <1>2, OnPasses DEF IsOn
<1> QED BY <1>0, <1>1, <1>3, Jumps DEF LiteInv, LiteType

LEMMA LookGoesOn == ASSUME LiteAssumed, LiteInv, NEW p \in Processes, Lite!Look(p) PROVE LiteInv'
<1>0. /\ state[p] = "upgrading" /\ IsOn(p)
      /\ UNCHANGED <<versions, parts, writer, upgrade, faults, state, since, why>>
  BY DEF Lite!Upgrading, LiteInv, Lite!Look, Lite!Quiet
<1>1. PICK v, i : v = place[p][1] /\ i = place[p][2]
  OBVIOUS
<1>2. /\ v \in 1..9 /\ i \in 1..Length(v) /\ Op(v, i) = "look" /\ Length(v) \in Nat
      /\ Lite!Statement(p).part = Part(v, i)
  BY <1>0, <1>1, AtStatement, AllRegular DEF Lite!Look
<1>3. On(p, writer, v, i + 1, since[p], versions, parts, upgrade, faults)
  BY <1>0, <1>1, <1>2, OnPasses DEF IsOn
<1>4. CASE Lite!Jump(p, 1)
  BY <1>0, <1>1, <1>3, <1>4, Jumps DEF LiteInv, LiteType
<1>5. CASE Part(v, i) \in Lite!Seen(p).parts /\ Lite!Jump(p, 2)
  <2>1. /\ i + 1 \in 1..Length(v) /\ Part(v, i + 1) = Part(v, i) /\ Op(v, i + 1) # "validate"
        /\ v < 4
    BY <1>2, AllRegular DEF Regular
  <2>2. (i + 1) + 1 = i + 2
    BY <1>2
  <2>3. CASE writer = p
    <3>1. Within(v, i + 1, versions, parts, upgrade) /\ Through(v, i + 1, upgrade.parts, faults)
      BY <1>3, <2>3 DEF On
    <3>2. i + 2 \in 1..Length(v) + 1 /\ Through(v, i + 2, upgrade.parts, faults)
      BY <1>2, <1>5, <2>1, <2>2, <2>3, <3>1, OnNext DEF Lite!Seen, Lite!InTransaction
    <3>3. Within(v, i + 2, versions, parts, upgrade)
      BY <1>2, <2>1, <3>1 DEF Within
    <3>4. On(p, writer, v, i + 2, since[p], versions, parts, upgrade, faults)
      BY <1>3, <2>3, <3>2, <3>3 DEF On
    <3> QED BY <1>0, <1>1, <1>5, <3>4, Jumps DEF LiteInv, LiteType
  <2>4. CASE writer # p
    <3>1. Through(v, i + 1, parts, faults)
      BY <1>3, <2>4 DEF On
    <3>2. i + 2 \in 1..Length(v) + 1 /\ Through(v, i + 2, parts, faults)
      BY <1>2, <1>5, <2>1, <2>2, <2>4, <3>1, OnNext DEF Lite!Seen, Lite!InTransaction
    <3>3. On(p, writer, v, i + 2, since[p], versions, parts, upgrade, faults)
      BY <1>3, <2>1, <2>4, <3>2 DEF On
    <3> QED BY <1>0, <1>1, <1>5, <3>3, Jumps DEF LiteInv, LiteType
  <2> QED BY <2>3, <2>4
<1> QED BY <1>2, <1>4, <1>5 DEF Lite!Look, Lite!Found, Lite!SkipAdding

(* The row of a version is written by the process that has made all of it. *)
LEMMA Writes ==
  ASSUME LiteAssumed, LiteInv, NEW p \in Processes, Lite!WriteVersion(p)
  PROVE LET v == place[p][1] IN
        /\ state[p] = "upgrading" /\ writer \in {p, Nobody}
        /\ v \in 1..9 /\ versions = 1..(v - 1) /\ versions' = 1..v
        /\ parts' = parts \cup Lite!PartsOf(v) /\ WholeOf(v, parts', faults)
<1>0. state[p] = "upgrading" /\ IsOn(p) /\ writer \in {p, Nobody}
  BY DEF Lite!Upgrading, LiteInv, Lite!WriteVersion, Lite!Free
<1>1. PICK v : v = place[p][1]
  OBVIOUS
<1>2. v \in 1..9 /\ place[p][2] = Length(v) + 1 /\ Length(v) \in Nat
  BY <1>0, <1>1, AtStatement, AllRegular DEF Lite!WriteVersion
<1>3. On(p, writer, v, Length(v) + 1, since[p], versions, parts, upgrade, faults)
  BY <1>0, <1>1, <1>2 DEF IsOn
<1>4. PICK n \in 0..9 : versions = 1..n
  BY DEF LiteInv, LiteSound
<1>5. PICK d : d = Lite!Seen(p)
  OBVIOUS
<1>6. /\ d.versions = versions /\ parts \subseteq d.parts /\ Through(v, Length(v) + 1, d.parts, faults)
      /\ d.parts \subseteq parts \cup Lite!PartsOf(v)
      /\ d = [versions |-> versions, parts |-> d.parts]
  BY <1>3, <1>5 DEF On, Within, Lite!Seen, Lite!InTransaction
<1>7. WholeOf(v, d.parts, faults)
  BY <1>2, <1>6, Completed
<1>8. v \notin versions /\ versions' = versions \cup {v} /\ parts' = d.parts
  BY <1>1, <1>5, <1>6 DEF Lite!WriteVersion, Lite!Version, Lite!Store
<1>9. n = v - 1
  <2>1. 1..(v - 1) \subseteq 1..n /\ v \notin 1..n
    BY <1>3, <1>4, <1>8 DEF On
  <2>2. v - 1 >= 1 => v - 1 \in 1..n
    BY <1>2, <2>1
  <2> QED BY <1>2, <2>1, <2>2
<1>10. versions' = 1..v
  BY <1>2, <1>4, <1>8, <1>9
<1>11. parts' = parts \cup Lite!PartsOf(v)
  BY <1>6, <1>7, <1>8 DEF WholeOf
<1> QED BY <1>0, <1>1, <1>2, <1>4, <1>7, <1>8, <1>9, <1>10, <1>11

LEMMA WriteGoesOn == ASSUME LiteAssumed, LiteInv, NEW p \in Processes, Lite!WriteVersion(p) PROVE LiteInv'
<1>1. /\ Lite!Advance(p) /\ writer' = Nobody
      /\ UNCHANGED <<faults, since, why>>
  BY DEF Lite!WriteVersion, Lite!Finished, Lite!Quiet
<1>2. PICK v \in 1..9 :
        /\ v = place[p][1] /\ state[p] = "upgrading" /\ writer \in {p, Nobody}
        /\ versions = 1..(v - 1) /\ versions' = 1..v
        /\ parts' = parts \cup Lite!PartsOf(v) /\ WholeOf(v, parts', faults)
  BY Writes
<1>3. versions \subseteq versions' /\ \A w \in versions' : w \in versions \/ w = v
  BY <1>2
<1>4. LiteSound(versions', parts', faults')
  <2>1. v \in 0..9 /\ v \in versions'
    BY <1>2
  <2>2. \A w \in versions' : WholeOf(w, parts', faults')
    BY <1>1, <1>2, <1>3 DEF LiteInv, LiteSound, WholeOf
  <2>3. \A w \in 7..9 : Late(w) \in parts' => w \in versions'
    BY <1>2, <1>3, <2>1, LateIsOwn DEF LiteInv, LiteSound
  <2> QED BY <1>2, <2>1, <2>2, <2>3 DEF LiteSound
<1> QED BY <1>1, <1>2, <1>3, <1>4, Advances

(* What is there already stops only a process that found an old version.   *)
LEMMA ExistsEnds == ASSUME LiteAssumed, LiteInv, NEW p \in Processes, Lite!Exists(p) PROVE LiteInv'
<1>0. state[p] = "upgrading" /\ IsOn(p)
  BY DEF Lite!Upgrading, LiteInv, Lite!Exists
<1>1. PICK v, i : v = place[p][1] /\ i = place[p][2]
  OBVIOUS
<1>2. /\ On(p, writer, v, i, since[p], versions, parts, upgrade, faults) /\ v \in 1..9
      /\ i \in 1..Length(v) + 1 /\ Length(v) \in 1..10
  BY <1>0, <1>1, AllRegular DEF IsOn, On
<1>3. ~(since[p] >= 6)
  <2> SUFFICES ASSUME since[p] >= 6 PROVE FALSE
    OBVIOUS
  <2>1. v >= 7
    BY <1>2 DEF On, LiteInv, LiteType
  <2>2. i >= 3
    <3>1. i # 1 /\ i # 2
      <4>1. CASE i \in 1..Length(v)
        <5>1. Op(v, i) \in {"add", "insert"}
          <6>1. \/ \E op \in {"add", "insert"} : Lite!Upgrading(p, op)
                \/ Lite!Upgrading(p, "version")
            BY DEF Lite!Exists
          <6>2. ~Lite!Upgrading(p, "version")
            BY <1>0, <1>1, <1>2, <4>1, AtStatement
          <6> QED BY <1>0, <1>1, <6>1, <6>2, AtStatement
        <5> QED BY <1>2, <2>1, <4>1, <5>1, AllRegular DEF Regular
      <4>2. CASE i \notin 1..Length(v)
        <5>1. i = Length(v) + 1 /\ Length(v) \in Int /\ Length(v) >= 2
          <6>1. v = 7 \/ v = 8 \/ v = 9
            BY <1>2, <2>1
          <6>2. Length(7) = 3 /\ Length(8) = 4 /\ Length(9) = 3
            BY Program7, Program8, Program9 DEF Length
          <6>3. Length(v) \in Int /\ Length(v) >= 2
            BY <6>1, <6>2
          <6>4. \A m \in Int : i \in 1..m + 1 /\ i \notin 1..m => i = m + 1
            BY <1>2
          <6> QED BY <1>2, <4>2, <6>3, <6>4
        <5> QED BY <5>1
      <4> QED BY <4>1, <4>2
    <3> QED BY <1>2, <3>1
  <2>3. writer = p /\ Within(v, i, versions, parts, upgrade) /\ v \notin versions
    BY <1>2, <2>1, <2>2 DEF On, Within
  <2>4. Lite!Seen(p) = upgrade /\ upgrade.versions = versions
    BY <2>3 DEF Within, Lite!Seen, Lite!InTransaction
  <2>5. ASSUME NEW op \in {"add", "insert"}, Lite!Upgrading(p, op),
               Lite!Statement(p).part \in Lite!Seen(p).parts
        PROVE FALSE
    <3>1. i \in 1..Length(v) /\ Op(v, i) = op /\ Lite!Statement(p).part = Part(v, i)
      BY <1>0, <1>1, <2>5, AtStatement
    <3>2. Part(v, i) = Late(v)
      BY <1>2, <2>1, <3>1, AllRegular DEF Regular
    <3>3. upgrade.parts = parts
      BY <1>2, <2>1, <2>3, <3>1 DEF Within
    <3> QED BY <1>2, <2>1, <2>3, <2>4, <2>5, <3>1, <3>2, <3>3 DEF LiteInv, LiteSound
  <2>6. ~(Lite!Version(p) \in Lite!Seen(p).versions)
    BY <1>1, <2>3, <2>4 DEF Lite!Version
  <2> QED BY <2>5, <2>6 DEF Lite!Exists
<1> QED BY <1>3, FailEnds DEF Lite!Exists

LEMMA LiteSteps == ASSUME LiteAssumed, LiteInv, [Lite!Next]_(Lite!vars) PROVE LiteInv'
<1>1. CASE UNCHANGED Lite!vars
  BY <1>1 DEF Lite!vars, LiteInv, LiteType, IsOn, Lite!StartsTogether
<1>2. ASSUME NEW p \in Processes, Lite!Step(p) PROVE LiteInv'
  <2>1. CASE Lite!Ensure(p)
    BY <2>1, DefineGoesOn DEF Lite!Ensure, Lite!Quiet
  <2>2. CASE Lite!Add(p)
    BY <2>2, DefineGoesOn DEF Lite!Add, Lite!Quiet
  <2>3. CASE Lite!Invalid(p)
    BY <2>3, FailEnds DEF Lite!Invalid
  <2> QED BY <1>2, <2>1, <2>2, <2>3, LookGoesOn, ChangeGoesOn, CommitGoesOn, BeginGoesOn,
             RecheckGoesOn, ValidateGoesOn, WriteGoesOn, ExistsEnds DEF Lite!Step
<1>3. ASSUME NEW p \in Processes, Lite!Busy(p) PROVE LiteInv'
  BY <1>3, FailEnds DEF Lite!Busy
<1>4. ASSUME NEW p \in Processes, Lite!Error(p) PROVE LiteInv'
  BY <1>4, FailEnds DEF Lite!Error
<1>5. CASE Lite!Repair
  <2>1. /\ faults' = {} /\ UNCHANGED <<versions, parts, writer, upgrade, state, place, since, why>>
    BY <1>5 DEF Lite!Repair
  <2>2. LiteSound(versions', parts', faults') /\ LiteType' /\ Lite!StartsTogether'
    BY <2>1 DEF LiteInv, LiteType, LiteSound, WholeOf, Lite!StartsTogether
  <2>3. \A p \in Processes : state[p] = "upgrading" => IsOn(p)'
    BY <2>1, OnKeeps DEF LiteInv, IsOn
  <2> QED BY <2>1, <2>2, <2>3 DEF LiteInv
<1> QED BY <1>1, <1>2, <1>3, <1>4, <1>5, StartGoesOn, CrashEnds DEF Lite!Next

LEMMA LiteInvariance == ASSUME LiteAssumed PROVE Lite!Spec => []LiteInv
<1>1. Lite!Init => LiteInv
  BY LiteFirst
<1>2. LiteInv /\ [Lite!Next]_(Lite!vars) => LiteInv'
  BY LiteSteps
<1> QED BY <1>1, <1>2, PTL DEF Lite!Spec

(* A version that is recorded has all that belongs to it, whichever        *)
(* version was found and whoever died or failed in between; processes that *)
(* start together on version 6 or later never stop one another (migrate);  *)
(* and on PostgreSQL processes with different settings never run on one    *)
(* database, whoever made it (PostgresDatabase.__init__).                  *)
THEOREM SchemaHolds == Lite!Spec /\ Postgres!Spec => []SchemaIsSound
<1>1. LiteInv => Lite!SchemaIsSound
  BY DEF LiteInv, LiteSound, WholeOf, Lite!VersionsTellSchema, Lite!LATEST_SCHEMA_VERSION,
         Lite!SchemaIsSound
<1>2. (Lite!Spec => []LiteInv) /\ (Postgres!Spec => []Postgres!UpIsAtHome)
  BY LiteIsAssumed, PgIsAssumed, LiteInvariance, SettingsAgree
<1>3. Lite!SchemaIsSound /\ Postgres!UpIsAtHome => SchemaIsSound
  BY DEF SchemaIsSound
<1> QED BY <1>1, <1>2, <1>3, PTL

(* On a database of version 3 or later every process is in a transaction   *)
(* whenever it changes anything.                                           *)
Later == 3 \in versions /\ \A p \in Processes : state[p] = "upgrading" => place[p][1] >= 4

(* Every step of one is a step of the promise or a stutter.                *)
LEMMA OnlyVersionsShow ==
  ASSUME LiteAssumed, LiteInv, Later, NEW p \in Processes, Lite!Step(p), ~Lite!WriteVersion(p)
  PROVE UNCHANGED <<versions, parts>>
<1>0. state[p] = "upgrading" /\ IsOn(p) /\ place[p][1] >= 4
  BY DEF Lite!Step, Lite!Ensure, Lite!Look, Lite!Add, Lite!Change, Lite!Commit, Lite!Begin,
         Lite!Recheck, Lite!Validate, Lite!Exists, Lite!Invalid, Lite!Upgrading, LiteInv, Later
<1>1. PICK v, i : v = place[p][1] /\ i = place[p][2]
  OBVIOUS
<1>2. v \in 1..9 /\ v >= 4
  BY <1>0, <1>1 DEF IsOn, On
<1>3. ASSUME NEW op, Lite!Upgrading(p, op), op # "version"
      PROVE op \in {"begin", "recheck", "validate", "add"} /\ (op # "begin" => writer = p)
  <2>1. i \in 1..Length(v) /\ Op(v, i) = op
    BY <1>0, <1>1, <1>3, AtStatement
  <2>2. Regular(v, i)
    BY <1>2, <2>1, AllRegular
  <2>3. i # 1 => writer = p
    BY <1>0, <1>1, <1>2 DEF IsOn, On
  <2> QED BY <1>2, <2>1, <2>2, <2>3 DEF Regular
<1>4. CASE Lite!Add(p)
  <2>1. writer = p
    BY <1>3, <1>4 DEF Lite!Add
  <2> QED BY <1>4, <2>1 DEF Lite!Add, Lite!Define, Lite!InTransaction, Lite!Uncommitted
<1>5. ~Lite!Ensure(p) /\ ~Lite!Commit(p)
  BY <1>3 DEF Lite!Ensure, Lite!Commit
<1> QED BY <1>4, <1>5 DEF Lite!Step, Lite!Look, Lite!Change, Lite!Begin, Lite!Recheck, Lite!Validate,
                      Lite!Exists, Lite!Invalid, Lite!Fail, Lite!RolledBack, Lite!Uncommitted

LEMMA LaterStays == ASSUME LiteAssumed, LiteInv, Later, [Lite!Next]_(Lite!vars) PROVE Later'
<1>0. LiteType /\ LiteInv'
  BY LiteSteps DEF LiteInv
<1>1. ASSUME NEW p \in Processes, Lite!Jump(p, 1) \/ Lite!Jump(p, 2), UNCHANGED <<versions, state>>
      PROVE Later'
  BY <1>0, <1>1 DEF Lite!Jump, Later, LiteType
<1>2. ASSUME NEW p \in Processes, state[p] = "upgrading", Lite!Advance(p), versions \subseteq versions'
      PROVE Later'
  <2>1. place[p][1] \in 1..9
    BY <1>2 DEF LiteInv, IsOn, On
  <2> QED BY <1>0, <1>2, <2>1 DEF Lite!Advance, Lite!Version, Later, LiteType
<1>3. ASSUME NEW p \in Processes, state' = [state EXCEPT ![p] = "down"], UNCHANGED <<versions, place>>
      PROVE Later'
  BY <1>0, <1>3 DEF Later, LiteType
<1>4. ASSUME NEW p \in Processes, NEW reason, Lite!Fail(p, reason) PROVE Later'
  BY <1>3, <1>4 DEF Lite!Fail, Lite!RolledBack, Lite!Uncommitted
<1>5. ASSUME NEW p \in Processes, Lite!Start(p) PROVE Later'
  <2>1. writer # p
    BY <1>5 DEF LiteInv, Lite!Start
  <2>2. PICK n \in 0..9 : versions = 1..n
    BY DEF LiteInv, LiteSound
  <2>3. Lite!Current(Lite!Seen(p)) = n
    BY <2>1, <2>2, CurrentIs DEF Lite!Seen, Lite!InTransaction
  <2>4. n >= 3
    BY <2>2 DEF Later
  <2>5. /\ state' = [state EXCEPT ![p] = IF n = 9 THEN "up" ELSE "upgrading"]
        /\ place' = [place EXCEPT ![p] = IF n = 9 THEN <<n, 1>> ELSE <<n + 1, 1>>]
        /\ versions' = versions
    BY <1>5, <2>3 DEF Lite!Start, Lite!LATEST_SCHEMA_VERSION
  <2> QED BY <1>0, <2>4, <2>5 DEF Later, LiteType
<1>6. ASSUME NEW p \in Processes, Lite!WriteVersion(p) PROVE Later'
  <2>1. /\ state[p] = "upgrading" /\ versions \subseteq versions'
    BY <1>6, Writes
  <2> QED BY <1>2, <1>6, <2>1 DEF Lite!WriteVersion
<1>7. ASSUME NEW p \in Processes, Lite!Step(p), ~Lite!WriteVersion(p) PROVE Later'
  <2>1. UNCHANGED versions
    BY <1>7, OnlyVersionsShow
  <2>2. CASE Lite!Recheck(p)
    BY <1>1, <1>2, <2>1, <2>2 DEF Lite!Recheck, Lite!Upgrading
  <2>3. CASE Lite!Exists(p) \/ Lite!Invalid(p)
    BY <1>4, <2>3 DEF Lite!Exists, Lite!Invalid
  <2>4. CASE Lite!Look(p)
    BY <1>1, <2>1, <2>4 DEF Lite!Look, Lite!Found, Lite!SkipAdding
  <2> QED BY <1>1, <1>7, <2>1, <2>2, <2>3, <2>4
        DEF Lite!Step, Lite!Ensure, Lite!Add, Lite!Change, Lite!Commit, Lite!Begin, Lite!Validate
<1>8. CASE UNCHANGED Lite!vars \/ Lite!Repair
  BY <1>8 DEF Lite!vars, Lite!Repair, Later
<1>9. ASSUME NEW p \in Processes, Lite!Crash(p) PROVE Later'
  BY <1>3, <1>9 DEF Lite!Crash, Lite!Uncommitted
<1> QED BY <1>4, <1>5, <1>6, <1>7, <1>8, <1>9 DEF Lite!Next, Lite!Busy, Lite!Error

LEMMA LiteUpgradesAtOnce ==
  ASSUME LiteAssumed, FirstVersion >= 3 PROVE Lite!Spec => Lite!UpgradesAtOnce
<1>0. FirstVersion \in 3..9
  BY DEF LiteAssumed, Lite!VersionAssumption
<1>1. Lite!Init => Lite!Promise!Init
  <2> SUFFICES ASSUME Lite!Init PROVE Lite!Promise!Init
    OBVIOUS
  <2>1. versions = 1..FirstVersion /\ parts = UNION {Lite!PartsOf(v) : v \in versions}
    BY DEF Lite!Init
  <2>2. FirstVersion \in 0..9
    BY <1>0
  <2> QED BY <2>1, <2>2 DEF Lite!Promise!Init, Lite!LATEST_SCHEMA_VERSION
<1>2. Lite!Init => Later
  BY <1>0 DEF Lite!Init, Later
<1>3. LiteInv /\ Later /\ [Lite!Next]_(Lite!vars) => Later'
  BY LaterStays
<1>4. LiteInv /\ Later /\ [Lite!Next]_(Lite!vars) => [Lite!Promise!Next]_<<versions, parts>>
  <2> SUFFICES ASSUME LiteInv, Later, Lite!Next, ~UNCHANGED <<versions, parts>>
               PROVE Lite!Promise!Next
    BY DEF Lite!vars
  <2>1. PICK p \in Processes : Lite!WriteVersion(p)
    <3>1. ASSUME NEW q \in Processes, Lite!Start(q) \/ Lite!Busy(q) \/ Lite!Crash(q) \/ Lite!Error(q)
          PROVE FALSE
      BY <3>1 DEF Lite!Start, Lite!Busy, Lite!Crash, Lite!Error, Lite!Fail, Lite!RolledBack, Lite!Uncommitted
    <3> QED BY <3>1, OnlyVersionsShow DEF Lite!Next, Lite!Repair
  <2>2. PICK v \in 1..9 : /\ versions = 1..(v - 1) /\ versions' = 1..v
                          /\ parts' = parts \cup Lite!PartsOf(v)
    BY <2>1, Writes
  <2>3. versions \subseteq 1..v /\ v \notin versions /\ versions' \ versions = {v}
    BY <2>2
  <2>4. Lite!Promise!Upgrade(v)
    BY <2>2, <2>3 DEF Lite!Promise!Upgrade, Lite!LATEST_SCHEMA_VERSION
  <2> QED BY <2>4 DEF Lite!Promise!Next, Lite!LATEST_SCHEMA_VERSION
<1> QED BY <1>1, <1>2, <1>3, <1>4, LiteInvariance, PTL
        DEF Lite!Spec, Lite!UpgradesAtOnce, Lite!Promise!Spec

(* An upgrade from version 3 on, and any on PostgreSQL, is all or nothing: *)
(* others see one version after another, each whole (UpgradePromise).  The *)
(* property hides the upgrades from before version 3; here none is hidden. *)
THEOREM AllOrNothing ==
  ASSUME FirstVersion >= 3
  PROVE Lite!Spec /\ Postgres!Spec /\ []~Hidden => UpgradesAtOnce
<1>1. Lite!Spec => Lite!Promise!Init /\ [][Lite!Promise!Next]_<<versions, parts>>
  BY LiteIsAssumed, LiteUpgradesAtOnce DEF Lite!UpgradesAtOnce, Lite!Promise!Spec
<1>2. Postgres!Spec => Postgres!UpgradesAtOnce
  BY PgIsAssumed, PgUpgradesAtOnce
<1>3. ~Hidden => Shown(versions) = versions /\ Shown(parts) = parts
  BY DEF Shown
<1>4. ~Hidden /\ Lite!Promise!Init => Promise!Init
  BY <1>3 DEF Promise!Init, Lite!Promise!Init
<1>5. ~Hidden /\ ~Hidden' /\ [Lite!Promise!Next]_<<versions, parts>>
        => [Promise!Next]_<<Shown(versions), Shown(parts)>>
  BY DEF Shown, Promise!Next, Promise!Upgrade, Lite!Promise!Next, Lite!Promise!Upgrade
<1> QED BY <1>1, <1>2, <1>4, <1>5, PTL DEF UpgradesAtOnce, Promise!Spec
=============================================================================
