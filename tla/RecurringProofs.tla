-------------------------- MODULE RecurringProofs --------------------------
(***************************************************************************)
(* Proofs about Recurring: for any number of processes, schedules,         *)
(* accounts and users, and with no bound on days, edits or faults.         *)
(***************************************************************************)
EXTENDS Recurring, SequenceTheorems, FiniteSetTheorems, TLAPS

-----------------------------------------------------------------------------
(* Ledgers                                                                 *)

(* Appending an entry whose occurrence is not claimed keeps entries        *)
(* distinct and claims matched (the claim in process_due).                 *)
LEMMA AppendKeepsMatch ==
  ASSUME NEW C, NEW L \in Seq(Row), NEW r \in Row,
         Distinct(L), Match(C, L), OccurrenceOf(r) \notin C
  PROVE  Distinct(Append(L, r)) /\ Match(C \cup {OccurrenceOf(r)}, Append(L, r))
<1> DEFINE M == Append(L, r)
<1>1. /\ M \in Seq(Row) /\ Len(L) \in Nat /\ Len(M) = Len(L) + 1
      /\ \A i \in 1..Len(L) : M[i] = L[i]
      /\ M[Len(L) + 1] = r
  BY AppendProperties, LenProperties
<1>2. \A i \in 1..Len(L) : OccurrenceOf(L[i]) # OccurrenceOf(r)
  BY DEF Match
<1>3. Distinct(M)
  BY <1>1, <1>2 DEF Distinct
<1>4. {OccurrenceOf(M[i]) : i \in 1..Len(M)}
        = {OccurrenceOf(L[i]) : i \in 1..Len(L)} \cup {OccurrenceOf(r)}
  <2>1. ASSUME NEW i \in 1..Len(M)
        PROVE  OccurrenceOf(M[i]) \in
                 {OccurrenceOf(L[j]) : j \in 1..Len(L)} \cup {OccurrenceOf(r)}
    <3>1. CASE i = Len(L) + 1
      BY <1>1, <3>1
    <3>2. CASE i \in 1..Len(L)
      BY <1>1, <3>2
    <3> QED BY <1>1, <2>1, <3>1, <3>2
  <2>2. ASSUME NEW j \in 1..Len(L)
        PROVE  OccurrenceOf(L[j]) \in {OccurrenceOf(M[i]) : i \in 1..Len(M)}
    BY <1>1, <2>2
  <2>3. OccurrenceOf(r) \in {OccurrenceOf(M[i]) : i \in 1..Len(M)}
    BY <1>1
  <2> QED BY <2>1, <2>2, <2>3
<1> QED BY <1>3, <1>4 DEF Match

(* Deleting or restoring an entry changes neither (soft deletion).         *)
LEMMA MarkKeepsMatch ==
  ASSUME NEW C, NEW L \in Seq(Row), NEW n \in 1..Len(L), NEW b \in BOOLEAN,
         Distinct(L), Match(C, L)
  PROVE  LET M == [L EXCEPT ![n].deleted = b]
         IN /\ M \in Seq(Row) /\ Len(M) = Len(L)
            /\ Distinct(M) /\ Match(C, M)
<1> DEFINE M == [L EXCEPT ![n].deleted = b]
<1>1. L[n] \in Row
  BY ElementOfSeq
<1>2. [L[n] EXCEPT !.deleted = b] \in Row
  BY <1>1 DEF Row
<1>3. M = [L EXCEPT ![n] = [L[n] EXCEPT !.deleted = b]]
  OBVIOUS
<1>4. /\ M \in Seq(Row) /\ Len(M) = Len(L)
      /\ \A i \in 1..Len(L) : M[i] = IF i = n THEN [L[n] EXCEPT !.deleted = b] ELSE L[i]
  BY <1>2, <1>3, ExceptSeq
<1>5. OccurrenceOf([L[n] EXCEPT !.deleted = b]) = OccurrenceOf(L[n])
  BY <1>1 DEF Row, OccurrenceOf
<1>6. \A i \in 1..Len(L) : OccurrenceOf(M[i]) = OccurrenceOf(L[i])
  BY <1>4, <1>5
<1>7. Distinct(M)
  BY <1>4, <1>6 DEF Distinct
<1>8. Match(C, M)
  BY <1>4, <1>6 DEF Match
<1> QED BY <1>4, <1>7, <1>8

-----------------------------------------------------------------------------
(* Types                                                                   *)

LEMMA BetweenType ==
  ASSUME NEW pc \in {"idle", "pass"}, NEW t \in Nat,
         NEW L \in SUBSET (Nat \X Schedules), NEW Q \in SUBSET (Nat \X Schedules)
  PROVE  Between(pc, t, L, Q) \in Pass
<1>1. AnySchedule \in Schedules
  BY ScheduleAssumption DEF AnySchedule
<1> QED BY <1>1 DEF Between, Pass

LEMMA NoPassType == NoPass \in Pass
<1>1. {} \in SUBSET (Nat \X Schedules) /\ 0 \in Nat
  OBVIOUS
<1> QED BY <1>1, BetweenType DEF NoPass

LEMMA InitTypes == Init => TypeOK
<1> SUFFICES ASSUME Init PROVE TypeOK
  OBVIOUS
<1>1. Absent \in Schedule
  BY StepAssumption, AccountAssumption DEF Absent, Schedule
<1>2. schedule \in [Schedules -> Schedule]
  BY <1>1, BoundAssumption DEF Init, Schedule
<1>3. worker \in [Workers -> Pass]
  BY NoPassType DEF Init
<1>4. /\ ledger \in Seq(Row)
      /\ draft \in [claims : SUBSET (Schedules \X Nat), ledger : Seq(Row)]
  BY EmptySeq DEF Init, NoDraft
<1> QED BY <1>2, <1>3, <1>4 DEF Init, TypeOK

(* What a pass remembers of a listed schedule is a date and a schedule.    *)
LEMMA KeyedType ==
  ASSUME TypeOK, NEW S \in SUBSET Schedules, NEW n
  PROVE  Limit(Keyed(S), n) \in SUBSET (Nat \X Schedules)
  BY DEF TypeOK, Schedule, Limit, Keyed

(* One lemma for each step of a pass that changes more than its queue.     *)
LEMMA StartPassTypes ==
  ASSUME TypeOK, NEW w \in Workers, StartPass(w) PROVE TypeOK'
<1> DEFINE due == {s \in Schedules : IsDue(s, today) /\ userActive[OwnerOf(s)]}
<1>1. Limit(Keyed(due), ScheduleBatch) \in SUBSET (Nat \X Schedules)
  BY KeyedType
<1>2. Between("pass", today, Limit(Keyed(due), ScheduleBatch), {}) \in Pass
  <2>1. {} \in SUBSET (Nat \X Schedules) /\ today \in Nat
    BY DEF TypeOK
  <2> QED BY <1>1, <2>1, BetweenType
<1> QED BY <1>2 DEF StartPass, TypeOK, tables

LEMMA NextUserTypes ==
  ASSUME TypeOK, NEW w \in Workers, NEW p, NextUser(w, p) PROVE TypeOK'
<1> DEFINE group == {q \in worker[w].listing : OwnerOf(q[2]) = OwnerOf(p[2])}
           due == {s \in Schedules : IsDue(s, worker[w].through)
                                       /\ \E q \in group : q[2] = s}
<1>1. Limit(Keyed(due), ScheduleBatch) \in SUBSET (Nat \X Schedules)
  BY KeyedType
<1>2. /\ worker[w].through \in Nat
      /\ worker[w].listing \ group \in SUBSET (Nat \X Schedules)
  BY DEF TypeOK, Pass
<1>3. Between("pass", worker[w].through, worker[w].listing \ group,
              Limit(Keyed(due), ScheduleBatch)) \in Pass
  BY <1>1, <1>2, BetweenType
<1> QED BY <1>3 DEF NextUser, TypeOK, tables

LEMMA TakeTypes ==
  ASSUME TypeOK, NEW w \in Workers, NEW p \in worker[w].queue
  PROVE  /\ worker[w] \in Pass /\ p[1] \in Nat /\ p[2] \in Schedules
         /\ schedule[p[2]] \in Schedule
         /\ [worker[w] EXCEPT !.queue = @ \ {p}] \in Pass
<1>1. worker[w] \in Pass
  BY DEF TypeOK
<1>2. p \in Nat \X Schedules
  BY <1>1 DEF Pass
<1> QED BY <1>1, <1>2 DEF TypeOK, Pass

LEMMA BeginScheduleTypes ==
  ASSUME TypeOK, NEW w \in Workers, NEW p \in worker[w].queue, BeginSchedule(w, p)
  PROVE  TypeOK'
<1>1. [worker[w] EXCEPT !.pc = "txn", !.queue = worker[w].queue \ {p}, !.current = p[2],
         !.occurrence = StartAt(p), !.count = 0] \in Pass
  BY TakeTypes DEF Pass, Schedule, StartAt
<1>2. worker' \in [Workers -> Pass]
  BY <1>1 DEF BeginSchedule, TypeOK
<1>3. draft' \in [claims : SUBSET (Schedules \X Nat), ledger : Seq(Row)]
  BY DEF BeginSchedule, TypeOK
<1> QED BY <1>2, <1>3 DEF BeginSchedule, TypeOK, tables

LEMMA PostOccurrenceTypes ==
  ASSUME TypeOK, NEW w \in Workers, PostOccurrence(w) PROVE TypeOK'
<1>1. worker[w] \in Pass
  BY DEF TypeOK
<1>2. schedule[worker[w].current] \in Schedule
  BY <1>1 DEF TypeOK, Pass
<1>3. NextOccurrence(w) \in Nat /\ worker[w].count + 1 \in Nat
  BY <1>1, <1>2, StepAssumption DEF Schedule, Pass, NextOccurrence
<1>4. [worker[w] EXCEPT !.occurrence = NextOccurrence(w),
                        !.count = worker[w].count + 1] \in Pass
  BY <1>1, <1>3 DEF Pass
<1>5. NewRow(w) \in Row /\ Occurrence(w) \in Schedules \X Nat
  BY <1>1, <1>2 DEF NewRow, Row, Occurrence, Pass, Schedule
<1>6. draft' \in [claims : SUBSET (Schedules \X Nat), ledger : Seq(Row)]
  BY <1>5, AppendProperties DEF PostOccurrence, TypeOK
<1>7. worker' \in [Workers -> Pass]
  BY <1>4 DEF PostOccurrence, TypeOK
<1> QED BY <1>6, <1>7 DEF PostOccurrence, TypeOK, tables

LEMMA CommitScheduleTypes ==
  ASSUME TypeOK, NEW w \in Workers, CommitSchedule(w) PROVE TypeOK'
<1>1. worker[w] \in Pass
  BY DEF TypeOK
<1>2. Between("pass", worker[w].through, worker[w].listing, worker[w].queue) \in Pass
  <2>1. /\ worker[w].through \in Nat
        /\ worker[w].listing \in SUBSET (Nat \X Schedules)
        /\ worker[w].queue \in SUBSET (Nat \X Schedules)
    BY <1>1 DEF Pass
  <2> QED BY <2>1, BetweenType
<1>3. schedule' \in [Schedules -> Schedule]
  <2>1. [schedule[worker[w].current] EXCEPT !.next = worker[w].occurrence] \in Schedule
    <3>1. worker[w].current \in Schedules /\ worker[w].occurrence \in Nat
      BY <1>1 DEF Pass
    <3>2. schedule[worker[w].current] \in Schedule
      BY <3>1 DEF TypeOK
    <3> QED BY <3>1, <3>2 DEF Schedule
  <2>2. schedule' = [schedule EXCEPT ![worker[w].current] =
                       [schedule[worker[w].current] EXCEPT !.next = worker[w].occurrence]]
    BY DEF CommitSchedule, ResumeAt
  <2> QED BY <2>1, <2>2 DEF TypeOK
<1>4. draft' \in [claims : SUBSET (Schedules \X Nat), ledger : Seq(Row)]
  BY EmptySeq DEF CommitSchedule, NoDraft
<1> QED BY <1>2, <1>3, <1>4 DEF CommitSchedule, TypeOK

LEMMA FailPassTypes ==
  ASSUME TypeOK, NEW w \in Workers, FailPass(w) PROVE TypeOK'
<1>1. draft' \in [claims : SUBSET (Schedules \X Nat), ledger : Seq(Row)]
  BY EmptySeq DEF FailPass, NoDraft, TypeOK
<1>2. worker' \in [Workers -> Pass]
  BY NoPassType DEF FailPass, TypeOK
<1> QED BY <1>1, <1>2 DEF FailPass, Released, TypeOK, tables

LEMMA RunTypes ==
  ASSUME TypeOK, NEW w \in Workers, Run(w) PROVE TypeOK'
<1>1. CASE StartPass(w)
  BY <1>1, StartPassTypes
<1>2. CASE EndPass(w)
  BY <1>2, NoPassType DEF EndPass, TypeOK, tables
<1>3. ASSUME NEW p, NextUser(w, p) PROVE TypeOK'
  BY <1>3, NextUserTypes
<1>4. ASSUME NEW p \in worker[w].queue, SkipSchedule(w, p) PROVE TypeOK'
  BY <1>4, TakeTypes DEF SkipSchedule, TypeOK, tables
<1>5. ASSUME NEW p \in worker[w].queue, PauseOrphan(w, p) PROVE TypeOK'
  <2>1. [schedule[p[2]] EXCEPT !.state = "paused"] \in Schedule
    BY TakeTypes DEF Schedule
  <2>2. worker' \in [Workers -> Pass]
    BY <1>5, TakeTypes DEF PauseOrphan, TypeOK
  <2>3. schedule' \in [Schedules -> Schedule]
    BY <1>5, <2>1 DEF PauseOrphan, TypeOK
  <2> QED BY <1>5, <2>2, <2>3 DEF PauseOrphan, TypeOK
<1>6. ASSUME NEW p \in worker[w].queue, BeginSchedule(w, p) PROVE TypeOK'
  BY <1>6, BeginScheduleTypes
<1>7. CASE PostOccurrence(w)
  BY <1>7, PostOccurrenceTypes
<1>8. CASE CommitSchedule(w)
  BY <1>8, CommitScheduleTypes
<1>9. CASE StopPass(w)
  BY <1>9, NoPassType DEF StopPass, TypeOK, tables
<1> QED BY <1>1, <1>2, <1>3, <1>4, <1>5, <1>6, <1>7, <1>8, <1>9 DEF Run

LEMMA OwnersTypes == ASSUME TypeOK, Owners PROVE TypeOK'
<1>1. ASSUME NEW s \in Schedules, NEW a \in Accounts, NEW f \in Frequencies,
             NEW day \in 0..LastDay, AddSchedule(s, a, f, day)
      PROVE  TypeOK'
  <2>1. [state |-> "active", next |-> day + Step[f], frequency |-> f, account |-> a]
          \in Schedule
    BY StepAssumption, BoundAssumption DEF Schedule
  <2> QED BY <1>1, <2>1 DEF AddSchedule, Write, Elsewhere, TypeOK
<1>2. ASSUME NEW s \in Schedules, NEW a \in Accounts, NEW f \in Frequencies,
             NEW day \in 0..LastDay, UpdateSchedule(s, a, f, day)
      PROVE  TypeOK'
  <2>1. [schedule[s] EXCEPT !.next = day, !.frequency = f, !.account = a] \in Schedule
    <3>1. schedule[s] \in Schedule /\ day \in Nat
      BY BoundAssumption DEF TypeOK
    <3> QED BY <3>1 DEF Schedule
  <2> QED BY <1>2, <2>1 DEF UpdateSchedule, Write, Elsewhere, TypeOK
<1>3. ASSUME NEW s \in Schedules, PauseSchedule(s) PROVE TypeOK'
  <2>1. [schedule[s] EXCEPT !.state = "paused"] \in Schedule
    BY DEF Schedule, TypeOK
  <2>2. schedule' = [schedule EXCEPT ![s] = [schedule[s] EXCEPT !.state = "paused"]]
    BY <1>3 DEF PauseSchedule
  <2> QED BY <1>3, <2>1, <2>2 DEF PauseSchedule, Write, Elsewhere, TypeOK
<1>4. ASSUME NEW a \in Accounts, DeactivateAccount(a) PROVE TypeOK'
  BY <1>4 DEF DeactivateAccount, Write, Elsewhere, TypeOK
<1>5. ASSUME NEW u \in Users, NEW active \in BOOLEAN, SetUserActive(u, active)
      PROVE  TypeOK'
  BY <1>5 DEF SetUserActive, Write, Elsewhere, TypeOK
<1>6. ASSUME NEW i \in 1..Len(ledger), DeleteTransaction(i) \/ RestoreTransaction(i)
      PROVE  TypeOK'
  <2>1. \A b \in BOOLEAN : [ledger EXCEPT ![i].deleted = b] \in Seq(Row)
    <3>1. ledger[i] \in Row
      BY ElementOfSeq DEF TypeOK
    <3>2. \A b \in BOOLEAN : [ledger[i] EXCEPT !.deleted = b] \in Row
      BY <3>1 DEF Row
    <3>3. \A b \in BOOLEAN : [ledger EXCEPT ![i].deleted = b]
                               = [ledger EXCEPT ![i] = [ledger[i] EXCEPT !.deleted = b]]
      OBVIOUS
    <3> QED BY <3>2, <3>3, ExceptSeq DEF TypeOK
  <2>2. ledger' \in Seq(Row)
    BY <1>6, <2>1 DEF DeleteTransaction, RestoreTransaction
  <2> QED
    BY <1>6, <2>2 DEF DeleteTransaction, RestoreTransaction, Write, Elsewhere, TypeOK
<1> QED BY <1>1, <1>2, <1>3, <1>4, <1>5, <1>6 DEF Owners

(* Types are kept by every step.                                           *)
LEMMA NextTypes == TypeOK /\ [Next]_vars => TypeOK'
<1> SUFFICES ASSUME TypeOK, [Next]_vars PROVE TypeOK'
  OBVIOUS
<1>1. ASSUME NEW w \in Workers, Run(w) PROVE TypeOK'
  BY <1>1, RunTypes
<1>2. ASSUME NEW w \in Workers, RequestStop(w) PROVE TypeOK'
  BY <1>2 DEF RequestStop, TypeOK, tables
<1>3. ASSUME NEW w \in Workers, FailPass(w) PROVE TypeOK'
  BY <1>3, FailPassTypes
<1>4. CASE Owners
  BY <1>4, OwnersTypes
<1>5. CASE NextDay
  BY <1>5 DEF NextDay, TypeOK, tables
<1>6. CASE UNCHANGED vars
  BY <1>6 DEF vars, tables, TypeOK
<1> QED BY <1>1, <1>2, <1>3, <1>4, <1>5, <1>6 DEF Next

(* The tables, the draft and what every pass remembers are well formed.    *)
THEOREM RecurringTypes == Spec => []TypeOK
BY InitTypes, NextTypes, PTL DEF Spec

-----------------------------------------------------------------------------
(* The invariant                                                           *)

LEMMA InitInv == Init => RecurringInv
<1> SUFFICES ASSUME Init PROVE RecurringInv
  OBVIOUS
<1>1. TypeOK
  BY InitTypes
<1>2. Len(ledger) = 0
  BY DEF Init
<1>3. OneEntryPerOccurrence /\ ClaimsMatchLedger
  BY <1>2 DEF Init, OneEntryPerOccurrence, ClaimsMatchLedger, Distinct, Match
<1>4. OneWriter /\ PassesStarted
  BY WorkerAssumption DEF Init, OneWriter, PassesStarted, NoPass, Between
<1> QED BY <1>1, <1>3, <1>4, WorkerAssumption DEF Init, RecurringInv

(* A step that leaves the tables of entries, the reservation, the draft    *)
(* and the account being processed alone keeps the invariant.              *)
LEMMA QuietStep ==
  ASSUME RecurringInv, TypeOK',
         UNCHANGED <<accountActive, userActive, claims, ledger, writer, draft>>,
         today <= today',
         \A v \in Workers : worker'[v].through <= today',
         \A v \in Workers : worker'[v].pc = "txn" <=> worker[v].pc = "txn",
         \A v \in Workers : writer = v =>
           /\ worker'[v].current = worker[v].current
           /\ schedule'[worker[v].current].account = schedule[worker[v].current].account
  PROVE  RecurringInv'
<1>1. OneEntryPerOccurrence' /\ ClaimsMatchLedger'
  BY DEF RecurringInv, OneEntryPerOccurrence, ClaimsMatchLedger, Distinct, Match
<1>2. OneWriter' /\ PassesStarted'
  BY DEF RecurringInv, OneWriter, PassesStarted
<1>3. ASSUME NEW w \in Workers, writer' = w PROVE DraftFollows(w)'
  <2>1. DraftFollows(w)
    BY <1>3 DEF RecurringInv
  <2>2. /\ worker'[w].current = worker[w].current
        /\ schedule'[worker'[w].current].account = schedule[worker[w].current].account
    BY <1>3
  <2>3. \A i \in Len(ledger) + 1..Len(draft.ledger) : draft.ledger[i].due <= today'
    <3> SUFFICES ASSUME NEW i \in Len(ledger) + 1..Len(draft.ledger)
                 PROVE  draft.ledger[i].due <= today'
      OBVIOUS
    <3>1. Len(ledger) \in Nat /\ Len(draft.ledger) \in Nat
      BY LenProperties DEF RecurringInv, TypeOK
    <3>2. draft.ledger[i] \in Row
      BY <3>1, ElementOfSeq DEF RecurringInv, TypeOK
    <3>3. draft.ledger[i].due <= today /\ draft.ledger[i].due \in Nat
      BY <2>1, <3>2 DEF DraftFollows, Row
    <3> QED BY <3>3 DEF RecurringInv, TypeOK
  <2> QED BY <2>1, <2>2, <2>3 DEF DraftFollows, Distinct, Match, OccurrenceOf
<1> QED BY <1>1, <1>2, <1>3 DEF RecurringInv

(* A pass that is not in a transaction moves on without writing an entry.  *)
LEMMA PassStep ==
  ASSUME RecurringInv, TypeOK', NEW w \in Workers,
         UNCHANGED <<today, accountActive, userActive, claims, ledger, writer, draft>>,
         worker[w].pc # "txn", worker'[w].pc # "txn",
         worker'[w].through <= today,
         \A v \in Workers \ {w} : worker'[v] = worker[v],
         \A s \in Schedules : schedule'[s].account = schedule[s].account
  PROVE  RecurringInv'
<1>1. writer # w
  BY DEF RecurringInv, OneWriter
<1>2. \A v \in Workers : worker[v].current \in Schedules
  BY DEF RecurringInv, TypeOK, Pass
<1>3. today \in Nat /\ \A v \in Workers : worker[v].through <= today
  BY DEF RecurringInv, TypeOK, PassesStarted
<1> QED BY <1>1, <1>2, <1>3, QuietStep

LEMMA RunQuietInv ==
  ASSUME RecurringInv, TypeOK', NEW w \in Workers,
         \/ StartPass(w) \/ EndPass(w) \/ StopPass(w) \/ RequestStop(w)
         \/ \E p \in worker[w].listing : NextUser(w, p)
         \/ \E p \in worker[w].queue : SkipSchedule(w, p) \/ PauseOrphan(w, p)
  PROVE  RecurringInv'
<1>0. /\ worker \in [Workers -> Pass] /\ worker[w] \in Pass
      /\ schedule \in [Schedules -> Schedule]
      /\ today \in Nat /\ worker[w].through <= today
      /\ \A v \in Workers : worker[v].through <= today
  BY DEF RecurringInv, TypeOK, PassesStarted
<1>1. CASE StartPass(w)
  <2>1. worker'[w].pc = "pass" /\ worker'[w].through = today
    BY <1>0, <1>1 DEF StartPass, Between
  <2> QED BY <1>0, <1>1, <2>1, PassStep DEF StartPass, tables
<1>2. CASE EndPass(w)
  <2>1. worker'[w].pc = "idle" /\ worker'[w].through = 0
    BY <1>0, <1>2 DEF EndPass, Between, NoPass
  <2> QED BY <1>0, <1>2, <2>1, PassStep DEF EndPass, tables
<1>3. CASE StopPass(w)
  <2>1. worker'[w].pc = "idle" /\ worker'[w].through = 0
    BY <1>0, <1>3 DEF StopPass, Between, NoPass
  <2> QED BY <1>0, <1>3, <2>1, PassStep DEF StopPass, tables
<1>4. CASE RequestStop(w)
  BY <1>0, <1>4, QuietStep DEF RequestStop, tables
<1>5. ASSUME NEW p \in worker[w].listing, NextUser(w, p) PROVE RecurringInv'
  <2>1. worker'[w].pc = "pass" /\ worker'[w].through = worker[w].through
    BY <1>0, <1>5 DEF NextUser, Between
  <2> QED BY <1>0, <1>5, <2>1, PassStep DEF NextUser, tables
<1>6. ASSUME NEW p \in worker[w].queue, SkipSchedule(w, p) PROVE RecurringInv'
  <2>1. worker'[w].pc = "pass" /\ worker'[w].through = worker[w].through
    BY <1>0, <1>6 DEF SkipSchedule, Take, Pass
  <2>2. worker[w].pc = "pass"
    BY <1>6 DEF SkipSchedule, Take
  <2> QED BY <1>0, <1>6, <2>1, <2>2, PassStep DEF SkipSchedule, tables
<1>7. ASSUME NEW p \in worker[w].queue, PauseOrphan(w, p) PROVE RecurringInv'
  <2>1. worker'[w].pc = "pass" /\ worker'[w].through = worker[w].through
    BY <1>0, <1>7 DEF PauseOrphan, Take, Pass
  <2>2. worker[w].pc = "pass"
    BY <1>7 DEF PauseOrphan, Take
  <2>3. \A s \in Schedules : schedule'[s].account = schedule[s].account
    BY <1>0, <1>7 DEF PauseOrphan, Schedule
  <2> QED BY <1>0, <1>7, <2>1, <2>2, <2>3, PassStep DEF PauseOrphan
<1> QED BY <1>1, <1>2, <1>3, <1>4, <1>5, <1>6, <1>7

(* Taking the reservation: the draft starts as the committed tables, and   *)
(* the account and its user were read as active in the same transaction.   *)
LEMMA BeginScheduleInv ==
  ASSUME RecurringInv, TypeOK', NEW w \in Workers, NEW p \in worker[w].queue,
         BeginSchedule(w, p)
  PROVE  RecurringInv'
<1>0. /\ worker \in [Workers -> Pass] /\ worker[w] \in Pass
      /\ writer = Nobody
  BY DEF RecurringInv, TypeOK, BeginSchedule, Take
<1>1. /\ worker'[w].pc = "txn" /\ worker'[w].current = p[2]
      /\ worker'[w].through = worker[w].through
      /\ \A v \in Workers \ {w} : worker'[v] = worker[v]
  BY <1>0 DEF BeginSchedule, Pass
<1>2. OneEntryPerOccurrence' /\ ClaimsMatchLedger'
  BY DEF RecurringInv, OneEntryPerOccurrence, ClaimsMatchLedger, Distinct, Match,
         BeginSchedule, tables
<1>3. OneWriter'
  BY <1>0, <1>1, WorkerAssumption DEF RecurringInv, OneWriter, BeginSchedule
<1>4. PassesStarted'
  BY <1>1 DEF RecurringInv, PassesStarted, BeginSchedule
<1>5. DraftFollows(w)'
  <2>1. /\ draft'.claims = claims /\ draft'.ledger = ledger /\ ledger' = ledger
        /\ schedule' = schedule /\ accountActive' = accountActive
        /\ userActive' = userActive
    BY DEF BeginSchedule, tables
  <2>2. Len(ledger) \in Nat
    BY LenProperties DEF RecurringInv, TypeOK
  <2>3. /\ accountActive[schedule[p[2]].account]
        /\ userActive[Owner[schedule[p[2]].account]]
    BY DEF BeginSchedule, StillDue, OwnerOf
  <2>4. Distinct(ledger) /\ Match(claims, ledger)
    BY DEF RecurringInv, OneEntryPerOccurrence, ClaimsMatchLedger
  <2>5. Distinct(draft.ledger)' /\ Match(draft.claims, draft.ledger)'
    BY <2>1, <2>4 DEF Distinct, Match, OccurrenceOf
  <2> QED BY <1>1, <2>1, <2>2, <2>3, <2>5 DEF DraftFollows
<1>6. writer' = w
  BY DEF BeginSchedule
<1> QED BY <1>2, <1>3, <1>4, <1>5, <1>6 DEF RecurringInv

(* A round of the loop writes to the draft only, and only a new claim.     *)
LEMMA PostOccurrenceInv ==
  ASSUME RecurringInv, TypeOK', NEW w \in Workers, PostOccurrence(w)
  PROVE  RecurringInv'
<1>0. /\ worker \in [Workers -> Pass] /\ worker[w] \in Pass
      /\ writer = w /\ writer' = writer
      /\ DraftFollows(w)
      /\ draft.ledger \in Seq(Row) /\ ledger \in Seq(Row)
  BY DEF RecurringInv, OneWriter, TypeOK, PostOccurrence
<1>1. /\ worker'[w].pc = "txn" /\ worker'[w].current = worker[w].current
      /\ worker'[w].through = worker[w].through
      /\ \A v \in Workers \ {w} : worker'[v] = worker[v]
  BY <1>0 DEF PostOccurrence, Pass
<1>2. /\ OneEntryPerOccurrence' /\ ClaimsMatchLedger'
  BY DEF RecurringInv, OneEntryPerOccurrence, ClaimsMatchLedger, Distinct, Match,
         PostOccurrence, tables
<1>3. OneWriter' /\ PassesStarted'
  BY <1>0, <1>1 DEF RecurringInv, OneWriter, PassesStarted, PostOccurrence
<1>4. DraftFollows(w)'
  <2> DEFINE account == schedule[worker[w].current].account
             row == NewRow(w)
  <2>1. /\ ledger' = ledger /\ schedule' = schedule
        /\ accountActive' = accountActive /\ userActive' = userActive /\ today' = today
        /\ draft'.claims = draft.claims \cup {Occurrence(w)}
        /\ draft'.ledger = IF NewClaim(w) THEN Append(draft.ledger, row) ELSE draft.ledger
    BY DEF PostOccurrence, tables
  <2>2. /\ row \in Row /\ OccurrenceOf(row) = Occurrence(w)
        /\ row.account = account /\ row.due <= today
    <3>1. worker[w].current \in Schedules /\ worker[w].occurrence \in Nat
      BY <1>0 DEF Pass
    <3>2. account \in Accounts
      BY <3>1 DEF RecurringInv, TypeOK, Schedule
    <3>3. /\ worker[w].occurrence <= worker[w].through
          /\ worker[w].through <= today
          /\ worker[w].through \in Nat /\ today \in Nat
      BY <1>0 DEF PostOccurrence, InLoop, RecurringInv, PassesStarted, Pass, TypeOK
    <3> QED BY <3>1, <3>2, <3>3 DEF NewRow, Row, OccurrenceOf, Occurrence
  <2>3. CASE NewClaim(w)
    <3>1. /\ Distinct(Append(draft.ledger, row))
          /\ Match(draft.claims \cup {Occurrence(w)}, Append(draft.ledger, row))
      BY <1>0, <2>2, <2>3, AppendKeepsMatch DEF DraftFollows, NewClaim
    <3>2. Distinct(draft.ledger)' /\ Match(draft.claims, draft.ledger)'
      BY <2>1, <2>3, <3>1 DEF Distinct, Match, OccurrenceOf
    <3>3. /\ Len(draft.ledger) \in Nat /\ Len(ledger) \in Nat
          /\ Len(draft'.ledger) = Len(draft.ledger) + 1
          /\ \A i \in 1..Len(draft.ledger) : draft'.ledger[i] = draft.ledger[i]
          /\ draft'.ledger[Len(draft.ledger) + 1] = row
      BY <1>0, <2>1, <2>2, <2>3, AppendProperties, LenProperties
    <3>4. ASSUME NEW i \in Len(ledger) + 1..Len(draft'.ledger)
          PROVE  draft'.ledger[i].account = account /\ draft'.ledger[i].due <= today
      <4>1. CASE i = Len(draft.ledger) + 1
        BY <2>2, <3>3, <4>1
      <4>2. CASE i # Len(draft.ledger) + 1
        <5>1. i \in Len(ledger) + 1..Len(draft.ledger) /\ i \in 1..Len(draft.ledger)
          BY <3>3, <4>2
        <5> QED BY <1>0, <3>3, <5>1 DEF DraftFollows
      <4> QED BY <4>1, <4>2
    <3>5. Len(ledger) <= Len(draft'.ledger)
      BY <1>0, <3>3 DEF DraftFollows
    <3> QED BY <1>0, <1>1, <2>1, <3>2, <3>4, <3>5 DEF DraftFollows
  <2>4. CASE ~NewClaim(w)
    <3>1. draft'.ledger = draft.ledger /\ draft'.claims = draft.claims
      BY <2>1, <2>4 DEF NewClaim
    <3>2. Distinct(draft.ledger)' /\ Match(draft.claims, draft.ledger)'
      BY <1>0, <3>1 DEF DraftFollows, Distinct, Match, OccurrenceOf
    <3> QED BY <1>0, <1>1, <2>1, <3>1, <3>2 DEF DraftFollows
  <2> QED BY <2>3, <2>4
<1> QED BY <1>0, <1>2, <1>3, <1>4, WorkerAssumption DEF RecurringInv

(* The commit publishes a draft that already obeys the rules.              *)
LEMMA CommitScheduleInv ==
  ASSUME RecurringInv, TypeOK', NEW w \in Workers, CommitSchedule(w)
  PROVE  RecurringInv'
<1>0. /\ worker \in [Workers -> Pass] /\ worker[w] \in Pass
      /\ writer = w /\ DraftFollows(w)
  BY DEF RecurringInv, OneWriter, TypeOK, CommitSchedule
<1>1. /\ worker'[w].pc = "pass" /\ worker'[w].through = worker[w].through
      /\ \A v \in Workers \ {w} : worker'[v] = worker[v]
  BY <1>0 DEF CommitSchedule, Between
<1>2. claims' = draft.claims /\ ledger' = draft.ledger /\ writer' = Nobody /\ today' = today
  BY DEF CommitSchedule
<1>3. Distinct(ledger)' /\ Match(claims, ledger)'
  BY <1>0, <1>2 DEF DraftFollows, Distinct, Match, OccurrenceOf
<1>4. OneWriter' /\ PassesStarted'
  BY <1>0, <1>1, <1>2, WorkerAssumption DEF RecurringInv, OneWriter, PassesStarted
<1> QED BY <1>2, <1>3, <1>4, WorkerAssumption
        DEF RecurringInv, OneEntryPerOccurrence, ClaimsMatchLedger

(* A failure rolls the draft back; another process's draft is untouched.   *)
LEMMA FailPassInv ==
  ASSUME RecurringInv, TypeOK', NEW w \in Workers, FailPass(w)
  PROVE  RecurringInv'
<1>0. /\ worker \in [Workers -> Pass] /\ worker[w] \in Pass /\ today \in Nat
      /\ \A v \in Workers : worker[v].through <= today
  BY DEF RecurringInv, TypeOK, PassesStarted
<1>1. /\ worker'[w].pc = "idle" /\ worker'[w].through = 0
      /\ \A v \in Workers \ {w} : worker'[v] = worker[v]
  BY <1>0 DEF FailPass, NoPass, Between
<1>2. CASE writer = w
  <2>1. writer' = Nobody /\ claims' = claims /\ ledger' = ledger /\ today' = today
    BY <1>2 DEF FailPass, Released, tables
  <2>2. Distinct(ledger)' /\ Match(claims, ledger)'
    BY <2>1 DEF RecurringInv, OneEntryPerOccurrence, ClaimsMatchLedger,
                Distinct, Match, OccurrenceOf
  <2>3. OneWriter' /\ PassesStarted'
    BY <1>0, <1>1, <1>2, <2>1, WorkerAssumption DEF RecurringInv, OneWriter, PassesStarted
  <2> QED BY <2>1, <2>2, <2>3, WorkerAssumption
          DEF RecurringInv, OneEntryPerOccurrence, ClaimsMatchLedger
<1>3. CASE writer # w
  <2>1. worker[w].pc # "txn"
    BY <1>3 DEF RecurringInv, OneWriter
  <2>2. /\ UNCHANGED <<today, accountActive, userActive, claims, ledger, writer, draft>>
        /\ schedule' = schedule
    BY <1>3 DEF FailPass, Released, tables
  <2> QED BY <1>0, <1>1, <2>1, <2>2, PassStep
<1> QED BY <1>2, <1>3

(* The API writes only when no draft is open, and entries only by marking. *)
LEMMA OwnersInv == ASSUME RecurringInv, TypeOK', Owners PROVE RecurringInv'
<1>1. writer = Nobody /\ writer' = Nobody /\ worker' = worker /\ today' = today
  BY DEF Owners, AddSchedule, UpdateSchedule, PauseSchedule, DeactivateAccount,
         SetUserActive, DeleteTransaction, RestoreTransaction, Write, Elsewhere
<1>2. OneWriter' /\ PassesStarted'
  BY <1>1 DEF RecurringInv, OneWriter, PassesStarted
<1>3. Distinct(ledger)' /\ Match(claims, ledger)'
  <2>0. ledger \in Seq(Row) /\ Distinct(ledger) /\ Match(claims, ledger)
    BY DEF RecurringInv, TypeOK, OneEntryPerOccurrence, ClaimsMatchLedger
  <2>1. CASE ledger' = ledger /\ claims' = claims
    BY <2>0, <2>1 DEF Distinct, Match, OccurrenceOf
  <2>2. ASSUME NEW i \in 1..Len(ledger), DeleteTransaction(i)
        PROVE  Distinct(ledger') /\ Match(claims', ledger')
    BY <2>0, <2>2, MarkKeepsMatch DEF DeleteTransaction
  <2>3. ASSUME NEW i \in 1..Len(ledger), RestoreTransaction(i)
        PROVE  Distinct(ledger') /\ Match(claims', ledger')
    BY <2>0, <2>3, MarkKeepsMatch DEF RestoreTransaction
  <2>4. ASSUME NEW i \in 1..Len(ledger), DeleteTransaction(i) \/ RestoreTransaction(i)
        PROVE  Distinct(ledger)' /\ Match(claims, ledger)'
    BY <2>2, <2>3, <2>4 DEF Distinct, Match, OccurrenceOf
  <2> QED BY <2>1, <2>4
          DEF Owners, AddSchedule, UpdateSchedule, PauseSchedule, DeactivateAccount,
              SetUserActive
<1> QED BY <1>1, <1>2, <1>3, WorkerAssumption
        DEF RecurringInv, OneEntryPerOccurrence, ClaimsMatchLedger

LEMMA NextInv == RecurringInv /\ [Next]_vars => RecurringInv'
<1> SUFFICES ASSUME RecurringInv, [Next]_vars PROVE RecurringInv'
  OBVIOUS
<1>1. TypeOK'
  BY NextTypes DEF RecurringInv
<1>2. ASSUME NEW w \in Workers, Run(w) PROVE RecurringInv'
  BY <1>1, <1>2, RunQuietInv, BeginScheduleInv, PostOccurrenceInv, CommitScheduleInv
     DEF Run
<1>3. ASSUME NEW w \in Workers, RequestStop(w) PROVE RecurringInv'
  BY <1>1, <1>3, RunQuietInv
<1>4. ASSUME NEW w \in Workers, FailPass(w) PROVE RecurringInv'
  BY <1>1, <1>4, FailPassInv
<1>5. CASE Owners
  BY <1>1, <1>5, OwnersInv
<1>6. CASE NextDay
  <2>1. today \in Nat /\ \A w \in Workers : worker[w].through <= today
                                           /\ worker[w].through \in Nat
    BY DEF RecurringInv, TypeOK, PassesStarted, Pass
  <2>2. today' = today + 1 /\ UNCHANGED <<tables, writer, draft, worker>>
    BY <1>6 DEF NextDay
  <2>3. today <= today' /\ \A v \in Workers : worker'[v].through <= today'
    BY <2>1, <2>2
  <2> QED BY <1>1, <2>2, <2>3, QuietStep DEF tables
<1>7. CASE UNCHANGED vars
  <2>1. today \in Nat /\ \A w \in Workers : worker[w].through <= today
    BY DEF RecurringInv, TypeOK, PassesStarted
  <2> QED BY <1>1, <1>7, <2>1, QuietStep DEF vars, tables
<1> QED BY <1>2, <1>3, <1>4, <1>5, <1>6, <1>7 DEF Next

THEOREM RecurringInvariant == Spec => []RecurringInv
BY InitInv, NextInv, PTL DEF Spec

(* However many processes run, fail and are restarted, and however owners  *)
(* rewind schedules and delete entries, no occurrence is posted twice.     *)
THEOREM ExactlyOnce == Spec => []OneEntryPerOccurrence
BY RecurringInvariant, PTL DEF RecurringInv

(* No claim is ever left without its entry, nor an entry without claim.    *)
THEOREM ClaimsAreEntries == Spec => []ClaimsMatchLedger
BY RecurringInvariant, PTL DEF RecurringInv

-----------------------------------------------------------------------------
(* Steps                                                                   *)

(* Only a commit lengthens the ledger, and its draft was checked when the  *)
(* reservation was taken.                                                  *)
LEMMA PostedStep ==
  ASSUME RecurringInv, [Next]_vars, NEW i \in Len(ledger) + 1..Len(ledger')
  PROVE  /\ accountActive[ledger'[i].account]
         /\ userActive[Owner[ledger'[i].account]]
         /\ ledger'[i].due <= today
<1>1. Len(ledger) \in Nat
  BY LenProperties DEF RecurringInv, TypeOK
<1>2. ASSUME NEW w \in Workers, CommitSchedule(w)
      PROVE  /\ accountActive[ledger'[i].account]
             /\ userActive[Owner[ledger'[i].account]]
             /\ ledger'[i].due <= today
  <2>1. DraftFollows(w) /\ ledger' = draft.ledger
    BY <1>2 DEF CommitSchedule, RecurringInv, OneWriter
  <2> QED BY <2>1 DEF DraftFollows
<1>3. ASSUME Len(ledger') = Len(ledger) PROVE FALSE
  BY <1>1, <1>3
<1>4. ASSUME NEW n \in 1..Len(ledger), DeleteTransaction(n) \/ RestoreTransaction(n)
      PROVE  FALSE
  <2>1. ledger \in Seq(Row) /\ Distinct(ledger) /\ Match(claims, ledger)
    BY DEF RecurringInv, TypeOK, OneEntryPerOccurrence, ClaimsMatchLedger
  <2>2. Len(ledger') = Len(ledger)
    BY <1>4, <2>1, MarkKeepsMatch DEF DeleteTransaction, RestoreTransaction
  <2> QED BY <1>3, <2>2
<1>5. CASE Owners
  BY <1>3, <1>4, <1>5
     DEF Owners, AddSchedule, UpdateSchedule, PauseSchedule, DeactivateAccount,
         SetUserActive
<1>6. ASSUME NEW w \in Workers, Run(w) \/ RequestStop(w) \/ FailPass(w), ~CommitSchedule(w)
      PROVE  FALSE
  BY <1>3, <1>6
     DEF Run, StartPass, EndPass, NextUser, SkipSchedule, PauseOrphan, BeginSchedule,
         PostOccurrence, StopPass, RequestStop, FailPass, tables
<1>7. CASE NextDay \/ UNCHANGED vars
  BY <1>3, <1>7 DEF NextDay, vars, tables
<1> QED BY <1>2, <1>5, <1>6, <1>7 DEF Next

THEOREM PostingIsAllowed == Spec => PostedWhereAllowed
<1>1. RecurringInv /\ [Next]_vars =>
        [\A i \in Len(ledger) + 1..Len(ledger') :
           /\ accountActive[ledger'[i].account]
           /\ userActive[Owner[ledger'[i].account]]
           /\ ledger'[i].due <= today]_vars
  BY PostedStep
<1> QED BY <1>1, RecurringInvariant, PTL DEF Spec, PostedWhereAllowed

(* Creating, moving, pausing and deactivating never leave an active        *)
(* schedule on an inactive account.                                        *)
LEMMA OrphanStep ==
  ASSUME TypeOK, [Next]_vars, NEW s \in Schedules, Orphan(s)' PROVE Orphan(s)
<1>0. /\ schedule \in [Schedules -> Schedule]
      /\ accountActive \in [Accounts -> BOOLEAN]
      /\ schedule[s] \in Schedule
  BY DEF TypeOK
<1>1. CASE accountActive' = accountActive /\ schedule' = schedule
  BY <1>1 DEF Orphan
<1>2. ASSUME NEW w \in Workers, NEW p \in worker[w].queue, PauseOrphan(w, p)
      PROVE  Orphan(s)
  BY <1>0, <1>2 DEF PauseOrphan, Orphan, Schedule
<1>3. ASSUME NEW w \in Workers, CommitSchedule(w) PROVE Orphan(s)
  BY <1>0, <1>3 DEF CommitSchedule, Orphan, Schedule
<1>4. ASSUME NEW r \in Schedules, NEW a \in Accounts, NEW f \in Frequencies,
             NEW day \in 0..LastDay, AddSchedule(r, a, f, day)
      PROVE  Orphan(s)
  BY <1>0, <1>4 DEF AddSchedule, Orphan, Schedule
<1>5. ASSUME NEW r \in Schedules, NEW a \in Accounts, NEW f \in Frequencies,
             NEW day \in 0..LastDay, UpdateSchedule(r, a, f, day)
      PROVE  Orphan(s)
  BY <1>0, <1>5 DEF UpdateSchedule, Orphan, Schedule
<1>6. ASSUME NEW r \in Schedules, PauseSchedule(r) PROVE Orphan(s)
  BY <1>0, <1>6 DEF PauseSchedule, Orphan, Schedule
<1>7. ASSUME NEW a \in Accounts, DeactivateAccount(a) PROVE Orphan(s)
  BY <1>0, <1>7 DEF DeactivateAccount, HasActiveSchedule, Orphan, Schedule
<1>8. CASE Owners
  BY <1>1, <1>4, <1>5, <1>6, <1>7, <1>8
     DEF Owners, SetUserActive, DeleteTransaction, RestoreTransaction
<1>9. ASSUME NEW w \in Workers, Run(w) \/ RequestStop(w) \/ FailPass(w) PROVE Orphan(s)
  BY <1>1, <1>2, <1>3, <1>9
     DEF Run, StartPass, EndPass, NextUser, SkipSchedule, BeginSchedule,
         PostOccurrence, StopPass, RequestStop, FailPass, tables
<1>10. CASE NextDay \/ UNCHANGED vars
  BY <1>1, <1>10 DEF NextDay, vars, tables
<1> QED BY <1>8, <1>9, <1>10 DEF Next

THEOREM OrphansAreOld == Spec => NoNewOrphan
<1>1. TypeOK /\ [Next]_vars => [\A s \in Schedules : Orphan(s)' => Orphan(s)]_vars
  BY OrphanStep
<1> QED BY <1>1, RecurringTypes, PTL DEF Spec, NoNewOrphan

-----------------------------------------------------------------------------
(* Batches                                                                 *)

(* Whoever reads or writes elsewhere leaves the open draft a batch.        *)
LEMMA BatchQuiet ==
  ASSUME BatchInv, UNCHANGED <<claims, draft>>,
         \A v \in Workers : writer' = v =>
           /\ writer = v
           /\ worker'[v].current = worker[v].current /\ worker'[v].count = worker[v].count
           /\ worker'[v].occurrence = worker[v].occurrence
           /\ worker'[v].through = worker[v].through
           /\ schedule'[worker[v].current] = schedule[worker[v].current]
  PROVE  BatchInv'
<1> SUFFICES ASSUME NEW w \in Workers, writer' = w PROVE DraftIsBatch(w)'
  BY DEF BatchInv
<1>1. DraftIsBatch(w)
  BY DEF BatchInv
<1> QED BY <1>1 DEF DraftIsBatch, Listed, Stride

(* A draft begins as a batch of none, at the date in the row.              *)
LEMMA BeginBatch ==
  ASSUME RecurringInv, NEW w \in Workers, NEW p \in worker[w].queue, BeginSchedule(w, p)
  PROVE  BatchInv'
<1> DEFINE s == p[2]
<1>1. worker \in [Workers -> Pass] /\ worker[w] \in Pass
  BY DEF RecurringInv, TypeOK
<1>2. s \in Schedules /\ schedule[s].next \in Nat /\ schedule[s].frequency \in Frequencies
  BY <1>1 DEF Pass, RecurringInv, TypeOK, Schedule
<1>3. /\ writer' = w /\ draft'.claims = claims /\ claims' = claims /\ schedule' = schedule
      /\ worker'[w].current = s /\ worker'[w].count = 0
      /\ worker'[w].occurrence = schedule[s].next
  BY <1>1 DEF BeginSchedule, StartAt, tables, Pass
<1>4. Stride(s) \in Nat
  BY <1>2, StepAssumption DEF Stride
<1>5. Listed(s, 0) = {}
  BY DEF Listed
<1>6. 0 * Stride(s) = 0 /\ Stride(s)' = Stride(s) /\ Listed(s, 0)' = Listed(s, 0)
  BY <1>3, <1>4 DEF Stride, Listed
<1>7. DraftIsBatch(w)'
  BY <1>2, <1>3, <1>5, <1>6, BatchAssumption DEF DraftIsBatch, Stride, Listed
<1> QED BY <1>3, <1>7 DEF BatchInv

(* A batch and the next occurrence are a batch of one more.                *)
LEMMA OneMore ==
  ASSUME NEW s, NEW n \in Nat
  PROVE  Listed(s, n + 1) = Listed(s, n) \cup {<<s, schedule[s].next + n * Stride(s)>>}
<1>1. 0..(n + 1) - 1 = (0..n - 1) \cup {n}
  OBVIOUS
<1> QED BY <1>1 DEF Listed

LEMMA PostBatch ==
  ASSUME RecurringInv, BatchInv, NEW w \in Workers, PostOccurrence(w)
  PROVE  BatchInv'
<1>1. worker \in [Workers -> Pass] /\ worker[w] \in Pass
  BY DEF RecurringInv, TypeOK
<1>0. PICK s \in Schedules, n \in Nat : s = worker[w].current /\ n = worker[w].count
  BY <1>1 DEF Pass
<1>2. s \in Schedules /\ n \in Nat /\ schedule[s].next \in Nat /\ worker[w].through \in Nat
  BY <1>1 DEF Pass, RecurringInv, TypeOK, Schedule
<1>3. Stride(s) \in Nat
  BY <1>2, StepAssumption DEF Stride, RecurringInv, TypeOK, Schedule
<1>4. writer = w /\ DraftIsBatch(w)
  BY DEF PostOccurrence, RecurringInv, OneWriter, BatchInv
<1>5. /\ writer' = writer /\ claims' = claims /\ schedule' = schedule
      /\ draft'.claims = draft.claims \cup {Occurrence(w)}
      /\ worker'[w].current = s /\ worker'[w].count = n + 1
      /\ worker'[w].occurrence = worker[w].occurrence + Stride(s)
      /\ worker'[w].through = worker[w].through
      /\ worker[w].occurrence <= worker[w].through /\ n < BatchSize
  BY <1>0, <1>1 DEF PostOccurrence, tables, Pass, NextOccurrence, Stride, InLoop
<1>6. worker[w].occurrence = schedule[s].next + n * Stride(s)
  BY <1>0, <1>4 DEF DraftIsBatch
<1>7. n * Stride(s) + Stride(s) = (n + 1) * Stride(s) /\ n * Stride(s) \in Nat
  BY <1>2, <1>3
<1>8. worker'[w].occurrence = schedule[s].next + (n + 1) * Stride(s)
  BY <1>2, <1>3, <1>5, <1>6, <1>7
<1>9. draft'.claims = claims \cup Listed(s, n + 1)
  BY <1>0, <1>4, <1>5, <1>6, OneMore DEF DraftIsBatch, Occurrence
<1>10. \A k \in 0..(n + 1) - 1 : schedule[s].next + k * Stride(s) <= worker[w].through
  <2> SUFFICES ASSUME NEW k \in 0..(n + 1) - 1
               PROVE  schedule[s].next + k * Stride(s) <= worker[w].through
    OBVIOUS
  <2>1. k \in 0..n - 1 \/ k = n
    BY <1>2
  <2> QED BY <2>1, <1>0, <1>4, <1>5, <1>6 DEF DraftIsBatch
<1>11. Stride(s)' = Stride(s) /\ Listed(s, n + 1)' = Listed(s, n + 1)
  BY <1>5 DEF Stride, Listed
<1>12. n + 1 <= BatchSize
  BY <1>2, <1>5, BatchAssumption
<1>13. DraftIsBatch(w)'
  BY <1>5, <1>8, <1>9, <1>10, <1>11, <1>12 DEF DraftIsBatch, Stride, Listed
<1> QED BY <1>4, <1>5, <1>13 DEF BatchInv

LEMMA BatchStep == ASSUME RecurringInv, BatchInv, [Next]_vars PROVE BatchInv'
<1>0. worker \in [Workers -> Pass]
  BY DEF RecurringInv, TypeOK
<1>1. ASSUME NEW w \in Workers,
             StartPass(w) \/ EndPass(w) \/ StopPass(w) \/ RequestStop(w)
               \/ \E p \in worker[w].listing : NextUser(w, p)
      PROVE  BatchInv'
  <2>1. /\ writer' = writer /\ UNCHANGED <<claims, draft, schedule>>
        /\ \A v \in Workers : v = writer => worker'[v] = worker[v]
    BY <1>0, <1>1 DEF StartPass, EndPass, StopPass, RequestStop, NextUser, tables,
                      RecurringInv, OneWriter
  <2> QED BY <2>1, BatchQuiet
<1>2. ASSUME NEW w \in Workers, NEW p \in worker[w].queue,
             SkipSchedule(w, p) \/ PauseOrphan(w, p)
      PROVE  BatchInv'
  <2>1. writer' = Nobody
    BY <1>2 DEF SkipSchedule, PauseOrphan, Take
  <2> QED BY <2>1, WorkerAssumption DEF BatchInv
<1>3. ASSUME NEW w \in Workers, CommitSchedule(w) PROVE BatchInv'
  BY <1>3, WorkerAssumption DEF CommitSchedule, BatchInv
<1>4. ASSUME NEW w \in Workers, FailPass(w) PROVE BatchInv'
  <2>1. CASE writer = w
    BY <1>4, <2>1, WorkerAssumption DEF FailPass, Released, BatchInv
  <2>2. CASE writer # w
    <3>1. /\ writer' = writer /\ UNCHANGED <<claims, draft, schedule>>
          /\ \A v \in Workers : v = writer => worker'[v] = worker[v]
      BY <1>0, <1>4, <2>2 DEF FailPass, Released, tables
    <3> QED BY <3>1, BatchQuiet
  <2> QED BY <2>1, <2>2
<1>5. CASE Owners
  <2>1. writer' = Nobody
    BY <1>5 DEF Owners, AddSchedule, UpdateSchedule, PauseSchedule, DeactivateAccount,
                SetUserActive, DeleteTransaction, RestoreTransaction, Write, Elsewhere
  <2> QED BY <2>1, WorkerAssumption DEF BatchInv
<1>6. CASE NextDay \/ UNCHANGED vars
  <2>1. UNCHANGED <<claims, draft, schedule, writer, worker>>
    BY <1>6 DEF NextDay, vars, tables
  <2> QED BY <2>1, BatchQuiet
<1> QED BY <1>1, <1>2, <1>3, <1>4, <1>5, <1>6, BeginBatch, PostBatch DEF Next, Run

(* What is committed together is the next occurrences of one schedule.     *)
THEOREM ProcessingInvariant == Spec => []ProcessingInv
<1>1. Init => BatchInv
  BY WorkerAssumption DEF Init, BatchInv
<1>2. RecurringInv /\ BatchInv /\ [Next]_vars => BatchInv'
  BY BatchStep
<1> QED BY <1>1, <1>2, RecurringInvariant, PTL DEF Spec, ProcessingInv

-----------------------------------------------------------------------------
(* What a commit does                                                      *)

(* It takes one schedule over n occurrences, and claims just these.        *)
Takes(s, n) ==
  /\ schedule' = [schedule EXCEPT ![s].next = schedule[s].next + n * Stride(s)]
  /\ claims' = claims \cup Listed(s, n)
  /\ \A k \in 0..n - 1 : schedule[s].next + k * Stride(s) <= today

LEMMA CommitTakes ==
  ASSUME ProcessingInv, NEW w \in Workers, CommitSchedule(w)
  PROVE  \E s \in Schedules, n \in 0..BatchSize : Takes(s, n)
<1>1. worker \in [Workers -> Pass] /\ worker[w] \in Pass /\ today \in Nat
  BY DEF ProcessingInv, RecurringInv, TypeOK
<1>2. PICK s \in Schedules, n \in Nat : s = worker[w].current /\ n = worker[w].count
  BY <1>1 DEF Pass
<1>3. schedule \in [Schedules -> Schedule] /\ schedule[s].next \in Nat /\ Stride(s) \in Nat
  BY <1>2, StepAssumption DEF ProcessingInv, RecurringInv, TypeOK, Schedule, Stride
<1>4. DraftIsBatch(w) /\ worker[w].through <= today
  BY DEF ProcessingInv, BatchInv, RecurringInv, OneWriter, PassesStarted, CommitSchedule
<1>5. n \in 0..BatchSize
  BY <1>2, <1>4, BatchAssumption DEF DraftIsBatch
<1>6. schedule' = [schedule EXCEPT ![s].next = schedule[s].next + n * Stride(s)]
  BY <1>2, <1>4 DEF CommitSchedule, ResumeAt, DraftIsBatch
<1>7. claims' = claims \cup Listed(s, n)
  BY <1>2, <1>4 DEF CommitSchedule, DraftIsBatch
<1>8. \A k \in 0..n - 1 : schedule[s].next + k * Stride(s) <= today
  <2> SUFFICES ASSUME NEW k \in 0..n - 1 PROVE schedule[s].next + k * Stride(s) <= today
    OBVIOUS
  <2>1. schedule[s].next + k * Stride(s) <= worker[w].through
    BY <1>2, <1>4 DEF DraftIsBatch
  <2>2. worker[w].through \in Nat /\ k \in Nat /\ k * Stride(s) \in Nat
    <3>1. worker[w].through \in Nat /\ k \in Nat
      BY <1>1, <1>2 DEF Pass
    <3> QED BY <1>3, <3>1
  <2> QED BY <1>1, <1>3, <1>4, <2>1, <2>2
<1> QED BY <1>5, <1>6, <1>7, <1>8 DEF Takes

(* The dates between two that are n strides apart are the first n.         *)
Apart(first, next, n, b) == next = first + n * b
Dates(first, next, b) == {d \in first..(next - 1) : (d - first) % b = 0}
Firsts(first, n, b) == {first + k * b : k \in 0..n - 1}
LEMMA Strides ==
  ASSUME NEW b \in Nat \ {0}, NEW n \in Nat, NEW first \in Nat, NEW next \in Nat,
         Apart(first, next, n, b)
  PROVE  Dates(first, next, b) \subseteq Firsts(first, n, b)
<1> SUFFICES ASSUME NEW d \in Dates(first, next, b) PROVE \E k \in 0..n - 1 : d = first + k * b
  BY DEF Firsts
<1>1. next - first = n * b
  <2>1. PICK nb \in Nat : nb = n * b
    OBVIOUS
  <2> QED BY <2>1 DEF Apart
<1>2. PICK a \in Nat : a = d - first /\ a < next - first /\ a % b = 0
  BY DEF Dates
<1>3. PICK k \in Nat : a = k * b
  <2>1. a \div b \in Nat /\ a = (a \div b) * b
    BY <1>2
  <2> QED BY <2>1
<1>4. ASSUME ~(k < n) PROVE FALSE
  <2>1. PICK m \in Nat : k = n + m
    BY <1>4
  <2>2. a = n * b + m * b /\ m * b \in Nat /\ n * b \in Nat
    BY <1>3, <2>1
  <2> QED BY <1>1, <1>2, <2>2
<1>5. k * b = d - first /\ k * b \in Nat
  BY <1>2, <1>3
<1>6. d = first + k * b
  BY <1>5 DEF Dates
<1>7. k \in 0..n - 1
  BY <1>4
<1> QED BY <1>6, <1>7

(* A step that edits nothing is a commit or leaves the dates and claims.   *)
LEMMA CommitOrQuiet ==
  ASSUME ProcessingInv, [Next]_vars, edits' = edits
  PROVE  \/ \E s \in Schedules, n \in 0..BatchSize : Takes(s, n)
         \/ /\ \A s \in Schedules : schedule'[s].next = schedule[s].next
            /\ claims' = claims
<1>0. schedule \in [Schedules -> Schedule] /\ edits \in Nat
  BY DEF ProcessingInv, RecurringInv, TypeOK
<1>1. ASSUME NEW w \in Workers, NEW p \in worker[w].queue, PauseOrphan(w, p)
      PROVE  (\A s \in Schedules : schedule'[s].next = schedule[s].next) /\ claims' = claims
  BY <1>0, <1>1 DEF PauseOrphan, Schedule
<1>2. ASSUME NEW w \in Workers, CommitSchedule(w)
      PROVE  \E s \in Schedules, n \in 0..BatchSize : Takes(s, n)
  BY <1>2, CommitTakes
<1>3. ASSUME NEW w \in Workers, Run(w) \/ RequestStop(w) \/ FailPass(w), ~CommitSchedule(w),
             ~\E p \in worker[w].queue : PauseOrphan(w, p)
      PROVE  schedule' = schedule /\ claims' = claims
  BY <1>3 DEF Run, StartPass, EndPass, NextUser, SkipSchedule, BeginSchedule,
              PostOccurrence, StopPass, RequestStop, FailPass, tables
<1>4. CASE Owners
  <2>1. edits' = edits + 1
    BY <1>4 DEF Owners, AddSchedule, UpdateSchedule, PauseSchedule, DeactivateAccount,
                SetUserActive, DeleteTransaction, RestoreTransaction, Write
  <2> QED BY <1>0, <2>1
<1>5. CASE NextDay \/ UNCHANGED vars
  BY <1>5 DEF NextDay, vars, tables
<1> QED BY <1>1, <1>2, <1>3, <1>4, <1>5 DEF Next

(* No step of processing goes past an occurrence without its claim.        *)
LEMMA NothingSkippedStep ==
  ASSUME ProcessingInv, [Next]_vars, edits' = edits, NEW r \in Schedules
  PROVE  /\ schedule'[r].next >= schedule[r].next
         /\ \A d \in Passed(r) : <<r, d>> \in claims'
<1>0. schedule \in [Schedules -> Schedule] /\ schedule[r].next \in Nat
  BY DEF ProcessingInv, RecurringInv, TypeOK, Schedule
<1>1. CASE schedule'[r].next = schedule[r].next
  <2>1. schedule[r].next..(schedule'[r].next - 1) = {}
    BY <1>0, <1>1
  <2> QED BY <1>0, <1>1, <2>1 DEF Passed
<1>2. ASSUME NEW s \in Schedules, NEW n \in 0..BatchSize, Takes(s, n), s = r
      PROVE  /\ schedule'[r].next >= schedule[r].next
             /\ \A d \in Passed(r) : <<r, d>> \in claims'
  <2>0. PICK b, first, next : b = Stride(r) /\ first = schedule[r].next /\ next = schedule'[r].next
    OBVIOUS
  <2>1. n \in Nat /\ b \in Nat \ {0} /\ first \in Nat
    BY <1>0, <2>0, StepAssumption, BatchAssumption
       DEF ProcessingInv, RecurringInv, TypeOK, Schedule, Stride
  <2>2. Apart(first, next, n, b)
    BY <1>0, <1>2, <2>0 DEF Takes, Schedule, Stride, Apart
  <2>3. next \in Nat /\ next >= first
    <3>1. n * b \in Nat
      BY <2>1
    <3> QED BY <2>1, <2>2, <3>1 DEF Apart
  <2>4. Dates(first, next, b) \subseteq Firsts(first, n, b)
    BY <2>1, <2>2, <2>3, Strides
  <2>5. Passed(r) = Dates(first, next, b)
    BY <2>0 DEF Passed, Dates, Stride
  <2>6. ASSUME NEW d \in Firsts(first, n, b) PROVE <<r, d>> \in claims'
    BY <1>2, <2>0, <2>6 DEF Takes, Listed, Firsts
  <2> QED BY <2>0, <2>3, <2>4, <2>5, <2>6
<1>3. ASSUME NEW s \in Schedules, NEW n \in 0..BatchSize, Takes(s, n), s # r
      PROVE  schedule'[r].next = schedule[r].next
  BY <1>0, <1>3 DEF Takes
<1> QED BY <1>1, <1>2, <1>3, CommitOrQuiet

(* Processing never skips: neither a stale listing nor a full batch, a     *)
(* shutdown or an edit by the owner in between loses an occurrence.        *)
THEOREM NoneIsSkipped == Spec => NothingSkipped
<1>1. ProcessingInv /\ [Next]_vars =>
        [edits' = edits =>
           \A s \in Schedules :
             /\ schedule'[s].next >= schedule[s].next
             /\ \A d \in Passed(s) : <<s, d>> \in claims']_vars
  BY NothingSkippedStep
<1> QED BY <1>1, ProcessingInvariant, PTL DEF Spec, NothingSkipped

-----------------------------------------------------------------------------
(* The promise                                                             *)

(* An occurrence has one entry if it is claimed and none otherwise.        *)
LEMMA ClaimedOnce ==
  ASSUME NEW C, NEW L, Distinct(L), Match(C, L), NEW o
  PROVE  Cardinality({i \in 1..Len(L) : OccurrenceOf(L[i]) = o})
           = IF o \in C THEN 1 ELSE 0
<1> DEFINE S == {i \in 1..Len(L) : OccurrenceOf(L[i]) = o}
<1>1. CASE o \in C
  <2>1. PICK i \in 1..Len(L) : OccurrenceOf(L[i]) = o
    BY <1>1 DEF Match
  <2>2. S = {i}
    BY <2>1 DEF Distinct
  <2>3. Cardinality({i}) = 1
    BY FS_Singleton
  <2> QED BY <1>1, <2>2, <2>3
<1>2. CASE o \notin C
  <2>1. S = {}
    BY <1>2 DEF Match
  <2>2. Cardinality({}) = 0
    BY FS_EmptySet
  <2> QED BY <1>2, <2>1, <2>2
<1> QED BY <1>1, <1>2

ClaimedOf ==
  [s \in Schedules |-> [d \in 0..LastDay |-> IF <<s, d>> \in claims THEN 1 ELSE 0]]

LEMMA MadeIsClaimed == RecurringInv => MadeOf = ClaimedOf
<1> SUFFICES ASSUME RecurringInv PROVE MadeOf = ClaimedOf
  OBVIOUS
<1>1. \A s \in Schedules, d \in 0..LastDay :
        Cardinality({i \in 1..Len(ledger) : OccurrenceOf(ledger[i]) = <<s, d>>})
          = IF <<s, d>> \in claims THEN 1 ELSE 0
  BY ClaimedOnce DEF RecurringInv, OneEntryPerOccurrence, ClaimsMatchLedger
<1> QED BY <1>1 DEF MadeOf, ClaimedOf

LEMMA SameClaimsSameMade ==
  ASSUME RecurringInv, RecurringInv', claims' = claims
  PROVE  MadeOf' = MadeOf
<1>1. MadeOf = ClaimedOf
  BY MadeIsClaimed
<1>2. (MadeOf = ClaimedOf)'
  BY MadeIsClaimed, PTL
<1> QED BY <1>1, <1>2 DEF ClaimedOf

(* A commit keeps the promise: what it takes was due, and what had no      *)
(* entry has one now.                                                      *)
LEMMA TakesKeepsPromise ==
  ASSUME RecurringInv, RecurringInv', today' = today,
         NEW s \in Schedules, NEW n \in 1..BatchSize, Takes(s, n)
  PROVE  Promise!Process(s, n)
<1> DEFINE b == Stride(s)
           first == schedule[s].next
<1>0. schedule \in [Schedules -> Schedule]
  BY DEF RecurringInv, TypeOK
<1>1. NextOf[s] = first /\ Step[FrequencyOf[s]] = b
  BY DEF NextOf, FrequencyOf, Stride
<1>2. NextOf' = [NextOf EXCEPT ![s] = NextOf[s] + n * b]
  BY <1>0, <1>1 DEF NextOf, Takes, Schedule
<1>3. FrequencyOf' = FrequencyOf
  BY <1>0 DEF FrequencyOf, Takes, Schedule
<1>4. MadeOf' = [MadeOf EXCEPT ![s] = [d \in 0..LastDay |->
                   IF (\E k \in 0..n - 1 : d = first + k * b) /\ MadeOf[s][d] = 0
                   THEN 1 ELSE MadeOf[s][d]]]
  <2> DEFINE New(d) == \E k \in 0..n - 1 : d = first + k * b
  <2>0. MadeOf = ClaimedOf
    BY MadeIsClaimed
  <2>1. (MadeOf = ClaimedOf)'
    BY MadeIsClaimed, PTL
  <2>2. \A r \in Schedules, d \in 0..LastDay :
          <<r, d>> \in claims' <=> <<r, d>> \in claims \/ (r = s /\ New(d))
    BY DEF Takes, Listed
  <2>3. ClaimedOf' = [ClaimedOf EXCEPT ![s] = [d \in 0..LastDay |->
                        IF New(d) /\ ClaimedOf[s][d] = 0 THEN 1 ELSE ClaimedOf[s][d]]]
    <3> DEFINE N == [ClaimedOf EXCEPT ![s] = [d \in 0..LastDay |->
                      IF New(d) /\ ClaimedOf[s][d] = 0 THEN 1 ELSE ClaimedOf[s][d]]]
    <3> HIDE DEF New
    <3>1. \A r \in Schedules, d \in 0..LastDay : N[r][d] = IF <<r, d>> \in claims' THEN 1 ELSE 0
      BY <2>2 DEF ClaimedOf
    <3>2. N = [r \in Schedules |-> [d \in 0..LastDay |-> N[r][d]]]
      BY DEF ClaimedOf
    <3> QED BY <3>1, <3>2 DEF ClaimedOf
  <2> QED BY <2>0, <2>1, <2>3
<1>5. \A k \in 0..n - 1 : first + k * b <= today
  BY DEF Takes
<1> HIDE DEF b, first
<1> QED BY <1>1, <1>2, <1>3, <1>4, <1>5 DEF Promise!Process

(* What leaves day, dates and claims alone is no step of the promise.      *)
LEMMA QuietKeepsPromise ==
  ASSUME RecurringInv, RecurringInv', UNCHANGED <<today, claims>>,
         \A s \in Schedules : /\ schedule'[s].next = schedule[s].next
                              /\ schedule'[s].frequency = schedule[s].frequency
  PROVE  UNCHANGED Promise!promiseVars
<1>1. NextOf' = NextOf /\ FrequencyOf' = FrequencyOf
  BY DEF NextOf, FrequencyOf
<1> QED BY <1>1, SameClaimsSameMade DEF Promise!promiseVars

(* The owner's changes of one schedule are the promise's Reschedule.       *)
LEMMA ChangeKeepsPromise ==
  ASSUME RecurringInv, RecurringInv', UNCHANGED <<today, claims>>, NEW s \in Schedules,
         \A r \in Schedules \ {s} : schedule'[r] = schedule[r]
  PROVE  Promise!Reschedule(s)
<1>1. NextOf' \in [Schedules -> Nat] /\ FrequencyOf' \in [Schedules -> Frequencies]
  BY DEF RecurringInv, TypeOK, Schedule, NextOf, FrequencyOf
<1>2. \A r \in Schedules \ {s} : NextOf'[r] = NextOf[r] /\ FrequencyOf'[r] = FrequencyOf[r]
  BY DEF NextOf, FrequencyOf
<1> QED BY <1>1, <1>2, SameClaimsSameMade DEF Promise!Reschedule

LEMMA OwnersKeepPromise ==
  ASSUME RecurringInv, RecurringInv', Owners
  PROVE  [Promise!PromiseNext]_(Promise!promiseVars)
<1>0. UNCHANGED <<today, claims>> /\ schedule \in [Schedules -> Schedule]
  BY DEF Owners, AddSchedule, UpdateSchedule, PauseSchedule, DeactivateAccount,
         SetUserActive, DeleteTransaction, RestoreTransaction, Elsewhere, RecurringInv, TypeOK
<1>1. ASSUME NEW s \in Schedules, NEW a \in Accounts, NEW f \in Frequencies,
             NEW day \in 0..LastDay, AddSchedule(s, a, f, day) \/ UpdateSchedule(s, a, f, day)
      PROVE  Promise!Reschedule(s)
  <2>1. \A r \in Schedules \ {s} : schedule'[r] = schedule[r]
    BY <1>0, <1>1 DEF AddSchedule, UpdateSchedule
  <2> QED BY <1>0, <2>1, ChangeKeepsPromise
<1>2. ASSUME NEW s \in Schedules, PauseSchedule(s) PROVE Promise!Reschedule(s)
  <2>1. \A r \in Schedules \ {s} : schedule'[r] = schedule[r]
    BY <1>0, <1>2 DEF PauseSchedule
  <2> QED BY <1>0, <2>1, ChangeKeepsPromise
<1>3. CASE schedule' = schedule
  BY <1>0, <1>3, QuietKeepsPromise
<1>4. CASE \/ \E s \in Schedules, a \in Accounts, f \in Frequencies, day \in 0..LastDay :
                AddSchedule(s, a, f, day) \/ UpdateSchedule(s, a, f, day)
           \/ \E s \in Schedules : PauseSchedule(s)
  BY <1>1, <1>2, <1>4 DEF Promise!PromiseNext
<1> QED BY <1>3, <1>4
        DEF Owners, DeactivateAccount, SetUserActive, DeleteTransaction, RestoreTransaction

(* A pass keeps it: a commit is one Process, or nothing was taken.         *)
LEMMA CommitKeepsPromise ==
  ASSUME ProcessingInv, RecurringInv', NEW w \in Workers, CommitSchedule(w)
  PROVE  [Promise!PromiseNext]_(Promise!promiseVars)
<1>0. today' = today /\ schedule \in [Schedules -> Schedule]
  BY DEF CommitSchedule, ProcessingInv, RecurringInv, TypeOK
<1>1. PICK s \in Schedules, n \in 0..BatchSize : Takes(s, n)
  BY CommitTakes
<1>2. CASE n = 0
  <2>1. schedule[s].next \in Nat /\ Stride(s) \in Nat
    BY <1>0, StepAssumption DEF Schedule, Stride
  <2>2. schedule[s].next + 0 * Stride(s) = schedule[s].next
    BY <2>1
  <2>3. Listed(s, 0) = {}
    BY DEF Listed
  <2>4. schedule' = [schedule EXCEPT ![s].next = schedule[s].next] /\ claims' = claims
    BY <1>1, <1>2, <2>2, <2>3 DEF Takes
  <2>5. \A r \in Schedules : /\ schedule'[r].next = schedule[r].next
                             /\ schedule'[r].frequency = schedule[r].frequency
    BY <1>0, <2>4 DEF Schedule
  <2> QED BY <1>0, <2>4, <2>5, QuietKeepsPromise DEF ProcessingInv
<1>3. CASE n # 0
  <2>1. n \in 1..BatchSize
    BY <1>3, BatchAssumption
  <2>2. Promise!Process(s, n)
    BY <1>0, <1>1, <2>1, TakesKeepsPromise DEF ProcessingInv
  <2> QED BY <2>1, <2>2 DEF Promise!PromiseNext
<1> QED BY <1>2, <1>3

LEMMA StepKeepsPromise ==
  ASSUME ProcessingInv, RecurringInv', [Next]_vars
  PROVE  [Promise!PromiseNext]_(Promise!promiseVars)
<1>0. RecurringInv /\ schedule \in [Schedules -> Schedule]
  BY DEF ProcessingInv, RecurringInv, TypeOK
<1>1. ASSUME NEW w \in Workers, NEW p \in worker[w].queue, PauseOrphan(w, p)
      PROVE  UNCHANGED Promise!promiseVars
  <2>1. \A s \in Schedules : /\ schedule'[s].next = schedule[s].next
                             /\ schedule'[s].frequency = schedule[s].frequency
    BY <1>0, <1>1 DEF PauseOrphan, Schedule
  <2>2. UNCHANGED <<today, claims>>
    BY <1>1 DEF PauseOrphan
  <2> QED BY <1>0, <2>1, <2>2, QuietKeepsPromise
<1>2. CASE UNCHANGED <<today, claims, schedule>>
  BY <1>0, <1>2, QuietKeepsPromise
<1>3. ASSUME NEW w \in Workers, Run(w) \/ RequestStop(w) \/ FailPass(w), ~CommitSchedule(w),
             ~\E p \in worker[w].queue : PauseOrphan(w, p)
      PROVE  UNCHANGED <<today, claims, schedule>>
  BY <1>3 DEF Run, StartPass, EndPass, NextUser, SkipSchedule, BeginSchedule,
              PostOccurrence, StopPass, RequestStop, FailPass, tables
<1>4. CASE NextDay
  <2>1. today' = today + 1 /\ UNCHANGED <<schedule, claims>>
    BY <1>4 DEF NextDay, tables
  <2>2. NextOf' = NextOf /\ FrequencyOf' = FrequencyOf
    BY <2>1 DEF NextOf, FrequencyOf
  <2> QED BY <1>0, <2>1, <2>2, SameClaimsSameMade DEF Promise!NewDay, Promise!PromiseNext
<1>5. CASE UNCHANGED vars
  BY <1>2, <1>5 DEF vars, tables
<1> QED BY <1>0, <1>1, <1>2, <1>3, <1>4, <1>5, CommitKeepsPromise, OwnersKeepPromise DEF Next

LEMMA InitKeepsPromise == Init => Promise!PromiseInit
<1> SUFFICES ASSUME Init PROVE Promise!PromiseInit
  OBVIOUS
<1>1. RecurringInv /\ claims = {} /\ today = 0
  BY InitInv DEF Init
<1>2. NextOf \in [Schedules -> Nat] /\ FrequencyOf \in [Schedules -> Frequencies]
  BY <1>1 DEF RecurringInv, TypeOK, Schedule, NextOf, FrequencyOf
<1>3. MadeOf = [s \in Schedules |-> [d \in 0..LastDay |-> 0]]
  BY <1>1, MadeIsClaimed DEF ClaimedOf
<1> QED BY <1>1, <1>2, <1>3 DEF Promise!PromiseInit

(* The tables implement the promise: with any number of processes that     *)
(* take turns, fail and are stopped, processing is as if one actor took    *)
(* each schedule over due occurrences and made what was missing.           *)
THEOREM PromiseIsKept == Spec => ImplementsPromise
<1>1. ProcessingInv /\ RecurringInv' /\ [Next]_vars
        => [Promise!PromiseNext]_(Promise!promiseVars)
  BY StepKeepsPromise
<1> QED BY <1>1, InitKeepsPromise, ProcessingInvariant, RecurringInvariant, PTL
        DEF Spec, ImplementsPromise, Promise!PromiseSpec
============================================================================
