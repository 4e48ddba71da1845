----------------------------- MODULE Recurring -----------------------------
(***************************************************************************)
(* Recurring schedules and the processes that turn their due occurrences   *)
(* into ledger entries.                                                    *)
(*                                                                         *)
(* Several processes may run a processing pass at once: the API process    *)
(* has a background worker, a second API process has another, and the      *)
(* maintenance command runs the same pass once.  A pass lists due          *)
(* schedules without a lock, then takes each of them in a write            *)
(* transaction of its own.  The database admits one write transaction at a *)
(* time (BEGIN IMMEDIATE, or the PostgreSQL writer lock): writer is the    *)
(* process inside one, and draft is the image of the tables it has written *)
(* and not committed.  Everybody else reads the committed tables.          *)
(*                                                                         *)
(* The operations of the API are one write transaction each, so each is    *)
(* one step that needs the writer reservation to be free.                  *)
(***************************************************************************)
EXTENDS Naturals, Sequences, FiniteSets

CONSTANTS
  Users,           \* owners of accounts
  Accounts,        \* the accounts
  Owner,           \* [Accounts -> Users], immutable
  MainAccounts,    \* the account of each user that cannot be deactivated
  Schedules,       \* ids of recurring schedules, numbers in insertion order
  Frequencies,     \* how often a schedule recurs
  Step,            \* [Frequencies -> days to the next occurrence]
  Workers,         \* processes that run processing passes
  Nobody,          \* the writer when no write transaction is open
  BatchSize,       \* occurrences of one schedule per transaction
  ScheduleBatch,   \* schedules per pass
  LastDay,         \* bound: the clock stops here
  MaxEdits,        \* bound: owner and operator changes
  MaxFaults        \* bound: shutdowns, crashes and failed passes

ASSUME OwnerAssumption == Owner \in [Accounts -> Users] /\ MainAccounts \subseteq Accounts
ASSUME ScheduleAssumption == Schedules \subseteq Nat /\ Schedules # {}
ASSUME AccountAssumption == Accounts # {}
ASSUME StepAssumption == Step \in [Frequencies -> Nat \ {0}] /\ Frequencies # {}
ASSUME WorkerAssumption == Nobody \notin Workers
ASSUME BatchAssumption == BatchSize \in Nat \ {0} /\ ScheduleBatch \in Nat \ {0}
ASSUME BoundAssumption == LastDay \in Nat /\ MaxEdits \in Nat /\ MaxFaults \in Nat

VARIABLES
  today,           \* the business day
  userActive,      \* [Users -> BOOLEAN]
  accountActive,   \* [Accounts -> BOOLEAN]
  schedule,        \* recurring_transactions: [Schedules -> Schedule]
  claims,          \* recurring_occurrences: pairs <<schedule, due day>>
  ledger,          \* the generated transactions, in insertion order
  writer,          \* the process in a write transaction, or Nobody
  draft,           \* its uncommitted claims and ledger
  worker,          \* [Workers -> where the pass is and what it remembers]
  stop,            \* [Workers -> a shutdown was requested]
  edits, faults    \* counters for the bounds

tables == <<userActive, accountActive, schedule, claims, ledger>>
vars == <<today, tables, writer, draft, worker, stop, edits, faults>>

-----------------------------------------------------------------------------
(* Types                                                                   *)

Schedule == [state : {"absent", "active", "paused"}, next : Nat,
             frequency : Frequencies, account : Accounts]
Row == [schedule : Schedules, due : Nat, account : Accounts, deleted : BOOLEAN]
Pass == [pc : {"idle", "pass", "txn"}, through : Nat,
         listing : SUBSET (Nat \X Schedules), queue : SUBSET (Nat \X Schedules),
         current : Schedules, occurrence : Nat, count : Nat]

TypeOK ==
  /\ today \in Nat
  /\ userActive \in [Users -> BOOLEAN]
  /\ accountActive \in [Accounts -> BOOLEAN]
  /\ schedule \in [Schedules -> Schedule]
  /\ claims \subseteq Schedules \X Nat
  /\ ledger \in Seq(Row)
  /\ writer \in Workers \cup {Nobody}
  /\ draft \in [claims : SUBSET (Schedules \X Nat), ledger : Seq(Row)]
  /\ worker \in [Workers -> Pass]
  /\ stop \in [Workers -> BOOLEAN]
  /\ edits \in Nat /\ faults \in Nat

-----------------------------------------------------------------------------
(* The queries                                                             *)

(* ORDER BY next_date, id                                                  *)
Before(p, q) == p[1] < q[1] \/ (p[1] = q[1] /\ p[2] < q[2])
IsFirst(p, S) == p \in S /\ \A q \in S \ {p} : Before(p, q)
Limit(S, n) == {p \in S : Cardinality({q \in S : Before(q, p)}) < n}

OwnerOf(s) == Owner[schedule[s].account]
IsDue(s, through) == schedule[s].state = "active" /\ schedule[s].next <= through
Keyed(S) == {<<schedule[s].next, s>> : s \in S}

NoDraft == [claims |-> {}, ledger |-> <<>>]
AnySchedule == CHOOSE s \in Schedules : TRUE
Between(pc, through, listing, queue) ==
  [pc |-> pc, through |-> through, listing |-> listing, queue |-> queue,
   current |-> AnySchedule, occurrence |-> 0, count |-> 0]
NoPass == Between("idle", 0, {}, {})
Absent == [state |-> "absent", next |-> 0, frequency |-> CHOOSE f \in Frequencies : TRUE,
           account |-> CHOOSE a \in Accounts : TRUE]

-----------------------------------------------------------------------------
(* A processing pass.  process_recurring lists the due schedules of active *)
(* users once, oldest first and at most ScheduleBatch of them, with the    *)
(* business day of the start of the pass.                                  *)

StartPass(w) ==
  /\ worker[w].pc = "idle" /\ ~stop[w]
  /\ LET due == {s \in Schedules : IsDue(s, today) /\ userActive[OwnerOf(s)]}
     IN /\ due # {}
        /\ worker' = [worker EXCEPT ![w] = 
             Between("pass", today, Limit(Keyed(due), ScheduleBatch), {})]
  /\ UNCHANGED <<today, tables, writer, draft, stop, edits, faults>>

(* The listing is grouped by user in order of first appearance; process_due *)
(* lists the group again, with the state it has by then.                   *)
NextUser(w, p) ==
  /\ worker[w].pc = "pass" /\ worker[w].queue = {} /\ ~stop[w]
  /\ IsFirst(p, worker[w].listing)
  /\ LET group == {q \in worker[w].listing : OwnerOf(q[2]) = OwnerOf(p[2])}
         due == {s \in Schedules : IsDue(s, worker[w].through)
                                     /\ \E q \in group : q[2] = s}
     IN worker' = [worker EXCEPT ![w] =
          Between("pass", @.through, @.listing \ group, Limit(Keyed(due), ScheduleBatch))]
  /\ UNCHANGED <<today, tables, writer, draft, stop, edits, faults>>

EndPass(w) ==
  /\ worker[w].pc = "pass" /\ worker[w].queue = {} /\ worker[w].listing = {}
  /\ worker' = [worker EXCEPT ![w] = NoPass]
  /\ UNCHANGED <<today, tables, writer, draft, stop, edits, faults>>

(* The head p of the queue, in a write transaction: the row is read again. *)
StillDueAnyUser(w, s) == IsDue(s, worker[w].through)   \* variant: user not checked
StillDue(w, s) == IsDue(s, worker[w].through) /\ userActive[OwnerOf(s)]

Take(w, p) == /\ worker[w].pc = "pass" /\ ~stop[w]
              /\ writer = Nobody
              /\ IsFirst(p, worker[w].queue)

(* Another process, or the owner, got there first: nothing is written.     *)
SkipSchedule(w, p) ==
  /\ Take(w, p) /\ ~StillDue(w, p[2])
  /\ worker' = [worker EXCEPT ![w].queue = @ \ {p}]
  /\ UNCHANGED <<today, tables, writer, draft, stop, edits, faults>>

(* The account was deactivated: the schedule is paused, nothing is posted. *)
PauseOrphan(w, p) ==
  /\ Take(w, p) /\ StillDue(w, p[2])
  /\ ~accountActive[schedule[p[2]].account]
  /\ schedule' = [schedule EXCEPT ![p[2]].state = "paused"]
  /\ worker' = [worker EXCEPT ![w].queue = @ \ {p}]
  /\ UNCHANGED <<today, userActive, accountActive, claims, ledger,
                 writer, draft, stop, edits, faults>>

StartAsListed(p) == p[1]              \* variant: the listed date, not the row's
StartAt(p) == schedule[p[2]].next

BeginSchedule(w, p) ==
  /\ Take(w, p) /\ StillDue(w, p[2])
  /\ accountActive[schedule[p[2]].account]
  /\ writer' = w
  /\ draft' = [claims |-> claims, ledger |-> ledger]
  /\ worker' = [worker EXCEPT ![w] =
       [worker[w] EXCEPT !.pc = "txn", !.queue = worker[w].queue \ {p},
                         !.current = p[2], !.occurrence = StartAt(p), !.count = 0]]
  /\ UNCHANGED <<today, tables, stop, edits, faults>>

(* One round of the loop: claim the occurrence, insert its transaction if  *)
(* the claim is new, go to the next occurrence.                            *)
InLoopOneMore(w) ==                  \* variant: one occurrence too many
  worker[w].occurrence <= worker[w].through /\ worker[w].count <= BatchSize
InLoop(w) == worker[w].occurrence <= worker[w].through /\ worker[w].count < BatchSize
Occurrence(w) == <<worker[w].current, worker[w].occurrence>>
NextOccurrence(w) == worker[w].occurrence + Step[schedule[worker[w].current].frequency]
NewClaimUnchecked(w) == TRUE         \* variant: claim not consulted
NewClaimInverted(w) == Occurrence(w) \in draft.claims   \* variant: rowcount misread
NewClaim(w) == Occurrence(w) \notin draft.claims
NewRow(w) == [schedule |-> worker[w].current, due |-> worker[w].occurrence,
              account |-> schedule[worker[w].current].account, deleted |-> FALSE]

PostOccurrence(w) ==
  /\ worker[w].pc = "txn" /\ InLoop(w) /\ ~stop[w]
  /\ draft' = [claims |-> draft.claims \cup {Occurrence(w)},
               ledger |-> IF NewClaim(w) THEN Append(draft.ledger, NewRow(w))
                          ELSE draft.ledger]
  /\ worker' = [worker EXCEPT ![w] =
       [worker[w] EXCEPT !.occurrence = NextOccurrence(w), !.count = worker[w].count + 1]]
  /\ UNCHANGED <<today, tables, writer, stop, edits, faults>>

(* The loop is over, or a shutdown cut it short: the schedule moves to the *)
(* first occurrence not taken and everything is committed together.        *)
ResumeTomorrow(w) == worker[w].through + 1     \* variant: forgets a full batch
ResumeAtLast(w) ==                   \* variant: the last one taken, not the next
  worker[w].occurrence - Step[schedule[worker[w].current].frequency]
ResumeAt(w) == worker[w].occurrence

CommitSchedule(w) ==
  /\ worker[w].pc = "txn" /\ (~InLoop(w) \/ stop[w])
  /\ schedule' = [schedule EXCEPT ![worker[w].current].next = ResumeAt(w)]
  /\ claims' = draft.claims /\ ledger' = draft.ledger
  /\ writer' = Nobody /\ draft' = NoDraft
  /\ worker' = [worker EXCEPT ![w] = Between("pass", @.through, @.listing, @.queue)]
  /\ UNCHANGED <<today, userActive, accountActive, stop, edits, faults>>

(* A pass ends early: the process notices the shutdown between schedules.  *)
StopPass(w) ==
  /\ worker[w].pc \in {"idle", "pass"} /\ stop[w]
  /\ worker' = [worker EXCEPT ![w] = NoPass]
  /\ stop' = [stop EXCEPT ![w] = FALSE]     \* and the process is started again
  /\ UNCHANGED <<today, tables, writer, draft, edits, faults>>

RequestStop(w) ==
  /\ faults < MaxFaults /\ ~stop[w]
  /\ stop' = [stop EXCEPT ![w] = TRUE]
  /\ faults' = faults + 1
  /\ UNCHANGED <<today, tables, writer, draft, worker, edits>>

(* An exception (the database is busy, a statement fails) leaves the pass, *)
(* or the process dies: an open transaction is rolled back, what the pass  *)
(* remembered is lost, and a later pass starts from the tables.            *)
StillReserved(w) == writer           \* variant: the reservation leaks
Released(w) == IF writer = w THEN Nobody ELSE writer

FailPass(w) ==
  /\ faults < MaxFaults /\ worker[w].pc # "idle"
  /\ worker' = [worker EXCEPT ![w] = NoPass]
  /\ writer' = Released(w)
  /\ draft' = IF writer = w THEN NoDraft ELSE draft
  /\ faults' = faults + 1
  /\ UNCHANGED <<today, tables, stop, edits>>

-----------------------------------------------------------------------------
(* Operations of the API, each one write transaction                       *)

Write == writer = Nobody /\ edits < MaxEdits /\ edits' = edits + 1
Elsewhere == UNCHANGED <<today, writer, draft, worker, stop, faults>>

AddSchedule(s, a, f, start) ==
  /\ Write
  /\ schedule[s].state = "absent" /\ accountActive[a]
  /\ schedule' = [schedule EXCEPT ![s] =
                    [state |-> "active", next |-> start + Step[f],
                     frequency |-> f, account |-> a]]
  /\ UNCHANGED <<userActive, accountActive, claims, ledger>> /\ Elsewhere

(* An owner may move a schedule to another account, and to any day.        *)
UpdateSchedule(s, a, f, day) ==
  /\ Write
  /\ schedule[s].state = "active" /\ Owner[a] = OwnerOf(s) /\ accountActive[a]
  /\ schedule' = [schedule EXCEPT ![s] =
                    [@ EXCEPT !.next = day, !.frequency = f, !.account = a]]
  /\ UNCHANGED <<userActive, accountActive, claims, ledger>> /\ Elsewhere

PauseSchedule(s) ==
  /\ Write
  /\ schedule[s].state = "active"
  /\ schedule' = [schedule EXCEPT ![s].state = "paused"]
  /\ UNCHANGED <<userActive, accountActive, claims, ledger>> /\ Elsewhere

HasDueSchedule(a) ==                 \* variant: only schedules due today block
  \E s \in Schedules : IsDue(s, today) /\ schedule[s].account = a
HasActiveSchedule(a) ==
  \E s \in Schedules : schedule[s].state = "active" /\ schedule[s].account = a

DeactivateAccount(a) ==
  /\ Write
  /\ a \notin MainAccounts /\ accountActive[a]
  /\ ~HasActiveSchedule(a)
  /\ accountActive' = [accountActive EXCEPT ![a] = FALSE]
  /\ UNCHANGED <<userActive, schedule, claims, ledger>> /\ Elsewhere

SetUserActive(u, active) ==
  /\ Write
  /\ userActive[u] # active
  /\ userActive' = [userActive EXCEPT ![u] = active]
  /\ UNCHANGED <<accountActive, schedule, claims, ledger>> /\ Elsewhere

(* Generated transactions are ordinary ones: their owner may delete them   *)
(* and restore them, the latter only while their account is active.        *)
DeleteTransaction(i) ==
  /\ Write
  /\ ~ledger[i].deleted
  /\ ledger' = [ledger EXCEPT ![i].deleted = TRUE]
  /\ UNCHANGED <<userActive, accountActive, schedule, claims>> /\ Elsewhere

RestoreTransaction(i) ==
  /\ Write
  /\ ledger[i].deleted /\ accountActive[ledger[i].account] /\ ledger[i].due <= today
  /\ ledger' = [ledger EXCEPT ![i].deleted = FALSE]
  /\ UNCHANGED <<userActive, accountActive, schedule, claims>> /\ Elsewhere

NextDay ==
  /\ today < LastDay
  /\ today' = today + 1
  /\ UNCHANGED <<tables, writer, draft, worker, stop, edits, faults>>

-----------------------------------------------------------------------------
(* The initial tables may be old: a schedule may still be active on an     *)
(* account deactivated before the rule that forbids it.                    *)
Init ==
  /\ today = 0
  /\ userActive = [u \in Users |-> TRUE]
  /\ accountActive \in [Accounts -> BOOLEAN] /\ \A a \in MainAccounts : accountActive[a]
  /\ schedule \in [Schedules -> {Absent} \cup
       [state : {"active"}, next : 0..LastDay, frequency : Frequencies, account : Accounts]]
  /\ claims = {} /\ ledger = <<>>
  /\ writer = Nobody /\ draft = NoDraft
  /\ worker = [w \in Workers |-> NoPass]
  /\ stop = [w \in Workers |-> FALSE]
  /\ edits = 0 /\ faults = 0

Run(w) == \/ StartPass(w) \/ EndPass(w)
          \/ \E p \in worker[w].listing : NextUser(w, p)
          \/ \E p \in worker[w].queue :
               SkipSchedule(w, p) \/ PauseOrphan(w, p) \/ BeginSchedule(w, p)
          \/ PostOccurrence(w) \/ CommitSchedule(w) \/ StopPass(w)

Owners ==
  \/ \E s \in Schedules, a \in Accounts, f \in Frequencies, day \in 0..LastDay :
       AddSchedule(s, a, f, day) \/ UpdateSchedule(s, a, f, day)
  \/ \E s \in Schedules : PauseSchedule(s)
  \/ \E a \in Accounts : DeactivateAccount(a)
  \/ \E u \in Users, active \in BOOLEAN : SetUserActive(u, active)
  \/ \E i \in 1..Len(ledger) : DeleteTransaction(i) \/ RestoreTransaction(i)

Next ==
  \/ \E w \in Workers : Run(w) \/ RequestStop(w) \/ FailPass(w)
  \/ Owners
  \/ NextDay

Spec == Init /\ [][Next]_vars

(* Each process's loop runs again after every pass, failed or not, until   *)
(* the process is stopped, and a stopped process is started again.  Faults *)
(* end only because MaxFaults bounds them; nothing is assumed of owners or *)
(* of the calendar.                                                        *)
FairSpec == Spec /\ \A w \in Workers : WF_vars(Run(w))

-----------------------------------------------------------------------------
(* Properties                                                              *)

(* Workers, retries, rewound dates and deleted entries notwithstanding, an *)
(* occurrence of a schedule has at most one entry for ever                 *)
(* (recurring_occurrences in process_due).                                 *)
OccurrenceOf(row) == <<row.schedule, row.due>>
Distinct(rows) == \A i, j \in 1..Len(rows) :
                    OccurrenceOf(rows[i]) = OccurrenceOf(rows[j]) => i = j
OneEntryPerOccurrence == Distinct(ledger)

(* A claim and its entry are one: a claim left without an entry would lose *)
(* the occurrence for good, an entry without a claim could be made again.  *)
Match(claimed, rows) == claimed = {OccurrenceOf(rows[i]) : i \in 1..Len(rows)}
ClaimsMatchLedger == Match(claims, ledger)

(* An active schedule on an inactive account can only be an old one: none  *)
(* is made, whatever the order of creating, moving and deactivating        *)
(* (AccountRepository.deactivate against RecurringRepository.add, update). *)
Orphan(s) == schedule[s].state = "active" /\ ~accountActive[schedule[s].account]
NoNewOrphan == [][\A s \in Schedules : Orphan(s)' => Orphan(s)]_vars

(* What is posted goes to an account that is active at that moment, of a   *)
(* user who is active, on a day that has come, although both were read     *)
(* before the entry was written and the day is that of the pass's start.   *)
PostedWhereAllowed ==
  [][\A i \in Len(ledger) + 1..Len(ledger') :
       /\ accountActive[ledger'[i].account]
       /\ userActive[Owner[ledger'[i].account]]
       /\ ledger'[i].due <= today]_vars

(* Processing never skips: when it takes a schedule forward, every         *)
(* occurrence it passes has its entry, so neither a stale listing nor a    *)
(* full batch, a shutdown or an edit by the owner in between loses one.    *)
Passed(s) == {d \in schedule[s].next..(schedule'[s].next - 1) :
                (d - schedule[s].next) % Step[schedule[s].frequency] = 0}
NothingSkipped ==
  [][edits' = edits =>
       \A s \in Schedules :
         /\ schedule'[s].next >= schedule[s].next
         /\ \A d \in Passed(s) : <<s, d>> \in claims']_vars

(* Why the above hold: what the writer has drafted obeys the same rules as  *)
(* what is committed, and the conditions it read when it took the          *)
(* reservation still hold.  This is the inductive invariant of the proofs. *)
OneWriter == \A w \in Workers : worker[w].pc = "txn" <=> writer = w
PassesStarted == \A w \in Workers : worker[w].through <= today
DraftFollows(w) ==
  LET account == schedule[worker[w].current].account IN
  /\ Distinct(draft.ledger) /\ Match(draft.claims, draft.ledger)
  /\ accountActive[account] /\ userActive[Owner[account]]
  /\ Len(ledger) <= Len(draft.ledger)
  /\ \A i \in Len(ledger) + 1..Len(draft.ledger) :
       draft.ledger[i].account = account /\ draft.ledger[i].due <= today
RecurringInv ==
  /\ TypeOK /\ OneEntryPerOccurrence /\ ClaimsMatchLedger
  /\ OneWriter /\ PassesStarted
  /\ \A w \in Workers : writer = w => DraftFollows(w)

(* Why nothing is skipped: a draft holds the occurrences of its schedule,   *)
(* one after another from the date in its row, none after the pass's day.  *)
Stride(s) == Step[schedule[s].frequency]
Listed(s, n) == {<<s, schedule[s].next + k * Stride(s)>> : k \in 0..n - 1}
DraftIsBatch(w) ==
  LET s == worker[w].current
      n == worker[w].count
  IN /\ n <= BatchSize
     /\ worker[w].occurrence = schedule[s].next + n * Stride(s)
     /\ \A k \in 0..n - 1 : schedule[s].next + k * Stride(s) <= worker[w].through
     /\ draft.claims = claims \cup Listed(s, n)
BatchInv == \A w \in Workers : writer = w => DraftIsBatch(w)
ProcessingInv == RecurringInv /\ BatchInv

(* Workers never wait on each other for ever: what is due is processed, or *)
(* the owner or an operator took it away.                                  *)
Waiting(s) == IsDue(s, today) /\ userActive[OwnerOf(s)]
DueIsHandled == \A s \in Schedules : Waiting(s) ~> ~Waiting(s)

(* The tables implement what processing promises: an entry counts, deleted  *)
(* or not, for the occurrence that it was made for.                        *)
NextOf == [s \in Schedules |-> schedule[s].next]
FrequencyOf == [s \in Schedules |-> schedule[s].frequency]
MadeOf == [s \in Schedules |-> [d \in 0..LastDay |->
             Cardinality({i \in 1..Len(ledger) : OccurrenceOf(ledger[i]) = <<s, d>>})]]
Promise == INSTANCE OccurrencePromise WITH
  Days <- 0..LastDay, next <- NextOf, frequency <- FrequencyOf, made <- MadeOf
ImplementsPromise == Promise!PromiseSpec
============================================================================
