---------------------------- MODULE WorkerHealth ----------------------------
(***************************************************************************)
(* The loop that runs recurring passes in a thread, with delays that grow  *)
(* as passes fail; the watcher beside it; and the record of health they    *)
(* share, from which alerts and recoveries are announced.  Both are tasks  *)
(* of one event loop: what one does between two waits is one step.  Times  *)
(* are relative: since something began or until it is due.                 *)
(***************************************************************************)
EXTENDS Integers, FiniteSets

CONSTANTS
  Interval, MaxBackoff,    \* seconds between passes, at least and at most
  Stale,                   \* how long a pass or a silence may last
  WatchEvery,              \* min(5, interval)
  Threshold,               \* failures in a row that are an alert
  Late,                    \* how late the event loop may serve a timer
  MaxFailures              \* bound: more failures than this make no difference

(* What is assumed of the constants.                                       *)
TimeAssumption ==
  /\ {Interval, MaxBackoff, Stale, WatchEvery, Threshold, MaxFailures} \subseteq Nat \ {0}
  /\ Late \in Nat /\ Late <= Stale
  /\ Interval <= MaxBackoff /\ WatchEvery <= Interval
  /\ Threshold <= MaxFailures

VARIABLES
  loop,        \* the loop: "running" a pass, "resting" until the next, "ended"
  pass,        \* the thread's pass: "none", "working", or its outcome
  sleep,       \* until the loop wakes
  watch,       \* until the watcher looks again
  watching,    \* whether the watcher is there
  stopping, threadStop,                  \* the two events of a shutdown
  alive, failures, backlog, age, until,  \* the record of health; backlog: lag_days
                                         \* is at its limit or over it
  alerted      \* the reasons announced last

vars == <<loop, pass, sleep, watch, watching, stopping, threadStop,
          alive, failures, backlog, age, until, alerted>>

-----------------------------------------------------------------------------
Outcomes == {"ok", "behind", "failed"}     \* behind: some are still overdue
AllReasons == {"worker_stopped", "processing_stalled", "heartbeat_stale",
               "repeated_failures", "retrying", "backlog_lag"}
Oldest == Stale + WatchEvery + Late + 1    \* ages above make no difference

TypeOK ==
  /\ loop \in {"resting", "running", "ended"}
  /\ pass \in {"none", "working"} \cup Outcomes
  /\ sleep \in Int /\ watch \in Int /\ until \in Int
  /\ {watching, stopping, threadStop, alive, backlog} \subseteq BOOLEAN
  /\ failures \in 0..MaxFailures /\ age \in 0..Oldest
  /\ alerted \in SUBSET AllReasons

(* The reasons of a snapshot of the record.                                *)
ReasonsOf(a, running, since, due, f, b) ==
  {r \in AllReasons :
     \/ r = "worker_stopped" /\ ~a
     \/ r = "processing_stalled" /\ running /\ since > Stale
     \/ r = "heartbeat_stale" /\ ~running /\ due < -Stale
     \/ r = "repeated_failures" /\ f >= Threshold
     \/ r = "retrying" /\ f > 0 /\ f < Threshold
     \/ r = "backlog_lag" /\ b}
Running == loop = "running"
Reasons == ReasonsOf(alive, Running, age, until, failures, backlog)

(* What is announced if it is not what was announced last (observe), of    *)
(* the record as it is after this step.                                    *)
Observe == alerted' = Reasons' \ {"retrying"}
NoObserve == UNCHANGED alerted

-----------------------------------------------------------------------------
(* The loop                                                                *)

(* It wakes when it is time or when the program stops.                     *)
StopUnseen == FALSE                          \* variant: while True
StopSeen == stopping

Wake ==
  /\ loop = "resting" /\ (sleep <= 0 \/ StopSeen)
  /\ IF StopSeen
     THEN loop' = "ended" /\ UNCHANGED <<pass, age>>
     ELSE loop' = "running" /\ pass' = "working" /\ age' = 0
  /\ UNCHANGED <<sleep, watch, watching, stopping, threadStop, alive, failures,
                 backlog, until, alerted>>

PassEnds(o) ==
  /\ pass = "working"
  /\ pass' = o
  /\ UNCHANGED <<loop, sleep, watch, watching, stopping, threadStop, alive, failures,
                 backlog, age, until, alerted>>

Least(x, y) == IF x <= y THEN x ELSE y
Backoff(f) ==
  LET delay == Interval * 2 ^ (f - 1) IN IF delay \in 1..MaxBackoff THEN delay ELSE MaxBackoff
DelayKept(f) == IF f = 0 THEN MaxBackoff ELSE Backoff(f)    \* variant: not reset
Delay(f) == IF f = 0 THEN Interval ELSE Backoff(f)
RecordedInterval(f) == Interval              \* variant: the record knows no backoff
Recorded(f) == Delay(f)

AfterSuccess == IF pass = "failed" THEN "ended" ELSE "resting"  \* variant: no retry
AfterPass == "resting"

FinishPass ==
  LET f == IF pass = "failed" THEN Least(MaxFailures, failures + 1) ELSE 0 IN
  /\ Running /\ pass \in Outcomes
  /\ pass' = "none" /\ loop' = AfterPass
  /\ failures' = f /\ backlog' = (pass = "behind")
  /\ sleep' = Delay(f) /\ until' = Recorded(f)
  /\ UNCHANGED <<watch, watching, stopping, threadStop, alive, age>>
  /\ IF stopping THEN NoObserve ELSE Observe

(* The watcher                                                             *)
ObserveAfterPasses == NoObserve              \* variant: only the loop observes
WatcherObserves == Observe
Watch ==
  /\ watching /\ ~stopping /\ watch <= 0
  /\ watch' = WatchEvery
  /\ UNCHANGED <<loop, pass, sleep, watching, stopping, threadStop, alive, failures,
                 backlog, age, until>>
  /\ WatcherObserves

WatchEnds ==
  /\ watching /\ StopSeen
  /\ watching' = FALSE /\ threadStop' = TRUE
  /\ UNCHANGED <<loop, pass, sleep, watch, stopping, alive, failures, backlog, age,
                 until, alerted>>

(* Shutdown, and the end of both tasks; or one of them ends by itself, and *)
(* takes the other with it.                                                *)
Stop ==
  /\ ~stopping /\ alive
  /\ stopping' = TRUE
  /\ UNCHANGED <<loop, pass, sleep, watch, watching, threadStop, alive, failures,
                 backlog, age, until, alerted>>

Ended ==
  /\ alive /\ loop = "ended" /\ ~watching
  /\ alive' = FALSE
  /\ UNCHANGED <<loop, pass, sleep, watch, watching, stopping, threadStop, failures,
                 backlog, age, until, alerted>>

Break ==
  /\ alive /\ ~stopping
  /\ alive' = FALSE /\ loop' = "ended" /\ watching' = FALSE /\ threadStop' = TRUE
  /\ UNCHANGED <<pass, sleep, watch, stopping, failures, backlog, age, until>>
  /\ Observe

(* Time passes as long as no timer is later than the event loop may be.    *)
Tick ==
  /\ alive
  /\ loop = "resting" => sleep > -Late
  /\ watching => watch > -Late \/ stopping
  /\ Running => pass = "working"
  /\ sleep' = IF loop = "resting" THEN sleep - 1 ELSE sleep
  /\ watch' = IF watching /\ ~stopping THEN watch - 1 ELSE watch
  /\ age' = IF Running THEN Least(Oldest, age + 1) ELSE age
  /\ until' = IF loop = "resting" THEN until - 1 ELSE until
  /\ UNCHANGED <<loop, pass, watching, stopping, threadStop, alive, failures, backlog, alerted>>

Init ==
  /\ loop = "resting" /\ pass = "none" /\ sleep = 0 /\ until = 0 /\ age = 0
  /\ watch = 0 /\ watching = TRUE
  /\ stopping = FALSE /\ threadStop = FALSE /\ alive = TRUE
  /\ failures = 0 /\ backlog = FALSE /\ alerted = {}

Next ==
  \/ Wake \/ FinishPass \/ Watch \/ WatchEnds \/ Stop \/ Ended \/ Break \/ Tick
  \/ \E o \in Outcomes : PassEnds(o)

Spec == Init /\ [][Next]_vars

(* The event loop serves its tasks and time passes.                        *)
Served == WF_vars(Wake \/ FinishPass) /\ WF_vars(Watch \/ WatchEnds) /\ WF_vars(Ended)
LiveSpec == Spec /\ Served /\ WF_vars(Tick)

-----------------------------------------------------------------------------
(* Properties                                                              *)

(* A pass that hangs is announced soon after it is stale, though the loop  *)
(* itself waits for it (_watch).                                           *)
StallIsAlerted ==
  Running /\ alive /\ ~stopping /\ age > Stale + WatchEvery + Late =>
    "processing_stalled" \in alerted

(* The delays after failures are no silence: a loop that rests as it       *)
(* should is never found stale (docs/operations.md:65, finish).            *)
BackoffIsNoAlarm == loop = "resting" /\ alive => "heartbeat_stale" \notin Reasons

(* After a success the next pass is due an interval later, whatever the    *)
(* delay was before (_process_loop).                                       *)
SuccessResetsDelay == loop = "resting" /\ failures = 0 => sleep <= Interval

HealthIsTold == StallIsAlerted /\ BackoffIsNoAlarm /\ SuccessResetsDelay

(* An alert does not outlive its reason for ever, nor a reason its         *)
(* announcement: the watcher looks again (observe).                        *)
AlertsSettle ==
  \A r \in AllReasons \ {"retrying"} :
    /\ <>[](alive /\ ~stopping /\ r \notin Reasons) => <>[](r \notin alerted)
    /\ <>[](alive /\ ~stopping /\ r \in Reasons) => <>[](r \in alerted)

(* The loop keeps trying, unless it is stopped or breaks: no number of     *)
(* failures ends it (_process_loop).                                       *)
KeepsTrying == []<>Running \/ <>(stopping \/ ~alive)

(* Once it is told to stop, it does, unless a pass lasts for ever; the     *)
(* database limits waits and queries (run_recurring).                      *)
StopIsObeyed == []<>(pass # "working") => (stopping ~> ~alive)
=============================================================================
