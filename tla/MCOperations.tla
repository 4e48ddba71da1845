---------------------------- MODULE MCOperations ----------------------------
(***************************************************************************)
(* The running server: its readiness probe, the worker beside it, the pool *)
(* of connections, and the passes over due schedules that two such workers *)
(* run.  They share no variable here, so one part runs and the others rest *)
(* in an initial state of their own.                                       *)
(***************************************************************************)
EXTENDS Readiness, TLC

CONSTANTS
  Interval, MaxBackoff, StaleAfter, WatchEvery, Threshold, Late, MaxFailures,  \* WorkerHealth
  r1, r2, r3, d1, none,                                                        \* Pool
  Requests, Conns, Breakable, MaxWaiting, Threads, Kinds

VARIABLES
  part,
  loop, pass, sleep, watch, watching, stopping, threadStop,
  alive, failures, backlog, since, until, alerted,                 \* WorkerHealth
  todo, running, lobby, has, queue, idle, returned, tx, short, dead, locks, \* Pool
  today, userActive, accountActive, schedule, claims, ledger,
  writer, draft, worker, stop, edits, faults                       \* Recurring

health == <<loop, pass, sleep, watch, watching, stopping, threadStop,
            alive, failures, backlog, since, until, alerted>>
pool == <<todo, running, lobby, has, queue, idle, returned, tx, short, dead, locks>>
books == <<today, userActive, accountActive, schedule, claims, ledger,
           writer, draft, worker, stop, edits, faults>>

-----------------------------------------------------------------------------
(* Passes that hang, fail and fall behind, with timers served late.        *)
Work == INSTANCE WorkerHealth WITH Stale <- StaleAfter, age <- since

(* Two requests that write, with a connection for each; two that do not    *)
(* register and one connection, which may be lost; and three for one, for  *)
(* which fewer may wait than there are threads.                            *)
Writing == INSTANCE Pool WITH None <- none, lock <- locks
Losing == INSTANCE Pool WITH
  Requests <- {r1, r2, r3}, Conns <- {d1}, Breakable <- {d1}, MaxWaiting <- 1,
  Threads <- 2, Kinds <- {"read", "write", "login", "profile"}, None <- none,
  lock <- locks
Crowded == INSTANCE Pool WITH
  Requests <- {r1, r2, r3}, Conns <- {d1}, Breakable <- {}, MaxWaiting <- 1,
  Threads <- 2, Kinds <- {"read", "profile"}, None <- none, lock <- locks

(* Two schedules, one of them perhaps on an inactive account; two workers  *)
(* that take one occurrence of one schedule at a time; one fault.          *)
Processing == INSTANCE Recurring WITH
  Users <- {"u"}, Accounts <- {"main", "card"}, Owner <- [main |-> "u", card |-> "u"],
  MainAccounts <- {"main"}, Schedules <- {1, 2}, Frequencies <- {"daily"},
  Step <- [daily |-> 1], Workers <- {"w1", "w2"}, Nobody <- none,
  BatchSize <- 1, ScheduleBatch <- 1, LastDay <- 1, MaxEdits <- 0, MaxFaults <- 1

(* What is assumed of the worker's constants.                             *)
ASSUME WorkAssumption == Work!TimeAssumption
ASSUME PoolAssumption ==
  Writing!SizesAssumption /\ Writing!NoneAssumption /\ Writing!KindsAssumption
ASSUME Crowded!SizesAssumption /\ Crowded!NoneAssumption

-----------------------------------------------------------------------------
NothingScheduled ==
  accountActive.card /\ \A s \in {1, 2} : schedule[s].state = "absent"

MCInit ==
  /\ part \in {"readiness", "worker", "writing", "losing", "crowded", "passes"}
  /\ Init /\ (part = "readiness" \/ up = "ready")
  /\ Work!Init
  /\ Writing!Init
  /\ Processing!Init /\ (part = "passes" \/ NothingScheduled)

MCNext ==
  /\ UNCHANGED part
  /\ \/ part = "readiness" /\ Next /\ UNCHANGED <<health, pool, books>>
     \/ part = "worker" /\ Work!Next /\ UNCHANGED <<vars, pool, books>>
     \/ part = "writing" /\ Writing!Next /\ todo'[r3] = <<>> /\ UNCHANGED <<vars, health, books>>
     \/ part = "losing" /\ Losing!Next /\ todo'[r3] = <<>> /\ UNCHANGED <<vars, health, books>>
     \/ part = "crowded" /\ Crowded!Next /\ UNCHANGED <<vars, health, books>>
     \/ part = "passes" /\ Processing!Next /\ UNCHANGED <<vars, health, pool>>

(* The fairness of the parts, while they run: LiveSpec of each.            *)
ProbesGoOn ==
  /\ \A c \in Callers : WF_vars(part = "readiness" /\ Serve(c))
  /\ WF_vars(part = "readiness" /\ Tick)
WorkGoesOn ==
  /\ WF_health(part = "worker" /\ (Work!Wake \/ Work!FinishPass))
  /\ WF_health(part = "worker" /\ (Work!Watch \/ Work!WatchEnds))
  /\ WF_health(part = "worker" /\ Work!Ended)
  /\ WF_health(part = "worker" /\ Work!Tick)
RequestsGoOn ==
  /\ \A r \in {r1, r2, r3} : WF_pool(\/ part = "writing" /\ Writing!Proceed(r)
                                     \/ part = "losing" /\ Losing!Proceed(r)
                                     \/ part = "crowded" /\ Crowded!Proceed(r))
  /\ WF_pool(\/ part = "writing" /\ Writing!Worker
             \/ part = "losing" /\ Losing!Worker
             \/ part = "crowded" /\ Crowded!Worker)
PassesGoOn == \A w \in {"w1", "w2"} : WF_books(part = "passes" /\ Processing!Run(w))

MCSpec ==
  /\ MCInit /\ [][MCNext]_<<part, vars, health, pool, books>>
  /\ ProbesGoOn /\ WorkGoesOn /\ RequestsGoOn /\ PassesGoOn

-----------------------------------------------------------------------------
(* Properties of the parts (those of Readiness by their own names).        *)

(* A pass that hangs is announced soon after it is stale (_watch), a loop  *)
(* that rests as it should is never found stale (finish), and after a      *)
(* success the next pass is due an interval later (_process_loop).         *)
HealthIsTold == Work!HealthIsTold

(* A database that stays ready is found so again and again; alerts follow  *)
(* their reasons; the loop keeps trying, unless it is stopped or breaks,   *)
(* and stops when it is told to, unless a pass lasts for ever (ready,      *)
(* observe, _process_loop, run_recurring).                                 *)
ServerGoesOn ==
  /\ part = "readiness" => RecoveryIsSeen
  /\ part = "worker" => Work!AlertsSettle /\ Work!KeepsTrying /\ Work!StopIsObeyed

(* A lock is only held or waited for by somebody who is at work, and       *)
(* whoever gets a connection finds it as new (operational_transaction,     *)
(* _reset_connection).                                                     *)
ConnectionsAreClean == [][Writing!LocksAreWorkedOn']_pool /\ Writing!TakenClean

(* Two workers never wait on each other for ever: what is due is handled,  *)
(* or its owner took it away (process_due, _process_loop).                 *)
DueIsHandled == part = "passes" => Processing!DueIsHandled

(* Every request ends, served or refused, and nobody has to run out of     *)
(* time for it (DATABASE_POOL_MAX_WAITING).                                *)
Answered == part \in {"writing", "losing", "crowded"} => Writing!Answered
=============================================================================
