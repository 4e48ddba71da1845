----------------------------- MODULE Readiness ------------------------------
(***************************************************************************)
(* The readiness probe that the threads of the server share: an answer is  *)
(* cached, and one thread at a time asks the database.  The cached answer  *)
(* and its age are two fields, read without the lock.  Ages are counted up *)
(* to the time an answer is good for.                                      *)
(***************************************************************************)
EXTENDS Integers

CONSTANTS Callers, CacheSeconds, NoOne

ASSUME CallersAssumption == NoOne \notin Callers
ASSUME CacheAssumption == CacheSeconds \in Nat \ {0}

VARIABLES
  up,              \* the database's answer now: "ready", "wrong" or "error"
  ready, age,      \* the cached answer (_ready), the time since _checked_at
  found,           \* what the last probe found
  lock,            \* who holds the lock
  pc,              \* where each caller is
  answer,          \* what each was told last
  rest, goodAge,   \* since the last probe; since the last that found it ready
  justified        \* the callers for which such a probe was recent enough

vars == <<up, ready, age, found, lock, pc, answer, rest, goodAge, justified>>

-----------------------------------------------------------------------------
Places == {"idle", "cached", "asking", "locked", "probing", "storing",
           "stamping", "reading"}

TypeOK ==
  /\ up \in {"ready", "wrong", "error"}
  /\ {ready, found} \subseteq BOOLEAN
  /\ {age, rest, goodAge} \subseteq 0..CacheSeconds
  /\ lock \in Callers \cup {NoOne}
  /\ pc \in [Callers -> Places]
  /\ answer \in [Callers -> BOOLEAN]
  /\ justified \subseteq Callers

Goes(c, from, to) == pc[c] = from /\ pc' = [pc EXCEPT ![c] = to]
Fresh == age < CacheSeconds
Tell(c, a) == answer' = [answer EXCEPT ![c] = a]
Stays == UNCHANGED <<rest, goodAge, justified>>

(* The first look at the age of the answer, and the answer read after it.  *)
Look(c) ==
  /\ Goes(c, "idle", IF Fresh THEN "cached" ELSE "asking")
  /\ justified' = IF goodAge < CacheSeconds THEN justified \cup {c} ELSE justified \ {c}
  /\ UNCHANGED <<up, ready, age, found, lock, answer, rest, goodAge>>

ReadCached(c) ==
  /\ Goes(c, "cached", "idle")
  /\ Tell(c, ready)
  /\ UNCHANGED <<up, ready, age, found, lock>> /\ Stays

(* Nobody waits for the lock: whoever does not get it says "not ready".    *)
LockIgnored(c) == TRUE                       \* variant: no lock
LockFree(c) == lock = NoOne

TryLock(c) ==
  \/ /\ LockFree(c)
     /\ Goes(c, "asking", "locked")
     /\ lock' = c
     /\ UNCHANGED <<up, ready, age, found, answer>> /\ Stays
  \/ /\ ~LockFree(c)
     /\ Goes(c, "asking", "idle")
     /\ Tell(c, FALSE)
     /\ UNCHANGED <<up, ready, age, found, lock>> /\ Stays

(* Another probe may have ended before the lock was taken.                 *)
StillStaleUnchecked == TRUE                  \* variant: not looked at again
StillStale == ~Fresh

Recheck(c) ==
  /\ Goes(c, "locked", IF StillStale THEN "probing" ELSE "reading")
  /\ UNCHANGED <<up, ready, age, found, lock, answer>> /\ Stays

(* The probe ends with an answer, or with an exception, which is "no".     *)
EndProbe(c) ==
  /\ Goes(c, "probing", "storing")
  /\ found' = (up = "ready")
  /\ rest' = 0
  /\ goodAge' = IF up = "ready" THEN 0 ELSE goodAge
  /\ justified' = IF up = "ready" THEN Callers ELSE justified
  /\ UNCHANGED <<up, ready, age, lock, answer>>

(* The answer is stored, and then its time.                                *)
StoreAnswer == ready' = found /\ UNCHANGED age
StoreTime == age' = 0 /\ UNCHANGED ready
TimeFirst(k) == IF k = 1 THEN StoreTime ELSE StoreAnswer    \* variant: swapped
Storing(k) == IF k = 1 THEN StoreAnswer ELSE StoreTime

Store(c) ==
  /\ \/ Goes(c, "storing", "stamping") /\ Storing(1)
     \/ Goes(c, "stamping", "reading") /\ Storing(2)
  /\ UNCHANGED <<up, found, lock, answer>> /\ Stays

LockKept == IF ready THEN NoOne ELSE lock    \* variant: released on success only
LockReleased == NoOne
AfterReturn == LockReleased

Return(c) ==
  /\ Goes(c, "reading", "idle")
  /\ Tell(c, ready)
  /\ lock' = AfterReturn
  /\ UNCHANGED <<up, ready, age, found>> /\ Stays

(* The database comes and goes.                                            *)
Change(u) ==
  /\ u # up /\ up' = u
  /\ UNCHANGED <<ready, age, found, lock, pc, answer>> /\ Stays

(* A second passes; not in the middle of storing an answer.                *)
Older(a) == IF a = CacheSeconds THEN a ELSE a + 1
Tick ==
  /\ \A c \in Callers : pc[c] \notin {"storing", "stamping"}
  /\ age' = Older(age) /\ rest' = Older(rest) /\ goodAge' = Older(goodAge)
  /\ UNCHANGED <<up, ready, found, lock, pc, answer, justified>>

Init ==
  /\ up \in {"ready", "wrong", "error"}
  /\ ready = FALSE /\ found = FALSE /\ age = CacheSeconds
  /\ lock = NoOne
  /\ pc = [c \in Callers |-> "idle"]
  /\ answer = [c \in Callers |-> FALSE]
  /\ rest = CacheSeconds /\ goodAge = CacheSeconds /\ justified = {}

Serve(c) ==
  Look(c) \/ ReadCached(c) \/ TryLock(c) \/ Recheck(c) \/ EndProbe(c) \/ Store(c) \/ Return(c)

Next ==
  \/ \E c \in Callers : Serve(c)
  \/ \E u \in {"ready", "wrong", "error"} : Change(u)
  \/ Tick

Spec == Init /\ [][Next]_vars
(* Requests keep coming, threads run, queries have a time limit, and time  *)
(* passes.                                                                 *)
LiveSpec == Spec /\ \A c \in Callers : WF_vars(Serve(c)) /\ WF_vars(Tick)

-----------------------------------------------------------------------------
(* Properties                                                              *)

(* At most one probe at a time, and none before the last one's answer is   *)
(* too old (docs/operations.md:33): a caller that looked before another's  *)
(* probe ended does not probe again after it.                              *)
ProbesAreSpaced ==
  [][\A c \in Callers : pc[c] # "probing" /\ pc'[c] = "probing" =>
       /\ rest = CacheSeconds
       /\ \A d \in Callers : pc[d] \notin {"probing", "storing", "stamping"}]_vars

(* Who is told "ready" is told so because a probe found the database ready *)
(* a cache's time before it looked at the earliest, however the reads of   *)
(* answer and age interleave with their writes (ready).                    *)
ReadyIsRecent ==
  [][\A c \in Callers : pc'[c] = "idle" /\ pc[c] # "idle" /\ answer'[c] => c \in justified]_vars

(* A database that stays ready is found so again and again, whatever       *)
(* failures and exceptions came before (the lock is always released).      *)
RecoveryIsSeen == <>[](up = "ready") => []<>(\E c \in Callers : answer[c])

(* The answer is a true one, however many ask: probes are spaced, and      *)
(* nobody is told "ready" of an old one (ready).                           *)
ReadyIsTrue == ProbesAreSpaced /\ ReadyIsRecent
=============================================================================
