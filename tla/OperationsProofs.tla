-------------------------- MODULE OperationsProofs --------------------------
(***************************************************************************)
(* Readiness, for any number of callers and any cache time: probes are one *)
(* at a time and a cache's time apart, and whoever is told "ready" is told *)
(* of a probe that was good a cache's time before it looked at the         *)
(* earliest. The argument is that the two fields are written under the     *)
(* lock, while the old age is still too old: between the two writes nobody *)
(* takes the new answer with the old age for a fresh one, nor the other    *)
(* way round.                                                              *)
(*                                                                         *)
(* The worker's health (the instance Work), for any intervals, delays and  *)
(* thresholds: a stall is announced in time, backing off is not announced  *)
(* as one, and a success ends the delays.                                  *)
(*                                                                         *)
(* The pool (the instance Writing), for any requests, connections and      *)
(* threads: a connection that a request works on is its own and carries no *)
(* lock or setting from whoever had it before.                             *)
(***************************************************************************)
EXTENDS MCOperations, SequenceTheorems, TLAPS

-----------------------------------------------------------------------------
(* The inductive invariant.                                                *)

Holding == {"locked", "probing", "storing", "stamping", "reading"}
Recording == {"storing", "stamping"}

LockHeld == \A c \in Callers : pc[c] \in Holding <=> lock = c
(* Who probes or writes does so because the answer is too old.             *)
Stale == \A c \in Callers : pc[c] \in {"probing"} \cup Recording => age = CacheSeconds
(* The answer's age is the last probe's, but while that is written down.   *)
AgeIsRest ==
  /\ (\A c \in Callers : pc[c] \notin Recording) => rest = age
  /\ \A c \in Callers : pc[c] \in Recording => rest = 0
(* A good probe that is being written down justifies whoever is there.     *)
GoodWrite ==
  \A c \in Callers : pc[c] \in Recording /\ found =>
    /\ goodAge = 0
    /\ \A d \in Callers : pc[d] # "idle" => d \in justified
Stamps == \A c \in Callers : pc[c] = "stamping" => ready = found
(* An answer that is good and fresh comes from a good probe that is recent,*)
(* and who has looked or is about to answer is justified by it.            *)
GoodAnswer ==
  /\ ready /\ age < CacheSeconds => goodAge < CacheSeconds
  /\ \A c \in Callers :
       /\ pc[c] \in {"cached", "reading"} /\ ready => c \in justified
       /\ pc[c] \in {"asking", "locked"} /\ ready /\ age < CacheSeconds => c \in justified
(* A good answer ages no faster than the probe it comes from.              *)
Ages == ready /\ age < CacheSeconds => goodAge <= age
Answers == GoodWrite /\ Stamps /\ GoodAnswer /\ Ages
IInv == TypeOK /\ LockHeld /\ Stale /\ AgeIsRest /\ Answers

Spaced ==
  \A c \in Callers : pc[c] # "probing" /\ pc'[c] = "probing" =>
    /\ rest = CacheSeconds
    /\ \A d \in Callers : pc[d] \notin {"probing", "storing", "stamping"}
Recent ==
  \A c \in Callers : pc'[c] = "idle" /\ pc[c] # "idle" /\ answer'[c] => c \in justified
Kept == IInv' /\ Spaced /\ Recent

-----------------------------------------------------------------------------
LEMMA CacheTime == CacheSeconds \in Nat /\ CacheSeconds > 0
  BY CacheAssumption DEF CacheAssumption

LEMMA Types ==
  ASSUME TypeOK
  PROVE /\ up \in {"ready", "wrong", "error"} /\ ready \in BOOLEAN /\ found \in BOOLEAN
        /\ age \in 0..CacheSeconds /\ rest \in 0..CacheSeconds /\ goodAge \in 0..CacheSeconds
        /\ lock \in Callers \cup {NoOne} /\ pc \in [Callers -> Places]
        /\ answer \in [Callers -> BOOLEAN] /\ justified \subseteq Callers
  BY DEF TypeOK

(* A caller goes from one place to another, and only it.                   *)
LEMMA GoesOn ==
  ASSUME TypeOK, NEW c \in Callers, NEW from, NEW to \in Places, Goes(c, from, to)
  PROVE /\ pc[c] = from /\ pc'[c] = to /\ pc' \in [Callers -> Places]
        /\ \A d \in Callers \ {c} : pc'[d] = pc[d]
  BY DEF TypeOK, Goes

LEMMA Told ==
  ASSUME TypeOK, NEW c \in Callers, NEW a \in BOOLEAN, Tell(c, a)
  PROVE answer'[c] = a /\ answer' \in [Callers -> BOOLEAN]
  BY DEF TypeOK, Tell

(* Two callers are not both holding the lock.                              *)
LEMMA OneHolder ==
  ASSUME LockHeld, NEW c \in Callers, pc[c] \in Holding, NEW d \in Callers \ {c}
  PROVE pc[d] \notin Holding
  BY DEF LockHeld

(* No answer yet, and nobody who asks.                                     *)
LEMMA InitInv == Init => IInv
<1> SUFFICES ASSUME Init PROVE IInv
  OBVIOUS
<1>1. \A c \in Callers : pc[c] = "idle"
  BY DEF Init
<1>2. lock = NoOne /\ NoOne \notin Callers /\ ready = FALSE /\ rest = age
  BY CallersAssumption DEF Init, CallersAssumption
<1>3. TypeOK
  <2>1. {age, rest, goodAge} \subseteq 0..CacheSeconds
    BY CacheTime DEF Init
  <2>2. {ready, found} \subseteq BOOLEAN /\ up \in {"ready", "wrong", "error"}
    BY DEF Init
  <2>3. pc \in [Callers -> Places] /\ answer \in [Callers -> BOOLEAN]
    BY DEF Init, Places
  <2>4. lock \in Callers \cup {NoOne} /\ justified \subseteq Callers
    BY DEF Init
  <2> QED BY <2>1, <2>2, <2>3, <2>4 DEF TypeOK
<1>4. LockHeld
  BY <1>1, <1>2 DEF LockHeld, Holding
<1>5. Stale /\ AgeIsRest
  BY <1>1, <1>2 DEF Stale, AgeIsRest, Recording
<1>6. Answers
  BY <1>1, <1>2 DEF Answers, GoodWrite, Stamps, GoodAnswer, Ages, Recording
<1> QED BY <1>3, <1>4, <1>5, <1>6 DEF IInv

LEMMA LookKeeps == ASSUME IInv, NEW c \in Callers, Look(c) PROVE Kept
<1> DEFINE to == IF Fresh THEN "cached" ELSE "asking"
<1>1. /\ Goes(c, "idle", to)
      /\ justified' = IF goodAge < CacheSeconds THEN justified \cup {c} ELSE justified \ {c}
      /\ UNCHANGED <<up, ready, age, found, lock, answer, rest, goodAge>>
  BY DEF Look
<1>2. to \in Places /\ to \notin Holding /\ to \notin Recording /\ to # "idle"
  BY DEF Places, Holding, Recording
<1>3. to = "cached" <=> age < CacheSeconds
  BY DEF Fresh
<1> HIDE DEF to
<1>4. /\ pc[c] = "idle" /\ pc'[c] = to /\ pc' \in [Callers -> Places]
      /\ \A d \in Callers \ {c} : pc'[d] = pc[d]
  BY <1>1, <1>2, GoesOn DEF IInv
<1>5. TypeOK'
  BY <1>1, <1>4 DEF IInv, TypeOK
<1>6. LockHeld'
  BY <1>1, <1>2, <1>4 DEF IInv, LockHeld, Holding
<1>7. \A d \in Callers : pc'[d] \in {"probing", "storing", "stamping"} => d # c /\ pc[d] = pc'[d]
  BY <1>2, <1>4 DEF Holding
<1>8. Stale' /\ AgeIsRest'
  BY <1>1, <1>2, <1>4, <1>7 DEF IInv, Stale, AgeIsRest, Recording
<1>9. \A d \in Callers : d # c => (d \in justified' <=> d \in justified)
  BY <1>1
<1>10. goodAge < CacheSeconds => c \in justified'
  BY <1>1
<1>11. GoodWrite'
  <2> SUFFICES ASSUME NEW d \in Callers, pc'[d] \in Recording, found'
               PROVE goodAge' = 0 /\ \A e \in Callers : pc'[e] # "idle" => e \in justified'
    BY DEF GoodWrite
  <2>1. pc[d] \in Recording /\ found
    BY <1>1, <1>2, <1>4
  <2>2. goodAge = 0 /\ \A e \in Callers : pc[e] # "idle" => e \in justified
    BY <2>1 DEF IInv, Answers, GoodWrite
  <2> QED BY <1>1, <1>4, <1>9, <1>10, <2>2, CacheTime
<1>12. Stamps' /\ Ages'
  BY <1>1, <1>7 DEF IInv, Answers, Stamps, Ages
<1>13. GoodAnswer'
  <2>1. ready' /\ age' < CacheSeconds => goodAge' < CacheSeconds
    BY <1>1 DEF IInv, Answers, GoodAnswer
  <2> SUFFICES ASSUME NEW d \in Callers
               PROVE /\ pc'[d] \in {"cached", "reading"} /\ ready => d \in justified'
                     /\ pc'[d] \in {"asking", "locked"} /\ ready /\ age < CacheSeconds
                        => d \in justified'
    BY <1>1, <2>1 DEF GoodAnswer
  <2>2. CASE d = c
    <3>1. ready /\ age < CacheSeconds => c \in justified'
      BY <1>1, <1>10, <2>1
    <3> QED BY <1>2, <1>3, <1>4, <2>2, <3>1 DEF Holding
  <2>3. CASE d # c
    BY <1>4, <1>9, <2>3 DEF IInv, Answers, GoodAnswer
  <2> QED BY <2>2, <2>3
<1>14. Spaced /\ Recent
  BY <1>2, <1>4, <1>7 DEF Spaced, Recent, Holding
<1> QED BY <1>5, <1>6, <1>8, <1>11, <1>12, <1>13, <1>14 DEF Kept, IInv, Answers

(* A caller that is not writing goes to a place where it is not either,    *)
(* and nothing else changes but the lock and what it is told.              *)
LEMMA MovesKeeps ==
  ASSUME IInv, NEW c \in Callers, NEW from \in Places \ Recording, NEW to \in Places \ Recording,
         from # "idle", Goes(c, from, to),
         UNCHANGED <<up, ready, age, found, rest, goodAge, justified>>,
         lock' \in Callers \cup {NoOne}, answer' \in [Callers -> BOOLEAN],
         LockHeld',
         to = "probing" => from = "locked" /\ age = CacheSeconds,
         to = "reading" => from = "locked" /\ age < CacheSeconds,
         to = "cached" => from = "cached",
         to \in {"asking", "locked"} => from \in {"asking", "locked"},
         to = "idle" /\ answer'[c] => from \in {"cached", "reading"} /\ ready
  PROVE Kept
<1>1. /\ pc[c] = from /\ pc'[c] = to /\ pc' \in [Callers -> Places]
      /\ \A d \in Callers \ {c} : pc'[d] = pc[d]
  BY GoesOn DEF IInv
<1>2. TypeOK'
  BY <1>1 DEF IInv, TypeOK
<1>3. \A d \in Callers : pc'[d] \in Recording <=> pc[d] \in Recording
  BY <1>1
<1>4. Stale'
  <2> SUFFICES ASSUME NEW d \in Callers, pc'[d] \in {"probing"} \cup Recording
               PROVE age = CacheSeconds
    BY DEF Stale
  <2>1. CASE d = c
    BY <1>1, <2>1
  <2>2. CASE d # c
    BY <1>1, <2>2 DEF IInv, Stale
  <2> QED BY <2>1, <2>2
<1>5. AgeIsRest'
  BY <1>3 DEF IInv, AgeIsRest
<1>6. \A d \in Callers : pc'[d] # "idle" => pc[d] # "idle"
  BY <1>1
<1>7. GoodWrite'
  BY <1>3, <1>6 DEF IInv, Answers, GoodWrite
<1>8. Stamps' /\ Ages'
  BY <1>1, <1>3 DEF IInv, Answers, Stamps, Ages, Recording
<1>9. GoodAnswer'
  <2> SUFFICES ASSUME NEW d \in Callers
               PROVE /\ pc'[d] \in {"cached", "reading"} /\ ready => d \in justified
                     /\ pc'[d] \in {"asking", "locked"} /\ ready /\ age < CacheSeconds
                        => d \in justified
    BY DEF IInv, Answers, GoodAnswer
  <2>1. CASE d = c
    BY <1>1, <2>1 DEF IInv, Answers, GoodAnswer
  <2>2. CASE d # c
    BY <1>1, <2>2 DEF IInv, Answers, GoodAnswer
  <2> QED BY <2>1, <2>2
<1>10. Spaced
  <2> SUFFICES ASSUME NEW d \in Callers, pc[d] # "probing", pc'[d] = "probing"
               PROVE /\ rest = CacheSeconds
                     /\ \A e \in Callers : pc[e] \notin {"probing", "storing", "stamping"}
    BY DEF Spaced
  <2>1. d = c /\ pc[c] = "locked" /\ age = CacheSeconds
    BY <1>1
  <2>2. \A e \in Callers : pc[e] \notin {"probing", "storing", "stamping"}
    BY <2>1, OneHolder DEF IInv, Holding
  <2>3. rest = age
    BY <2>2 DEF IInv, AgeIsRest, Recording
  <2> QED BY <2>1, <2>2, <2>3
<1>11. Recent
  BY <1>1 DEF Recent, IInv, Answers, GoodAnswer
<1> QED BY <1>2, <1>4, <1>5, <1>7, <1>8, <1>9, <1>10, <1>11 DEF Kept, IInv, Answers

(* The lock stays where it was, or is taken or released by who moves.      *)
LEMMA LockFollows ==
  ASSUME IInv, NEW c \in Callers, NEW from \in Places, NEW to \in Places, Goes(c, from, to),
         to \in Holding <=> lock' = c,
         lock' = lock \/ (lock \in {c, NoOne} /\ lock' \in {c, NoOne})
  PROVE LockHeld'
<1>1. /\ pc'[c] = to /\ \A d \in Callers \ {c} : pc'[d] = pc[d]
  BY GoesOn DEF IInv
<1>2. ASSUME NEW d \in Callers \ {c} PROVE pc'[d] \in Holding <=> lock' = d
  <2>1. pc[d] \in Holding <=> lock = d
    BY DEF IInv, LockHeld
  <2>2. d # NoOne
    BY CallersAssumption DEF CallersAssumption
  <2> QED BY <1>1, <2>1, <2>2
<1>3. pc'[c] \in Holding <=> lock' = c
  BY <1>1
<1> QED BY <1>2, <1>3 DEF LockHeld

LEMMA ReadingKeeps ==
  ASSUME IInv, NEW c \in Callers,
         ReadCached(c) \/ TryLock(c) \/ Recheck(c) \/ Return(c)
  PROVE Kept
<1>1. NoOne \notin Callers /\ ready \in BOOLEAN /\ TypeOK
  BY CallersAssumption DEF CallersAssumption, IInv, TypeOK
<1>2. {"idle", "cached", "asking", "locked", "probing", "reading"} \subseteq Places \ Recording
  BY DEF Places, Recording
<1>3. pc[c] \in Holding <=> lock = c
  BY DEF IInv, LockHeld
<1>4. UNCHANGED <<up, ready, age, found, rest, goodAge, justified>>
  BY DEF ReadCached, TryLock, Recheck, Return, Stays
<1>5. CASE ReadCached(c)
  <2>1. Goes(c, "cached", "idle") /\ Tell(c, ready) /\ lock' = lock
    BY <1>5 DEF ReadCached
  <2>2. answer'[c] = ready /\ answer' \in [Callers -> BOOLEAN] /\ pc[c] = "cached"
    BY <1>1, <2>1, Told DEF Goes
  <2>3. lock # c
    BY <1>3, <2>2 DEF Holding
  <2>4. LockHeld'
    BY <1>2, <2>1, <2>3, LockFollows DEF Holding
  <2>5. lock' \in Callers \cup {NoOne}
    BY <2>1 DEF IInv, TypeOK
  <2> QED BY <1>2, <1>4, <2>1, <2>2, <2>4, <2>5, MovesKeeps
<1>6. CASE TryLock(c) /\ LockFree(c)
  <2>1. /\ Goes(c, "asking", "locked") /\ lock = NoOne /\ lock' = c /\ answer' = answer
    BY <1>6 DEF TryLock, LockFree
  <2>2. LockHeld'
    BY <1>2, <2>1, LockFollows DEF Holding
  <2>3. answer' \in [Callers -> BOOLEAN] /\ lock' \in Callers \cup {NoOne}
    BY <2>1 DEF IInv, TypeOK
  <2> QED BY <1>2, <1>4, <2>1, <2>2, <2>3, MovesKeeps
<1>7. CASE TryLock(c) /\ ~LockFree(c)
  <2>1. Goes(c, "asking", "idle") /\ Tell(c, FALSE) /\ lock' = lock
    BY <1>7 DEF TryLock
  <2>2. answer'[c] = FALSE /\ answer' \in [Callers -> BOOLEAN] /\ pc[c] = "asking"
    BY <1>1, <2>1, Told DEF Goes
  <2>3. lock # c
    BY <1>3, <2>2 DEF Holding
  <2>4. LockHeld'
    BY <1>2, <2>1, <2>3, LockFollows DEF Holding
  <2>5. lock' \in Callers \cup {NoOne}
    BY <2>1 DEF IInv, TypeOK
  <2> QED BY <1>2, <1>4, <2>1, <2>2, <2>4, <2>5, MovesKeeps
<1>8. CASE Recheck(c)
  <2> DEFINE to == IF StillStale THEN "probing" ELSE "reading"
  <2>1. Goes(c, "locked", to) /\ UNCHANGED <<lock, answer>>
    BY <1>8 DEF Recheck
  <2>2. /\ to \in {"probing", "reading"}
        /\ to = "probing" => age = CacheSeconds
        /\ to = "reading" => age < CacheSeconds
    BY CacheTime DEF StillStale, Fresh, IInv, TypeOK
  <2> HIDE DEF to
  <2>3. pc[c] = "locked" /\ lock = c
    BY <1>3, <2>1 DEF Goes, Holding
  <2>4. LockHeld'
    BY <1>2, <2>1, <2>2, <2>3, LockFollows DEF Holding
  <2>5. answer' \in [Callers -> BOOLEAN] /\ lock' \in Callers \cup {NoOne}
    BY <2>1 DEF IInv, TypeOK
  <2> QED BY <1>2, <1>4, <2>1, <2>2, <2>4, <2>5, MovesKeeps
<1>9. CASE Return(c)
  <2>1. Goes(c, "reading", "idle") /\ Tell(c, ready) /\ lock' = NoOne
    BY <1>9 DEF Return, AfterReturn, LockReleased
  <2>2. answer'[c] = ready /\ answer' \in [Callers -> BOOLEAN] /\ pc[c] = "reading"
    BY <1>1, <2>1, Told DEF Goes
  <2>3. lock = c
    BY <1>3, <2>2 DEF Holding
  <2>4. LockHeld'
    BY <1>1, <1>2, <2>1, <2>3, LockFollows DEF Holding
  <2> QED BY <1>2, <1>4, <2>1, <2>2, <2>4, MovesKeeps
<1> QED BY <1>5, <1>6, <1>7, <1>8, <1>9

LEMMA EndProbeKeeps == ASSUME IInv, NEW c \in Callers, EndProbe(c) PROVE Kept
<1>1. /\ Goes(c, "probing", "storing")
      /\ found' = (up = "ready") /\ rest' = 0
      /\ goodAge' = IF up = "ready" THEN 0 ELSE goodAge
      /\ justified' = IF up = "ready" THEN Callers ELSE justified
      /\ UNCHANGED <<up, ready, age, lock, answer>>
  BY DEF EndProbe
<1>2. /\ pc[c] = "probing" /\ pc'[c] = "storing" /\ pc' \in [Callers -> Places]
      /\ \A d \in Callers \ {c} : pc'[d] = pc[d]
  BY <1>1, GoesOn DEF IInv, Places
<1>3. age = CacheSeconds /\ lock = c
  BY <1>2 DEF IInv, Stale, LockHeld, Holding
<1>4. \A d \in Callers \ {c} : pc'[d] \notin Holding
  BY <1>2, OneHolder DEF IInv, Holding
<1>5. TypeOK'
  <2>1. found' \in BOOLEAN
    BY <1>1
  <2>2. {age', rest', goodAge'} \subseteq 0..CacheSeconds
    BY <1>1, CacheTime DEF IInv, TypeOK
  <2>3. justified' \subseteq Callers
    BY <1>1 DEF IInv, TypeOK
  <2> QED BY <1>1, <1>2, <2>1, <2>2, <2>3 DEF IInv, TypeOK
<1>6. LockHeld'
  BY <1>1, <1>3, LockFollows DEF Holding, Places
<1>7. Stale' /\ AgeIsRest'
  <2>1. Stale'
    BY <1>1, <1>3 DEF Stale
  <2>2. rest' = 0 /\ pc'[c] \in Recording
    BY <1>1, <1>2 DEF Recording
  <2>3. AgeIsRest'
    BY <2>2 DEF AgeIsRest
  <2> QED BY <2>1, <2>3
<1>8. GoodWrite'
  <2>1. found' => up = "ready"
    BY <1>1
  <2>2. found' => goodAge' = 0 /\ justified' = Callers
    BY <1>1, <2>1
  <2> QED BY <2>2 DEF GoodWrite
<1>9. Stamps' /\ Ages'
  <2>1. \A d \in Callers : pc'[d] # "stamping"
    BY <1>2, <1>4 DEF Holding
  <2>2. ~(age' < CacheSeconds)
    BY <1>1, <1>3, CacheTime
  <2> QED BY <2>1, <2>2 DEF Stamps, Ages
<1>10. GoodAnswer'
  <2>1. \A d \in Callers : d \in justified => d \in justified'
    BY <1>1
  <2>2. ~(age' < CacheSeconds)
    BY <1>1, <1>3, CacheTime
  <2> SUFFICES ASSUME NEW d \in Callers, pc'[d] \in {"cached", "reading"}, ready
               PROVE d \in justified'
    BY <1>1, <2>2 DEF GoodAnswer
  <2>3. d # c /\ pc[d] \in {"cached", "reading"}
    BY <1>2
  <2> QED BY <2>1, <2>3 DEF IInv, Answers, GoodAnswer
<1>11. Spaced /\ Recent
  BY <1>2 DEF Spaced, Recent
<1> QED BY <1>5, <1>6, <1>7, <1>8, <1>9, <1>10, <1>11 DEF Kept, IInv, Answers

LEMMA StoreKeeps == ASSUME IInv, NEW c \in Callers, Store(c) PROVE Kept
<1>1. UNCHANGED <<up, found, lock, answer, rest, goodAge, justified>>
  BY DEF Store, Stays
<1>2. pc[c] \in Recording
  BY DEF Store, Goes, Recording
<1>3. age = CacheSeconds /\ lock = c /\ rest = 0 /\ \A d \in Callers \ {c} : pc[d] \notin Holding
  BY <1>2, OneHolder DEF IInv, Stale, LockHeld, AgeIsRest, Holding, Recording
<1>4. found => goodAge = 0 /\ \A d \in Callers : pc[d] # "idle" => d \in justified
  BY <1>2 DEF IInv, Answers, GoodWrite
<1>5. CASE Goes(c, "storing", "stamping") /\ Storing(1)
  <2>1. ready' = found /\ age' = age
    BY <1>5 DEF Storing, StoreAnswer
  <2>2. /\ pc[c] = "storing" /\ pc'[c] = "stamping" /\ pc' \in [Callers -> Places]
        /\ \A d \in Callers \ {c} : pc'[d] = pc[d]
    BY <1>5, GoesOn DEF IInv, Places
  <2>3. TypeOK'
    BY <1>1, <2>1, <2>2 DEF IInv, TypeOK
  <2>4. LockHeld'
    BY <1>1, <1>3, <1>5, LockFollows DEF Holding, Places
  <2>5. Stale' /\ AgeIsRest'
    BY <1>1, <1>3, <2>1, <2>2 DEF Stale, AgeIsRest, Recording
  <2>6. GoodWrite'
    BY <1>1, <1>4, <2>2 DEF GoodWrite
  <2>7. Stamps' /\ Ages'
    BY <1>1, <1>3, <2>1, CacheTime DEF Stamps, Ages
  <2>8. GoodAnswer'
    <3>1. ~(age' < CacheSeconds)
      BY <1>3, <2>1, CacheTime
    <3> SUFFICES ASSUME NEW d \in Callers, pc'[d] \in {"cached", "reading"}, ready'
                 PROVE d \in justified'
      BY <3>1 DEF GoodAnswer
    <3>2. pc[d] # "idle" /\ found
      BY <2>1, <2>2
    <3> QED BY <1>1, <1>4, <3>2
  <2>9. Spaced /\ Recent
    BY <2>2 DEF Spaced, Recent
  <2> QED BY <2>3, <2>4, <2>5, <2>6, <2>7, <2>8, <2>9 DEF Kept, IInv, Answers
<1>6. CASE Goes(c, "stamping", "reading") /\ Storing(2)
  <2>1. age' = 0 /\ ready' = ready
    BY <1>6 DEF Storing, StoreTime
  <2>2. /\ pc[c] = "stamping" /\ pc'[c] = "reading" /\ pc' \in [Callers -> Places]
        /\ \A d \in Callers \ {c} : pc'[d] = pc[d]
    BY <1>6, GoesOn DEF IInv, Places
  <2>3. ready => found
    BY <2>2 DEF IInv, Answers, Stamps
  <2>4. \A d \in Callers : pc'[d] \notin {"probing"} \cup Recording
    BY <1>3, <2>2 DEF Holding, Recording
  <2>5. TypeOK'
    BY <1>1, <2>1, <2>2, CacheTime DEF IInv, TypeOK
  <2>6. LockHeld'
    BY <1>1, <1>3, <1>6, LockFollows DEF Holding, Places
  <2>7. Stale' /\ AgeIsRest'
    BY <1>1, <1>3, <2>1, <2>4 DEF Stale, AgeIsRest
  <2>8. GoodWrite' /\ Stamps'
    BY <2>4 DEF GoodWrite, Stamps, Recording
  <2>9. Ages'
    BY <1>1, <1>4, <2>1, <2>3 DEF Ages
  <2>10. GoodAnswer'
    <3>1. ready => \A d \in Callers : pc'[d] # "idle" => d \in justified
      BY <1>4, <2>2, <2>3
    <3>2. ready => goodAge < CacheSeconds
      BY <1>4, <2>3, CacheTime
    <3> QED BY <1>1, <2>1, <3>1, <3>2 DEF GoodAnswer
  <2>11. Spaced /\ Recent
    BY <2>2 DEF Spaced, Recent
  <2> QED BY <2>5, <2>6, <2>7, <2>8, <2>9, <2>10, <2>11 DEF Kept, IInv, Answers
<1> QED BY <1>5, <1>6 DEF Store

LEMMA TickKeeps == ASSUME IInv, Tick PROVE Kept
<1>1. /\ \A c \in Callers : pc[c] \notin Recording
      /\ age' = Older(age) /\ rest' = Older(rest) /\ goodAge' = Older(goodAge)
      /\ UNCHANGED <<up, ready, found, lock, pc, answer, justified>>
  BY DEF Tick, Recording
<1>2. age \in 0..CacheSeconds /\ rest \in 0..CacheSeconds /\ goodAge \in 0..CacheSeconds
  BY DEF IInv, TypeOK
<1>3. \A a \in 0..CacheSeconds : /\ Older(a) \in 0..CacheSeconds /\ Older(a) >= a
                                 /\ a = CacheSeconds => Older(a) = CacheSeconds
                                 /\ \A b \in 0..CacheSeconds : b <= a => Older(b) <= Older(a)
  BY CacheTime DEF Older
<1>4. TypeOK'
  BY <1>1, <1>2, <1>3 DEF IInv, TypeOK
<1>5. LockHeld' /\ Stamps'
  BY <1>1 DEF IInv, Answers, LockHeld, Stamps
<1>6. Stale'
  BY <1>1, <1>2, <1>3 DEF IInv, Stale
<1>7. AgeIsRest' /\ GoodWrite'
  BY <1>1 DEF IInv, AgeIsRest, GoodWrite
<1>8. age' < CacheSeconds => age < CacheSeconds
  BY <1>1, <1>2, <1>3, CacheTime
<1>9. Ages'
  BY <1>1, <1>2, <1>3, <1>8 DEF IInv, Answers, Ages
<1>10. GoodAnswer'
  <2>1. ready' /\ age' < CacheSeconds => goodAge' < CacheSeconds
    BY <1>2, <1>3, <1>4, <1>9, CacheTime DEF Ages, TypeOK
  <2> QED BY <1>1, <1>8, <2>1 DEF IInv, Answers, GoodAnswer
<1>11. Spaced /\ Recent
  BY <1>1 DEF Spaced, Recent
<1> QED BY <1>4, <1>5, <1>6, <1>7, <1>9, <1>10, <1>11 DEF Kept, IInv, Answers

LEMMA ChangeKeeps ==
  ASSUME IInv, (\E u \in {"ready", "wrong", "error"} : Change(u)) \/ UNCHANGED vars
  PROVE Kept
<1>1. /\ up' \in {"ready", "wrong", "error"}
      /\ UNCHANGED <<ready, age, found, lock, pc, answer, rest, goodAge, justified>>
  BY DEF Change, Stays, vars, IInv, TypeOK
<1>2. TypeOK'
  BY <1>1 DEF IInv, TypeOK
<1>3. LockHeld' /\ Stale' /\ AgeIsRest'
  BY <1>1 DEF IInv, LockHeld, Stale, AgeIsRest
<1>4. Answers'
  BY <1>1 DEF IInv, Answers, GoodWrite, Stamps, GoodAnswer, Ages
<1>5. Spaced /\ Recent
  BY <1>1 DEF Spaced, Recent
<1> QED BY <1>2, <1>3, <1>4, <1>5 DEF Kept, IInv

-----------------------------------------------------------------------------
(* The theorems.                                                           *)

LEMMA StepKeeps == ASSUME IInv, [Next]_vars PROVE Kept
<1>1. ASSUME NEW c \in Callers, Serve(c) PROVE Kept
  BY <1>1, LookKeeps, ReadingKeeps, EndProbeKeeps, StoreKeeps DEF Serve
<1>2. CASE Tick
  BY <1>2, TickKeeps
<1>3. CASE (\E u \in {"ready", "wrong", "error"} : Change(u)) \/ UNCHANGED vars
  BY <1>3, ChangeKeeps
<1> QED BY <1>1, <1>2, <1>3 DEF Next

(* The lock, the ages and what justifies an answer agree.                  *)
THEOREM Invariance == Spec => []IInv
<1>1. IInv /\ [Next]_vars => IInv'
  BY StepKeeps DEF Kept
<1> QED BY InitInv, <1>1, PTL DEF Spec

(* Type correctness of the probe.                                          *)
THEOREM TypeCorrect == Spec => []TypeOK
<1>1. IInv => TypeOK
  BY DEF IInv
<1> QED BY Invariance, <1>1, PTL

(* The database is probed by one caller at a time, and not again before    *)
(* the answer is too old (ready).                                          *)
THEOREM SpacedProbes == Spec => ProbesAreSpaced
<1>1. IInv /\ [Next]_vars => [Spaced]_vars
  BY StepKeeps DEF Kept
<1>2. [Spaced]_vars =>
        [\A c \in Callers : pc[c] # "probing" /\ pc'[c] = "probing" =>
           /\ rest = CacheSeconds
           /\ \A d \in Callers : pc[d] \notin {"probing", "storing", "stamping"}]_vars
  BY DEF Spaced
<1> QED BY Invariance, <1>1, <1>2, PTL DEF Spec, ProbesAreSpaced

(* Nobody is told "ready" of a probe that was older than the cache allows  *)
(* when it looked.                                                         *)
THEOREM RecentReady == Spec => ReadyIsRecent
<1>1. IInv /\ [Next]_vars => [Recent]_vars
  BY StepKeeps DEF Kept
<1>2. [Recent]_vars =>
        [\A c \in Callers :
           pc'[c] = "idle" /\ pc[c] # "idle" /\ answer'[c] => c \in justified]_vars
  BY DEF Recent
<1> QED BY Invariance, <1>1, <1>2, PTL DEF Spec, ReadyIsRecent

(* The probe's answer is true, in all that its run checks.                 *)
THEOREM ReadyHolds == Spec => ReadyIsTrue
BY SpacedProbes, RecentReady, PTL DEF ReadyIsTrue

-----------------------------------------------------------------------------
(* The worker beside the server: for any intervals, limits and lateness.   *)
(* While a pass hangs and nobody is told, the watcher's next look is never *)
(* further away than the time left; and while the loop rests, the record's *)
(* due time is the loop's own.                                             *)

WorkType ==
  /\ loop \in {"resting", "running", "ended"}
  /\ sleep \in Int /\ watch \in Int /\ until \in Int
  /\ failures \in Nat /\ since \in Nat
WatchIsNear ==
  alive /\ ~stopping => watching /\ -Late <= watch /\ watch <= WatchEvery
UntoldIsRecent ==
  loop = "running" /\ alive /\ ~stopping /\ "processing_stalled" \notin alerted =>
    since + watch <= StaleAfter + WatchEvery
RestIsRecorded ==
  loop = "resting" => /\ until = sleep /\ -Late <= sleep
                      /\ failures = 0 => sleep <= Interval
WorkInv == WorkType /\ WatchIsNear /\ UntoldIsRecent /\ RestIsRecorded

LEMMA DelayIsANumber == ASSUME Work!TimeAssumption, NEW f \in Nat PROVE Work!Delay(f) \in Nat
<1>1. Interval \in Nat /\ MaxBackoff \in Nat
  BY DEF Work!TimeAssumption
<1>2. ASSUME NEW x PROVE (IF x \in 1..MaxBackoff THEN x ELSE MaxBackoff) \in Nat
  BY <1>1
<1>3. Work!Backoff(f) \in Nat
  BY <1>2 DEF Work!Backoff
<1> QED BY <1>1, <1>3 DEF Work!Delay

LEMMA WorkFirst == ASSUME Work!TimeAssumption, Work!Init PROVE WorkInv
  BY DEF Work!TimeAssumption, Work!Init, WorkInv, WorkType, WatchIsNear, UntoldIsRecent, RestIsRecorded

LEMMA WorkSteps ==
  ASSUME Work!TimeAssumption, WorkInv, [Work!Next]_(Work!vars) PROVE WorkInv'
<1>0. /\ Interval \in Nat /\ StaleAfter \in Nat /\ WatchEvery \in Nat \ {0} /\ Late \in Nat
      /\ Late <= StaleAfter
  BY DEF Work!TimeAssumption
<1> USE DEF WorkInv, WorkType, WatchIsNear, UntoldIsRecent, RestIsRecorded
<1>1. CASE UNCHANGED Work!vars
  BY <1>1 DEF Work!vars
<1>2. CASE Work!Wake
  BY <1>0, <1>2 DEF Work!Wake, Work!StopSeen
<1>3. CASE Work!FinishPass
  <2>1. PICK f \in Nat : failures' = f /\ sleep' = Work!Delay(f) /\ until' = Work!Delay(f)
    <3>1. (IF pass = "failed" THEN Work!Least(MaxFailures, failures + 1) ELSE 0) \in Nat
      BY DEF Work!TimeAssumption, Work!Least
    <3> QED BY <1>3, <3>1 DEF Work!FinishPass, Work!Recorded
  <2>2. PICK d \in Nat : d = Work!Delay(f) /\ (f = 0 => d = Interval)
    BY DelayIsANumber DEF Work!Delay
  <2>3. loop' = "resting" /\ UNCHANGED <<watch, watching, stopping, alive, since>>
    BY <1>3 DEF Work!FinishPass, Work!AfterPass
  <2> QED BY <1>0, <2>1, <2>2, <2>3
<1>4. CASE Work!Watch
  <2>1. /\ watching /\ ~stopping /\ watch' = WatchEvery
        /\ UNCHANGED <<loop, sleep, watching, stopping, alive, failures, since, until>>
        /\ alerted' = Work!Reasons' \ {"retrying"}
    BY <1>4 DEF Work!Watch, Work!WatcherObserves, Work!Observe
  <2>2. loop = "running" /\ since > StaleAfter => "processing_stalled" \in alerted'
    BY <2>1 DEF Work!Reasons, Work!ReasonsOf, Work!AllReasons, Work!Running
  <2> QED BY <1>0, <2>1, <2>2
<1>5. CASE Work!WatchEnds
  BY <1>0, <1>5 DEF Work!WatchEnds, Work!StopSeen
<1>6. CASE Work!Stop
  BY <1>0, <1>6 DEF Work!Stop
<1>7. CASE Work!Ended
  BY <1>0, <1>7 DEF Work!Ended
<1>8. CASE Work!Break
  BY <1>0, <1>8 DEF Work!Break
<1>9. CASE Work!Tick
  <2>1. Work!Least(Work!Oldest, since + 1) \in Nat /\ Work!Least(Work!Oldest, since + 1) <= since + 1
    BY <1>0 DEF Work!Least, Work!Oldest
  <2> QED BY <1>0, <1>9, <2>1 DEF Work!Tick, Work!Running
<1>10. ASSUME NEW o \in Work!Outcomes, Work!PassEnds(o) PROVE WorkInv'
  BY <1>0, <1>10 DEF Work!PassEnds
<1> QED BY <1>1, <1>2, <1>3, <1>4, <1>5, <1>6, <1>7, <1>8, <1>9, <1>10 DEF Work!Next

(* A pass that hangs is announced as soon as the watcher can, delays are   *)
(* no silence, and a success resets them (_watch, finish, _process_loop).  *)
THEOREM HealthHolds == Work!Spec => []HealthIsTold
<1>1. Work!Init => WorkInv
  BY WorkFirst, WorkAssumption
<1>2. WorkInv /\ [Work!Next]_(Work!vars) => WorkInv'
  BY WorkSteps, WorkAssumption
<1>3. WorkInv => HealthIsTold
  <2> SUFFICES ASSUME WorkInv PROVE HealthIsTold
    OBVIOUS
  <2>0. /\ Interval \in Nat /\ StaleAfter \in Nat /\ WatchEvery \in Nat /\ Late \in Nat
        /\ Late <= StaleAfter
    BY WorkAssumption DEF Work!TimeAssumption
  <2> USE DEF WorkInv, WorkType
  <2>1. Work!StallIsAlerted
    BY <2>0 DEF Work!StallIsAlerted, Work!Running, WatchIsNear, UntoldIsRecent
  <2>2. Work!BackoffIsNoAlarm
    BY <2>0 DEF Work!BackoffIsNoAlarm, RestIsRecorded, Work!Reasons, Work!ReasonsOf
  <2>3. Work!SuccessResetsDelay
    BY DEF Work!SuccessResetsDelay, RestIsRecorded
  <2> QED BY <2>1, <2>2, <2>3 DEF HealthIsTold, Work!HealthIsTold
<1> QED BY <1>1, <1>2, <1>3, PTL DEF Work!Spec

-----------------------------------------------------------------------------
(* The pool (the instance Writing).  What sequences hold, once each.       *)
Has(s, e) == \E i \in 1..Len(s) : s[i] = e
Once(s) == \A i, j \in 1..Len(s) : s[i] = s[j] => i = j

LEMMA AppendIs ==
  ASSUME NEW S, NEW s \in Seq(S), NEW e \in S, Once(s), ~Has(s, e)
  PROVE /\ Append(s, e) \in Seq(S) /\ Once(Append(s, e))
        /\ \A x : Has(Append(s, e), x) <=> Has(s, x) \/ x = e
<1>1. PICK t : t = Append(s, e)
  OBVIOUS
<1>2. /\ t \in Seq(S) /\ Len(s) \in Nat /\ Len(t) = Len(s) + 1 /\ t[Len(s) + 1] = e
      /\ \A i \in 1..Len(s) : t[i] = s[i]
  BY <1>1
<1>3. Once(t)
  BY <1>2 DEF Once, Has
<1>4. \A x : Has(t, x) <=> Has(s, x) \/ x = e
  BY <1>2 DEF Has
<1> QED BY <1>1, <1>2, <1>3, <1>4

LEMMA TailIs ==
  ASSUME NEW S, NEW s \in Seq(S), s # <<>>, Once(s)
  PROVE /\ Head(s) \in S /\ Has(s, Head(s)) /\ Tail(s) \in Seq(S) /\ Once(Tail(s))
        /\ \A x : Has(Tail(s), x) <=> Has(s, x) /\ x # Head(s)
<1>1. PICK t : t = Tail(s)
  OBVIOUS
<1>2. /\ t \in Seq(S) /\ Len(s) \in Nat \ {0} /\ Len(t) = Len(s) - 1 /\ Head(s) = s[1] /\ Head(s) \in S
      /\ \A i \in 1..Len(t) : t[i] = s[i + 1]
  BY <1>1, HeadTailProperties
<1>3. Once(t)
  BY <1>2 DEF Once
<1>4. ASSUME NEW x PROVE Has(t, x) <=> Has(s, x) /\ x # Head(s)
  <2>1. ASSUME NEW i \in 1..Len(t), t[i] = x PROVE Has(s, x) /\ x # Head(s)
    <3>1. i + 1 \in 1..Len(s) /\ s[i + 1] = x /\ 1 \in 1..Len(s)
      BY <1>2, <2>1
    <3> QED BY <1>2, <3>1 DEF Once, Has
  <2>2. ASSUME NEW i \in 1..Len(s), s[i] = x, x # Head(s) PROVE Has(t, x)
    <3>1. i - 1 \in 1..Len(t) /\ (i - 1) + 1 = i
      BY <1>2, <2>2
    <3>2. t[i - 1] = s[i]
      BY <1>2, <3>1
    <3> QED BY <2>2, <3>1, <3>2 DEF Has
  <2> QED BY <2>1, <2>2 DEF Has
<1>5. Has(s, Head(s))
  BY <1>2 DEF Has
<1> QED BY <1>1, <1>2, <1>3, <1>4, <1>5

LEMMA WithoutIs ==
  ASSUME NEW S, NEW s \in Seq(S), NEW e, Once(s)
  PROVE /\ Writing!Without(s, e) \in Seq(S) /\ Once(Writing!Without(s, e))
        /\ \A x : Has(Writing!Without(s, e), x) <=> Has(s, x) /\ x # e
<1>0. Len(s) \in Nat /\ DOMAIN s = 1..Len(s) /\ \A i \in 1..Len(s) : s[i] \in S
  BY ElementOfSeq
<1>1. CASE ~Has(s, e)
  <2>1. Writing!Without(s, e) = s
    BY <1>1 DEF Writing!Without, Writing!Contains, Has
  <2> QED BY <1>1, <2>1 DEF Has
<1>2. CASE Has(s, e)
  <2>1. PICK n : n = CHOOSE i \in DOMAIN s : s[i] = e
    OBVIOUS
  <2>2. n \in 1..Len(s) /\ s[n] = e
    BY <1>0, <1>2, <2>1 DEF Has
  <2>3. Writing!Without(s, e) = SubSeq(s, 1, n - 1) \o SubSeq(s, n + 1, Len(s))
    BY <1>2, <2>1 DEF Writing!Without, Writing!Contains, Writing!RemoveAt, Has
  <2>4. PICK a : a = SubSeq(s, 1, n - 1)
    OBVIOUS
  <2>5. a \in Seq(S) /\ Len(a) = n - 1 /\ \A i \in 1..(n - 1) : a[i] = s[i]
    <3>1. /\ 1 \in Int /\ n - 1 \in Int /\ \A i \in 1..(n - 1) : s[i] \in S
      BY <1>0, <2>2
    <3>2. /\ SubSeq(s, 1, n - 1) \in Seq(S)
          /\ Len(SubSeq(s, 1, n - 1)) = IF 1 <= n - 1 THEN (n - 1) - 1 + 1 ELSE 0
          /\ \A i \in 1..((n - 1) - 1 + 1) : SubSeq(s, 1, n - 1)[i] = s[1 + i - 1]
      BY <3>1, SubSeqProperties
    <3>3. /\ (IF 1 <= n - 1 THEN (n - 1) - 1 + 1 ELSE 0) = n - 1 /\ (n - 1) - 1 + 1 = n - 1
          /\ \A i \in 1..(n - 1) : 1 + i - 1 = i
      BY <2>2, <1>0
    <3> QED BY <2>4, <3>2, <3>3
  <2>6. PICK b : b = SubSeq(s, n + 1, Len(s))
    OBVIOUS
  <2>7. b \in Seq(S) /\ Len(b) = Len(s) - n /\ \A i \in 1..(Len(s) - n) : b[i] = s[n + i]
    <3>1. /\ n + 1 \in Int /\ Len(s) \in Int /\ \A i \in (n + 1)..Len(s) : s[i] \in S
      BY <1>0, <2>2
    <3>2. /\ SubSeq(s, n + 1, Len(s)) \in Seq(S)
          /\ Len(SubSeq(s, n + 1, Len(s))) = IF n + 1 <= Len(s) THEN Len(s) - (n + 1) + 1 ELSE 0
          /\ \A i \in 1..(Len(s) - (n + 1) + 1) : SubSeq(s, n + 1, Len(s))[i] = s[(n + 1) + i - 1]
      BY <3>1, SubSeqProperties
    <3>3. /\ (IF n + 1 <= Len(s) THEN Len(s) - (n + 1) + 1 ELSE 0) = Len(s) - n
          /\ Len(s) - (n + 1) + 1 = Len(s) - n
          /\ \A i \in 1..(Len(s) - n) : (n + 1) + i - 1 = n + i
      <4>1. PICK k \in Nat : k = Len(s)
        BY <1>0
      <4>2. n \in 1..k
        BY <2>2, <4>1
      <4>3. /\ (IF n + 1 <= k THEN k - (n + 1) + 1 ELSE 0) = k - n /\ k - (n + 1) + 1 = k - n
        BY <4>2
      <4>4. \A i \in 1..(k - n) : (n + 1) + i - 1 = n + i
        BY <4>2
      <4> QED BY <4>1, <4>3, <4>4
    <3> QED BY <2>6, <3>2, <3>3
  <2>8. PICK t : t = Writing!Without(s, e)
    OBVIOUS
  <2>9. t \in Seq(S) /\ Len(t) = Len(a) + Len(b)
        /\ \A i \in 1..(Len(a) + Len(b)) : t[i] = IF i <= Len(a) THEN a[i] ELSE b[i - Len(a)]
    <3>1. t = a \o b
      BY <2>3, <2>4, <2>6, <2>8
    <3>2. a \in Seq(S) /\ b \in Seq(S)
      BY <2>5, <2>7
    <3>3. /\ a \o b \in Seq(S) /\ Len(a \o b) = Len(a) + Len(b)
          /\ \A i \in 1..(Len(a) + Len(b)) : (a \o b)[i] = IF i <= Len(a) THEN a[i] ELSE b[i - Len(a)]
      BY <3>2, ConcatProperties
    <3> QED BY <3>1, <3>3
  <2>10. Len(t) = Len(s) - 1
    BY <2>9, <2>5, <2>7, <2>2, <1>0
  <2>11. ASSUME NEW i \in 1..(n - 1) PROVE i \in 1..Len(t) /\ t[i] = s[i]
    BY <2>9, <2>10, <2>5, <2>7, <2>2, <1>0
  <2>12. ASSUME NEW i \in n..(Len(s) - 1) PROVE i \in 1..Len(t) /\ t[i] = s[i + 1]
    <3>1. /\ i \in 1..(Len(a) + Len(b)) /\ ~(i <= Len(a)) /\ i - Len(a) \in 1..(Len(s) - n)
          /\ n + (i - Len(a)) = i + 1 /\ i \in 1..Len(t)
      BY <2>10, <2>5, <2>7, <2>2, <1>0
    <3>2. t[i] = b[i - Len(a)]
      BY <3>1, <2>9
    <3>3. b[i - Len(a)] = s[n + (i - Len(a))]
      BY <3>1, <2>7
    <3> QED BY <3>1, <3>2, <3>3
  <2>13. \A i \in 1..Len(t) : i \in 1..(n - 1) \/ i \in n..(Len(s) - 1)
    BY <2>10, <2>2, <1>0
  <2>14. Once(t)
    <3> SUFFICES ASSUME NEW i \in 1..Len(t), NEW j \in 1..Len(t), t[i] = t[j] PROVE i = j
      BY DEF Once
    <3>1. CASE i \in 1..(n - 1) /\ j \in 1..(n - 1)
      BY <3>1, <2>11, <2>2, <1>0 DEF Once
    <3>2. CASE i \in n..(Len(s) - 1) /\ j \in n..(Len(s) - 1)
      <4>1. s[i + 1] = s[j + 1] /\ i + 1 \in 1..Len(s) /\ j + 1 \in 1..Len(s)
        BY <3>2, <2>12, <2>2, <1>0
      <4> QED BY <4>1 DEF Once
    <3>3. CASE i \in 1..(n - 1) /\ j \in n..(Len(s) - 1)
      <4>1. s[i] = s[j + 1] /\ i \in 1..Len(s) /\ j + 1 \in 1..Len(s) /\ i # j + 1
        BY <3>3, <2>11, <2>12, <2>2, <1>0
      <4> QED BY <4>1 DEF Once
    <3>4. CASE i \in n..(Len(s) - 1) /\ j \in 1..(n - 1)
      <4>1. s[i + 1] = s[j] /\ i + 1 \in 1..Len(s) /\ j \in 1..Len(s) /\ i + 1 # j
        BY <3>4, <2>11, <2>12, <2>2, <1>0
      <4> QED BY <4>1 DEF Once
    <3> QED BY <2>13, <3>1, <3>2, <3>3, <3>4
  <2>15. ASSUME NEW x PROVE Has(t, x) <=> Has(s, x) /\ x # e
    <3>1. ASSUME NEW i \in 1..Len(t), t[i] = x PROVE Has(s, x) /\ x # e
      <4>1. CASE i \in 1..(n - 1)
        <5>1. i \in 1..Len(s) /\ i # n /\ s[i] = x
          BY <3>1, <4>1, <2>11, <2>2, <1>0
        <5> QED BY <5>1, <2>2 DEF Has, Once
      <4>2. CASE i \in n..(Len(s) - 1)
        <5>1. i + 1 \in 1..Len(s) /\ i + 1 # n /\ s[i + 1] = x
          BY <3>1, <4>2, <2>12, <2>2, <1>0
        <5> QED BY <5>1, <2>2 DEF Has, Once
      <4> QED BY <2>13, <4>1, <4>2
    <3>2. ASSUME NEW i \in 1..Len(s), s[i] = x, x # e PROVE Has(t, x)
      <4>1. i # n
        BY <3>2, <2>2
      <4>2. CASE i < n
        <5>1. i \in 1..(n - 1)
          BY <4>2, <2>2, <1>0
        <5> QED BY <5>1, <3>2, <2>11 DEF Has
      <4>3. CASE i > n
        <5>1. i - 1 \in n..(Len(s) - 1) /\ (i - 1) + 1 = i
          BY <4>3, <2>2, <1>0
        <5>2. i - 1 \in 1..Len(t) /\ t[i - 1] = s[(i - 1) + 1]
          BY <5>1, <2>12
        <5> QED BY <5>1, <5>2, <3>2 DEF Has
      <4> QED BY <4>1, <4>2, <4>3, <2>2, <1>0
    <3> QED BY <3>1, <3>2 DEF Has
  <2> QED BY <2>8, <2>9, <2>14, <2>15
<1> QED BY <1>1, <1>2

(* A sequence of steps may be run by somebody who has a connection at the  *)
(* positions in H: it is taken before it is used and given back, and       *)
(* between a lock and the commit there are only locks.                     *)
Steps == {"thread", "take", "touch", "give", "leave", "META", "LEDGER", "commit"}
Using == {"touch", "META", "LEDGER", "commit"}
Working == {"META", "LEDGER", "commit"}
Plan(s, H) == \A i \in 1..Len(s) :
  /\ s[i] = "take" => i \notin H /\ i + 1 \in H
  /\ s[i] = "give" => i \in H /\ i + 1 \notin H
  /\ s[i] \notin {"take", "give"} => (i \in H <=> i + 1 \in H)
  /\ s[i] \in Using => i \in H
  /\ s[i] \in {"META", "LEDGER"} => i + 1 \in 1..Len(s) /\ s[i + 1] \in Working
Runs(s, x, y) ==
  /\ s \in Seq(Steps)
  /\ \E H \in SUBSET Nat : /\ Plan(s, H)
                           /\ (1 \in H <=> x = "held") /\ (Len(s) + 1 \in H <=> y = "held")

LEMMA RunsOne ==
  ASSUME NEW s \in Seq(Steps), s # <<>>, NEW x \in {"free", "held"}, NEW y, Runs(s, x, y)
  PROVE /\ Head(s) = "take" => x = "free" /\ Runs(Tail(s), "held", y)
        /\ Head(s) = "give" => x = "held" /\ Runs(Tail(s), "free", y)
        /\ Head(s) \notin {"take", "give"} => Runs(Tail(s), x, y)
        /\ Head(s) \in Using => x = "held"
        /\ Head(s) \in {"META", "LEDGER"} => Tail(s) # <<>> /\ Head(Tail(s)) \in Working
<1>1. PICK H \in SUBSET Nat : /\ Plan(s, H)
                              /\ (1 \in H <=> x = "held") /\ (Len(s) + 1 \in H <=> y = "held")
  BY DEF Runs
<1> DEFINE G == {i \in Nat : i + 1 \in H}
<1>2. PICK t : t = Tail(s)
  OBVIOUS
<1>3. /\ t \in Seq(Steps) /\ Len(s) \in Nat \ {0} /\ Len(t) = Len(s) - 1 /\ Head(s) = s[1]
      /\ \A i \in 1..Len(t) : t[i] = s[i + 1]
  BY <1>2, HeadTailProperties
<1>4. Plan(t, G)
  <2> SUFFICES ASSUME NEW i \in 1..Len(t)
               PROVE /\ t[i] = "take" => i \notin G /\ i + 1 \in G
                     /\ t[i] = "give" => i \in G /\ i + 1 \notin G
                     /\ t[i] \notin {"take", "give"} => (i \in G <=> i + 1 \in G)
                     /\ t[i] \in Using => i \in G
                     /\ t[i] \in {"META", "LEDGER"} => i + 1 \in 1..Len(t) /\ t[i + 1] \in Working
    BY DEF Plan
  <2>1. PICK j \in 1..Len(s) : j = i + 1
    BY <1>3
  <2>2. /\ i \in Nat /\ i + 1 \in Nat /\ (i \in G <=> j \in H) /\ (i + 1 \in G <=> j + 1 \in H)
        /\ t[i] = s[j]
    BY <2>1, <1>3
  <2> HIDE DEF G
  <2>3. /\ s[j] = "take" => j \notin H /\ j + 1 \in H
        /\ s[j] = "give" => j \in H /\ j + 1 \notin H
        /\ s[j] \notin {"take", "give"} => (j \in H <=> j + 1 \in H)
        /\ s[j] \in Using => j \in H
        /\ s[j] \in {"META", "LEDGER"} => j + 1 \in 1..Len(s) /\ s[j + 1] \in Working
    BY <1>1 DEF Plan
  <2>4. ASSUME j + 1 \in 1..Len(s) PROVE i + 1 \in 1..Len(t) /\ t[i + 1] = s[j + 1]
    BY <1>3, <2>1, <2>4
  <2> QED BY <2>2, <2>3, <2>4
<1>5. /\ G \in SUBSET Nat /\ (1 \in G <=> 2 \in H) /\ (Len(t) + 1 \in G <=> y = "held")
  BY <1>1, <1>3
<1>6. /\ s[1] = "take" => x # "held" /\ 2 \in H
      /\ s[1] = "give" => x = "held" /\ 2 \notin H
      /\ s[1] \notin {"take", "give"} => (x = "held" <=> 2 \in H)
      /\ s[1] \in Using => x = "held"
      /\ s[1] \in {"META", "LEDGER"} => 2 \in 1..Len(s) /\ s[2] \in Working
  <2>1. 1 \in 1..Len(s) /\ 1 + 1 = 2
    BY <1>3
  <2>2. /\ s[1] = "take" => 1 \notin H /\ 1 + 1 \in H
        /\ s[1] = "give" => 1 \in H /\ 1 + 1 \notin H
        /\ s[1] \notin {"take", "give"} => (1 \in H <=> 1 + 1 \in H)
        /\ s[1] \in Using => 1 \in H
        /\ s[1] \in {"META", "LEDGER"} => 1 + 1 \in 1..Len(s) /\ s[1 + 1] \in Working
    BY <2>1, <1>1 DEF Plan
  <2> QED BY <2>1, <2>2, <1>1
<1> HIDE DEF G
<1>7. \A z : (1 \in G <=> z = "held") => Runs(t, z, y)
  BY <1>3, <1>4, <1>5 DEF Runs
<1>8. s[1] \in {"META", "LEDGER"} => t # <<>> /\ Head(t) \in Working
  <2> SUFFICES ASSUME s[1] \in {"META", "LEDGER"} PROVE t # <<>> /\ Head(t) \in Working
    OBVIOUS
  <2>1. 2 \in 1..Len(s) /\ s[2] \in Working
    BY <1>6
  <2>2. 1 \in 1..Len(t) /\ t[1] = s[2]
    BY <2>1, <1>3
  <2> QED BY <2>1, <2>2, <1>3
<1> QED BY <1>2, <1>3, <1>5, <1>6, <1>7, <1>8

LEMMA RunsOn ==
  ASSUME NEW s, NEW t, NEW x, NEW y, NEW z, Runs(s, x, y), Runs(t, y, z)
  PROVE Runs(s \o t, x, z)
<1>1. s \in Seq(Steps) /\ t \in Seq(Steps)
  BY DEF Runs
<1>2. PICK n \in Nat, m \in Nat : n = Len(s) /\ m = Len(t)
  BY <1>1
<1>3. PICK H \in SUBSET Nat : /\ Plan(s, H)
                              /\ (1 \in H <=> x = "held") /\ (n + 1 \in H <=> y = "held")
  BY <1>2 DEF Runs
<1>4. PICK G \in SUBSET Nat : /\ Plan(t, G)
                              /\ (1 \in G <=> y = "held") /\ (m + 1 \in G <=> z = "held")
  BY <1>2 DEF Runs
<1>5. PICK u : u = s \o t
  OBVIOUS
<1>6. /\ u \in Seq(Steps) /\ Len(u) = n + m
      /\ \A i \in 1..(n + m) : u[i] = IF i <= n THEN s[i] ELSE t[i - n]
  <2>1. /\ s \o t \in Seq(Steps) /\ Len(s \o t) = Len(s) + Len(t)
        /\ \A i \in 1..(Len(s) + Len(t)) : (s \o t)[i] = IF i <= Len(s) THEN s[i] ELSE t[i - Len(s)]
    BY <1>1, ConcatProperties
  <2> QED BY <2>1, <1>2, <1>5
<1> DEFINE K == {i \in Nat : IF i <= n THEN i \in H ELSE i - n \in G}
<1>7. \A i \in 1..n : (i \in K <=> i \in H) /\ (i + 1 \in K <=> i + 1 \in H)
  <2>1. n + 1 \in H <=> 1 \in G
    BY <1>3, <1>4
  <2> QED BY <2>1
<1>8. \A j \in 1..m : (n + j \in K <=> j \in G) /\ (n + j + 1 \in K <=> j + 1 \in G)
  OBVIOUS
<1>9. (1 \in K <=> x = "held") /\ (n + m + 1 \in K <=> z = "held")
  <2>1. 1 \in K <=> 1 \in H
    <3>1. CASE n = 0
      <4>1. 1 \in H <=> 1 \in G
        BY <3>1, <1>3, <1>4
      <4> QED BY <3>1, <4>1
    <3>2. CASE n # 0
      BY <3>2
    <3> QED BY <3>1, <3>2
  <2>2. n + m + 1 \in K <=> m + 1 \in G
    OBVIOUS
  <2> QED BY <2>1, <2>2, <1>3, <1>4
<1> HIDE DEF K
<1>10. Plan(u, K)
  <2> SUFFICES ASSUME NEW i \in 1..(n + m)
               PROVE /\ u[i] = "take" => i \notin K /\ i + 1 \in K
                     /\ u[i] = "give" => i \in K /\ i + 1 \notin K
                     /\ u[i] \notin {"take", "give"} => (i \in K <=> i + 1 \in K)
                     /\ u[i] \in Using => i \in K
                     /\ u[i] \in {"META", "LEDGER"} => i + 1 \in 1..(n + m) /\ u[i + 1] \in Working
    BY <1>6 DEF Plan
  <2>1. CASE i <= n
    <3>1. i \in 1..n /\ u[i] = s[i] /\ \A k \in 1..n : u[k] = s[k]
      BY <2>1, <1>6
    <3>2. /\ s[i] = "take" => i \notin H /\ i + 1 \in H
          /\ s[i] = "give" => i \in H /\ i + 1 \notin H
          /\ s[i] \notin {"take", "give"} => (i \in H <=> i + 1 \in H)
          /\ s[i] \in Using => i \in H
          /\ s[i] \in {"META", "LEDGER"} => i + 1 \in 1..n /\ s[i + 1] \in Working
      BY <3>1, <1>2, <1>3 DEF Plan
    <3>3. i + 1 \in 1..n => i + 1 \in 1..(n + m)
      OBVIOUS
    <3> QED BY <3>1, <3>2, <3>3, <1>7
  <2>2. CASE i > n
    <3>1. PICK j \in 1..m : i = n + j /\ j = i - n
      BY <2>2
    <3>2. u[i] = t[j] /\ \A k \in 1..m : u[n + k] = t[k]
      <4>1. \A k \in 1..m : n + k \in 1..(n + m) /\ ~(n + k <= n) /\ (n + k) - n = k
        OBVIOUS
      <4> QED BY <4>1, <3>1, <1>6
    <3>3. /\ t[j] = "take" => j \notin G /\ j + 1 \in G
          /\ t[j] = "give" => j \in G /\ j + 1 \notin G
          /\ t[j] \notin {"take", "give"} => (j \in G <=> j + 1 \in G)
          /\ t[j] \in Using => j \in G
          /\ t[j] \in {"META", "LEDGER"} => j + 1 \in 1..m /\ t[j + 1] \in Working
      BY <1>2, <1>4 DEF Plan
    <3>4. (i \in K <=> j \in G) /\ (i + 1 \in K <=> j + 1 \in G)
      BY <3>1, <1>8
    <3>5. ASSUME j + 1 \in 1..m PROVE i + 1 \in 1..(n + m) /\ u[i + 1] = t[j + 1]
      <4>1. i + 1 = n + (j + 1)
        BY <3>1
      <4> QED BY <4>1, <3>2, <3>5, <3>1
    <3> QED BY <3>2, <3>3, <3>4, <3>5
  <2> QED BY <2>1, <2>2
<1>11. K \in SUBSET Nat
  BY DEF K
<1>12. Runs(u, x, z)
  BY <1>6, <1>9, <1>10, <1>11 DEF Runs
<1> QED BY <1>5, <1>12

(* Pieces of programs.                                                     *)
LEMMA PiecesRun ==
  /\ \A x : Runs(<<>>, x, x) /\ Runs(<<"thread">>, x, x) /\ Runs(<<"leave">>, x, x)
  /\ Runs(<<"give">>, "held", "free") /\ Runs(<<"leave", "give">>, "held", "free")
  /\ Runs(<<"LEDGER", "commit">>, "held", "held")
  /\ Runs(<<"thread", "take", "leave", "thread">>, "free", "held")
  /\ Runs(Writing!Check, "free", "free") /\ Runs(Writing!Operation, "free", "free")
  /\ Runs(Writing!Look, "free", "free") /\ Runs(Writing!NewUser, "free", "free")
  /\ Runs(<<"take", "LEDGER", "commit", "LEDGER", "commit", "give">>, "free", "free")
<1>1. ASSUME NEW x PROVE Runs(<<>>, x, x) /\ Runs(<<"thread">>, x, x) /\ Runs(<<"leave">>, x, x)
  <2>0. PICK H : H = IF x = "held" THEN {1, 2} ELSE {}
    OBVIOUS
  <2>1. H \in SUBSET Nat /\ H = IF x = "held" THEN {1, 2} ELSE {}
    BY <2>0
  <2>2. Runs(<<>>, x, x)
    BY <2>1 DEF Runs, Plan
  <2>3. Runs(<<"thread">>, x, x)
    BY <2>1 DEF Runs, Plan, Steps, Using
  <2>4. Runs(<<"leave">>, x, x)
    BY <2>1 DEF Runs, Plan, Steps, Using
  <2> QED BY <2>2, <2>3, <2>4
<1>2. Runs(<<"give">>, "held", "free")
  <2>1. Plan(<<"give">>, {1}) /\ <<"give">> \in Seq(Steps) /\ Len(<<"give">>) + 1 = 2
    BY DEF Plan, Steps, Using
  <2> QED BY <2>1 DEF Runs
<1>3. Runs(<<"leave", "give">>, "held", "free")
  <2>1. Plan(<<"leave", "give">>, {1, 2}) /\ <<"leave", "give">> \in Seq(Steps)
    BY DEF Plan, Steps, Using
  <2> QED BY <2>1 DEF Runs
<1>4. Runs(<<"LEDGER", "commit">>, "held", "held")
  <2>1. Plan(<<"LEDGER", "commit">>, {1, 2, 3}) /\ <<"LEDGER", "commit">> \in Seq(Steps)
    BY DEF Plan, Steps, Using, Working
  <2> QED BY <2>1 DEF Runs
<1>5. Runs(<<"thread", "take", "leave", "thread">>, "free", "held")
  <2>1. /\ Plan(<<"thread", "take", "leave", "thread">>, {3, 4, 5})
        /\ <<"thread", "take", "leave", "thread">> \in Seq(Steps)
    BY DEF Plan, Steps, Using
  <2> QED BY <2>1 DEF Runs
<1>6. Runs(Writing!Check, "free", "free")
  <2>1. Plan(Writing!Check, {3, 4}) /\ Writing!Check \in Seq(Steps) /\ Len(Writing!Check) = 5
    BY DEF Plan, Steps, Using, Writing!Check
  <2> QED BY <2>1 DEF Runs
<1>7. Runs(Writing!Operation, "free", "free")
  <2>1. Plan(Writing!Operation, {2, 3, 4}) /\ Writing!Operation \in Seq(Steps) /\ Len(Writing!Operation) = 4
    BY DEF Plan, Steps, Using, Working, Writing!Operation
  <2> QED BY <2>1 DEF Runs
<1>8. Runs(Writing!Look, "free", "free")
  <2>1. Plan(Writing!Look, {2}) /\ Writing!Look \in Seq(Steps) /\ Len(Writing!Look) = 2
    BY DEF Plan, Steps, Using, Writing!Look
  <2> QED BY <2>1 DEF Runs
<1>9. Runs(Writing!NewUser, "free", "free")
  <2>1. Plan(Writing!NewUser, {2, 3, 4, 5}) /\ Writing!NewUser \in Seq(Steps) /\ Len(Writing!NewUser) = 5
    BY DEF Plan, Steps, Using, Working, Writing!NewUser
  <2> QED BY <2>1 DEF Runs
<1>10. Runs(<<"take", "LEDGER", "commit", "LEDGER", "commit", "give">>, "free", "free")
  <2>1. /\ Plan(<<"take", "LEDGER", "commit", "LEDGER", "commit", "give">>, {2, 3, 4, 5, 6})
        /\ <<"take", "LEDGER", "commit", "LEDGER", "commit", "give">> \in Seq(Steps)
        /\ Len(<<"take", "LEDGER", "commit", "LEDGER", "commit", "give">>) = 6
    BY DEF Plan, Steps, Using, Working
  <2> QED BY <2>1 DEF Runs
<1> QED BY <1>1, <1>2, <1>3, <1>4, <1>5, <1>6, <1>7, <1>8, <1>9, <1>10

LEMMA ProgramsRun ==
  ASSUME NEW k \in Kinds PROVE Runs(Writing!Program(k), "free", "free")
<1>1. ASSUME NEW work, Runs(work, "held", "held") PROVE Runs(Writing!Held(work), "free", "free")
  <2>1. Runs(Writing!Check \o <<"thread", "take", "leave", "thread">>, "free", "held")
    BY PiecesRun, RunsOn
  <2>2. Runs(Writing!Check \o <<"thread", "take", "leave", "thread">> \o work, "free", "held")
    BY <1>1, <2>1, RunsOn
  <2>3. Runs(<<"leave", "give">>, "held", "free")
    BY PiecesRun
  <2> QED BY <2>2, <2>3, RunsOn DEF Writing!Held
<1>2. Runs(Writing!Login, "free", "free")
  <2>1. Runs(<<"thread">> \o Writing!Look, "free", "free")
    BY PiecesRun, RunsOn
  <2>2. Runs(<<"thread">> \o Writing!Look \o Writing!Operation, "free", "free")
    BY <2>1, PiecesRun, RunsOn
  <2>3. Runs(<<"thread">> \o Writing!Look \o Writing!Operation \o Writing!Operation, "free", "free")
    BY <2>2, PiecesRun, RunsOn
  <2> QED BY <2>3, PiecesRun, RunsOn DEF Writing!Login
<1>3. Runs(Writing!Register, "free", "free")
  <2>1. Runs(<<"thread">> \o Writing!Operation, "free", "free")
    BY PiecesRun, RunsOn
  <2>2. Runs(<<"thread">> \o Writing!Operation \o Writing!Operation, "free", "free")
    BY <2>1, PiecesRun, RunsOn
  <2>3. Runs(<<"thread">> \o Writing!Operation \o Writing!Operation \o Writing!Look, "free", "free")
    BY <2>2, PiecesRun, RunsOn
  <2>4. Runs(<<"thread">> \o Writing!Operation \o Writing!Operation \o Writing!Look \o Writing!NewUser, "free", "free")
    BY <2>3, PiecesRun, RunsOn
  <2>5. Runs(<<"thread">> \o Writing!Operation \o Writing!Operation \o Writing!Look \o Writing!NewUser
             \o Writing!Look, "free", "free")
    BY <2>4, PiecesRun, RunsOn
  <2> QED BY <2>5, PiecesRun, RunsOn DEF Writing!Register
<1>4. Runs(Writing!Profile, "free", "free")
  <2>1. Runs(Writing!Check \o <<"thread">>, "free", "free")
    BY PiecesRun, RunsOn
  <2>2. Runs(Writing!Check \o <<"thread">> \o Writing!Look, "free", "free")
    BY <2>1, PiecesRun, RunsOn
  <2> QED BY <2>2, PiecesRun, RunsOn DEF Writing!Profile
<1>5. Runs(Writing!Pass, "free", "free")
  BY PiecesRun, RunsOn DEF Writing!Pass
<1>6. Runs(Writing!Held(<<>>), "free", "free") /\ Runs(Writing!Held(<<"LEDGER", "commit">>), "free", "free")
  BY <1>1, PiecesRun
<1>7. k \in {"read", "write", "login", "register", "profile", "pass"}
  BY PoolAssumption DEF Writing!KindsAssumption
<1> QED BY <1>2, <1>3, <1>4, <1>5, <1>6, <1>7 DEF Writing!Program

-----------------------------------------------------------------------------
(* The pool's invariant.  A connection is idle, returned or somebody's; who *)
(* waits in a line has its step before it; everybody can go on as planned; *)
(* what a connection has been used for is over when it is nobody's, but    *)
(* for the time limit that the pool's worker resets.                       *)
HandOf(r) == IF has[r] = none THEN "free" ELSE "held"
Held(c) == \E r \in Requests : has[r] = c
Next1(r, step) == todo[r] # <<>> /\ Head(todo[r]) = step
AtWorkWith(c) == \E r \in Requests : has[r] = c /\ todo[r] # <<>> /\ Head(todo[r]) \in Working

PoolTypes ==
  /\ todo \in [Requests -> Seq(Steps)] /\ has \in [Requests -> Conns \cup {none}]
  /\ lobby \in Seq(Requests) /\ Once(lobby) /\ queue \in Seq(Requests) /\ Once(queue)
  /\ idle \subseteq Conns /\ returned \subseteq Conns /\ tx \subseteq Conns /\ short \subseteq Conns
  /\ locks \in [{"META", "LEDGER"} -> Seq(Conns)] /\ \A l \in {"META", "LEDGER"} : Once(locks[l])
Apart ==
  /\ \A c \in idle : c \notin returned /\ ~Held(c)
  /\ \A c \in returned : ~Held(c)
  /\ \A r, q \in Requests : has[r] # none /\ has[r] = has[q] => r = q
Lined ==
  /\ \A r \in Requests : Has(queue, r) => Next1(r, "take")
  /\ \A r \in Requests : Has(lobby, r) => Next1(r, "thread")
Planned == \A r \in Requests : Runs(todo[r], HandOf(r), "free")
Clean ==
  /\ \A c \in tx : Held(c)
  /\ \A c \in short : c \in returned \/ Held(c)
  /\ \A l \in {"META", "LEDGER"}, c \in Conns : Has(locks[l], c) => AtWorkWith(c)
PoolInv == PoolTypes /\ Apart /\ Lined /\ Planned /\ Clean

LEMMA PoolIs == none \notin Conns
BY PoolAssumption DEF Writing!NoneAssumption

(* Where a request goes on, and where one that fails is left.              *)
LEMMA GoesOnAsPlanned ==
  ASSUME PoolInv, NEW r \in Requests, todo[r] # <<>>, Writing!Done(r)
  PROVE /\ todo' \in [Requests -> Seq(Steps)] /\ \A q \in Requests \ {r} : todo'[q] = todo[q]
        /\ Head(todo[r]) = "take" => has[r] = none /\ Runs(todo'[r], "held", "free")
        /\ Head(todo[r]) = "give" => has[r] # none /\ Runs(todo'[r], "free", "free")
        /\ Head(todo[r]) \notin {"take", "give"} => Runs(todo'[r], HandOf(r), "free")
        /\ Head(todo[r]) \in Using => has[r] # none
        /\ Head(todo[r]) \in {"META", "LEDGER"} => todo'[r] # <<>> /\ Head(todo'[r]) \in Working
<1>1. PICK s \in Seq(Steps) : s = todo[r]
  BY DEF PoolInv, PoolTypes
<1>2. Runs(s, HandOf(r), "free") /\ s # <<>>
  BY <1>1 DEF PoolInv, Planned
<1>3. PICK x \in {"free", "held"} : x = HandOf(r) /\ (x = "free" <=> has[r] = none)
  BY DEF HandOf
<1>4. Tail(s) \in Seq(Steps)
  BY <1>1, <1>2
<1>5. todo' \in [Requests -> Seq(Steps)] /\ todo'[r] = Tail(s)
      /\ \A q \in Requests \ {r} : todo'[q] = todo[q]
  BY <1>1, <1>4 DEF Writing!Done, PoolInv, PoolTypes
<1>6. /\ Head(s) = "take" => x = "free" /\ Runs(Tail(s), "held", "free")
      /\ Head(s) = "give" => x = "held" /\ Runs(Tail(s), "free", "free")
      /\ Head(s) \notin {"take", "give"} => Runs(Tail(s), x, "free")
      /\ Head(s) \in Using => x = "held"
      /\ Head(s) \in {"META", "LEDGER"} => Tail(s) # <<>> /\ Head(Tail(s)) \in Working
  BY <1>2, <1>3, RunsOne
<1> QED BY <1>1, <1>3, <1>5, <1>6

LEMMA LeftAsPlanned ==
  ASSUME PoolInv, NEW r \in Requests, Writing!Unwind(r)
  PROVE /\ todo' \in [Requests -> Seq(Steps)] /\ \A q \in Requests \ {r} : todo'[q] = todo[q]
        /\ Runs(todo'[r], HandOf(r), "free")
<1>1. PICK s : s = Writing!Unwound(r)
  OBVIOUS
<1>2. Runs(s, HandOf(r), "free")
  <2>1. /\ Runs(<<>>, "free", "free") /\ Runs(<<"leave">>, "free", "free")
        /\ Runs(<<"leave", "give">>, "held", "free")
    BY PiecesRun
  <2>2. /\ Runs(<<"give">> \o <<>>, "held", "free") /\ Runs(<<"give">> \o <<"leave">>, "held", "free")
    BY PiecesRun, RunsOn
  <2>3. has[r] = none => s \in {<<>>, <<"leave">>}
    BY <1>1 DEF Writing!Unwound
  <2>4. has[r] # none => s \in {<<"leave", "give">>, <<"give">> \o <<>>, <<"give">> \o <<"leave">>}
    BY <1>1 DEF Writing!Unwound
  <2> QED BY <2>1, <2>2, <2>3, <2>4 DEF HandOf
<1>3. s \in Seq(Steps)
  BY <1>2 DEF Runs
<1>4. todo' = [todo EXCEPT ![r] = s]
  BY <1>1 DEF Writing!Unwind
<1>5. todo' \in [Requests -> Seq(Steps)] /\ todo'[r] = s /\ \A q \in Requests \ {r} : todo'[q] = todo[q]
  BY <1>3, <1>4 DEF PoolInv, PoolTypes
<1> QED BY <1>2, <1>5

LEMMA UnlocksOne ==
  ASSUME PoolInv, NEW c, Writing!Unlocked(c)
  PROVE /\ locks' \in [{"META", "LEDGER"} -> Seq(Conns)]
        /\ \A l \in {"META", "LEDGER"} : /\ Once(locks'[l])
                                         /\ \A d : Has(locks'[l], d) <=> Has(locks[l], d) /\ d # c
<1>1. locks' = [l \in {"META", "LEDGER"} |-> Writing!Without(locks[l], c)]
  BY DEF Writing!Unlocked, Writing!Locks
<1>2. ASSUME NEW l \in {"META", "LEDGER"}
      PROVE /\ Writing!Without(locks[l], c) \in Seq(Conns) /\ Once(Writing!Without(locks[l], c))
            /\ \A d : Has(Writing!Without(locks[l], c), d) <=> Has(locks[l], d) /\ d # c
  <2>1. PICK s \in Seq(Conns) : s = locks[l] /\ Once(s)
    BY DEF PoolInv, PoolTypes
  <2> QED BY <2>1, WithoutIs
<1>3. ASSUME NEW l \in {"META", "LEDGER"} PROVE locks'[l] = Writing!Without(locks[l], c)
  BY <1>1
<1>4. locks' \in [{"META", "LEDGER"} -> Seq(Conns)]
  BY <1>1, <1>2
<1> QED BY <1>2, <1>3, <1>4

-----------------------------------------------------------------------------
(* One step of one request that leaves connections where they are.         *)
LEMMA StepsKeep ==
  ASSUME PoolInv, NEW r \in Requests, UNCHANGED <<has, queue, idle, returned>>, ~Has(queue, r),
         todo' \in [Requests -> Seq(Steps)], \A q \in Requests \ {r} : todo'[q] = todo[q],
         Runs(todo'[r], HandOf(r), "free"),
         lobby' \in Seq(Requests), Once(lobby'), \A q \in Requests : Has(lobby', q) => Next1(q, "thread")',
         \A c \in tx' : c \in tx \/ (c = has[r] /\ c # none),
         \A c \in short' : c \in short \/ (c = has[r] /\ c # none),
         locks' \in [{"META", "LEDGER"} -> Seq(Conns)], \A l \in {"META", "LEDGER"} : Once(locks'[l]),
         \A l \in {"META", "LEDGER"}, c \in Conns : Has(locks'[l], c) =>
           \/ Has(locks[l], c) /\ c # has[r]
           \/ c = has[r] /\ todo'[r] # <<>> /\ Head(todo'[r]) \in Working
  PROVE PoolInv'
<1>1. has[r] \in Conns \cup {none}
  BY DEF PoolInv, PoolTypes
<1>2. tx' \subseteq Conns /\ short' \subseteq Conns
  BY <1>1 DEF PoolInv, PoolTypes
<1>3. PoolTypes'
  BY <1>2 DEF PoolInv, PoolTypes, Once
<1>4. Apart'
  BY DEF PoolInv, Apart, Held
<1>5. Lined'
  BY DEF PoolInv, Lined, Next1, Has
<1>6. Planned'
  BY DEF PoolInv, Planned, HandOf
<1>7. (\A c \in tx : Held(c))' /\ (\A c \in short : c \in returned \/ Held(c))'
  BY <1>1 DEF PoolInv, Clean, Held
<1>8. ASSUME NEW l \in {"META", "LEDGER"}, NEW c \in Conns, Has(locks'[l], c) PROVE AtWorkWith(c)'
  <2>1. CASE Has(locks[l], c) /\ c # has[r]
    <3>1. PICK q \in Requests : has[q] = c /\ todo[q] # <<>> /\ Head(todo[q]) \in Working
      BY <2>1 DEF PoolInv, Clean, AtWorkWith
    <3>2. todo'[q] = todo[q] /\ has'[q] = c
      BY <3>1, <2>1
    <3> QED BY <3>1, <3>2 DEF AtWorkWith
  <2>2. CASE c = has[r] /\ todo'[r] # <<>> /\ Head(todo'[r]) \in Working
    BY <2>2 DEF AtWorkWith
  <2> QED BY <1>8, <2>1, <2>2
<1>9. Clean'
  BY <1>7, <1>8 DEF Clean, Has
<1> QED BY <1>3, <1>4, <1>5, <1>6, <1>9 DEF PoolInv

LEMMA ThreadsKeep ==
  ASSUME PoolInv, NEW r \in Requests,
         Writing!Arrive(r) \/ Writing!LineUp(r) \/ Writing!Admit(r) \/ Writing!Leave(r)
  PROVE PoolInv'
<1>1. /\ UNCHANGED <<has, queue, idle, returned, tx, short, locks>>
      /\ locks \in [{"META", "LEDGER"} -> Seq(Conns)] /\ \A l \in {"META", "LEDGER"} : Once(locks[l])
      /\ lobby \in Seq(Requests) /\ Once(lobby) /\ todo \in [Requests -> Seq(Steps)]
      /\ \A q \in Requests : Has(lobby, q) => todo[q] # <<>> /\ Head(todo[q]) = "thread"
      /\ \A q \in Requests : Has(queue, q) => todo[q] # <<>> /\ Head(todo[q]) = "take"
      /\ Runs(todo[r], HandOf(r), "free")
  BY DEF Writing!Arrive, Writing!LineUp, Writing!Admit, Writing!Leave, Writing!WithPool, Writing!InServer,
         Writing!WithThread, PoolInv, PoolTypes, Lined, Next1, Planned
<1>2. ASSUME todo[r] = <<>> \/ Head(todo[r]) \notin Working, NEW l \in {"META", "LEDGER"}, NEW c \in Conns,
             Has(locks[l], c)
      PROVE c # has[r]
  <2>1. PICK q \in Requests : has[q] = c /\ todo[q] # <<>> /\ Head(todo[q]) \in Working
    BY <1>2 DEF PoolInv, Clean, AtWorkWith
  <2>2. c # none
    BY PoolIs
  <2> QED BY <1>2, <2>1, <2>2 DEF PoolInv, Apart
<1>3. CASE Writing!Arrive(r)
  <2>1. todo[r] = <<>> /\ lobby' = lobby
    BY <1>3 DEF Writing!Arrive, Writing!WithThread
  <2>2. PICK k \in Kinds : todo' = [todo EXCEPT ![r] = Writing!Program(k)]
    BY <1>3 DEF Writing!Arrive
  <2>3. Runs(Writing!Program(k), "free", "free") /\ Writing!Program(k) \in Seq(Steps)
    BY ProgramsRun DEF Runs
  <2>4. /\ todo' \in [Requests -> Seq(Steps)] /\ \A q \in Requests \ {r} : todo'[q] = todo[q]
        /\ Runs(todo'[r], "free", "free")
    BY <1>1, <2>2, <2>3
  <2>5. has[r] = none
    <3>1. PICK H \in SUBSET Nat : (1 \in H <=> HandOf(r) = "held") /\ (0 + 1 \in H <=> "free" = "held")
      BY <1>1, <2>1 DEF Runs
    <3> QED BY <3>1 DEF HandOf
  <2>6. Runs(todo'[r], HandOf(r), "free")
    BY <2>4, <2>5 DEF HandOf
  <2>7. \A q \in Requests : Has(lobby', q) => Next1(q, "thread")'
    BY <1>1, <2>1, <2>4 DEF Next1
  <2>8. \A l \in {"META", "LEDGER"}, c \in Conns : Has(locks'[l], c) => Has(locks[l], c) /\ c # has[r]
    BY <1>1, <1>2, <2>1
  <2> QED BY <1>1, <2>1, <2>4, <2>6, <2>7, <2>8, StepsKeep
<1>4. CASE Writing!LineUp(r)
  <2>1. /\ todo[r] # <<>> /\ Head(todo[r]) = "thread" /\ ~Has(lobby, r) /\ lobby' = Append(lobby, r)
        /\ todo' = todo
    BY <1>4 DEF Writing!LineUp, Writing!At, Writing!Contains, Has
  <2>2. /\ lobby' \in Seq(Requests) /\ Once(lobby')
        /\ \A x : Has(lobby', x) <=> Has(lobby, x) \/ x = r
    BY <1>1, <2>1, AppendIs
  <2>3. \A q \in Requests : Has(lobby', q) => Next1(q, "thread")'
    BY <1>1, <2>1, <2>2 DEF Next1
  <2>4. \A l \in {"META", "LEDGER"}, c \in Conns : Has(locks'[l], c) => Has(locks[l], c) /\ c # has[r]
    BY <1>1, <1>2, <2>1 DEF Working
  <2>5. ~Has(queue, r)
    BY <1>1, <2>1
  <2> QED BY <1>1, <2>1, <2>2, <2>3, <2>4, <2>5, StepsKeep
<1>5. CASE Writing!Admit(r)
  <2>1. lobby # <<>> /\ r = Head(lobby) /\ lobby' = Tail(lobby) /\ Writing!Done(r)
    BY <1>5 DEF Writing!Admit
  <2>2. /\ Has(lobby, r) /\ lobby' \in Seq(Requests) /\ Once(lobby')
        /\ \A x : Has(lobby', x) <=> Has(lobby, x) /\ x # r
    BY <1>1, <2>1, TailIs
  <2>3. todo[r] # <<>> /\ Head(todo[r]) = "thread"
    BY <1>1, <2>2
  <2>4. /\ todo' \in [Requests -> Seq(Steps)] /\ \A q \in Requests \ {r} : todo'[q] = todo[q]
        /\ Runs(todo'[r], HandOf(r), "free")
    BY <2>1, <2>3, GoesOnAsPlanned
  <2>5. \A q \in Requests : Has(lobby', q) => Next1(q, "thread")'
    BY <1>1, <2>2, <2>4 DEF Next1
  <2>6. \A l \in {"META", "LEDGER"}, c \in Conns : Has(locks'[l], c) => Has(locks[l], c) /\ c # has[r]
    BY <1>1, <1>2, <2>3 DEF Working
  <2>7. ~Has(queue, r)
    BY <1>1, <2>3
  <2> QED BY <1>1, <2>2, <2>4, <2>5, <2>6, <2>7, StepsKeep
<1>6. CASE Writing!Leave(r)
  <2>1. todo[r] # <<>> /\ Head(todo[r]) = "leave" /\ lobby' = lobby /\ Writing!Done(r)
    BY <1>6 DEF Writing!Leave, Writing!At
  <2>4. /\ todo' \in [Requests -> Seq(Steps)] /\ \A q \in Requests \ {r} : todo'[q] = todo[q]
        /\ Runs(todo'[r], HandOf(r), "free")
    BY <2>1, GoesOnAsPlanned
  <2>5. \A q \in Requests : Has(lobby', q) => Next1(q, "thread")'
    BY <1>1, <2>1, <2>4 DEF Next1
  <2>6. \A l \in {"META", "LEDGER"}, c \in Conns : Has(locks'[l], c) => Has(locks[l], c) /\ c # has[r]
    BY <1>1, <1>2, <2>1 DEF Working
  <2>7. ~Has(queue, r)
    BY <1>1, <2>1
  <2> QED BY <1>1, <2>1, <2>4, <2>5, <2>6, <2>7, StepsKeep
<1> QED BY <1>3, <1>4, <1>5, <1>6

(* Work on a connection.                                                   *)
LEMMA WorkKeeps ==
  ASSUME PoolInv, NEW r \in Requests,
         \/ Writing!Touch(r) \/ Writing!Commit(r)
         \/ \E l \in Writing!Locks : Writing!Ask(r, l) \/ Writing!Obtain(r, l)
  PROVE PoolInv'
<1>1. /\ UNCHANGED <<has, queue, idle, returned, lobby>>
      /\ todo[r] # <<>> /\ Head(todo[r]) \in Using
      /\ locks \in [{"META", "LEDGER"} -> Seq(Conns)] /\ \A l \in {"META", "LEDGER"} : Once(locks[l])
      /\ lobby \in Seq(Requests) /\ Once(lobby) /\ todo \in [Requests -> Seq(Steps)]
      /\ \A q \in Requests : Has(lobby, q) => todo[q] # <<>> /\ Head(todo[q]) = "thread"
      /\ \A q \in Requests : Has(queue, q) => todo[q] # <<>> /\ Head(todo[q]) = "take"
      /\ Runs(todo[r], HandOf(r), "free") /\ has[r] \in Conns \cup {none}
  BY DEF Writing!Touch, Writing!Commit, Writing!Ask, Writing!Obtain, Writing!WithPool, Writing!InServer,
         Writing!WithThread, Writing!At, Writing!Locks, Using, PoolInv, PoolTypes, Lined, Next1, Planned
<1>2. has[r] # none
  <2>1. PICK s \in Seq(Steps) : s = todo[r]
    BY <1>1
  <2>2. PICK x \in {"free", "held"} : x = HandOf(r)
    BY DEF HandOf
  <2>3. Head(s) \in Using => x = "held"
    BY <1>1, <2>1, <2>2, RunsOne
  <2> QED BY <1>1, <2>1, <2>2, <2>3 DEF HandOf
<1>3. ~Has(queue, r) /\ ~Has(lobby, r)
  BY <1>1 DEF Using
<1>4. ASSUME NEW l \in {"META", "LEDGER"}, NEW c \in Conns, Has(locks[l], c), c = has[r]
      PROVE Head(todo[r]) \in Working
  <2>1. PICK q \in Requests : has[q] = c /\ todo[q] # <<>> /\ Head(todo[q]) \in Working
    BY <1>4 DEF PoolInv, Clean, AtWorkWith
  <2> QED BY <1>2, <1>4, <2>1 DEF PoolInv, Apart
<1>5. CASE Writing!Touch(r)
  <2>1. /\ Head(todo[r]) = "touch" /\ UNCHANGED <<tx, locks>> /\ Writing!Done(r)
        /\ \A c \in short' : c \in short \/ c = has[r]
    BY <1>5 DEF Writing!Touch, Writing!At, Writing!WithPool
  <2>2. /\ todo' \in [Requests -> Seq(Steps)] /\ \A q \in Requests \ {r} : todo'[q] = todo[q]
        /\ Runs(todo'[r], HandOf(r), "free")
    BY <1>1, <2>1, GoesOnAsPlanned
  <2>3. \A q \in Requests : Has(lobby', q) => Next1(q, "thread")'
    BY <1>1, <1>3, <2>2 DEF Next1
  <2>4. \A l \in {"META", "LEDGER"}, c \in Conns : Has(locks'[l], c) => Has(locks[l], c) /\ c # has[r]
    BY <1>4, <2>1 DEF Working
  <2> QED BY <1>1, <1>2, <1>3, <2>1, <2>2, <2>3, <2>4, StepsKeep
<1>6. CASE Writing!Commit(r)
  <2>1. /\ Head(todo[r]) = "commit" /\ UNCHANGED short /\ tx' = tx \ {has[r]} /\ Writing!Done(r)
        /\ Writing!Unlocked(has[r])
    BY <1>6 DEF Writing!Commit, Writing!At, Writing!WithPool
  <2>2. /\ todo' \in [Requests -> Seq(Steps)] /\ \A q \in Requests \ {r} : todo'[q] = todo[q]
        /\ Runs(todo'[r], HandOf(r), "free")
    BY <1>1, <2>1, GoesOnAsPlanned
  <2>3. \A q \in Requests : Has(lobby', q) => Next1(q, "thread")'
    BY <1>1, <1>3, <2>2 DEF Next1
  <2>4. /\ locks' \in [{"META", "LEDGER"} -> Seq(Conns)] /\ \A l \in {"META", "LEDGER"} : Once(locks'[l])
        /\ \A l \in {"META", "LEDGER"}, c \in Conns : Has(locks'[l], c) => Has(locks[l], c) /\ c # has[r]
    BY <2>1, UnlocksOne
  <2>5. \A c \in tx' : c \in tx
    BY <2>1
  <2> QED BY <1>1, <1>2, <1>3, <2>1, <2>2, <2>3, <2>4, <2>5, StepsKeep
<1>7. ASSUME NEW l \in {"META", "LEDGER"}, Writing!Ask(r, l) PROVE PoolInv'
  <2>1. /\ Head(todo[r]) = l /\ UNCHANGED <<todo, short>> /\ tx' = tx \cup {has[r]} /\ ~Has(locks[l], has[r])
        /\ locks' = [locks EXCEPT ![l] = Append(locks[l], has[r])]
    BY <1>7 DEF Writing!Ask, Writing!At, Writing!Contains, Has
  <2>2. /\ Append(locks[l], has[r]) \in Seq(Conns) /\ Once(Append(locks[l], has[r]))
        /\ \A x : Has(Append(locks[l], has[r]), x) <=> Has(locks[l], x) \/ x = has[r]
    <3>1. PICK s \in Seq(Conns), c \in Conns : s = locks[l] /\ c = has[r] /\ Once(s) /\ ~Has(s, c)
      BY <1>1, <1>2, <2>1
    <3> QED BY <3>1, AppendIs
  <2>3. PICK s : s = Append(locks[l], has[r])
    OBVIOUS
  <2>4. /\ locks' \in [{"META", "LEDGER"} -> Seq(Conns)] /\ locks'[l] = s
        /\ \A k \in {"META", "LEDGER"} \ {l} : locks'[k] = locks[k]
    BY <1>1, <2>1, <2>2, <2>3
  <2>5. \A k \in {"META", "LEDGER"} : Once(locks'[k])
    BY <1>1, <2>2, <2>3, <2>4
  <2>6. todo'[r] # <<>> /\ Head(todo'[r]) \in Working
    BY <1>1, <2>1 DEF Working
  <2>7. \A k \in {"META", "LEDGER"}, c \in Conns : Has(locks'[k], c) => Has(locks[k], c) \/ c = has[r]
    BY <2>2, <2>3, <2>4
  <2>8. \A q \in Requests : Has(lobby', q) => Next1(q, "thread")'
    BY <1>1, <2>1 DEF Next1
  <2>9. /\ todo' \in [Requests -> Seq(Steps)] /\ \A q \in Requests \ {r} : todo'[q] = todo[q]
        /\ Runs(todo'[r], HandOf(r), "free") /\ \A c \in tx' : c \in tx \/ c = has[r]
    BY <1>1, <2>1
  <2> QED BY <1>1, <1>2, <1>3, <2>1, <2>4, <2>5, <2>6, <2>7, <2>8, <2>9, StepsKeep
<1>8. ASSUME NEW l \in {"META", "LEDGER"}, Writing!Obtain(r, l) PROVE PoolInv'
  <2>1. Head(todo[r]) = l /\ UNCHANGED <<tx, short, locks>> /\ Writing!Done(r)
    BY <1>8 DEF Writing!Obtain, Writing!At, Writing!InServer
  <2>2. /\ todo' \in [Requests -> Seq(Steps)] /\ \A q \in Requests \ {r} : todo'[q] = todo[q]
        /\ Runs(todo'[r], HandOf(r), "free") /\ todo'[r] # <<>> /\ Head(todo'[r]) \in Working
    BY <1>1, <2>1, GoesOnAsPlanned
  <2>3. \A q \in Requests : Has(lobby', q) => Next1(q, "thread")'
    BY <1>1, <1>3, <2>2 DEF Next1
  <2>4. \A k \in {"META", "LEDGER"}, c \in Conns : Has(locks'[k], c) => (Has(locks[k], c) /\ c # has[r]) \/ c = has[r]
    BY <2>1
  <2> QED BY <1>1, <1>2, <1>3, <2>1, <2>2, <2>3, <2>4, StepsKeep
<1> QED BY <1>5, <1>6, <1>7, <1>8 DEF Writing!Locks

(* A request that fails at work is at no lock any more.                    *)
LEMMA AbandonKeeps ==
  ASSUME PoolInv, NEW r \in Requests, Next1(r, "touch") \/ (todo[r] # <<>> /\ Head(todo[r]) \in Working),
         Writing!Abandon(r)
  PROVE PoolInv'
<1>1. /\ UNCHANGED <<has, queue, idle, returned, lobby, short>>
      /\ tx' = tx \ {has[r]} /\ Writing!Unlocked(has[r]) /\ Writing!Unwind(r)
  BY DEF Writing!Abandon, Writing!Exit, Writing!WithPool, Writing!WithThread
<1>2. /\ todo' \in [Requests -> Seq(Steps)] /\ \A q \in Requests \ {r} : todo'[q] = todo[q]
      /\ Runs(todo'[r], HandOf(r), "free")
  BY <1>1, LeftAsPlanned
<1>3. ~Has(queue, r) /\ ~Has(lobby, r)
  BY DEF PoolInv, Lined, Next1, Working
<1>4. \A q \in Requests : Has(lobby', q) => Next1(q, "thread")'
  BY <1>1, <1>2, <1>3 DEF Next1, PoolInv, Lined
<1>5. /\ locks' \in [{"META", "LEDGER"} -> Seq(Conns)] /\ \A l \in {"META", "LEDGER"} : Once(locks'[l])
      /\ \A l \in {"META", "LEDGER"}, c \in Conns : Has(locks'[l], c) => Has(locks[l], c) /\ c # has[r]
  BY <1>1, UnlocksOne
<1>6. lobby \in Seq(Requests) /\ Once(lobby) /\ \A c \in tx' : c \in tx
  BY <1>1 DEF PoolInv, PoolTypes
<1> QED BY <1>1, <1>2, <1>3, <1>4, <1>5, <1>6, StepsKeep

-----------------------------------------------------------------------------
(* Whoever needs a connection: there is none for him yet, or there is one. *)
LEMMA LinesKeep ==
  ASSUME PoolInv, NEW r \in Requests, Next1(r, "take"),
         UNCHANGED <<has, returned, tx, short, lobby, locks>>, idle' \subseteq idle,
         todo' \in [Requests -> Seq(Steps)], \A q \in Requests \ {r} : todo'[q] = todo[q],
         Runs(todo'[r], HandOf(r), "free"),
         queue' \in Seq(Requests), Once(queue'), \A q \in Requests : Has(queue', q) => Next1(q, "take")'
  PROVE PoolInv'
<1>1. PoolTypes'
  BY DEF PoolInv, PoolTypes, Once
<1>2. Apart'
  BY DEF PoolInv, Apart, Held
<1>3. \A q \in Requests : Has(lobby, q) => q # r
  BY DEF PoolInv, Lined, Next1
<1>4. \A q \in Requests : Has(lobby', q) => Next1(q, "thread")'
  BY <1>3 DEF PoolInv, Lined, Next1
<1>5. Lined'
  BY <1>4 DEF Lined, Has
<1>6. Planned'
  BY DEF PoolInv, Planned, HandOf
<1>7. (\A c \in tx : Held(c))' /\ (\A c \in short : c \in returned \/ Held(c))'
  BY DEF PoolInv, Clean, Held
<1>8. ASSUME NEW l \in {"META", "LEDGER"}, NEW c \in Conns, Has(locks'[l], c) PROVE AtWorkWith(c)'
  <2>1. PICK q \in Requests : has[q] = c /\ todo[q] # <<>> /\ Head(todo[q]) \in Working
    BY <1>8 DEF PoolInv, Clean, AtWorkWith
  <2>2. q # r
    BY <2>1 DEF Next1, Working
  <2> QED BY <2>1, <2>2 DEF AtWorkWith
<1>9. Clean'
  BY <1>7, <1>8 DEF Clean, Has
<1> QED BY <1>1, <1>2, <1>5, <1>6, <1>9 DEF PoolInv

LEMMA WaitsKeep ==
  ASSUME PoolInv, NEW r \in Requests, Writing!Wait(r) \/ Writing!Refuse(r) \/ Writing!PoolTimeOut(r)
  PROVE PoolInv'
<1>1. /\ UNCHANGED <<has, returned, tx, short, lobby, locks>> /\ idle' \subseteq idle
      /\ queue \in Seq(Requests) /\ Once(queue) /\ todo \in [Requests -> Seq(Steps)]
      /\ \A q \in Requests : Has(queue, q) => todo[q] # <<>> /\ Head(todo[q]) = "take"
      /\ Runs(todo[r], HandOf(r), "free")
  BY DEF Writing!Wait, Writing!Refuse, Writing!PoolTimeOut, Writing!WithThread, Writing!InServer,
         PoolInv, PoolTypes, Lined, Next1, Planned
<1>2. Next1(r, "take")
  BY <1>1 DEF Writing!Wait, Writing!Refuse, Writing!PoolTimeOut, Writing!At, Writing!Contains, Has, Next1
<1>3. CASE Writing!Wait(r)
  <2>1. ~Has(queue, r) /\ queue' = Append(queue, r) /\ todo' = todo
    BY <1>3 DEF Writing!Wait, Writing!Contains, Has
  <2>2. /\ queue' \in Seq(Requests) /\ Once(queue')
        /\ \A x : Has(queue', x) <=> Has(queue, x) \/ x = r
    BY <1>1, <2>1, AppendIs
  <2>3. \A q \in Requests : Has(queue', q) => Next1(q, "take")'
    BY <1>1, <1>2, <2>1, <2>2 DEF Next1
  <2> QED BY <1>1, <1>2, <2>1, <2>2, <2>3, LinesKeep
<1>4. CASE Writing!Refuse(r)
  <2>1. ~Has(queue, r) /\ queue' = queue /\ Writing!Unwind(r)
    BY <1>4 DEF Writing!Refuse, Writing!Contains, Has
  <2>2. /\ todo' \in [Requests -> Seq(Steps)] /\ \A q \in Requests \ {r} : todo'[q] = todo[q]
        /\ Runs(todo'[r], HandOf(r), "free")
    BY <2>1, LeftAsPlanned
  <2>3. \A q \in Requests : Has(queue', q) => Next1(q, "take")'
    BY <1>1, <2>1, <2>2 DEF Next1
  <2> QED BY <1>1, <1>2, <2>1, <2>2, <2>3, LinesKeep
<1>5. CASE Writing!PoolTimeOut(r)
  <2>1. queue' = Writing!Without(queue, r) /\ Writing!Unwind(r)
    BY <1>5 DEF Writing!PoolTimeOut
  <2>2. /\ todo' \in [Requests -> Seq(Steps)] /\ \A q \in Requests \ {r} : todo'[q] = todo[q]
        /\ Runs(todo'[r], HandOf(r), "free")
    BY <2>1, LeftAsPlanned
  <2>3. /\ queue' \in Seq(Requests) /\ Once(queue')
        /\ \A x : Has(queue', x) <=> Has(queue, x) /\ x # r
    BY <1>1, <2>1, WithoutIs
  <2>4. \A q \in Requests : Has(queue', q) => Next1(q, "take")'
    BY <1>1, <2>2, <2>3 DEF Next1
  <2> QED BY <1>1, <1>2, <2>2, <2>3, <2>4, LinesKeep
<1> QED BY <1>3, <1>4, <1>5

(* What a request finds of the connection it is given.                     *)
AsNew(c) == /\ c \notin tx /\ c \notin short
            /\ \A l \in {"META", "LEDGER"} : ~Has(locks[l], c)

LEMMA GivenKeeps ==
  ASSUME PoolInv, NEW r \in Requests, NEW c \in Conns, Next1(r, "take"), Writing!Done(r),
         has' = [has EXCEPT ![r] = c], ~Held(c), AsNew(c)',
         idle' \subseteq idle \ {c}, returned' = returned \ {c}, tx' \subseteq tx, short' \subseteq short,
         locks' \in [{"META", "LEDGER"} -> Seq(Conns)],
         \A l \in {"META", "LEDGER"} : Once(locks'[l]) /\ \A d : Has(locks'[l], d) => Has(locks[l], d),
         queue' \in Seq(Requests), Once(queue'), \A q : Has(queue', q) => Has(queue, q) /\ q # r,
         UNCHANGED lobby
  PROVE PoolInv'
<1>1. /\ todo' \in [Requests -> Seq(Steps)] /\ \A q \in Requests \ {r} : todo'[q] = todo[q]
      /\ has[r] = none /\ Runs(todo'[r], "held", "free")
  BY GoesOnAsPlanned DEF Next1
<1>2. /\ has' \in [Requests -> Conns \cup {none}] /\ has'[r] = c /\ c # none
      /\ \A q \in Requests \ {r} : has'[q] = has[q] /\ has[q] # c
  BY PoolIs DEF PoolInv, PoolTypes, Held
<1>3. PoolTypes'
  BY <1>1, <1>2 DEF PoolInv, PoolTypes, Once
<1>4. \A d : Held(d)' <=> d = c \/ \E q \in Requests \ {r} : has[q] = d
  BY <1>2 DEF Held
<1>5. \A d : d # none => (Held(d)' <=> d = c \/ Held(d))
  BY <1>1, <1>4 DEF Held
<1>6. Apart'
  <2>1. \A d \in idle' : d # none /\ d # c /\ d \in idle
    BY PoolIs DEF PoolInv, PoolTypes
  <2>2. \A d \in returned' : d # none /\ d # c /\ d \in returned
    BY PoolIs DEF PoolInv, PoolTypes
  <2>3. \A d \in idle' : d \notin returned' /\ ~Held(d)'
    BY <1>5, <2>1, <2>2 DEF PoolInv, Apart
  <2>4. \A d \in returned' : ~Held(d)'
    BY <1>5, <2>2 DEF PoolInv, Apart
  <2>5. \A p, q \in Requests : has'[p] # none /\ has'[p] = has'[q] => p = q
    BY <1>2 DEF PoolInv, Apart
  <2> QED BY <2>3, <2>4, <2>5 DEF Apart
<1>7. Lined'
  <2>1. \A q \in Requests : Has(queue, q) /\ q # r => Next1(q, "take")'
    BY <1>1 DEF PoolInv, Lined, Next1
  <2>2. \A q \in Requests : Has(lobby, q) => Next1(q, "thread")'
    BY <1>1 DEF PoolInv, Lined, Next1
  <2>3. \A q \in Requests : Has(queue', q) => Next1(q, "take")'
    BY <2>1
  <2> QED BY <2>2, <2>3 DEF Lined, Has
<1>8. Planned'
  <2>1. ASSUME NEW q \in Requests \ {r} PROVE Runs(todo'[q], HandOf(q)', "free")
    BY <1>1, <1>2 DEF PoolInv, Planned, HandOf
  <2>2. Runs(todo'[r], HandOf(r)', "free")
    BY <1>1, <1>2 DEF HandOf
  <2>3. \A q \in Requests : Runs(todo'[q], HandOf(q)', "free")
    BY <2>1, <2>2
  <2> QED BY <2>3 DEF Planned, HandOf, Runs, Plan
<1>9. Clean'
  <2>1. \A d \in tx' : Held(d)'
    <3>1. \A d \in tx' : d # none /\ Held(d)
      BY PoolIs DEF PoolInv, PoolTypes, Clean
    <3> QED BY <3>1, <1>5
  <2>2. \A d \in short' : d \in returned' \/ Held(d)'
    <3>1. \A d \in short' : d # none /\ d # c /\ (d \in returned \/ Held(d))
      BY PoolIs DEF PoolInv, PoolTypes, Clean, AsNew
    <3> QED BY <3>1, <1>5
  <2>3. ASSUME NEW l \in {"META", "LEDGER"}, NEW d \in Conns, Has(locks'[l], d) PROVE AtWorkWith(d)'
    <3>1. PICK q \in Requests : has[q] = d /\ todo[q] # <<>> /\ Head(todo[q]) \in Working
      BY <2>3 DEF PoolInv, Clean, AtWorkWith
    <3>2. q # r
      BY <3>1 DEF Next1, Working
    <3>3. has'[q] = d /\ todo'[q] = todo[q]
      BY <3>1, <3>2, <1>1, <1>2
    <3> QED BY <3>1, <3>3 DEF AtWorkWith
  <2> QED BY <2>1, <2>2, <2>3 DEF Clean, Has
<1> QED BY <1>3, <1>6, <1>7, <1>8, <1>9 DEF PoolInv

(* The pool's own steps, with nobody in its line.                          *)
LEMMA PoolMoves ==
  ASSUME PoolInv, UNCHANGED <<todo, has, queue, lobby>>,
         idle' \subseteq Conns, returned' \subseteq returned,
         \A c \in idle' : c \notin returned' /\ ~Held(c),
         tx' \subseteq tx, short' \subseteq short, \A c \in short' : c \in returned => c \in returned',
         locks' \in [{"META", "LEDGER"} -> Seq(Conns)],
         \A l \in {"META", "LEDGER"} : Once(locks'[l]) /\ \A d : Has(locks'[l], d) => Has(locks[l], d)
  PROVE PoolInv'
<1>1. PoolTypes'
  BY DEF PoolInv, PoolTypes, Once
<1>2. Apart'
  BY DEF PoolInv, Apart, Held
<1>3. Lined'
  BY DEF PoolInv, Lined, Next1, Has
<1>4. Planned'
  BY DEF PoolInv, Planned, HandOf
<1>5. (\A c \in tx : Held(c))' /\ (\A c \in short : c \in returned \/ Held(c))'
  BY DEF PoolInv, Clean, Held
<1>6. ASSUME NEW l \in {"META", "LEDGER"}, NEW c \in Conns, Has(locks'[l], c) PROVE AtWorkWith(c)'
  BY <1>6 DEF PoolInv, Clean, AtWorkWith
<1>7. Clean'
  BY <1>5, <1>6 DEF Clean, Has
<1> QED BY <1>1, <1>2, <1>3, <1>4, <1>7 DEF PoolInv

Given(r, c) == has' = [has EXCEPT ![r] = c] /\ ~Held(c) /\ AsNew(c)'

LEMMA TakesKeep ==
  ASSUME PoolInv, NEW r \in Requests, Writing!TakeIdle(r)
  PROVE PoolInv' /\ \E c \in Conns : Given(r, c)
<1>1. PICK c \in idle : has' = [has EXCEPT ![r] = c] /\ idle' = idle \ {c}
  BY DEF Writing!TakeIdle, Writing!Alive
<1>2. /\ UNCHANGED <<lobby, queue, returned, tx, short, locks>> /\ Writing!Done(r)
      /\ Next1(r, "take") /\ ~Has(queue, r)
  BY DEF Writing!TakeIdle, Writing!WithThread, Writing!InServer, Writing!At, Writing!Contains, Has, Next1
<1>3. c \in Conns /\ c # none /\ ~Held(c) /\ c \notin returned
  BY PoolIs DEF PoolInv, PoolTypes, Apart
<1>4. AsNew(c)
  BY <1>3 DEF AsNew, PoolInv, Clean, Held, AtWorkWith
<1>5. AsNew(c)'
  BY <1>2, <1>4 DEF AsNew, Has
<1>6. /\ queue \in Seq(Requests) /\ Once(queue) /\ returned' = returned \ {c}
      /\ locks \in [{"META", "LEDGER"} -> Seq(Conns)] /\ \A l \in {"META", "LEDGER"} : Once(locks[l])
  BY <1>2, <1>3 DEF PoolInv, PoolTypes
<1>7. \A q : Has(queue', q) => Has(queue, q) /\ q # r
  BY <1>2
<1>8. PoolInv'
  BY <1>1, <1>2, <1>3, <1>5, <1>6, <1>7, GivenKeeps
<1> QED BY <1>1, <1>3, <1>5, <1>8 DEF Given

(* The pool's worker hands a connection on, or keeps it.                   *)
LEMMA HandsKeep ==
  ASSUME PoolInv, NEW c \in Conns, Writing!Grow(c) \/ Writing!Reset(c)
  PROVE PoolInv' /\ (UNCHANGED has \/ \E r \in Requests : Given(r, c))
<1>1. /\ Writing!Hand(c) /\ UNCHANGED lobby /\ returned' = returned \ {c}
      /\ tx' \subseteq tx \ {c} /\ short' = short \ {c}
      /\ c \notin idle /\ ~Held(c)
      /\ (Writing!Unlocked(c) \/ (UNCHANGED locks /\ c \notin returned))
  <2>1. CASE Writing!Grow(c)
    <3>1. c \notin idle /\ c \notin returned /\ ~Held(c)
      BY <2>1, PoolIs DEF Writing!Grow, Writing!Made, Held
    <3>2. c \notin tx /\ c \notin short
      BY <3>1 DEF PoolInv, Clean
    <3> QED BY <2>1, <3>1, <3>2 DEF Writing!Grow, Writing!WithThread, Writing!InServer
  <2>2. CASE Writing!Reset(c)
    BY <2>2 DEF Writing!Reset, Writing!ResetSettings, Writing!WithThread, PoolInv, Apart
  <2> QED BY <2>1, <2>2
<1>2. /\ c \notin idle /\ ~Held(c)
  <2>1. CASE Writing!Grow(c)
    BY <2>1, PoolIs DEF Writing!Grow, Writing!Made, Held
  <2>2. CASE Writing!Reset(c)
    BY <2>2 DEF Writing!Reset, PoolInv, Apart
  <2> QED BY <2>1, <2>2
<1>3. /\ locks' \in [{"META", "LEDGER"} -> Seq(Conns)]
      /\ \A l \in {"META", "LEDGER"} :
           Once(locks'[l]) /\ ~Has(locks'[l], c) /\ \A d : Has(locks'[l], d) => Has(locks[l], d)
  <2>1. CASE Writing!Unlocked(c)
    BY <2>1, UnlocksOne
  <2>2. CASE UNCHANGED locks
    BY <2>2, <1>2 DEF PoolInv, PoolTypes, Clean, AtWorkWith, Held
  <2> QED BY <1>1, <2>1, <2>2
<1>4. AsNew(c)'
  BY <1>1, <1>3 DEF AsNew, Has
<1>5. CASE queue = <<>> /\ idle' = idle \cup {c} /\ UNCHANGED <<todo, has, queue>>
  <2>1. /\ idle' \subseteq Conns /\ \A d \in idle' : d \notin returned' /\ ~Held(d)
    BY <1>1, <1>2, <1>5 DEF PoolInv, PoolTypes, Apart
  <2>2. \A d \in short' : d \in returned => d \in returned'
    BY <1>1
  <2>3. PoolInv'
    BY <1>1, <1>3, <1>5, <2>1, <2>2, PoolMoves
  <2> QED BY <1>5, <2>3
<1>6. CASE queue # <<>> /\ UNCHANGED idle
  <2>1. PICK r \in Requests : r = Head(queue)
    BY <1>6 DEF PoolInv, PoolTypes
  <2>2. /\ queue \in Seq(Requests) /\ Once(queue)
    BY DEF PoolInv, PoolTypes
  <2>3. /\ has' = [has EXCEPT ![r] = c] /\ queue' = Tail(queue) /\ Writing!Done(r)
    BY <1>1, <1>6, <2>1 DEF Writing!Hand
  <2>4. /\ Has(queue, r) /\ queue' \in Seq(Requests) /\ Once(queue')
        /\ \A q : Has(queue', q) => Has(queue, q) /\ q # r
    BY <1>6, <2>1, <2>2, <2>3, TailIs
  <2>5. Next1(r, "take")
    BY <2>4 DEF PoolInv, Lined
  <2>6. idle' \subseteq idle \ {c} /\ tx' \subseteq tx /\ short' \subseteq short
    BY <1>1, <1>2, <1>6
  <2>7. PoolInv'
    BY <1>1, <1>2, <1>3, <1>4, <2>3, <2>4, <2>5, <2>6, GivenKeeps
  <2> QED BY <1>2, <1>4, <2>3, <2>7 DEF Given
<1> QED BY <1>1, <1>5, <1>6 DEF Writing!Hand

LEMMA LossesKeep ==
  ASSUME PoolInv, NEW c \in Conns, Writing!Discard(c) \/ Writing!Break(c)
  PROVE PoolInv' /\ UNCHANGED has
<1>1. CASE Writing!Discard(c)
  <2>1. /\ UNCHANGED <<todo, has, queue, lobby, idle, tx, locks>>
        /\ returned' = returned \ {c} /\ short' = short \ {c}
    BY <1>1 DEF Writing!Discard, Writing!WithThread
  <2>2. /\ idle' \subseteq Conns /\ \A d \in idle' : d \notin returned' /\ ~Held(d)
        /\ locks' \in [{"META", "LEDGER"} -> Seq(Conns)]
        /\ \A l \in {"META", "LEDGER"} : Once(locks'[l]) /\ \A d : Has(locks'[l], d) => Has(locks[l], d)
    BY <2>1 DEF PoolInv, PoolTypes, Apart
  <2> QED BY <2>1, <2>2, PoolMoves
<1>2. CASE Writing!Break(c)
  <2>1. /\ UNCHANGED <<todo, has, queue, lobby, idle, returned, short>>
        /\ tx' = tx \ {c} /\ Writing!Unlocked(c)
    BY <1>2 DEF Writing!Break, Writing!WithThread, Writing!WithPool
  <2>2. /\ idle' \subseteq Conns /\ \A d \in idle' : d \notin returned' /\ ~Held(d)
    BY <2>1 DEF PoolInv, PoolTypes, Apart
  <2>3. /\ locks' \in [{"META", "LEDGER"} -> Seq(Conns)]
        /\ \A l \in {"META", "LEDGER"} : Once(locks'[l]) /\ \A d : Has(locks'[l], d) => Has(locks[l], d)
    BY <2>1, UnlocksOne
  <2> QED BY <2>1, <2>2, <2>3, PoolMoves
<1> QED BY <1>1, <1>2

LEMMA GivesKeep ==
  ASSUME PoolInv, NEW r \in Requests, Writing!Give(r)
  PROVE PoolInv' /\ \A q \in Requests : has'[q] = has[q] \/ has'[q] = none
<1> DEFINE c == has[r]
<1>1. /\ Next1(r, "give") /\ Writing!Done(r) /\ Writing!Unlocked(c)
      /\ tx' = tx \ {c} /\ returned' = returned \cup {c} /\ has' = [has EXCEPT ![r] = none]
      /\ UNCHANGED <<lobby, queue, idle, short>>
  BY DEF Writing!Give, Writing!At, Writing!WithThread, Next1
<1>2. /\ todo' \in [Requests -> Seq(Steps)] /\ \A q \in Requests \ {r} : todo'[q] = todo[q]
      /\ c # none /\ Runs(todo'[r], "free", "free")
  BY <1>1, GoesOnAsPlanned DEF Next1
<1>3. c \in Conns
  BY <1>2 DEF PoolInv, PoolTypes
<1>4. /\ has' \in [Requests -> Conns \cup {none}] /\ has'[r] = none
      /\ \A q \in Requests \ {r} : has'[q] = has[q] /\ has[q] # c
  BY <1>1, <1>2 DEF PoolInv, PoolTypes, Apart
<1>5. /\ locks' \in [{"META", "LEDGER"} -> Seq(Conns)]
      /\ \A l \in {"META", "LEDGER"} : Once(locks'[l])
      /\ \A l \in {"META", "LEDGER"}, d \in Conns : Has(locks'[l], d) => Has(locks[l], d) /\ d # c
  BY <1>1, UnlocksOne
<1>6. PICK x : x = c
  OBVIOUS
<1>7. \A d : d # none => (Held(d)' <=> d # x /\ Held(d))
  BY <1>2, <1>4, <1>6 DEF Held
<1>8. ~Has(queue, r) /\ ~Has(lobby, r) /\ x \in Conns /\ x # none /\ x \notin idle /\ x \notin returned
  BY <1>1, <1>2, <1>3, <1>6 DEF PoolInv, Lined, Next1, Apart, Held
<1>9. PoolTypes'
  BY <1>1, <1>2, <1>3, <1>4, <1>5 DEF PoolInv, PoolTypes, Once
<1>10. Apart'
  <2>1. \A d \in idle' : d # none /\ d \in idle /\ d # x
    BY <1>1, <1>8, PoolIs DEF PoolInv, PoolTypes
  <2>2. \A d \in returned' : d # none /\ (d = x \/ (d \in returned /\ d # x))
    BY <1>1, <1>6, <1>8, PoolIs DEF PoolInv, PoolTypes
  <2>3. \A d \in idle' : d \notin returned' /\ ~Held(d)'
    BY <1>7, <2>1, <2>2 DEF PoolInv, Apart
  <2>4. \A d \in returned' : ~Held(d)'
    BY <1>7, <2>2 DEF PoolInv, Apart
  <2>5. \A p, q \in Requests : has'[p] # none /\ has'[p] = has'[q] => p = q
    BY <1>4 DEF PoolInv, Apart
  <2> QED BY <2>3, <2>4, <2>5 DEF Apart
<1>11. Lined'
  <2>1. \A q \in Requests : Has(queue, q) => Next1(q, "take")'
    BY <1>2, <1>8 DEF PoolInv, Lined, Next1
  <2>2. \A q \in Requests : Has(lobby, q) => Next1(q, "thread")'
    BY <1>2, <1>8 DEF PoolInv, Lined, Next1
  <2> QED BY <1>1, <2>1, <2>2 DEF Lined, Has
<1>12. Planned'
  <2>1. ASSUME NEW q \in Requests \ {r} PROVE Runs(todo'[q], HandOf(q)', "free")
    BY <1>2, <1>4 DEF PoolInv, Planned, HandOf
  <2>2. Runs(todo'[r], HandOf(r)', "free")
    BY <1>2, <1>4 DEF HandOf
  <2>3. \A q \in Requests : Runs(todo'[q], HandOf(q)', "free")
    BY <2>1, <2>2
  <2> QED BY <2>3 DEF Planned, HandOf, Runs, Plan
<1>13. Clean'
  <2>1. \A d \in tx' : Held(d)'
    <3>1. \A d \in tx' : d # none /\ d # x /\ Held(d)
      BY <1>1, <1>6, PoolIs DEF PoolInv, PoolTypes, Clean
    <3> QED BY <3>1, <1>7
  <2>2. \A d \in short' : d \in returned' \/ Held(d)'
    <3>1. \A d \in short' : d # none /\ (d \in returned \/ Held(d))
      BY <1>1, PoolIs DEF PoolInv, PoolTypes, Clean
    <3> QED BY <3>1, <1>1, <1>6, <1>7
  <2>3. ASSUME NEW l \in {"META", "LEDGER"}, NEW d \in Conns, Has(locks'[l], d) PROVE AtWorkWith(d)'
    <3>1. Has(locks[l], d) /\ d # c
      BY <1>5, <2>3
    <3>2. PICK q \in Requests : has[q] = d /\ todo[q] # <<>> /\ Head(todo[q]) \in Working
      BY <3>1 DEF PoolInv, Clean, AtWorkWith
    <3>3. has'[q] = d /\ todo'[q] = todo[q]
      BY <3>1, <3>2, <1>2, <1>4
    <3> QED BY <3>2, <3>3 DEF AtWorkWith
  <2> QED BY <2>1, <2>2, <2>3 DEF Clean, Has
<1> QED BY <1>4, <1>9, <1>10, <1>11, <1>12, <1>13 DEF PoolInv

-----------------------------------------------------------------------------
LEMMA PoolBegins == ASSUME Writing!Init PROVE PoolInv
<1>1. /\ \A r \in Requests : todo[r] = <<>> /\ has[r] = none
      /\ todo \in [Requests -> Seq(Steps)] /\ has \in [Requests -> Conns \cup {none}]
      /\ lobby = <<>> /\ queue = <<>> /\ idle = {} /\ returned = {} /\ tx = {} /\ short = {}
      /\ locks = [l \in {"META", "LEDGER"} |-> <<>>]
  BY DEF Writing!Init, Writing!Locks
<1>2. <<>> \in Seq(Requests) /\ <<>> \in Seq(Conns) /\ Len(<<>>) = 0 /\ Once(<<>>) /\ \A x : ~Has(<<>>, x)
  BY DEF Once, Has
<1>3. PoolTypes
  BY <1>1, <1>2 DEF PoolTypes
<1>4. Apart /\ Lined /\ Clean
  BY <1>1, <1>2 DEF Apart, Lined, Clean, Held
<1>5. Planned
  BY <1>1, PiecesRun DEF Planned, HandOf
<1> QED BY <1>3, <1>4, <1>5 DEF PoolInv

Handed == \/ \A r \in Requests : has'[r] = has[r] \/ has'[r] = none
          \/ \E r \in Requests, c \in Conns : Given(r, c)

LEMMA PoolGoesOn == ASSUME PoolInv, [Writing!Next]_Writing!vars PROVE PoolInv' /\ Handed
<1>1. CASE UNCHANGED Writing!vars
  BY <1>1 DEF Writing!vars, PoolInv, PoolTypes, Apart, Lined, Planned, Clean, Handed,
              HandOf, Held, Next1, AtWorkWith
<1>2. ASSUME NEW r \in Requests, Writing!Arrive(r) \/ Writing!LineUp(r) \/ Writing!Admit(r) \/ Writing!Leave(r)
      PROVE PoolInv' /\ Handed
  BY <1>2, ThreadsKeep DEF Handed, Writing!Arrive, Writing!LineUp, Writing!Admit, Writing!Leave, Writing!WithPool
<1>3. ASSUME NEW r \in Requests, Writing!Wait(r) \/ Writing!Refuse(r) \/ Writing!PoolTimeOut(r)
      PROVE PoolInv' /\ Handed
  BY <1>3, WaitsKeep DEF Handed, Writing!Wait, Writing!Refuse, Writing!PoolTimeOut
<1>4. ASSUME NEW r \in Requests,
             \/ Writing!Touch(r) \/ Writing!Commit(r)
             \/ \E l \in Writing!Locks : Writing!Ask(r, l) \/ Writing!Obtain(r, l)
      PROVE PoolInv' /\ Handed
  BY <1>4, WorkKeeps DEF Handed, Writing!Touch, Writing!Commit, Writing!Ask, Writing!Obtain, Writing!WithPool
<1>5. ASSUME NEW r \in Requests,
             \/ Writing!Fail(r) \/ Writing!NoticeLoss(r)
             \/ \E l \in Writing!Locks : Writing!LockTimeOut(r, l)
      PROVE PoolInv' /\ Handed
  <2>1. /\ Writing!Abandon(r)
        /\ Next1(r, "touch") \/ (todo[r] # <<>> /\ Head(todo[r]) \in Working)
    BY <1>5 DEF Writing!Fail, Writing!NoticeLoss, Writing!LockTimeOut, Writing!At, Writing!Locks, Next1, Working
  <2>2. UNCHANGED has
    BY <2>1 DEF Writing!Abandon, Writing!WithPool
  <2> QED BY <2>1, <2>2, AbandonKeeps DEF Handed
<1>6. ASSUME NEW r \in Requests, Writing!TakeIdle(r) PROVE PoolInv' /\ Handed
  BY <1>6, TakesKeep DEF Handed
<1>7. ASSUME NEW r \in Requests, Writing!Give(r) PROVE PoolInv' /\ Handed
  BY <1>7, GivesKeep DEF Handed
<1>8. ASSUME NEW c \in Conns, Writing!Grow(c) \/ Writing!Reset(c) PROVE PoolInv' /\ Handed
  BY <1>8, HandsKeep DEF Handed
<1>9. ASSUME NEW c \in Conns, Writing!Discard(c) \/ Writing!Break(c) PROVE PoolInv' /\ Handed
  BY <1>9, LossesKeep DEF Handed
<1> QED BY <1>1, <1>2, <1>3, <1>4, <1>5, <1>6, <1>7, <1>8, <1>9
        DEF Writing!Next, Writing!Proceed, Writing!Worker, Writing!TimeOut

(* For any requests, kinds of them, connections and limits: a connection   *)
(* is idle, returned or one request's, and what was done with it is over   *)
(* when it is nobody's, but for the time limit that is reset (connection). *)
THEOREM PoolInvariance == Writing!Spec => []PoolInv
<1>1. Writing!Init => PoolInv
  BY PoolBegins
<1>2. PoolInv /\ [Writing!Next]_Writing!vars => PoolInv'
  BY PoolGoesOn
<1> QED BY <1>1, <1>2, PTL DEF Writing!Spec

(* For any requests, kinds of them, connections and limits, whoever fails, *)
(* runs out of time or loses a connection: locks are of requests at work,  *)
(* and who gets a connection finds it as new (_reset_connection).          *)
THEOREM ConnectionsHold == Writing!Spec => ConnectionsAreClean
<1>1. PoolInv => Writing!LocksAreWorkedOn
  <2> SUFFICES ASSUME PoolInv, NEW l \in {"META", "LEDGER"}, NEW c \in Writing!Range(locks[l])
               PROVE \E r \in Requests : has[r] = c
                       /\ \E s \in Writing!Locks \cup {"commit"} : Writing!At(r, s)
    BY DEF Writing!LocksAreWorkedOn, Writing!Locks
  <2>1. PICK s \in Seq(Conns) : s = locks[l]
    BY DEF PoolInv, PoolTypes
  <2>2. c \in Conns /\ Has(s, c)
    BY <2>1 DEF Writing!Range, Has
  <2>3. PICK r \in Requests : has[r] = c /\ todo[r] # <<>> /\ Head(todo[r]) \in Working
    BY <2>1, <2>2 DEF PoolInv, Clean, AtWorkWith
  <2> QED BY <2>3 DEF Working, Writing!Locks, Writing!At
<1>2. ASSUME PoolInv, PoolInv', Handed
      PROVE \A r \in Requests : has[r] = none /\ has'[r] # none =>
              /\ has'[r] \notin tx' \cup short'
              /\ \A l \in Writing!Locks : ~Writing!Contains(locks'[l], has'[r])
              /\ \A s \in Requests \ {r} : has'[s] # has'[r]
  <2> SUFFICES ASSUME NEW r \in Requests, has[r] = none, has'[r] # none
               PROVE /\ has'[r] \notin tx' \cup short'
                     /\ \A l \in Writing!Locks : ~Writing!Contains(locks'[l], has'[r])
                     /\ \A s \in Requests \ {r} : has'[s] # has'[r]
    OBVIOUS
  <2>1. PICK q \in Requests, c \in Conns : Given(q, c)
    BY <1>2 DEF Handed
  <2>2. q = r /\ has'[r] = c
    BY <2>1, <1>2 DEF Given, PoolInv, PoolTypes
  <2>3. /\ c \notin tx' /\ c \notin short'
        /\ \A l \in {"META", "LEDGER"} : ~Has(locks'[l], c)
    BY <2>1 DEF Given, AsNew, Has
  <2>4. \A s \in Requests \ {r} : has'[s] # has'[r]
    BY <1>2 DEF PoolInv, Apart
  <2> QED BY <2>2, <2>3, <2>4 DEF Writing!Locks, Writing!Contains, Has
<1>3. PoolInv /\ PoolInv' /\ [Writing!Next]_Writing!vars =>
        [\A r \in Requests : has[r] = none /\ has'[r] # none =>
              /\ has'[r] \notin tx' \cup short'
              /\ \A l \in Writing!Locks : ~Writing!Contains(locks'[l], has'[r])
              /\ \A s \in Requests \ {r} : has'[s] # has'[r]]_Writing!vars
  BY <1>2, PoolGoesOn
<1>4. PoolInv' => Writing!LocksAreWorkedOn'
  BY <1>1, PTL
<1>5. PoolInv' => [Writing!LocksAreWorkedOn']_pool
  BY <1>4
<1> QED BY <1>3, <1>5, PoolInvariance, PTL
        DEF Writing!Spec, ConnectionsAreClean, Writing!TakenClean

=============================================================================
