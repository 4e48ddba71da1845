-------------------------- MODULE AccessProofs --------------------------
(***************************************************************************)
(* Counters of attempts, for any limits, windows, waits and numbers of     *)
(* attempts: a row counts what was let through since it began, a refusal   *)
(* is deserved, and in the time of a window, less the longest wait, no     *)
(* counter lets more through than twice its limit.  The last needs two     *)
(* facts about what came before the row of the moment: it was let through  *)
(* before the row began, but for the wait; and what came a whole limit     *)
(* earlier, a window ago.                                                  *)
(*                                                                         *)
(* Names, in the second part, for any users, names, passwords and requests *)
(* (the instance Named): who is called what, and for what proof.           *)
(***************************************************************************)
EXTENDS MCAccess, TLAPS

-----------------------------------------------------------------------------
(* The inductive invariant, first for one counter: its limit l, its window *)
(* w, its row (start s, attempts n), what it let through, and the time.    *)

Counts(l, s, n, adm, t) ==
  /\ n <= l /\ n <= Len(adm) /\ s <= t
  /\ \A i \in 1..Len(adm) : adm[i] <= t
  /\ \A i \in 1..Len(adm) : i > Len(adm) - n => adm[i] >= s
(* Before the row began.                                                   *)
Before(s, n, adm) ==
  n > 0 => \A i \in 1..Len(adm) : i <= Len(adm) - n => adm[i] <= s + MaxWait
(* A whole limit before the row.                                           *)
LongBefore(l, w, n, adm, t) ==
  \A i \in 1..Len(adm) : i + l + n <= Len(adm) => adm[i] + w <= t + MaxWait
Bounded(l, w, adm) ==
  \A i \in 1..Len(adm) : i + 2 * l <= Len(adm) => adm[i] + w <= adm[i + 2 * l] + MaxWait
Fit(l, w, s, n, adm, t) ==
  /\ Counts(l, s, n, adm, t) /\ Before(s, n, adm)
  /\ LongBefore(l, w, n, adm, t) /\ Bounded(l, w, adm)

AllFit ==
  \A k \in Counters :
    Fit(Limit(k), Length(k), counter[k].start, counter[k].attempts, admitted[k], now)
(* Whoever waits came a moment ago.                                        *)
Recent == \A q \in Requests : Waiting(q) => request[q].at <= now /\ now <= request[q].at + MaxWait
IInv == TypeOK /\ AllFit /\ Recent

-----------------------------------------------------------------------------
(* Facts about one counter.                                                *)

LEMMA Constants ==
  /\ MaxWait \in Nat
  /\ \A k \in Counters : Limit(k) \in Nat /\ Limit(k) > 0 /\ Length(k) \in Nat /\ Length(k) > 0
<1>1. MaxWait \in Nat
  BY TimeAssumption DEF TimeAssumption
<1>2. \A k \in Counters : Length(k) \in Nat /\ Length(k) > 0
  BY TimeAssumption DEF TimeAssumption, Length
<1>3. \A k \in Counters : Limit(k) \in Nat /\ Limit(k) > 0
  BY LimitAssumption DEF LimitAssumption, Limit
<1> QED BY <1>1, <1>2, <1>3

(* Time passes.                                                            *)
LEMMA FitLater ==
  ASSUME NEW l \in Nat, NEW w \in Nat, NEW s \in Nat, NEW n \in Nat, NEW adm \in Seq(Nat),
         NEW t \in Nat, Fit(l, w, s, n, adm, t)
  PROVE Fit(l, w, s, n, adm, t + 1)
<1>1. MaxWait \in Nat /\ Len(adm) \in Nat /\ \A i \in 1..Len(adm) : adm[i] \in Nat
  BY Constants
<1>2. Counts(l, s, n, adm, t + 1)
  BY <1>1 DEF Fit, Counts
<1>3. LongBefore(l, w, n, adm, t + 1)
  <2> SUFFICES ASSUME NEW i \in 1..Len(adm), i + l + n <= Len(adm)
               PROVE adm[i] + w <= t + 1 + MaxWait
    BY DEF LongBefore
  <2>1. adm[i] + w <= t + MaxWait
    BY DEF Fit, LongBefore
  <2> QED BY <1>1, <2>1, SMTT(20)
<1> QED BY <1>2, <1>3 DEF Fit

(* The row goes, its window being past.                                    *)
LEMMA FitPurged ==
  ASSUME NEW l \in Nat, NEW w \in Nat, NEW s \in Nat, NEW n \in Nat, NEW adm \in Seq(Nat),
         NEW t \in Nat, Fit(l, w, s, n, adm, t), NEW at \in Nat, at <= t, s + w <= at
  PROVE Fit(l, w, 0, 0, adm, t)
<1>1. MaxWait \in Nat /\ Len(adm) \in Nat /\ \A i \in 1..Len(adm) : adm[i] \in Nat
  BY Constants
<1>2. Counts(l, 0, 0, adm, t)
  BY <1>1 DEF Fit, Counts
<1>3. Before(0, 0, adm)
  BY DEF Before
<1>4. LongBefore(l, w, 0, adm, t)
  <2> SUFFICES ASSUME NEW i \in 1..Len(adm), i + l <= Len(adm)
               PROVE adm[i] + w <= t + MaxWait
    BY DEF LongBefore
  <2>1. CASE n = 0
    BY <2>1 DEF Fit, LongBefore
  <2>2. CASE n > 0
    <3>1. i <= Len(adm) - n
      BY <1>1 DEF Fit, Counts
    <3>2. adm[i] <= s + MaxWait
      BY <2>2, <3>1 DEF Fit, Before
    <3> QED BY <1>1, <3>2, SMTT(20)
  <2> QED BY <2>1, <2>2
<1> QED BY <1>2, <1>3, <1>4 DEF Fit

(* An attempt is let through: the row counts it, or begins with it.        *)
LEMMA FitCounted ==
  ASSUME NEW l \in Nat, NEW w \in Nat, NEW s \in Nat, NEW n \in Nat, NEW adm \in Seq(Nat),
         NEW t \in Nat, Fit(l, w, s, n, adm, t), n < l,
         NEW at \in Nat, at <= t, t <= at + MaxWait
  PROVE Fit(l, w, IF n = 0 THEN at ELSE s, n + 1, Append(adm, t), t)
<1> DEFINE b == IF n = 0 THEN at ELSE s
           g == Append(adm, t)
<1>1. PICK m \in Nat : m = Len(adm)
  OBVIOUS
<1>2. MaxWait \in Nat
  BY Constants
<1>3. /\ Len(g) = m + 1 /\ g[m + 1] = t
      /\ \A i \in 1..m : g[i] = adm[i] /\ adm[i] \in Nat
  BY <1>1
<1>4. b \in Nat /\ b <= t /\ (n = 0 => b = at) /\ (n > 0 => b = s)
  BY DEF Fit, Counts
<1>5. /\ n <= m /\ \A i \in 1..m : adm[i] <= t
      /\ \A i \in 1..m : i > m - n => adm[i] >= s
  BY <1>1 DEF Fit, Counts
<1>6. n > 0 => \A i \in 1..m : i <= m - n => adm[i] <= s + MaxWait
  BY <1>1 DEF Fit, Before
<1>7. \A i \in 1..m : i + l + n <= m => adm[i] + w <= t + MaxWait
  BY <1>1 DEF Fit, LongBefore
<1>8. \A i \in 1..m : i + 2 * l <= m => adm[i] + w <= adm[i + 2 * l] + MaxWait
  BY <1>1 DEF Fit, Bounded
<1> HIDE DEF b, g
<1>9. Counts(l, b, n + 1, g, t)
  <2>1. n + 1 <= l /\ n + 1 <= m + 1
    BY <1>5
  <2>2. ASSUME NEW i \in 1..(m + 1) PROVE g[i] <= t
    <3>1. CASE i = m + 1
      BY <1>3, <3>1
    <3>2. CASE i \in 1..m
      BY <1>3, <1>5, <3>2
    <3> QED BY <3>1, <3>2
  <2>3. ASSUME NEW i \in 1..(m + 1), i > (m + 1) - (n + 1) PROVE g[i] >= b
    <3>1. CASE i = m + 1
      BY <1>3, <1>4, <3>1
    <3>2. CASE i \in 1..m
      <4>1. i > m - n /\ n > 0
        BY <2>3, <3>2
      <4>2. adm[i] >= s /\ b = s /\ g[i] = adm[i]
        BY <1>3, <1>4, <1>5, <3>2, <4>1
      <4> QED BY <4>2
    <3> QED BY <3>1, <3>2
  <2> QED BY <1>3, <1>4, <2>1, <2>2, <2>3 DEF Counts
<1>10. Before(b, n + 1, g)
  <2>1. ASSUME NEW i \in 1..(m + 1), i <= (m + 1) - (n + 1) PROVE g[i] <= b + MaxWait
    <3>1. i \in 1..m /\ i <= m - n
      BY <2>1
    <3>2. g[i] = adm[i] /\ adm[i] \in Nat /\ adm[i] <= t
      BY <1>3, <1>5, <3>1
    <3>3. CASE n = 0
      BY <1>2, <1>4, <3>2, <3>3
    <3>4. CASE n > 0
      BY <1>4, <1>6, <3>1, <3>2, <3>4
    <3> QED BY <3>3, <3>4
  <2> QED BY <1>3, <2>1 DEF Before
<1>11. ASSUME NEW i \in 1..(m + 1), i + l + (n + 1) <= m + 1 PROVE g[i] + w <= t + MaxWait
  <2>1. i \in 1..m /\ i + l + n <= m
    BY <1>11
  <2> QED BY <1>3, <1>7, <2>1
<1>12. LongBefore(l, w, n + 1, g, t)
  BY <1>3, <1>11 DEF LongBefore
<1>13. Bounded(l, w, g)
  <2>1. ASSUME NEW i \in 1..(m + 1), NEW j \in Nat, j = i + 2 * l, j <= m + 1
        PROVE g[i] + w <= g[j] + MaxWait
    <3>1. CASE j = m + 1
      <4>1. i + l + (n + 1) <= m + 1
        BY <2>1, <3>1
      <4> QED BY <1>3, <1>11, <3>1, <4>1
    <3>2. CASE j <= m
      <4>1. i \in 1..m /\ j \in 1..m
        BY <2>1, <3>2
      <4>2. adm[i] + w <= adm[j] + MaxWait
        BY <1>8, <2>1, <3>2, <4>1
      <4> QED BY <1>3, <4>1, <4>2
    <3> QED BY <2>1, <3>1, <3>2
  <2>2. \A i \in 1..(m + 1) : i + 2 * l \in Nat
    OBVIOUS
  <2> QED BY <1>3, <2>1, <2>2 DEF Bounded
<1>14. Fit(l, w, b, n + 1, g, t)
  BY <1>9, <1>10, <1>12, <1>13 DEF Fit
<1> QED BY <1>14 DEF b, g

(* No attempts yet.                                                        *)
LEMMA FitEmpty ==
  ASSUME NEW l \in Nat, NEW w \in Nat
  PROVE Fit(l, w, 0, 0, <<>>, 0)
  BY DEF Fit, Counts, Before, LongBefore, Bounded

-----------------------------------------------------------------------------
(* The tables.                                                             *)

LEMMA Types ==
  ASSUME IInv, NEW k \in Counters
  PROVE /\ counter[k] \in Counter /\ counter[k].start \in Nat /\ counter[k].attempts \in Nat
        /\ admitted[k] \in Seq(Nat) /\ now \in Nat
        /\ Fit(Limit(k), Length(k), counter[k].start, counter[k].attempts, admitted[k], now)
  BY DEF IInv, TypeOK, AllFit, Counter

(* What a transaction finds of a row, when those past are gone.            *)
LEMMA RowFits ==
  ASSUME IInv, NEW k \in Counters, NEW at \in Nat, at <= now
  PROVE /\ Row(k, at) \in Counter /\ Row(k, at).start \in Nat /\ Row(k, at).attempts \in Nat
        /\ Fit(Limit(k), Length(k), Row(k, at).start, Row(k, at).attempts, admitted[k], now)
<1>1. /\ counter[k] \in Counter /\ counter[k].start \in Nat /\ counter[k].attempts \in Nat
      /\ admitted[k] \in Seq(Nat) /\ now \in Nat
      /\ Fit(Limit(k), Length(k), counter[k].start, counter[k].attempts, admitted[k], now)
  BY Types
<1>2. NoRow \in Counter /\ NoRow.start = 0 /\ NoRow.attempts = 0
  BY DEF NoRow, Counter
<1>3. CASE Past(k, at)
  <2>1. Fit(Limit(k), Length(k), 0, 0, admitted[k], now)
    BY <1>1, <1>3, Constants, FitPurged DEF Past
  <2> QED BY <1>2, <1>3, <2>1 DEF Row
<1>4. CASE ~Past(k, at)
  BY <1>1, <1>4 DEF Row
<1> QED BY <1>3, <1>4

(* A transaction that lets its attempt through.                            *)
LEMMA PassKeeps ==
  ASSUME IInv, NEW K \in SUBSET Counters, NEW at \in Nat,
         at <= now, now <= at + MaxWait, Pass(K, at), now' = now
  PROVE /\ counter' \in [Counters -> Counter] /\ admitted' \in [Counters -> Seq(Nat)]
        /\ AllFit'
<1>1. /\ counter' = [k \in Counters |-> IF k \in K THEN Counted(k, at)
                                        ELSE IF k \in Purged(K) THEN Row(k, at) ELSE counter[k]]
      /\ admitted' = [k \in Counters |-> IF k \in K THEN Append(admitted[k], now) ELSE admitted[k]]
  BY DEF Pass
<1>2. ASSUME NEW k \in Counters
      PROVE /\ counter'[k] \in Counter /\ admitted'[k] \in Seq(Nat)
            /\ Fit(Limit(k), Length(k), counter'[k].start, counter'[k].attempts, admitted'[k], now)
  <2>1. /\ Limit(k) \in Nat /\ Length(k) \in Nat /\ now \in Nat /\ admitted[k] \in Seq(Nat)
        /\ counter[k] \in Counter
        /\ Fit(Limit(k), Length(k), counter[k].start, counter[k].attempts, admitted[k], now)
    BY Constants, Types
  <2>2. /\ Row(k, at) \in Counter /\ Row(k, at).start \in Nat /\ Row(k, at).attempts \in Nat
        /\ Fit(Limit(k), Length(k), Row(k, at).start, Row(k, at).attempts, admitted[k], now)
    BY RowFits
  <2>3. CASE k \in K
    <3>1. counter'[k] = Counted(k, at) /\ admitted'[k] = Append(admitted[k], now)
      BY <1>1, <2>3
    <3>2. Row(k, at).attempts < Limit(k)
      BY <2>1, <2>2, <2>3 DEF Pass, Full
    <3>3. /\ Counted(k, at).start = IF Row(k, at).attempts = 0 THEN at ELSE Row(k, at).start
          /\ Counted(k, at).attempts = Row(k, at).attempts + 1
          /\ Counted(k, at) \in Counter
      BY <2>2 DEF Counted, Counter
    <3>4. Fit(Limit(k), Length(k), IF Row(k, at).attempts = 0 THEN at ELSE Row(k, at).start,
              Row(k, at).attempts + 1, Append(admitted[k], now), now)
      BY <2>1, <2>2, <3>2, FitCounted
    <3>5. Append(admitted[k], now) \in Seq(Nat)
      BY <2>1
    <3> QED BY <3>1, <3>3, <3>4, <3>5
  <2>4. CASE k \notin K /\ k \in Purged(K)
    BY <1>1, <2>1, <2>2, <2>4
  <2>5. CASE k \notin K /\ k \notin Purged(K)
    BY <1>1, <2>1, <2>5
  <2> QED BY <2>3, <2>4, <2>5
<1>3. counter' \in [Counters -> Counter] /\ admitted' \in [Counters -> Seq(Nat)]
  <2>1. DOMAIN counter' = Counters /\ DOMAIN admitted' = Counters
    BY <1>1
  <2>2. counter' = [k \in Counters |-> counter'[k]] /\ admitted' = [k \in Counters |-> admitted'[k]]
    BY <1>1, <2>1
  <2> QED BY <1>2, <2>2
<1>4. AllFit'
  BY <1>2 DEF AllFit, Limit, Length
<1> QED BY <1>3, <1>4

(* A request becomes another one, which waits since a moment ago if at all.*)
LEMMA ToKeeps ==
  ASSUME IInv, NEW q \in Requests, NEW r \in Request, To(q, r), now' = now,
         r.stage \in {"attempt", "register"} => r.at <= now /\ now <= r.at + MaxWait
  PROVE request' \in [Requests -> Request] /\ Recent'
<1>1. /\ request' \in [Requests -> Request] /\ request'[q] = r
      /\ \A p \in Requests \ {q} : request'[p] = request[p]
  BY DEF IInv, TypeOK, To
<1>2. Recent'
  <2> SUFFICES ASSUME NEW p \in Requests, request'[p].stage \in {"attempt", "register"}
               PROVE request'[p].at <= now /\ now <= request'[p].at + MaxWait
    BY DEF Recent, Waiting
  <2>1. CASE p = q
    BY <1>1, <2>1
  <2>2. CASE p # q
    BY <1>1, <2>2 DEF IInv, Recent, Waiting
  <2> QED BY <2>1, <2>2
<1> QED BY <1>1, <1>2

LEMMA NoRequestTyped == NoRequest \in Request /\ NoRequest.stage = "none"
<1>1. (CHOOSE s \in Sources : TRUE) \in Sources /\ (CHOOSE t \in Targets : TRUE) \in Targets
  BY NameAssumption DEF NameAssumption
<1> QED BY <1>1 DEF NoRequest, Request

LEMMA CountersKnown ==
  ASSUME NEW r \in Request
  PROVE Attempted(r) \in SUBSET Counters /\ Registered(r) \in SUBSET Counters
<1>1. r.source \in Sources /\ r.target \in Targets
  BY DEF Request
<1> QED BY <1>1 DEF Attempted, Registered, Counters, Hourly

(* A transaction, let through or refused.                                  *)
LEMMA ReserveTables ==
  ASSUME IInv, NEW K \in SUBSET Counters, NEW at \in Nat,
         at <= now, now <= at + MaxWait, Pass(K, at) \/ Refuse(K, at), now' = now
  PROVE /\ counter' \in [Counters -> Counter] /\ admitted' \in [Counters -> Seq(Nat)]
        /\ AllFit'
<1>1. CASE Pass(K, at)
  BY <1>1, PassKeeps
<1>2. CASE Refuse(K, at)
  <2>1. counter' = counter /\ admitted' = admitted
    BY <1>2 DEF Refuse
  <2> QED BY <2>1 DEF IInv, TypeOK, AllFit
<1> QED BY <1>1, <1>2

-----------------------------------------------------------------------------
(* The steps.                                                              *)

(* No row counts anything, and no attempt is late.                         *)
LEMMA InitInv == Init => IInv
<1> SUFFICES ASSUME Init PROVE IInv
  OBVIOUS
<1>1. <<>> \in Seq(Nat) /\ NoRow \in Counter /\ NoRow.start = 0 /\ NoRow.attempts = 0
  BY DEF NoRow, Counter
<1>2. TypeOK
  BY <1>1, NoRequestTyped DEF Init, TypeOK
<1>3. AllFit
  <2> SUFFICES ASSUME NEW k \in Counters
               PROVE Fit(Limit(k), Length(k), counter[k].start, counter[k].attempts, admitted[k], now)
    BY DEF AllFit
  <2>1. counter[k] = NoRow /\ admitted[k] = <<>> /\ now = 0
    BY DEF Init
  <2> QED BY <1>1, <2>1, Constants, FitEmpty
<1>4. Recent
  BY NoRequestTyped DEF Init, Recent, Waiting
<1> QED BY <1>2, <1>3, <1>4 DEF IInv

LEMMA ArriveKeeps ==
  ASSUME IInv, NEW q \in Requests, NEW s \in Sources, NEW t \in Targets,
         NEW registers \in BOOLEAN, Arrive(q, s, t, registers)
  PROVE IInv'
<1> DEFINE r == [stage |-> "attempt", source |-> s, target |-> t, registers |-> registers, at |-> now]
<1>1. /\ To(q, r) /\ attempts' = attempts + 1
      /\ UNCHANGED <<now, counter, admitted>>
  BY DEF Arrive
<1>2. r \in Request /\ r.at = now
  BY DEF Request, IInv, TypeOK
<1> HIDE DEF r
<1>3. now \in Nat /\ now <= now /\ now <= now + MaxWait
  BY Constants DEF IInv, TypeOK
<1>4. request' \in [Requests -> Request] /\ Recent'
  BY <1>1, <1>2, <1>3, ToKeeps
<1>5. TypeOK' /\ AllFit'
  BY <1>1, <1>4 DEF IInv, TypeOK, AllFit
<1> QED BY <1>4, <1>5 DEF IInv

LEMMA ReservesKeep ==
  ASSUME IInv, NEW q \in Requests, Reserve(q) \/ ReserveRegistration(q)
  PROVE IInv'
<1> DEFINE r == request[q]
<1>1. r \in Request /\ r.at \in Nat
  BY DEF IInv, TypeOK, Request
<1>2. Waiting(q) /\ UNCHANGED <<now, attempts>>
  BY DEF Reserve, ReserveRegistration, Waiting
<1>3. r.at <= now /\ now <= r.at + MaxWait
  BY <1>2 DEF IInv, Recent
<1>4. \E K \in SUBSET Counters : Pass(K, r.at) \/ Refuse(K, r.at)
  <2>1. Attempted(r) \in SUBSET Counters /\ Registered(r) \in SUBSET Counters
    BY <1>1, CountersKnown
  <2> QED BY <2>1 DEF Reserve, ReserveRegistration
<1>5. \E p \in Request : To(q, p) /\ p.stage \notin {"attempt", "register"}
  <2>1. [r EXCEPT !.stage = "admitted"] \in Request
        /\ [r EXCEPT !.stage = "admitted"].stage = "admitted"
    BY <1>1 DEF Request
  <2> QED BY <2>1, NoRequestTyped DEF Reserve, ReserveRegistration
<1> HIDE DEF r
<1>6. /\ counter' \in [Counters -> Counter] /\ admitted' \in [Counters -> Seq(Nat)]
      /\ AllFit'
  <2>1. PICK K \in SUBSET Counters : Pass(K, r.at) \/ Refuse(K, r.at)
    BY <1>4
  <2> QED BY <1>1, <1>2, <1>3, <2>1, ReserveTables
<1>7. request' \in [Requests -> Request] /\ Recent'
  <2>1. PICK p \in Request : To(q, p) /\ p.stage \notin {"attempt", "register"}
    BY <1>5
  <2> QED BY <1>2, <2>1, ToKeeps
<1>8. TypeOK'
  BY <1>2, <1>6, <1>7 DEF IInv, TypeOK
<1> QED BY <1>6, <1>7, <1>8 DEF IInv

LEMMA OthersKeep ==
  ASSUME IInv, NEW q \in Requests, BeginRegistration(q) \/ GiveUp(q)
  PROVE IInv'
<1>1. UNCHANGED <<now, counter, attempts, admitted>>
  BY DEF BeginRegistration, GiveUp
<1>2. now \in Nat /\ request[q] \in Request
  BY DEF IInv, TypeOK
<1>3. PICK p \in Request : /\ To(q, p)
                           /\ p.stage \in {"attempt", "register"} => p.at = now
  <2>1. CASE BeginRegistration(q)
    <3> DEFINE p == [request[q] EXCEPT !.stage = "register", !.at = now]
    <3>1. p \in Request /\ p.at = now /\ To(q, p)
      BY <1>2, <2>1 DEF BeginRegistration, Request
    <3> QED BY <3>1
  <2>2. CASE GiveUp(q)
    BY <2>2, NoRequestTyped DEF GiveUp
  <2> QED BY <2>1, <2>2
<1>4. now <= now /\ now <= now + MaxWait
  BY <1>2, Constants
<1>5. request' \in [Requests -> Request] /\ Recent'
  BY <1>1, <1>3, <1>4, ToKeeps
<1>6. TypeOK' /\ AllFit'
  BY <1>1, <1>5 DEF IInv, TypeOK, AllFit
<1> QED BY <1>5, <1>6 DEF IInv

LEMMA TickKeeps == ASSUME IInv, Tick PROVE IInv'
<1>1. /\ \A q \in Requests : Waiting(q) => now < request[q].at + MaxWait
      /\ now' = now + 1 /\ UNCHANGED <<counter, request, attempts, admitted>>
  BY DEF Tick
<1>2. now \in Nat /\ MaxWait \in Nat /\ \A q \in Requests : request[q].at \in Nat
  BY Constants DEF IInv, TypeOK, Request
<1>3. TypeOK'
  BY <1>1, <1>2 DEF IInv, TypeOK
<1>4. Recent'
  BY <1>1, <1>2 DEF IInv, Recent, Waiting
<1>5. AllFit'
  <2> SUFFICES ASSUME NEW k \in Counters
               PROVE Fit(Limit(k), Length(k), counter[k].start, counter[k].attempts,
                         admitted[k], now + 1)
    BY <1>1 DEF AllFit
  <2>1. /\ counter[k].start \in Nat /\ counter[k].attempts \in Nat
        /\ admitted[k] \in Seq(Nat)
        /\ Fit(Limit(k), Length(k), counter[k].start, counter[k].attempts, admitted[k], now)
    BY Types
  <2> QED BY <1>2, <2>1, Constants, FitLater
<1> QED BY <1>3, <1>4, <1>5 DEF IInv

-----------------------------------------------------------------------------
(* The theorems.                                                           *)

(* Every counter fits what it let through.                                 *)
THEOREM Invariance == Spec => []IInv
<1>1. IInv /\ [Next]_vars => IInv'
  <2> SUFFICES ASSUME IInv, [Next]_vars PROVE IInv'
    OBVIOUS
  <2>1. ASSUME NEW q \in Requests, NEW s \in Sources, NEW t \in Targets, NEW registers \in BOOLEAN,
               Arrive(q, s, t, registers)
        PROVE IInv'
    BY <2>1, ArriveKeeps
  <2>2. ASSUME NEW q \in Requests, Reserve(q) \/ ReserveRegistration(q) PROVE IInv'
    BY <2>2, ReservesKeep
  <2>3. ASSUME NEW q \in Requests, BeginRegistration(q) \/ GiveUp(q) PROVE IInv'
    BY <2>3, OthersKeep
  <2>4. CASE Tick
    BY <2>4, TickKeeps
  <2>5. CASE UNCHANGED vars
    BY <2>5 DEF vars, IInv, TypeOK, AllFit, Recent, Waiting
  <2> QED BY <2>1, <2>2, <2>3, <2>4, <2>5 DEF Next
<1> QED BY InitInv, <1>1, PTL DEF Spec

(* Type correctness of the counters.                                       *)
THEOREM TypeCorrect == Spec => []TypeOK
<1>1. IInv => TypeOK
  BY DEF IInv
<1> QED BY Invariance, <1>1, PTL

(* However late attempts are, a counter lets through at most twice its     *)
(* limit in a window less the longest wait (reserve).                      *)
THEOREM Bursts == Spec => []BurstsAreBounded
<1>1. IInv => BurstsAreBounded
  <2> SUFFICES ASSUME IInv, NEW k \in Counters, NEW i \in 1..Len(admitted[k]),
                      i + 2 * Limit(k) <= Len(admitted[k])
               PROVE admitted[k][i + 2 * Limit(k)] + MaxWait >= admitted[k][i] + Length(k)
    BY DEF BurstsAreBounded
  <2>1. /\ admitted[k] \in Seq(Nat) /\ Limit(k) \in Nat /\ Length(k) \in Nat /\ MaxWait \in Nat
        /\ Bounded(Limit(k), Length(k), admitted[k])
    BY Types, Constants DEF Fit
  <2>2. i \in Nat /\ i + 2 * Limit(k) \in 1..Len(admitted[k])
    BY <2>1
  <2>3. admitted[k][i] \in Nat /\ admitted[k][i + 2 * Limit(k)] \in Nat
    <3>1. \A j \in 1..Len(admitted[k]) : admitted[k][j] \in Nat
      BY <2>1
    <3> QED BY <2>2, <3>1
  <2>4. admitted[k][i] + Length(k) <= admitted[k][i + 2 * Limit(k)] + MaxWait
    BY <2>1 DEF Bounded
  <2> QED BY <2>1, <2>3, <2>4
<1> QED BY Invariance, <1>1, PTL

(* A row counts what was let through since it began, each attempt once.    *)
THEOREM RowsCount == Spec => []RowsCountAdmissions
<1>1. IInv => RowsCountAdmissions
  BY DEF IInv, AllFit, Fit, Counts, RowsCountAdmissions
<1> QED BY Invariance, <1>1, PTL

(* Who is refused is refused for a full limit of attempts within a window. *)
THEOREM Refusals == Spec => []RefusalsAreDeserved
<1>1. IInv => RefusalsAreDeserved
  <2> SUFFICES ASSUME IInv, NEW q \in Requests,
                      NEW k \in Attempted(request[q]) \cup Registered(request[q]),
                      Full(k, request[q].at)
               PROVE /\ Len(admitted[k]) >= Limit(k)
                     /\ \A i \in 1..Len(admitted[k]) : i > Len(admitted[k]) - Limit(k) =>
                          admitted[k][i] + Length(k) > request[q].at
    BY DEF RefusalsAreDeserved
  <2>1. request[q] \in Request /\ request[q].at \in Nat
    BY DEF IInv, TypeOK, Request
  <2>2. k \in Counters
    BY <2>1, CountersKnown
  <2>3. /\ counter[k].start \in Nat /\ counter[k].attempts \in Nat /\ admitted[k] \in Seq(Nat)
        /\ Counts(Limit(k), counter[k].start, counter[k].attempts, admitted[k], now)
        /\ Limit(k) \in Nat /\ Limit(k) > 0 /\ Length(k) \in Nat
    BY <2>2, Types, Constants DEF Fit
  <2>4. ~Past(k, request[q].at) /\ counter[k].attempts >= Limit(k)
    BY <2>3 DEF Full, Row, NoRow
  <2>5. counter[k].start + Length(k) > request[q].at
    BY <2>1, <2>3, <2>4 DEF Past
  <2>6. Len(admitted[k]) \in Nat /\ \A i \in 1..Len(admitted[k]) : admitted[k][i] \in Nat
    BY <2>3
  <2>7. Len(admitted[k]) >= Limit(k)
    BY <2>3, <2>4, <2>6 DEF Counts
  <2>8. ASSUME NEW i \in 1..Len(admitted[k]), i > Len(admitted[k]) - Limit(k)
        PROVE admitted[k][i] + Length(k) > request[q].at
    <3>1. admitted[k][i] >= counter[k].start
      BY <2>3, <2>4, <2>6, <2>8 DEF Counts
    <3>2. admitted[k][i] \in Nat
      BY <2>3
    <3>3. /\ counter[k].start \in Nat /\ Length(k) \in Nat
          /\ request[q].at \in Nat
      BY <2>1, <2>3
    <3> QED BY <2>5, <3>1, <3>2, <3>3
  <2> QED BY <2>7, <2>8
<1> QED BY Invariance, <1>1, PTL

(* The counters are right together.                                        *)
THEOREM CountersAreRight == Spec => []CountersHold
BY Bursts, RowsCount, Refusals, PTL DEF CountersHold

-----------------------------------------------------------------------------
(* Names, in a table of users of their own: for any users, names, requests *)
(* and passwords.                                                          *)

Assumed == Named!NameAssumption /\ Named!UserAssumption

(* The constants are as they should be.                                    *)
LEMMA AreAssumed == Assumed
  BY NamesAssumption DEF Assumed

(* What a lookup finds, and what a row that is not there is.               *)
LEMMA Lookups ==
  ASSUME NEW n, NEW u \in Users
  PROVE /\ u \in Named!HasUsername(n) <=> user[u].username = n
        /\ u \in Named!HasEmail(n) <=> user[u].email = n
  BY DEF Named!HasUsername, Named!HasEmail

LEMMA FirstRows ==
  ASSUME Assumed
  PROVE /\ Named!NoRow \in Named!Row /\ Named!NoRequest \in Named!Request
        /\ Named!NoRequest.stage = "none" /\ Named!NoRow.username = Nothing
        /\ Named!NoRow.email = Nothing /\ Named!NoRow.exists = FALSE
<1>1. Named!APassword \in Passwords
  BY DEF Named!APassword, Assumed, Named!UserAssumption
<1> QED BY <1>1 DEF Named!NoRow, Named!Row, Named!NoRequest, Named!Request, Named!Names

LEMMA FirstNames == Assumed /\ Named!Init => Named!IdentityInv
<1> SUFFICES ASSUME Assumed, Named!Init PROVE Named!IdentityInv
  OBVIOUS
<1>0. Owner \in Users /\ setting \in [owner : OwnerNames, open : {TRUE}, renamed : {FALSE}]
  BY DEF Assumed, Named!UserAssumption, Named!Init
<1>1. setting.owner \in Usernames \cup Emails /\ setting.owner # Nothing
  BY <1>0 DEF Assumed, Named!NameAssumption
<1>2. /\ \A u \in Users \ {Owner} : user[u] = Named!NoRow
      /\ user[Owner] = [Named!NoRow EXCEPT !.exists = TRUE, !.username = setting.owner]
      /\ DOMAIN user = Users /\ user = [u \in Users |-> user[u]]
  BY <1>0 DEF Named!Init
<1>3. /\ user[Owner] \in Named!Row /\ user[Owner].exists = TRUE
      /\ user[Owner].username = setting.owner /\ user[Owner].email = Nothing
  BY <1>1, <1>2, FirstRows DEF Named!Row, Named!Names
<1>4. user \in [Users -> Named!Row]
  BY <1>2, <1>3, FirstRows
<1>5. /\ main = {Owner} /\ writer = Nothing
      /\ \A q \in Requests : asked[q] = Named!NoRequest
      /\ asked \in [Requests -> Named!Request]
  BY FirstRows DEF Named!Init
<1>6. Named!TypeOK
  BY <1>0, <1>4, <1>5 DEF Named!TypeOK
<1>7. Named!UsersHaveAccounts
  BY <1>0, <1>2, <1>3, <1>5, FirstRows DEF Named!UsersHaveAccounts
<1>8. Named!NamesAreUnique
  BY <1>2, <1>3, FirstRows DEF Named!NamesAreUnique
<1>9. Named!EmailsAreNoNames
  BY <1>2, <1>3, <1>5, FirstRows DEF Named!EmailsAreNoNames
<1>10. \A q \in Requests : Named!RequestHolds(q, asked[q])
  BY <1>5, FirstRows DEF Named!RequestHolds, Assumed, Named!NameAssumption
<1> QED BY <1>6, <1>7, <1>8, <1>9, <1>10 DEF Named!IdentityInv

(* A request that goes a step on and writes no row.                        *)
LEMMA RequestStep ==
  ASSUME Named!IdentityInv, UNCHANGED <<user, main, setting>>,
         NEW q \in Requests, NEW r \in Named!Request, Named!To(q, r),
         Named!RequestHolds(q, r)', writer' \in Requests \cup {Nothing},
         \A p \in Requests \ {q} : writer' = p <=> writer = p,
         Named!NeverRenamed /\ r.stage \in {"register", "inserted"} => r.email # setting.owner
  PROVE Named!IdentityInv'
<1>1. /\ asked' = [asked EXCEPT ![q] = r] /\ asked \in [Requests -> Named!Request]
      /\ asked'[q] = r /\ \A p \in Requests \ {q} : asked'[p] = asked[p]
  BY DEF Named!To, Named!IdentityInv, Named!TypeOK
<1>2. Named!TypeOK'
  BY <1>1 DEF Named!IdentityInv, Named!TypeOK
<1>3. Named!UsersHaveAccounts' /\ Named!NamesAreUnique'
  BY DEF Named!IdentityInv, Named!UsersHaveAccounts, Named!NamesAreUnique
<1>4. Named!NeverRenamed => Named!EmailsAreNoNames'
  BY <1>1 DEF Named!IdentityInv, Named!EmailsAreNoNames
<1>5. ASSUME NEW p \in Requests PROVE Named!RequestHolds(p, asked[p])'
  <2>1. CASE p = q
    BY <1>1, <2>1 DEF Named!RequestHolds
  <2>2. CASE p # q
    <3>1. Named!RequestHolds(p, asked[p])
      BY DEF Named!IdentityInv
    <3> QED BY <1>1, <2>2, <3>1 DEF Named!RequestHolds, Named!Unique, Named!HasUsername, Named!HasEmail
  <2> QED BY <2>1, <2>2
<1> QED BY <1>2, <1>3, <1>4, <1>5 DEF Named!IdentityInv, Named!NeverRenamed

(* The steps that write no row.                                            *)
LEMMA CheckStep ==
  ASSUME Assumed, Named!IdentityInv, NEW q \in Requests, NEW n \in Usernames, NEW e \in Emails,
         NEW p \in Passwords, Named!CheckRegistration(q, n, e, p)
  PROVE Named!IdentityInv'
<1> DEFINE r == [Named!NoRequest EXCEPT !.stage = "register", !.username = n, !.email = e,
                                        !.password = p]
           x == [Named!NoRequest EXCEPT !.stage = "refused"]
<1>1. Named!NoRequest \in Named!Request
  BY FirstRows
<1>2. /\ UNCHANGED <<user, main, setting, writer>> /\ setting.owner = user[Owner].username
      /\ Owner \in Users /\ writer # q /\ writer' \in Requests \cup {Nothing}
  BY DEF Named!CheckRegistration, Named!IdentityInv, Named!NamesAreUnique, Named!RequestHolds,
         Named!TypeOK, Assumed, Named!UserAssumption
<1>3. CASE Named!Taken(n, e)
  <2>1. Named!To(q, x) /\ x \in Named!Request /\ x.stage = "refused"
    BY <1>1, <1>3 DEF Named!CheckRegistration, Named!Request
  <2>2. Named!RequestHolds(q, x)'
    BY <1>2, <2>1 DEF Named!RequestHolds
  <2> QED BY <1>2, <2>1, <2>2, RequestStep
<1>4. CASE ~Named!Taken(n, e)
  <2>1. /\ Named!To(q, r) /\ r \in Named!Request /\ r.stage = "register"
        /\ r.username = n /\ r.email = e
    BY <1>1, <1>4 DEF Named!CheckRegistration, Named!Request
  <2>2. Named!RequestHolds(q, r)'
    BY <1>2, <2>1 DEF Named!RequestHolds
  <2>3. e # setting.owner
    BY <1>2, <1>4, Lookups DEF Named!Taken
  <2> QED BY <1>2, <2>1, <2>2, <2>3, RequestStep
<1> QED BY <1>3, <1>4

LEMMA InsertStep ==
  ASSUME Assumed, Named!IdentityInv, NEW q \in Requests, Named!InsertUser(q)
  PROVE Named!IdentityInv'
<1> DEFINE r == asked[q]
           x == [Named!NoRequest EXCEPT !.stage = "refused"]
<1>1. /\ Named!NoRequest \in Named!Request /\ r \in Named!Request /\ Nothing \notin Requests
      /\ writer = Nothing /\ r.stage = "register" /\ UNCHANGED <<user, main, setting>>
      /\ r.username \in Usernames /\ r.email \in Emails
      /\ Named!NeverRenamed => r.email # setting.owner
  BY FirstRows DEF Named!InsertUser, Named!Insert, Named!IdentityInv, Named!TypeOK, Assumed,
         Named!NameAssumption, Named!RequestHolds, Named!EmailsAreNoNames
<1>2. CASE ~Named!Unique(r)
  <2>1. /\ Named!To(q, x) /\ x \in Named!Request /\ x.stage = "refused" /\ writer' = writer
    BY <1>1, <1>2 DEF Named!InsertUser, Named!Request
  <2>2. Named!RequestHolds(q, x)'
    BY <1>1, <2>1 DEF Named!RequestHolds
  <2> QED BY <1>1, <2>1, <2>2, RequestStep
<1>3. CASE Named!Unique(r)
  <2>1. PICK u \in Users : /\ ~user[u].exists /\ writer' = q
                           /\ Named!To(q, [r EXCEPT !.stage = "inserted", !.user = u])
    BY <1>1, <1>3 DEF Named!InsertUser
  <2>2. PICK y : y = [r EXCEPT !.stage = "inserted", !.user = u]
    OBVIOUS
  <2>3. /\ y \in Named!Request /\ y.stage = "inserted" /\ y.user = u
        /\ y.username = r.username /\ y.email = r.email
    BY <1>1, <2>2 DEF Named!Request
  <2>4. Named!RequestHolds(q, y)'
    BY <1>1, <1>3, <2>1, <2>3
    DEF Named!RequestHolds, Named!Unique, Named!HasUsername, Named!HasEmail
  <2> QED BY <1>1, <2>1, <2>2, <2>3, <2>4, RequestStep
<1> QED BY <1>2, <1>3

LEMMA EndStep ==
  ASSUME Assumed, Named!IdentityInv, NEW q \in Requests, Named!GiveUp(q) \/ Named!Answer(q)
  PROVE Named!IdentityInv'
<1>1. /\ Named!NoRequest \in Named!Request /\ Named!NoRequest.stage = "none"
      /\ Nothing \notin Requests /\ writer \in Requests \cup {Nothing}
      /\ asked[q].stage = "inserted" <=> writer = q
  BY FirstRows DEF Named!IdentityInv, Named!TypeOK, Assumed, Named!NameAssumption,
         Named!RequestHolds
<1>2. /\ UNCHANGED <<user, main, setting>> /\ Named!To(q, Named!NoRequest)
      /\ writer' = IF writer = q THEN Nothing ELSE writer
  BY <1>1 DEF Named!GiveUp, Named!Answer
<1>3. Named!RequestHolds(q, Named!NoRequest)'
  BY <1>1, <1>2 DEF Named!RequestHolds
<1> QED BY <1>1, <1>2, <1>3, RequestStep

LEMMA ProveStep ==
  ASSUME Assumed, Named!IdentityInv, NEW q \in Requests, NEW u \in Users, NEW e \in Emails,
         Named!ProveChange(q, u, e)
  PROVE Named!IdentityInv'
<1>1. /\ Named!NoRequest \in Named!Request /\ user[u] \in Named!Row /\ user[u].exists
      /\ UNCHANGED <<user, main, setting, writer>> /\ writer \in Requests \cup {Nothing}
      /\ writer # q
  BY FirstRows DEF Named!ProveChange, Named!IdentityInv, Named!TypeOK, Named!RequestHolds
<1>2. PICK r : r = [Named!NoRequest EXCEPT !.stage = "proved", !.user = u, !.email = e,
                     !.password = user[u].password, !.version = user[u].version]
  OBVIOUS
<1>3. /\ r \in Named!Request /\ r.stage = "proved" /\ r.user = u /\ r.email = e
      /\ r.password = user[u].password /\ r.version = user[u].version
      /\ user[u].version \in Nat /\ Named!To(q, r)
  BY <1>1, <1>2 DEF Named!Request, Named!Row, Named!ProveChange
<1>4. Named!RequestHolds(q, r)'
  BY <1>1, <1>3 DEF Named!RequestHolds
<1> QED BY <1>1, <1>3, <1>4, RequestStep

(* The steps that write a row.  Others' requests go on holding when the    *)
(* row of a user keeps its place and its password its version.             *)
LEMMA AccountStep ==
  ASSUME Assumed, Named!IdentityInv, NEW q \in Requests, Named!InsertAccount(q)
  PROVE Named!IdentityInv'
<1>1. PICK r : r = asked[q]
  OBVIOUS
<1>2. PICK u : u = r.user
  OBVIOUS
<1>3. PICK row : row = Named!NewRow(r)
  OBVIOUS
<1>0. r \in Named!Request /\ r.stage = "inserted" /\ Named!RequestHolds(q, r)
  BY <1>1 DEF Named!InsertAccount, Named!IdentityInv, Named!TypeOK
<1>4. /\ r \in Named!Request /\ r.stage = "inserted" /\ writer = q
      /\ u \in Users /\ ~user[u].exists /\ r.username \in Usernames /\ r.email \in Emails
      /\ \A v \in Users : user[v].username # r.username /\ user[v].email # r.email
  BY <1>0, <1>2, Lookups DEF Named!RequestHolds, Named!Unique
<1>5. /\ row \in Named!Row /\ row.exists = TRUE /\ row.username = r.username
      /\ row.email = r.email /\ row.password = r.password
  BY <1>3, <1>4 DEF Named!NewRow, Named!Row, Named!Names, Named!Request
<1>6. /\ user' = [user EXCEPT ![u] = row] /\ main' = main \cup {u} /\ writer' = Nothing
      /\ asked' = [asked EXCEPT ![q] = [r EXCEPT !.stage = "done"]] /\ setting' = setting
  BY <1>1, <1>2, <1>3 DEF Named!InsertAccount, Named!To
<1>7. PICK y : y = [r EXCEPT !.stage = "done"]
  OBVIOUS
<1>8. y \in Named!Request /\ y.stage = "done"
  BY <1>4, <1>7 DEF Named!Request
<1>9. /\ user \in [Users -> Named!Row] /\ asked \in [Requests -> Named!Request]
      /\ user'[u] = row /\ \A v \in Users \ {u} : user'[v] = user[v]
      /\ asked'[q] = y /\ \A p \in Requests \ {q} : asked'[p] = asked[p]
  BY <1>4, <1>6, <1>7 DEF Named!IdentityInv, Named!TypeOK
<1>10. u # Owner /\ Owner \in Users
  BY <1>4 DEF Named!IdentityInv, Named!NamesAreUnique, Assumed, Named!UserAssumption
<1>11. /\ Nothing \notin Requests /\ Nothing \notin Usernames /\ Nothing \notin Emails
       /\ Usernames \cap Emails = {}
  BY DEF Assumed, Named!NameAssumption
<1>12. Named!TypeOK'
  BY <1>4, <1>5, <1>6, <1>7, <1>8, <1>9 DEF Named!IdentityInv, Named!TypeOK
<1>13. Named!UsersHaveAccounts'
  BY <1>4, <1>5, <1>6, <1>9 DEF Named!IdentityInv, Named!UsersHaveAccounts
<1>14. Named!NamesAreUnique'
  BY <1>4, <1>5, <1>6, <1>9, <1>10, <1>11 DEF Named!IdentityInv, Named!NamesAreUnique
<1>15. ASSUME Named!NeverRenamed PROVE Named!EmailsAreNoNames'
  <2>1. Named!EmailsAreNoNames /\ r.email # setting.owner /\ user[Owner].username = setting.owner
    BY <1>1, <1>4, <1>15 DEF Named!IdentityInv, Named!EmailsAreNoNames, Named!NamesAreUnique
  <2>2. \A v \in Users \ {Owner} : user[v].username \in Usernames \cup {Nothing}
    BY DEF Named!IdentityInv, Named!NamesAreUnique
  <2>3. \A v \in Users : user[v].email \in Emails \cup {Nothing}
    BY <1>9 DEF Named!Row
  <2>4. ASSUME NEW v \in Users, NEW w \in Users,
               user'[v].email = user'[w].username, user'[v].email # Nothing
        PROVE v = w
    BY <1>4, <1>5, <1>9, <1>10, <1>11, <2>1, <2>2, <2>3, <2>4 DEF Named!EmailsAreNoNames
  <2> QED BY <1>6, <1>8, <1>9, <2>1, <2>4 DEF Named!EmailsAreNoNames
<1>16. ASSUME NEW p \in Requests PROVE Named!RequestHolds(p, asked[p])'
  <2>1. Named!RequestHolds(p, asked[p]) /\ p # Nothing
    BY <1>11 DEF Named!IdentityInv
  <2>2. CASE p = q
    BY <1>6, <1>8, <1>9, <2>1, <2>2 DEF Named!RequestHolds
  <2>3. CASE p # q
    BY <1>4, <1>6, <1>9, <2>1, <2>3 DEF Named!RequestHolds
  <2> QED BY <2>2, <2>3
<1>17. setting' = setting
  BY DEF Named!InsertAccount
<1> QED BY <1>12, <1>13, <1>14, <1>15, <1>16, <1>17 DEF Named!IdentityInv, Named!NeverRenamed

LEMMA ProfileStep ==
  ASSUME Assumed, Named!IdentityInv, NEW q \in Requests, Named!WriteProfile(q)
  PROVE Named!IdentityInv'
<1>1. PICK r : r = asked[q]
  OBVIOUS
<1>2. PICK u : u = r.user
  OBVIOUS
<1>3. PICK e : e = r.email
  OBVIOUS
<1>4. /\ r \in Named!Request /\ r.stage = "proved" /\ writer = Nothing /\ UNCHANGED <<main, setting, writer>>
      /\ u \in Users /\ user[u].exists /\ e \in Emails
  BY <1>1, <1>2, <1>3 DEF Named!WriteProfile, Named!IdentityInv, Named!TypeOK, Named!RequestHolds
<1>5. Nothing \notin Requests /\ Nothing \notin Emails
  BY DEF Assumed, Named!NameAssumption
<1>6. CASE ~(Named!FreeFor(u, e) /\ Named!Same(r))
  <2>1. PICK x : x = [Named!NoRequest EXCEPT !.stage = "refused"]
    OBVIOUS
  <2>2. x \in Named!Request /\ x.stage = "refused" /\ Named!To(q, x) /\ user' = user
    BY <1>1, <1>2, <1>3, <1>6, <2>1, FirstRows DEF Named!WriteProfile, Named!Request
  <2>3. Named!RequestHolds(q, x)'
    BY <1>4, <1>5, <2>2 DEF Named!RequestHolds
  <2> QED BY <1>4, <1>5, <2>2, <2>3, RequestStep
<1>7. CASE Named!FreeFor(u, e) /\ Named!Same(r)
  <2>1. PICK y : y = [r EXCEPT !.stage = "done"]
    OBVIOUS
  <2>2. /\ y \in Named!Request /\ y.stage = "done"
        /\ user' = [user EXCEPT ![u].email = e] /\ asked' = [asked EXCEPT ![q] = y]
    BY <1>1, <1>2, <1>3, <1>4, <1>7, <2>1 DEF Named!WriteProfile, Named!Request, Named!To
  <2>3. /\ user \in [Users -> Named!Row] /\ asked \in [Requests -> Named!Request]
    BY DEF Named!IdentityInv, Named!TypeOK
  <2>4. PICK row : row = [user[u] EXCEPT !.email = e]
    OBVIOUS
  <2>5. /\ row \in Named!Row /\ row.email = e /\ row.exists = user[u].exists
        /\ row.username = user[u].username /\ row.password = user[u].password
        /\ row.version = user[u].version /\ user' = [user EXCEPT ![u] = row]
    BY <1>4, <2>2, <2>3, <2>4 DEF Named!Row
  <2>6. /\ user'[u] = row /\ \A v \in Users \ {u} : user'[v] = user[v]
        /\ asked'[q] = y /\ \A p \in Requests \ {q} : asked'[p] = asked[p]
    BY <1>4, <2>2, <2>3, <2>5
  <2>7. \A v \in Users : user[v].username = e \/ user[v].email = e => v = u
    BY <1>7, Lookups DEF Named!FreeFor
  <2>8. Named!TypeOK'
    BY <1>4, <2>2, <2>3, <2>5 DEF Named!IdentityInv, Named!TypeOK
  <2>9. Named!UsersHaveAccounts'
    BY <1>4, <2>5, <2>6 DEF Named!IdentityInv, Named!UsersHaveAccounts
  <2>10. Named!NamesAreUnique'
    <3>1. Named!NamesAreUnique /\ Owner \in Users
      BY DEF Named!IdentityInv, Assumed, Named!UserAssumption
    <3>2. \A v \in Users : /\ user'[v].username = user[v].username
                           /\ user'[v].exists = user[v].exists
      BY <2>5, <2>6
    <3>3. \A v, w \in Users : user'[v].email = user'[w].email /\ user'[v].email # Nothing => v = w
      BY <2>5, <2>6, <2>7, <3>1 DEF Named!NamesAreUnique
    <3> QED BY <1>4, <3>1, <3>2, <3>3 DEF Named!NamesAreUnique
  <2>11. ASSUME Named!NeverRenamed PROVE Named!EmailsAreNoNames'
    <3>1. Named!EmailsAreNoNames
      BY <2>11 DEF Named!IdentityInv
    <3>2. \A v, w \in Users : user'[v].email = user'[w].username /\ user'[v].email # Nothing => v = w
      BY <2>5, <2>6, <2>7, <3>1 DEF Named!EmailsAreNoNames
    <3> QED BY <1>4, <2>2, <2>6, <3>1, <3>2 DEF Named!EmailsAreNoNames
  <2>12. ASSUME NEW p \in Requests PROVE Named!RequestHolds(p, asked[p])'
    <3>1. Named!RequestHolds(p, asked[p]) /\ p # Nothing
      BY <1>5 DEF Named!IdentityInv
    <3>2. CASE p = q
      BY <1>4, <2>2, <2>6, <3>1, <3>2 DEF Named!RequestHolds
    <3>3. CASE p # q
      <4>1. /\ asked'[p] = asked[p] /\ asked[p].stage # "inserted" /\ writer' # p
            /\ \A v \in Users : /\ user'[v].exists = user[v].exists
                                /\ user'[v].password = user[v].password
                                /\ user'[v].version = user[v].version
        BY <1>4, <2>5, <2>6, <3>1, <3>3 DEF Named!RequestHolds
      <4> QED BY <3>1, <4>1 DEF Named!RequestHolds
    <3> QED BY <3>2, <3>3
  <2> QED BY <1>4, <2>8, <2>9, <2>10, <2>11, <2>12 DEF Named!IdentityInv, Named!NeverRenamed
<1> QED BY <1>6, <1>7

(* A new password, or a user disabled or enabled: the version goes up.     *)
LEMMA VersionStep ==
  ASSUME Assumed, Named!IdentityInv, NEW u \in Users,
         \/ \E p \in Passwords : Named!ReplacePassword(u, p)
         \/ \E b \in BOOLEAN : Named!SetActive(u, b)
  PROVE Named!IdentityInv'
<1>1. /\ writer = Nothing /\ user[u].exists /\ UNCHANGED <<main, setting, asked, writer>>
      /\ user \in [Users -> Named!Row] /\ asked \in [Requests -> Named!Request]
  BY DEF Named!ReplacePassword, Named!SetActive, Named!IdentityInv, Named!TypeOK
<1>2. PICK row \in Named!Row :
        /\ user' = [user EXCEPT ![u] = row] /\ row.exists = user[u].exists
        /\ row.username = user[u].username /\ row.email = user[u].email
        /\ row.version = user[u].version + 1
  <2>0. /\ user[u] \in Named!Row /\ user[u].exists \in BOOLEAN
        /\ user[u].username \in Named!Names \cup {Nothing} /\ user[u].email \in Emails \cup {Nothing}
        /\ user[u].password \in Passwords /\ user[u].active \in BOOLEAN
        /\ user[u].version \in Nat /\ user[u].version + 1 \in Nat
    BY <1>1 DEF Named!Row
  <2>1. CASE \E p \in Passwords : Named!ReplacePassword(u, p)
    <3>1. PICK p \in Passwords : Named!ReplacePassword(u, p)
      BY <2>1
    <3>2. PICK z : z = [user[u] EXCEPT !.password = p]
      OBVIOUS
    <3>3. PICK y : y = [z EXCEPT !.version = user[u].version + 1]
      OBVIOUS
    <3>4. /\ z \in Named!Row /\ z.exists = user[u].exists /\ z.username = user[u].username
          /\ z.email = user[u].email
      BY <2>0, <3>1, <3>2 DEF Named!Row
    <3>5. /\ y \in Named!Row /\ y.exists = z.exists /\ y.username = z.username
          /\ y.email = z.email /\ y.version = user[u].version + 1
      BY <2>0, <3>3, <3>4 DEF Named!Row
    <3>6. user' = [user EXCEPT ![u] = y]
      BY <1>1, <3>1, <3>2, <3>3 DEF Named!ReplacePassword
    <3> QED BY <3>4, <3>5, <3>6
  <2>2. CASE \E b \in BOOLEAN : Named!SetActive(u, b)
    <3>1. PICK b \in BOOLEAN : Named!SetActive(u, b)
      BY <2>2
    <3>2. PICK z : z = [user[u] EXCEPT !.active = b]
      OBVIOUS
    <3>3. PICK y : y = [z EXCEPT !.version = user[u].version + 1]
      OBVIOUS
    <3>4. /\ z \in Named!Row /\ z.exists = user[u].exists /\ z.username = user[u].username
          /\ z.email = user[u].email
      BY <2>0, <3>1, <3>2 DEF Named!Row
    <3>5. /\ y \in Named!Row /\ y.exists = z.exists /\ y.username = z.username
          /\ y.email = z.email /\ y.version = user[u].version + 1
      BY <2>0, <3>3, <3>4 DEF Named!Row
    <3>6. user' = [user EXCEPT ![u] = y]
      BY <1>1, <3>1, <3>2, <3>3 DEF Named!SetActive
    <3> QED BY <3>4, <3>5, <3>6
  <2> QED BY <2>1, <2>2
<1>3. user'[u] = row /\ \A v \in Users \ {u} : user'[v] = user[v]
  BY <1>1, <1>2
<1>4. \A v \in Users : /\ user'[v].exists = user[v].exists
                       /\ user'[v].username = user[v].username
                       /\ user'[v].email = user[v].email
  BY <1>2, <1>3
<1>5. Named!TypeOK'
  BY <1>1, <1>2 DEF Named!IdentityInv, Named!TypeOK
<1>6. Named!UsersHaveAccounts'
  BY <1>1, <1>4 DEF Named!IdentityInv, Named!UsersHaveAccounts
<1>7. Named!NamesAreUnique'
  BY <1>1, <1>4 DEF Named!IdentityInv, Named!NamesAreUnique, Assumed, Named!UserAssumption
<1>8. Named!NeverRenamed => Named!EmailsAreNoNames'
  BY <1>1, <1>4 DEF Named!IdentityInv, Named!EmailsAreNoNames
<1>9. ASSUME NEW p \in Requests PROVE Named!RequestHolds(p, asked[p])'
  <2>1. /\ Named!RequestHolds(p, asked[p]) /\ p # Nothing /\ asked[p] \in Named!Request
        /\ asked'[p] = asked[p] /\ writer' # p
    BY <1>1 DEF Named!IdentityInv, Assumed, Named!NameAssumption
  <2>2. asked[p].stage # "inserted"
    BY <1>1, <2>1 DEF Named!RequestHolds
  <2>3. asked[p].version \in Nat /\ user[u].version \in Nat
    BY <1>1, <2>1 DEF Named!Request, Named!Row
  <2>4. ASSUME asked[p].stage = "proved"
        PROVE /\ asked[p].user \in Users /\ user'[asked[p].user].exists /\ asked[p].email \in Emails
              /\ asked[p].version <= user'[asked[p].user].version
              /\ asked[p].version = user'[asked[p].user].version
                   => asked[p].password = user'[asked[p].user].password
    <3>1. /\ asked[p].user \in Users /\ user[asked[p].user].exists /\ asked[p].email \in Emails
          /\ asked[p].version <= user[asked[p].user].version
          /\ asked[p].version = user[asked[p].user].version
               => asked[p].password = user[asked[p].user].password
      BY <2>1, <2>4 DEF Named!RequestHolds
    <3>2. CASE asked[p].user = u
      BY <1>2, <1>3, <1>4, <2>3, <3>1, <3>2
    <3>3. CASE asked[p].user # u
      BY <1>3, <3>1, <3>3
    <3> QED BY <3>2, <3>3
  <2> QED BY <2>1, <2>2, <2>4 DEF Named!RequestHolds
<1> QED BY <1>1, <1>5, <1>6, <1>7, <1>8, <1>9 DEF Named!IdentityInv, Named!NeverRenamed

LEMMA StartStep ==
  ASSUME Assumed, Named!IdentityInv, NEW n \in OwnerNames, NEW open \in BOOLEAN,
         Named!Start(n, open)
  PROVE Named!IdentityInv'
<1>1. /\ setting' = [owner |-> n, open |-> open, renamed |-> setting.renamed \/ n # setting.owner]
      /\ main' = main /\ writer' = Nothing
      /\ asked' = [q \in Requests |-> Named!NoRequest]
      /\ user \in [Users -> Named!Row] /\ Owner \in Users /\ n # Nothing
      /\ n \in Usernames \cup Emails
      /\ \A v \in Users : user[v].username = n => v = Owner
  BY Lookups DEF Named!Start, Named!Seedable, Named!IdentityInv, Named!TypeOK, Assumed,
                 Named!UserAssumption, Named!NameAssumption
<1>2. PICK row \in Named!Row : /\ user' = [user EXCEPT ![Owner] = row] /\ row.username = n
                               /\ row.exists = user[Owner].exists /\ row.email = user[Owner].email
  <2>0. user[Owner] \in Named!Row
    BY <1>1
  <2>1. CASE n = user[Owner].username
    BY <1>1, <2>1 DEF Named!Start
  <2>2. CASE n # user[Owner].username
    <3>1. PICK x : x = [exists |-> user[Owner].exists, username |-> n,
                         email |-> user[Owner].email, password |-> user[Owner].password,
                         active |-> user[Owner].active, version |-> user[Owner].version + 1]
      OBVIOUS
    <3>2. user' = [user EXCEPT ![Owner] = x]
      BY <1>1, <2>0, <2>2, <3>1 DEF Named!Start, Named!Row
    <3>3. /\ x \in Named!Row /\ x.username = n /\ x.exists = user[Owner].exists
          /\ x.email = user[Owner].email
      BY <1>1, <2>0, <3>1 DEF Named!Row, Named!Names
    <3> QED BY <3>2, <3>3
  <2> QED BY <2>1, <2>2
<1>3. /\ user'[Owner] = row /\ \A v \in Users \ {Owner} : user'[v] = user[v]
      /\ \A v \in Users : user'[v].exists = user[v].exists /\ user'[v].email = user[v].email
  BY <1>1, <1>2
<1>4. Named!NoRequest \in Named!Request /\ Named!NoRequest.stage = "none"
  BY FirstRows
<1>5. Named!TypeOK'
  BY <1>1, <1>2, <1>4 DEF Named!IdentityInv, Named!TypeOK
<1>6. Named!UsersHaveAccounts'
  BY <1>1, <1>3 DEF Named!IdentityInv, Named!UsersHaveAccounts
<1>7. Named!NamesAreUnique'
  <2>1. Named!NamesAreUnique
    BY DEF Named!IdentityInv
  <2>2. \A v, w \in Users : user'[v].username = user'[w].username /\ user'[v].username # Nothing => v = w
    BY <1>1, <1>2, <1>3, <2>1 DEF Named!NamesAreUnique
  <2> QED BY <1>1, <1>2, <1>3, <2>1, <2>2 DEF Named!NamesAreUnique
<1>8. ASSUME Named!NeverRenamed' PROVE Named!EmailsAreNoNames'
  <2>1. Named!NeverRenamed /\ n = setting.owner
    BY <1>1, <1>8 DEF Named!NeverRenamed
  <2>2. user[Owner].username = setting.owner /\ Named!EmailsAreNoNames
    BY <2>1 DEF Named!IdentityInv, Named!NamesAreUnique
  <2>3. \A v \in Users : user'[v].username = user[v].username
    BY <1>2, <1>3, <2>1, <2>2
  <2> QED BY <1>1, <1>3, <1>4, <2>1, <2>2, <2>3 DEF Named!EmailsAreNoNames
<1>9. ASSUME NEW p \in Requests PROVE Named!RequestHolds(p, asked[p])'
  BY <1>1, <1>4 DEF Named!RequestHolds, Assumed, Named!NameAssumption
<1> QED BY <1>5, <1>6, <1>7, <1>8, <1>9 DEF Named!IdentityInv, Named!NeverRenamed

LEMMA NamesStep == Assumed /\ Named!IdentityInv /\ [Named!Next]_(Named!vars) => Named!IdentityInv'
<1> SUFFICES ASSUME Assumed, Named!IdentityInv, [Named!Next]_(Named!vars) PROVE Named!IdentityInv'
  OBVIOUS
<1>1. CASE UNCHANGED Named!vars
  <2>1. UNCHANGED <<user, main, setting, asked, writer>>
    BY <1>1 DEF Named!vars
  <2>2. Named!TypeOK' /\ Named!UsersHaveAccounts' /\ Named!NamesAreUnique'
    BY <2>1 DEF Named!IdentityInv, Named!TypeOK, Named!UsersHaveAccounts, Named!NamesAreUnique
  <2>3. Named!NeverRenamed => Named!EmailsAreNoNames'
    BY <2>1 DEF Named!IdentityInv, Named!EmailsAreNoNames
  <2>4. ASSUME NEW p \in Requests PROVE Named!RequestHolds(p, asked[p])'
    BY <2>1 DEF Named!IdentityInv, Named!RequestHolds, Named!Unique, Named!HasUsername,
                Named!HasEmail
  <2> QED BY <2>1, <2>2, <2>3, <2>4 DEF Named!IdentityInv, Named!NeverRenamed
<1>2. ASSUME NEW q \in Requests, NEW n \in Usernames, NEW e \in Emails, NEW p \in Passwords,
             Named!CheckRegistration(q, n, e, p)
      PROVE Named!IdentityInv'
  BY <1>2, CheckStep
<1>3. ASSUME NEW q \in Requests, Named!InsertUser(q) PROVE Named!IdentityInv'
  BY <1>3, InsertStep
<1>4. ASSUME NEW q \in Requests, Named!InsertAccount(q) PROVE Named!IdentityInv'
  BY <1>4, AccountStep
<1>5. ASSUME NEW q \in Requests, Named!GiveUp(q) \/ Named!Answer(q) PROVE Named!IdentityInv'
  BY <1>5, EndStep
<1>6. ASSUME NEW q \in Requests, NEW u \in Users, NEW e \in Emails, Named!ProveChange(q, u, e)
      PROVE Named!IdentityInv'
  BY <1>6, ProveStep
<1>7. ASSUME NEW q \in Requests, Named!WriteProfile(q) PROVE Named!IdentityInv'
  BY <1>7, ProfileStep
<1>8. ASSUME NEW u \in Users, \/ \E p \in Passwords : Named!ReplacePassword(u, p)
                              \/ \E b \in BOOLEAN : Named!SetActive(u, b)
      PROVE Named!IdentityInv'
  BY <1>8, VersionStep
<1>9. ASSUME NEW n \in OwnerNames, NEW open \in BOOLEAN, Named!Start(n, open)
      PROVE Named!IdentityInv'
  BY <1>9, StartStep
<1> QED BY <1>1, <1>2, <1>3, <1>4, <1>5, <1>6, <1>7, <1>8, <1>9 DEF Named!Next

(* The inductive invariant of names (register, update_profile).            *)
THEOREM NamesInvariance == Named!Spec => []Named!IdentityInv
<1>1. Named!Init => Named!IdentityInv
  BY FirstNames, AreAssumed
<1>2. Named!IdentityInv /\ [Named!Next]_(Named!vars) => Named!IdentityInv'
  BY NamesStep, AreAssumed
<1> QED BY <1>1, <1>2, PTL DEF Named!Spec

(* A username leads to its user and to nobody else, whoever registers at   *)
(* the same time, whatever name the owner is given; so does an email that  *)
(* the owner was not renamed to; and a user and the Main Account come together *)
(* (register, update_profile, initialize_auth, login).                     *)
THEOREM NamesAreKept == Named!Spec => []NamesHold
<1>1. Named!IdentityInv => NamesHold
  <2> SUFFICES ASSUME Named!IdentityInv PROVE NamesHold
    OBVIOUS
  <2>1. /\ Named!NamesAreUnique /\ Named!UsersHaveAccounts /\ Owner \in Users
        /\ Nothing \notin Emails /\ Usernames \cap Emails = {} /\ user \in [Users -> Named!Row]
    BY AreAssumed DEF Named!IdentityInv, Named!TypeOK, Assumed, Named!UserAssumption, Named!NameAssumption
  <2>2. ASSUME NEW u \in Users, user[u].username # Nothing
        PROVE Named!Found(user[u].username) = {u}
    <3>1. Named!Found(user[u].username) = Named!HasUsername(user[u].username)
      BY <2>1, <2>2 DEF Named!Found, Named!NamesAreUnique
    <3>2. \A v \in Users : user[v].username = user[u].username => v = u
      BY <2>1, <2>2 DEF Named!NamesAreUnique
    <3> QED BY <3>1, <3>2 DEF Named!HasUsername
  <2>3. ASSUME NEW u \in Users, user[u].email # Nothing,
               Named!NeverRenamed \/ user[u].email # setting.owner
        PROVE Named!Found(user[u].email) = {u}
    <3>1. user[u].email \in Emails /\ (Named!NeverRenamed => Named!EmailsAreNoNames)
      BY <2>1, <2>3 DEF Named!IdentityInv, Named!Row
    <3>2. CASE user[u].email = setting.owner
      <4>1. u = Owner /\ user[u].email = user[u].username
        BY <2>1, <2>3, <3>1, <3>2 DEF Named!NamesAreUnique, Named!EmailsAreNoNames
      <4> QED BY <2>2, <2>3, <4>1
    <3>3. CASE user[u].email # setting.owner
      <4>1. Named!Found(user[u].email) = Named!HasEmail(user[u].email)
        BY <3>1, <3>3 DEF Named!Found
      <4>2. \A v \in Users : user[v].email = user[u].email => v = u
        BY <2>1, <2>3 DEF Named!NamesAreUnique
      <4> QED BY <4>1, <4>2 DEF Named!HasEmail
    <3> QED BY <3>2, <3>3
  <2>4. Named!UsernamesLeadHome /\ Named!EmailsLeadHome
    BY <2>2, <2>3 DEF Named!UsernamesLeadHome, Named!EmailsLeadHome
  <2> QED BY <2>1, <2>4 DEF NamesHold, Named!NamesHold
<1> QED BY <1>1, NamesInvariance, PTL

(* An email changes only for a password that is still the user's, and only *)
(* while the user is enabled (update_profile).                             *)
THEOREM ChangesAreProved == Named!Spec => ProfileChangesAreProved
<1> DEFINE Proved ==
      \A u \in Users : user[u].exists /\ user'[u].email # user[u].email =>
        /\ user[u].active
        /\ \E q \in Requests : /\ asked[q].stage = "proved" /\ asked[q].user = u
                               /\ asked[q].password = user[u].password
<1>1. Named!IdentityInv /\ [Named!Next]_(Named!vars) => [Proved]_(Named!vars)
  <2> SUFFICES ASSUME Named!IdentityInv, Named!Next,
                      NEW u \in Users, user[u].exists, user'[u].email # user[u].email
               PROVE /\ user[u].active
                     /\ \E q \in Requests : /\ asked[q].stage = "proved" /\ asked[q].user = u
                                            /\ asked[q].password = user[u].password
    OBVIOUS
  <2>0. user \in [Users -> Named!Row] /\ user' # user
    BY DEF Named!IdentityInv, Named!TypeOK
  <2>1. CASE \E q \in Requests : Named!WriteProfile(q)
    <3>1. PICK q \in Requests : Named!WriteProfile(q)
      BY <2>1
    <3>2. /\ asked[q].stage = "proved" /\ Named!Same(asked[q])
          /\ user' = [user EXCEPT ![asked[q].user].email = asked[q].email]
      BY <2>0, <3>1 DEF Named!WriteProfile
    <3>3. asked[q].user = u
      BY <2>0, <3>2
    <3> QED BY <3>2, <3>3 DEF Named!Same, Named!IdentityInv, Named!RequestHolds
  <2>2. ASSUME NEW q \in Requests, Named!InsertAccount(q) PROVE FALSE
    <3>1. /\ asked[q].user \in Users /\ ~user[asked[q].user].exists
          /\ user' = [user EXCEPT ![asked[q].user] = Named!NewRow(asked[q])]
      BY <2>2 DEF Named!InsertAccount, Named!IdentityInv, Named!RequestHolds
    <3> QED BY <2>0, <3>1
  <2>3. ASSUME NEW v \in Users, NEW p \in Passwords, Named!ReplacePassword(v, p) PROVE FALSE
    BY <2>0, <2>3 DEF Named!ReplacePassword, Named!Row
  <2>4. ASSUME NEW v \in Users, NEW b \in BOOLEAN, Named!SetActive(v, b) PROVE FALSE
    BY <2>0, <2>4 DEF Named!SetActive, Named!Row
  <2>5. ASSUME NEW n \in OwnerNames, NEW open \in BOOLEAN, Named!Start(n, open) PROVE FALSE
    BY <2>0, <2>5 DEF Named!Start, Named!Row
  <2>6. ~\E q \in Requests :
          \/ \E n \in Usernames, e \in Emails, p \in Passwords : Named!CheckRegistration(q, n, e, p)
          \/ Named!InsertUser(q) \/ Named!GiveUp(q) \/ Named!Answer(q)
          \/ \E v \in Users, e \in Emails : Named!ProveChange(q, v, e)
    BY <2>0 DEF Named!CheckRegistration, Named!InsertUser, Named!Insert, Named!GiveUp,
                Named!Answer, Named!ProveChange
  <2> QED BY <2>1, <2>2, <2>3, <2>4, <2>5, <2>6 DEF Named!Next
<1> QED BY <1>1, NamesInvariance, PTL DEF Named!Spec, ProfileChangesAreProved, Named!ProfileChangesAreProved
=============================================================================
