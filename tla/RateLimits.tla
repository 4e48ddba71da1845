----------------------------- MODULE RateLimits -----------------------------
(***************************************************************************)
(* The counters of attempts to sign in, to use a password and to register. *)
(* An attempt is counted by its source, by its target and by all; a        *)
(* registration then by its source and by all again, over a longer window. *)
(* A window opens with the first attempt it counts and is not a part of    *)
(* the clock; an attempt takes its time before it waits for the database.  *)
(***************************************************************************)
EXTENDS Naturals, Sequences, FiniteSets

CONSTANTS
  Sources, Targets,          \* addresses, and accounts tried
  Requests,                  \* attempts that may be under way at once
  Global, SignUps,           \* the counter of all attempts, of all registrations
  SourceLimit, TargetLimit, GlobalLimit, SignUpSourceLimit, SignUpLimit,
  Window, SignUpWindow,      \* 60 and 3600 seconds
  MaxWait,                   \* how long an attempt may wait for its transaction
  LastTime,                  \* bound: the clock stops here
  MaxAttempts                \* bound: attempts of all requests together

ASSUME LimitAssumption ==
  {SourceLimit, TargetLimit, GlobalLimit, SignUpSourceLimit, SignUpLimit} \subseteq Nat \ {0}
ASSUME TimeAssumption == /\ Window \in Nat \ {0} /\ SignUpWindow \in Nat \ {0}
                         /\ MaxWait \in Nat /\ LastTime \in Nat /\ MaxAttempts \in Nat
ASSUME NameAssumption == /\ Sources \cap Targets = {} /\ Global # SignUps
                         /\ {Global, SignUps} \cap (Sources \cup Targets) = {}
                         /\ Sources # {} /\ Targets # {}

VARIABLES
  now,
  counter,     \* the tables of limits: [Counters -> Counter]
  request,     \* [Requests -> Request]
  attempts,    \* how many attempts were made, for the bound
  admitted     \* not in the code: when each counter let an attempt through

vars == <<now, counter, request, attempts, admitted>>

-----------------------------------------------------------------------------
SignUpOf(s) == <<"register", s>>
Hourly == {SignUpOf(s) : s \in Sources} \cup {SignUps}
Counters == Sources \cup Targets \cup {Global} \cup Hourly
Counter == [start : Nat, attempts : Nat]
Limit(k) ==
  CASE k \in Sources -> SourceLimit
    [] k \in Targets -> TargetLimit
    [] k = Global -> GlobalLimit
    [] k = SignUps -> SignUpLimit
    [] OTHER -> SignUpSourceLimit
Length(k) == IF k \in Hourly THEN SignUpWindow ELSE Window

(* A row that is missing counts nothing.                                   *)
NoRow == [start |-> 0, attempts |-> 0]
Request == [stage : {"none", "attempt", "admitted", "register"},
            source : Sources, target : Targets, registers : BOOLEAN, at : Nat]
NoRequest == [stage |-> "none", source |-> CHOOSE s \in Sources : TRUE,
              target |-> CHOOSE t \in Targets : TRUE, registers |-> FALSE, at |-> 0]

TypeOK ==
  /\ now \in Nat /\ attempts \in Nat
  /\ counter \in [Counters -> Counter]
  /\ request \in [Requests -> Request]
  /\ admitted \in [Counters -> Seq(Nat)]

-----------------------------------------------------------------------------
(* A transaction of reserve, or of reserve_registration, with its counters *)
(* K and the time it took before: rows past their window go, every counter *)
(* is checked, and only then all of them count.                            *)

PastAtEnd(k, at) == counter[k].start + Length(k) < at    \* variant: a second late
Past(k, at) == counter[k].start + Length(k) <= at
Row(k, at) == IF Past(k, at) THEN NoRow ELSE counter[k]
FullLater(k, at) == Row(k, at).attempts > Limit(k)       \* variant: off by one
Full(k, at) == Row(k, at).attempts >= Limit(k)
Purged(K) == IF K \cap Hourly # {} THEN Hourly ELSE Sources \cup Targets
CountedFresh(k, at) ==                                   \* variant: the window slides
  [start |-> at, attempts |-> Row(k, at).attempts + 1]
Counted(k, at) ==
  [start |-> IF Row(k, at).attempts = 0 THEN at ELSE Row(k, at).start,
   attempts |-> Row(k, at).attempts + 1]

Pass(K, at) ==
  /\ \A k \in K : ~Full(k, at)
  /\ counter' = [k \in Counters |-> IF k \in K THEN Counted(k, at)
                                    ELSE IF k \in Purged(K) THEN Row(k, at) ELSE counter[k]]
  /\ admitted' = [k \in Counters |-> IF k \in K THEN Append(admitted[k], now) ELSE admitted[k]]
(* 429: the transaction is rolled back, the rows that went as well.        *)
RefuseCounting(K, at) ==                                 \* variant: counts where it may
  /\ \E k \in K : Full(k, at)
  /\ counter' = [k \in Counters |-> IF k \in K /\ ~Full(k, at) THEN Counted(k, at) ELSE counter[k]]
  /\ UNCHANGED admitted
Refuse(K, at) ==
  /\ \E k \in K : Full(k, at)
  /\ UNCHANGED <<counter, admitted>>

Attempted(r) == {r.source, r.target, Global}
Registered(r) == {SignUpOf(r.source), SignUps}
To(q, r) == request' = [request EXCEPT ![q] = r]

(* login, reset_password and changes of account data arrive at reserve,    *)
(* register at reserve_registration.                                       *)
Arrive(q, s, t, registers) ==
  /\ request[q].stage = "none" /\ attempts < MaxAttempts
  /\ To(q, [stage |-> "attempt", source |-> s, target |-> t, registers |-> registers, at |-> now])
  /\ attempts' = attempts + 1
  /\ UNCHANGED <<now, counter, admitted>>

Reserve(q) ==
  LET r == request[q] IN
  /\ r.stage = "attempt"
  /\ \/ /\ Pass(Attempted(r), r.at)
        /\ To(q, IF r.registers THEN [r EXCEPT !.stage = "admitted"] ELSE NoRequest)
     \/ Refuse(Attempted(r), r.at) /\ To(q, NoRequest)
  /\ UNCHANGED <<now, attempts>>

(* The clock is read again between the two transactions of a registration. *)
BeginRegistration(q) ==
  /\ request[q].stage = "admitted"
  /\ To(q, [request[q] EXCEPT !.stage = "register", !.at = now])
  /\ UNCHANGED <<now, counter, attempts, admitted>>

ReserveRegistration(q) ==
  LET r == request[q] IN
  /\ r.stage = "register"
  /\ Pass(Registered(r), r.at) \/ Refuse(Registered(r), r.at)
  /\ To(q, NoRequest)
  /\ UNCHANGED <<now, attempts>>

(* The database was busy for too long, or the process died.                *)
GiveUp(q) ==
  /\ request[q].stage # "none"
  /\ To(q, NoRequest)
  /\ UNCHANGED <<now, counter, attempts, admitted>>

(* No attempt waits longer than the database lets it.                      *)
Waiting(q) == request[q].stage \in {"attempt", "register"}
Tick ==
  /\ now < LastTime
  /\ \A q \in Requests : Waiting(q) => now < request[q].at + MaxWait
  /\ now' = now + 1
  /\ UNCHANGED <<counter, request, attempts, admitted>>

Init ==
  /\ now = 0 /\ attempts = 0
  /\ counter = [k \in Counters |-> NoRow]
  /\ request = [q \in Requests |-> NoRequest]
  /\ admitted = [k \in Counters |-> <<>>]

Next ==
  \/ \E q \in Requests :
       \/ \E s \in Sources, t \in Targets, registers \in BOOLEAN : Arrive(q, s, t, registers)
       \/ Reserve(q) \/ BeginRegistration(q) \/ ReserveRegistration(q) \/ GiveUp(q)
  \/ Tick

Spec == Init /\ [][Next]_vars

-----------------------------------------------------------------------------
(* Properties                                                              *)

(* However attempts are late or overtake each other, a counter lets no     *)
(* more than two windows' worth through in the time of one window, less    *)
(* the longest wait: a window begins with an attempt and not with the      *)
(* clock, so it is two that may meet there (reserve).                      *)
BurstsAreBounded ==
  \A k \in Counters : \A i \in 1..Len(admitted[k]) :
    LET later == i + 2 * Limit(k) IN
    later <= Len(admitted[k]) => admitted[k][later] + MaxWait >= admitted[k][i] + Length(k)

(* What a row counts are the attempts let through since it began, no more  *)
(* than the limit: nothing counts twice, or for nothing.                   *)
RowsCountAdmissions ==
  \A k \in Counters :
    LET n == counter[k].attempts IN
    /\ n <= Limit(k) /\ n <= Len(admitted[k])
    /\ \A i \in 1..Len(admitted[k]) :
         i > Len(admitted[k]) - n => admitted[k][i] >= counter[k].start

(* Nobody is refused for less: a full row means as many attempts as the    *)
(* limit, all of them let through within the window of the one refused.    *)
RefusalsAreDeserved ==
  \A q \in Requests : \A k \in Attempted(request[q]) \cup Registered(request[q]) :
    LET at == request[q].at
        n == Len(admitted[k])
    IN Full(k, at) => /\ n >= Limit(k)
                      /\ \A i \in 1..n : i > n - Limit(k) => admitted[k][i] + Length(k) > at

(* The counters are right together: bursts are bounded, rows count what    *)
(* they let through, and refusals are deserved (check_and_record).         *)
CountersHold == BurstsAreBounded /\ RowsCountAdmissions /\ RefusalsAreDeserved
=============================================================================
