------------------------- MODULE OccurrencePromise -------------------------
(***************************************************************************)
(* What recurring processing promises the owner of a schedule, with no     *)
(* workers, locks, claims or failures: processing takes a schedule forward *)
(* over a run of due occurrences, and every occurrence it passes has       *)
(* exactly one ledger entry afterwards, the one it already had or a new    *)
(* one.  Moving a schedule back in time, or deleting an entry, never makes *)
(* a second entry for the same occurrence.                                 *)
(***************************************************************************)
EXTENDS Naturals

CONSTANTS
  Schedules,     \* the recurring schedules
  Days,          \* days an entry can have
  Frequencies,   \* how often a schedule can recur
  Step,          \* [Frequencies -> days between two occurrences]
  BatchSize      \* most occurrences one processing step takes

VARIABLES
  today,         \* the business day
  next,          \* [Schedules -> the next occurrence to process]
  frequency,     \* [Schedules -> Frequencies]
  made           \* [Schedules -> [Days -> how many entries were ever made]]

promiseVars == <<today, next, frequency, made>>

PromiseInit ==
  /\ today = 0
  /\ next \in [Schedules -> Nat]
  /\ frequency \in [Schedules -> Frequencies]
  /\ made = [s \in Schedules |-> [d \in Days |-> 0]]

NewDay ==
  /\ today' = today + 1
  /\ UNCHANGED <<next, frequency, made>>

(* The owner creates a schedule or changes its dates.                      *)
Reschedule(s) ==
  /\ next' \in [Schedules -> Nat]
  /\ frequency' \in [Schedules -> Frequencies]
  /\ \A r \in Schedules \ {s} : next'[r] = next[r] /\ frequency'[r] = frequency[r]
  /\ UNCHANGED <<today, made>>

(* Processing passes n occurrences of s, all of them due.                  *)
Process(s, n) ==
  LET stride == Step[frequency[s]]
      Passed(d) == \E k \in 0..(n - 1) : d = next[s] + k * stride
  IN /\ \A k \in 0..(n - 1) : next[s] + k * stride <= today
     /\ next' = [next EXCEPT ![s] = @ + n * stride]
     /\ made' = [made EXCEPT ![s] =
                   [d \in Days |-> IF Passed(d) /\ @[d] = 0 THEN 1 ELSE @[d]]]
     /\ UNCHANGED <<today, frequency>>

PromiseNext ==
  \/ NewDay
  \/ \E s \in Schedules : Reschedule(s) \/ \E n \in 1..BatchSize : Process(s, n)

PromiseSpec == PromiseInit /\ [][PromiseNext]_promiseVars
============================================================================
