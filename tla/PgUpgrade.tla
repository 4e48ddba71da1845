----------------------------- MODULE PgUpgrade ------------------------------
(***************************************************************************)
(* Processes that start on one PostgreSQL database: everything from        *)
(* reading the version to checking the currency is one transaction, under  *)
(* the writer's advisory lock.                                             *)
(***************************************************************************)
EXTENDS Integers

CONSTANTS
  Processes, Nobody,
  Currencies, BaseCurrency,  \* of each process's settings
  NoCurrency,
  MaxCrashes                 \* bound: how often a process dies or a statement fails

(* What is assumed of the constants.                                       *)
ProcessesAssumption == Nobody \notin Processes
CurrencyAssumption ==
  BaseCurrency \in [Processes -> Currencies] /\ NoCurrency \notin Currencies

VARIABLES
  versions, parts, main,     \* the committed database; currency of Main Account
  lock, draft,               \* who has the lock; what each transaction has done
  state,                     \* "down", "reading", "upgrading", "checking", "up"
  found,                     \* the versions a process has read
  crashes

vars == <<versions, parts, main, lock, draft, state, found, crashes>>

-----------------------------------------------------------------------------
SCHEMA_VERSION == 4
PartsOf(v) ==
  CASE v = 1 -> {"tables", "guards"} [] v = 2 -> {"query indexes"}
    [] v = 3 -> {"users", "ownership guards"} [] v = 4 -> {"usernames"}
    [] v = 5 -> {"what a later release adds"}

Committed == [versions |-> versions, parts |-> parts, main |-> main]
NoDraft == [versions |-> {}, parts |-> {}, main |-> NoCurrency]
Goes(p, from, to) == state[p] = from /\ state' = [state EXCEPT ![p] = to]
Supported(vs) == \E n \in 1..SCHEMA_VERSION : vs = 1..n
Quiet == UNCHANGED <<versions, parts, main, crashes>>

LockIgnored(p) == TRUE                       \* variant: no lock is taken
LockFree(p) == lock = Nobody

Lock(p) ==
  /\ LockFree(p) /\ Goes(p, "down", "reading")
  /\ lock' = p /\ draft' = [draft EXCEPT ![p] = Committed]
  /\ UNCHANGED found /\ Quiet

Read(p) ==
  /\ Goes(p, "reading", "upgrading")
  /\ found' = [found EXCEPT ![p] = versions]
  /\ UNCHANGED <<lock, draft>> /\ Quiet

(* An empty database gets the first version, the guards and Main Account.  *)
Create(p) ==
  /\ state[p] = "upgrading" /\ found[p] = {} /\ 1 \notin draft[p].versions
  /\ draft' = [draft EXCEPT ![p] =
                 [versions |-> {1}, parts |-> PartsOf(1), main |-> BaseCurrency[p]]]
  /\ UNCHANGED <<lock, state, found>> /\ Quiet

(* Each version has its statements and then its row.                       *)
NextVersion(d) == CHOOSE v \in 1..SCHEMA_VERSION + 1 : d.versions = 1..(v - 1)
Apply(p) ==
  /\ state[p] = "upgrading" /\ Supported(draft[p].versions)
  /\ LET v == NextVersion(draft[p]) IN
       /\ v <= SCHEMA_VERSION
       /\ draft' = IF PartsOf(v) \subseteq draft[p].parts
                   THEN [draft EXCEPT ![p].versions = @ \cup {v}]
                   ELSE [draft EXCEPT ![p].parts = @ \cup PartsOf(v)]
  /\ UNCHANGED <<lock, state, found>> /\ Quiet

Upgraded(p) ==
  /\ draft[p].versions = 1..SCHEMA_VERSION /\ Goes(p, "upgrading", "checking")
  /\ UNCHANGED <<lock, draft, found>> /\ Quiet

(* The currency of Main Account must be the one of the settings.           *)
SameCurrency(p) == draft[p].main = BaseCurrency[p]

Stored(p) ==
  versions' = draft[p].versions /\ parts' = draft[p].parts /\ main' = draft[p].main
Ended(p) == lock' = Nobody /\ draft' = [draft EXCEPT ![p] = NoDraft]

Commit(p) ==
  /\ SameCurrency(p) /\ Goes(p, "checking", "up")
  /\ Stored(p) /\ Ended(p)
  /\ UNCHANGED <<found, crashes>>

Kept(p) == Stored(p)                         \* variant: what was done stays
RolledBack(p) == UNCHANGED <<versions, parts, main>>

Fail(p) ==
  /\ state' = [state EXCEPT ![p] = "down"]
  /\ RolledBack(p) /\ Ended(p)
  /\ UNCHANGED found

Refuse(p) ==
  /\ \/ state[p] = "upgrading" /\ found[p] # {} /\ ~Supported(found[p])
     \/ state[p] = "checking" /\ ~SameCurrency(p)
  /\ Fail(p) /\ UNCHANGED crashes

Crash(p) ==
  /\ crashes < MaxCrashes /\ crashes' = crashes + 1
  /\ \/ state[p] \in {"reading", "upgrading", "checking"} /\ Fail(p)
     \/ /\ Goes(p, "up", "down")
        /\ UNCHANGED <<versions, parts, main, lock, draft, found>>

Init ==
  /\ versions \in {{}} \cup {1..n : n \in 1..SCHEMA_VERSION + 1}
  /\ parts = UNION {PartsOf(v) : v \in versions}
  /\ main \in IF versions = {} THEN {NoCurrency} ELSE Currencies
  /\ lock = Nobody /\ draft = [p \in Processes |-> NoDraft]
  /\ state = [p \in Processes |-> "down"]
  /\ found = [p \in Processes |-> {}]
  /\ crashes = 0

Step(p) == Lock(p) \/ Read(p) \/ Create(p) \/ Apply(p) \/ Upgraded(p) \/ Commit(p) \/ Refuse(p)
Next == \E p \in Processes : Step(p) \/ Crash(p)
Spec == Init /\ [][Next]_vars

-----------------------------------------------------------------------------
(* Properties                                                              *)

Promise == INSTANCE UpgradePromise WITH Latest <- SCHEMA_VERSION + 1
(* What another process sees is the old schema or the new one, whoever     *)
(* dies on the way (PostgresDatabase.__init__).                            *)
UpgradesAtOnce == Promise!Spec

(* Processes with different settings never run on one database, whoever    *)
(* made it, nor start on one that a later release has upgraded before;     *)
(* no later release runs beside them here ("Main Account currency does not *)
(* match", "Unsupported PostgreSQL schema version").                       *)
UpIsAtHome ==
  \A p \in Processes : state[p] = "up" =>
    versions = 1..SCHEMA_VERSION /\ main = BaseCurrency[p]
=============================================================================
