---------------------------- MODULE Migrations ------------------------------
(***************************************************************************)
(* Processes that start on one SQLite database and upgrade it, each        *)
(* statement a step.  The driver begins a transaction before a statement   *)
(* that changes rows, not before one that changes the schema: the early    *)
(* migrations are partly outside their transaction.  A version's program   *)
(* is a sequence of statements; what a statement adds is a part.           *)
(***************************************************************************)
EXTENDS Integers, Sequences

CONSTANTS
  Processes, Nobody,
  FirstVersion,       \* of the database that is upgraded
  MaxCrashes          \* bound: how often a process dies or a statement fails

(* What is assumed of the constants.                                       *)
ProcessesAssumption == Nobody \notin Processes
VersionAssumption == FirstVersion \in 0..9 /\ MaxCrashes \in Nat

VARIABLES
  versions, parts,    \* the tables of the committed database
  writer, draft,      \* who is in a write transaction, and what it would commit
  faults,             \* rows that need the owner's review
  state, place,       \* each process: "down", "upgrading", "up"; version and statement
  since, why,         \* the version it found, the reason it failed last
  crashes

vars == <<versions, parts, writer, draft, faults, state, place, since, why, crashes>>

-----------------------------------------------------------------------------
(* The programs                                                            *)

LATEST_SCHEMA_VERSION == 9
Do(op, part) == [op |-> op, part |-> part]
migration_1_accounts_and_transfers ==
  <<Do("ensure", "accounts_and_transfers"),
    Do("look", "account_of_a_transaction"), Do("add", "account_of_a_transaction"),
    Do("look", "account_of_a_schedule"), Do("add", "account_of_a_schedule"),
    Do("look", "Main_Account"), Do("insert", "Main_Account"),
    Do("update", "entries_in_Main_Account"),
    Do("commit", "none"), Do("ensure", "indexes_of_accounts")>>
migration_2_integer_money ==
  <<Do("look", "cents_of_transactions"), Do("add", "cents_of_transactions"),
    Do("update", "exact_transactions"),
    Do("look", "cents_of_others"), Do("add", "cents_of_others"),
    Do("update", "exact_others")>>
migration_3_recurring_occurrences == <<Do("add", "occurrences")>>
(* Since version 4 a migration reserves the writer before anything else;   *)
(* since version 7 it then looks at the version again.                     *)
migration_4_money_constraints ==
  <<Do("begin", "none"), Do("validate", "money"), Do("add", "money_guards")>>
migrate_transaction_audit == <<Do("begin", "none"), Do("add", "audit")>>
migrate_reconciliation == <<Do("begin", "none"), Do("add", "reconciliation")>>
migrate_query_indexes == <<Do("begin", "none"), Do("recheck", "none"), Do("add", "query_indexes")>>
migrate_ownership ==
  <<Do("begin", "none"), Do("recheck", "none"), Do("validate", "orphan"), Do("add", "ownership")>>
migrate_user_accounts == <<Do("begin", "none"), Do("recheck", "none"), Do("add", "usernames")>>

Program(v) ==
  CASE v = 1 -> migration_1_accounts_and_transfers
    [] v = 2 -> migration_2_integer_money
    [] v = 3 -> migration_3_recurring_occurrences
    [] v = 4 -> migration_4_money_constraints
    [] v = 5 -> migrate_transaction_audit
    [] v = 6 -> migrate_reconciliation
    [] v = 7 -> migrate_query_indexes
    [] v = 8 -> migrate_ownership
    [] v = 9 -> migrate_user_accounts

PartsOf(v) ==
  LET steps == Program(v)
      Makes(i) == steps[i].op \in {"ensure", "add", "insert", "update"}
  IN {steps[i].part : i \in {j \in DOMAIN steps : Makes(j)}}

-----------------------------------------------------------------------------
(* One process                                                             *)

InTransaction(p) == writer = p
Seen(p) == IF InTransaction(p) THEN draft ELSE [versions |-> versions, parts |-> parts]
Current(d) == IF d.versions = {} THEN 0 ELSE CHOOSE v \in d.versions : \A w \in d.versions : w <= v

Version(p) == place[p][1]
(* After a version's own statements its row is written.                    *)
Statement(p) ==
  LET steps == Program(place[p][1])  i == place[p][2] IN
  IF i <= Len(steps) THEN steps[i] ELSE Do("version", "none")
Upgrading(p, op) == state[p] = "upgrading" /\ Statement(p).op = op
Jump(p, n) == place' = [place EXCEPT ![p] = <<@[1], @[2] + n>>]

(* The next version's program, or the end.                                 *)
Advance(p) ==
  IF Version(p) = LATEST_SCHEMA_VERSION
  THEN state' = [state EXCEPT ![p] = "up"] /\ UNCHANGED place
  ELSE place' = [place EXCEPT ![p] = <<@[1] + 1, 1>>] /\ UNCHANGED state

Free(p) == writer \in {p, Nobody}
Store(d) == versions' = d.versions /\ parts' = d.parts
Uncommitted == UNCHANGED <<versions, parts>>
NoDraft == [versions |-> {}, parts |-> {}]
Finished == writer' = Nobody /\ draft' = NoDraft
Reserve(p, d) == Free(p) /\ writer' = p /\ draft' = d

With(d, part) == [d EXCEPT !.parts = @ \cup {part}]

(* A change of the schema, in the open transaction or on its own.          *)
Define(p, part) ==
  IF InTransaction(p)
  THEN Reserve(p, With(draft, part)) /\ Uncommitted
  ELSE Free(p) /\ Store(With(Seen(p), part)) /\ UNCHANGED <<writer, draft>>

(* Starting: the version is read once.                                     *)
Start(p) ==
  /\ state[p] = "down"
  /\ LET n == Current(Seen(p)) IN
       /\ since' = [since EXCEPT ![p] = n]
       /\ state' = [state EXCEPT ![p] = IF n = LATEST_SCHEMA_VERSION THEN "up" ELSE "upgrading"]
       /\ place' = [place EXCEPT ![p] = IF n = LATEST_SCHEMA_VERSION THEN <<n, 1>> ELSE <<n + 1, 1>>]
  /\ why' = [why EXCEPT ![p] = "none"]
  /\ UNCHANGED <<versions, parts, writer, draft, faults, crashes>>

Quiet == UNCHANGED <<faults, since, why, crashes>>

Ensure(p) ==
  /\ Upgrading(p, "ensure") /\ Define(p, Statement(p).part) /\ Jump(p, 1)
  /\ UNCHANGED state /\ Quiet

(* What exists is not added again; the rows are brought up all the same.   *)
SkipWithRows == 3                            \* variant: nor the rows
SkipAdding == 2
Found == SkipAdding

Look(p) ==
  /\ Upgrading(p, "look")
  /\ Jump(p, IF Statement(p).part \in Seen(p).parts THEN Found ELSE 1)
  /\ UNCHANGED <<versions, parts, writer, draft, state>> /\ Quiet

Add(p) ==
  /\ Upgrading(p, "add") /\ Statement(p).part \notin Seen(p).parts
  /\ Define(p, Statement(p).part) /\ Jump(p, 1)
  /\ UNCHANGED state /\ Quiet

Change(p) ==
  /\ \/ Upgrading(p, "insert") /\ Statement(p).part \notin Seen(p).parts
     \/ Upgrading(p, "update")
  /\ Reserve(p, With(Seen(p), Statement(p).part)) /\ Uncommitted
  /\ Jump(p, 1) /\ UNCHANGED state /\ Quiet

(* executescript ends the transaction that is open.                        *)
Commit(p) ==
  /\ Upgrading(p, "commit")
  /\ IF InTransaction(p) THEN Store(draft) /\ Finished ELSE UNCHANGED <<versions, parts, writer, draft>>
  /\ Jump(p, 1) /\ UNCHANGED state /\ Quiet

Unreserved(p) == UNCHANGED <<writer, draft>>  \* variant: no transaction
Reserved(p) == Reserve(p, Seen(p))

Begin(p) ==
  /\ Upgrading(p, "begin") /\ Reserved(p) /\ Uncommitted
  /\ Jump(p, 1) /\ UNCHANGED state /\ Quiet

NeverDone(p) == FALSE                        \* variant: not looked at again
AlreadyDone(p) == Current(Seen(p)) >= Version(p)

Recheck(p) ==
  /\ Upgrading(p, "recheck") /\ Uncommitted
  /\ IF AlreadyDone(p)
     THEN Finished /\ Advance(p)
     ELSE Jump(p, 1) /\ UNCHANGED <<writer, draft, state>>
  /\ Quiet

Validate(p) ==
  /\ Upgrading(p, "validate") /\ Statement(p).part \notin faults
  /\ Jump(p, 1) /\ UNCHANGED <<versions, parts, writer, draft, state>> /\ Quiet

WriteVersion(p) ==
  /\ Upgrading(p, "version") /\ Free(p) /\ Version(p) \notin Seen(p).versions
  /\ Store([Seen(p) EXCEPT !.versions = @ \cup {Version(p)}])
  /\ Finished /\ Advance(p) /\ Quiet

(* A statement fails and with it the start: the transaction is rolled back *)
(* and the process ends, to be started again.                              *)
KeepsDraft == IF draft # NoDraft THEN Store(draft) ELSE Uncommitted   \* variant
RolledBack == Uncommitted

Fail(p, reason) ==
  /\ state' = [state EXCEPT ![p] = "down"]
  /\ why' = [why EXCEPT ![p] = reason]
  /\ IF InTransaction(p) THEN RolledBack /\ Finished
     ELSE UNCHANGED <<versions, parts, writer, draft>>
  /\ UNCHANGED <<faults, place, since>>

Exists(p) ==
  /\ \/ (Upgrading(p, "add") \/ Upgrading(p, "insert")) /\ Statement(p).part \in Seen(p).parts
     \/ Upgrading(p, "version") /\ Version(p) \in Seen(p).versions
  /\ Fail(p, "exists") /\ UNCHANGED crashes

Invalid(p) ==
  /\ Upgrading(p, "validate") /\ Statement(p).part \in faults
  /\ Fail(p, "invalid") /\ UNCHANGED crashes

(* The writer was not free in time.                                        *)
Busy(p) ==
  /\ \E op \in {"ensure", "add", "insert", "update", "begin", "version"} : Upgrading(p, op)
  /\ ~Free(p)
  /\ Fail(p, "busy") /\ UNCHANGED crashes

Crash(p) ==
  /\ state[p] # "down" /\ crashes < MaxCrashes
  /\ crashes' = crashes + 1
  /\ state' = [state EXCEPT ![p] = "down"]
  /\ IF InTransaction(p) THEN Uncommitted /\ Finished
     ELSE UNCHANGED <<versions, parts, writer, draft>>
  /\ UNCHANGED <<faults, place, since, why>>

(* A disk that is full, an interrupted statement.                          *)
Error(p) ==
  /\ state[p] = "upgrading" /\ crashes < MaxCrashes
  /\ crashes' = crashes + 1
  /\ Fail(p, "error")

(* The owner repairs the rows that stop the upgrade.                       *)
Repair ==
  /\ faults # {} /\ faults' = {}
  /\ writer = Nobody
  /\ UNCHANGED <<versions, parts, writer, draft, state, place, since, why, crashes>>

-----------------------------------------------------------------------------
Step(p) ==
  \/ Ensure(p) \/ Look(p) \/ Add(p) \/ Change(p) \/ Commit(p) \/ Begin(p)
  \/ Recheck(p) \/ Validate(p) \/ WriteVersion(p) \/ Exists(p) \/ Invalid(p)

Init ==
  /\ versions = 1..FirstVersion
  /\ parts = UNION {PartsOf(v) : v \in versions}
  /\ writer = Nobody /\ draft = NoDraft
  /\ faults \in SUBSET ((IF FirstVersion < 4 THEN {"money"} ELSE {})
                        \cup (IF FirstVersion < 8 THEN {"orphan"} ELSE {}))
  /\ state = [p \in Processes |-> "down"]
  /\ place = [p \in Processes |-> <<1, 1>>]
  /\ since = [p \in Processes |-> 0]
  /\ why = [p \in Processes |-> "none"]
  /\ crashes = 0

Next == (\E p \in Processes : Start(p) \/ Step(p) \/ Busy(p) \/ Crash(p) \/ Error(p)) \/ Repair

Spec == Init /\ [][Next]_vars
(* Processes run and are started again, and the owner repairs what stops   *)
(* the upgrade.                                                            *)
LiveSpec ==
  Spec /\ \A p \in Processes : WF_vars(Start(p)) /\ WF_vars(Step(p)) /\ SF_vars(Repair)

-----------------------------------------------------------------------------
(* Properties                                                              *)

(* A version that is recorded has everything that belongs to it, and those *)
(* before it too: whoever died or failed in between (migrate).             *)
VersionsTellSchema ==
  /\ \E n \in 0..LATEST_SCHEMA_VERSION : versions = 1..n
  /\ \A v \in versions : PartsOf(v) \subseteq parts
  /\ 4 \in versions => "money" \notin faults
  /\ 8 \in versions => "orphan" \notin faults

(* Processes that start together on a database of version 6 or more do not *)
(* stop each other: none finds that what it adds is there (migrate:229).   *)
StartsTogether == \A p \in Processes : since[p] >= 6 => why[p] # "exists"

(* The schema is what its version tells, and no start fails on another's.  *)
SchemaIsSound == VersionsTellSchema /\ StartsTogether

Promise == INSTANCE UpgradePromise WITH Latest <- LATEST_SCHEMA_VERSION
(* From version 3 on an upgrade is all or nothing, version by version.     *)
UpgradesAtOnce == Promise!Spec

(* "On startup the application upgrades older databases automatically"     *)
(* (README.md:197): in the end every process is up.                        *)
UpgradeEnds == <>[](\A p \in Processes : state[p] = "up")
=============================================================================
