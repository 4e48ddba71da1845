----------------------------- MODULE MCStorage -----------------------------
(***************************************************************************)
(* What is done to the database as a whole: it is moved to PostgreSQL,     *)
(* backed up and restored, and upgraded on either database.  These share   *)
(* no variable here, so one part runs and the others rest in an initial    *)
(* state of their own.                                                     *)
(***************************************************************************)
EXTENDS Transfer

CONSTANTS
  Processes, FirstVersion,                                           \* Migrations
  Servers, Currencies, BaseCurrency, NoCurrency, MaxStops,           \* PgUpgrade
  MaxWrites, MaxRots, MaxDeaths, Corrupt, Mixed, Newer, None         \* Backup

VARIABLES
  part,
  file, wal, app, archives, preserved, restoring, temp, expected, written,
  deaths, rots,                                                      \* Backup
  versions, parts, writer, upgrade, faults, state, place, since, why,
  stops,                                                             \* Migrations
  pgVersions, pgParts, main, pgLock, pgDraft, pgState, found, pgStops  \* PgUpgrade

disk == <<file, wal, app, archives, preserved, restoring, temp, expected, written,
          deaths, rots>>
sqlite == <<versions, parts, writer, upgrade, faults, state, place, since, why, stops>>
postgres == <<pgVersions, pgParts, main, pgLock, pgDraft, pgState, found, pgStops>>

-----------------------------------------------------------------------------
(* Writes, kills, backups and restores; as they are, of a disk that keeps *)
(* what it is given, and of one that does not.                             *)
Disk == INSTANCE Backup WITH step <- restoring
Lasting == INSTANCE Backup WITH MaxRots <- 0, step <- restoring
Damaged == INSTANCE Backup WITH MaxWrites <- 2, MaxDeaths <- 2, step <- restoring

(* A database of a release, upgraded by several processes; and one of the  *)
(* desktop application, upgraded by one process that may be killed or by   *)
(* several that are not.                                                   *)
Lite == INSTANCE Migrations WITH draft <- upgrade, crashes <- stops
Alone == INSTANCE Migrations WITH
  FirstVersion <- 0, MaxCrashes <- 2, draft <- upgrade, crashes <- stops
Legacy == INSTANCE Migrations WITH
  FirstVersion <- 0, MaxCrashes <- 0, draft <- upgrade, crashes <- stops

Postgres == INSTANCE PgUpgrade WITH
  Processes <- Servers, MaxCrashes <- MaxStops,
  versions <- pgVersions, parts <- pgParts, lock <- pgLock, draft <- pgDraft,
  state <- pgState, crashes <- pgStops

(* One process has another currency.                                       *)
MCCurrency == [s \in Servers |-> IF s \in Processes THEN "USD" ELSE "EUR"]

(* What is assumed of the constants.                                       *)
ASSUME DiskAssumption == Disk!BoundsAssumption /\ Disk!DistinctAssumption
ASSUME LiteAssumption == Lite!ProcessesAssumption /\ Lite!VersionAssumption
ASSUME PostgresAssumption == Postgres!ProcessesAssumption /\ Postgres!CurrencyAssumption
ASSUME Alone!VersionAssumption /\ Legacy!VersionAssumption /\ Damaged!BoundsAssumption

-----------------------------------------------------------------------------
First == CHOOSE p \in Processes : TRUE      \* the one process

MCInit ==
  /\ part \in {"transfer", "lasting", "damaged", "alone", "legacy", "release",
              "postgres"}
  /\ Init /\ Disk!Init
  /\ CASE part = "alone" -> Alone!Init
       [] part = "legacy" -> Legacy!Init
       [] OTHER -> Lite!Init
  /\ part \in {"alone", "legacy", "release"} \/ faults = {}
  /\ part = "postgres" \/ (pgVersions = {} /\ main = NoCurrency)
  /\ Postgres!Init

MCNext ==
  /\ UNCHANGED part
  /\ \/ part = "transfer" /\ Next /\ UNCHANGED <<disk, sqlite, postgres>>
     \/ part = "lasting" /\ Lasting!Next /\ UNCHANGED <<vars, sqlite, postgres>>
     \/ part = "damaged" /\ Damaged!Next /\ UNCHANGED <<vars, sqlite, postgres>>
     \/ part = "alone" /\ Alone!Next /\ (\A p \in Processes : state'[p] # state[p] => p = First)
        /\ UNCHANGED <<vars, disk, postgres>>
     \/ part = "legacy" /\ Legacy!Next /\ UNCHANGED <<vars, disk, postgres>>
     \/ part = "release" /\ Lite!Next /\ UNCHANGED <<vars, disk, postgres>>
     \/ part = "postgres" /\ Postgres!Next /\ UNCHANGED <<vars, disk, sqlite>>

(* The fairness of the parts, while they run.                              *)
RestoredAgain ==
  /\ WF_disk(part = "damaged" /\ Damaged!Restore)
  /\ WF_disk(part = "damaged" /\ ~Damaged!Sound(Damaged!Now) /\ Damaged!StopApp)
StartedAgain ==
  \A p \in Processes : /\ WF_sqlite(part = "release" /\ Lite!Start(p))
                       /\ WF_sqlite(part = "release" /\ Lite!Step(p))
                       /\ SF_sqlite(part = "release" /\ Lite!Repair)

MCSpec ==
  MCInit /\ [][MCNext]_<<part, vars, disk, sqlite, postgres>> /\ RestoredAgain /\ StartedAgain

-----------------------------------------------------------------------------
(* Properties of the parts (those of Transfer by their own names).         *)

(* What is found when the database is opened is what was committed or      *)
(* restored last, while the disk keeps what it is given (restore_backup).  *)
WhatIsThere == rots = 0 => Disk!WhatIsThere

(* What a restore replaces is not lost, damaged or not, and a damaged      *)
(* database is replaced in the end by whoever restores again.              *)
DamageIsCured == Disk!NothingLost /\ Disk!DamageIsCured

(* A version that is recorded has everything that belongs to it, processes *)
(* that start together do not stop each other (migrate), and on PostgreSQL *)
(* processes with different settings never run on one database.            *)
SchemaIsSound == Lite!SchemaIsSound /\ Postgres!UpIsAtHome

(* An upgrade from version 3 on is all or nothing, version by version; not *)
(* one of the desktop application's database, which is hidden.  So is one  *)
(* of PostgreSQL: others see the old schema or the new one.                *)
Hidden == part \in {"alone", "legacy"}
Shown(x) == IF Hidden THEN {} ELSE x
Promise == INSTANCE UpgradePromise WITH
  Latest <- Lite!LATEST_SCHEMA_VERSION, PartsOf <- Lite!PartsOf,
  versions <- Shown(versions), parts <- Shown(parts)
UpgradesAtOnce == Promise!Spec /\ Postgres!UpgradesAtOnce

(* In the end every process is up, if the database was of version 3.       *)
UpgradeEnds == part = "release" => Lite!UpgradeEnds
=============================================================================
