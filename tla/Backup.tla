------------------------------ MODULE Backup --------------------------------
(***************************************************************************)
(* Backups of a SQLite database in use, and restoring one while the        *)
(* application is stopped, as its manual says.  The database is a file and *)
(* a write-ahead log that belongs to what the file was when the log began: *)
(* whoever opens them first merges them, whether they belong together or   *)
(* not.  A content is the number of the last write in it.                  *)
(***************************************************************************)
EXTENDS Integers

CONSTANTS
  MaxWrites, MaxRots,                \* bounds
  MaxDeaths,                         \* bound: how often somebody dies or gives up
  Corrupt, Mixed, Newer,             \* no contents: damaged; a file with another's
                                     \* log; from a later release
  None

(* What is assumed of the constants.                                       *)
BoundsAssumption == {MaxWrites, MaxDeaths, MaxRots} \subseteq Nat
Contents == 0..MaxWrites
Files == Contents \cup {Corrupt, Mixed, Newer}
DistinctAssumption == /\ {Corrupt, Mixed, Newer} \cap Nat = {}
                      /\ None \notin [base : Files, last : Contents]

VARIABLES
  file, wal,           \* the database file; None or its log
  app,                 \* "stopped", "running" or "killed"
  archives,            \* what the backup archives hold
  preserved,           \* files and logs kept of a database that is damaged
  step, temp,          \* where the restore is, what it has extracted
  expected,            \* what was committed or restored last
  written,             \* how many writes there were
  deaths, rots

vars == <<file, wal, app, archives, preserved, step, temp, expected, written, deaths, rots>>

-----------------------------------------------------------------------------
Steps == {"idle", "extracted", "alone", "saved", "replaced"}

(* What is found when the database is opened.                              *)
Opened(f, w) ==
  IF w = None THEN f ELSE IF f = Corrupt THEN Corrupt
  ELSE IF w.base = f THEN w.last ELSE Mixed
Now == Opened(file, wal)
Sound(c) == c \in Contents

(* Whoever opens the database last and alone leaves a file without a log.  *)
Merge == file' = Now /\ wal' = None
Database == <<file, wal>>
Restoring == <<step, temp>>

(* The application                                                         *)
StartApp ==
  /\ app # "running" /\ step = "idle" /\ Sound(Now)
  /\ app' = "running" /\ Merge
  /\ UNCHANGED <<archives, preserved, step, temp, expected, written, deaths, rots>>

Write ==
  /\ app = "running" /\ Sound(Now) /\ written < MaxWrites
  /\ wal' = [base |-> file, last |-> written + 1]
  /\ written' = written + 1 /\ expected' = written + 1
  /\ UNCHANGED <<file, app, archives, preserved, step, temp, deaths, rots>>

StopApp ==
  /\ app = "running" /\ app' = "stopped" /\ Merge
  /\ UNCHANGED <<archives, preserved, step, temp, expected, written, deaths, rots>>

KillApp ==
  /\ app = "running" /\ deaths < MaxDeaths
  /\ app' = "killed" /\ deaths' = deaths + 1
  /\ UNCHANGED <<file, wal, archives, preserved, step, temp, expected, written, rots>>

(* The disk damages the file.                                              *)
Rot ==
  /\ rots < MaxRots /\ Sound(file)
  /\ rots' = rots + 1 /\ file' = Corrupt
  /\ UNCHANGED <<wal, app, archives, preserved, step, temp, expected, written, deaths>>

-----------------------------------------------------------------------------
(* create_backup: a snapshot in one read, checked, archived under its name *)
(* by a rename.  A snapshot that fails its check makes no archive.         *)
Snapshot == Sound(Now) /\ archives' = archives \cup {Now}

CreateBackup ==
  /\ Snapshot
  /\ UNCHANGED <<file, wal, app, preserved, step, temp, expected, written, deaths, rots>>

(* restore_backup                                                          *)

(* The archive's digest is right and its schema is not newer.              *)
Unverified(a) == TRUE                        \* variant: the archive is trusted
Verified(a) == Sound(a)

Extract(a) ==
  /\ step = "idle" /\ app # "running" /\ a \in archives /\ Verified(a)
  /\ step' = "extracted" /\ temp' = a
  /\ UNCHANGED <<file, wal, app, archives, preserved, expected, written, deaths, rots>>

(* Exclusive access is asked for by opening the database: that merges its  *)
(* log.  A damaged one may keep it, and is no obstacle.                    *)
NotOpened == UNCHANGED Database              \* variant: no exclusive access
OpenedIfSound == Sound(Now) /\ Merge         \* variant: damage is an obstacle
OpenedAlone ==
  \/ Merge
  \/ file = Corrupt /\ UNCHANGED Database
Exclusive == OpenedAlone

AssertExclusive ==
  /\ step = "extracted" /\ step' = "alone"
  /\ Exclusive
  /\ UNCHANGED <<app, archives, preserved, temp, expected, written, deaths, rots>>

Preserve == preserved' = preserved \cup {Database}

(* The safety backup; or copies of what is damaged.                        *)
SaveOld ==
  /\ step = "alone" /\ step' = "saved"
  /\ \/ Snapshot /\ UNCHANGED preserved
     \/ ~Sound(Now) /\ Preserve /\ UNCHANGED archives
  /\ UNCHANGED <<file, wal, app, temp, expected, written, deaths, rots>>

(* No room for the safety backup: the restore gives up.                    *)
ReplaceAnyway == step' = "saved"             \* variant: it goes on
GivesUp == step' = "idle"
NotSaved == GivesUp

FailSave ==
  /\ step = "alone" /\ deaths < MaxDeaths
  /\ deaths' = deaths + 1
  /\ NotSaved
  /\ UNCHANGED <<file, wal, app, archives, preserved, temp, expected, written, rots>>

(* The file is replaced in one step, and then its log removed.             *)
Replace ==
  /\ step = "saved" /\ step' = "replaced"
  /\ file' = temp /\ expected' = temp
  /\ UNCHANGED <<wal, app, archives, preserved, temp, written, deaths, rots>>

RemoveSidecars ==
  /\ step = "replaced" /\ step' = "idle"
  /\ wal' = None
  /\ UNCHANGED <<file, app, archives, preserved, temp, expected, written, deaths, rots>>

Die ==
  /\ step # "idle" /\ deaths < MaxDeaths
  /\ step' = "idle" /\ deaths' = deaths + 1
  /\ UNCHANGED <<file, wal, app, archives, preserved, temp, expected, written, rots>>

Init ==
  /\ file = 0 /\ wal = None /\ app = "stopped"
  /\ archives = {0, Newer, Corrupt} /\ preserved = {}
  /\ step = "idle" /\ temp = 0 /\ expected = 0 /\ written = 0
  /\ deaths = 0 /\ rots = 0

Restore == (\E a \in archives : Extract(a)) \/ AssertExclusive \/ SaveOld \/ Replace \/ RemoveSidecars

Next ==
  \/ StartApp \/ Write \/ StopApp \/ KillApp \/ Rot
  \/ CreateBackup \/ Restore \/ FailSave \/ Die

Spec == Init /\ [][Next]_vars
(* The operator restores again until it is done; the application, while    *)
(* its database is damaged, is stopped.                                    *)
LiveSpec == Spec /\ WF_vars(Restore) /\ WF_vars(~Sound(Now) /\ StopApp)

-----------------------------------------------------------------------------
(* Properties                                                              *)

(* Whoever dies and whenever, what is found when the database is opened is *)
(* what was committed or restored last, and is sound (restore_backup,      *)
(* "Restore verifies those values, SQLite integrity, foreign keys, and     *)
(* schema compatibility before replacing the database", README.md:353).    *)
WhatIsThere == Sound(expected) /\ Now \in {expected, Corrupt}

(* What is replaced is not lost: an archive holds it, or it was damaged    *)
(* and its files are kept (README.md:355).                                 *)
NothingLost ==
  [][file' # file /\ step = "saved" /\ step' = "replaced" =>
       expected \in archives \/ Database \in preserved]_vars

(* A damaged database is replaced in the end, unless nothing is done about *)
(* it: damage is no obstacle to a restore (README.md:356).                 *)
DamageIsCured == file = Corrupt ~> Sound(file)
=============================================================================
