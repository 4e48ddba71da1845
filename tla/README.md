# Formal models of the personal finance application

This directory holds TLA+ models of the finance application in this
repository, the TLC configurations that check them on small instances, and
proofs of their main theorems for instances of any size. Paths below are
relative to `src/backend/app/` unless they say otherwise.

## The system

A FastAPI service keeps the accounts of several users in SQLite or PostgreSQL.
Requests run in a thread pool, each on a connection of its own; a background
worker in every API process posts recurring transactions; maintenance commands
run from another process on the same database. What serialises them is the
database: one write transaction at a time (`BEGIN IMMEDIATE`, or an advisory
lock that a trigger takes before any ledger write), with reads, and checks made
before the transaction, unprotected.

| Component | State | Operations | Hard behaviour | Correct when |
|---|---|---|---|---|
| Recurring schedules (`repositories/recurring_repository.py`) | schedule, its next date, the claimed occurrences | add, update, pause, process | several processes, batches, shutdown in mid-batch, crash, owner edits between listing and lock | an occurrence is posted once, only where allowed, and never skipped |
| Recurring worker (`services/recurring_runner.py`) | pass in progress, backoff | pass, retry, stop | failure and retry, two API processes | due occurrences are eventually handled |
| Worker health (`services/worker_health.py`) | attempt record, what was announced | begin, finish, observe, stopped | two tasks observe at once | what is announced follows the record |
| Statements (`services/reconciliation_service.py`, `migrations_reconciliation.py`) | statements, cleared entries | create, clear, unclear, complete, cancel | edits under way on old checks; transfers on two accounts | a completed statement balances with the ledger for ever |
| Transactions, transfers (`repositories/`) | the ledger | add, update, delete, restore | check before write | cleared entries do not move |
| Accounts (`repositories/account_repository.py`) | active flag, opening balance | create, deactivate | against schedules and postings | no active schedule on an inactive account |
| Audit (`migrations_transaction_audit.py`, `postgres_guards.sql`) | history per transaction | triggers | any interleaving of writers | history replays to the row |
| Sign-in (`services/auth_service.py`) | sessions, rate counters | sign in, touch, end, revoke | password verified outside the lock | no session of a disabled user or an old password |
| User accounts (`services/user_account_service.py`) | users, recovery codes | register, reset, change, enable, disable | check, hash, then write | a code is used once |
| CSV import (`services/csv_import_service.py`, `src/frontend/views/transactions.js`) | receipts | preview, commit | lost answers, retries | rows of a batch are posted once |
| Readiness (`services/health_service.py`) | cached answer, its time, a lock | ready | answer and time read without the lock, several threads | one probe at a time, and "ready" is never old |
| Writer reservation, pool (`database.py`, `postgres_*.py`) | connections, queue, threads, two locks, session settings | take, begin, lock, commit, roll back, give back | capacity, time limits, lost connections, two locks | everyone gets a turn or an error, and a connection comes back clean |
| Migrations (`migrations*.py`, `postgres_schema.py`, `postgres_database.py`) | schema version, tables | start-up | statements outside a transaction, crash between them, two starters | a version that is recorded is there, and a restart continues |
| Backup, restore (`services/backup_service.py`) | files | backup, restore | crash between file operations | the old database or the new one |
| PostgreSQL transfer (`services/postgres_migration.py`) | target schema, ids, sequences | dry run, transfer | applications on both sides | all or nothing, and ids that are new |
| Budgets (`repositories/budget_repository.py`, `services/budget_service.py`) | budgets | save, rename, delete, list | save and answer are two commits; the month turns | a budget keeps its id and its owner |
| Balances and reports (`repositories/*report*`, `services/report_service.py`) | - | dashboard, monthly report | many queries, midnight between them | what one page shows adds up |
| Browser (`src/frontend`) | shown statement, request mark, locks | load, mark, complete, cancel | answers late, out of order, lost | what is shown is what is selected and what the server has |
| Desktop (`src/backend/legacy_desktop.py`) | SQLite file, list, dialog | catch up, edit, back up, restore | the web application upgrades its file | nothing is posted twice or lost |

Components meet in the database: the worker and the requests share the schedule
and ledger tables; statements read the ledger, and through triggers stop its
writers; disabling a user (a maintenance command) changes what sign-in and the
worker may do. `PROJECT.json` lists every component with its status, and every
hazard at the line where it bites.

## Modules

Each module is a component with the part of the database it works on. What
several of them describe, they describe alike: `Recurring` and `Reconciliation`
both delete, restore and deactivate, `Audit` inserts what a recurring pass or an
import would, `Credentials` begins with the user that `Identities` finds, and
`Pool` has the requests that the others take for granted. They are checked
apart, because what one does to the other's tables is no different there from
what another client does: a posting is to a statement another new entry.

| Module | Stands for | Abstract specification |
|---|---|---|
| `Recurring`, `Calendar` | schedules, their processing, their dates | `OccurrencePromise` |
| `Reconciliation` | statements against the ledger's writers | `AccountBook` |
| `Audit` | the history triggers write | |
| `Credentials`, `Identities`, `RateLimits` | sessions and passwords; names; counters | `SignInPromise` |
| `CsvImport` | the import's dialog, calls and receipts | |
| `WorkerHealth`, `Readiness` | what is announced and what is answered | |
| `Migrations`, `PgUpgrade` | start-up on SQLite and on PostgreSQL | `UpgradePromise` |
| `Backup`, `Transfer` | archives and restoring; moving to PostgreSQL | |
| `Pool` | threads, connections and advisory locks | |
| `Budgets`, `Reports` | budgets; what pages show of the ledger | |
| `StatementPage`, `Desktop` | the browser's statement view; the old program | |

### Recurring

| Variable | In the code |
|---|---|
| `today` | the business day (`domain/business_date.py`) |
| `userActive`, `accountActive` | `users.active`, `accounts.active` |
| `schedule` | rows of `recurring_transactions` |
| `claims` | rows of `recurring_occurrences` |
| `ledger` | the generated rows of `transactions` |
| `writer`, `draft` | who holds the reservation, and its uncommitted rows |
| `worker`, `stop` | per process: the local variables of `process_recurring` and `process_due`, and the stop event |
| `edits`, `faults` | counters of the bounds, not in the code |

A pass is `StartPass` (the listing of all due schedules), then per user
`NextUser` (the listing `process_due` makes of that user's), then per schedule
one of `SkipSchedule`, `PauseOrphan` and `BeginSchedule` (the row read again
under the reservation), `PostOccurrence` once per round of the loop and
`CommitSchedule`, and at last `EndPass`. `RequestStop` and `StopPass` are a
shutdown, which the loop notices between occurrences and commits, and the pass
between schedules. `FailPass` is an exception or the death of the process: the
transaction is rolled back and the pass forgotten. The first two outcomes of
taking a schedule write at most one row, so the transaction is one step; the
third is several, because a shutdown, a crash, another process's listing and
the next day may come between them.

Owners' operations and the operator's `set_active` are each one step that needs
the reservation. On PostgreSQL `set_active` runs under another lock, but the
trigger `ownership_user_state` takes the writer's before the row changes.

Dates are numbers of days and `Step[f]` is how many days a frequency moves a
date. `recurrence.py` does more (month lengths, clamping), which is in `Calendar`:
what the properties need of it is only that a date moves forward. `Init` allows active schedules on
inactive accounts, as databases older than the rule may hold.

`OccurrencePromise` is the abstract specification: a processing step takes one
schedule forward over a run of due occurrences and leaves one entry for each,
the old one or a new one. There are no claims, workers or faults in it.

### Reconciliation

| Variable | In the code |
|---|---|
| `today`, `active` | the business day, `accounts.active` |
| `entry` | rows of `transactions` and `transfers`; `effect` is what the view `reconciliation_ledger` shows of one on each account |
| `statement` | rows of `reconciliations` |
| `cleared` | rows of `reconciliation_entries` |
| `request` | a request between its checks and its write |

Two requests check before they reserve the writer, and are two steps:
`CheckTransfer` / `WriteTransfer` and `CheckUpdate` / `WriteUpdate`. All other
operations check inside their transaction and are one. The lock triggers are
`Locked`. The other triggers repeat what the service checked in the same
transaction and can refuse nothing that it admitted, so they are not modelled
apart.

The row of a deleted transfer is gone and so is that of a cancelled draft; their
names in the model may then stand for a new row. Opening balances are a
constant, since no operation changes one. Two things are left to `Recurring`:
schedules that stop an account from being deactivated, and users.

`AccountBook` is the abstract specification: an account is settled with sets of
entries, each entry once per account, a settled entry is never edited, and the
balance carried forward is the opening balance and the sum of what was settled.

### Credentials

| Variable | In the code |
|---|---|
| `now` | `time.time()`, in steps of the durations that matter |
| `config` | per process: the owner's name and password hash in its settings, together `owner_key()` |
| `user` | password, `active`, `auth_version`, `bootstrap_key` of `users` |
| `session` | rows of `auth_sessions`; `proved` is not a column but the password that was verified for the row |
| `code` | rows of `auth_codes` |
| `request` | what a request has read or been admitted with, before it writes |

Verifying and hashing passwords is slow and done outside any transaction, so
four operations are two steps: `CheckLogin` then `WriteLogin` or `RefuseLogin`,
`CheckChange` / `WriteChange`, `CheckReset` / `WriteReset`, and `Admit` then
`Touch` or `TouchBusy`, the best-effort refresh of `last_seen`. An admitted
request goes on without another check of its session (`Logout`, `Revoke`,
`RevokeOthers`, `CheckChange`, `Answer`). All else is one transaction under
one lock, and one step. `WriteLogin` takes its time from before its transaction
(`at`); the other operations read the clock immediately before they use it,
and do so in one step here. Admission and the checks of a code could be late by
that much.

`Start` is the end of `initialize_auth`, which gives the owner the settings of
the process if they are not those given last. A restart loses the requests under
way. The maintenance commands call it too, with settings of their own: that is a
process with no requests.

A token and a code are made once, so a name in the model is used once: a row
deleted is `ended`. Failed sign-ins and refused requests leave no trace but in
the rate counters (`RateLimits`) and the log of security events, which is left
out, as are the slots for hashing: a request refused for want of one is one that
never goes on. Registration and profile changes (`Identities`) touch neither
versions nor sessions. On
PostgreSQL a refresh may fall between two statements of a sign-in; the model
has it before or after.

`SignInPromise` is the abstract specification: a grant is given on the password
the user has at that moment, to a user enabled at that moment, ends no later
than either changes, and never returns. It has no requests, versions or times.

### RateLimits

| Variable | In the code |
|---|---|
| `now` | `time.time()` |
| `counter` | rows of `auth_source_limits`, `auth_account_limits`, `auth_login_limit` and `auth_registration_limits`, by key |
| `request` | an attempt between `reserve` and `reserve_registration`, with the time it took before its transaction |
| `attempts` | counter of the bound |
| `admitted` | not in the code: when each counter let an attempt through |

`Reserve` and `ReserveRegistration` are each one transaction: rows past their
window go, every counter is looked at, and only then all of them count. A
refusal rolls everything back. A request takes its time first and may then wait
for the database (`MaxWait`), so that attempts overtake each other.

### Identities

`user` and `main` are the tables `users` and the Main Accounts of `accounts`,
`setting` the owner's name and whether registration is open, `request` a
registration or a change of the profile on its way, `writer` the transaction of
a registration between its two inserts. `CheckRegistration` and `CheckProfile`
look names up before the password is hashed or verified; the writes have only
the unique indexes and the version to go by. `Found` is the lookup of `login`.

### Audit

`row` and `history` are `transactions` and `transaction_audit`; `draft` is both
as an open transaction of several inserts sees them, which commits or rolls
back. `Snapshot` and `Recorded` are the triggers `finance_audit_insert` and
`finance_audit_update`. An update is checked and written apart; deleting and
restoring are one step; `cleared` stands for statements.

### CsvImport

| Variable | In the code |
|---|---|
| `ledger` | `transactions` in the order of ids; which batch posted an entry is not in the table |
| `receipt` | the setting `csv-import:<batch>`, per user |
| `work` | the open transaction of an import, row by row |
| `call` | requests and answers on their way, any of which may be late or lost |
| `dialog` | the import dialog: its preview's rows and batch id, kept for a retry |
| `told` | not in the code: what a caller was told of a batch |

`Folded` and `Stored` are how Python and the database lower-case a description:
different in `Entries`, since SQLite's `LOWER` folds only letters of ASCII. A
preview keeps the rows of a file that are fresh, in order (`Fresh`, `Picked`).

### WorkerHealth

`loop`, `pass` and `sleep` are `_process_loop`, the thread it waits for and its
delay; `watch` the task `_watch`; `alive`, `failures`, `backlog`, `age` and
`until` the fields of `RecurringHealth`, times relative to now; `alerted` the
reasons announced last. Both tasks belong to one event loop, so what one does
between two awaits is one step, and `Late` is how late a timer may be.

### Readiness

`ready` and `age` are `_ready` and the time since `_checked_at`; `pc` is where
each thread is in `ready()`. Each read and each write of the two fields is a
step. `rest`, `goodAge` and `justified` are not in the code: the time since the
last probe, since the last that found the database ready, and for whom that one
was recent enough.

### Migrations, PgUpgrade

`Migrations` has the nine SQLite migrations as sequences of statements. The
driver begins a transaction before a statement that changes rows and not before
one that changes the schema, so a statement is a step, inside the draft or
outside; from version 4 on a migration begins by reserving the writer, and from
7 on it then reads the version again. A statement that adds what is there fails.
`faults` are rows a migration refuses and the owner repairs. In `PgUpgrade` all
is one transaction under the advisory lock. A part stands for the columns,
tables, indexes or triggers that one statement adds.

### Backup, Transfer

`Backup` has the database as a file and a write-ahead log that belongs to the
file it was begun with; whoever opens them merges them, `Opened` says with what
result. A restore is `Extract`, `AssertExclusive`, `SaveOld`, `Replace`,
`RemoveSidecars`, and may die between any two; the operator's manual has the
application stopped. `Transfer` has one table with its ids and its sequence;
the transfer's steps are those of `transfer_sqlite`, beside applications on
either side. `moved` and `used` are not in the code.

### Pool

A request is a program of steps (`thread`, `take`, `META`, `LEDGER`, `commit`,
`give`, `leave`) that names what it takes hold of: `Held` is the order of
FastAPI's dependencies, in which a request has its connection from before the
handler's thread to after it. `queue`, `idle` and `returned` are the pool's;
`tx`, `short` and `dead` the state of a connection in the server; `lock` the
queue of each advisory lock. A failing request undoes what it holds in the order
of its context managers. The command that enables and disables users has a pool
of its own and takes the locks in the order of a registration; it is no kind.

### Budgets, Reports

`Budgets` has a save and the reading of its answer as two commits, and the month
in which a request began. `Reports` has a page as a sequence of queries on one
ledger, with the day going on between them and commits only between pages: a
page that a commit overtakes mixes two ledgers, and nothing is promised of it.
What is sorted by size and cut off (`LIMIT 10`, and the first five of those) is
any set that the sorting may leave (`Largest`), as nothing orders equal sums. In
the run, amounts are powers of three, so that sums tell which entries are in
them, but for two that are equal; the theorem holds for any positive amounts.

### StatementPage, Desktop, Calendar

`StatementPage` is the reconciliation view: `tasks` are handlers that wait for
an answer, and `mine` whether `requestId` is still theirs. An answer carries
what the server had at the time of the call; a write may happen and its answer
be lost. `Desktop` is the old program on its SQLite file, which the web
application may upgrade at any moment. `Calendar` steps a schedule through the
calendar with both programs' date arithmetic side by side.

### Modules beside them

`MCRecurring`, `MCReconciliation` and `MCCredentials` name the model values of
their component. The other components are
checked in groups: `MCEntries`, `MCPages`, `MCAccess`, `MCStorage` and
`MCOperations` each extend one component and have the others as instances. The
components of a group share no variable in such a module. Its variable `part`
says which of them runs (or which instance of one, where one component has
several), and the others rest in one of their initial states, so that a state
of the whole is a state of one part. `MCOperations` also has an instance of
`Recurring`, for the passes of two workers with fairness and without an owner
who edits (`part = "passes"`). A property is stated again there under its
own name, for its part. Where a theorem states it, the constants of the component
are constants of the group, with named assumptions, and have their values in the
`.cfg`; the proofs extend the group. An instance of `Migrations` in `MCStorage` and one of
`Pool` in `MCOperations` also keep one process or request at rest.

`RecurringProofs`, `ReconciliationProofs`, `CredentialsProofs`, `EntriesProofs`,
`AccessProofs`, `StorageProofs`, `OperationsProofs` and `PagesProofs`
hold the proofs. Operators marked *variant* in the models are what the operation
beside them would be with a plausible mistake in it. No action uses them; put in
place of the right one, they show which property notices the mistake.

## Runs

| Run | Question | Instance |
|---|---|---|
| `RecurringOwner` | does processing keep its promise while its owner interferes? | 1 schedule, 2 accounts, 2 processes, 2 frequencies, batches of 2, 3 days, 2 edits, 1 fault |
| `ReconciliationEvidence` | do statements and edits on old checks get along, and do statements chain and add up? | 2 accounts, 1 transaction, 1 transfer, 2 statements with balances 0 and 1, 1 request under way, 2 days |
| `CredentialsRaces` | do checks outside transactions let anything stale through? | the owner (unconfigured) and a member, 1 process, 2 requests, 2 sessions with a limit of 1, 2 codes with a limit of 1, 2 passwords, versions to 2, no clock |
| `CredentialsTime` | can a late refresh do harm, and a start with other settings? | the owner, 2 settings, 1 process that restarts, 2 requests, 2 sessions that live 3 and idle for 2, no codes, times to 3, versions to 3 |
| `Entries` | are entries made once, told truly and added up alike everywhere? | 1 transaction among 2 accounts, histories to 4; 2 calls of 2 CSV batches with 2 and 1 equal rows; every start in 2095 and 2096; 1 desktop program; reports of 2 transactions, of 1 and a transfer, or of 3 expenses of which 2 are listed and 1 is followed |
| `Pages` | do budgets stay with their month and owner, and pages with what is selected? | 3 clients of 2 users, 2 categories, 2 budgets, 2 months; 2 accounts with 2 statements or with 1 of 2 pages |
| `Access` | are attempts counted and names unambiguous? | 2 sources, 1 target, 2 requests, 4 attempts; an owner with one of two names, 2 users to be, 2 usernames, 2 emails, 2 passwords, versions to 2 |
| `Storage` | is the database the old one or the new one, whatever dies? | 3 transfers (1 dry), 2 ids, 1 death; 4 writes with 3 deaths, or 2 with damage; 2 processes on SQLite from versions 0 and 3; 3 on PostgreSQL with 2 deaths, 1 with another currency |
| `Operations` | does the server go on, say so truly, and handle what is due? | 2 callers of the probe; intervals of 2 with delays to 6; 3 requests, 1 or 2 connections, 2 threads, 1 place to wait; 2 schedules, perhaps an old one on an inactive account, 2 processes, batches of 1, 1 fault, no edits; fair |
| `MigrationsStuck` | does every upgrade end? | 1 process, 1 death: no, see below |
| `BackupMixed` | is what was restored what was verified? | 1 write, 1 damage, 2 deaths: not always, see below |
| `CsvDuplicates` | are likely duplicates skipped, whatever letters they have? | as `Entries`: no, see below |

The properties of each are in its `.cfg`. What the nine that pass show:

- An occurrence has one entry whatever owners, processes and faults do, because
  the claim is made in the transaction of the entry and is never withdrawn.
- The listing of a pass may be stale in every respect (another process went
  first, the owner moved the schedule to another account or day, the user was
  disabled). The row read under the reservation decides, so nothing is posted
  where it may not be, and nothing is skipped. With the listed date in place of
  the row's, `RecurringOwner` finds a schedule thrown back or an occurrence lost.
  What is due is handled in the end though processes are killed and stopped
  (`Operations`).
- An update whose checks are old cannot reach an entry that a statement has
  cleared. A lock that only completed statements hold would not be enough: a
  draft could then clear an entry that moves to another account or day.
- A sign-in, a change or a reset whose check is old is decided again by the
  version, or by claiming the code. A version is needed and `active` alone would
  not do: `CredentialsRaces` then finds a session on a replaced password. A code
  looked up once must be claimed: otherwise two resets use it.
- A refresh that comes late never brings a session back or puts off its expiry,
  as `src/README.md:537-541` says, and because it repeats the threshold it never
  turns `last_seen` back.
- Statements of an account settle each entry once, and what is carried forward
  is what was settled.
- A batch sent again is posted once and answered with its receipt, and rows that
  another batch posted after the preview are skipped, as long as the database
  folds the case of the entry as Python does. The history of an entry
  replays to its row although an update writes what it read earlier.
- A clamped monthly date stays clamped, in both programs alike. Cards, chart and
  account list agree if they are of one day, which is why the day is taken once.
  A dashboard's categories are all it has spent. A monthly report lists ten at
  most, so its categories may add up to less than its rows; it follows five of
  them, and none that is not followed is larger, though one may be as large.
- Nobody but another save takes a budget away, and it keeps its id. A page shows
  what is selected: an answer that was overtaken is dropped by its mark.
- A counter admits no more than its limit in its window, a refused attempt
  counts nowhere, and a name finds one user.
- The transfer brings over the source as its backup has it, and its ids are new.
  Processes that start together upgrade once. A restore that dies leaves the old
  database or the new one, if the disk does not fail.
- The probe asks once per cache time, and nobody is told "ready" for longer. A
  stall is announced although the loop hangs. A connection that comes back is as
  new, and with fewer places to wait than threads every request ends without
  having to run out of time.

**Bounds.** A run ends where its days, edits and faults are used up, and a
request, a pass or an account may then rest: `CHECK_DEADLOCK FALSE`. Two
processes suffice for one to act between any two steps of the other; three days
and a batch of two give a backlog longer than a batch and a date moved back over
posted days; two edits let an owner delete an entry and rewind its schedule, or
pause a schedule and deactivate its account. Two statements on two accounts
share a transfer, and one that is cancelled gives its place to
another. Workers, statements, tokens, codes, requests, sources, emails and the
like are interchangeable where no property names one, hence the symmetry;
`Storage` and `Operations` check liveness and use none.

In `Credentials` two requests are enough for one to overtake the other between
its check and its write; the administrator and the settings need no request. A
limit of one session stands for five: what matters is that the new one is
counted. Two versions let a user be disabled and enabled again, or a password be
changed and changed back, under a request that waits; the owner's third is the
first settings. Where a run has no clock, times only say that nothing
expires; where it has one, a refresh at time 1 may arrive after one at time 2,
and sessions idle, expire and are purged.

In the groups: four attempts fill a counter, are refused and fill the next
window. Four entries of history are an insert, an edit, a deletion and a
restoring. The years 2095 to 2101 have a leap year and a century that is none.
Two ids of the transferred table let the last row be deleted before the move.
A desktop database is upgraded by one process that dies twice, or by two that
do not; from version 3 on by two of which one may die, as a third would wait
like the second. Delays to 6 from intervals of 2 are the three that backing off
takes. Two requests that write have a connection each, so that the order of the
two advisory locks matters; three that read share one, so that threads and
connections wait for each other. Two of a report's listed categories and one
followed stand for ten and five: of three, two tie, so that the limit leaves one
out and either of two may be followed.

**Fairness.** `FairSpec` assumes weak fairness of each process's pass
(`WF_vars(Run(w))`), as `Operations` does of its two (`PassesGoOn`).
`_process_loop` starts another pass after every pass,
failed or not, until the process is stopped; a process that holds the
reservation runs to its commit or its rollback, so another's turn comes. That a
stopped process is started again is up to the service manager. Faults end
because `MaxFaults` says so: a process that fails on every pass handles nothing.
Nothing is assumed of owners or of the calendar.

In the groups fairness is that of the part that runs. `Storage` (`StartedAgain`):
a process that has stopped is started again and runs, and the owner repairs what
a migration refuses; the repair is strongly fair, as other starts come between.
(`RestoredAgain`): whoever finds the database damaged stops the application and
restores. `Operations`: requests keep coming to the probe and time passes; the
event loop serves its tasks, but a pass may hang, and `StopIsObeyed` says so;
threads run, statements end and the pool's worker works. That a waiting request
runs out of time is not assumed: `Answered` holds without it. It would not with
as many places to wait as threads, where only time limits end the waiting, and
`DATABASE_POOL_MAX_WAITING` may be set so.

### Where the code differs from its documents

Three runs find what the documentation rules out (`PROJECT.json`, "findings"):

- `MigrationsStuck`: a process that dies after migration 3 has created its table
  and before its version is recorded leaves a database that no start upgrades.
- `BackupMixed`: a restore that dies between replacing the file and removing its
  old log leaves a log that the next start applies to the restored file.
- `CsvDuplicates`: descriptions are compared in lower case, by Python in the rows
  and by the database in the ledger (`services/csv_import_service.py:56`, `:96`),
  and `src/README.md:606-607` says that likely duplicates are skipped. SQLite
  folds ASCII only: an entry with another capital letter is not recognised as
  the duplicate of its own row, which is imported again. A comment (line 89)
  leaves the rule to each database, so this may be meant; `NoDuplicateImported`
  excludes these entries and says so.

Others were met while modelling, and no run states them:

- `src/README.md:529` says ten login attempts per minute. They are counted in
  windows that begin with the first attempt, so ten at the end of one and ten at
  the beginning of the next are let through.
- `src/docs/user-accounts.md:16` says that login accepts the email. An owner who
  is renamed to a member's email (`services/auth_service.py:114-126`) takes it
  over, which `EmailsLeadHome` therefore leaves out for an owner who was renamed.
- `src/docs/operations.md:69` announces recoveries. One is announced when a
  stall ends in a failed pass, although the worker then is still degraded.
- `postgres_database.py:168` keeps sign-in off the ledger's lock. A registration
  waits for it while it holds the lock of sign-in.

## Proofs

The proofs hold for any number of users, accounts, schedules, entries,
statements and workers, any batch sizes and any bounds, from the assumptions
named in the modules (sets are not empty, `Step` is positive, ids are distinct,
the owner is a user, names for nothing are not among the names). They are about
the specification of a component, also where a group of components is checked
together (`Work!Spec` and `Writing!Spec` of `MCOperations`, `Named!Spec` of `MCAccess`,
`Disk!Spec`, `Lite!Spec` and `Postgres!Spec` of `MCStorage`, `Page!Spec` of
`MCPages`, `Import!Spec`, `Dates!Spec`, `Program!Spec` and `Report!Spec` of
`MCEntries`), and state the very property that the run of the group checks.

`RecurringProofs`. `OneEntryPerOccurrence` is not inductive: a commit replaces
the tables by the draft. `RecurringInv` therefore says that at most one process
is in a transaction (`OneWriter`), that its draft obeys the rules of the tables,
that what is drafted beyond the tables is for the account of its schedule and
for a day that has come, and that the account and the user are still active
(`DraftFollows`), since all others wait for the reservation. A new claim means
no entry in the draft has that occurrence, by `ClaimsMatchLedger` of the draft.
Then `ExactlyOnce`, `ClaimsAreEntries` and `PostingIsAllowed` follow.
`OrphansAreOld` needs only `TypeOK` and the guards of adding, updating and
deactivating. `NoneIsSkipped` and `PromiseIsKept` need more of the draft
(`BatchInv`): what the writer has drafted for a schedule are the dates one
stride after another from the date in the row up to where it stands, all of
them due. A commit that moves the schedule's date to that place has then posted
every date before it, and is a step of `OccurrencePromise`.

`ReconciliationProofs`. `ReconciliationInv` is the conjunction of the three
invariants with `TypeOK`; each needs the others. A ledger step leaves locked
entries and the statements alone (`LedgerStep`), and the sum of a statement
depends only on itself and its entries (`SameCleared`). A statement step changes
one statement that is not completed. `Create` needs the chain (the new statement
goes after the latest, which is completed because there is no draft), `Cancel`
removes the last link, and both need that nothing is cleared by a statement that
does not exist. `StatementsStayBalanced`, `EvidenceHolds`, `ChainHolds` and
`CompletionIsFinal` follow. `BookIsKept`, that statements implement
`AccountBook`, needs one fact more (`BookInv`): an account with a completed
statement has a last one. What the book carries forward is then the closing
balance of that one, or nothing, so a statement that completes opens with what
the book has and closes with that and what it settles: a `Settle`. A step of the
ledger replaces one row at most, which no completed statement has settled: an
`Edit`. A draft is nothing to the book.

`CredentialsProofs`. `SessionsAreCurrent` is not inductive: nothing in it says
that the password a waiting sign-in has proved is the one of the version it
read. `CredentialsInv` adds `RequestsRemember`: a request's version is at most
the user's, and while they are equal, so are the password, the settings and
`active`. It holds because whatever changes credentials counts the version up
(`Renewed`), and that ends the user's sessions in the same step. `NoStaleSession`
and `NoUnprovedChange` follow, and so does the refinement `SignInIsKept`: a
login's write is a `SignIn`, a renewal a `Renew`, and all else signs out, perhaps
nobody. `LimitsAreKept` counts: a session or code is made only where `Room` is
left, and every other step leaves a subset of what was outstanding.

`EntriesProofs`. That the history replays to the row must hold of the committed
tables and of the draft of an open transaction, each pair on its own; then a
commit and a rollback keep it, and so does every trigger, which appends to the
history the change that it sees. Imports hold for any rows and any two ways of
making keys of them, `Folded` and `Stored`; what was posted before is a
duplicate where the two agree on it (`Repeats`). While a batch is being posted,
what it has posted is what it picked, in the order of its file, and the next row
it posts was fresh to the table before the batch began and to what the batch
itself has posted (`CsvInv`); a failure takes all of it back. The dates of
schedules need no more than a bound on the day (`DatesInv`): a step is compared
with a table of the days before each month. The desktop program keeps its books
because of what a file says of itself: what it holds of a schedule is before the
next date that the same file has for that schedule, once a day (`DbOk`). It
holds of the file and of its backup alike, so a restore takes back entries and
dates together, and what a program has read to catch up with is what the file
still says (`Reads`). `DesktopActs` needs that the window lists what the file
has, but for the cents that an upgrade adds behind its back (`Lists`). What the
pages show adds up for any ledger, any days and any lengths of months and spans.
`ReportInv` says that each answer of a request is what its query tells of the
ledger for the day in which the request began: true because the ledger rests
until the request ends, and midnight, which does not wait, changes no answer.
The rest is about the sets that the queries sum: two periods, the days of a
chart, the months of a report, the categories of expenses and the accounts of
entries are parts of one set (`Ranges`, `ChartIs`, `MonthParts`, `SharesAre`,
`EntriesOfAll`), and a transfer is in one account's sum of what came and in
another's of what went (`TransfersCancel`). Of the months' categories a report
has a largest part, any one of those that are (`Listings`, `Trends`): amounts
are positive, so a part is never more than all (`PartOfSum`). That a sum is the
sum of its parts' (`SumOfParts`) is proved for the fold of the library from the
fact that finite sets have no endless descent into subsets (`Descent`): the
library's induction has an operator as a parameter, but a set of sets does as
well.

`AccessProofs`. A counter's row is related to the attempts it let through by
four facts: it counts them (`Counts`), it does not begin after them (`Before`),
what was let through earlier is past the window (`LongBefore`), and it is within
its limit (`Bounded`); and the time an attempt took is at most `MaxWait` old
(`Recent`). A window's worth of attempts is then split by at most one new row.
The second part is about names. `NamesHold` is not inductive: an insert comes
after the lookups that allow it. `IdentityInv` adds what a request may rely on
at each stage: while it holds the writer, that the names it looked up are still
free or still its own; and that a password it has proved is the user's as long
as the user's version is the one it read. It also says that the owner exists
wherever a setting names one, which the attempt to prove the owner's start
brought up.

`OperationsProofs`. Whoever is between taking and releasing the lock is its holder,
and while he writes answer and time, the old time is still too old for anybody
to read the answer. Hence probes are spaced, and what is read in two steps is
either the old pair or refused. Of the worker, `WorkInv` says that the watcher's
next look is at most `WatchEvery` away, that a pass of which nobody has been
told is no older than what is left of that beyond the limit (`UntoldIsRecent`),
and that the record's due time is the loop's own while it rests
(`RestIsRecorded`). A stall is then told in time, and a delay is none.
Of the pool, `PoolInv` says that a connection is idle, given back or one
request's (`Apart`), and that what is left of a request can be run to its end by
somebody who has a connection, or has none, as it does (`Runs`, `Planned`): it
takes only when it has none, and locks, commits and gives back only what it has.
A failure, a lost connection and a time out replace the rest by leaving the
context managers, which can be run as well. Who waits in a line has that
step before it (`Lined`). A transaction, and a place at a lock, then belongs to
a connection that somebody works with (`Clean`), and the one thing that may
outlast a request, the short time limit, is taken back by the reset.

`StorageProofs`. While a transfer has the source's writer, what it read is what
is there: its backup is among the backups and its snapshot is the source. The
draft it made of the target is the snapshot's, with a sequence no less than any
id the source ever gave.
An upgrade of PostgreSQL (`PgInv`) has the lock, has read what is committed, and
has in its draft whole versions and at most one begun, so that a commit records
only what is there. A database file (`DiskInv`, `SoundInv`) holds, with its log,
what was committed last, or is being replaced by somebody who kept it; while
the disk does no damage it is what is expected. An upgrade of SQLite (`LiteInv`) has
no single transaction. Where a process stands in its program, a sequence of
begins, checks, writes and commits, tells what its view of the database holds,
and the view is the draft if the process has the writer and the committed
database otherwise; since version 4 it begins before it checks. It holds from
any first version. `AllOrNothing` follows from it for databases of version 3 or
later; for older ones it is false (`MigrationsStuck`).

`PagesProofs`. There is one budget per owner and category, ids are unique, and
what a request found was of its own user. That no budget is lost but to another
request (`OnlyOthersTake`) needs an account of everything that was granted
(`AllAccounted`): it is there, or some request of the user has taken it since.
Of the page of statements, `PageIsTrue` says nothing of the handlers on their
way. `PageInv` adds that only the one that started last matters and that whoever
writes or turns a page is that one (`OneIsLast`, `Blocked`); what it has asked
for belongs to the account selected (`Asked`), and what it has been told is
still what the server has (`Answers`), since the server changes only by a write
and a write locks the page. What is shown is then the server's, unless a write
was done and is not yet heard of, or its failure is being looked into
(`Shows`).

Only model-checked: liveness (`DueIsHandled`, `UpgradeEnds`, `DamageIsCured`,
`ServerGoesOn`, `Answered`), which is out of this prover's reach, and with it the
fairness of the passes in `Operations`, though `ProcessingInv` is proved whole. Every
invariant and every safety property that the passing runs check is proved.


## Not modelled

See `PROJECT.json` for each component. Money (formatting, rounding and parsing
of amounts) is a pure conversion with tests of its own; amounts are integers
here. Configuration, deployment, benchmarks and the pages besides the statement
view, the CSV dialog and the list of schedules only read, render or pass values
on. Of the desktop program the windows and charts are left out. The wording of
errors and the paging of lists are left out of all models.

Hazards with no property: a schedule that fails on every pass keeps those after
it waiting, which nothing promises otherwise, and the hazards of pages that mix
two ledgers or of two desktop programs on one file, of which nothing is said
either.
