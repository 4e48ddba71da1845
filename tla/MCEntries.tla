----------------------------- MODULE MCEntries -----------------------------
(***************************************************************************)
(* How entries come to be, change and are added up: the history kept of    *)
(* them, the CSV import, the calendar of schedules, the desktop program    *)
(* and the reports.  They share no variable, so one part runs and the      *)
(* others rest in an initial state of theirs.                              *)
(***************************************************************************)
EXTENDS Audit, Integers, TLC

CONSTANTS t1, c1, c2, a1, a2, q1, absent,
          lower, upper, other, x1, x2, b1, b2, d1, m1, m2, p1, s1, none, bad, torn,
          Rows, Keys, Folded, Stored, Holders, AccountOf, Files, Batches, Dialogs, Calls,
          MaxEntries, MaxSends, MaxEdits,                            \* CsvImport
          FirstYear, LastStart, LastYear,                            \* Calendar
          Schedules, Amounts, AmountOf, MaxId, LastDay,              \* Desktop
          Numbers, Moves, Cents, Category, Listed, Trended, Opening, \* Reports
          DaysPerMonth, Spans

VARIABLES
  part,
  ledger, receipt, listed, work, call, dialog, sends, edits, told,   \* CsvImport
  frequency, date, desktop, shortest,                                \* Calendar
  file, backup, prog, today,                                         \* Desktop
  txs, moves, usable, day, query                              \* Reports

csv == <<ledger, receipt, listed, work, call, dialog, sends, edits, told>>
calendar == <<frequency, date, desktop, shortest>>
program == <<file, backup, prog, today>>
reports == <<txs, moves, usable, day, query>>

-----------------------------------------------------------------------------
(* Lower and upper case of one row, alike to Python but not to SQLite (the *)
(* letter is none of ASCII); and a row of another account.                 *)
MCFolded == (lower :> "x") @@ (upper :> "x") @@ (other :> "y")
MCStored == (lower :> "x") @@ (upper :> "X") @@ (other :> "y")
MCAccountOf == (lower :> x1) @@ (upper :> x1) @@ (other :> x2)
MCFiles == {<<lower, upper, other>>, <<upper>>}

Import == INSTANCE CsvImport WITH Accounts <- Holders, None <- none, active <- listed

Dates == INSTANCE Calendar

(* One desktop program.                                                    *)
MCAmountOf == s1 :> 1
Program == INSTANCE Desktop WITH Programs <- {p1}, None <- none, Bad <- bad, Torn <- torn

(* Amounts are powers of a number that is larger than the number of times  *)
(* one can be counted, but for the third entry, which ties with the second.*)
(* The run has two transactions, one and a transfer, or, for what a report *)
(* lists and follows, three expenses of one account.                       *)
MCCents == <<9, 3, 3, 27>>
MCCategory == [i \in 1..3 |-> "c" \o ToString(i)]
MCOpening == (x1 :> 1000) @@ (x2 :> -5000)

Report == INSTANCE Reports WITH
  Entries <- Numbers, Transfers <- Moves, Accounts <- Holders, Main <- x1, None <- none,
  active <- usable, today <- day, req <- query
NoTransfer == moves = [i \in Moves |-> none]
TwoTransactions == NoTransfer /\ txs[3] = none
OneTransaction == \A i \in Numbers \ {1} : txs[i] = none
Expenses ==
  /\ NoTransfer
  /\ \A i \in Numbers : txs[i] # none => txs[i].account = x1 /\ txs[i].kind = "expense"

ASSUME ImportAssumption == Import!CsvAssumption /\ Import!NoneAssumption
ASSUME DatesAssumption == Dates!YearsAssumption
ASSUME ProgramAssumption ==
  Program!BoundsAssumption /\ Program!SchedulesAssumption /\ Program!MarksAssumption
ASSUME ReportsAssumption ==
  /\ Report!SetsAssumption /\ Report!AmountsAssumption
  /\ Report!MainAssumption /\ Report!DaysAssumption

MCSymmetry == Permutations({b1, b2}) \cup Permutations({m1, m2})

-----------------------------------------------------------------------------
FirstDate == frequency = "daily" /\ date = [y |-> FirstYear, m |-> 1, d |-> 1]
NoReports == day = 1 /\ txs = [i \in Numbers |-> none] /\ NoTransfer

MCInit ==
  /\ part \in {"audit", "csv", "calendar", "program", "spent", "moved", "shared"}
  /\ Init /\ Import!Init /\ Program!Init
  /\ part = "calendar" \/ FirstDate
  /\ Dates!Init
  /\ part \in {"spent", "moved", "shared"} \/ NoReports
  /\ Report!Init
  /\ CASE part = "moved" -> OneTransaction [] part = "shared" -> Expenses [] OTHER -> TwoTransactions

MCNext ==
  /\ UNCHANGED part
  /\ \/ part = "audit" /\ Next /\ UNCHANGED <<csv, calendar, program, reports>>
     \/ part = "csv" /\ Import!Next /\ UNCHANGED <<vars, calendar, program, reports>>
     \/ part = "calendar" /\ Dates!Step /\ UNCHANGED <<vars, csv, program, reports>>
     \/ part = "program" /\ Program!Next /\ UNCHANGED <<vars, csv, calendar, reports>>
     \/ part = "spent" /\ Report!Next /\ TwoTransactions' /\ UNCHANGED <<vars, csv, calendar, program>>
     \/ part = "shared" /\ Report!Next /\ Expenses' /\ UNCHANGED <<vars, csv, calendar, program>>
     \/ part = "moved" /\ Report!Next /\ OneTransaction' /\ UNCHANGED <<vars, csv, calendar, program>>

MCSpec == MCInit /\ [][MCNext]_<<part, vars, csv, calendar, program, reports>>

-----------------------------------------------------------------------------
(* Properties of the parts (those of Audit by their own names).            *)

(* An import is posted once and for all: as many rows as its receipt says, *)
(* which whoever is told of finds, and no answer is of other rows (commit). *)
ImportsAreSafe ==
  [](Import!BatchPostedOnce /\ Import!ToldIsPosted) /\ Import!AnswersAreOfTheseRows

(* No import posts a row that a live entry or another row of it equals, as *)
(* long as the database folds the entry as Python does; without this       *)
(* proviso, which the documentation does not make, it is not so (_rows).   *)
NoDuplicateImported == Import!NoDuplicateImported
LikelyDuplicatesSkipped == Import!LikelyDuplicatesSkipped

(* A schedule goes on: forward by the days of its frequency, with no month *)
(* left out, clamped to a short month for good, and with the same dates in *)
(* the desktop program (calculate_next_date, add_months).                  *)
DatesGoOn ==
  [](Dates!ClampedForGood /\ Dates!ProgramsAgree) /\ Dates!MovesForward /\ Dates!NoneLeftOut

(* The desktop program posts no occurrence twice, restores no file that    *)
(* fails the integrity check, and keeps amounts and cents in step once the *)
(* database is upgraded (process_recurring_transactions, restore_backup).  *)
DesktopKeepsBooks ==
  Program!PostedOnce /\ Program!NothingBadRestored /\ Program!MoneyAgrees

(* What is edited or deleted by its id is the entry listed under it, and   *)
(* once upgraded, entries are lost only to a restored backup.              *)
ActsOnWhatIsListed == Program!ActsOnWhatIsListed /\ Program!EntriesStay

(* What the pages show adds up, also for a request that midnight           *)
(* overtakes: accounts to the balance, the chart to the cards, periods and *)
(* months to each other, categories to expenses as far as they are listed, *)
(* none larger is left out; what was deleted counts nowhere (get_report).  *)
PagesAddUp ==
  /\ Report!AccountsAddUp /\ Report!ChartMeetsCards /\ Report!PeriodsMeet
  /\ Report!MonthsChain /\ Report!CategoriesAddUp /\ Report!DeletedCountsNowhere
=============================================================================
