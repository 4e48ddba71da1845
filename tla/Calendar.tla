------------------------------- MODULE Calendar -------------------------------
(***************************************************************************)
(* The dates of a schedule: domain/recurrence.py, and the desktop          *)
(* program's copy of it in legacy_desktop.py, which continue the same      *)
(* database.  A schedule is stepped from any date by both.                 *)
(***************************************************************************)
EXTENDS Integers, Sequences

CONSTANTS FirstYear, LastStart, LastYear   \* bounds: schedules start in the years
                                           \* FirstYear..LastStart and go on to LastYear

(* What is assumed of the constants.                                       *)
YearsAssumption == FirstYear \in Nat /\ LastStart \in Nat /\ LastYear \in Nat
                   /\ 0 < FirstYear /\ FirstYear <= LastStart /\ LastStart < LastYear

VARIABLES
  frequency,
  date,         \* next_date as recurrence.py steps it
  desktop,      \* and as the desktop program does
  shortest      \* the start's day, or the shortest month passed since (not in the code)

vars == <<frequency, date, desktop, shortest>>

-----------------------------------------------------------------------------
(* The library's calendar.                                                 *)
Leap(y) == y % 4 = 0 /\ (y % 100 # 0 \/ y % 400 = 0)
Length(y, m) ==
  CASE m = 2 -> IF Leap(y) THEN 29 ELSE 28
    [] m \in {4, 6, 9, 11} -> 30
    [] OTHER -> 31
Dates(years) == {v \in [y : years, m : 1..12, d : 1..31] : v.d <= Length(v.y, v.m)}
LessOf(a, b) == IF a < b THEN a ELSE b
Date(y, m, d) == [y |-> y, m |-> m, d |-> d]

(* date + timedelta(n), n at most the shortest month.                      *)
AddDays(v, n) ==
  LET over == v.d + n - Length(v.y, v.m)
  IN CASE over <= 0 -> Date(v.y, v.m, v.d + n)
       [] over > 0 /\ v.m < 12 -> Date(v.y, v.m + 1, over)
       [] over > 0 /\ v.m = 12 -> Date(v.y + 1, 1, over)

-----------------------------------------------------------------------------
(* Variants: the index not made to start at zero; a month as thirty days;  *)
(* the day taken at the length of the month that is left.                  *)
add_monthsFromOne(v, n) ==
  LET year == v.y + (v.m + n) \div 12  month == ((v.m + n) % 12) + 1
  IN Date(year, month, LessOf(v.d, Length(year, month)))
add_monthsAsDays(v, n) == AddDays(v, 28)
add_monthsLastDay(v, n) ==
  LET year == v.y + (v.m - 1 + n) \div 12  month == ((v.m - 1 + n) % 12) + 1
  IN Date(year, month, IF v.d = Length(v.y, v.m) THEN Length(year, month)
                           ELSE LessOf(v.d, Length(year, month)))
add_months(v, n) ==
  LET index == v.m - 1 + n
      year == v.y + index \div 12
      month == (index % 12) + 1
  IN Date(year, month, LessOf(v.d, Length(year, month)))

Replaced(v) == v.d <= Length(v.y + 1, v.m)        \* no ValueError

calculate_next_date(f, v) ==
  CASE f = "daily" -> AddDays(v, 1)
    [] f = "weekly" -> AddDays(v, 7)
    [] f = "monthly" -> add_months(v, 1)
    [] f = "yearly" /\ Replaced(v) -> Date(v.y + 1, v.m, v.d)
    [] f = "yearly" /\ ~Replaced(v) -> Date(v.y + 1, v.m, 28)

YearlyIntoMarch(v) ==                             \* variant: 29 February to 1 March
  IF Replaced(v) THEN Date(v.y + 1, v.m, v.d) ELSE Date(v.y + 1, 3, 1)
DesktopYearly(v) == Date(v.y + 1, v.m, LessOf(v.d, Length(v.y + 1, v.m)))
DesktopNext(f, v) ==
  CASE f = "daily" -> AddDays(v, 1)
    [] f = "weekly" -> AddDays(v, 7)
    [] f = "monthly" -> add_months(v, 1)
    [] f = "yearly" -> DesktopYearly(v)

-----------------------------------------------------------------------------
Frequencies == {"daily", "weekly", "monthly", "yearly"}

Init ==
  /\ frequency \in Frequencies
  /\ date \in Dates(FirstYear..LastStart)
  /\ desktop = date /\ shortest = date.d

Step ==
  /\ date.y < LastYear /\ desktop.y < LastYear
  /\ date' = calculate_next_date(frequency, date)
  /\ desktop' = DesktopNext(frequency, desktop)
  /\ shortest' = IF frequency \in {"monthly", "yearly"}
                 THEN LessOf(shortest, Length(date'.y, date'.m)) ELSE date'.d
  /\ UNCHANGED frequency

Spec == Init /\ [][Step]_vars

-----------------------------------------------------------------------------
(* Day numbers, by the table of the calendar and not by the code's steps.  *)
DaysBefore == <<0, 31, 59, 90, 120, 151, 181, 212, 243, 273, 304, 334>>
Ordinal(v) ==
  LET y == v.y - 1
  IN 365 * y + y \div 4 - y \div 100 + y \div 400 + v.d
     + DaysBefore[v.m] + IF v.m > 2 /\ Leap(v.y) THEN 1 ELSE 0

Gaps == [daily |-> {1}, weekly |-> {7}, monthly |-> 28..31, yearly |-> {365, 366}]

(* A step of calculate_next_date goes forward, and by as many days as its  *)
(* frequency may: what Recurring takes for granted of its Step.            *)
MovesForward == [][Ordinal(date') - Ordinal(date) \in Gaps[frequency]]_vars

(* A monthly schedule has one occurrence in each month and a yearly one in *)
(* the same month of each year, clamped or not.                            *)
NoneLeftOut ==
  [][ /\ frequency = "monthly" => 12 * date'.y + date'.m = 12 * date.y + date.m + 1
      /\ frequency = "yearly" => date'.y = date.y + 1 /\ date'.m = date.m ]_vars

(* The clamped day is what the schedule goes on with: it is the start's,   *)
(* or the length of the shortest month passed, and never comes back.       *)
ClampedForGood == date.d = shortest

(* Both programs continue the same rows, with the same dates.              *)
ProgramsAgree == desktop = date
=============================================================================
