\* A transaction updated while accounts are deactivated; two CSV calls of two
\* batches; schedules from every date of 2095 and 2096 past the 29th of February
\* that 2100 has not; one desktop program, one schedule, two entries; reports
\* of two transactions and a transfer among two accounts, or of three expenses
\* of which a report lists two and follows one.
CONSTANTS
  t1 = t1
  c1 = c1
  c2 = c2
  a1 = a1
  a2 = a2
  q1 = q1
  absent = absent
  lower = lower
  upper = upper
  other = other
  x1 = x1
  x2 = x2
  b1 = b1
  b2 = b2
  d1 = d1
  m1 = m1
  m2 = m2
  p1 = p1
  s1 = s1
  none = none
  bad = bad
  torn = torn
  Rows = {lower, upper, other}
  Keys = {"x", "X", "y"}
  Folded <- MCFolded
  Stored <- MCStored
  Holders = {x1, x2}
  AccountOf <- MCAccountOf
  Files <- MCFiles
  Batches = {b1, b2}
  Dialogs = {d1}
  Calls = {m1, m2}
  MaxEntries = 3
  MaxSends = 3
  MaxEdits = 1
  FirstYear = 2095
  LastStart = 2096
  LastYear = 2101
  Schedules = {s1}
  Amounts = {1, 2}
  AmountOf <- MCAmountOf
  MaxId = 2
  LastDay = 3
  Numbers = {1, 2, 3}
  Moves = {4}
  Cents <- MCCents
  Category <- MCCategory
  Listed = 2
  Trended = 1
  Opening <- MCOpening
  DaysPerMonth = 2
  Spans = {2}
  Transactions = {t1}
  Contents = {c1, c2}
  Accounts = {a1, a2}
  Requests = {q1}
  Absent = absent
  MaxHistory = 4
SPECIFICATION MCSpec
SYMMETRY MCSymmetry
INVARIANTS DesktopKeepsBooks PagesAddUp
PROPERTIES HistoryIsTrue ImportsAreSafe NoDuplicateImported DatesGoOn ActsOnWhatIsListed
CHECK_DEADLOCK FALSE
