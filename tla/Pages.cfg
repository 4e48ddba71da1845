\* Three clients of two users, two categories, two budgets, two months; a page of
\* two accounts with two statements, or with one of two pages.
CONSTANTS
  p1 = p1
  p2 = p2
  q = q
  P = P
  Q = Q
  Clients = {p1, p2, q}
  Owner <- MCOwner
  Categories = {food, rent}
  MaxId = 2
  LastMonth = 2
  Accounts = {a1, a2}
  Pages = 1
  Slots = 2
  None = None
SPECIFICATION MCSpec
SYMMETRY MCSymmetry
INVARIANTS LostOnlyToOthers PageIsTrue
PROPERTIES BudgetsAreKept
CHECK_DEADLOCK FALSE
