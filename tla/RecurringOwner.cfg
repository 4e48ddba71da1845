\* One schedule of one user, two processes, an owner who edits while they run.
CONSTANTS
  u1 = u1
  u2 = u2
  main1 = main1
  main2 = main2
  card = card
  w1 = w1
  w2 = w2
  Users = {u1}
  Accounts = {main1, card}
  Owner <- OneUserOwner
  MainAccounts = {main1}
  Schedules = {1}
  Frequencies = {"daily", "weekly"}
  Step <- MCStep
  Workers = {w1, w2}
  Nobody = Nobody
  BatchSize = 2
  ScheduleBatch = 1
  LastDay = 2
  MaxEdits = 2
  MaxFaults = 1
SPECIFICATION Spec
SYMMETRY Symmetry
INVARIANTS ProcessingInv
PROPERTIES NoNewOrphan PostedWhereAllowed NothingSkipped ImplementsPromise
CHECK_DEADLOCK FALSE
