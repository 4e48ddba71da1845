\* Two callers of the probe; a worker; two and three requests for connections;
\* two schedules and two workers that process them.
CONSTANTS
  r1 = r1
  r2 = r2
  r3 = r3
  d1 = d1
  none = none
  Requests = {r1, r2, r3}
  Conns = {d1, d2}
  Breakable = {}
  MaxWaiting = 1
  Threads = 2
  Kinds = {"write", "register", "pass"}
  NoOne = none
  Callers = {c1, c2}
  CacheSeconds = 2
  Interval = 2
  MaxBackoff = 6
  StaleAfter = 3
  WatchEvery = 1
  Threshold = 3
  Late = 1
  MaxFailures = 3
SPECIFICATION MCSpec
INVARIANTS HealthIsTold
PROPERTIES ReadyIsTrue ConnectionsAreClean ServerGoesOn Answered DueIsHandled
CHECK_DEADLOCK FALSE
