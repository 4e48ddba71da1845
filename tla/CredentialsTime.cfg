\* The owner alone, restarted with other settings: sessions refreshed, expired and idle.
CONSTANTS
  owner = owner
  ann = ann
  w1 = w1
  w2 = w2
  s1 = s1
  s2 = s2
  p1 = p1
  p2 = p2
  q1 = q1
  q2 = q2
  k1 = k1
  k2 = k2
  k3 = k3
  d1 = d1
  d2 = d2
  Users = {owner}
  Owner = owner
  Passwords = {w1, w2}
  NoPassword = NoPassword
  Configs = {s1, s2}
  Configured <- MCConfigured
  NoConfig = NoConfig
  Processes = {p1}
  Requests = {q1, q2}
  Tokens = {k1, k2}
  NoToken = NoToken
  Codes = {}
  NoCode = NoCode
  SessionLimit = 2
  CodeLimit = 1
  SessionTime = 3
  IdleTime = 2
  TouchAfter = 1
  CodeTime = 1
  LastTime = 3
  MaxVersion = 3
SPECIFICATION Spec
SYMMETRY Symmetry
PROPERTIES RefreshIsHarmless KeepsPromise
CHECK_DEADLOCK FALSE
