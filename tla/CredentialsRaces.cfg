\* One member beside the owner, requests on old checks, no clock.
CONSTANTS
  owner = owner
  ann = ann
  w1 = w1
  w2 = w2
  s1 = s1
  s2 = s2
  p1 = p1
  p2 = p2
  q1 = q1
  q2 = q2
  k1 = k1
  k2 = k2
  k3 = k3
  d1 = d1
  d2 = d2
  Users = {owner, ann}
  Owner = owner
  Passwords = {w1, w2}
  NoPassword = NoPassword
  Configs = {}
  Configured <- MCConfigured
  NoConfig = NoConfig
  Processes = {p1}
  Requests = {q1, q2}
  Tokens = {k1, k2}
  NoToken = NoToken
  Codes = {d1, d2}
  NoCode = NoCode
  SessionLimit = 1
  CodeLimit = 1
  SessionTime = 1
  IdleTime = 1
  TouchAfter = 1
  CodeTime = 1
  LastTime = 0
  MaxVersion = 2
SPECIFICATION Spec
SYMMETRY Symmetry
INVARIANTS SessionsAreCurrent LimitsHold
PROPERTIES PasswordChangesAreProved
CHECK_DEADLOCK FALSE
