\* Attempts of two sources against one target, and registrations; an owner, two
\* members to be and two requests, the owner's name kept or changed.
CONSTANTS
  Sources = {s1, s2}
  Targets = {t1}
  Requests = {q1, q2}
  Global = all
  SignUps = signups
  SourceLimit = 1
  TargetLimit = 2
  GlobalLimit = 2
  SignUpSourceLimit = 1
  SignUpLimit = 2
  Window = 2
  SignUpWindow = 3
  MaxWait = 1
  LastTime = 3
  MaxAttempts = 4
  Users = {u0, u1, u2}
  Owner = u0
  Usernames = {n1, n2}
  Emails = {e1, e2}
  OwnerNames = {n1, e1}
  Passwords = {p1, p2}
  Nothing = nothing
  MaxVersion = 2
SPECIFICATION MCSpec
SYMMETRY MCSymmetry
INVARIANTS CountersHold NamesHold
PROPERTIES ProfileChangesAreProved
CHECK_DEADLOCK FALSE
