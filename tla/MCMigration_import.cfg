SPECIFICATION Spec
CONSTANTS
  p1 = p1
  p2 = p2
  p3 = p3
  r1 = r1
  r2 = r2
  r3 = r3
  w1 = w1
  w2 = w2
  Person = {p1, p2, p3}
  Request = {r1}
  Password = {w1}
  EmptyPassword = EmptyPassword
  NoPassword = NoPassword
  NoEmail = NoEmail
  PoolPassword <- MCThreePassword
  FromElsewhere = {}
  Pages <- MCTwoAndOne
  DualRead = TRUE
  RecordsFail = TRUE
  MaxRows = 3
  MaxRuns = 3
CHECK_DEADLOCK FALSE
INVARIANT
  CompleteMeansEveryone
PROPERTY
  PasswordsAreKept
