SPECIFICATION Spec
CONSTANTS
  p1 = p1
  p2 = p2
  p3 = p3
  r1 = r1
  r2 = r2
  r3 = r3
  w1 = w1
  w2 = w2
  Person = {p1, p2}
  Request = {r1, r2}
  Password = {w1, w2}
  EmptyPassword = EmptyPassword
  NoPassword = NoPassword
  NoEmail = NoEmail
  PoolPassword <- MCPoolPassword
  FromElsewhere = {p2}
  Pages <- MCPages
  DualRead = TRUE
  RecordsFail = FALSE
  MaxRows = 3
  MaxRuns = 1
SYMMETRY MCSymmetry
CHECK_DEADLOCK FALSE
INVARIANTS
  RightPasswordGetsIn
  WrongPasswordStaysOut
  PoolHearsOnlyOfItsOwn
