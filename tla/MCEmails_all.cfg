SPECIFICATION Spec
CONSTANTS
  u1 = u1
  u2 = u2
  u3 = u3
  e1 = e1
  e2 = e2
  e3 = e3
  t1 = t1
  t2 = t2
  c1 = c1
  c2 = c2
  d1 = d1
  d2 = d2
  NoUser = NoUser
  NoEmail = NoEmail
  NoToken = NoToken
  User = {u1, u2, u3}
  Email = {e1, e2, e3}
  Token = {t1, t2}
  Confirmation = {c1, c2}
  Deletion = {d1, d2}
  Target <- MCTarget
  Changeable = {u1, u2, u3}
SYMMETRY MCSymmetry
CHECK_DEADLOCK FALSE
INVARIANTS
  NoAddressHeldInVain
PROPERTY
  ImplementsDirectory
