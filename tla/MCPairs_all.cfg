SPECIFICATION MCSpec
CONSTANTS
  i1 = i1
  i2 = i2
  i3 = i3
  p1 = p1
  p2 = p2
  c1 = c1
  c2 = c2
  c3 = c3
  x1 = x1
  x2 = x2
  x3 = x3
  u1 = u1
  u2 = u2
  a1 = a1
  d1 = d1
  s1 = s1
  NoLink = NoLink
  NoUser = NoUser
  NoAccount = NoAccount
  Link = {x1, x2, x3}
  User = {u1, u2}
  Account = {a1}
  Saver = {c1, c2, c3}
  Deleter = {d1}
  Sweeper = {s1}
  Target <- MCTarget
  MaxAttempts = 2
  Id = {i1, i2, i3}
  NoId = NoId
  Prefix = {p1, p2}
  NoPrefix = NoPrefix
  PrefixOf <- MCPrefixOf
  Caller = {c1, c2, c3}
  Throttle = 1
  MaxClock = 2
SYMMETRY MCSymmetry
CHECK_DEADLOCK FALSE
INVARIANTS
  KeysAreRevocable
  RevocationIsFinal
  BindingsArePairs
PROPERTIES
  UnboundByItsOwnDelete
