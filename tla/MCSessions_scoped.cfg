SPECIFICATION Spec
CONSTANTS
  s1 = s1
  h1 = h1
  h2 = h2
  h3 = h3
  r1 = r1
  r2 = r2
  r3 = r3
  NoSession = NoSession
  NoHash = NoHash
  Sid <- MCSid
  Life = 1
  Grace = 1
  MaxClock = 3
  Hash <- MCHash
  Request <- MCRequest
  Scoped <- MCRequest
SYMMETRY MCSymmetry
CHECK_DEADLOCK FALSE
INVARIANTS
  OneWinnerPerToken
  CurrentTokenResolves
  ReuseIsAnswered
  FamilyDiesOnlyForReuse
  LogoutSticks
PROPERTIES
  RevocationIsFinal
  ImplementsFamily
