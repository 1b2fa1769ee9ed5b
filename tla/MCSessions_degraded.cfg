SPECIFICATION FairSpec
CONSTANTS
  s1 = s1
  h1 = h1
  h2 = h2
  h3 = h3
  r1 = r1
  r2 = r2
  r3 = r3
  NoSession = NoSession
  NoHash = NoHash
  Sid <- MCSid
  Life = 1
  Grace = 1
  MaxClock = 3
  Hash <- MCHash
  Request <- MCRequest2
  Scoped <- MCNoRequest
CHECK_DEADLOCK FALSE
PROPERTY
  ReplayEndsTheFamily
