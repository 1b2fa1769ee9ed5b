SPECIFICATION MCSpec
CONSTANTS
  u1 = u1
  h1 = h1
  h2 = h2
  h3 = h3
  r1 = r1
  r2 = r2
  NoUser = NoUser
  NoHash = NoHash
  HasPointer = TRUE
  ConsumeOnRead = TRUE
  User <- MCUser
  Hash <- MCHash
  Request <- MCRequest
  code = code
  token = token
  stash = stash
  Key <- MCKey
  Kind <- MCKind
  Lifetimes <- MCLifetimes
  ItemClock = 3
  MaxSaves = 2
  Life = 2
  MaxClock = 2
  MaxIssues = 2
SYMMETRY MCSymmetry
CHECK_DEADLOCK FALSE
INVARIANTS
  RedeemedAtMostOnce
  StaleLinksNeverWin
  LinksResolve
  ServedOnce
  LosersHaveAWinner
PROPERTIES
  ImplementsOneTime
  ItemsImplementOneTime
