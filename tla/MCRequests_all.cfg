SPECIFICATION MCSpec
CONSTANTS
  e1 = e1
  e2 = e2
  s1 = s1
  s2 = s2
  s3 = s3
  Migrant = {s1, s2, s3}
  Places = 2
  LimiterClock = 6
  Cost = 2
  Burst = 4
  Refill = 1
  GlobalBurst = 10
  GlobalRefill = 3
  Cookie = {c1, c2}
  Header = {h1, h2}
  Value = {v1}
  MaxDeeds = 3
  Env <- MCEnv
  Subject <- MCSubject
  Max = 2
  MaxSubjects = 1
  WindowLength = 2
  Grace = 2
  Lag <- MCLag
  StoreFails = FALSE
  MaxClock = 5
SYMMETRY MCSymmetry
CHECK_DEADLOCK FALSE
INVARIANTS
  BudgetHolds
  RefusalsAreEarned
  OutageIsBounded
  CrossesTheFront
PROPERTY
  ImplementsBuckets
