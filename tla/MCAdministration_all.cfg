SPECIFICATION MCSpec
CONSTANTS
  w1 = w1
  w2 = w2
  w3 = w3
  f1 = f1
  f2 = f2
  f3 = f3
  u1 = u1
  u2 = u2
  d1 = d1
  d2 = d2
  m1 = m1
  p1 = p1
  nobody = nobody
  always = always
  NoWriter = nobody
  Writer = {w1, w2, w3}
  Field = {f1, f2, f3}
  Patch <- MCPatch
  Family = "upserted"
  MaxAttempts = 2
  MaxFields = 2
  Stamps = {1, 3}
  StoreFails = TRUE
  PatientAttempts = 3
  User = {u1, u2}
  Permission = {p1}
  Deleter = {d1, d2}
  MaxHolders = 1
  MaxDefinitions = 2
  Item = {1, 2, 3}
  Merger = {m1}
  Clearer = {d1}
  MaxRead = 2
  Listed = {1, 2, 3}
  WalkLimit = 2
  MaxBatch = 2
  MaxWindow = 4
  EventId = {1, 2}
  DayLength = 2
  Retention = 3
  MaxDays = 2
  MaxResults = 2
  PageSize = 1
  Limits = {0, 1}
  Matches <- MCMatches
  MaxTime = 4
  MaxEvents = 2
  Text <- MCText
  Word = {"y", "z"}
  MultiTenant = FALSE
  MaxItems = 2
CHECK_DEADLOCK FALSE
INVARIANTS
  FitsTheItem
  PatientNeverConflict
  DeletionLeavesOnlyTheMissed
  ReadsMissNothing
PROPERTIES
  DocumentsArePatched
