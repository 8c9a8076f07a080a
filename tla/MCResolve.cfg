\* Three submissions at most, one more to be over the limit.
SPECIFICATION ResolveSpec
CHECK_DEADLOCK FALSE
CONSTANTS
  s1 = s1
  p1 = p1
  p2 = p2
  p3 = p3
  Addresses = {s1, p1, p2, p3}
  ZeroAddress = zeroAddress
  Unreadable = unreadable
  MAX_PROVIDERS = 3
  Inputs <- MCInputs
INVARIANTS
  ResolveTypeOK
  LeaderIsBestSoFar
  ResultIsBestOutcome
  IneligibleSubmissionsDoNotMatter
