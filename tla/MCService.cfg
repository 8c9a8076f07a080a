\* Worker and API start together on an empty database, then serve next to rollbacks.
SPECIFICATION ServiceSpec
CHECK_DEADLOCK FALSE
CONSTANTS
  worker = worker
  api = api
  s1 = s1
  p1 = p1
  i1 = i1
  n1 = n1
  Services = {worker, api}
  Releases <- MCReleases
  CurrentSchema <- MCCurrentSchema
  Environments <- MCEnvironments
  DeploymentStatus = "live"
  ZeroAddress = zeroAddress
  Events <- MCEvents
  Requests <- MCRequests
  Filters <- MCFilters
  PageLimit = 1
  PlainSources = {"plain"}
  NotGiven = notGiven
  MaxLogs = 4
INVARIANTS
  SchemaIsWhatIsRecorded
  StartsUnlessItMust
  WalksAreExact
  AnswersCohere
  InternalErrorsHaveACause
PROPERTIES
  EveryStartSettles
