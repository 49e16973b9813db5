SPECIFICATION Spec
CONSTANTS
  cloud = cloud
  gpu = gpu
  mini = mini
  Backends = {gpu, mini}
  Threshold = 1
  HalfOpenMaxCalls = 2
  Requests = {r1, r2}
  Targets <- Mixed
  TierOf <- ByKind
  Tiers = 2
  SelfHosted = {gpu}
  Scraped = {gpu}
  Budgeted = {1}
  Limit = 1
  MaxCost = 1
  AlwaysRedact = FALSE
INVARIANT ClearStaysHome
CHECK_DEADLOCK FALSE
