SPECIFICATION Spec
CONSTANTS
  cloud = cloud
  gpu = gpu
  mini = mini
  Backends = {cloud, gpu}
  Threshold = 1
  HalfOpenMaxCalls = 2
  Requests = {r1, r2}
  Targets <- Shipped
  TierOf <- ByKind
  Tiers = 2
  SelfHosted = {gpu}
  Scraped = {gpu}
  Budgeted = {1}
  Limit = 1
  MaxCost = 1
  AlwaysRedact = FALSE
INVARIANT ProbeOutstanding
CHECK_DEADLOCK FALSE
