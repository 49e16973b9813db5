SPECIFICATION FairSpec
CONSTANTS
  cloud = cloud
  gpu = gpu
  mini = mini
  Backends = {cloud, gpu}
  Threshold = 2
  HalfOpenMaxCalls = 2
  Requests = {r1, r2}
  Targets <- Shipped
  TierOf <- ByKind
  Tiers = 2
  SelfHosted = {gpu}
  Scraped = {gpu}
  Budgeted = {1}
  Limit = 1
  MaxCost = 1
  AlwaysRedact = FALSE
INVARIANTS IInv ClearStaysHome BudgetOvershoot
PROPERTY Finishes
CHECK_DEADLOCK FALSE
