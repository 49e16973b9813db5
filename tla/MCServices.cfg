SPECIFICATION ServicesSpec
CONSTANTS
  None = None
  Half = Half
  Requests = {r1, r2, r3}
  NBuckets = 3
  Span = 2
  Offset = 0
  TokensPerWindow = 3
  MaxConcurrent = 2
  ReservationTTL = 7
  Amounts = {1, 2}
  Overrun = 1
  MaxTime = 13
  Handlers = {r1, r2}
  Polls = 1
  MaxSpent = 2
  MaxRuns = 2
  PreemptionWindow = 2
  MaxSecond = 4
  MaxCount = 3
  HeaderOf <- HeaderKinds
  Copied = {"Auth", "Version"}
  Policies <- Stated
  SecretTTL = 2
  MaxDay = 4
  MaxVersion = 2
  MaxCpus = 3
  MaxPeriods = 4
  RingNodes <- RingOrder
  Globs <- SomeGlobs
  Configs <- SomeConfigs
  Headers <- SomeHeaders
  a = a
  b = b
  Members = {a, b}
INVARIANTS IInv Balance BudgetKept Spread ReadingsBacked
PROPERTIES QuotaKept Freed Stops
CHECK_DEADLOCK FALSE
