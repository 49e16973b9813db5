SPECIFICATION FairSpec
CONSTANTS
  None = None
  Requests = {r1, r2, r3}
  NBuckets = 3
  Span = 2
  Offset = 0
  TokensPerWindow = 3
  MaxConcurrent = 2
  ReservationTTL = 60
  Amounts = {1, 2}
  Overrun = 0
  MaxTime = 13
PROPERTY NoOverselling
CHECK_DEADLOCK FALSE
