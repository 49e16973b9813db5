SPECIFICATION EitherSpec
CONSTANTS
  Tenants = {t1, t2}
  Values = {a}
  c1 = c1
  c2 = c2
  v1 = v1
  v2 = v2
  e1 = e1
  Callers = {c1, c2}
  Versions = {v1, v2}
  Epochs = {e1}
  VersionOf <- Rotated
  EpochOf <- OneEpoch
  TTL = 3
  Slack = 1
  SecondTicks = 2
  MaxTime = 6
  Erasable = {t1}
  NoRecord = NoRecord
  Tokens = {k1, k2, k3}
  MemoryTTL = 1
  MemoryMaxTime = 3
  None = None
INVARIANTS TablesKept RetentionBound RotationOpens
PROPERTIES IssuedResolves ImplementsContract MemoryImplementsContract
SYMMETRY Symmetry
CHECK_DEADLOCK FALSE
