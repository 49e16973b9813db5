SPECIFICATION FairSpec
CONSTANTS
  t1 = t1
  t2 = t2
  s1 = s1
  Tenants = {t1, t2}
  Sessions = {s1}
  Values = {a}
  Requests = {r1, r2}
  Objects = {o1, o2, o3}
  NShards = 2
  ShardOf <- SecondShard
  MaxPerShard = 1
  TTL = 1
  None = None
INVARIANTS IInv TenantIsolation EraseUnregisters
PROPERTIES RegisteredReadable OnlyExpiredEvicted ExpiredCollected
CHECK_DEADLOCK FALSE
