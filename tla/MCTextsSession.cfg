SPECIFICATION TextSpec
CONSTANTS
  t1 = t1
  s1 = s1
  Tenants = {t1}
  Sessions = {s1}
  Values = {a, b}
  Requests = {r1, r2}
  Objects = {o1, o2, o3}
  NShards = 1
  ShardOf <- OneShard
  MaxPerShard = 1
  TTL = 1
  None = None
INVARIANT StableInSession
CHECK_DEADLOCK FALSE
