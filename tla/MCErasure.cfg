SPECIFICATION ErasureSpec
CONSTANTS
  Tenants = {t1, t2}
  Namespaces = {phone}
  Values = {a}
  Tokens = {k1, k2, k3}
  Callers = {c1, c2}
  Erasable = {t1}
  TTL = 1
  MaxTime = 2
  None = None
  Sessions = {chat}
  NCallers = 2
  MaxCalls = 3
INVARIANTS IInv Converge StreamsApart
PROPERTIES IssuedResolves ImplementsContract
CHECK_DEADLOCK FALSE
