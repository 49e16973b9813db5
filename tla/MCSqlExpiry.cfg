SPECIFICATION Spec
CONSTANTS
  Tenants = {t1}
  Namespaces = {phone}
  Values = {a}
  Tokens = {k1, k2}
  Callers = {c1}
  Erasable = {t1}
  TTL = 1
  MaxTime = 3
  None = None
INVARIANT FailsOnlyExcused
CHECK_DEADLOCK FALSE
