SPECIFICATION Spec
CONSTANTS
  Creds = {c1}
  Tenants = {t1, t2}
  Reqs = {r1, r2}
  Ips = {i1, i2}
  None = None
  ScopeSets = {{"prediction:execute"}, {"prediction:execute", "service_credential:manage"}}
  Expiries = {2}
  TTL = 1
  Leeway = 1
  Window = 2
  MaxPerClient = 2
  MaxPerIp = 1
  MaxClock = 3
  MaxTokens = 2
SYMMETRY Symmetry
INVARIANTS BlastRadius RateBound
PROPERTIES RevocationFinal
CHECK_DEADLOCK FALSE
