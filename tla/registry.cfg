CONSTANTS
  Models = {m1}
  Adapters = {a1}
  AliasIds = {k1}
  Tenants = {t1, t2}
  Contracts = {c1, c2}
  Sessions = {s1, s2}
  Shared = Shared
  None = None
  MaxVersion = 2
SPECIFICATION Spec
SYMMETRY Symmetry
INVARIANTS TrailLeadsToStage AliasWithinTenant
CHECK_DEADLOCK FALSE
