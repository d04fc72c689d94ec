SPECIFICATION Spec
CONSTANTS
  t1 = t1
  t2 = t2
  x1 = x1
  x2 = x2
  Tenants = {t1, t2}
  Conns = {k1, k2}
  Reqs = {r1, r2}
  Objects = {x1, x2}
  Owner <- MCOwner
  None = None
SYMMETRY Symmetry
INVARIANTS TenantIsolation PoliciesAdmit GaugeCurrent WaitsForWorker
