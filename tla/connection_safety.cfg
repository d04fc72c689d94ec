SPECIFICATION Spec
CONSTANTS
  Conns = {c1}
  Procs = {p1, p2}
  Reqs = {r1, r2}
  Refs = {s1, s2, s3}
  MaxVersion = 3
  None = None
SYMMETRY Symmetry
INVARIANTS SupersededSecretErased
PROPERTIES DisableNotOverwritten AtomicOperations
CHECK_DEADLOCK FALSE
