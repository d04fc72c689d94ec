SPECIFICATION FairSpec
CONSTANTS
  Conns = {c1, c2}
  Procs = {p1}
  Reqs = {r1, r2}
  Refs = {s1, s2}
  MaxVersion = 1
  None = None
INVARIANTS PoolIsolation
PROPERTIES EveryRequestEnds
CHECK_DEADLOCK FALSE
