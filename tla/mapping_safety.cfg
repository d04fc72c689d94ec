CONSTANTS
  Maps = {m1}
  Reqs = {r1, r2}
  Entities = {e1}
  Sources = {s1}
  Tables = {t1}
  None = None
  MaxNumber = 3
  MaxVersion = 8
SPECIFICATION Spec
SYMMETRY Symmetry
INVARIANTS ProductionEvidence
PROPERTIES SuspensionOutlastsVersion
CHECK_DEADLOCK FALSE
