\* Two trainers at one revision: the second meets the files of the first, while
\* it runs or after it was killed.
SPECIFICATION Spec
CONSTANTS
  Procs = {p1, p2}
  Revisions = {r1}
  Scores = {0, 1}
  None = None
CHECK_DEADLOCK FALSE
INVARIANTS TypeOK OwnWork ArtifactsMatch OnlyWinnersServe
PROPERTY Completes
