SPECIFICATION Spec
CONSTANTS
  p1 = p1  p2 = p2  t1 = t1  t2 = t2  NoTag = NoTag
  Procs = {p1, p2}
  Tags = {t1, t2}
  MaxKeys = 1
  MaxAttempts = 2
  Scenarios <- AfterRestart
SYMMETRY Symmetry
INVARIANTS ReadsTrue
CHECK_DEADLOCK FALSE
