SPECIFICATION Spec
CONSTANTS
  p1 = p1  p2 = p2  t1 = t1  t2 = t2  NoTag = NoTag
  Procs = {p1, p2}
  Tags = {t1, t2}
  MaxKeys = 2
  MaxAttempts = 2
  Scenarios <- Beyond
SYMMETRY Symmetry
PROPERTIES SeedsStable
\* SeedsReadable is violated here, too.
CHECK_DEADLOCK FALSE
