SPECIFICATION Spec
CONSTANTS
  p1 = p1  p2 = p2  d1 = d1  d2 = d2  Nil = Nil
  Procs = {p1, p2}
  Domains = {d1, d2}
  Tags <- Pages
  MaxInstalls = 1
  Scenarios <- Unanswered
SYMMETRY Symmetry
\* With Scenarios <- Beyond, OnlyStaleDeleted, DisabledStays and UninstalledStaysGone
\* are violated.
INVARIANTS RecoveryKeepsWrites
CHECK_DEADLOCK FALSE
