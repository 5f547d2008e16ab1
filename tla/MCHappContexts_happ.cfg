SPECIFICATION Spec
CONSTANTS
  p1 = p1  p2 = p2  d1 = d1  d2 = d2  Nil = Nil
  Procs = {p1, p2}
  Domains = {d1, d2}
  Tags <- Pages
  MaxInstalls = 3
  Scenarios <- All
SYMMETRY Symmetry
INVARIANTS AllCachesAgree InTurnRecoveryKeepsWrites InTurnGenesisFirst InTurnInstalledHasKey
PROPERTIES ContextsStay
CHECK_DEADLOCK FALSE
