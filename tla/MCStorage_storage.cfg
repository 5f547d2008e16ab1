SPECIFICATION MCSpec
CONSTANTS
  None = None  A = A  B = B  Author = Author
  dna = dna key = key c1 = c1 c2 = c2 u = u d = d l = l x = x bdna = bdna bc = bc
  e1 = e1 e2 = e2 ek = ek
  Cells = {A, B}
  Acts = {dna, key, c1, c2, u, d, l, x, bdna, bc}
  Entries = {e1, e2, ek}
  About <- MCAbout
  Genesis <- MCGenesis
  Zomes <- MCZomes
  NoWasm = {}
  MaxCalls = 2
  MaxFailures = 1
  MaxRollbacks = 1
  MaxReloads = 1
  Parts = {"cached", "ops"}
INVARIANTS SameAnswers AuthorityAgrees OpsValidated RecoveryRestores
PROPERTIES ImplementsRows
CHECK_DEADLOCK FALSE
