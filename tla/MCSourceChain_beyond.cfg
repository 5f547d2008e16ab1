SPECIFICATION Spec
CONSTANTS
  p = p  m = m  r = r  t1 = t1  t2 = t2  g1 = g1
  Cells = {p, m}
  Calls = {t1, t2}
  Geneses = {g1}
  CellOf <- CallsAndGenesis
  RecoverCells = {}
  RepublishCells = {p}
  Past = Past  NoHash = NoHash  NoHead = NoHead  NoCall = NoCall
  MaxWrites = 1
  MaxPosts = 1
  MaxPast = 1
  MaxCrashes = 0
INVARIANTS GenesisHonest RepublishedStored
CHECK_DEADLOCK FALSE
