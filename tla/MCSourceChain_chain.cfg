SPECIFICATION Spec
CONSTANTS
  p = p  m = m  r = r  t1 = t1  t2 = t2  g1 = g1
  Cells = {p, m, r}
  Calls = {t1, t2}
  Geneses = {g1}
  CellOf <- CallsAndGenesis
  RecoverCells = {r}
  RepublishCells = {r}
  Past = Past  NoHash = NoHash  NoHead = NoHead  NoCall = NoCall
  MaxWrites = 2
  MaxPosts = 1
  MaxPast = 0
  MaxCrashes = 1
SYMMETRY Symmetry
INVARIANTS SerialTransactions ChainWellFormed HandedOnChain CallAtomic
PROPERTIES ImplementsLog
CHECK_DEADLOCK FALSE
