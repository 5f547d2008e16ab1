SPECIFICATION FairSpec
CONSTANTS
  p = p q = q r = r s = s d1 = d1 None = None
  Callers = {p, q, r, s}
  Dnas = {d1}
  DnaOf <- OneDna
  MaxRequests = 2
  Scenarios <- All
INVARIANTS WasmPrecedes ConfigReachesWorker OwnAnswer
PROPERTIES RequestsEnd TokenRecovers
CHECK_DEADLOCK FALSE
