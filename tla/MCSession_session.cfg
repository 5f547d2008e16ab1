SPECIFICATION SessionSpec
CONSTANTS
  Parts = {"access", "local", "join"}
  p1 = p1 p2 = p2 l1 = l1 l2 = l2 o1 = o1 o2 = o2
  Pages = {p1, p2, l1, l2} Origins = {o1, o2} OriginOf <- Own Local = {o2}
  MaxConnects = 1 MaxRetries = 1 MaxRestarts = 1
  c1 = c1 c2 = c2 c3 = c3
  Order <- ListOrder Signed = {c1} GroupOf <- Alternatives NoGroup = NoGroup MaxRuns = 3
INVARIANTS OneWayAGroup
PROPERTIES DenialStands CallsAnswered AdmittedBeforeInstall
CHECK_DEADLOCK FALSE
