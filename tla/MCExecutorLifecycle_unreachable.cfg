SPECIFICATION Spec
CONSTANTS
  p = p q = q r = r s = s d1 = d1 None = None
  Callers = {p, q, r, s}
  Dnas = {d1}
  DnaOf <- OneDna
  MaxRequests = 2
  Scenarios <- JustBlocking
INVARIANT ServerErrorOnly
CHECK_DEADLOCK FALSE
