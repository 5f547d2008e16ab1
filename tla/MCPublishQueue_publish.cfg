SPECIFICATION Spec
CONSTANTS
  a = a  b = b  c = c  d1 = d1  d2 = d2
  call1 = call1  call2 = call2  again = again  button = button  online = online
  Ops = {a, b}
  Dnas = {d1}
  DnaOf <- OneDna
  DnaOrder <- Order1
  Jobs = {call1, again, online}
  KindOf <- CallAgainOnline
  OpsOf <- CallAgainOnlineOps
  Invocations = {1, 2}
  MaxRetries = 2
  MaxCrashes = 1
  MaxFaults = 1
INVARIANTS InFlightExclusive AttemptsBounded
PROPERTIES KeptUntilAccepted
CHECK_DEADLOCK FALSE
