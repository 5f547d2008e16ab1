SPECIFICATION Spec
CONSTANTS
  a = a  b = b  c = c  d1 = d1  d2 = d2
  call1 = call1  call2 = call2  again = again  button = button  online = online
  Ops = {a, b, c}
  Dnas = {d1, d2}
  DnaOf <- TwoDnas
  DnaOrder <- Order2
  Jobs = {call1, call2, online}
  KindOf <- CallsOnline
  OpsOf <- TwoDnasOps
  Invocations = {1}
  MaxRetries = 1
  MaxCrashes = 0
  MaxFaults = 0
\* With SPECIFICATION ReconnectingSpec, EveryDnaRetried and QueuedIsAttempted are
\* violated here, too.
INVARIANT PublishedReached
CHECK_DEADLOCK FALSE
