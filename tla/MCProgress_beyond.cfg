SPECIFICATION MCSpec
CONSTANTS
  Parts = {"loss", "auth", "user"}
  cell = cell  t1 = t1  t2 = t2
  Past = Past  NoHash = NoHash  NoHead = NoHead  NoCall = NoCall
  o1 = o1  o2 = o2  dna = dna  call = call  button = button  online = online
  agent1 = agent1  agent2 = agent2  None = None
  Agents = {agent1}
  Allowed = {agent1}
  AuthRequired = TRUE
  MaxSockets = 3
  MaxLosses = 1
  MaxUser = 2
  UserOps = {}
  SignFails = FALSE
INVARIANTS SingleSocket RegisteredKnown
PROPERTIES ResentInTheEnd
CHECK_DEADLOCK FALSE
