SPECIFICATION MCSpec
CONSTANTS
  Parts = {"calls", "queue", "button", "loss", "auth", "user"}
  agent1 = agent1  agent2 = agent2  None = None
  Agents = {agent1, agent2}
  Allowed = {agent1}
  AuthRequired = FALSE
  MaxSockets = 4
  MaxLosses = 3
  MaxUser = 3
  UserOps = {"disconnect"}
  SignFails = FALSE
  cell = cell  t1 = t1  t2 = t2
  Past = Past  NoHash = NoHash  NoHead = NoHead  NoCall = NoCall
  o1 = o1  o2 = o2  dna = dna  call = call  button = button  online = online
INVARIANTS SocketTruthful
PROPERTIES CallsEnd QueueServed RegisteredInTheEnd OthersTried
CHECK_DEADLOCK FALSE
