SPECIFICATION Spec
CONSTANTS
  u = u v = v NoUrl = NoUrl Urls = {u}
  MaxConfigures = 1 MaxEvents = 2 Heavy = {"restart", "socket", "throw", "report"}
  Weight <- Weights
PROPERTIES AlwaysSettles
CHECK_DEADLOCK FALSE
