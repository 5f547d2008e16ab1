SPECIFICATION Spec
CONSTANTS
  u = u v = v NoUrl = NoUrl Urls = {u}
  MaxConfigures = 1 MaxEvents = 2 Heavy = {}
  Weight <- Weights
PROPERTIES SettlesWithLinker
CHECK_DEADLOCK FALSE
