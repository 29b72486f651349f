CONSTANTS
  None = None
  Servers = {s1, s2}
  Schemas = {s1}
  Meddlers = {s1}
  Listens = {l1}
  Injects = {i1, i2}
  Home = s1
  Pinned = {l1, i1}
  Resident = {s2}
  MaxSignals = 1
SPECIFICATION MCSpec
INVARIANTS
  BridgeReachesServer
  CloseIsComplete
  ExitAfterDrain
PROPERTY CallsSettle
