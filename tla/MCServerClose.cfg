CONSTANTS
  None = None
  Servers = {s1}
  Schemas = {s1}
  Meddlers = {}
  Listens = {l1}
  Injects = {}
  Home = s1
  Pinned = {}
  Resident = {}
  MaxSignals = 0
SPECIFICATION Spec
INVARIANT CloseIsFinal
