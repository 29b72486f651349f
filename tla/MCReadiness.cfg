CONSTANTS
  Conn = {c1, c2, c3}
  Inject = {i}
  MaxConnections = 2
  PreDelay = TRUE
  Check = {k1, k2}
  Tick = {t1, t2}
  MaxManual = 2
  NoCheck = NoCheck
SPECIFICATION MCSpec
INVARIANTS
  ConnectionCap
  DrainComplete
  NothingCutBeforeDeadline
  ReadyMeansListening
PROPERTIES
  CloseResolves
  ReadinessFollowsCheck
