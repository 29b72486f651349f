CONSTANTS
  NoReq = NoReq
  Req = {r1, r2, r3}
  Watched = {r1}
  IdSpace = 2
SPECIFICATION Spec
SYMMETRY Symmetry
INVARIANTS
  TypeOK
  NoLostWakeup
  VisibleIsRegistered
  NoCrossTalk
  StreamHasWriter
  NoFalseAbort
  NoPendingLeak
PROPERTY ImplementsRequestReply
