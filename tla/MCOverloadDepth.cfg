CONSTANTS
  Req = {r1, r2, p}
  Probes = {p}
  MaxConcurrent = 1
  MaxQueue = 1
  ShedAfter = 1
  MaxNow = 2
SPECIFICATION Spec
INVARIANT QueuedIsDepth
