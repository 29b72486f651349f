CONSTANTS
  Req = {r1, r2, r3, p}
  Probes = {p}
  MaxConcurrent = 1
  MaxQueue = 1
  ShedAfter = 1
  MaxNow = 2
SPECIFICATION FairSpec
INVARIANTS
  LimiterAccounts
  NoStrandedWaiter
PROPERTIES
  ShedNeedsStreak
  QueueDrains
