CONSTANTS
  NoReq = NoReq
  Req = {r1, r2}
  Watched = {r1}
  IdSpace = 1
SPECIFICATION FairSpec
PROPERTIES
  EveryRequestEnds
  SubscriptionResolves
