CONSTANTS
  None = None
  Chains <- MCChains
  MaxCalls = 2
  Cuts <- MCCuts
  HandshakeTimeout = TRUE
  Scenarios <- MCScenarios
  MaxListens = 2
SPECIFICATION MCSpec
INVARIANTS
  HandlerOnce
  ResponseIsLatched
  NoEmptyFailure
  PrefixIsExact
  GuardsRun
  AllowIsHonest
  GrantedIsReadable
PROPERTIES
  AfterHooksRun
  TimedRequestEnds
