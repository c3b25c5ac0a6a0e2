\* A chain that joins an independent agent; no breaker; budget pauses the run; one at a time.
CONSTANTS
  PlanAgents <- Chain
  DynamicAgents <- NoAgents
  Managers <- NoAgents
  NamedAfter <- NoFunction
  Deps <- ChainDeps
  OnFailure <- ChainOnFailure
  RetryCount <- ChainRetryCount
  ManagerCap <- NoFunction
  ConcurrencyLimit = 1
  MaxCost = 1
  OnExceed = "pause"
  BreakerThreshold = 0
  BreakerAction = "pause"
  Costs = {0, 2}
  MaxInFlight = 1
  CallersMayDie = FALSE
SPECIFICATION Spec
INVARIANTS
  NobodyWaitsForAFailure
CHECK_DEADLOCK FALSE
