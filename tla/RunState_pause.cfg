\* A chain that joins an independent agent; budget and breaker pause the run; one at a time.
CONSTANTS
  PlanAgents <- Chain
  DynamicAgents <- NoAgents
  Managers <- NoAgents
  NamedAfter <- NoFunction
  Deps <- ChainDeps
  OnFailure <- ChainOnFailure
  RetryCount <- ChainRetryCount
  ManagerCap <- NoFunction
  ConcurrencyLimit = 1
  MaxCost = 1
  OnExceed = "pause"
  BreakerThreshold = 2
  BreakerAction = "pause"
  Costs = {0, 2}
  MaxInFlight = 2
  CallersMayDie = FALSE
SPECIFICATION Spec
INVARIANTS
  TypeOK
  RetryBudgetBoundsAttempts
  DependenciesCompletedFirst
  PendingWaitsForADependency
  ConcurrencyLimitHolds
  RunVerdictCoversPlan
  
PROPERTIES
  FinishedAttemptsImmutable
  FailureEndsTheWaits
\* A run that has ended takes no more steps.
CHECK_DEADLOCK FALSE
