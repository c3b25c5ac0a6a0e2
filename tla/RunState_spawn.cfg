\* A manager spawns workers while its run goes on; budget and breaker cancel the run.
CONSTANTS
  PlanAgents <- Managed
  DynamicAgents <- Spawned
  Managers <- Managed
  NamedAfter <- ManagedNames
  Deps <- ManagedDeps
  OnFailure <- ManagedOnFailure
  RetryCount <- ManagedRetryCount
  ManagerCap <- ManagedCap
  ConcurrencyLimit = 2
  MaxCost = 1
  OnExceed = "cancel"
  BreakerThreshold = 2
  BreakerAction = "cancel_all"
  Costs = {0, 2}
  MaxInFlight = 1
  CallersMayDie = TRUE
SPECIFICATION Spec
INVARIANTS
  LeaseOwnership
PROPERTIES
  BudgetStopsTheRun
  CancelledPlanStays
  ImplementsContract
\* A run that has ended takes no more steps.
CHECK_DEADLOCK FALSE
