\* Two stale leases, one of an agent with on_failure = stop.
CONSTANTS
  PlanAgents <- Pipeline
  DynamicAgents <- NoAgents
  Managers <- NoAgents
  NamedAfter <- NoFunction
  Deps <- PipelineDeps
  OnFailure <- PipelineOnFailure
  RetryCount <- PipelineRetryCount
  ManagerCap <- NoFunction
  ConcurrencyLimit = 2
  MaxCost = 0
  OnExceed = "warn"
  BreakerThreshold = 0
  BreakerAction = "notify_only"
  Costs = {0}
  MaxInFlight = 2
  CallersMayDie = FALSE
SPECIFICATION Spec
PROPERTY
  StopTerminalizes
\* A run that has ended takes no more steps.
CHECK_DEADLOCK FALSE
