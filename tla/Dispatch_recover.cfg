\* A worker, an operator, a failure of Redis, a crash, an agent with a retry.
CONSTANTS
  PlanAgents <- Solo
  DynamicAgents <- NoAgents
  Managers <- NoAgents
  NamedAfter <- NoFunction
  Deps <- SoloDeps
  OnFailure <- SoloOnFailure
  RetryCount <- SoloRetryCount
  ManagerCap <- NoFunction
  ConcurrencyLimit = 0
  MaxCost = 0
  OnExceed = "warn"
  BreakerThreshold = 0
  BreakerAction = "notify_only"
  Costs = {0}
  MaxInFlight = 3
  CallersMayDie = TRUE
  Workers = {"w1"}
  Operators = {"op"}
  Clients = {}
  Submitter = "submitter"
  Rank <- SoloRank
  Reports <- OneReport
  MaxRows = 9
  MaxHints = 1
  MaxFailures = 1
  MaxCrashes = 1
SPECIFICATION FairDispatchSpec
INVARIANT DispatchTypeOK
PROPERTIES RecordedWakeupIsDelivered EveryAgentEnds
