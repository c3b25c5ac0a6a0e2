\* Two workers on one host, one agent with a retry, worktrees cleaned.
CONSTANTS
  PlanAgents <- Solo
  DynamicAgents <- NoAgents
  Managers <- NoAgents
  NamedAfter <- NoFunction
  Deps <- SoloDeps
  OnFailure <- SoloOnFailure
  RetryCount <- SoloRetryCount
  ManagerCap <- NoFunction
  ConcurrencyLimit = 0
  MaxCost = 0
  OnExceed = "warn"
  BreakerThreshold = 0
  BreakerAction = "notify_only"
  Costs = {0}
  MaxInFlight = 1
  CallersMayDie = FALSE
  Workers = {"w1", "w2"}
  HostOf <- SharedHost
  HasSetup = TRUE
  CleanupWorktree = TRUE
  MaxFaults = 1
SPECIFICATION FairWorkerSpec
INVARIANT
  WorkerTypeOK
  CompletionIsEarned
  ReportedAttemptIsClosed
PROPERTY
  
  UnwantedRuntimeStops
\* A run that has ended takes no more steps.
CHECK_DEADLOCK FALSE
