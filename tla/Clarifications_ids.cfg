\* The same, and whether what a manager is shown is of use to it.
CONSTANTS
  Calls = {"c1", "c2"}
  AgentOf <- MCAgentOf
  Managers <- MCManagers
  Timeout = 2
  PollEvery = 1
  MaxEvents = 3
  MaxAnswers = 2
  MaxTime = 4
SPECIFICATION ClarificationSpec
INVARIANT
  ListedCanBeAnswered
CHECK_DEADLOCK FALSE
