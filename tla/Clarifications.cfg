\* Two calls that ask and two managers that answer.
CONSTANTS
  Calls = {"c1", "c2"}
  AgentOf <- MCAgentOf
  Managers <- MCManagers
  Timeout = 2
  PollEvery = 1
  MaxEvents = 3
  MaxAnswers = 2
  MaxTime = 4
SPECIFICATION ClarificationSpec
INVARIANT
  ClarificationTypeOK
  AnswersAreToTheQuestion
PROPERTY
  AnsweredStaysAnswered
  NoAnswerIsOverlooked
  EveryCallReturns
\* When the clock has stopped nobody has to ask.
CHECK_DEADLOCK FALSE
