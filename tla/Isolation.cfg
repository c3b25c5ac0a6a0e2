\* Two workers and an operator on an agent that needs two others, one at a time.
CONSTANTS
  Agents <- Join
  Deps <- JoinDeps
  ConcurrencyLimit = 1
  Workers = {"w1", "w2"}
  Operators = {"operator"}
  MaxOperations = 1
SPECIFICATION IsolationSpec
INVARIANT
  IsolationTypeOK
  OvershootIsBounded
  NoForgottenDependent
PROPERTY
  SupersededNeverCompletes
  EndedAttemptsStay
  EveryTransactionEnds
\* A run that has ended takes no more steps.
CHECK_DEADLOCK FALSE
