\* A submitter, two schedulers with two schedules, and a request.
CONSTANTS
  Plans = {"chain", "cycle"}
  AgentsOf <- MCAgentsOf
  Payloads <- MCPayloads
  Requests <- MCRequests
  Contents <- MCContents
  Changes <- MCChanges
  Templates = {"t1", "t2"}
  Schedules = {"s1", "s2"}
  RunIds = {"nightly"}
  Interval <- MCInterval
  Submitters = {"submitter"}
  Schedulers = {"q1", "q2"}
  Handlers = {"handler"}
  Templates0 <- MCTemplates0
  Schedules0 <- MCSchedules0
  MaxEvents = 2
  MaxTime = 1
SPECIFICATION SubmissionSpec
INVARIANT
  SubmissionTypeOK
  RunsCanFinish
  MessagesAreDecidedOnce
  
PROPERTY
  HealthySubmissionBecomesARun
  DueScheduleIsServed
\* Nothing more is due when the clock has stopped.
CHECK_DEADLOCK FALSE
