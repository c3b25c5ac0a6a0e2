---------------------------- MODULE Worker_proofs ----------------------------
(***************************************************************************)
(* Theorems about Worker, for every plan, policy and number of workers.    *)
(*                                                                         *)
(* First, the rows change as RunState says, so that the theorems about     *)
(* RunState hold of deployed workers.  Then what the ledger says of an     *)
(* attempt is true, and the race between a renewal and the reaper is won   *)
(* by the renewal.  All rest on JobOK, what a worker may assume of the     *)
(* job it holds whatever the other workers do.                             *)
(***************************************************************************)
EXTENDS Worker, RunState_proofs

-----------------------------------------------------------------------------
(* Which transactions make an attempt completed or failed. *)

\* The status of attempt i of agent a is o after this step, and was not.
Becomes(a, i, o) ==
  /\ i \in DOMAIN attempts'[a]
  /\ attempts'[a][i] = o
  /\ ~(i \in DOMAIN attempts[a] /\ attempts[a][i] = o)

\* This step reports nothing, or the outcome o of attempt j of agent b.
ReportsNothing ==
  \A a \in Agents, i \in Nat, o \in {"completed", "failed"} : ~Becomes(a, i, o)
ReportsOnly(b, j, o) ==
  \A a \in Agents, i \in Nat, p \in {"completed", "failed"} :
    Becomes(a, i, p) => a = b /\ i = j /\ p = o

\* No attempt disappears.
AttemptsStay == \A a \in Agents : DOMAIN attempts[a] \subseteq DOMAIN attempts'[a]

LEMMA StepKeepsAttempts ==
  ASSUME IInv, [Next]_vars
  PROVE  AttemptsStay
<1>1. CASE \A a \in Agents : RowStep(a)
  BY <1>1 DEF RowStep, LeaseStep, AttemptsStay
<1>2. ASSUME NEW m \in Managers, NEW d \in DynamicAgents, SpawnWorkerAgent(m, d)
      PROVE  AttemptsStay
  BY <1>2 DEF SpawnWorkerAgent, AttemptsStay
<1>3. ASSUME NEW a \in Agents, ClaimAgent(a)
      PROVE  AttemptsStay
  <2> SUFFICES ASSUME NEW b \in Agents
               PROVE  DOMAIN attempts[b] \subseteq DOMAIN attempts'[b]
    BY DEF AttemptsStay
  <2>1. attempts'[b] = IF b = a THEN Append(attempts[a], "running") ELSE attempts[b]
    BY <1>3 DEF ClaimAgent, IInv, TypeOK
  <2>2. attempts[a] \in Seq(AttemptStatuses) /\ "running" \in AttemptStatuses
    BY RowFacts DEF AttemptStatuses
  <2> QED
    BY <2>1, <2>2
<1> QED
  BY <1>1, <1>2, <1>3, StepKinds

\* A claim adds a running attempt and touches no other.
LEMMA ClaimAppends ==
  ASSUME IInv, NEW a \in Agents, ClaimAgent(a)
  PROVE  /\ Len(attempts'[a]) = Len(attempts[a]) + 1
         /\ Len(attempts'[a]) \in DOMAIN attempts'[a]
         /\ Len(attempts'[a]) \notin DOMAIN attempts[a]
         /\ \A b \in Agents : \A i \in DOMAIN attempts'[b] :
              \/ b = a /\ i = Len(attempts'[a]) /\ attempts'[b][i] = "running"
              \/ i \in DOMAIN attempts[b] /\ attempts'[b][i] = attempts[b][i]
<1>1. /\ attempts[a] \in Seq(AttemptStatuses)
      /\ Len(attempts[a]) \in Nat
      /\ DOMAIN attempts[a] = 1..Len(attempts[a])
      /\ "running" \in AttemptStatuses
  BY RowFacts DEF AttemptStatuses
<1>2. \A b \in Agents :
        attempts'[b] = IF b = a THEN Append(attempts[a], "running") ELSE attempts[b]
  BY DEF ClaimAgent, IInv, TypeOK
<1>3. /\ Len(attempts'[a]) = Len(attempts[a]) + 1
      /\ DOMAIN attempts'[a] = 1..(Len(attempts[a]) + 1)
      /\ \A i \in DOMAIN attempts'[a] :
           attempts'[a][i] = IF i = Len(attempts[a]) + 1 THEN "running" ELSE attempts[a][i]
  <2>1. /\ Append(attempts[a], "running") \in Seq(AttemptStatuses)
        /\ Len(Append(attempts[a], "running")) = Len(attempts[a]) + 1
        /\ \A i \in 1..Len(attempts[a]) : Append(attempts[a], "running")[i] = attempts[a][i]
        /\ Append(attempts[a], "running")[Len(attempts[a]) + 1] = "running"
    BY <1>1, AppendProperties
  <2>2. DOMAIN Append(attempts[a], "running") = 1..(Len(attempts[a]) + 1)
    BY <2>1, LenProperties
  <2>3. attempts'[a] = Append(attempts[a], "running")
    BY <1>2
  <2> QED
    BY <1>1, <2>1, <2>2, <2>3
<1> QED
  BY <1>1, <1>2, <1>3

\* The running attempts of some rows get one outcome, and those of others
\* may be cancelled after that.
EndsReport(first, outcome) ==
  \/ attempts' = Finished(attempts, first, outcome)
  \/ \E rows : attempts' = Finished(Finished(attempts, first, outcome), rows, "cancelled")

\* Then the attempts of the first become that, or cancelled.
LEMMA EndsReported ==
  ASSUME IInv, NEW first, NEW outcome \in AttemptStatuses, EndsReport(first, outcome)
  PROVE  \A a \in Agents : \A i \in DOMAIN attempts'[a] :
           /\ i \in DOMAIN attempts[a]
           /\ \/ attempts'[a][i] \in {attempts[a][i], "cancelled"}
              \/ a \in first /\ attempts[a][i] = "running" /\ attempts'[a][i] = outcome
<1> DEFINE once == Finished(attempts, first, outcome)
           twice(rows) == Finished(once, rows, "cancelled")
<1>1. attempts \in AttemptsColumn /\ "cancelled" \in AttemptStatuses
  BY DEF IInv, TypeOK, AttemptsColumn, AttemptStatuses
<1>2. /\ once \in AttemptsColumn
      /\ \A a \in Agents :
           /\ DOMAIN once[a] = DOMAIN attempts[a]
           /\ \A i \in DOMAIN attempts[a] :
                once[a][i] = IF a \in first /\ attempts[a][i] = "running"
                             THEN outcome ELSE attempts[a][i]
  BY <1>1, FinishedColumn
<1> HIDE DEF once
<1>3. \A rows : \A a \in Agents :
        /\ DOMAIN twice(rows)[a] = DOMAIN once[a]
        /\ \A i \in DOMAIN once[a] :
             twice(rows)[a][i] = IF a \in rows /\ once[a][i] = "running"
                           THEN "cancelled" ELSE once[a][i]
  BY <1>1, <1>2, FinishedColumn
<1>4. attempts' = once \/ \E rows : attempts' = twice(rows)
  BY DEF once, EndsReport
<1> HIDE DEF twice
<1> QED
  BY <1>2, <1>3, <1>4

\* complete_agent reports the attempt that owns the agent.
LEMMA CompleteReports ==
  ASSUME IInv, NEW a \in Agents, NEW i, NEW c, CompleteAgent(a, i, c)
  PROVE  ReportsOnly(a, i, "completed")
<1>1. "completed" \in AttemptStatuses
  BY DEF AttemptStatuses
<1>2. EndsReport({a}, "completed")
  BY DEF EndsReport, CompleteAgent
<1>3. \A j \in DOMAIN attempts[a] : attempts[a][j] = "running" => j = i
  BY DEF CompleteAgent, Owns, IInv, LeaseOwnership
<1>4. ASSUME NEW b \in Agents, NEW j \in Nat, NEW p \in {"completed", "failed"},
             Becomes(b, j, p)
      PROVE  b = a /\ j = i /\ p = "completed"
  <2>1. b \in {a} /\ p = "completed" /\ j \in DOMAIN attempts[b] /\ attempts[b][j] = "running"
    BY <1>1, <1>2, <1>4, EndsReported DEF Becomes
  <2> QED
    BY <1>3, <2>1
<1> QED
  BY <1>4 DEF ReportsOnly

\* fail_agent reports the attempt that owns the agent.
LEMMA FailReports ==
  ASSUME IInv, NEW a \in Agents, NEW i, NEW terminal, NEW retryable,
         FailAgentRetry(a, i) \/ FailAgentFinal(a, i, terminal, retryable)
  PROVE  ReportsOnly(a, i, "failed")
<1>1. "failed" \in AttemptStatuses
  BY DEF AttemptStatuses
<1>2. EndsReport({a}, "failed")
  BY DEF EndsReport, FailAgentRetry, FailAgentFinal
<1>3. \A j \in DOMAIN attempts[a] : attempts[a][j] = "running" => j = i
  BY DEF FailAgentRetry, FailAgentFinal, Owns, IInv, LeaseOwnership
<1>4. ASSUME NEW b \in Agents, NEW j \in Nat, NEW p \in {"completed", "failed"},
             Becomes(b, j, p)
      PROVE  b = a /\ j = i /\ p = "failed"
  <2>1. b \in {a} /\ p = "failed" /\ j \in DOMAIN attempts[b] /\ attempts[b][j] = "running"
    BY <1>1, <1>2, <1>4, EndsReported DEF Becomes
  <2> QED
    BY <1>3, <2>1
<1> QED
  BY <1>4 DEF ReportsOnly

\* An expiry makes attempts expired or cancelled.
LEMMA ExpireReports ==
  ASSUME IInv, NEW a \in Agents, ExpireRow(a)
  PROVE  ReportsNothing
<1>1. "expired" \in AttemptStatuses
  BY DEF AttemptStatuses
<1>2. EndsReport({a}, "expired")
  BY DEF EndsReport, ExpireRow
<1>3. ASSUME NEW b \in Agents, NEW j \in Nat, NEW p \in {"completed", "failed"},
             Becomes(b, j, p)
      PROVE  FALSE
  <2>1. p = "expired"
    BY <1>1, <1>2, <1>3, EndsReported DEF Becomes
  <2> QED
    BY <2>1
<1> QED
  BY <1>3 DEF ReportsNothing

\* cancel_agent and cancel_run make attempts cancelled.
LEMMA CancelReports ==
  ASSUME IInv, (\E a \in Agents : CancelAgent(a)) \/ CancelRun
  PROVE  ReportsNothing
<1>1. "cancelled" \in AttemptStatuses
  BY DEF AttemptStatuses
<1>2. PICK rows : EndsReport(rows, "cancelled")
  BY DEF EndsReport, CancelAgent, CancelRun
<1>3. ASSUME NEW b \in Agents, NEW j \in Nat, NEW p \in {"completed", "failed"},
             Becomes(b, j, p)
      PROVE  FALSE
  <2>1. p = "cancelled"
    BY <1>1, <1>2, <1>3, EndsReported DEF Becomes
  <2> QED
    BY <2>1
<1> QED
  BY <1>3 DEF ReportsNothing

LEMMA SameAttemptsReport ==
  ASSUME UNCHANGED attempts
  PROVE  ReportsNothing
  BY DEF ReportsNothing, Becomes

LEMMA ClaimReports ==
  ASSUME IInv, NEW a \in Agents, ClaimAgent(a)
  PROVE  ReportsNothing
  BY ClaimAppends DEF ReportsNothing, Becomes
-----------------------------------------------------------------------------
(* The job of a worker. *)

Reporting == {"report", "clean", "then report"}
ReportType == [terminal : {"none", "failed", "timeout", "cost_exceeded"},
               retryable : BOOLEAN]
RenewalType == {"none", "asleep", "renewing", "dead"}

JobColumns ==
  /\ stage \in [Workers -> Stages]
  /\ job \in [Workers -> {NoJob} \cup [agent : Agents, attempt : Nat]]
  /\ report \in [Workers -> ReportType]
  /\ renewal \in [Workers -> RenewalType]

\* A worker has the attempt of a job, a report to make, and a renewal task,
\* in the stages that need them.
JobOK(w) ==
  /\ stage[w] = "idle" => job[w] = NoJob
  /\ stage[w] # "idle" => /\ Agent(w) \in Agents
                          /\ AttemptOf(w) \in DOMAIN attempts[Agent(w)]
  /\ IF stage[w] \in Reporting
     THEN <<report[w].terminal, report[w].retryable>> \in FailureReports
     ELSE report[w] = NoReport
  /\ renewal[w] # "none" <=> stage[w] = "executing"

JobsOK == JobColumns /\ \A w \in Workers : JobOK(w)

\* The transactions of RunState, without its clock.
Transaction ==
  \/ \E a \in Agents : ClaimAgent(a) \/ RenewLease(a, lease_token[a]) \/ CancelAgent(a)
  \/ \E a \in Agents : \E i \in DOMAIN attempts[a], c \in Costs : CompleteAgent(a, i, c)
  \/ \E a \in Agents : \E i \in DOMAIN attempts[a] : FailAgentRetry(a, i)
  \/ \E a \in Agents : \E i \in DOMAIN attempts[a], r \in FailureReports :
        FailAgentFinal(a, i, r[1], r[2])
  \/ CancelRun \/ ResumeRun \/ MarkNewlyReadyAgents \/ ExpireStaleLeases
  \/ \E a \in Agents : ExpireRow(a)
  \/ RefreshRunStatus

\* Every step of a worker changes the rows by one of them.
LEMMA StepIsTransaction ==
  ASSUME IInv, JobsOK, [WorkerNext]_workerVars
  PROVE  [Transaction]_vars \/ \E a \in Agents : LeasePasses(a)
<1>1. ASSUME NEW w \in Workers, NEW a \in Agents, Claim(w, a)
      PROVE  Transaction
  BY <1>1 DEF Claim, Transaction
<1>2. ASSUME NEW w \in Workers, JobStep(w)
      PROVE  [Transaction]_vars
  <2> stage[w] # "idle" => Agent(w) \in Agents
    BY DEF JobsOK, JobOK
  <2>1. CASE SetLease(w) \/ SourceUnavailable(w) \/ PrepareWorktree(w) \/ OpenSession(w)
             \/ EndSetup(w) \/ EndCheck(w) \/ DeliverGitWork(w)
             \/ CleanupWorktreeIfConfigured(w)
    BY <2>1 DEF SetLease, SourceUnavailable, PrepareWorktree, OpenSession, EndSetup,
                EndCheck, DeliverGitWork, CleanupWorktreeIfConfigured
  <2>2. CASE CancelExecution(w)
    BY <2>2 DEF CancelExecution, Transaction
  <2>3. CASE Complete(w)
    BY <2>3 DEF Complete, Transaction, Holds, Owns
  <2>4. CASE EnqueueNewlyReadyAgents(w)
    BY <2>4 DEF EnqueueNewlyReadyAgents, Transaction
  <2>5. CASE FailClaimedAgent(w)
    <3>1. <<report[w].terminal, report[w].retryable>> \in FailureReports
      BY <2>5 DEF FailClaimedAgent, JobsOK, JobOK, Reporting
    <3>2. \/ UNCHANGED vars
          \/ Holds(w) /\ FailAgentRetry(Agent(w), AttemptOf(w))
          \/ Holds(w) /\ FailAgentFinal(Agent(w), AttemptOf(w), report[w].terminal,
                                        report[w].retryable)
      BY <2>5 DEF FailClaimedAgent
    <3>3. stage[w] # "idle"
      BY <2>5 DEF FailClaimedAgent
    <3> QED
      BY <3>1, <3>2, <3>3 DEF Transaction, Holds, Owns
  <2> QED
    BY <1>2, <2>1, <2>2, <2>3, <2>4, <2>5 DEF JobStep
<1>3. ASSUME NEW w \in Workers, Renew(w)
      PROVE  [Transaction]_vars
  <2>1. Agent(w) \in Agents
    BY <1>3 DEF Renew, JobsOK, JobOK
  <2>2. \/ UNCHANGED vars
        \/ RowIsMine(w) /\ RenewLease(Agent(w), AttemptOf(w))
    BY <1>3 DEF Renew, RenewRow
  <2> QED
    BY <2>1, <2>2 DEF Transaction, RowIsMine
<1>4. ASSUME NEW w \in Workers,
             EndRuntime(w) \/ RenewalDies(w) \/ Interrupt(w) \/ Crash(w)
      PROVE  UNCHANGED vars
  BY <1>4 DEF EndRuntime, RenewalDies, Interrupt, Crash
<1>5. ASSUME NEW a \in Agents, LeaseKeyExpires(a) \/ CancelWorker(a)
      PROVE  [Transaction]_vars
  BY <1>5 DEF LeaseKeyExpires, CancelWorker, Transaction
<1>6. ASSUME RedisLosesKeys \/ Reap \/ CancelCommand \/ PublishCancel \/ ResumeCommand \/ Refresh
      PROVE  [Transaction]_vars
  BY <1>6 DEF RedisLosesKeys, Reap, CancelCommand, PublishCancel, ResumeCommand, Refresh, Transaction
<1>7. CASE UNCHANGED workerVars
  BY <1>7 DEF workerVars
<1> QED
  BY <1>1, <1>2, <1>3, <1>4, <1>5, <1>6, <1>7 DEF WorkerNext

LEMMA StepObeysRunState ==
  ASSUME IInv, JobsOK, [WorkerNext]_workerVars
  PROVE  [Next]_vars
<1>1. Transaction => Next
  BY DEF Transaction, Next
<1>2. ASSUME NEW a \in Agents, LeasePasses(a)
      PROVE  Next
  BY <1>2 DEF LeasePasses, Next
<1> QED
  BY <1>1, <1>2, StepIsTransaction

\* Nothing changes in the job of a worker.
Same(v) == /\ stage'[v] = stage[v] /\ job'[v] = job[v]
           /\ report'[v] = report[v] /\ renewal'[v] = renewal[v]
Others(w) == \A v \in Workers \ {w} : Same(v)

\* The worker that moves keeps its job or lets go of it.
JobMove(w) ==
  /\ JobColumns'
  /\ JobOK(w)'
  /\ Others(w)
  /\ IF stage'[w] = "idle" THEN job'[w] = NoJob ELSE job'[w] = job[w] /\ stage[w] # "idle"

\* What all moves have in common.
LEMMA MovesInStages ==
  ASSUME JobsOK, AttemptsStay, NEW w \in Workers, stage[w] # "idle",
         NEW s \in Stages \ {"idle"}, GoTo(w, s), job' = job,
         NEW r \in ReportType, report' = [report EXCEPT ![w] = r],
         NEW n \in RenewalType, renewal' = [renewal EXCEPT ![w] = n],
         IF s \in Reporting THEN <<r.terminal, r.retryable>> \in FailureReports
                            ELSE r = NoReport,
         n # "none" <=> s = "executing"
  PROVE  JobMove(w)
  BY DEF JobMove, JobsOK, JobColumns, JobOK, Others, Same, GoTo, AttemptsStay, Agent, AttemptOf

LEMMA LeavingMoves ==
  ASSUME JobsOK, NEW w \in Workers, stage[w] # "idle", Leave(w)
  PROVE  JobMove(w)
<1>1. NoReport \in ReportType /\ "none" \in RenewalType /\ "idle" \in Stages
  BY DEF NoReport, ReportType, RenewalType, Stages
<1>2. JobColumns'
  BY <1>1 DEF Leave, GoTo, JobsOK, JobColumns
<1>3. stage'[w] = "idle" /\ job'[w] = NoJob /\ report'[w] = NoReport /\ renewal'[w] = "none"
  BY DEF Leave, GoTo, JobsOK, JobColumns
<1>4. JobOK(w)'
  BY <1>3 DEF JobOK, Reporting
<1>5. Others(w)
  BY DEF Leave, GoTo, Others, Same
<1> QED
  BY <1>2, <1>3, <1>4, <1>5 DEF JobMove

\* A worker proceeds between stages that have no report and no renewal task.
Plain == Stages \ (Reporting \cup {"idle", "executing"})
LEMMA ProceedingMoves ==
  ASSUME JobsOK, AttemptsStay, NEW w \in Workers, stage[w] \in Plain,
         NEW s \in Plain, Proceed(w, s)
  PROVE  JobMove(w)
<1>1. report[w] = NoReport /\ renewal[w] = "none"
  BY DEF JobsOK, JobOK, Plain
<1>2. /\ report' = [report EXCEPT ![w] = NoReport]
      /\ renewal' = [renewal EXCEPT ![w] = "none"]
  BY <1>1 DEF Proceed, JobsOK, JobColumns
<1>3. NoReport \in ReportType /\ "none" \in RenewalType
  BY DEF NoReport, ReportType, RenewalType
<1> QED
  BY <1>2, <1>3, MovesInStages DEF Proceed, Plain

LEMMA FailingMoves ==
  ASSUME JobsOK, AttemptsStay, NEW w \in Workers, stage[w] # "idle",
         NEW s \in Reporting, NEW terminal, NEW retryable,
         <<terminal, retryable>> \in FailureReports, FailWith(w, s, terminal, retryable),
         renewal' = [renewal EXCEPT ![w] = "none"]
  PROVE  JobMove(w)
<1>1. [terminal |-> terminal, retryable |-> retryable] \in ReportType
  BY DEF FailureReports, ReportType
<1>2. "none" \in RenewalType /\ s \in Stages \ {"idle"} /\ s # "executing"
  BY DEF RenewalType, Stages, Reporting
<1> QED
  BY <1>1, <1>2, MovesInStages DEF FailWith

LEMMA NoRenewalTask ==
  ASSUME JobsOK, NEW w \in Workers, stage[w] # "executing", UNCHANGED renewal
  PROVE  renewal' = [renewal EXCEPT ![w] = "none"]
  BY DEF JobsOK, JobColumns, JobOK

LEMMA BeginningMoves ==
  ASSUME JobsOK, AttemptsStay, NEW w \in Workers, stage[w] \in Plain, BeginRuntime(w)
  PROVE  JobMove(w)
<1>1. report[w] = NoReport
  BY DEF JobsOK, JobOK, Plain
<1>2. report' = [report EXCEPT ![w] = NoReport]
  BY <1>1 DEF BeginRuntime, JobsOK, JobColumns
<1>3. /\ NoReport \in ReportType /\ "asleep" \in RenewalType
      /\ "executing" \in Stages \ {"idle"} /\ "executing" \notin Reporting
  BY DEF NoReport, ReportType, RenewalType, Stages, Reporting
<1> QED
  BY <1>2, <1>3, MovesInStages DEF BeginRuntime, Plain

\* The runtime of a worker is stopped, or its renewal task changes.
LEMMA CancellingMoves ==
  ASSUME JobsOK, AttemptsStay, NEW w \in Workers, stage[w] = "executing",
         \/ CancelTask(w)
         \/ /\ UNCHANGED <<stage, job, report>>
            /\ \E n \in RenewalType \ {"none"} : renewal' = [renewal EXCEPT ![w] = n]
  PROVE  JobMove(w)
<1>1. report[w] = NoReport
  BY DEF JobsOK, JobOK, Reporting
<1>2. UNCHANGED report => report' = [report EXCEPT ![w] = NoReport]
  BY <1>1 DEF JobsOK, JobColumns
<1>3. /\ NoReport \in ReportType /\ "none" \in RenewalType
      /\ {"executing", "cancelled"} \subseteq Stages \ ({"idle"} \cup Reporting)
  BY DEF NoReport, ReportType, RenewalType, Stages, Reporting
<1>4. UNCHANGED stage => GoTo(w, "executing")
  BY DEF GoTo, JobsOK, JobColumns
<1> QED
  BY <1>2, <1>3, <1>4, MovesInStages DEF CancelTask

\* Each step of a job is a move.
LEMMA JobStepMoves ==
  ASSUME JobsOK, AttemptsStay, NEW w \in Workers, JobStep(w)
  PROVE  JobMove(w)
<1> DEFINE failure == <<"failed", FALSE>>
<1>1. /\ {"claimed", "prepare", "session", "setup", "check", "deliver", "complete",
           "promote", "cancelled", "then clean"} \subseteq Plain
      /\ failure \in FailureReports
  BY DEF Plain, Stages, Reporting, FailureReports
<1>2. CASE SetLease(w)
  BY <1>1, <1>2, ProceedingMoves DEF SetLease
<1>3. CASE SourceUnavailable(w)
  BY <1>1, <1>3, FailingMoves, NoRenewalTask DEF SourceUnavailable, Reporting
<1>4. CASE PrepareWorktree(w)
  <2>1. CASE Proceed(w, "session")
    BY <1>1, <1>4, <2>1, ProceedingMoves DEF PrepareWorktree
  <2>2. CASE FailWith(w, "then report", "failed", FALSE) /\ UNCHANGED renewal
    BY <1>1, <1>4, <2>2, FailingMoves, NoRenewalTask DEF PrepareWorktree, Reporting
  <2> QED
    BY <1>4, <2>1, <2>2 DEF PrepareWorktree
<1>5. CASE OpenSession(w)
  <2>1. CASE Proceed(w, "setup")
    BY <1>1, <1>5, <2>1, ProceedingMoves DEF OpenSession
  <2>2. CASE BeginRuntime(w)
    BY <1>1, <1>5, <2>2, BeginningMoves DEF OpenSession
  <2>3. CASE FailWith(w, "clean", "failed", FALSE) /\ UNCHANGED renewal
    BY <1>1, <1>5, <2>3, FailingMoves, NoRenewalTask DEF OpenSession, Reporting
  <2> QED
    BY <1>5, <2>1, <2>2, <2>3 DEF OpenSession
<1>6. CASE EndSetup(w)
  <2>1. CASE BeginRuntime(w)
    BY <1>1, <1>6, <2>1, BeginningMoves DEF EndSetup
  <2>2. CASE FailWith(w, "report", "failed", FALSE) /\ UNCHANGED renewal
    BY <1>1, <1>6, <2>2, FailingMoves, NoRenewalTask DEF EndSetup, Reporting
  <2> QED
    BY <1>6, <2>1, <2>2 DEF EndSetup
<1>7. CASE CancelExecution(w)
  BY <1>1, <1>7, ProceedingMoves DEF CancelExecution
<1>8. CASE EndCheck(w)
  <2>1. CASE Proceed(w, "deliver")
    BY <1>1, <1>8, <2>1, ProceedingMoves DEF EndCheck
  <2>2. ASSUME NEW terminal \in {"failed", "timeout"},
               FailWith(w, "report", terminal, FALSE), UNCHANGED renewal
        PROVE  JobMove(w)
    <3>1. <<terminal, FALSE>> \in FailureReports
      BY DEF FailureReports
    <3> QED
      BY <1>8, <2>2, <3>1, FailingMoves, NoRenewalTask DEF EndCheck, Reporting
  <2>3. CASE Leave(w)
    BY <1>8, <2>3, LeavingMoves DEF EndCheck
  <2> QED
    BY <1>8, <2>1, <2>2, <2>3 DEF EndCheck
<1>9. CASE DeliverGitWork(w)
  <2>1. CASE Proceed(w, "complete")
    BY <1>1, <1>9, <2>1, ProceedingMoves DEF DeliverGitWork
  <2>2. ASSUME NEW retryable \in BOOLEAN,
               FailWith(w, "clean", "failed", retryable), UNCHANGED renewal
        PROVE  JobMove(w)
    <3>1. <<"failed", retryable>> \in FailureReports
      BY DEF FailureReports
    <3> QED
      BY <1>9, <2>2, <3>1, FailingMoves, NoRenewalTask DEF DeliverGitWork, Reporting
  <2> QED
    BY <1>9, <2>1, <2>2 DEF DeliverGitWork
<1>10. CASE Complete(w)
  <2>1. CASE Proceed(w, "promote")
    BY <1>1, <1>10, <2>1, ProceedingMoves DEF Complete
  <2>2. CASE Leave(w)
    BY <1>10, <2>2, LeavingMoves DEF Complete
  <2> QED
    BY <1>10, <2>1, <2>2 DEF Complete
<1>11. CASE EnqueueNewlyReadyAgents(w)
  BY <1>1, <1>11, ProceedingMoves DEF EnqueueNewlyReadyAgents
<1>12. CASE FailClaimedAgent(w)
  <2>1. stage[w] \in {"report", "then report"} /\ stage[w] \notin {"executing", "idle"}
    BY <1>12 DEF FailClaimedAgent
  <2>2. CASE Leave(w)
    BY <2>1, <2>2, LeavingMoves
  <2>3. CASE /\ GoTo(w, "then clean")
             /\ report' = [report EXCEPT ![w] = NoReport]
             /\ UNCHANGED <<job, renewal>>
    <3>1. renewal' = [renewal EXCEPT ![w] = "none"]
      BY <2>1, <2>3, NoRenewalTask
    <3>2. NoReport \in ReportType /\ "none" \in RenewalType
      BY DEF NoReport, ReportType, RenewalType
    <3>3. "then clean" \in Stages \ {"idle"} /\ "then clean" \notin Reporting
      BY DEF Stages, Reporting
    <3> QED
      BY <2>1, <2>3, <3>1, <3>2, <3>3, MovesInStages
  <2> QED
    BY <1>12, <2>2, <2>3 DEF FailClaimedAgent
<1>13. CASE CleanupWorktreeIfConfigured(w)
  <2>1. stage[w] \in {"clean", "then clean"} /\ stage[w] \notin {"executing", "idle"}
    BY <1>13 DEF CleanupWorktreeIfConfigured
  <2>2. CASE Leave(w)
    BY <2>1, <2>2, LeavingMoves
  <2>3. CASE stage[w] = "clean" /\ Proceed(w, "then report")
    <3>1. <<report[w].terminal, report[w].retryable>> \in FailureReports /\ report[w] \in ReportType
      BY <2>3 DEF JobsOK, JobOK, JobColumns, Reporting
    <3>2. report' = [report EXCEPT ![w] = report[w]]
      BY <2>3 DEF Proceed, JobsOK, JobColumns
    <3>3. renewal' = [renewal EXCEPT ![w] = "none"] /\ "none" \in RenewalType
      BY <2>1, <2>3, NoRenewalTask DEF Proceed, RenewalType
    <3>4. "then report" \in Stages \ {"idle"} /\ "then report" \in Reporting
      BY DEF Stages, Reporting
    <3> QED
      BY <2>1, <2>3, <3>1, <3>2, <3>3, <3>4, MovesInStages DEF Proceed
  <2> QED
    BY <1>13, <2>2, <2>3 DEF CleanupWorktreeIfConfigured
<1> QED
  BY <1>2, <1>3, <1>4, <1>5, <1>6, <1>7, <1>8, <1>9, <1>10, <1>11, <1>12, <1>13 DEF JobStep

\* And so is what happens to a runtime and its worker.
LEMMA RuntimeStepMoves ==
  ASSUME JobsOK, AttemptsStay, NEW w \in Workers,
         Renew(w) \/ EndRuntime(w) \/ RenewalDies(w) \/ Interrupt(w) \/ Crash(w)
  PROVE  JobMove(w)
<1>1. "renewing" \in RenewalType \ {"none"} /\ "dead" \in RenewalType \ {"none"}
  BY DEF RenewalType
<1>2. CASE Renew(w) \/ RenewalDies(w) \/ Interrupt(w)
  <2>1. stage[w] = "executing"
    BY <1>2 DEF Renew, RenewalDies, Interrupt
  <2>2. \/ CancelTask(w)
        \/ /\ UNCHANGED <<stage, job, report>>
           /\ \E n \in RenewalType \ {"none"} : renewal' = [renewal EXCEPT ![w] = n]
    BY <1>1, <1>2 DEF Renew, RenewalDies, Interrupt
  <2> QED
    BY <2>1, <2>2, CancellingMoves
<1>3. CASE EndRuntime(w)
  <2>1. stage[w] = "executing" /\ renewal' = [renewal EXCEPT ![w] = "none"] /\ "none" \in RenewalType
    BY <1>3 DEF EndRuntime, RenewalType
  <2>2. CASE GoTo(w, "check") /\ UNCHANGED <<job, report>>
    <3>1. report[w] = NoReport /\ NoReport \in ReportType
      BY <2>1 DEF JobsOK, JobOK, Reporting, NoReport, ReportType
    <3>2. report' = [report EXCEPT ![w] = NoReport]
      BY <2>2, <3>1 DEF JobsOK, JobColumns
    <3>3. "check" \in Stages \ {"idle"} /\ "check" \notin Reporting
      BY DEF Stages, Reporting
    <3> QED
      BY <2>1, <2>2, <3>1, <3>2, <3>3, MovesInStages
  <2>3. ASSUME NEW f \in RuntimeFailures, FailWith(w, "report", f[1], f[2])
        PROVE  JobMove(w)
    <3>1. <<f[1], f[2]>> \in FailureReports
      <4>1. CASE f \in {"failed"} \X BOOLEAN
        BY <4>1 DEF FailureReports
      <4>2. CASE f = <<"timeout", TRUE>>
        <5>1. f[1] = "timeout" /\ f[2] = TRUE
          BY <4>2
        <5>2. <<"timeout", TRUE>> \in FailureReports
          BY DEF FailureReports
        <5> QED
          BY <5>1, <5>2
      <4>3. CASE f = <<"cost_exceeded", FALSE>>
        <5>1. f[1] = "cost_exceeded" /\ f[2] = FALSE
          BY <4>3
        <5>2. <<"cost_exceeded", FALSE>> \in FailureReports
          BY DEF FailureReports
        <5> QED
          BY <5>1, <5>2
      <4> QED
        BY <4>1, <4>2, <4>3 DEF RuntimeFailures
    <3> QED
      BY <2>1, <2>3, <3>1, FailingMoves DEF Reporting
  <2> QED
    BY <1>3, <2>2, <2>3 DEF EndRuntime
<1>4. CASE Crash(w)
  BY <1>4, LeavingMoves DEF Crash
<1> QED
  BY <1>2, <1>3, <1>4

\* A claim gives an idle worker the attempt it has made.
LEMMA ClaimMoves ==
  ASSUME IInv, JobsOK, AttemptsStay, NEW w \in Workers, NEW a \in Agents, Claim(w, a)
  PROVE  /\ JobColumns' /\ JobOK(w)' /\ Others(w)
         /\ stage[w] = "idle" /\ stage'[w] = "claimed"
         /\ job'[w] = [agent |-> a, attempt |-> Len(attempts'[a])]
<1>1. /\ Len(attempts'[a]) \in Nat
      /\ Len(attempts'[a]) \in DOMAIN attempts'[a]
  BY ClaimAppends, RowFacts DEF Claim
<1>2. "claimed" \in Stages
  BY DEF Stages
<1>3. JobColumns'
  BY <1>1, <1>2 DEF Claim, GoTo, JobsOK, JobColumns
<1>4. /\ stage[w] = "idle" /\ stage'[w] = "claimed"
      /\ job'[w] = [agent |-> a, attempt |-> Len(attempts'[a])]
      /\ report'[w] = report[w] /\ renewal'[w] = renewal[w]
  BY DEF Claim, GoTo, JobsOK, JobColumns
<1>5. report[w] = NoReport /\ renewal[w] = "none"
  BY <1>4 DEF JobsOK, JobOK, Reporting
<1>6. JobOK(w)'
  BY <1>1, <1>4, <1>5 DEF JobOK, Agent, AttemptOf, Reporting
<1>7. Others(w)
  BY DEF Claim, GoTo, Others, Same
<1> QED
  BY <1>3, <1>4, <1>6, <1>7

-----------------------------------------------------------------------------
(* What a worker may rely on: its job is its own. *)

DistinctJobs ==
  \A v, w \in Workers : v # w /\ stage[v] # "idle" /\ stage[w] # "idle" => job[v] # job[w]

\* The kinds of steps, seen from the jobs.
LEMMA WorkerStepKinds ==
  ASSUME IInv, JobsOK, [WorkerNext]_workerVars
  PROVE  \/ \E w \in Workers, a \in Agents : Claim(w, a)
         \/ \E w \in Workers : JobMove(w)
         \/ UNCHANGED jobVars
<1>1. AttemptsStay
  BY StepObeysRunState, StepKeepsAttempts
<1>2. ASSUME NEW w \in Workers,
             JobStep(w) \/ Renew(w) \/ EndRuntime(w) \/ RenewalDies(w) \/ Interrupt(w) \/ Crash(w)
      PROVE  JobMove(w)
  BY <1>1, <1>2, JobStepMoves, RuntimeStepMoves
<1>3. ASSUME NEW a \in Agents, LeasePasses(a) \/ LeaseKeyExpires(a) \/ CancelWorker(a)
      PROVE  UNCHANGED jobVars
  BY <1>3 DEF LeasePasses, LeaseKeyExpires, CancelWorker
<1>4. ASSUME RedisLosesKeys \/ Reap \/ CancelCommand \/ PublishCancel \/ ResumeCommand \/ Refresh
      PROVE  UNCHANGED jobVars
  BY <1>4 DEF RedisLosesKeys, Reap, CancelCommand, PublishCancel, ResumeCommand, Refresh
<1>5. CASE UNCHANGED workerVars
  BY <1>5 DEF workerVars
<1> QED
  BY <1>2, <1>3, <1>4, <1>5 DEF WorkerNext

LEMMA SameJobOK ==
  ASSUME AttemptsStay, NEW v \in Workers, JobOK(v), Same(v)
  PROVE  JobOK(v)'
  BY DEF JobOK, Same, AttemptsStay, Agent, AttemptOf

LEMMA StepJobs ==
  ASSUME IInv, JobsOK, DistinctJobs, [WorkerNext]_workerVars
  PROVE  JobsOK' /\ DistinctJobs'
<1>1. AttemptsStay
  BY StepObeysRunState, StepKeepsAttempts
<1>2. ASSUME NEW w \in Workers, NEW a \in Agents, Claim(w, a)
      PROVE  JobsOK' /\ DistinctJobs'
  <2>1. /\ JobColumns' /\ JobOK(w)' /\ Others(w)
        /\ stage[w] = "idle" /\ stage'[w] = "claimed"
        /\ job'[w] = [agent |-> a, attempt |-> Len(attempts'[a])]
    BY <1>1, <1>2, ClaimMoves
  <2>2. JobsOK'
    BY <1>1, <2>1, SameJobOK DEF JobsOK, Others
  <2>3. Len(attempts'[a]) \notin DOMAIN attempts[a]
    BY <1>2, ClaimAppends DEF Claim
  <2>4. ASSUME NEW v \in Workers \ {w}, stage'[v] # "idle"
        PROVE  job'[v] # job'[w]
    <3>1. stage[v] # "idle" /\ job'[v] = job[v]
      BY <2>1, <2>4 DEF Others, Same
    <3>2. job[v].attempt \in DOMAIN attempts[job[v].agent]
      BY <3>1 DEF JobsOK, JobOK, Agent, AttemptOf
    <3> QED
      BY <2>1, <2>3, <3>1, <3>2
  <2>5. \A u, v \in Workers \ {w} : u # v /\ stage'[u] # "idle" /\ stage'[v] # "idle" =>
                                     job'[u] # job'[v]
    BY <2>1 DEF Others, Same, DistinctJobs
  <2> QED
    BY <2>2, <2>4, <2>5 DEF DistinctJobs
<1>3. ASSUME NEW w \in Workers, JobMove(w)
      PROVE  JobsOK' /\ DistinctJobs'
  <2>1. JobsOK'
    BY <1>1, <1>3, SameJobOK DEF JobsOK, JobMove, Others
  <2>2. DistinctJobs'
    BY <1>3 DEF JobMove, Others, Same, DistinctJobs
  <2> QED
    BY <2>1, <2>2
<1>4. CASE UNCHANGED jobVars
  <2>1. \A v \in Workers : Same(v)
    BY <1>4 DEF jobVars, Same
  <2> QED
    BY <1>1, <1>4, <2>1, SameJobOK DEF jobVars, JobsOK, JobColumns, DistinctJobs
<1> QED
  BY <1>2, <1>3, <1>4, WorkerStepKinds

JobInv == IInv /\ JobsOK /\ DistinctJobs

LEMMA JobInvariance == WorkerSpec => []JobInv
<1>1. WorkerInit => JobInv
  <2> SUFFICES ASSUME WorkerInit
               PROVE  JobsOK /\ DistinctJobs
    BY InitIInv DEF WorkerInit, JobInv
  <2>1. /\ NoReport \in ReportType /\ "none" \in RenewalType /\ "idle" \in Stages
        /\ "idle" \notin Reporting
    BY DEF NoReport, ReportType, RenewalType, Stages, Reporting
  <2>2. JobColumns
    BY <2>1 DEF WorkerInit, JobColumns
  <2>3. \A w \in Workers : JobOK(w)
    BY <2>1 DEF WorkerInit, JobOK
  <2> QED
    BY <2>2, <2>3 DEF JobsOK, DistinctJobs, WorkerInit
<1>2. JobInv /\ [WorkerNext]_workerVars => JobInv'
  BY StepObeysRunState, StepIInv, StepJobs DEF JobInv
<1> QED
  BY <1>1, <1>2, PTL DEF WorkerSpec

(***************************************************************************)
(* Whatever stale workers, cancellations and a lossy Redis do, the rows    *)
(* change as RunState says.                                                *)
(***************************************************************************)
THEOREM WorkersObeyRunState == WorkerSpec => RowsObeyRunState
<1>1. WorkerInit => Init
  BY DEF WorkerInit
<1>2. JobInv /\ [WorkerNext]_workerVars => [Next]_vars
  BY StepObeysRunState DEF JobInv
<1> QED
  BY <1>1, <1>2, JobInvariance, PTL DEF WorkerSpec, RowsObeyRunState, Spec

(***************************************************************************)
(* So among deployed workers too an attempt has one owner: a report of a   *)
(* worker that was replaced changes no row.                                *)
(***************************************************************************)
THEOREM WorkersHaveOneOwner == WorkerSpec => []LeaseOwnership
  BY WorkersObeyRunState, OneOwner, PTL DEF RowsObeyRunState

-----------------------------------------------------------------------------
(* The ledger.  What it says of attempt i of agent a while a worker is in  *)
(* stage s with it.                                                        *)

Record(a, i, kind, outcome) ==
  [agent |-> a, attempt |-> i, kind |-> kind, status |-> outcome]
OpenIn == [setup |-> {"setup"}, runtime |-> {"executing", "cancelled"}, check |-> {"check"}]
Reported == {"idle", "promote", "then clean"}

LedgerFor(a, i, s) ==
  /\ s \in {"check", "deliver", "complete"} => Record(a, i, "runtime", "completed") \in invocations
  /\ s \in {"deliver", "complete"} => Record(a, i, "check", "completed") \in invocations
  /\ s = "complete" => <<a, i>> \in delivered
  /\ s \in Reporting => <<a, i>> \in errors
  /\ s \notin Reported => attempts[a][i] \notin {"completed", "failed"}
  /\ \A kind \in Kinds : Record(a, i, kind, "running") \in invocations => s \in OpenIn[kind]

LedgerOK(w) == stage[w] # "idle" => LedgerFor(Agent(w), AttemptOf(w), stage[w])

\* The rows of runtime_invocations belong to attempts there are.
RecordsOK ==
  \A r \in invocations :
    \E a \in Agents, kind \in Kinds, outcome \in InvocationStatuses :
      \E i \in DOMAIN attempts[a] : r = Record(a, i, kind, outcome)

LedgerInv ==
  /\ RecordsOK
  /\ \A w \in Workers : LedgerOK(w)
  /\ CompletionIsEarned
  /\ ReportedAttemptIsClosed

LEMMA RecordsDiffer ==
  ASSUME NEW a, NEW i, NEW kind, NEW outcome, NEW b, NEW j, NEW kind2, NEW outcome2
  PROVE  Record(a, i, kind, outcome) = Record(b, j, kind2, outcome2) <=>
           a = b /\ i = j /\ kind = kind2 /\ outcome = outcome2
<1>1. /\ Record(a, i, kind, outcome).agent = a
      /\ Record(a, i, kind, outcome).attempt = i
      /\ Record(a, i, kind, outcome).kind = kind
      /\ Record(a, i, kind, outcome).status = outcome
  BY DEF Record
<1>2. /\ Record(b, j, kind2, outcome2).agent = b
      /\ Record(b, j, kind2, outcome2).attempt = j
      /\ Record(b, j, kind2, outcome2).kind = kind2
      /\ Record(b, j, kind2, outcome2).status = outcome2
  BY DEF Record
<1> QED
  BY <1>1, <1>2

LEMMA RunningIsNot ==
  \A a, i, k, kind, outcome : outcome # "running" =>
    Record(a, i, k, "running") # Record(a, i, kind, outcome)
  BY RecordsDiffer

LEMMA CompletedIsNotRunning ==
  \A a, i, k, kind : Record(a, i, k, "completed") # Record(a, i, kind, "running")
  BY RecordsDiffer

\* A step on attempt i of agent a adds to its records and removes those that
\* said "running"; it starts an invocation in three stages only.
LedgerMove(a, i, s) ==
  /\ \A r \in invocations' \ invocations :
       \E kind \in Kinds, outcome \in InvocationStatuses :
         /\ r = Record(a, i, kind, outcome)
         /\ outcome = "running" => s \in {"session", "setup", "executing"}
  /\ \A r \in invocations \ invocations' :
       \E kind \in Kinds : r = Record(a, i, kind, "running")
  /\ errors \subseteq errors'
  /\ delivered \subseteq delivered'

\* An attempt is open until its own report.
LEMMA StillOpen ==
  ASSUME IInv, AttemptsStay, ReportsNothing, NEW a \in Agents, NEW i \in DOMAIN attempts[a],
         attempts[a][i] \notin {"completed", "failed"}
  PROVE  attempts'[a][i] \notin {"completed", "failed"}
<1>1. i \in Nat
  BY RowFacts
<1> QED
  BY <1>1 DEF ReportsNothing, Becomes, AttemptsStay

\* The four ways in which a step of a job changes the ledger, which say
\* nothing else of the attempt.
LEMMA LedgerUnchanged ==
  ASSUME IInv, AttemptsStay, ReportsNothing, NEW a \in Agents, NEW i \in DOMAIN attempts[a],
         NEW s \in Stages, NEW t \in Stages, LedgerFor(a, i, s),
         invocations' = invocations, errors \subseteq errors', delivered \subseteq delivered',
         t \in {"check", "deliver", "complete"} => s = t,
         t \in Reporting => <<a, i>> \in errors',
         s \in Reported => t \in Reported,
         s \in {"setup", "executing", "cancelled", "check"} =>
           s = t \/ (s = "executing" /\ t = "cancelled")
  PROVE  LedgerMove(a, i, s) /\ LedgerFor(a, i, t)'
<1>1. s \notin Reported => attempts'[a][i] \notin {"completed", "failed"}
  BY StillOpen DEF LedgerFor
<1>2. \A kind \in Kinds : s \in OpenIn[kind] => t \in OpenIn[kind]
  BY DEF Kinds, OpenIn
<1> QED
  BY <1>1, <1>2 DEF LedgerFor, LedgerMove

LEMMA LedgerStarts ==
  ASSUME IInv, AttemptsStay, ReportsNothing, NEW a \in Agents, NEW i \in DOMAIN attempts[a],
         LedgerFor(a, i, "session"),
         NEW kind \in {"setup", "runtime"}, NEW t, t = IF kind = "setup" THEN "setup" ELSE "executing",
         invocations' = invocations \cup {Record(a, i, kind, "running")},
         errors' = errors, delivered' = delivered
  PROVE  LedgerMove(a, i, "session") /\ LedgerFor(a, i, t)'
<1>1. attempts'[a][i] \notin {"completed", "failed"}
  BY StillOpen DEF LedgerFor, Reported
<1>2. /\ t \in OpenIn[kind]
      /\ \A k \in Kinds : "session" \notin OpenIn[k]
      /\ "running" \in InvocationStatuses /\ kind \in Kinds
  BY DEF OpenIn, Kinds, InvocationStatuses
<1>3. LedgerFor(a, i, t)'
  <2>1. \A k \in Kinds : Record(a, i, k, "running") \in invocations' => t \in OpenIn[k]
    <3> SUFFICES ASSUME NEW k \in Kinds, Record(a, i, k, "running") \in invocations'
                 PROVE  k = kind
      BY <1>2
    <3>1. Record(a, i, k, "running") \notin invocations
      BY <1>2 DEF LedgerFor
    <3> QED
      BY <3>1, RecordsDiffer
  <2>2. t \notin Reporting /\ t \notin {"check", "deliver", "complete"}
    BY DEF Reporting
  <2> QED
    BY <1>1, <2>1, <2>2 DEF LedgerFor
<1>4. LedgerMove(a, i, "session")
  BY <1>2 DEF LedgerMove
<1> QED
  BY <1>3, <1>4

\* Each kind of invocation is open in stages of its own.
LEMMA OpenStages ==
  \A kind \in Kinds : \A s \in OpenIn[kind] :
    s \notin Reported /\ \A k \in Kinds \ {kind} : s \notin OpenIn[k]
<1>1. /\ OpenIn["setup"] = {"setup"}
      /\ OpenIn["runtime"] = {"executing", "cancelled"}
      /\ OpenIn["check"] = {"check"}
  BY DEF OpenIn
<1> QED
  BY <1>1 DEF Kinds, Reported

LEMMA LedgerFinishes ==
  ASSUME IInv, AttemptsStay, ReportsNothing, NEW a \in Agents, NEW i \in DOMAIN attempts[a],
         NEW kind \in Kinds, NEW s \in OpenIn[kind], NEW t \in Stages,
         NEW outcome \in {"completed", "error"}, LedgerFor(a, i, s),
         invocations' = (invocations \ {Record(a, i, kind, "running")})
                          \cup {Record(a, i, kind, outcome)},
         errors \subseteq errors', delivered' = delivered,
         t \in Reporting => <<a, i>> \in errors',
         t \in Reporting \cup {"then clean"}
           \/ (kind = "check" /\ s = "check" /\ t = "deliver" /\ outcome = "completed")
  PROVE  LedgerMove(a, i, s) /\ LedgerFor(a, i, t)'
<1>1. attempts'[a][i] \notin {"completed", "failed"}
  <2>1. s \notin Reported
    BY OpenStages
  <2> QED
    BY <2>1, StillOpen DEF LedgerFor
<1>2. /\ \A k \in Kinds \ {kind} : s \notin OpenIn[k]
      /\ t \notin {"check", "complete"}
      /\ outcome \in InvocationStatuses /\ outcome # "running"
  BY OpenStages DEF InvocationStatuses, Reporting
<1>3. /\ \A k \in Kinds : Record(a, i, k, "running") # Record(a, i, kind, outcome)
      /\ \A k \in Kinds : Record(a, i, k, "completed") # Record(a, i, kind, "running")
  BY <1>2, RunningIsNot, CompletedIsNotRunning
<1>4. \A k \in Kinds : Record(a, i, k, "running") \notin invocations'
  <2> SUFFICES ASSUME NEW k \in Kinds, Record(a, i, k, "running") \in invocations'
               PROVE  FALSE
    OBVIOUS
  <2>1. Record(a, i, k, "running") # Record(a, i, kind, outcome)
    BY <1>3
  <2>2. k # kind /\ Record(a, i, k, "running") \in invocations
    BY <2>1
  <2> QED
    BY <1>2, <2>2 DEF LedgerFor
<1>5. \A k \in Kinds : Record(a, i, k, "completed") \in invocations =>
                       Record(a, i, k, "completed") \in invocations'
  BY <1>3
<1>6. t = "deliver" => /\ Record(a, i, "runtime", "completed") \in invocations'
                      /\ Record(a, i, "check", "completed") \in invocations'
  BY <1>5 DEF LedgerFor, Kinds, Reporting
<1>7. LedgerFor(a, i, t)'
  BY <1>1, <1>2, <1>4, <1>6 DEF LedgerFor
<1>8. LedgerMove(a, i, s)
  BY <1>2 DEF LedgerMove
<1> QED
  BY <1>7, <1>8

LEMMA LedgerNext ==
  ASSUME IInv, AttemptsStay, ReportsNothing, NEW a \in Agents, NEW i \in DOMAIN attempts[a],
         NEW kind, NEW next, NEW s, NEW t,
         \/ kind = "setup" /\ next = "runtime" /\ s = "setup" /\ t = "executing"
         \/ kind = "runtime" /\ next = "check" /\ s = "executing" /\ t = "check",
         LedgerFor(a, i, s),
         invocations' = (invocations \ {Record(a, i, kind, "running")})
                          \cup {Record(a, i, kind, "completed"), Record(a, i, next, "running")},
         errors' = errors, delivered' = delivered
  PROVE  LedgerMove(a, i, s) /\ LedgerFor(a, i, t)'
<1>1. attempts'[a][i] \notin {"completed", "failed"}
  BY StillOpen DEF LedgerFor, Reported
<1>2. /\ \A k \in Kinds \ {kind} : s \notin OpenIn[k]
      /\ t \in OpenIn[next] /\ t \notin Reporting /\ t \notin {"deliver", "complete"}
      /\ {"running", "completed"} \subseteq InvocationStatuses
      /\ kind \in Kinds /\ next \in Kinds
      /\ s \in {"session", "setup", "executing"}
  <2>1. /\ OpenIn["setup"] = {"setup"}
        /\ OpenIn["runtime"] = {"executing", "cancelled"}
        /\ OpenIn["check"] = {"check"}
    BY DEF OpenIn
  <2>2. CASE kind = "setup" /\ next = "runtime" /\ s = "setup" /\ t = "executing"
    BY <2>1, <2>2 DEF Kinds, InvocationStatuses, Reporting
  <2>3. CASE kind = "runtime" /\ next = "check" /\ s = "executing" /\ t = "check"
    BY <2>1, <2>3 DEF Kinds, InvocationStatuses, Reporting
  <2> QED
    BY <2>2, <2>3
<1>3. \A k \in Kinds : Record(a, i, k, "running") \in invocations' => t \in OpenIn[k]
  <2> SUFFICES ASSUME NEW k \in Kinds, Record(a, i, k, "running") \in invocations', k # next
               PROVE  FALSE
    BY <1>2
  <2>1. /\ Record(a, i, k, "running") # Record(a, i, kind, "completed")
        /\ Record(a, i, k, "running") # Record(a, i, next, "running")
    BY RecordsDiffer
  <2>2. k # kind /\ Record(a, i, k, "running") \in invocations
    BY <2>1
  <2> QED
    BY <1>2, <2>2 DEF LedgerFor
<1>4. t = "check" => Record(a, i, "runtime", "completed") \in invocations'
  OBVIOUS
<1>5. LedgerFor(a, i, t)'
  BY <1>1, <1>2, <1>3, <1>4 DEF LedgerFor
<1>6. LedgerMove(a, i, s)
  BY <1>2 DEF LedgerMove
<1> QED
  BY <1>5, <1>6

\* What a step of worker w on its job does to the ledger and to the history.
LedgerStep(w) ==
  \E a \in Agents, i \in Nat, s \in Stages \ {"idle"}, t \in Stages :
    /\ a = Agent(w) /\ i = AttemptOf(w) /\ s = stage[w] /\ t = stage'[w]
    /\ LedgerMove(a, i, s)
    /\ t # "idle" => LedgerFor(a, i, t)'
    /\ \/ ReportsNothing
       \/ /\ UNCHANGED ledgerVars
          /\ \/ s = "complete" /\ ReportsOnly(a, i, "completed")
             \/ s \in {"report", "then report"} /\ ReportsOnly(a, i, "failed")

LEMMA SameLedger ==
  ASSUME UNCHANGED invocations, errors \subseteq errors', delivered \subseteq delivered',
         NEW a, NEW i, NEW s
  PROVE  LedgerMove(a, i, s)
  BY DEF LedgerMove

LEMMA JobStepLedger ==
  ASSUME IInv, JobsOK, AttemptsStay, NEW w \in Workers, LedgerOK(w), JobStep(w)
  PROVE  LedgerStep(w)
<1>1. /\ stage[w] \in Stages \ {"idle"} /\ stage'[w] \in Stages
      /\ Agent(w) \in Agents /\ AttemptOf(w) \in Nat
      /\ AttemptOf(w) \in DOMAIN attempts[Agent(w)]
  <2>1. stage[w] # "idle" /\ JobColumns'
    BY JobStepMoves DEF JobMove, JobStep, SetLease, SourceUnavailable, PrepareWorktree,
       OpenSession, EndSetup, CancelExecution, EndCheck, DeliverGitWork, Complete,
       EnqueueNewlyReadyAgents, FailClaimedAgent, CleanupWorktreeIfConfigured
  <2>2. Agent(w) \in Agents /\ AttemptOf(w) \in DOMAIN attempts[Agent(w)]
    BY <2>1 DEF JobsOK, JobOK
  <2>3. AttemptOf(w) \in Nat
    BY <2>2, RowFacts
  <2> QED
    BY <2>1, <2>2, <2>3 DEF JobsOK, JobColumns
<1>2. PICK a \in Agents, i \in Nat, s \in Stages \ {"idle"}, t \in Stages :
        a = Agent(w) /\ i = AttemptOf(w) /\ s = stage[w] /\ t = stage'[w]
  BY <1>1
<1>3. i \in DOMAIN attempts[a] /\ LedgerFor(a, i, s)
  BY <1>1, <1>2 DEF LedgerOK
<1>4. UNCHANGED vars => ReportsNothing
  BY SameAttemptsReport DEF vars
<1>5. \A x \in Stages : stage' = [stage EXCEPT ![w] = x] => t = x
  BY <1>2 DEF JobsOK, JobColumns
<1>6. \A kind, outcome : Invocation(w, kind, outcome) = Record(a, i, kind, outcome)
  BY <1>2 DEF Invocation, Record
<1>7. <<Agent(w), AttemptOf(w)>> = <<a, i>>
  BY <1>2
<1>8. /\ OpenIn["setup"] = {"setup"}
      /\ OpenIn["runtime"] = {"executing", "cancelled"}
      /\ OpenIn["check"] = {"check"}
      /\ {"setup", "runtime", "check"} \subseteq Kinds
  BY DEF OpenIn, Kinds
<1>9. {"idle", "prepare", "session", "setup", "executing", "check", "deliver", "complete",
       "promote", "report", "clean", "then report", "then clean"} \subseteq Stages
  BY DEF Stages
<1>10. (/\ LedgerMove(a, i, s)
        /\ t # "idle" => LedgerFor(a, i, t)'
        /\ \/ ReportsNothing
           \/ /\ UNCHANGED ledgerVars
              /\ \/ s = "complete" /\ ReportsOnly(a, i, "completed")
                 \/ s \in {"report", "then report"} /\ ReportsOnly(a, i, "failed"))
       => LedgerStep(w)
  BY <1>2, <1>3 DEF LedgerStep
<1>11. LedgerMove(a, i, s) /\ LedgerFor(a, i, t)' /\ ReportsNothing => LedgerStep(w)
  BY <1>10
<1>12. CASE SetLease(w)
  <2>1. s = "claimed" /\ t = "prepare" /\ UNCHANGED <<vars, ledgerVars>>
    BY <1>2, <1>5, <1>9, <1>12 DEF SetLease, Proceed, GoTo
  <2> QED
    BY <1>3, <1>4, <1>11, <2>1, LedgerUnchanged DEF ledgerVars, Reporting, Reported
<1>13. CASE SourceUnavailable(w)
  <2>1. /\ s = "prepare" /\ t = "then report" /\ UNCHANGED <<vars, invocations, delivered>>
        /\ errors' = errors \cup {<<a, i>>}
    BY <1>2, <1>5, <1>7, <1>9, <1>13 DEF SourceUnavailable, FailWith, GoTo, RecordRuntimeError
  <2> QED
    BY <1>3, <1>4, <1>11, <2>1, LedgerUnchanged DEF Reporting, Reported
<1>14. CASE PrepareWorktree(w)
  <2>1. /\ s = "prepare" /\ UNCHANGED <<vars, invocations, delivered>>
        /\ \/ t = "session" /\ UNCHANGED errors
           \/ t = "then report" /\ errors' = errors \cup {<<a, i>>}
    BY <1>2, <1>5, <1>7, <1>9, <1>14 DEF PrepareWorktree, Proceed, FailWith, GoTo, RecordRuntimeError
  <2> QED
    BY <1>3, <1>4, <1>11, <2>1, LedgerUnchanged DEF Reporting, Reported
<1>15. CASE OpenSession(w)
  <2>1. s = "session" /\ UNCHANGED <<vars, delivered>>
    BY <1>2, <1>15 DEF OpenSession
  <2>2. \/ \E kind \in {"setup", "runtime"} :
             /\ t = IF kind = "setup" THEN "setup" ELSE "executing"
             /\ invocations' = invocations \cup {Record(a, i, kind, "running")}
             /\ UNCHANGED errors
        \/ t = "clean" /\ UNCHANGED invocations /\ errors' = errors \cup {<<a, i>>}
    BY <1>5, <1>6, <1>7, <1>9, <1>15, WorkerAssumption
       DEF OpenSession, StartRuntimeInvocation, Proceed, BeginRuntime, FailWith, GoTo,
           RecordRuntimeError
  <2>3. CASE \E kind \in {"setup", "runtime"} :
               /\ t = IF kind = "setup" THEN "setup" ELSE "executing"
               /\ invocations' = invocations \cup {Record(a, i, kind, "running")}
               /\ UNCHANGED errors
    BY <1>3, <1>4, <1>11, <2>1, <2>3, LedgerStarts
  <2>4. CASE t = "clean" /\ UNCHANGED invocations /\ errors' = errors \cup {<<a, i>>}
    BY <1>3, <1>4, <1>11, <2>1, <2>4, LedgerUnchanged DEF Reporting, Reported
  <2> QED
    BY <2>2, <2>3, <2>4
<1>16. CASE EndSetup(w)
  <2>1. s = "setup" /\ UNCHANGED <<vars, delivered>>
    BY <1>2, <1>16 DEF EndSetup
  <2>2. \/ /\ t = "executing" /\ UNCHANGED errors
           /\ invocations' = (invocations \ {Record(a, i, "setup", "running")})
                \cup {Record(a, i, "setup", "completed"), Record(a, i, "runtime", "running")}
        \/ /\ t = "report" /\ errors' = errors \cup {<<a, i>>}
           /\ invocations' = (invocations \ {Record(a, i, "setup", "running")})
                \cup {Record(a, i, "setup", "error")}
    BY <1>5, <1>6, <1>7, <1>9, <1>16
       DEF EndSetup, NextInvocation, FinishRuntimeInvocation, BeginRuntime, FailWith, GoTo,
           RecordRuntimeError
  <2>3. CASE t = "executing"
    BY <1>3, <1>4, <1>11, <2>1, <2>2, <2>3, LedgerNext
  <2>4. CASE t = "report"
    <3>1. /\ s \in OpenIn["setup"] /\ "setup" \in Kinds /\ errors \subseteq errors'
          /\ <<a, i>> \in errors' /\ delivered' = delivered /\ t \in Reporting
          /\ invocations' = (invocations \ {Record(a, i, "setup", "running")})
                \cup {Record(a, i, "setup", "error")}
      BY <1>8, <2>1, <2>2, <2>4 DEF Reporting
    <3>2. LedgerMove(a, i, s) /\ LedgerFor(a, i, t)'
      BY <1>3, <1>4, <2>1, <3>1, LedgerFinishes
    <3> QED
      BY <1>4, <1>11, <2>1, <3>2
  <2> QED
    BY <2>2, <2>3, <2>4
<1>17. CASE CancelExecution(w)
  <2>1. ReportsNothing
    BY <1>1, <1>4, <1>17, CancelReports DEF CancelExecution
  <2>2. /\ s = "cancelled" /\ t = "then clean" /\ UNCHANGED delivered
        /\ errors' = errors \cup {<<a, i>>}
        /\ invocations' = (invocations \ {Record(a, i, "runtime", "running")})
             \cup {Record(a, i, "runtime", "error")}
    BY <1>2, <1>5, <1>6, <1>7, <1>9, <1>17
       DEF CancelExecution, FinishRuntimeInvocation, Proceed, GoTo, RecordRuntimeError
  <2>3. s \in OpenIn["runtime"] /\ "runtime" \in Kinds /\ t \notin Reporting /\ errors \subseteq errors'
    BY <1>8, <2>2 DEF Reporting
  <2>4. LedgerMove(a, i, s) /\ LedgerFor(a, i, t)'
    BY <1>3, <2>1, <2>2, <2>3, LedgerFinishes
  <2> QED
    BY <1>11, <2>1, <2>4
<1>18. CASE EndCheck(w)
  <2>1. s = "check" /\ UNCHANGED <<vars, delivered>>
    BY <1>2, <1>18 DEF EndCheck
  <2>2. \/ /\ t = "deliver" /\ UNCHANGED errors
           /\ invocations' = (invocations \ {Record(a, i, "check", "running")})
                \cup {Record(a, i, "check", "completed")}
        \/ /\ t = "report" /\ errors' = errors \cup {<<a, i>>}
           /\ invocations' = (invocations \ {Record(a, i, "check", "running")})
                \cup {Record(a, i, "check", "error")}
        \/ t = "idle" /\ UNCHANGED <<invocations, errors>>
    BY <1>5, <1>6, <1>7, <1>9, <1>18
       DEF EndCheck, FinishRuntimeInvocation, Proceed, FailWith, Leave, GoTo, RecordRuntimeError
  <2>3. CASE t # "idle"
    <3>1. /\ s \in OpenIn["check"] /\ "check" \in Kinds /\ errors \subseteq errors'
          /\ t \in Reporting => <<a, i>> \in errors'
          /\ delivered' = delivered
      BY <1>8, <2>1, <2>2, <2>3 DEF Reporting
    <3>2. \E outcome \in {"completed", "error"} :
            /\ invocations' = (invocations \ {Record(a, i, "check", "running")})
                 \cup {Record(a, i, "check", outcome)}
            /\ t \in Reporting \/ (t = "deliver" /\ outcome = "completed")
      BY <2>2, <2>3 DEF Reporting
    <3>3. LedgerMove(a, i, s) /\ LedgerFor(a, i, t)'
      BY <1>3, <1>4, <2>1, <3>1, <3>2, LedgerFinishes
    <3> QED
      BY <1>4, <1>11, <2>1, <3>3
  <2>4. CASE t = "idle"
    BY <1>4, <1>10, <2>1, <2>2, <2>4, SameLedger
  <2> QED
    BY <2>3, <2>4
<1>19. CASE DeliverGitWork(w)
  <2>1. s = "deliver" /\ UNCHANGED <<vars, invocations>>
    BY <1>2, <1>19 DEF DeliverGitWork
  <2>2. \/ t = "complete" /\ UNCHANGED errors /\ delivered' = delivered \cup {<<a, i>>}
        \/ t = "clean" /\ errors' = errors \cup {<<a, i>>} /\ UNCHANGED delivered
    BY <1>5, <1>7, <1>9, <1>19
       DEF DeliverGitWork, CommitAndPush, Proceed, FailWith, GoTo, RecordRuntimeError
  <2>3. CASE t = "complete" /\ UNCHANGED errors /\ delivered' = delivered \cup {<<a, i>>}
    <3>1. attempts'[a][i] \notin {"completed", "failed"}
      BY <1>3, <1>4, <2>1, StillOpen DEF LedgerFor, Reported, vars
    <3>2. \A kind \in Kinds : Record(a, i, kind, "running") \notin invocations
      BY <1>3, <1>8, <2>1 DEF LedgerFor, Kinds
    <3>3. LedgerFor(a, i, t)'
      BY <1>3, <2>1, <2>3, <3>1, <3>2 DEF LedgerFor, Reporting
    <3> QED
      BY <1>4, <1>11, <2>1, <2>3, <3>3, SameLedger
  <2>4. CASE t = "clean" /\ errors' = errors \cup {<<a, i>>} /\ UNCHANGED delivered
    BY <1>3, <1>4, <1>11, <2>1, <2>4, LedgerUnchanged DEF Reporting, Reported
  <2> QED
    BY <2>2, <2>3, <2>4
<1>20. CASE Complete(w)
  <2>1. s = "complete" /\ t \in {"promote", "idle"} /\ UNCHANGED ledgerVars
    BY <1>2, <1>5, <1>9, <1>20 DEF Complete, Proceed, Leave, GoTo
  <2>2. ReportsNothing \/ ReportsOnly(a, i, "completed")
    BY <1>2, <1>4, <1>20, CompleteReports DEF Complete
  <2>3. LedgerMove(a, i, s)
    BY <2>1, SameLedger DEF ledgerVars
  <2>4. LedgerFor(a, i, "promote")'
    <3>1. \A kind \in Kinds : Record(a, i, kind, "running") \notin invocations
      BY <1>3, <1>8, <2>1 DEF LedgerFor, Kinds
    <3> QED
      BY <2>1, <3>1 DEF LedgerFor, ledgerVars, Reporting, Reported
  <2> QED
    BY <1>10, <2>1, <2>2, <2>3, <2>4
<1>21. CASE EnqueueNewlyReadyAgents(w)
  <2>1. s = "promote" /\ t = "then clean" /\ UNCHANGED ledgerVars
    BY <1>2, <1>5, <1>9, <1>21 DEF EnqueueNewlyReadyAgents, Proceed, GoTo
  <2>2. ReportsNothing
    BY <1>21, SameAttemptsReport DEF EnqueueNewlyReadyAgents, MarkNewlyReadyAgents
  <2> QED
    BY <1>3, <1>11, <2>1, <2>2, LedgerUnchanged DEF ledgerVars, Reporting, Reported
<1>22. CASE FailClaimedAgent(w)
  <2>1. s \in {"report", "then report"} /\ t \in {"then clean", "idle"} /\ UNCHANGED ledgerVars
    BY <1>2, <1>5, <1>9, <1>22 DEF FailClaimedAgent, Leave, GoTo
  <2>2. ReportsNothing \/ ReportsOnly(a, i, "failed")
    BY <1>2, <1>4, <1>22, FailReports DEF FailClaimedAgent
  <2>3. LedgerMove(a, i, s)
    BY <2>1, SameLedger DEF ledgerVars
  <2>4. LedgerFor(a, i, "then clean")'
    <3>1. \A kind \in Kinds : Record(a, i, kind, "running") \notin invocations
      BY <1>3, <1>8, <2>1 DEF LedgerFor, Kinds
    <3> QED
      BY <2>1, <3>1 DEF LedgerFor, ledgerVars, Reporting, Reported
  <2> QED
    BY <1>10, <2>1, <2>2, <2>3, <2>4
<1>23. CASE CleanupWorktreeIfConfigured(w)
  <2>1. /\ UNCHANGED <<vars, ledgerVars>>
        /\ \/ s = "clean" /\ t = "then report"
           \/ s = "then clean" /\ t = "idle"
    BY <1>2, <1>5, <1>9, <1>23 DEF CleanupWorktreeIfConfigured, Proceed, Leave, GoTo
  <2>2. CASE s = "clean" /\ t = "then report"
    <3>1. <<a, i>> \in errors
      BY <1>3, <2>2 DEF LedgerFor, Reporting
    <3> QED
      BY <1>3, <1>4, <1>11, <2>1, <2>2, <3>1, LedgerUnchanged DEF ledgerVars, Reported
  <2>3. CASE t = "idle"
    BY <1>4, <1>10, <2>1, <2>3, SameLedger DEF ledgerVars
  <2> QED
    BY <2>1, <2>2, <2>3
<1> QED
  BY <1>12, <1>13, <1>14, <1>15, <1>16, <1>17, <1>18, <1>19, <1>20, <1>21, <1>22, <1>23
     DEF JobStep

LEMMA RuntimeStepLedger ==
  ASSUME IInv, JobsOK, AttemptsStay, NEW w \in Workers, LedgerOK(w),
         Renew(w) \/ EndRuntime(w) \/ RenewalDies(w) \/ Interrupt(w) \/ Crash(w)
  PROVE  LedgerStep(w)
<1>1. /\ stage[w] \in Stages \ {"idle"} /\ stage'[w] \in Stages
      /\ Agent(w) \in Agents /\ AttemptOf(w) \in Nat
      /\ AttemptOf(w) \in DOMAIN attempts[Agent(w)]
  <2>1. stage[w] # "idle" /\ JobColumns'
    BY RuntimeStepMoves DEF JobMove, Renew, EndRuntime, RenewalDies, Interrupt, Crash
  <2>2. Agent(w) \in Agents /\ AttemptOf(w) \in DOMAIN attempts[Agent(w)]
    BY <2>1 DEF JobsOK, JobOK
  <2>3. AttemptOf(w) \in Nat
    BY <2>2, RowFacts
  <2> QED
    BY <2>1, <2>2, <2>3 DEF JobsOK, JobColumns
<1>2. PICK a \in Agents, i \in Nat, s \in Stages \ {"idle"}, t \in Stages :
        a = Agent(w) /\ i = AttemptOf(w) /\ s = stage[w] /\ t = stage'[w]
  BY <1>1
<1>3. i \in DOMAIN attempts[a] /\ LedgerFor(a, i, s)
  BY <1>1, <1>2 DEF LedgerOK
<1>4. \A x \in Stages : stage' = [stage EXCEPT ![w] = x] => t = x
  BY <1>2 DEF JobsOK, JobColumns
<1>5. \A kind, outcome : Invocation(w, kind, outcome) = Record(a, i, kind, outcome)
  BY <1>2 DEF Invocation, Record
<1>6. <<Agent(w), AttemptOf(w)>> = <<a, i>>
  BY <1>2
<1>7. ReportsNothing
  BY SameAttemptsReport
     DEF Renew, EndRuntime, RenewalDies, Interrupt, Crash, RenewRow, RenewLease, vars
<1>8. LedgerMove(a, i, s) /\ (t # "idle" => LedgerFor(a, i, t)') => LedgerStep(w)
  BY <1>2, <1>7 DEF LedgerStep
<1>9. {"executing", "cancelled", "check", "report", "idle"} \subseteq Stages
  BY DEF Stages
<1>10. CASE Renew(w) \/ RenewalDies(w) \/ Interrupt(w)
  <2>1. s = "executing" /\ t \in {"executing", "cancelled"} /\ UNCHANGED ledgerVars
    BY <1>2, <1>4, <1>9, <1>10 DEF Renew, RenewalDies, Interrupt, CancelTask, GoTo
  <2>2. LedgerMove(a, i, s) /\ LedgerFor(a, i, t)'
    BY <1>3, <1>7, <2>1, LedgerUnchanged DEF ledgerVars, Reporting, Reported
  <2> QED
    BY <1>8, <2>2
<1>11. CASE EndRuntime(w)
  <2>1. s = "executing" /\ UNCHANGED delivered
    BY <1>2, <1>11 DEF EndRuntime
  <2>2. \/ /\ t = "check" /\ UNCHANGED errors
           /\ invocations' = (invocations \ {Record(a, i, "runtime", "running")})
                \cup {Record(a, i, "runtime", "completed"), Record(a, i, "check", "running")}
        \/ /\ t = "report" /\ errors' = errors \cup {<<a, i>>}
           /\ invocations' = (invocations \ {Record(a, i, "runtime", "running")})
                \cup {Record(a, i, "runtime", "error")}
    BY <1>4, <1>5, <1>6, <1>9, <1>11
       DEF EndRuntime, NextInvocation, FinishRuntimeInvocation, FailWith, GoTo, RecordRuntimeError
  <2>3. CASE t = "check"
    BY <1>3, <1>7, <1>8, <2>1, <2>2, <2>3, LedgerNext
  <2>4. CASE t = "report"
    <3>1. "runtime" \in Kinds /\ s \in OpenIn["runtime"] /\ t \in Reporting
      BY <2>1, <2>4 DEF Kinds, OpenIn, Reporting
    <3>2. LedgerMove(a, i, s) /\ LedgerFor(a, i, t)'
      BY <1>3, <1>7, <2>1, <2>2, <2>4, <3>1, LedgerFinishes
    <3> QED
      BY <1>8, <3>2
  <2> QED
    BY <2>2, <2>3, <2>4
<1>12. CASE Crash(w)
  <2>1. t = "idle" /\ UNCHANGED ledgerVars
    BY <1>2, <1>4, <1>9, <1>12 DEF Crash, Leave, GoTo
  <2> QED
    BY <1>8, <2>1, SameLedger DEF ledgerVars
<1> QED
  BY <1>10, <1>11, <1>12

\* No invocation of the attempt is open.
NoneOpen(b, j) == \A kind \in Kinds : Record(b, j, kind, "running") \notin invocations

LEMMA NoneOpenRecords ==
  ASSUME RecordsOK, NEW b, NEW j
  PROVE  NoneOpen(b, j) <=>
           ~ \E r \in invocations : r.agent = b /\ r.attempt = j /\ r.status = "running"
<1>1. ASSUME NEW r \in invocations, r.agent = b, r.attempt = j, r.status = "running"
      PROVE  \E kind \in Kinds : r = Record(b, j, kind, "running")
  BY <1>1 DEF RecordsOK, Record
<1>2. \A kind \in Kinds : /\ Record(b, j, kind, "running").agent = b
                          /\ Record(b, j, kind, "running").attempt = j
                          /\ Record(b, j, kind, "running").status = "running"
  BY DEF Record
<1> QED
  BY <1>1, <1>2 DEF NoneOpen

LEMMA SameJobs ==
  ASSUME NEW x \in [agent : Agents, attempt : Nat], NEW y \in [agent : Agents, attempt : Nat],
         x.agent = y.agent, x.attempt = y.attempt
  PROVE  x = y
  OBVIOUS

LEMMA CompletedStay ==
  ASSUME NEW a, NEW i, NEW s, LedgerMove(a, i, s),
         NEW b, NEW j, NEW kind, Record(b, j, kind, "completed") \in invocations
  PROVE  Record(b, j, kind, "completed") \in invocations'
<1> SUFFICES ASSUME Record(b, j, kind, "completed") \in invocations \ invocations'
             PROVE  FALSE
  OBVIOUS
<1>1. PICK kind2 \in Kinds : Record(b, j, kind, "completed") = Record(a, i, kind2, "running")
  BY DEF LedgerMove
<1> QED
  BY <1>1, RecordsDiffer

LEMMA NoneOpenPrimed ==
  ASSUME RecordsOK', NEW b, NEW j, NoneOpen(b, j)'
  PROVE  ~ \E r \in invocations' : r.agent = b /\ r.attempt = j /\ r.status = "running"
  BY DEF RecordsOK, NoneOpen, Record

\* Another worker's step changes nothing that is said of an attempt.
LEMMA OtherAttempts ==
  ASSUME IInv, AttemptsStay, NEW a \in Agents, NEW i \in Nat, NEW s,
         NEW b \in Agents, NEW j \in DOMAIN attempts[b], NEW u, LedgerFor(b, j, u),
         LedgerMove(a, i, s), ~(a = b /\ i = j),
         ReportsNothing \/ \E o : ReportsOnly(a, i, o)
  PROVE  LedgerFor(b, j, u)'
<1>1. j \in Nat /\ j \in DOMAIN attempts'[b]
  BY RowFacts DEF AttemptsStay
<1>2. attempts[b][j] \notin {"completed", "failed"} => attempts'[b][j] \notin {"completed", "failed"}
  BY <1>1 DEF ReportsNothing, ReportsOnly, Becomes
<1>3. \A kind, kind2, o, p : Record(b, j, kind, o) # Record(a, i, kind2, p)
  BY RecordsDiffer
<1>4. \A kind, o : Record(b, j, kind, o) \in invocations <=> Record(b, j, kind, o) \in invocations'
  BY <1>3 DEF LedgerMove
<1>5. errors \subseteq errors' /\ delivered \subseteq delivered'
  BY DEF LedgerMove
<1> QED
  BY <1>2, <1>4, <1>5 DEF LedgerFor

\* A step of one worker on its job keeps the ledger true.
LEMMA LedgerStepKeeps ==
  ASSUME IInv, JobsOK, DistinctJobs, AttemptsStay, LedgerInv,
         NEW w \in Workers, JobMove(w), LedgerStep(w), TypeOK'
  PROVE  LedgerInv'
<1>1. PICK a \in Agents, i \in Nat, s \in Stages \ {"idle"}, t \in Stages :
        /\ a = Agent(w) /\ i = AttemptOf(w) /\ s = stage[w] /\ t = stage'[w]
        /\ LedgerMove(a, i, s)
        /\ t # "idle" => LedgerFor(a, i, t)'
        /\ \/ ReportsNothing
           \/ /\ UNCHANGED ledgerVars
              /\ \/ s = "complete" /\ ReportsOnly(a, i, "completed")
                 \/ s \in {"report", "then report"} /\ ReportsOnly(a, i, "failed")
  BY DEF LedgerStep
<1>2. i \in DOMAIN attempts[a] /\ LedgerFor(a, i, s)
  BY <1>1 DEF JobsOK, JobOK, LedgerInv, LedgerOK
<1>3. RecordsOK'
  <2> SUFFICES ASSUME NEW r \in invocations'
               PROVE  \E b \in Agents, kind \in Kinds, outcome \in InvocationStatuses :
                        \E j \in DOMAIN attempts'[b] : r = Record(b, j, kind, outcome)
    BY DEF RecordsOK
  <2>1. CASE r \in invocations
    BY <2>1 DEF LedgerInv, RecordsOK, AttemptsStay
  <2>2. CASE r \notin invocations
    <3>1. r \in invocations' \ invocations /\ LedgerMove(a, i, s)
      BY <1>1, <2>2
    <3>2. PICK kind \in Kinds, outcome \in InvocationStatuses : r = Record(a, i, kind, outcome)
      BY <3>1 DEF LedgerMove
    <3>3. i \in DOMAIN attempts'[a]
      BY <1>2 DEF AttemptsStay
    <3> QED
      BY <3>2, <3>3
  <2> QED
    BY <2>1, <2>2
<1>4. ASSUME NEW v \in Workers
      PROVE  LedgerOK(v)'
  <2>1. CASE v = w
    <3>1. t # "idle" => job'[w] = job[w]
      BY <1>1 DEF JobMove
    <3> QED
      BY <1>1, <2>1, <3>1 DEF LedgerOK, Agent, AttemptOf
  <2>2. CASE v # w /\ stage[v] # "idle"
    <3>1. Same(v)
      BY <2>2 DEF JobMove, Others
    <3>2. PICK b \in Agents, j \in DOMAIN attempts[Agent(v)], u \in Stages :
            b = Agent(v) /\ j = AttemptOf(v) /\ u = stage[v]
      BY <2>2 DEF JobsOK, JobOK, JobColumns
    <3>3. ~(a = b /\ i = j)
      <4>1. job[v] # job[w]
        BY <1>1, <2>2 DEF DistinctJobs
      <4>2. job[v] \in [agent : Agents, attempt : Nat] /\ job[w] \in [agent : Agents, attempt : Nat]
        <5>1. ASSUME NEW x \in Workers, stage[x] # "idle"
              PROVE  job[x].attempt # 0
          <6>1. Agent(x) \in Agents /\ AttemptOf(x) \in DOMAIN attempts[Agent(x)]
            BY <5>1 DEF JobsOK, JobOK
          <6> QED
            BY <6>1, RowFacts DEF AttemptOf
        <5>2. NoJob.attempt = 0
          BY DEF NoJob
        <5> QED
          BY <1>1, <2>2, <5>1, <5>2 DEF JobsOK, JobColumns
      <4> QED
        BY <1>1, <3>2, <4>1, <4>2, SameJobs DEF Agent, AttemptOf
    <3>4. LedgerFor(b, j, u)
      BY <2>2, <3>2 DEF LedgerInv, LedgerOK
    <3>5. ReportsNothing \/ \E o : ReportsOnly(a, i, o)
      BY <1>1
    <3>6. LedgerFor(b, j, u)'
      BY <1>1, <3>2, <3>3, <3>4, <3>5, OtherAttempts
    <3> QED
      BY <3>1, <3>2, <3>6 DEF Same, LedgerOK, Agent, AttemptOf
  <2>3. CASE v # w /\ stage[v] = "idle"
    BY <2>3 DEF JobMove, Others, Same, LedgerOK
  <2> QED
    BY <2>1, <2>2, <2>3
<1>5. CompletionIsEarned'
  <2> SUFFICES ASSUME NEW b \in Agents, NEW j \in DOMAIN attempts'[b],
                      attempts'[b][j] = "completed"
               PROVE  /\ \A kind \in {"runtime", "check"} :
                           Record(b, j, kind, "completed") \in invocations'
                      /\ <<b, j>> \in delivered'
    BY DEF CompletionIsEarned, Record
  <2>1. \A kind : Record(b, j, kind, "completed") \in invocations =>
                  Record(b, j, kind, "completed") \in invocations'
    BY <1>1, CompletedStay
  <2>2. CASE j \in DOMAIN attempts[b] /\ attempts[b][j] = "completed"
    BY <1>1, <2>1, <2>2 DEF LedgerInv, CompletionIsEarned, Record, LedgerMove
  <2>3. CASE ~(j \in DOMAIN attempts[b] /\ attempts[b][j] = "completed")
    <3>1. j \in Nat
      <4>1. attempts' \in [Agents -> Seq(AttemptStatuses)]
        BY DEF TypeOK
      <4> QED
        BY <4>1, LenProperties
    <3>2. Becomes(b, j, "completed")
      BY <2>3 DEF Becomes
    <3>3. a = b /\ i = j /\ s = "complete" /\ UNCHANGED ledgerVars
      BY <1>1, <3>1, <3>2 DEF ReportsNothing, ReportsOnly
    <3> QED
      BY <1>2, <3>3 DEF LedgerFor, ledgerVars
  <2> QED
    BY <2>2, <2>3
<1>6. ReportedAttemptIsClosed'
  <2> SUFFICES ASSUME NEW b \in Agents, NEW j \in DOMAIN attempts'[b],
                      NEW o \in {"completed", "failed"}, attempts'[b][j] = o
               PROVE  /\ o = "failed" => <<b, j>> \in errors'
                      /\ NoneOpen(b, j)'
    BY <1>3, NoneOpenPrimed DEF ReportedAttemptIsClosed
  <2>1. CASE j \in DOMAIN attempts[b] /\ attempts[b][j] = o
    <3>1. NoneOpen(b, j) /\ (o = "failed" => <<b, j>> \in errors)
      BY <2>1, NoneOpenRecords DEF LedgerInv, ReportedAttemptIsClosed
    <3>2. ASSUME NEW kind \in Kinds, Record(b, j, kind, "running") \in invocations'
          PROVE  FALSE
      <4>1. Record(b, j, kind, "running") \in invocations' \ invocations
        BY <3>1, <3>2 DEF NoneOpen
      <4>2. PICK kind2 \in Kinds, outcome \in InvocationStatuses :
              /\ Record(b, j, kind, "running") = Record(a, i, kind2, outcome)
              /\ outcome = "running" => s \in {"session", "setup", "executing"}
        BY <1>1, <4>1 DEF LedgerMove
      <4>3. a = b /\ i = j /\ outcome = "running"
        BY <4>2, RecordsDiffer
      <4> QED
        BY <1>2, <2>1, <4>2, <4>3 DEF LedgerFor, Reported
    <3> QED
      BY <1>1, <3>1, <3>2 DEF NoneOpen, LedgerMove
  <2>2. CASE ~(j \in DOMAIN attempts[b] /\ attempts[b][j] = o)
    <3>1. j \in Nat
      <4>1. attempts' \in [Agents -> Seq(AttemptStatuses)]
        BY DEF TypeOK
      <4> QED
        BY <4>1, LenProperties
    <3>2. Becomes(b, j, o)
      BY <2>2 DEF Becomes
    <3>3. /\ a = b /\ i = j /\ UNCHANGED ledgerVars
          /\ s = "complete" \/ s \in {"report", "then report"}
          /\ o = "failed" => s \in {"report", "then report"}
      BY <1>1, <3>1, <3>2 DEF ReportsNothing, ReportsOnly
    <3>4. NoneOpen(b, j)
      <4>1. \A kind \in Kinds : s \notin OpenIn[kind]
        <5>1. /\ OpenIn["setup"] = {"setup"}
              /\ OpenIn["runtime"] = {"executing", "cancelled"}
              /\ OpenIn["check"] = {"check"}
          BY DEF OpenIn
        <5> QED
          BY <3>3, <5>1 DEF Kinds
      <4> QED
        BY <1>2, <3>3, <4>1 DEF LedgerFor, NoneOpen
    <3>5. o = "failed" => <<b, j>> \in errors
      BY <1>2, <3>3 DEF LedgerFor, Reporting
    <3> QED
      BY <3>3, <3>4, <3>5 DEF ledgerVars, NoneOpen
  <2> QED
    BY <2>1, <2>2
<1> QED
  BY <1>3, <1>4, <1>5, <1>6 DEF LedgerInv

\* A step that reports nothing and leaves the ledger alone.
LEMMA QuietStepKeeps ==
  ASSUME IInv, TypeOK', JobsOK, AttemptsStay, ReportsNothing, UNCHANGED ledgerVars, LedgerInv
  PROVE  /\ RecordsOK' /\ CompletionIsEarned' /\ ReportedAttemptIsClosed'
         /\ \A v \in Workers : Same(v) => LedgerOK(v)'
<1>1. RecordsOK'
  BY DEF LedgerInv, RecordsOK, AttemptsStay, ledgerVars
<1>2. ASSUME NEW b \in Agents, NEW j \in DOMAIN attempts'[b],
             attempts'[b][j] \in {"completed", "failed"}
      PROVE  j \in DOMAIN attempts[b] /\ attempts'[b][j] = attempts[b][j]
  <2>1. j \in Nat
    <3>1. attempts' \in [Agents -> Seq(AttemptStatuses)]
      BY DEF TypeOK
    <3> QED
      BY <3>1, LenProperties
  <2> QED
    BY <1>2, <2>1 DEF ReportsNothing, Becomes
<1>3. CompletionIsEarned'
  BY <1>2 DEF LedgerInv, CompletionIsEarned, ledgerVars
<1>4. ReportedAttemptIsClosed'
  BY <1>2 DEF LedgerInv, ReportedAttemptIsClosed, ledgerVars
<1>5. ASSUME NEW v \in Workers, Same(v)
      PROVE  LedgerOK(v)'
  <2>1. CASE stage[v] # "idle"
    <3>1. PICK b \in Agents, j \in DOMAIN attempts[Agent(v)], u \in Stages :
            b = Agent(v) /\ j = AttemptOf(v) /\ u = stage[v]
      BY <2>1 DEF JobsOK, JobOK, JobColumns
    <3>2. LedgerFor(b, j, u)
      BY <2>1, <3>1 DEF LedgerInv, LedgerOK
    <3>3. LedgerFor(b, j, u)'
      <4>1. attempts[b][j] \notin {"completed", "failed"} =>
              attempts'[b][j] \notin {"completed", "failed"}
        BY <3>1, StillOpen
      <4> QED
        BY <3>2, <4>1 DEF LedgerFor, ledgerVars
    <3> QED
      BY <1>5, <3>1, <3>3 DEF Same, LedgerOK, Agent, AttemptOf
  <2>2. CASE stage[v] = "idle"
    BY <1>5, <2>2 DEF Same, LedgerOK
  <2> QED
    BY <2>1, <2>2
<1> QED
  BY <1>1, <1>3, <1>4, <1>5

\* A claim starts an attempt of which the ledger says nothing yet.
LEMMA ClaimKeepsLedger ==
  ASSUME IInv, TypeOK', JobsOK, AttemptsStay, LedgerInv,
         NEW w \in Workers, NEW a \in Agents, Claim(w, a)
  PROVE  LedgerInv'
<1>1. ReportsNothing /\ UNCHANGED ledgerVars
  BY ClaimReports DEF Claim
<1>2. PICK i \in Nat : i = Len(attempts'[a])
  BY ClaimAppends, RowFacts DEF Claim
<1>3. /\ Others(w) /\ stage'[w] = "claimed"
      /\ job'[w] = [agent |-> a, attempt |-> i]
  BY <1>2, ClaimMoves
<1>4. LedgerFor(a, i, "claimed")'
  <2>1. i \notin DOMAIN attempts[a] /\ attempts'[a][i] = "running"
    BY <1>2, ClaimAppends DEF Claim
  <2>2. ASSUME NEW kind \in Kinds, Record(a, i, kind, "running") \in invocations
        PROVE  FALSE
    <3>1. PICK b \in Agents, kind2 \in Kinds, outcome \in InvocationStatuses :
            \E j \in DOMAIN attempts[b] : Record(a, i, kind, "running") = Record(b, j, kind2, outcome)
      BY <2>2 DEF LedgerInv, RecordsOK
    <3> QED
      BY <2>1, <3>1, RecordsDiffer
  <2>3. "claimed" \notin Reporting \cup {"check", "deliver", "complete"}
    BY DEF Reporting
  <2> QED
    BY <1>1, <2>1, <2>2, <2>3 DEF LedgerFor, ledgerVars
<1>5. LedgerOK(w)'
  BY <1>3, <1>4 DEF LedgerOK, Agent, AttemptOf
<1> QED
  BY <1>1, <1>3, <1>5, QuietStepKeeps DEF LedgerInv, Others

LEMMA StepLedger ==
  ASSUME JobInv, LedgerInv, [WorkerNext]_workerVars
  PROVE  LedgerInv'
<1>1. IInv /\ JobsOK /\ DistinctJobs /\ [Next]_vars
  BY StepObeysRunState DEF JobInv
<1>2. AttemptsStay /\ TypeOK'
  BY <1>1, StepKeepsAttempts, StepIInv DEF IInv
<1>3. ASSUME NEW w \in Workers, NEW a \in Agents, Claim(w, a)
      PROVE  LedgerInv'
  BY <1>1, <1>2, <1>3, ClaimKeepsLedger
<1>4. ASSUME NEW w \in Workers,
             JobStep(w) \/ Renew(w) \/ EndRuntime(w) \/ RenewalDies(w) \/ Interrupt(w) \/ Crash(w)
      PROVE  LedgerInv'
  <2>1. LedgerOK(w)
    BY DEF LedgerInv
  <2>2. JobMove(w) /\ LedgerStep(w)
    BY <1>1, <1>2, <1>4, <2>1, JobStepMoves, RuntimeStepMoves, JobStepLedger, RuntimeStepLedger
  <2> QED
    BY <1>1, <1>2, <2>2, LedgerStepKeeps
<1>5. ASSUME UNCHANGED jobVars, UNCHANGED ledgerVars, ReportsNothing
      PROVE  LedgerInv'
  <2>1. \A v \in Workers : Same(v)
    BY <1>5 DEF jobVars, Same
  <2> QED
    BY <1>1, <1>2, <1>5, <2>1, QuietStepKeeps DEF LedgerInv
<1>6. ASSUME NEW a \in Agents, LeasePasses(a) \/ LeaseKeyExpires(a) \/ CancelWorker(a)
      PROVE  LedgerInv'
  <2>1. UNCHANGED jobVars /\ UNCHANGED ledgerVars
    BY <1>6 DEF LeasePasses, LeaseKeyExpires, CancelWorker
  <2>2. ReportsNothing
    BY <1>1, <1>6, CancelReports, SameAttemptsReport
       DEF LeasePasses, LeaseKeyExpires, CancelWorker, LeaseLapses, vars
  <2> QED
    BY <1>5, <2>1, <2>2
<1>7. ASSUME RedisLosesKeys \/ Reap \/ CancelCommand \/ PublishCancel \/ ResumeCommand \/ Refresh
      PROVE  LedgerInv'
  <2>1. UNCHANGED jobVars /\ UNCHANGED ledgerVars
    BY <1>7 DEF RedisLosesKeys, Reap, CancelCommand, PublishCancel, ResumeCommand, Refresh
  <2>2. ReportsNothing
    <3>1. CASE Reap
      BY <1>1, <3>1, ExpireReports, SameAttemptsReport DEF Reap, ExpireStaleLeases
    <3>2. CASE CancelCommand
      BY <1>1, <3>2, CancelReports DEF CancelCommand
    <3>3. CASE RedisLosesKeys \/ PublishCancel \/ ResumeCommand \/ Refresh
      BY <3>3, SameAttemptsReport
         DEF RedisLosesKeys, PublishCancel, ResumeCommand, Refresh, ResumeRun, RefreshRunStatus, vars
    <3> QED
      BY <1>7, <3>1, <3>2, <3>3
  <2> QED
    BY <1>5, <2>1, <2>2
<1>8. CASE UNCHANGED workerVars
  <2>1. UNCHANGED jobVars /\ UNCHANGED ledgerVars /\ ReportsNothing
    BY <1>8, SameAttemptsReport DEF workerVars, vars
  <2> QED
    BY <1>5, <2>1
<1> QED
  BY <1>3, <1>4, <1>6, <1>7, <1>8 DEF WorkerNext

LEMMA InitLedger ==
  ASSUME WorkerInit
  PROVE  LedgerInv
<1>1. \A a \in Agents : DOMAIN attempts[a] = {}
  BY DEF WorkerInit, Init
<1> QED
  BY <1>1 DEF WorkerInit, LedgerInv, RecordsOK, LedgerOK, CompletionIsEarned, ReportedAttemptIsClosed

LEMMA LedgerInvariance == WorkerSpec => []LedgerInv
<1>1. WorkerInit => LedgerInv
  BY InitLedger
<1>2. JobInv /\ LedgerInv /\ [WorkerNext]_workerVars => LedgerInv'
  BY StepLedger
<1> QED
  BY <1>1, <1>2, JobInvariance, PTL DEF WorkerSpec

(***************************************************************************)
(* However many workers execute an agent at a time, an attempt completes   *)
(* on the strength of its own runtime, check and delivery.                 *)
(***************************************************************************)
THEOREM CompletedIsEarned == WorkerSpec => []CompletionIsEarned
<1>1. LedgerInv => CompletionIsEarned
  BY DEF LedgerInv
<1> QED
  BY <1>1, LedgerInvariance, PTL

(***************************************************************************)
(* A failed attempt has its error on record, and no reported attempt has   *)
(* an invocation that looks as if it were running.                         *)
(***************************************************************************)
THEOREM ReportedIsClosed == WorkerSpec => []ReportedAttemptIsClosed
<1>1. LedgerInv => ReportedAttemptIsClosed
  BY DEF LedgerInv
<1> QED
  BY <1>1, LedgerInvariance, PTL

-----------------------------------------------------------------------------
(* The race between a renewal and the reaper. *)

\* Only the expiry of its row makes an attempt expired.
LEMMA ExpiredByReaper ==
  ASSUME IInv, [Next]_vars, NEW a \in Agents, NEW i \in DOMAIN attempts[a],
         attempts[a][i] # "expired", attempts'[a][i] = "expired"
  PROVE  ExpireRow(a)
<1> DEFINE Not == attempts'[a][i] # "expired"
<1>1. {"completed", "failed", "cancelled", "expired"} \subseteq AttemptStatuses
  BY DEF AttemptStatuses
<1>2. ASSUME NEW first, NEW outcome \in AttemptStatuses, EndsReport(first, outcome),
             outcome # "expired" \/ a \notin first
      PROVE  i \in DOMAIN attempts'[a] => Not
  BY <1>2, EndsReported
<1>3. i \in DOMAIN attempts'[a]
  BY StepKeepsAttempts DEF AttemptsStay
<1>4. ASSUME NEW b \in Agents, NEW j \in DOMAIN attempts[b], NEW c \in Costs, CompleteAgent(b, j, c)
      PROVE  FALSE
  <2>1. EndsReport({b}, "completed")
    BY <1>4 DEF CompleteAgent, EndsReport
  <2> QED
    BY <1>1, <1>2, <1>3, <2>1
<1>5. ASSUME NEW b \in Agents, NEW j \in DOMAIN attempts[b], NEW r \in FailureReports,
             FailAgentRetry(b, j) \/ FailAgentFinal(b, j, r[1], r[2])
      PROVE  FALSE
  <2>1. EndsReport({b}, "failed")
    BY <1>5 DEF FailAgentRetry, FailAgentFinal, EndsReport
  <2> QED
    BY <1>1, <1>2, <1>3, <2>1
<1>6. ASSUME CancelRun \/ \E b \in Agents : CancelAgent(b)
      PROVE  FALSE
  <2>1. PICK rows : EndsReport(rows, "cancelled")
    BY <1>6 DEF CancelRun, CancelAgent, EndsReport
  <2> QED
    BY <1>1, <1>2, <1>3, <2>1
<1>7. ASSUME NEW b \in Agents, ExpireRow(b)
      PROVE  b = a
  <2>1. EndsReport({b}, "expired")
    BY <1>7 DEF ExpireRow, EndsReport
  <2> QED
    BY <1>1, <1>2, <1>3, <2>1
<1>8. ASSUME NEW b \in Agents, ClaimAgent(b)
      PROVE  FALSE
  BY <1>3, <1>8, ClaimAppends
<1>9. ASSUME \/ UNCHANGED vars
             \/ \E m \in Managers, d \in DynamicAgents : SpawnWorkerAgent(m, d)
             \/ \E b \in Agents : LeaseLapses(b) \/ RenewLease(b, lease_token[b])
             \/ ResumeRun \/ MarkNewlyReadyAgents \/ ExpireStaleLeases
             \/ RefreshRunStatus \/ CallerDies
      PROVE  UNCHANGED attempts
  BY <1>9 DEF vars, SpawnWorkerAgent, LeaseLapses, RenewLease, ResumeRun, MarkNewlyReadyAgents,
              ExpireStaleLeases, RefreshRunStatus, CallerDies
<1>10. \E r : r \in FailureReports
  BY DEF FailureReports
<1> QED
  BY <1>4, <1>5, <1>6, <1>7, <1>8, <1>9, <1>10 DEF Next

\* The clock of the rows does not run: no lease lapses, and what an expiry
\* pass reads had lapsed.
ClockStands ==
  /\ \A a \in Agents : leased_until'[a] \in {leased_until[a], "null", "future"}
  /\ \A a \in expiring' : a \in expiring \/ leased_until[a] = "past"

LEMMA OnlyTheClockRuns ==
  ASSUME IInv, [Transaction]_vars
  PROVE  ClockStands
<1>1. \A rows : ReleaseLeases(rows) =>
        \A a \in Agents : leased_until'[a] \in {leased_until[a], "null", "future"}
  BY DEF ReleaseLeases, Updated
<1>2. ASSUME NEW a \in Agents, ClaimAgent(a) \/ RenewLease(a, lease_token[a])
      PROVE  ClockStands
  BY <1>2 DEF ClaimAgent, RenewLease, ClockStands, IInv, TypeOK
<1>3. ASSUME NEW a \in Agents, NEW i \in DOMAIN attempts[a], NEW c \in Costs, CompleteAgent(a, i, c)
      PROVE  ClockStands
  BY <1>1, <1>3 DEF CompleteAgent, ClockStands
<1>4. ASSUME NEW a \in Agents, NEW i \in DOMAIN attempts[a], NEW r \in FailureReports,
             FailAgentRetry(a, i) \/ FailAgentFinal(a, i, r[1], r[2])
      PROVE  ClockStands
  BY <1>1, <1>4 DEF FailAgentRetry, FailAgentFinal, ClockStands
<1>5. ASSUME CancelRun \/ ResumeRun \/ \E a \in Agents : CancelAgent(a)
      PROVE  ClockStands
  BY <1>1, <1>5 DEF CancelRun, ResumeRun, CancelAgent, ClockStands
<1>6. ASSUME NEW a \in Agents, ExpireRow(a)
      PROVE  ClockStands
  BY <1>1, <1>6 DEF ExpireRow, ClockStands
<1>7. CASE ExpireStaleLeases
  BY <1>7 DEF ExpireStaleLeases, ClockStands
<1>8. ASSUME UNCHANGED vars \/ MarkNewlyReadyAgents \/ RefreshRunStatus
      PROVE  ClockStands
  BY <1>8 DEF vars, MarkNewlyReadyAgents, RefreshRunStatus, ClockStands
<1>9. \E r : r \in FailureReports
  BY DEF FailureReports
<1> QED
  BY <1>2, <1>3, <1>4, <1>5, <1>6, <1>7, <1>8, <1>9 DEF Transaction

\* While a worker renews, its lease is good and no expiry pass has its row.
Renews(w) == renewal[w] = "renewing" /\ KeyIsMine(w) /\ RowIsMine(w)
LeaseIsGood(w) == leased_until[Agent(w)] = "future" /\ Agent(w) \notin expiring
RenewInv == /\ lease_key \in [Agents -> Nat]
            /\ \A w \in Workers : Renews(w) => LeaseIsGood(w)

\* A row does not become that of an attempt it was not.
LEMMA RowBecomesMine ==
  ASSUME IInv, JobsOK, [Next]_vars, NEW v \in Workers, stage[v] # "idle", Same(v), RowIsMine(v)'
  PROVE  RowIsMine(v)
<1> DEFINE b == Agent(v)
           j == AttemptOf(v)
<1>1. b \in Agents /\ j \in DOMAIN attempts[b]
  BY DEF JobsOK, JobOK
<1>2. status'[b] = "running" /\ lease_token'[b] = j
  BY DEF Same, RowIsMine, Agent, AttemptOf
<1> HIDE DEF b, j
<1>3. CASE \A a \in Agents : RowStep(a)
  BY <1>1, <1>2, <1>3 DEF RowStep, LeaseStep, RowIsMine, b, j
<1>4. ASSUME NEW m \in Managers, NEW d \in DynamicAgents, SpawnWorkerAgent(m, d)
      PROVE  status[b] = "running" /\ lease_token[b] = j
  BY <1>1, <1>2, <1>4 DEF SpawnWorkerAgent, IInv, TypeOK
<1>5. ASSUME NEW a \in Agents, ClaimAgent(a)
      PROVE  status[b] = "running" /\ lease_token[b] = j
  <2>1. lease_token'[a] = Len(attempts[a]) + 1
    BY <1>5 DEF ClaimAgent, IInv, TypeOK
  <2>2. a # b
    BY <1>1, <1>2, <2>1, RowFacts
  <2> QED
    BY <1>1, <1>2, <1>5, <2>2 DEF ClaimAgent, IInv, TypeOK
<1> QED
  BY <1>3, <1>4, <1>5, StepKinds DEF RowIsMine, b, j

\* Nor does the key of an agent, because jobs are distinct.
LEMMA KeyBecomesMine ==
  ASSUME IInv, JobsOK, DistinctJobs, RenewInv, [WorkerNext]_workerVars,
         NEW v \in Workers, stage[v] # "idle", Same(v), KeyIsMine(v)'
  PROVE  KeyIsMine(v)
<1>1. /\ Agent(v) \in Agents /\ AttemptOf(v) # 0
      /\ lease_key'[Agent(v)] = AttemptOf(v)
  <2>1. Agent(v) \in Agents /\ AttemptOf(v) \in DOMAIN attempts[Agent(v)]
    BY DEF JobsOK, JobOK
  <2> QED
    BY <2>1, RowFacts DEF Same, KeyIsMine, Agent, AttemptOf
<1>2. CASE UNCHANGED lease_key
  BY <1>1, <1>2 DEF KeyIsMine
<1>3. ASSUME NEW w \in Workers, SetLease(w)
      PROVE  KeyIsMine(v)
  <2>1. /\ stage[w] # "idle" /\ stage'[w] # stage[w]
        /\ lease_key' = [lease_key EXCEPT ![Agent(w)] = AttemptOf(w)]
    BY <1>3 DEF SetLease, Proceed, GoTo, JobsOK, JobColumns
  <2>2. v # w
    BY <2>1 DEF Same
  <2>3. CASE Agent(w) = Agent(v)
    <3>1. AttemptOf(w) = AttemptOf(v)
      BY <1>1, <2>1, <2>3 DEF RenewInv
    <3>2. job[v] \in [agent : Agents, attempt : Nat] /\ job[w] \in [agent : Agents, attempt : Nat]
      <4>1. AttemptOf(w) # 0 /\ NoJob.attempt = 0
        BY <1>1, <3>1 DEF NoJob
      <4> QED
        BY <1>1, <4>1 DEF JobsOK, JobColumns, AttemptOf
    <3>3. job[v] = job[w]
      BY <2>3, <3>1, <3>2, SameJobs DEF Agent, AttemptOf
    <3> QED
      BY <2>1, <2>2, <3>3 DEF DistinctJobs
  <2>4. CASE Agent(w) # Agent(v)
    BY <1>1, <2>1, <2>4 DEF KeyIsMine, RenewInv
  <2> QED
    BY <2>3, <2>4
<1>4. ASSUME NEW a \in Agents, LeaseKeyExpires(a)
      PROVE  KeyIsMine(v)
  BY <1>1, <1>4 DEF LeaseKeyExpires, KeyIsMine, RenewInv
<1>5. CASE RedisLosesKeys
  BY <1>1, <1>5 DEF RedisLosesKeys
<1>6. \/ UNCHANGED lease_key \/ RedisLosesKeys
      \/ \E w \in Workers : SetLease(w)
      \/ \E a \in Agents : LeaseKeyExpires(a)
  <2>1. ASSUME NEW w \in Workers, JobStep(w), ~SetLease(w)
        PROVE  UNCHANGED lease_key
    BY <2>1 DEF JobStep, SourceUnavailable, PrepareWorktree, OpenSession, EndSetup, CancelExecution,
         EndCheck, DeliverGitWork, Complete, EnqueueNewlyReadyAgents, FailClaimedAgent,
         CleanupWorktreeIfConfigured, redisVars
  <2>2. ASSUME NEW w \in Workers,
               Renew(w) \/ EndRuntime(w) \/ RenewalDies(w) \/ Interrupt(w) \/ Crash(w)
                 \/ \E a \in Agents : Claim(w, a)
        PROVE  UNCHANGED lease_key
    BY <2>2 DEF Renew, EndRuntime, RenewalDies, Interrupt, Crash, Claim, redisVars
  <2>3. ASSUME \/ Reap \/ CancelCommand \/ PublishCancel \/ ResumeCommand \/ Refresh
               \/ \E a \in Agents : LeasePasses(a) \/ CancelWorker(a)
               \/ UNCHANGED workerVars
        PROVE  UNCHANGED lease_key
    BY <2>3 DEF Reap, CancelCommand, PublishCancel, ResumeCommand, Refresh, LeasePasses,
                CancelWorker, workerVars, redisVars
  <2> QED
    BY <2>1, <2>2, <2>3 DEF WorkerNext
<1> QED
  BY <1>2, <1>3, <1>4, <1>5, <1>6

LEMMA StepKeyType ==
  ASSUME JobsOK, RenewInv, [WorkerNext]_workerVars
  PROVE  lease_key' \in [Agents -> Nat]
<1>1. ASSUME NEW w \in Workers, JobStep(w)
      PROVE  lease_key' \in [Agents -> Nat]
  <2>1. CASE SetLease(w)
    <3>1. job[w].attempt \in Nat
      BY <2>1 DEF SetLease, JobsOK, JobColumns, NoJob
    <3> QED
      BY <2>1, <3>1 DEF SetLease, RenewInv, AttemptOf
  <2>2. CASE ~SetLease(w)
    BY <1>1, <2>2 DEF JobStep, SourceUnavailable, PrepareWorktree, OpenSession, EndSetup,
         CancelExecution, EndCheck, DeliverGitWork, Complete, EnqueueNewlyReadyAgents,
         FailClaimedAgent, CleanupWorktreeIfConfigured, redisVars, RenewInv
  <2> QED
    BY <2>1, <2>2
<1>2. ASSUME NEW w \in Workers,
             Renew(w) \/ EndRuntime(w) \/ RenewalDies(w) \/ Interrupt(w) \/ Crash(w)
               \/ \E a \in Agents : Claim(w, a)
      PROVE  lease_key' \in [Agents -> Nat]
  BY <1>2 DEF Renew, EndRuntime, RenewalDies, Interrupt, Crash, Claim, redisVars, RenewInv
<1>3. ASSUME \/ Reap \/ CancelCommand \/ PublishCancel \/ ResumeCommand \/ Refresh
             \/ \E a \in Agents : LeasePasses(a) \/ CancelWorker(a) \/ LeaseKeyExpires(a)
             \/ RedisLosesKeys \/ UNCHANGED workerVars
      PROVE  lease_key' \in [Agents -> Nat]
  BY <1>3 DEF Reap, CancelCommand, PublishCancel, ResumeCommand, Refresh, LeasePasses,
              CancelWorker, LeaseKeyExpires, RedisLosesKeys, workerVars, redisVars, RenewInv
<1> QED
  BY <1>1, <1>2, <1>3 DEF WorkerNext

\* A worker that moves to a renewing task, or with one, has just renewed.
LEMMA RenewalIsFresh ==
  ASSUME IInv, JobsOK, NEW w \in Workers, Renew(w), renewal'[w] = "renewing"
  PROVE  LeaseIsGood(w)'
<1>1. stage[w] = "executing" /\ Agent(w) \in Agents
  BY DEF Renew, JobsOK, JobOK
<1>2. ~CancelTask(w)
  BY DEF CancelTask, JobsOK, JobColumns
<1>3. UNCHANGED job /\ RowIsMine(w) /\ RenewRow(w)
  BY <1>2 DEF Renew
<1>4. Idle /\ expiring' = expiring
  BY <1>3 DEF RenewRow, RenewLease, vars
<1>5. leased_until[Agent(w)] \in {"future", "past"}
  BY <1>1, <1>3, RowFacts DEF RowIsMine, IInv, TypeOK
<1>6. leased_until'[Agent(w)] = "future"
  <2>1. CASE leased_until[Agent(w)] = "past"
    BY <1>1, <1>3, <2>1 DEF RenewRow, RenewLease, IInv, TypeOK
  <2>2. CASE leased_until[Agent(w)] = "future"
    BY <1>3, <2>2 DEF RenewRow, vars
  <2> QED
    BY <1>5, <2>1, <2>2
<1> QED
  BY <1>3, <1>4, <1>6 DEF LeaseIsGood, Idle, Agent

\* No other step of a worker leaves it with a renewing task.
LEMMA OnlyRenewRenews ==
  ASSUME JobsOK, NEW w \in Workers,
         \/ JobStep(w) \/ EndRuntime(w) \/ RenewalDies(w) \/ Interrupt(w) \/ Crash(w)
         \/ \E a \in Agents : Claim(w, a)
  PROVE  renewal'[w] # "renewing"
<1>1. stage[w] # "executing" => renewal[w] # "renewing"
  BY DEF JobsOK, JobOK
<1>2. ASSUME BeginRuntime(w) \/ CancelTask(w) \/ Leave(w)
      PROVE  renewal'[w] # "renewing"
  BY <1>2 DEF BeginRuntime, CancelTask, Leave, JobsOK, JobColumns
<1>3. CASE JobStep(w)
  <2> DEFINE Result == stage[w] # "executing" /\ (UNCHANGED renewal \/ BeginRuntime(w) \/ Leave(w))
  <2> SUFFICES Result
    BY <1>1, <1>2
  <2>1. CASE SetLease(w) \/ SourceUnavailable(w) \/ PrepareWorktree(w) \/ OpenSession(w)
    BY <2>1 DEF SetLease, SourceUnavailable, PrepareWorktree, OpenSession, Proceed
  <2>2. CASE EndSetup(w) \/ CancelExecution(w) \/ EndCheck(w) \/ DeliverGitWork(w)
    BY <2>2 DEF EndSetup, CancelExecution, EndCheck, DeliverGitWork, Proceed
  <2>3. CASE Complete(w) \/ EnqueueNewlyReadyAgents(w)
    BY <2>3 DEF Complete, EnqueueNewlyReadyAgents, Proceed
  <2>4. CASE FailClaimedAgent(w)
    BY <2>4 DEF FailClaimedAgent
  <2>5. CASE CleanupWorktreeIfConfigured(w)
    BY <2>5 DEF CleanupWorktreeIfConfigured, Proceed
  <2> QED
    BY <1>3, <2>1, <2>2, <2>3, <2>4, <2>5 DEF JobStep
<1>4. CASE EndRuntime(w) \/ RenewalDies(w)
  BY <1>4 DEF EndRuntime, RenewalDies, JobsOK, JobColumns
<1>5. CASE Interrupt(w) \/ Crash(w)
  BY <1>2, <1>5 DEF Interrupt, Crash
<1>6. CASE \E a \in Agents : Claim(w, a)
  BY <1>1, <1>6 DEF Claim
<1> QED
  BY <1>3, <1>4, <1>5, <1>6

\* A worker that does not move keeps a good lease while it renews.
LEMMA SameRenews ==
  ASSUME JobInv, RenewInv, IInv', [WorkerNext]_workerVars,
         NEW v \in Workers, Same(v), Renews(v)'
  PROVE  LeaseIsGood(v)'
<1>1. /\ stage[v] # "idle" /\ Agent(v) \in Agents
      /\ Agent(v)' = Agent(v) /\ AttemptOf(v)' = AttemptOf(v)
      /\ renewal[v] = "renewing"
  BY DEF JobInv, JobsOK, JobOK, Same, Renews, Agent, AttemptOf
<1>2. Renews(v)
  BY <1>1, RowBecomesMine, KeyBecomesMine, StepObeysRunState DEF JobInv, Renews
<1>3. LeaseIsGood(v)
  BY <1>2 DEF RenewInv
<1>4. leased_until'[Agent(v)] # "null"
  BY <1>1 DEF Renews, RowIsMine, IInv, LeaseOwnership, Agent
<1>5. CASE [Transaction]_vars
  <2>1. ClockStands
    BY <1>5, OnlyTheClockRuns DEF JobInv
  <2> QED
    BY <1>1, <1>3, <1>4, <2>1 DEF ClockStands, LeaseIsGood
<1>6. ASSUME NEW a \in Agents, LeasePasses(a)
      PROVE  LeaseIsGood(v)'
  <2>1. a # Agent(v)
    BY <1>2, <1>6 DEF LeasePasses, Renewing, Renews
  <2> QED
    BY <1>1, <1>3, <1>6, <2>1 DEF LeasePasses, LeaseLapses, LeaseIsGood
<1> QED
  BY <1>5, <1>6, StepIsTransaction DEF JobInv

LEMMA StepRenews ==
  ASSUME JobInv, RenewInv, [WorkerNext]_workerVars
  PROVE  RenewInv'
<1>1. IInv'
  BY StepObeysRunState, StepIInv DEF JobInv
<1>2. ASSUME NEW v \in Workers, Renews(v)'
      PROVE  LeaseIsGood(v)'
  <2>1. CASE Same(v)
    BY <1>1, <1>2, <2>1, SameRenews
  <2>2. CASE Renew(v)
    BY <1>2, <2>2, RenewalIsFresh DEF JobInv, Renews
  <2>3. CASE \/ JobStep(v) \/ EndRuntime(v) \/ RenewalDies(v) \/ Interrupt(v) \/ Crash(v)
             \/ \E a \in Agents : Claim(v, a)
    BY <1>2, <2>3, OnlyRenewRenews DEF JobInv, Renews
  <2>4. ASSUME NEW w \in Workers \ {v},
               \/ JobStep(w) \/ Renew(w) \/ EndRuntime(w) \/ RenewalDies(w) \/ Interrupt(w)
               \/ Crash(w) \/ \E a \in Agents : Claim(w, a)
        PROVE  Same(v)
    <3>1. AttemptsStay
      BY StepObeysRunState, StepKeepsAttempts DEF JobInv
    <3>2. Others(w)
      BY <2>4, <3>1, JobStepMoves, RuntimeStepMoves, ClaimMoves DEF JobInv, JobMove
    <3> QED
      BY <3>2 DEF Others
  <2>5. ASSUME UNCHANGED jobVars
        PROVE  Same(v)
    BY <2>5 DEF jobVars, Same
  <2>6. \/ UNCHANGED jobVars
        \/ \E w \in Workers :
             \/ JobStep(w) \/ Renew(w) \/ EndRuntime(w) \/ RenewalDies(w) \/ Interrupt(w)
             \/ Crash(w) \/ \E a \in Agents : Claim(w, a)
    BY DEF WorkerNext, workerVars, LeasePasses, LeaseKeyExpires, CancelWorker, RedisLosesKeys,
           Reap, CancelCommand, PublishCancel, ResumeCommand, Refresh
  <2> QED
    BY <2>1, <2>2, <2>3, <2>4, <2>5, <2>6
<1> QED
  BY <1>2, StepKeyType DEF RenewInv, JobInv

LEMMA RenewInvariance == WorkerSpec => [](JobInv /\ RenewInv)
<1>1. WorkerInit => RenewInv
  BY DEF WorkerInit, RenewInv, Renews
<1>2. JobInv /\ RenewInv /\ [WorkerNext]_workerVars => RenewInv'
  BY StepRenews
<1> QED
  BY <1>1, <1>2, JobInvariance, PTL DEF WorkerSpec

(***************************************************************************)
(* Whenever the reaper reads and however long its loop takes, it expires   *)
(* no attempt whose worker has renewed and still can.                      *)
(***************************************************************************)
THEOREM RenewedIsNotExpired == WorkerSpec => RenewedAttemptIsNotExpired
<1> DEFINE Kept ==
      \A w \in Workers :
        renewal[w] = "renewing" /\ KeyIsMine(w) /\ Holds(w) =>
          attempts'[Agent(w)][AttemptOf(w)] # "expired"
<1>1. ASSUME JobInv, RenewInv, [WorkerNext]_workerVars
      PROVE  Kept
  <2> SUFFICES ASSUME NEW w \in Workers, renewal[w] = "renewing", KeyIsMine(w), Holds(w),
                      attempts'[Agent(w)][AttemptOf(w)] = "expired"
               PROVE  FALSE
    OBVIOUS
  <2>1. /\ Agent(w) \in Agents
        /\ AttemptOf(w) \in DOMAIN attempts[Agent(w)]
        /\ attempts[Agent(w)][AttemptOf(w)] # "expired"
    BY <1>1 DEF JobInv, JobsOK, JobOK, Holds, Owns
  <2>2. ExpireRow(Agent(w))
    BY <1>1, <2>1, ExpiredByReaper, StepObeysRunState DEF JobInv
  <2>3. LeaseIsGood(w)
    BY <1>1 DEF RenewInv, Renews, RowIsMine, Holds, Owns
  <2> QED
    BY <2>2, <2>3 DEF ExpireRow, LeaseIsGood
<1>2. JobInv /\ RenewInv /\ [WorkerNext]_workerVars => [Kept]_workerVars
  BY <1>1
<1> QED
  BY <1>2, RenewInvariance, PTL DEF WorkerSpec, RenewedAttemptIsNotExpired

-----------------------------------------------------------------------------
(* What the workers share: the keys in Redis and the git of their hosts. *)

SharedOK ==
  /\ lease_key \in [Agents -> Nat]
  /\ cancel_flag \in BOOLEAN
  /\ worktrees \in [Hosts -> SUBSET Agents]
  /\ branches \in [Hosts -> SUBSET Agents]
  /\ faults \in 0..MaxFaults

LEMMA StepKeepsShared ==
  ASSUME IInv, JobsOK, SharedOK, [WorkerNext]_workerVars
  PROVE  SharedOK'
<1>1. ASSUME UNCHANGED <<redisVars, gitVars>>,
             faults' = faults \/ (faults < MaxFaults /\ faults' = faults + 1)
      PROVE  SharedOK'
  <2>1. faults' \in 0..MaxFaults
    BY <1>1, WorkerAssumption DEF SharedOK
  <2> QED
    BY <1>1, <2>1 DEF SharedOK, redisVars, gitVars
<1>2. ASSUME NEW w \in Workers, JobStep(w)
      PROVE  SharedOK'
  <2>1. stage[w] # "idle"
    BY <1>2 DEF JobStep, SetLease, SourceUnavailable, PrepareWorktree,
       OpenSession, EndSetup, CancelExecution, EndCheck, DeliverGitWork, Complete,
       EnqueueNewlyReadyAgents, FailClaimedAgent, CleanupWorktreeIfConfigured
  <2>2. Agent(w) \in Agents /\ AttemptOf(w) \in Nat /\ HostOf[w] \in Hosts
    <3>1. Agent(w) \in Agents /\ AttemptOf(w) \in DOMAIN attempts[Agent(w)]
      BY <2>1 DEF JobsOK, JobOK
    <3> QED
      BY <3>1, RowFacts DEF Hosts
  <2>3. CASE SetLease(w)
    BY <2>2, <2>3 DEF SetLease, SharedOK, gitVars
  <2>4. CASE PrepareWorktree(w)
    <3>1. /\ worktrees' = [worktrees EXCEPT ![HostOf[w]] = @ \cup {Agent(w)}]
             \/ worktrees' = worktrees
          /\ branches' = [branches EXCEPT ![HostOf[w]] = @ \cup {Agent(w)}]
             \/ branches' = branches
          /\ UNCHANGED <<redisVars, faults>>
      BY <2>4 DEF PrepareWorktree, CreateWorktree, gitVars
    <3> QED
      BY <2>2, <3>1 DEF SharedOK, redisVars
  <2>5. CASE CleanupWorktreeIfConfigured(w)
    <3>1. /\ worktrees' = [worktrees EXCEPT ![HostOf[w]] = @ \ {Agent(w)}]
             \/ worktrees' = worktrees
          /\ UNCHANGED <<branches, redisVars, faults>>
      BY <2>5 DEF CleanupWorktreeIfConfigured, RemoveWorktree
    <3> QED
      BY <2>2, <3>1 DEF SharedOK, redisVars
  <2>6. CASE \/ SourceUnavailable(w) \/ OpenSession(w) \/ EndSetup(w) \/ CancelExecution(w)
             \/ EndCheck(w) \/ DeliverGitWork(w)
    BY <1>1, <2>6 DEF SourceUnavailable, OpenSession, EndSetup, CancelExecution, EndCheck,
       DeliverGitWork
  <2>7. CASE Complete(w) \/ EnqueueNewlyReadyAgents(w) \/ FailClaimedAgent(w)
    BY <1>1, <2>7 DEF Complete, EnqueueNewlyReadyAgents, FailClaimedAgent
  <2> QED
    BY <1>2, <2>3, <2>4, <2>5, <2>6, <2>7 DEF JobStep
<1>3. ASSUME NEW w \in Workers, NEW a \in Agents, Claim(w, a)
      PROVE  SharedOK'
  BY <1>1, <1>3 DEF Claim
<1>4. ASSUME NEW w \in Workers,
             Renew(w) \/ EndRuntime(w) \/ RenewalDies(w) \/ Interrupt(w) \/ Crash(w)
      PROVE  SharedOK'
  BY <1>1, <1>4 DEF Renew, EndRuntime, RenewalDies, Interrupt, Crash
<1>5. ASSUME NEW a \in Agents, LeaseKeyExpires(a)
      PROVE  SharedOK'
  BY <1>5 DEF LeaseKeyExpires, SharedOK, gitVars
<1>6. CASE RedisLosesKeys
  <2>1. faults' \in 0..MaxFaults
    BY <1>6, WorkerAssumption DEF RedisLosesKeys, SharedOK
  <2> QED
    BY <1>6, <2>1 DEF RedisLosesKeys, SharedOK, gitVars
<1>7. CASE PublishCancel
  BY <1>7 DEF PublishCancel, SharedOK, gitVars
<1>8. CASE \/ Reap \/ CancelCommand \/ ResumeCommand \/ Refresh
           \/ \E a \in Agents : LeasePasses(a) \/ CancelWorker(a)
  BY <1>1, <1>8 DEF Reap, CancelCommand, ResumeCommand, Refresh, LeasePasses, CancelWorker
<1>9. CASE UNCHANGED workerVars
  BY <1>1, <1>9 DEF workerVars
<1> QED
  BY <1>2, <1>3, <1>4, <1>5, <1>6, <1>7, <1>8, <1>9 DEF WorkerNext

LEMMA SharedInvariance == WorkerSpec => []SharedOK
<1>1. WorkerInit => SharedOK
  <2> SUFFICES ASSUME WorkerInit
               PROVE  SharedOK
    OBVIOUS
  <2>1. cancel_flag \in BOOLEAN
    BY Zenon DEF WorkerInit
  <2>2. lease_key \in [Agents -> Nat] /\ faults \in 0..MaxFaults
    BY WorkerAssumption DEF WorkerInit
  <2>3. worktrees \in [Hosts -> SUBSET Agents] /\ branches \in [Hosts -> SUBSET Agents]
    BY DEF WorkerInit
  <2> QED
    BY <2>1, <2>2, <2>3 DEF SharedOK
<1>2. JobInv /\ SharedOK /\ [WorkerNext]_workerVars => SharedOK'
  BY StepKeepsShared DEF JobInv
<1> QED
  BY <1>1, <1>2, JobInvariance, PTL DEF WorkerSpec

\* A job, a report and a record are what their kinds say.
LEMMA JobsAreTyped ==
  ASSUME JobInv, LedgerInv, SharedOK
  PROVE  WorkerTypeOK
<1>1. ASSUME NEW w \in Workers
      PROVE  /\ stage[w] = "idle" <=> job[w] = NoJob
             /\ report[w] # NoReport <=> stage[w] \in {"report", "clean", "then report"}
             /\ renewal[w] # "none" <=> stage[w] = "executing"
  <2>1. JobOK(w)
    BY DEF JobInv, JobsOK
  <2>2. stage[w] # "idle" => job[w] # NoJob
    <3> SUFFICES ASSUME stage[w] # "idle", job[w] = NoJob
                 PROVE  FALSE
      OBVIOUS
    <3>1. /\ Agent(w) \in Agents /\ AttemptOf(w) \in DOMAIN attempts[Agent(w)]
          /\ AttemptOf(w) = 0
      BY <2>1 DEF JobOK, AttemptOf, NoJob
    <3>2. attempts[Agent(w)] \in Seq(AttemptStatuses)
      BY <3>1, RowFacts DEF JobInv
    <3> QED
      BY <3>1, <3>2
  <2>3. stage[w] \in Reporting => report[w] # NoReport
    <3>1. stage[w] \in Reporting => <<report[w].terminal, report[w].retryable>> \in FailureReports
      BY <2>1 DEF JobOK
    <3>2. \A x, y : <<x, y>> \in FailureReports => x # "none"
      BY DEF FailureReports
    <3>3. NoReport.terminal = "none"
      BY DEF NoReport
    <3> QED
      BY <3>1, <3>2, <3>3
  <2> QED
    BY <2>1, <2>2, <2>3 DEF JobOK, Reporting
<1>2. ASSUME NEW r \in invocations
      PROVE  /\ r.agent \in Agents /\ r.attempt \in DOMAIN attempts[r.agent]
             /\ r.kind \in Kinds /\ r.status \in InvocationStatuses
  BY DEF LedgerInv, RecordsOK, Record
<1> QED
  BY <1>1, <1>2 DEF WorkerTypeOK, JobInv, JobsOK, JobColumns, ReportType, RenewalType, SharedOK

(***************************************************************************)
(* A worker has a job, a report to make and a renewal task in exactly the  *)
(* stages of _execute_claimed that need them, and the rows of              *)
(* runtime_invocations belong to attempts there are.                       *)
(***************************************************************************)
THEOREM WorkerTypes == WorkerSpec => []WorkerTypeOK
<1>1. JobInv /\ LedgerInv /\ SharedOK => WorkerTypeOK
  BY JobsAreTyped
<1> QED
  BY <1>1, JobInvariance, LedgerInvariance, SharedInvariance, PTL
=============================================================================
