------------------------------- MODULE Worker -------------------------------
(***************************************************************************)
(* What a deployed worker does with an agent it has claimed                *)
(* (spawnd/workers/worker.py), on the rows of RunState: source, worktree,  *)
(* session, setup, runtime under a renewed lease, check, delivery,         *)
(* delivered, completion, cleanup.                                          *)
(*                                                                         *)
(* Several workers may execute the same agent, because a lease is renewed  *)
(* while the runtime runs and at no other time.  They share the worktree   *)
(* and the branch of the agent when they run on one host, the lease key of *)
(* the agent and the cancel flag of the run in Redis, and the ledger of    *)
(* the run in Postgres.  How an agent comes to a worker is the subject of  *)
(* module Dispatch; here an idle worker may claim what is claimable.       *)
(***************************************************************************)
EXTENDS RunState

CONSTANTS
  Workers,          \* the worker processes
  HostOf,           \* where each runs: the git repository and scratch it uses
  HasSetup,         \* whether the plan has orchestration.worktree_setup
  CleanupWorktree,  \* orchestration.cleanup.worktree
  MaxFaults         \* crashes, interrupts, failed renewals and losses of Redis

Hosts == {HostOf[w] : w \in Workers}

ASSUME WorkerAssumption ==
  /\ IsFiniteSet(Workers)
  /\ HostOf \in [Workers -> Hosts]
  /\ HasSetup \in BOOLEAN /\ CleanupWorktree \in BOOLEAN
  /\ MaxFaults \in Nat

VARIABLES
  stage,        \* where in _execute_claimed each worker is
  job,          \* the agent and the attempt it has claimed
  report,       \* the failure it has yet to report to fail_agent
  renewal,      \* its renewal task: not yet awake, renewing, or dead
  lease_key,    \* Redis: the attempt in the lease key of each agent, 0 for none
  cancel_flag,  \* Redis: the cancel key of the run
  worktrees,    \* on each host, the agents with a worktree
  branches,     \* on each host, the agents with a branch
  invocations,  \* the rows of runtime_invocations
  errors,       \* the attempts with a row in runtime_errors
  delivered,    \* the attempts whose work was committed, and pushed if asked
  faults        \* the faults so far

jobVars == <<stage, job, report, renewal>>
redisVars == <<lease_key, cancel_flag>>
gitVars == <<worktrees, branches>>
ledgerVars == <<invocations, errors, delivered>>
workerVars == <<vars, jobVars, redisVars, gitVars, ledgerVars, faults>>

NoJob == [agent |-> "none", attempt |-> 0]
NoReport == [terminal |-> "none", retryable |-> FALSE]
Kinds == {"setup", "runtime", "check"}
InvocationStatuses == {"running", "completed", "error"}
Stages == {"idle", "claimed", "prepare", "session", "setup", "executing", "cancelled",
           "check", "deliver", "complete", "promote", "report", "clean", "then report",
           "then clean"}

Agent(w) == job[w].agent
AttemptOf(w) == job[w].attempt
Holds(w) == Owns(Agent(w), AttemptOf(w))

WorkerTypeOK ==
  /\ stage \in [Workers -> Stages]
  /\ job \in [Workers -> {NoJob} \cup [agent : Agents, attempt : Nat]]
  /\ report \in [Workers -> [terminal : {"none", "failed", "timeout", "cost_exceeded"},
                             retryable : BOOLEAN]]
  /\ renewal \in [Workers -> {"none", "asleep", "renewing", "dead"}]
  /\ lease_key \in [Agents -> Nat]
  /\ cancel_flag \in BOOLEAN
  /\ worktrees \in [Hosts -> SUBSET Agents]
  /\ branches \in [Hosts -> SUBSET Agents]
  /\ \A r \in invocations : /\ r.agent \in Agents /\ r.attempt \in DOMAIN attempts[r.agent]
                            /\ r.kind \in Kinds /\ r.status \in InvocationStatuses
  /\ \A w \in Workers : /\ stage[w] = "idle" <=> job[w] = NoJob
                        /\ report[w] # NoReport <=> stage[w] \in {"report", "clean", "then report"}
                        /\ renewal[w] # "none" <=> stage[w] = "executing"
  /\ faults \in 0..MaxFaults

-----------------------------------------------------------------------------
\* A worker moves on.
GoTo(w, s) == stage' = [stage EXCEPT ![w] = s]
Proceed(w, s) == GoTo(w, s) /\ UNCHANGED <<job, report, renewal>>

\* It has recorded an error and will report a failure; s says whether it
\* cleans up before or after the report, or not at all.
FailWith(w, s, terminal, retryable) ==
  /\ GoTo(w, s)
  /\ report' = [report EXCEPT ![w] = [terminal |-> terminal, retryable |-> retryable]]
  /\ UNCHANGED job
RecordRuntimeError(w) == errors' = errors \cup {<<Agent(w), AttemptOf(w)>>}

\* It keeps the failure it has reported.
Leave_KeepsReport(w) ==
  /\ GoTo(w, "idle")
  /\ job' = [job EXCEPT ![w] = NoJob]
  /\ renewal' = [renewal EXCEPT ![w] = "none"]
  /\ UNCHANGED report
\* It is done with its job.
Leave(w) ==
  /\ GoTo(w, "idle")
  /\ job' = [job EXCEPT ![w] = NoJob]
  /\ report' = [report EXCEPT ![w] = NoReport]
  /\ renewal' = [renewal EXCEPT ![w] = "none"]

\* start_runtime_invocation and finish_runtime_invocation; "error" stands for
\* every status that finish_runtime_invocation stores with is_error.
Invocation(w, kind, outcome) ==
  [agent |-> Agent(w), attempt |-> AttemptOf(w), kind |-> kind, status |-> outcome]
StartRuntimeInvocation(w, kind) ==
  invocations' = invocations \cup {Invocation(w, kind, "running")}
FinishRuntimeInvocation(w, kind, outcome) ==
  invocations' = (invocations \ {Invocation(w, kind, "running")})
                   \cup {Invocation(w, kind, outcome)}
\* One invocation completes and the next one starts.
NextInvocation(w, kind, next) ==
  (invocations \ {Invocation(w, kind, "running")})
    \cup {Invocation(w, kind, "completed"), Invocation(w, next, "running")}

WorktreePresent(w) == Agent(w) \in worktrees[HostOf[w]]

WorkerInit ==
  /\ Init
  /\ stage = [w \in Workers |-> "idle"]
  /\ job = [w \in Workers |-> NoJob]
  /\ report = [w \in Workers |-> NoReport]
  /\ renewal = [w \in Workers |-> "none"]
  /\ lease_key = [a \in Agents |-> 0]
  /\ cancel_flag = FALSE
  /\ worktrees = [h \in Hosts |-> {}]
  /\ branches = [h \in Hosts |-> {}]
  /\ invocations = {} /\ errors = {}
  /\ delivered = {}
  /\ faults = 0

-----------------------------------------------------------------------------
\* claim_next_agent: the claim in Postgres, then the lease key in Redis, which
\* is set whatever it holds.
Claim(w, a) ==
  /\ stage[w] = "idle"
  /\ ClaimAgent(a)
  /\ GoTo(w, "claimed")
  /\ job' = [job EXCEPT ![w] = [agent |-> a, attempt |-> Len(attempts'[a])]]
  /\ UNCHANGED <<report, renewal, redisVars, gitVars, ledgerVars, faults>>

SetLease(w) ==
  /\ stage[w] = "claimed"
  /\ lease_key' = [lease_key EXCEPT ![Agent(w)] = AttemptOf(w)]
  /\ Proceed(w, "prepare")
  /\ UNCHANGED <<vars, cancel_flag, gitVars, ledgerVars, faults>>

(***************************************************************************)
(* The repository of the run is found, cloned or fetched                   *)
(* (_resolve_run_source), then _prepare_worktree: an existing worktree of  *)
(* the agent is used again; else `git worktree add -b` makes worktree and  *)
(* branch and fails when the branch exists.  The branches of the           *)
(* dependencies must be on this host, and merging them may fail; the       *)
(* worktree stays then.  No failure here is followed by a cleanup.         *)
(***************************************************************************)
CanCreateWorktree(w) == WorktreePresent(w) \/ Agent(w) \notin branches[HostOf[w]]
CanMergeDependencies(w) == Deps[Agent(w)] \subseteq branches[HostOf[w]]
CreateWorktree(w) ==
  IF CanCreateWorktree(w)
  THEN /\ worktrees' = [worktrees EXCEPT ![HostOf[w]] = @ \cup {Agent(w)}]
       /\ branches' = [branches EXCEPT ![HostOf[w]] = @ \cup {Agent(w)}]
  ELSE UNCHANGED gitVars
SourceUnavailable(w) ==
  /\ stage[w] = "prepare"
  /\ RecordRuntimeError(w)
  /\ FailWith(w, "then report", "failed", FALSE)
  /\ UNCHANGED <<vars, renewal, redisVars, gitVars, invocations, delivered, faults>>
PrepareWorktree(w) ==
  /\ stage[w] = "prepare"
  /\ CreateWorktree(w)
  /\ \/ /\ CanCreateWorktree(w) /\ CanMergeDependencies(w)
        /\ Proceed(w, "session")
        /\ UNCHANGED errors
     \/ /\ RecordRuntimeError(w)
        /\ FailWith(w, "then report", "failed", FALSE)
        /\ UNCHANGED renewal
  /\ UNCHANGED <<vars, redisVars, invocations, delivered, faults>>

\* _run_runtime begins: the runtime task and a renewal task, which sleeps first.
BeginRuntime(w) ==
  /\ GoTo(w, "executing")
  /\ renewal' = [renewal EXCEPT ![w] = "asleep"]
  /\ UNCHANGED <<job, report>>

\* The session is recorded; a missing secret or an isolation policy that the
\* worker does not meet fails the attempt, after a cleanup.  Then the first
\* invocation starts: setup, or the runtime when the plan has no setup.
OpenSession(w) ==
  /\ stage[w] = "session"
  /\ \/ /\ StartRuntimeInvocation(w, IF HasSetup THEN "setup" ELSE "runtime")
        /\ IF HasSetup THEN Proceed(w, "setup") ELSE BeginRuntime(w)
        /\ UNCHANGED errors
     \/ /\ RecordRuntimeError(w)
        /\ FailWith(w, "clean", "failed", FALSE)
        /\ UNCHANGED <<renewal, invocations>>
  /\ UNCHANGED <<vars, redisVars, gitVars, delivered, faults>>

\* A failed setup that leaves its invocation running.
EndSetup_LeavesInvocation(w) ==
  /\ stage[w] = "setup"
  /\ \/ /\ WorktreePresent(w)
        /\ invocations' = NextInvocation(w, "setup", "runtime")
        /\ BeginRuntime(w)
        /\ UNCHANGED errors
     \/ /\ RecordRuntimeError(w)
        /\ FailWith(w, "report", "failed", FALSE)
        /\ UNCHANGED <<renewal, invocations>>
  /\ UNCHANGED <<vars, redisVars, gitVars, delivered, faults>>

\* _run_setup_if_needed: every exception is caught, a missing directory too.
EndSetup(w) ==
  /\ stage[w] = "setup"
  /\ \/ /\ WorktreePresent(w)
        /\ invocations' = NextInvocation(w, "setup", "runtime")
        /\ BeginRuntime(w)
        /\ UNCHANGED errors
     \/ /\ FinishRuntimeInvocation(w, "setup", "error")
        /\ RecordRuntimeError(w)
        /\ FailWith(w, "report", "failed", FALSE)
        /\ UNCHANGED renewal
  /\ UNCHANGED <<vars, redisVars, gitVars, delivered, faults>>

\* task.cancel(): what the worker does of it is CancelExecution.
CancelTask(w) ==
  /\ GoTo(w, "cancelled")
  /\ renewal' = [renewal EXCEPT ![w] = "none"]
  /\ UNCHANGED <<job, report>>

(***************************************************************************)
(* One round of _renew_lease_until_done: the cancel flag, then the row in  *)
(* Postgres, then the key in Redis.  The runtime goes on if there is no    *)
(* flag and both renewals succeed.                                         *)
(***************************************************************************)
RowIsMine(w) == status[Agent(w)] = "running" /\ lease_token[Agent(w)] = AttemptOf(w)
KeyIsMine(w) == lease_key[Agent(w)] = AttemptOf(w)
\* The row is asked for, and its deadline is not moved.
RenewRow_ReadOnly(w) == Idle /\ UNCHANGED vars
RenewRow(w) ==
  IF RowIsMine(w) /\ leased_until[Agent(w)] = "past"
  THEN RenewLease(Agent(w), AttemptOf(w)) ELSE Idle /\ UNCHANGED vars
\* A round that does not ask for the cancel flag.
Renew_NoFlag(w) ==
  /\ stage[w] = "executing"
  /\ renewal[w] \in {"asleep", "renewing"}
  /\ RenewRow(w)
  /\ IF RowIsMine(w) /\ KeyIsMine(w)
     THEN /\ renewal' = [renewal EXCEPT ![w] = "renewing"]
          /\ UNCHANGED <<stage, job, report>>
     ELSE CancelTask(w)
  /\ UNCHANGED <<redisVars, gitVars, ledgerVars, faults>>

Renew(w) ==
  /\ stage[w] = "executing"
  /\ renewal[w] \in {"asleep", "renewing"}
  /\ IF cancel_flag
     THEN CancelTask(w) /\ UNCHANGED vars
     ELSE /\ RenewRow(w)
          /\ IF RowIsMine(w) /\ KeyIsMine(w)
             THEN /\ renewal' = [renewal EXCEPT ![w] = "renewing"]
                  /\ UNCHANGED <<stage, job, report>>
             ELSE CancelTask(w)
  /\ UNCHANGED <<redisVars, gitVars, ledgerVars, faults>>

\* An exception of Postgres or Redis ends the renewal task and nothing else.
RenewalDies(w) ==
  /\ stage[w] = "executing"
  /\ renewal[w] \in {"asleep", "renewing"}
  /\ faults < MaxFaults
  /\ faults' = faults + 1
  /\ renewal' = [renewal EXCEPT ![w] = "dead"]
  /\ UNCHANGED <<vars, stage, job, report, redisVars, gitVars, ledgerVars>>

\* A signal cancels the task of the worker, which takes it for a cancellation
\* of its agent.
Interrupt(w) ==
  /\ stage[w] = "executing"
  /\ renewal[w] # "dead"
  /\ faults < MaxFaults
  /\ faults' = faults + 1
  /\ CancelTask(w)
  /\ UNCHANGED <<vars, redisVars, gitVars, ledgerVars>>

(***************************************************************************)
(* The runtime has ended or its time is over.  Waiting for a renewal task  *)
(* that died raises its exception again, in place of any result.           *)
(***************************************************************************)
RuntimeFailures ==
  ({"failed"} \X BOOLEAN) \cup {<<"timeout", TRUE>>, <<"cost_exceeded", FALSE>>}
EndRuntime(w) ==
  /\ stage[w] = "executing"
  /\ renewal' = [renewal EXCEPT ![w] = "none"]
  /\ \/ /\ renewal[w] # "dead"
        /\ invocations' = NextInvocation(w, "runtime", "check")
        /\ GoTo(w, "check")
        /\ UNCHANGED <<job, report, errors>>
     \/ \E f \in RuntimeFailures :
          /\ renewal[w] = "dead" => f[1] = "failed"
          /\ FinishRuntimeInvocation(w, "runtime", "error")
          /\ RecordRuntimeError(w)
          /\ FailWith(w, "report", f[1], f[2])
  /\ UNCHANGED <<vars, redisVars, gitVars, delivered, faults>>

\* The CancelledError path: the agent is cancelled, whoever leases it now.
CancelExecution(w) ==
  /\ stage[w] = "cancelled"
  /\ RecordRuntimeError(w)
  /\ FinishRuntimeInvocation(w, "runtime", "error")
  /\ IF status[Agent(w)] \in LiveAgentStatuses THEN CancelAgent(Agent(w))
                                               ELSE Idle /\ UNCHANGED vars
  /\ Proceed(w, "then clean")
  /\ UNCHANGED <<redisVars, gitVars, delivered, faults>>

-----------------------------------------------------------------------------
\* A check that fails and is taken for one that passed.
EndCheck_IgnoresExitCode(w) ==
  /\ stage[w] = "check"
  /\ \E outcome \in {"completed", "error"} : FinishRuntimeInvocation(w, "check", outcome)
  /\ Proceed(w, "deliver")
  /\ UNCHANGED <<vars, redisVars, gitVars, errors, delivered, faults>>

\* _run_check, whose handlers do not include a directory that is gone: that
\* exception ends the job and leaves agent and invocation running.
EndCheck(w) ==
  /\ stage[w] = "check"
  /\ \/ /\ WorktreePresent(w)
        /\ FinishRuntimeInvocation(w, "check", "completed")
        /\ Proceed(w, "deliver")
        /\ UNCHANGED errors
     \/ \E terminal \in {"failed", "timeout"} :
          /\ terminal = "timeout" => WorktreePresent(w)
          /\ FinishRuntimeInvocation(w, "check", "error")
          /\ RecordRuntimeError(w)
          /\ FailWith(w, "report", terminal, FALSE)
          /\ UNCHANGED renewal
     \/ /\ ~WorktreePresent(w)
        /\ Leave(w)
        /\ UNCHANGED <<invocations, errors>>
  /\ UNCHANGED <<vars, redisVars, gitVars, delivered, faults>>

\* commit, which has nothing to do in a clean worktree, and push_branch
CommitAndPush(w) ==
  /\ WorktreePresent(w)
  /\ delivered' = delivered \cup {<<Agent(w), AttemptOf(w)>>}

\* _deliver_git_work.  The lease is not read again.
DeliverGitWork(w) ==
  /\ stage[w] = "deliver"
  /\ \/ /\ CommitAndPush(w)
        /\ Proceed(w, "complete")
        /\ UNCHANGED errors
     \/ /\ \E retryable \in BOOLEAN : FailWith(w, "clean", "failed", retryable)
        /\ RecordRuntimeError(w)
        /\ UNCHANGED <<delivered, renewal>>
  /\ UNCHANGED <<vars, redisVars, gitVars, invocations, faults>>

\* _record_git_provenance: git in a directory that is gone raises an exception
\* nobody handles.
ProvenanceReadable(w) == WorktreePresent(w)

\* Git provenance, token and cost usage, then complete_agent.  A worker that is
\* not the owner any more is refused and goes on as if it were.
Complete(w) ==
  /\ stage[w] = "complete"
  /\ IF ProvenanceReadable(w)
     THEN /\ IF Holds(w) THEN \E c \in Costs : CompleteAgent(Agent(w), AttemptOf(w), c)
                        ELSE Idle /\ UNCHANGED vars
          /\ Proceed(w, "promote")
     ELSE Leave(w) /\ UNCHANGED vars
  /\ UNCHANGED <<redisVars, gitVars, ledgerVars, faults>>

EnqueueNewlyReadyAgents(w) ==
  /\ stage[w] = "promote"
  /\ MarkNewlyReadyAgents
  /\ Proceed(w, "then clean")
  /\ UNCHANGED <<redisVars, gitVars, ledgerVars, faults>>

\* _fail_claimed_agent
FailClaimedAgent(w) ==
  LET a == Agent(w)
      i == AttemptOf(w)
      r == report[w]
  IN
  /\ stage[w] \in {"report", "then report"}
  /\ IF ~Holds(w) THEN Idle /\ UNCHANGED vars
     ELSE IF r.terminal # "cost_exceeded" /\ r.retryable /\ CanRetry(a)
     THEN FailAgentRetry(a, i)
     ELSE FailAgentFinal(a, i, r.terminal, r.retryable)
  /\ IF stage[w] = "then report" THEN Leave(w)
     ELSE /\ GoTo(w, "then clean")
          /\ report' = [report EXCEPT ![w] = NoReport]
          /\ UNCHANGED <<job, renewal>>
  /\ UNCHANGED <<redisVars, gitVars, ledgerVars, faults>>

RemoveWorktree(w) == worktrees' = [worktrees EXCEPT ![HostOf[w]] = @ \ {Agent(w)}]

\* _cleanup_worktree_if_configured: the branch stays.  A worktree that is gone
\* is an event in the ledger and nothing more.
CleanupWorktreeIfConfigured(w) ==
  /\ stage[w] \in {"clean", "then clean"}
  /\ IF CleanupWorktree THEN RemoveWorktree(w) ELSE UNCHANGED worktrees
  /\ IF stage[w] = "clean" THEN Proceed(w, "then report") ELSE Leave(w)
  /\ UNCHANGED <<vars, redisVars, branches, ledgerVars, faults>>

-----------------------------------------------------------------------------
\* The process dies, or an exception nobody handles ends the job.
Crash(w) ==
  /\ stage[w] # "idle"
  /\ faults < MaxFaults
  /\ faults' = faults + 1
  /\ Leave(w)
  /\ UNCHANGED <<vars, redisVars, gitVars, ledgerVars>>

(***************************************************************************)
(* The clock.  A renewal task that has renewed once does it again in time  *)
(* (the interval is a third of the lease); before its first round, and in  *)
(* every other stage, the lease of a slow worker lapses.  The key in Redis *)
(* gets its time with or after the row.                                    *)
(***************************************************************************)
Renewing(a) ==
  \E w \in Workers : renewal[w] = "renewing" /\ Agent(w) = a /\ RowIsMine(w) /\ KeyIsMine(w)
LeasePasses(a) ==
  /\ ~Renewing(a)
  /\ LeaseLapses(a)
  /\ UNCHANGED <<jobVars, redisVars, gitVars, ledgerVars, faults>>
LeaseKeyExpires(a) ==
  /\ lease_key[a] # 0
  /\ leased_until[a] # "future" \/ lease_token[a] # lease_key[a]
  /\ lease_key' = [lease_key EXCEPT ![a] = 0]
  /\ UNCHANGED <<vars, jobVars, cancel_flag, gitVars, ledgerVars, faults>>

\* Redis restarts empty, or evicts.
RedisLosesKeys ==
  /\ faults < MaxFaults
  /\ faults' = faults + 1
  /\ lease_key' = [a \in Agents |-> 0]
  /\ cancel_flag' = FALSE
  /\ UNCHANGED <<vars, jobVars, gitVars, ledgerVars>>

\* expire_stale_leases, by the poll loop of any worker or by an operator.
Reap ==
  /\ ExpireStaleLeases \/ \E a \in Agents : ExpireRow(a)
  /\ UNCHANGED <<jobVars, redisVars, gitVars, ledgerVars, faults>>

\* `spawnd cancel`, and cancel_worker of a manager: the rows, then the flag of
\* the run, which is set also when no row was cancelled (cancel_worker of an
\* agent that has ended, or is none).
CancelCommand ==
  /\ CancelRun
  /\ UNCHANGED <<jobVars, redisVars, gitVars, ledgerVars, faults>>
CancelWorker(a) ==
  /\ CancelAgent(a)
  /\ UNCHANGED <<jobVars, redisVars, gitVars, ledgerVars, faults>>
PublishCancel ==
  /\ ~cancel_flag
  /\ cancel_flag' = TRUE
  /\ UNCHANGED <<vars, jobVars, lease_key, gitVars, ledgerVars, faults>>

\* `spawnd resume` does not touch the flag.
ResumeCommand ==
  /\ ResumeRun
  /\ UNCHANGED <<jobVars, redisVars, gitVars, ledgerVars, faults>>

\* refresh_run_status, by whichever process owes it.
Refresh ==
  /\ RefreshRunStatus
  /\ UNCHANGED <<jobVars, redisVars, gitVars, ledgerVars, faults>>

-----------------------------------------------------------------------------
\* What a worker does with its job, apart from the end of its runtime.
JobStep(w) ==
  \/ SetLease(w) \/ SourceUnavailable(w) \/ PrepareWorktree(w)
  \/ OpenSession(w) \/ EndSetup(w)
  \/ CancelExecution(w) \/ EndCheck(w)
  \/ DeliverGitWork(w) \/ Complete(w) \/ EnqueueNewlyReadyAgents(w)
  \/ FailClaimedAgent(w) \/ CleanupWorktreeIfConfigured(w)

WorkerNext ==
  \/ \E w \in Workers, a \in Agents : Claim(w, a)
  \/ \E w \in Workers : JobStep(w) \/ Renew(w) \/ EndRuntime(w)
  \/ \E w \in Workers : RenewalDies(w) \/ Interrupt(w) \/ Crash(w)
  \/ \E a \in Agents : LeasePasses(a) \/ LeaseKeyExpires(a)
  \/ RedisLosesKeys
  \/ Reap
  \/ CancelCommand \/ (\E a \in Agents : CancelWorker(a)) \/ PublishCancel
  \/ ResumeCommand
  \/ Refresh

WorkerSpec == WorkerInit /\ [][WorkerNext]_workerVars

(***************************************************************************)
(* The renewal task of a live worker wakes up, and an open expiry is       *)
(* finished.  Nothing says that a runtime ends: runtime_timeout_seconds is *)
(* optional.                                                               *)
(***************************************************************************)
WorkerFairness ==
  /\ \A w \in Workers : WF_workerVars(Renew(w))
  /\ WF_workerVars(Reap)
FairWorkerSpec == WorkerSpec /\ WorkerFairness

-----------------------------------------------------------------------------
(***************************************************************************)
(* The rows change as RunState says, whatever stale workers, cancellations *)
(* and losses of Redis do: what is proved of RunState holds here.          *)
(***************************************************************************)
RowsObeyRunState == Spec

(***************************************************************************)
(* A completed attempt has earned it: its own runtime and its own check    *)
(* completed and its own work was delivered, none of it by the attempt of  *)
(* another worker on the same agent.                                       *)
(***************************************************************************)
CompletionIsEarned ==
  \A a \in Agents : \A i \in DOMAIN attempts[a] :
    attempts[a][i] = "completed" =>
      /\ \A kind \in {"runtime", "check"} :
           [agent |-> a, attempt |-> i, kind |-> kind, status |-> "completed"] \in invocations
      /\ <<a, i>> \in delivered

(***************************************************************************)
(* The ledger explains a failure: an attempt that was reported failed has  *)
(* an error on record, and a reported attempt has no invocation that still *)
(* looks as if it were running.  (One that expired or was cancelled may.)  *)
(***************************************************************************)
ReportedAttemptIsClosed ==
  \A a \in Agents : \A i \in DOMAIN attempts[a] :
    /\ attempts[a][i] = "failed" => <<a, i>> \in errors
    /\ attempts[a][i] \in {"completed", "failed"} =>
         ~ \E r \in invocations : r.agent = a /\ r.attempt = i /\ r.status = "running"

(***************************************************************************)
(* A runtime that has renewed its lease once is not replaced: no reaper    *)
(* expires its attempt while its renewal task is alive and its key is in   *)
(* Redis.                                                                  *)
(***************************************************************************)
RenewedAttemptIsNotExpired ==
  [][\A w \in Workers :
       renewal[w] = "renewing" /\ KeyIsMine(w) /\ Holds(w) =>
         attempts'[Agent(w)][AttemptOf(w)] # "expired"]_workerVars

(***************************************************************************)
(* A worker that has lost its lease, or whose run was cancelled, stops its *)
(* runtime, though the runtime itself would go on for ever, unless its     *)
(* renewal task died.                                                      *)
(***************************************************************************)
UnwantedRuntimeStops ==
  \A w \in Workers :
    (stage[w] = "executing" /\ renewal[w] # "dead" /\ (cancel_flag \/ ~Holds(w)))
      ~> (stage[w] # "executing" \/ renewal[w] = "dead" \/ (~cancel_flag /\ Holds(w)))
=============================================================================
