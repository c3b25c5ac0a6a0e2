------------------------------ MODULE RunState ------------------------------
(***************************************************************************)
(* The canonical state of one run: the rows of the Postgres tables runs,   *)
(* agents and agent_attempts, and the operations DeployedRepository        *)
(* (spawnd/state/repository.py) performs on them.                          *)
(*                                                                         *)
(* One action is one database transaction.  A method that commits and then *)
(* opens a second transaction (refresh_run_status after complete_agent,    *)
(* fail_agent, cancel_agent, expire_stale_leases and resume_run) is two    *)
(* actions: the first leaves one owed refresh in `refreshes`, the process  *)
(* that owes it performs it later, or dies first.  The loop of             *)
(* expire_stale_leases is one action per row, and no other transaction     *)
(* interleaves with it.  What READ COMMITTED lets two transactions see of  *)
(* each other is the subject of another module.                            *)
(***************************************************************************)
EXTENDS Integers, Sequences, FiniteSets, Functions

CONSTANTS
  PlanAgents,        \* the agents the submitted plan lists
  DynamicAgents,     \* names a manager may spawn at run time
  Managers,          \* the plan agents of type manager
  NamedAfter,        \* per manager, the agents LIKE "<its name>.%" matches
  Deps,              \* depends_on of each agent
  OnFailure,         \* on_failure of each agent
  RetryCount,        \* retry_count of each agent
  ManagerCap,        \* max_subagents of each manager, NoCap for none
  ConcurrencyLimit,  \* orchestration.concurrency_limit, 0 for none
  MaxCost,           \* max_cost_usd of the run, 0 for none
  OnExceed,          \* cost_budget.on_exceed
  BreakerThreshold,  \* circuit_breaker.threshold, 0 for none
  BreakerAction,     \* circuit_breaker.action
  Costs,             \* the costs an attempt may report
  MaxInFlight,       \* processes between a transaction and its refresh
  CallersMayDie      \* whether such a process may die before the refresh

Agents == PlanAgents \cup DynamicAgents
NoCap == -1

ASSUME AgentsAssumption ==
  /\ IsFiniteSet(Agents)
  /\ PlanAgents \cap DynamicAgents = {}
  /\ Managers \subseteq PlanAgents
  /\ NamedAfter \in [Managers -> SUBSET Agents]
  /\ Deps \in [Agents -> SUBSET PlanAgents]
  /\ \A d \in DynamicAgents : Deps[d] = {}

ASSUME PolicyAssumption ==
  /\ OnFailure \in [Agents -> {"continue", "stop", "retry"}]
  /\ RetryCount \in [Agents -> Nat]
  /\ ManagerCap \in [Managers -> Nat \cup {NoCap}]
  /\ ConcurrencyLimit \in Nat
  /\ OnExceed \in {"pause", "cancel", "warn"}
  /\ BreakerAction \in {"cancel_all", "pause", "notify_only"}
  /\ BreakerThreshold \in Nat

ASSUME CostAssumption == MaxCost \in Nat /\ Costs \subseteq Nat

ASSUME BoundAssumption == MaxInFlight \in Nat /\ CallersMayDie \in BOOLEAN

VARIABLES
  status,         \* agents.status, "absent" for a row not inserted yet
  retry_attempt,  \* agents.retry_attempt
  lease_token,    \* agents.lease_token: the attempt it was issued to, 0 for NULL
  leased_until,   \* agents.leased_until: NULL, in the future or in the past
  attempts,       \* agent_attempts.status of each agent, by attempt_number
  cost_usd,       \* agents.cost_usd
  run_status,     \* runs.status
  expiring,       \* rows the running expire_stale_leases has yet to visit
  refreshes       \* refresh_run_status calls that are owed

vars == <<status, retry_attempt, lease_token, leased_until, attempts,
          cost_usd, run_status, expiring, refreshes>>

-----------------------------------------------------------------------------
TerminalAgentStatuses ==
  {"completed", "failed", "timeout", "cancelled", "cost_exceeded"}
FailureAgentStatuses == {"failed", "timeout", "cost_exceeded"}
LiveAgentStatuses == {"pending", "queued", "running", "paused"}
AgentStatuses == LiveAgentStatuses \cup TerminalAgentStatuses \cup {"absent"}
AttemptStatuses == {"running", "completed", "failed", "cancelled", "expired"}
RunStatuses == {"queued", "running", "paused", "completed", "failed",
                "cancelled", "cost_exceeded"}
TerminalRunStatuses == {"completed", "failed", "cancelled", "cost_exceeded"}

\* The rows of a status column s in a set of statuses, and s with rows updated.
Rows(s, statuses) == {a \in Agents : s[a] \in statuses}
Updated(s, rows, value) == [a \in Agents |-> IF a \in rows THEN value ELSE s[a]]

Unblocked(s, a) == \A d \in Deps[a] : s[d] = "completed"

\* _mark_newly_ready_agents_in_transaction
NewlyReady_EndedDependency(s) ==
  {a \in Rows(s, {"pending"}) : \A d \in Deps[a] : s[d] \in TerminalAgentStatuses}
NewlyReady(s) == {a \in Rows(s, {"pending"}) : Unblocked(s, a)}
MarkNewlyReady_Deferred(s) == s
MarkNewlyReady(s) == Updated(s, NewlyReady(s), "queued")

\* The loop of _fail_dependency_blocked_agents_in_transaction ends with the
\* least set of waiting rows closed under "depends on a failed one".
Closed(S, waiting, failed) ==
  \A b \in waiting : Deps[b] \cap (S \cup {failed}) # {} => b \in S
DependencyBlocked(s, failed) ==
  LET waiting == Rows(s, {"pending", "queued"})
  IN  {b \in waiting :
         \A S \in SUBSET waiting : Closed(S, waiting, failed) => b \in S}
FailDependencyBlocked_LeavesThem(s, failed) == MarkNewlyReady(s)
FailDependencyBlocked(s, failed) ==
  MarkNewlyReady(Updated(s, DependencyBlocked(s, failed), "failed"))

\* _pause_pending_work_in_transaction and _cancel_non_terminal_work_in_transaction
Paused(s) == Updated(s, Rows(s, {"pending", "queued"}), "paused")
Stopped_KeepsQueued(s) == Updated(s, Rows(s, LiveAgentStatuses \ {"queued"}), "cancelled")
Stopped(s) == Updated(s, Rows(s, LiveAgentStatuses), "cancelled")

\* The running attempts of some rows get their final status.
Finished_Rewrites(at, rows, outcome) ==
  [a \in Agents |-> IF a \in rows THEN [i \in DOMAIN at[a] |-> outcome] ELSE at[a]]
Finished(at, rows, outcome) ==
  [a \in Agents |->
     IF a \in rows
     THEN [i \in DOMAIN at[a] |->
             IF at[a][i] = "running" THEN outcome ELSE at[a][i]]
     ELSE at[a]]

\* lease_token, leased_until and worker_id become NULL on some rows.
ReleaseLeases_TokenOnly(rows) ==
  /\ lease_token' = Updated(lease_token, rows, 0)
  /\ UNCHANGED leased_until
ReleaseLeases(rows) ==
  /\ lease_token' = Updated(lease_token, rows, 0)
  /\ leased_until' = Updated(leased_until, rows, "null")

\* No expire_stale_leases transaction is open, and the caller of a method
\* that ends with refresh_run_status leaves it owed.
Idle == expiring = {}
OweRefresh_Skipped == UNCHANGED refreshes
OweRefresh == /\ refreshes < MaxInFlight
              /\ refreshes' = refreshes + 1

TypeOK ==
  /\ status \in [Agents -> AgentStatuses]
  /\ retry_attempt \in [Agents -> Nat]
  /\ lease_token \in [Agents -> Nat]
  /\ leased_until \in [Agents -> {"null", "future", "past"}]
  /\ attempts \in [Agents -> Seq(AttemptStatuses)]
  /\ cost_usd \in [Agents -> Nat]
  /\ run_status \in RunStatuses
  /\ expiring \in SUBSET Agents
  /\ refreshes \in 0..MaxInFlight

-----------------------------------------------------------------------------
\* create_run
Init ==
  /\ status = [a \in Agents |-> IF a \in DynamicAgents THEN "absent"
                                ELSE IF Deps[a] = {} THEN "queued" ELSE "pending"]
  /\ retry_attempt = [a \in Agents |-> 0]
  /\ lease_token = [a \in Agents |-> 0]
  /\ leased_until = [a \in Agents |-> "null"]
  /\ attempts = [a \in Agents |-> <<>>]
  /\ cost_usd = [a \in Agents |-> 0]
  /\ run_status = "queued"
  /\ expiring = {}
  /\ refreshes = 0

(***************************************************************************)
(* spawn_worker_agent, called by the spawn_worker tool inside the runtime  *)
(* of a manager that was claimed at least once.  Neither the status of the *)
(* run nor that of the manager is read.                                    *)
(***************************************************************************)
SpawnWorkerAgent(m, d) ==
  /\ Idle
  /\ attempts[m] # <<>>
  /\ status[d] = "absent"
  /\ \/ ManagerCap[m] = NoCap
     \/ Cardinality({e \in NamedAfter[m] : status[e] # "absent"}) < ManagerCap[m]
  /\ status' = [status EXCEPT ![d] = "queued"]
  /\ UNCHANGED <<retry_attempt, lease_token, leased_until, attempts, cost_usd,
                 run_status, expiring, refreshes>>

(***************************************************************************)
(* _claimable_ready_agents_in_connection: of the queued rows in the order  *)
(* of created_at, the first limit - running.  The rows of one plan were    *)
(* inserted by one transaction and tie, so any of them may come first; a   *)
(* spawned agent comes after all of them.                                  *)
(***************************************************************************)
Running(s) == Rows(s, {"running"})
Before(a) == IF a \in DynamicAgents THEN Rows(status, {"queued"}) \cap PlanAgents
             ELSE {}
Claimable_NoLimit(a) == status[a] = "queued"
Claimable(a) ==
  /\ status[a] = "queued"
  /\ \/ ConcurrencyLimit = 0
     \/ Cardinality(Before(a)) + Cardinality(Running(status)) < ConcurrencyLimit

\* claim_agent
ClaimAgent(a) ==
  /\ Idle
  /\ Claimable(a)
  /\ status' = [status EXCEPT ![a] = "running"]
  /\ attempts' = [attempts EXCEPT ![a] = Append(@, "running")]
  /\ lease_token' = [lease_token EXCEPT ![a] = Len(attempts[a]) + 1]
  /\ leased_until' = [leased_until EXCEPT ![a] = "future"]
  /\ run_status' = "running"
  /\ UNCHANGED <<retry_attempt, cost_usd, expiring, refreshes>>

\* The worker of attempt i still owns agent a: _running_attempt finds the
\* attempt and the lease guards of the update match.
Owns(a, i) ==
  /\ i \in DOMAIN attempts[a]
  /\ attempts[a][i] = "running"
  /\ status[a] = "running"
  /\ lease_token[a] = i

\* The clock passes leased_until of a running row.
LeaseLapses(a) ==
  /\ Idle
  /\ leased_until[a] = "future"
  /\ leased_until' = [leased_until EXCEPT ![a] = "past"]
  /\ UNCHANGED <<status, retry_attempt, lease_token, attempts, cost_usd,
                 run_status, expiring, refreshes>>

\* renew_lease: the update asks for the token and the status, not the time.
RenewLease(a, i) ==
  /\ Idle
  /\ status[a] = "running"
  /\ lease_token[a] = i
  /\ leased_until[a] = "past"
  /\ leased_until' = [leased_until EXCEPT ![a] = "future"]
  /\ UNCHANGED <<status, retry_attempt, lease_token, attempts, cost_usd,
                 run_status, expiring, refreshes>>

-----------------------------------------------------------------------------
\* _enforce_run_budget_in_transaction
TotalCost(c) == FoldFunction(+, 0, c)
BudgetAction(c) ==
  IF MaxCost = 0 \/ TotalCost(c) <= MaxCost THEN "none" ELSE OnExceed

\* complete_agent
CompleteAgent(a, i, cost) ==
  LET done  == MarkNewlyReady(Updated(status, {a}, "completed"))
      costs == [cost_usd EXCEPT ![a] = cost]
      action == BudgetAction(costs)
      live == Rows(done, LiveAgentStatuses)
      closed == Finished(attempts, {a}, "completed")
  IN
  /\ Idle
  /\ Owns(a, i)
  /\ cost_usd' = costs
  /\ \/ /\ action \in {"none", "warn"}
        /\ status' = done
        /\ attempts' = closed
        /\ ReleaseLeases({a})
        /\ UNCHANGED run_status
     \/ /\ action = "pause"
        /\ status' = Paused(done)
        /\ attempts' = closed
        /\ ReleaseLeases({a})
        /\ run_status' = "paused"
     \/ /\ action = "cancel"
        /\ status' = Stopped(done)
        /\ attempts' = Finished(closed, live, "cancelled")
        /\ ReleaseLeases({a} \cup live)
        /\ run_status' = "cost_exceeded"
  /\ OweRefresh
  /\ UNCHANGED <<retry_attempt, expiring>>

-----------------------------------------------------------------------------
\* _enforce_circuit_breaker_in_transaction, on the column s
Breaker(s) ==
  IF BreakerThreshold > 0
     /\ Cardinality(Rows(s, FailureAgentStatuses)) >= BreakerThreshold
  THEN BreakerAction ELSE "none"

\* fail_agent: the failed attempt uses one of the agent's retries.
CanRetry_NoBudget(a) == OnFailure[a] = "retry"
CanRetry(a) == OnFailure[a] = "retry" /\ retry_attempt[a] < RetryCount[a]

\* What a worker reports to _fail_claimed_agent: terminal_status and retryable.
\* The timeout of a runtime may be retried, that of a check may not.
FailureReports == ({"failed", "timeout"} \X BOOLEAN) \cup {<<"cost_exceeded", FALSE>>}

FailAgentRetry(a, i) ==
  /\ Idle
  /\ Owns(a, i)
  /\ CanRetry(a)
  /\ status' = [status EXCEPT ![a] = "queued"]
  /\ retry_attempt' = [retry_attempt EXCEPT ![a] = @ + 1]
  /\ attempts' = Finished(attempts, {a}, "failed")
  /\ ReleaseLeases({a})
  /\ OweRefresh
  /\ UNCHANGED <<cost_usd, run_status, expiring>>

(***************************************************************************)
(* fail_agent: the failure is final.  It is, whatever the retry budget,    *)
(* when the error is not retryable or the cost limit of the agent was hit. *)
(* The breaker is asked first, then on_failure decides.                    *)
(***************************************************************************)
FailAgentFinal(a, i, terminal, retryable) ==
  LET failed == Updated(status, {a}, terminal)
      live == Rows(failed, LiveAgentStatuses)
      action == Breaker(failed)
      closed == Finished(attempts, {a}, "failed")
      CancelOthers ==
        /\ status' = Stopped(failed)
        /\ attempts' = Finished(closed, live, "cancelled")
        /\ ReleaseLeases({a} \cup live)
        /\ run_status' = "failed"
  IN
  /\ Idle
  /\ Owns(a, i)
  /\ ~(terminal # "cost_exceeded" /\ retryable /\ CanRetry(a))
  /\ \/ action = "cancel_all" /\ CancelOthers
     \/ /\ action = "pause"
        /\ status' = Paused(failed)
        /\ attempts' = closed
        /\ ReleaseLeases({a})
        /\ run_status' = IF Paused(failed) = failed THEN run_status ELSE "paused"
     \/ /\ action \in {"none", "notify_only"}
        /\ OnFailure[a] = "stop"
        /\ CancelOthers
     \/ /\ action \in {"none", "notify_only"}
        /\ OnFailure[a] # "stop"
        /\ status' = FailDependencyBlocked(failed, a)
        /\ attempts' = closed
        /\ ReleaseLeases({a})
        /\ UNCHANGED run_status
  /\ OweRefresh
  /\ UNCHANGED <<retry_attempt, cost_usd, expiring>>

-----------------------------------------------------------------------------
\* cancel_agent: any row that exists and is not terminal, whoever leases it.
CancelAgent(a) ==
  /\ Idle
  /\ status[a] \in LiveAgentStatuses
  /\ status' = [status EXCEPT ![a] = "cancelled"]
  /\ attempts' = Finished(attempts, {a}, "cancelled")
  /\ ReleaseLeases({a})
  /\ OweRefresh
  /\ UNCHANGED <<retry_attempt, cost_usd, run_status, expiring>>

\* cancel_run
CancelRun ==
  LET live == Rows(status, LiveAgentStatuses) IN
  /\ Idle
  /\ run_status \notin TerminalRunStatuses
  /\ run_status' = "cancelled"
  /\ status' = Stopped(status)
  /\ attempts' = Finished(attempts, live, "cancelled")
  /\ ReleaseLeases(live)
  /\ UNCHANGED <<retry_attempt, cost_usd, expiring, refreshes>>

\* resume_run: its first transaction; the status of the run is not read.
ResumeRun ==
  LET retried == {a \in Rows(status, {"failed", "timeout"}) : CanRetry(a)}
      resumed == retried \cup Rows(status, {"paused"})
  IN
  /\ Idle
  /\ resumed # {}
  /\ status' = [a \in Agents |->
                  IF a \notin resumed THEN status[a]
                  ELSE IF Unblocked(status, a) THEN "queued" ELSE "pending"]
  /\ retry_attempt' = [a \in Agents |-> IF a \in retried THEN retry_attempt[a] + 1
                                        ELSE retry_attempt[a]]
  /\ ReleaseLeases(resumed)
  /\ run_status' = "queued"
  /\ OweRefresh
  /\ UNCHANGED <<attempts, cost_usd, expiring>>

\* mark_newly_ready_agents, called by resume_run and by a worker that has
\* completed an agent.
MarkNewlyReadyAgents ==
  /\ Idle
  /\ status' = MarkNewlyReady(status)
  /\ UNCHANGED <<retry_attempt, lease_token, leased_until, attempts, cost_usd,
                 run_status, expiring, refreshes>>

-----------------------------------------------------------------------------
\* expire_stale_leases: the SELECT that opens the transaction.
ExpireStaleLeases ==
  /\ Idle
  /\ expiring' = {a \in Rows(status, {"running"}) : leased_until[a] = "past"}
  /\ expiring' # {}
  /\ refreshes < MaxInFlight
  /\ UNCHANGED <<status, retry_attempt, lease_token, leased_until, attempts,
                 cost_usd, run_status, refreshes>>

\* One iteration of its loop; after the last the transaction commits.  The row
\* is updated by key: what the transaction itself did to it is overwritten.
ExpireRow(a) ==
  LET queued == Updated(status, {a}, "queued")
      failed == Updated(status, {a}, "failed")
      live == Rows(failed, LiveAgentStatuses)
      expired == Finished(attempts, {a}, "expired")
  IN
  /\ a \in expiring
  /\ expiring' = expiring \ {a}
  /\ IF expiring' = {} THEN OweRefresh ELSE UNCHANGED refreshes
  /\ \/ /\ CanRetry(a)
        /\ status' = queued
        /\ retry_attempt' = [retry_attempt EXCEPT ![a] = @ + 1]
        /\ attempts' = expired
        /\ ReleaseLeases({a})
        /\ UNCHANGED run_status
     \/ /\ OnFailure[a] = "stop"
        /\ status' = Stopped(failed)
        /\ attempts' = Finished(expired, live, "cancelled")
        /\ ReleaseLeases({a} \cup live)
        /\ run_status' = "failed"
        /\ UNCHANGED retry_attempt
     \/ /\ ~CanRetry(a)
        /\ OnFailure[a] # "stop"
        /\ status' = FailDependencyBlocked(failed, a)
        /\ attempts' = expired
        /\ ReleaseLeases({a})
        /\ UNCHANGED <<retry_attempt, run_status>>
  /\ UNCHANGED cost_usd

-----------------------------------------------------------------------------
\* The status refresh_run_status computes from the agent rows.
EndedVerdict_AsAgent(statuses) ==
  IF "timeout" \in statuses THEN "timeout"
  ELSE IF "failed" \in statuses THEN "failed" ELSE "cancelled"
EndedVerdict_CancelledIsDone(statuses) ==
  IF statuses \cap {"failed", "timeout"} # {} THEN "failed" ELSE "completed"
EndedVerdict(statuses) ==
  IF "cost_exceeded" \in statuses THEN "cost_exceeded"
  ELSE IF statuses \cap {"failed", "timeout"} # {} THEN "failed"
  ELSE "cancelled"
AggregateStatus ==
  LET statuses == {status[a] : a \in Agents} \ {"absent"} IN
  CASE statuses = {} -> run_status
    [] statuses # {} /\ statuses \subseteq {"completed"} -> "completed"
    [] statuses \subseteq TerminalAgentStatuses /\ ~statuses \subseteq {"completed"} ->
         EndedVerdict(statuses)
    [] OTHER -> IF "running" \in statuses THEN "running"
                ELSE IF "paused" \in statuses THEN "paused"
                ELSE "queued"

RefreshRunStatus ==
  /\ Idle
  /\ refreshes > 0
  /\ refreshes' = refreshes - 1
  /\ run_status' = IF run_status \in {"cancelled", "cost_exceeded"}
                   THEN run_status ELSE AggregateStatus
  /\ UNCHANGED <<status, retry_attempt, lease_token, leased_until, attempts,
                 cost_usd, expiring>>

\* The process that owes a refresh dies before it makes it.
CallerDies ==
  /\ CallersMayDie
  /\ Idle
  /\ refreshes > 0
  /\ refreshes' = refreshes - 1
  /\ UNCHANGED <<status, retry_attempt, lease_token, leased_until, attempts,
                 cost_usd, run_status, expiring>>

-----------------------------------------------------------------------------
Next ==
  \/ \E m \in Managers, d \in DynamicAgents : SpawnWorkerAgent(m, d)
  \/ \E a \in Agents : ClaimAgent(a)
  \/ \E a \in Agents : LeaseLapses(a)
  \/ \E a \in Agents : RenewLease(a, lease_token[a])
  \/ \E a \in Agents : \E i \in DOMAIN attempts[a], c \in Costs : CompleteAgent(a, i, c)
  \/ \E a \in Agents : \E i \in DOMAIN attempts[a] : FailAgentRetry(a, i)
  \/ \E a \in Agents : \E i \in DOMAIN attempts[a], r \in FailureReports :
        FailAgentFinal(a, i, r[1], r[2])
  \/ \E a \in Agents : CancelAgent(a)
  \/ CancelRun
  \/ ResumeRun
  \/ MarkNewlyReadyAgents
  \/ ExpireStaleLeases
  \/ \E a \in Agents : ExpireRow(a)
  \/ RefreshRunStatus
  \/ CallerDies

Spec == Init /\ [][Next]_vars

-----------------------------------------------------------------------------
(***************************************************************************)
(* One owner: an agent is running exactly when one of its attempts is, and *)
(* that attempt is the newest and the one that holds the lease.  A report  *)
(* of any other attempt is refused by _running_attempt and by the lease    *)
(* guards of complete_agent and fail_agent.                                *)
(***************************************************************************)
LeaseOwnership ==
  \A a \in Agents :
    /\ status[a] = "running" <=> lease_token[a] # 0
    /\ lease_token[a] # 0 <=> leased_until[a] # "null"
    /\ lease_token[a] # 0 => lease_token[a] = Len(attempts[a])
    /\ \A i \in DOMAIN attempts[a] :
         attempts[a][i] = "running" <=> lease_token[a] = i

(***************************************************************************)
(* Every execution is paid for: claim_agent, which checks no counter,      *)
(* starts an agent at most retry_count + 1 times, and a row that may be    *)
(* claimed again has a retry left that no attempt used.  It rests on every *)
(* path back to queued (fail_agent, expire_stale_leases, resume_run)       *)
(* counting the retry.                                                     *)
(***************************************************************************)
RetryBudgetBoundsAttempts ==
  \A a \in Agents :
    /\ retry_attempt[a] <= RetryCount[a]
    /\ Len(attempts[a]) <= retry_attempt[a] + 1
    /\ status[a] \in {"absent", "pending", "queued", "paused"} =>
         Len(attempts[a]) <= retry_attempt[a]

(***************************************************************************)
(* A row that is queued, running or completed has all its dependencies     *)
(* completed: no requeue (retry, expiry, resume after a pause) and no      *)
(* promotion lets an agent run ahead of an agent it depends on.            *)
(***************************************************************************)
DependenciesCompletedFirst ==
  \A a \in Agents :
    status[a] \in {"queued", "running", "completed"} => Unblocked(status, a)

(***************************************************************************)
(* A row the expiry pass has yet to visit is still as the pass read it, or *)
(* the pass itself has cancelled it; what it depends on stays completed.   *)
(***************************************************************************)
ExpiringRows ==
  \A a \in expiring :
    /\ status[a] \in {"running", "cancelled"}
    /\ Unblocked(status, a)

(***************************************************************************)
(* No promotion is missed: a pending row still waits for a dependency.     *)
(* Transactions that see each other's commits promote a dependent with its *)
(* last dependency, and resume_run queues what is already unblocked.       *)
(***************************************************************************)
PendingWaitsForADependency ==
  Idle => \A a \in Agents : status[a] = "pending" => ~Unblocked(status, a)

(***************************************************************************)
(* History is append-only: an attempt that has finished keeps its status   *)
(* and no attempt disappears, whichever later completion, failure, expiry  *)
(* or cancellation runs over the agent.                                    *)
(***************************************************************************)
FinishedAttemptsImmutable ==
  [][\A a \in Agents : \A i \in DOMAIN attempts[a] :
       /\ i \in DOMAIN attempts'[a]
       /\ attempts[a][i] # "running" => attempts'[a][i] = attempts[a][i]]_vars

(***************************************************************************)
(* The verdict of a run covers the plan: a run shown completed has every   *)
(* plan agent completed, a run shown cancelled has none that can still     *)
(* move, in spite of refreshes made late.                                  *)
(***************************************************************************)
RunVerdictCoversPlan ==
  /\ run_status = "completed" =>
       \A a \in PlanAgents : status[a] = "completed"
  /\ run_status = "cancelled" =>
       \A a \in PlanAgents : status[a] \in TerminalAgentStatuses

(***************************************************************************)
(* When every agent has ended and no refresh is owed the run has ended     *)
(* too, if no process died between its transaction and its refresh.        *)
(***************************************************************************)
SettledRunIsTerminal ==
  Idle /\ refreshes = 0 /\ Rows(status, LiveAgentStatuses) = {} =>
    run_status \in TerminalRunStatuses

(***************************************************************************)
(* The plan of a cancelled run stays where it is: no agent of it starts    *)
(* unless resume_run is called, though agents that managers spawned late   *)
(* may start, and set the run running.                                     *)
(***************************************************************************)
CancelledPlanStays ==
  [][run_status = "cancelled" => \A a \in PlanAgents :
       ~(status[a] # "running" /\ status'[a] = "running")]_vars

(***************************************************************************)
(* No agent waits for an agent that has failed for good: the failed have   *)
(* their dependents marked terminal, all along the chain.                  *)
(***************************************************************************)
WaitsForAFailure(a) ==
  /\ status[a] = "pending"
  /\ \E d \in Deps[a] : status[d] \in FailureAgentStatuses /\ ~CanRetry(d)
NobodyWaitsForAFailure == \A a \in Agents : ~WaitsForAFailure(a)

(***************************************************************************)
(* The failure of an agent, in a report or by expiry, ends every wait for  *)
(* it that there is, along the whole chain: only an agent that resume_run  *)
(* takes up again, paused or failed, may come to wait for a failed one.    *)
(***************************************************************************)
FailureEndsTheWaits ==
  [][\A a \in Agents : WaitsForAFailure(a)' /\ ~WaitsForAFailure(a) =>
       status[a] \in {"paused", "failed", "timeout"}]_vars

(***************************************************************************)
(* orchestration.concurrency_limit bounds the running agents of the run    *)
(* when claims are serial, whatever was requeued or spawned meanwhile.     *)
(***************************************************************************)
ConcurrencyLimitHolds ==
  ConcurrencyLimit > 0 => Cardinality(Running(status)) <= ConcurrencyLimit

(***************************************************************************)
(* With on_exceed = cancel the first completion over budget ends every     *)
(* execution and every wait; with pause it leaves only running agents.     *)
(***************************************************************************)
BudgetStopsTheRun ==
  [][\A a \in Agents :
       status[a] # "completed" /\ status'[a] = "completed" =>
         /\ BudgetAction(cost_usd') = "cancel" => Rows(status', LiveAgentStatuses) = {}
         /\ BudgetAction(cost_usd') = "pause" => Rows(status', {"pending", "queued"}) = {}]_vars

\* The repository implements the contract of module ExecutionContract.
Contract == INSTANCE ExecutionContract
              WITH open <- Running(status),
                   done <- Rows(status, {"completed"}),
                   used <- [a \in Agents |-> Len(attempts[a])]
ImplementsContract == Contract!Spec
=============================================================================
