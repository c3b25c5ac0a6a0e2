# spawnd in TLA+

spawnd runs plans of coding agents: a plan names agents, what each depends on
and what happens when one fails; workers claim agents, execute them in git
worktrees and report. This directory models how a run comes into being, what
runs, when, how often and with what result, and checks and proves that this is
decided correctly whatever the workers, the clocks and the network do.

Paths below are relative to `src/spawnd/`; `repository` is
`state/repository.py`, `worker` is `workers/worker.py`.

## 1. The system

| component | state | operations | what is hard | what makes it correct |
|---|---|---|---|---|
| run state repository (`state/repository.py`, `state/schema.py`) | tables `runs`, `agents`, `agent_attempts` in Postgres, the canonical state | `create_run`, `spawn_worker_agent`, `claim_agent`, `renew_lease`, `complete_agent`, `fail_agent`, `cancel_agent`, `cancel_run`, `resume_run`, `mark_newly_ready_agents`, `expire_stale_leases`, `refresh_run_status` | reports of stale workers, expiry beside completion, several ways back to `queued`, the run's status computed in a second transaction | one owner per agent; executions within the retries; dependencies first; history kept; a verdict the agents support |
| transaction isolation (all of `repository`) | what each statement of a READ COMMITTED transaction sees | the statements of claims, completions, promotions, refreshes, cancellations, expiries | write skew, lost updates, lock order | the limit, the promotion of dependents, the history, no wait for ever |
| wake-up dispatch (`coordination/redis.py`, `state/submission.py`, end of `worker`) | Redis stream of hints, its pending list, table `queue_outbox` | record, publish, mark; read, claim, acknowledge; `drain_queue_outbox`, `reconcile_ready_agents`; the hints of `resume` and `spawn_worker` | hints lost, duplicated, acknowledged without a claim; crashes between the three publishing steps | a queued agent that may start is claimed in the end; a hint never starts an agent twice |
| worker process (`worker`, `gitops/worktrees.py`) | the claimed attempt, a runtime task, a renewal task, a lease key, the cancel flag of the run, worktrees and branches, the ledger of invocations and errors | claim, source, worktree, session, setup, runtime, check, delivery, completion, cleanup; renewal; cancellation; timeout | a lease lost while the worker goes on; two workers in one worktree; a cancel flag that outlives its purpose; a dozen ways out | only the owner's report counts; a completion is earned; the ledger tells the truth; an execution stops when its lease is lost |
| submissions, templates, schedules (`state/submission.py`, `repository`, `server.py`) | submission stream, `schedules`, `run_templates`, `runs` | `consume_next_submission`, `submit_due_schedules`, `POST /runs` and the webhooks | at-least-once delivery, several schedulers, exceptions that nobody takes for an answer | a message is decided once; a schedule keeps its interval; one bad neighbour does not hold up the rest |
| plan model and dependency graph (`models/specs.py`, `io/validation.py`, `io/plan_builder.py`, `core/deps.py`) | none | validation, orders, layers, subtrees, builders of sequential plans | cycles, self-dependencies, unknown and repeated names | an accepted plan can finish |
| clarifications (`tools/worker.py`, `tools/manager.py`) | `events`, `responses` | ask and poll with a timeout, respond, list pending | an answer beside the deadline, two answers, a call that is gone | an answer is to the question and is read once; what is answered is not pending |
| manager tools (`tools/manager.py`) | none of its own | `spawn_worker`, `cancel_worker`, listing, answering | called while the run is cancelled or over budget | the properties of the parts it changes |
| server, CLI, API | none of their own | the commands that submit, schedule, resume, cancel, reconcile | | |
| runtime executors, observer (`runtime/`) | a vendor session | run until done, failed, timed out | I/O | the worker takes each outcome for what it is |
| artifacts, telemetry, notifications, GitHub trigger installation, configuration, policy, roles, tool adapters | see "Not modelled" | | I/O and pure functions | |

How they interact: a submission is rendered and validated, creates the rows of
a run and sends one hint per queued agent. A worker reads a hint, claims the
agent in Postgres (the hint proves nothing), executes it while a second task
renews the lease, and reports; the report queues dependents, may pause or
cancel the run (budget, circuit breaker, `on_failure = stop`) and leads to new
hints. Every worker also expires the stale leases of all runs at each poll.
Operators cancel and resume runs; a manager agent inserts agents into its own
run, cancels them, and answers the questions of the agents below it.

The behaviours a test hardly reaches are listed as `hazards` in
`PROJECT.json`, each at its line, with the properties that cover it or the
reason why none does.

## 2. The modules

| module | models |
|---|---|
| `RunState` | the repository's rows for one run and every operation that changes them, a transaction at a time |
| `ExecutionContract` | what the repository promises of executions: at most one open per agent, after its dependencies, never after success, at most `retry_count + 1` |
| `RunStateClaims` | a statement of the documentation that the rows do not keep |
| `RunIsolation` | the same transactions statement by statement at READ COMMITTED |
| `Dispatch` | how a queued agent reaches a worker; extends `RunState` |
| `Worker` | what a worker does with an agent it has claimed; extends `RunState` |
| `Submissions` | how runs come into being; extends `PlanGraph` |
| `PlanGraph` | validation of plans and the algorithms on their graphs |
| `Clarifications` | questions of workers and answers of managers |
| `MCRunState`, `MCRunIsolation`, `MCDispatch`, `MCWorker`, `MCSubmissions`, `MCClarifications` | the small instances the runs use |
| `RunState_proofs`, `RunVerdict_proofs` | theorems about `RunState` and its contract |
| `Isolation_proofs` (of `RunIsolation`), `Dispatch_proofs`, `Worker_proofs`, `Submissions_proofs`, `Clarifications_proofs` | theorems about the module of that name; that of `Submissions` also has the validation of `PlanGraph` |
| `NaturalFacts` | lemmas on least elements and induction that several proofs cite |

`Dispatch` and `Worker` are two compositions with `RunState`: each adds the
state of its part and takes the rows and their operations from there, so that
an operation is written once. `Dispatch` reduces an execution to its report,
`Worker` reduces the way to a worker to a claim. Checking them in one state
space is out of reach, and they meet in the rows alone.

### RunState

*State.* `status`, `retry_attempt`, `cost_usd`, `lease_token`, `leased_until`
are the columns of `agents`; `attempts[a]` the statuses of the rows of
`agent_attempts` by `attempt_number`; `run_status` is `runs.status`. A lease
token is the number of the attempt it was issued to (the code draws a uuid per
claim), 0 stands for NULL; the deadline is NULL, in the future or in the past.
`expiring` holds the rows a running `expire_stale_leases` has read and not yet
visited, `refreshes` counts calls of `refresh_run_status` that are owed.

*Actions.* One per transaction, named after the method. A method that ends with
`refresh_run_status` (a second transaction) leaves one refresh owed; any
process that owes one performs it later, in any order with everything else, or
dies first (`CallerDies`). `resume_run`'s second transaction,
`mark_newly_ready_agents`, is an action that may happen at any time.
`complete_agent` and `fail_agent` take the attempt of the caller as a
parameter, any attempt ever made, so that reports of workers whose lease was
lost, and reports made twice, are tried in every state. `expire_stale_leases`
is one action per row because its effects on later rows of the same pass
matter; no other transaction runs in between. Which of several queued plan rows
comes first is open, because the rows of one plan carry the same `created_at`.

*Left out.* Columns nothing reads back to decide (errors, previews, token
counts, timestamps other than the deadline). The branches of `complete_agent`
and `fail_agent` for a caller without an `attempt_id`: no caller in the package
takes them. Costs are naturals.

*Bounds.* `MaxInFlight` bounds the owed refreshes: an operation that would owe
one more waits. Everything else is finite by itself: `retry_count` bounds the
attempts.

*Refinement.* `ImplementsContract` takes the running rows as open executions,
the completed rows as done, and the number of attempts as executions used. A
claim is a `Start`, a completion a `Finish` (a budget may stop others in the
same step), every failure, expiry and cancellation an `Abandon`, everything
else a stutter.

### RunIsolation

*State.* `committed` are the rows as everybody sees them, `draft` the rows as
the transaction that holds their lock has written them, `lock` who that is;
`step`, `job`, `todo` and `verdict` are the local state of each process between
two statements.

*Actions.* One per statement, or per group of statements in which only the
first can wait and nobody sees the rest. A SELECT reads committed rows and the
transaction's own writes; an UPDATE waits for the holder of the row and then
looks at the row it left. `Abort` breaks a cycle of waits as Postgres does.
`Crash` is a worker that dies in its execution.

*Left out.* `fail_agent`, `resume_run`, `spawn_worker_agent`, the budget and
the breaker, which take the same locks in the same order as the operations that
are here. They are in `RunState`, as atomic transactions.

*Bounds.* `MaxOperations` per operator. Attempts are bounded by it too, since
only an expiry queues an agent again.

### Dispatch

*State.* The rows are those of `RunState`. `stream` is the Redis stream of
hints no worker has read, `outbox` the pending rows of `queue_outbox`. Each
process (the submitter, workers, operators that run `spawnd reconcile`, clients
that resume, cancel or spawn once) has a step `at` which it stands, the agents
it has yet to publish (`todo`), the row it is sending (`row`), the rows its
relay has read (`batch`), and a worker the agent it has read or executes
(`job`).

*Actions.* A publication is three steps: `RecordQueueOutbox`, `EnqueueAgent`,
`MarkOutboxPublished`. A worker loops through `DrainQueueOutbox` with a
`RelayRow` per row, `ExpireLeases` and `ExpireNext`, `ReadAgent`,
`ClaimNextAgent`, and one of `ReportCompletion` and `ReportFailure`; each runs
the operation of `RunState` of the same name and then publishes what the code
publishes. An operator expires leases and then publishes what is ready. A
client is a command of the CLI or the server, or a tool call of a manager.
`EnqueueFails` is an exception of the enqueue (one that has sent nothing): the
relay puts the row off, every other caller leaves its loop. `Crash` drops the
local state of a process; a worker starts again, a submitter does not.

*Left out.* The pending list of a worker: it is never read again and an
acknowledgement only removes from it, so it has no effect. The delay of a row
put off: its next relay may come at any time. A live worker renews its lease in
time here (`LeasePasses` asks that nobody executes the agent); what becomes of
one that does not is the subject of `Worker`.

*Wake-ups.* `QueuedAgentHasAWakeup` says, agent by agent, what will make a
worker look at a queued agent: a hint in the stream, an outbox row not yet sent,
a process that has yet to publish it or to ask which agents are ready, or a
worker with its hint in hand. It is claimed where the code means to lose none:
without a concurrency limit (`claim_next_agent` acknowledges a hint it may not
use), before any enqueue has failed and before any process has died in the
middle of a publication. In the other cases only an operator who reconciles
makes up for the loss, which `EveryAgentEnds` of `dispatch_recover` is about.

*Bounds.* `MaxFailures` and `MaxCrashes` bound the faults, `MaxHints` how many
hints may be unread when an operator starts another pass, `MaxRows` the outbox
rows in use (nine are never all in use). `Reports` selects which failures an
execution may end with; the hints do not depend on it.

### Worker

*State.* The rows are those of `RunState`. Of each worker: `stage` is where in
`_execute_claimed` it is, `job` the agent and the attempt it claimed, `report`
the failure it will report, `renewal` its renewal task (asleep before the first
round, renewing after it, or dead of an exception). Shared: `lease_key` and
`cancel_flag` in Redis, `worktrees` and `branches` per host, `invocations`,
`errors` and `delivered` of the ledger and of git.

*Actions.* One per stretch of code between two points at which another actor
can change what is read next: claim, lease key, source, worktree, session,
setup, `EndRuntime`, `CancelExecution`, check, delivery, completion, promotion,
report, cleanup. Every early return has its own order of error, report and
cleanup, which the stages "report", "clean", "then report" and "then clean"
keep. `Renew` is a round of `_renew_lease_until_done`. Exceptions nobody
handles (a worktree that is gone at the check or at the provenance) end the job
and leave agent and invocation running. Faults: `Crash`, `Interrupt` (a signal,
which the worker takes for a cancellation), `RenewalDies`, `RedisLosesKeys`.
Others: `Reap`, `CancelCommand`, `CancelWorker`, `PublishCancel`,
`ResumeCommand`, `Refresh`, the clock.

*Left out.* Prompts, environments, usage, notifications, the content of trees.
A session that refuses (missing secret, isolation policy) is one outcome.

*Bounds.* `MaxFaults` faults in all.

### Submissions and PlanGraph

*State.* `stream`, `delivered` and `acked` are the submission stream and its
consumer group; `runs`, `templates` and `schedules` the tables; `work` what a
submitter, scheduler or handler has in hand, `agenda` the due rows a scheduler
has read. `rejected`, `replaced`, `events` and `faults` are history the
properties speak of, or bounds.

*Actions.* Read a message or the due rows (which renders and validates), create
the run, acknowledge or move the schedule or respond. Only a `ValueError`, and
only for a message, is an answer: any other exception leaves the loop, the
command ends and is started again. `Fault` is an exception or a death between
any two steps. Operators put templates and schedules and pause them.

*Left out.* The text of templates: rendering ends in a plan, in a refusal or in
an exception. The rows after the insertion are `RunState`'s.

*Bounds.* `MaxEvents` messages, requests, changes and faults together,
`MaxTime` the clock.

`PlanGraph` has `validate_plan`, `DependencyGraph` and the builders of
sequential plans as operators on sequences of agents. `Visit` is the recursion
of `has_circular_deps`, a function of the name and the path it is called with.
`MCSubmissions` compares them with reference definitions on all 4096 plans of
three agents that may depend on each other, on themselves and on an unknown name: the search finds
exactly the plans with a cycle of the community module `Graphs`
(`CyclesAreFound`), an accepted plan is one every part of which has an agent
that needs nothing of it (`ValidPlan <=> CanFinish`), `get_subtree` is what
follows, orders and layers respect the dependencies and exist when the plan can
finish, the two validations accept the same plans, and with what is left of a
valid plan something is ready or blocked by a failure.

### Clarifications

*State.* `events` and `responses` are the tables, the place of a row its id;
`calls` the tool calls that wait, `returned` what they returned, `now` the
clock.

*Actions.* `Ask`; a round of `_poll_for_response` is `Look`, then `Consume` or
a sleep that ends with `Wake`; the deadline is looked at before the table
(`Expire`). `Lose` is a runtime that dies or is cancelled. `Respond` names the
id of any event, or what the manager was shown, and the foreign key of
`responses` refuses what is the id of no event.

*Bounds.* `MaxEvents`, `MaxAnswers`, `MaxTime`.

## 3. The runs

| run | instance | states | question |
|---|---|---|---|
| `run_pause` | a chain of three with retries whose end joins an independent agent; limit 1; budget and breaker pause; two refreshes in flight, none lost | 45 k | requeues, promotion, the limit, the wait of dependents, the history, the verdict on the run |
| `run_spawn` | two managers, two workers to spawn, cap 1; limit 2; budget, breaker and a stop cancel; refreshes may be lost | 32 k | ownership, budget, cancellation, the contract |
| `isolation` | an agent that needs two others, limit 1; two workers, an operator with one operation | 0.13 M | what interleaved statements keep |
| `dispatch_recover` | one agent with a retry; a worker, an operator, one crash, one failed enqueue | 0.35 M | recorded wake-ups arrive, every agent ends |
| `dispatch_healthy` | a manager with a retry, its dependent and its worker; two workers, a client, a budget that pauses; no operator, no faults | 4.1 M | no wake-up is lost |
| `worker` | two workers on one host, one agent with a retry, setup and cleanup, one fault | 0.53 M | who completes, what the ledger says, who keeps the lease, who stops |
| `submissions` | a submitter, two schedulers with two schedules (one with a broken template), a handler; two events | 0.16 M | what becomes a run, how often, what is held up |
| `clarifications` | two calls, two managers, two answers, a timeout of two looks | 0.29 M | which answer is returned, and that a call returns |
| `claim_stop` | two independent agents and one that needs both; retry, stop, continue | | a statement of the documentation that a behaviour breaks |
| `resume_waits`, `isolation_limit`, `clarification_ids` | as `run_pause` without a breaker, `isolation`, `clarifications` | | the same |

The plans are the smallest in which the interesting steps meet: two
dependencies of one agent, a chain longer than one (a failure is passed on
twice), an agent that may be executed twice, an agent outside the chain that it joins, and a
manager that outlives its run. Costs are 0 and 2 against a limit of 1, so a
completion may or may not exceed it. `dispatch_recover` uses one agent because
the interleavings of the operator with the worker multiply with every agent,
and one is enough for each loss the code knows: a crash before the outbox row,
between row and hint, between the read and the claim, and in the execution. The
run `worker` uses one agent because its subject is two workers on one; they
share a host, so that worktree and branch are shared too.

Each property of a passing run is broken by a mutant of the code listed in
`PROJECT.json`, such as a dropped guard, a missing reset or a swapped order.
The mutants stand before the definitions they replace.

What the four violations show:

* `claim_stop`: an audit says that `on_failure='stop'` terminalizes the other
  agents. `expire_stale_leases` reads all stale rows first and updates each by
  its key; if a later one belongs to a sibling the stop has just cancelled, the
  loop queues it again.
* `resume_waits`: an audit says that agents whose dependency failed are marked
  terminal and that runs roll up to a terminal state. `resume_run` makes such an
  agent pending again when it has a retry left (or was paused meanwhile), while
  the failed dependency stays as it is, and nothing ends the new wait.
  `FailureEndsTheWaits` says what does hold: every failure ends the waits there
  are, and only `resume_run` makes new ones.
* `isolation_limit`: the README says that several workers cannot exceed the
  concurrency limit. Two claims of different agents lock different rows, and
  each counts the running rows before the other commits. `OvershootIsBounded`
  says how far it goes: one agent per claimant but one.
* `clarification_ids`: the tool's description says that a manager responds to a
  pending clarification. The list shows the first eight characters of the id,
  and the foreign key refuses a response to that.

Deadlock checking is off where the system may stop: a run that has ended takes
no step (`MCRunState`, `MCRunIsolation`, `MCWorker`), and when the clock of
`MCSubmissions` or `MCClarifications` has reached its bound nothing is due and
nobody has to ask. In `MCDispatch` it is on, a worker polls for ever.

## 4. Fairness

The runs of `MCRunState` check safety only and assume none.

* `Dispatch`: weak fairness of the steps of each process, since `run_poll` is a
  loop that catches every exception, and the submitter and a client go on with
  what they began. That an execution ends is guaranteed by the code when
  `runtime_timeout_seconds` is set and is assumed otherwise. A lease nobody
  renews passes, since time does. That operators keep reconciling is an
  assumption about the deployment: no process of the repository does it
  periodically; `dispatch_healthy` has no operator.
* `Worker`: weak fairness of `Renew`, an asyncio timer beside the runtime, and
  of `Reap`, because a transaction that was opened ends. Nothing says that a
  runtime ends or that a worker takes another step.
* `RunIsolation`: strong fairness of the steps of each process, because a row
  may be taken and released again and again while a process waits for it, and
  Postgres grants it in the order of arrival.
* `Submissions`: weak fairness of submitters and schedulers, which poll and are
  started again by their supervisor when they end. None of handlers.
* `Clarifications`: weak fairness of a call's steps, by the event loop, and of
  the clock.

Failures and crashes have no fairness, and their bounds say that they stop.

## 5. The proofs

Every invariant and every action property of a passing run is stated by a
theorem here, for all values of the constants that satisfy the assumptions of
the modules. The assumptions say that plans, callers and processes are finite
sets, that names of one kind are not those of another, that policies have the
values the models of `models/specs.py` admit, and that the bounds are numbers.
The bounds of the models (`MaxFaults`, `MaxEvents`, ...) are constants too, so
the theorems hold for however many faults and events there are.

### Run state

`RunState_proofs` proves for every plan, policy and bound that satisfies the
assumptions of `RunState`:

| theorem | property |
|---|---|
| `TypeCorrectness`, `OneOwner`, `RetriesArePaid`, `DependenciesFirst` | `TypeOK`, `LeaseOwnership`, `RetryBudgetBoundsAttempts`, `DependenciesCompletedFirst` |
| `HistoryIsAppendOnly` | `FinishedAttemptsImmutable` |
| `LimitHolds` | `ConcurrencyLimitHolds` |
| `KeepsContract` | `ImplementsContract` |

The inductive invariant `IInv` is the conjunction of the first four and
`ExpiringRows`. None of them is inductive alone: that a claim stays within the
retries needs the third conjunct of `RetryBudgetBoundsAttempts` (a row that may
be claimed has a retry left), that a failing attempt pays for the next needs
`LeaseOwnership` (the attempt that fails is the newest), and that a row requeued
by the expiry loop has its dependencies completed needs `ExpiringRows` (what the
pass has read is still running, or was cancelled by the pass itself).

Most operations end some executions and reshuffle the waiting rows. The lemma
`RowStepPreservesIInv` states once, per row, what such a step may do; one lemma
per action shows that the action does only that. Claims and spawns, which start
something, are proved on their own.

`RunVerdict_proofs` adds, on the same assumptions:

| theorem | property |
|---|---|
| `NoPromotionIsMissed`, `FailuresEndWaits` | `PendingWaitsForADependency`, `FailureEndsTheWaits` |
| `BudgetEndsTheRun` | `BudgetStopsTheRun` |
| `VerdictCoversPlan`, `CancelledPlansStay` | `RunVerdictCoversPlan`, `CancelledPlanStays` |
| `SettledRunsEnd` | `SettledRunIsTerminal`, if no caller dies before its refresh and the plan has an agent |

They rest on the fate of a row (`Fates`): unless `resume_run` takes it up, a row
that has ended stays as it is, save one an open expiry pass has read, and none
becomes pending. The verdict is not inductive alone: a run shown completed or
cancelled would lose it to a pass that has read a row of the plan before, so
`VerdictInv` says that no such pass is open. That a failure reaches every
dependent along the chain is `BlockedIsClosed`: the set the loop of
`_fail_dependency_blocked_agents_in_transaction` computes is closed.

### Workers

`Worker_proofs` proves for every plan and policy and any number of workers,
hosts and faults:

| theorem | property |
|---|---|
| `WorkersObeyRunState` | `RowsObeyRunState`: `WorkerSpec => Spec`, so that the theorems above hold of deployed workers |
| `WorkersHaveOneOwner` | `LeaseOwnership`, from the two |
| `CompletedIsEarned` | `CompletionIsEarned` |
| `ReportedIsClosed` | `ReportedAttemptIsClosed` |
| `RenewedIsNotExpired` | `RenewedAttemptIsNotExpired` |
| `WorkerTypes` | `WorkerTypeOK` |

That a step of a worker is a step of `RunState` needs `JobOK`: the attempt of a
job exists, and a report is among those `fail_agent` may get. The ledger needs
more. `DistinctJobs` (no two workers have the same attempt, because a claim
makes a new one) lets the invocations of an attempt be changed by its own
worker only, and `LedgerFor` says what they are in each stage: open exactly
while the worker is in it, completed before the next opens, an error on record
before a failure is reported. An attempt becomes completed or failed by the
report of its owner alone (`CompleteReports`, `FailReports`,
`ReportsNothing`), and the worker that reports is in the stage whose ledger
justifies it. The race of renewal and reaper rests on `RenewInv`: while a
worker renews and holds row and key, the deadline is in the future and no open
expiry pass has read the row. It is kept because neither row (`RowBecomesMine`)
nor key (`KeyBecomesMine`) comes back to an attempt that lost it, and because
only the clock makes a deadline pass (`OnlyTheClockRuns`).

### Dispatch

| theorem | property |
|---|---|
| `DispatchTypes` | `DispatchTypeOK` |
| `DispatchRunsTheRows` | `DispatchSpec => Spec`: the theorems of `RunState` hold of dispatch |
| `HintsStayInBudget` | `RetryBudgetBoundsAttempts` and `PendingWaitsForADependency`, from the two |
| `NoWakeupIsLost` | `QueuedAgentHasAWakeup` |

The invariant `DInv` adds to the types that a process publishes in the steps of
a publication only, and sends one row at a time. Given it, `Covered` is
inductive beside `TypeOK` and `PendingWaitsForADependency` of `RunState`: the
last says that the promotion that ends a `resume_run`, which publishes only what
its first transaction queued, queues nobody itself (`PromotionQueuesNothing`). `CoverIsHandedOn` is the argument once for all steps: what covers an agent
is somebody else's and stays, or belongs to the process that steps and is handed
on (recorded, sent, read, claimed).

### Isolation

| theorem | property |
|---|---|
| `IsolationTypes` | `IsolationTypeOK` |
| `CompletedIsNewest` | `SupersededNeverCompletes` |
| `AttemptsAreHistory` | `EndedAttemptsStay` |
| `OvershootHasABound` | `OvershootIsBounded` |
| `DependentsAreFound` | `NoForgottenDependent` |

`IsoInv` relates rows, locks and steps. `RowInv`: a draft is a possible successor
of the committed row (`Fits`), and without a lock it is the row itself.
`ProcInv`: a worker has a job in exactly the steps between its claim and its
completion. `LocksMatch`: who holds a row may have drafted only what its step
writes. Two properties need more. `SlotsAreBounded` counts beside the running
rows the claims that have seen a free slot and not committed (`Claiming`): their
sum stays under the limit plus the other workers, though none of them sees the
others. `SomebodyLooks` says of every agent that is overlooked at the moment
(pending, with all it needs completed) that some worker has its second look
before it or has the agent on its list; a completion that hides another's from
it is why the second look, in a transaction of its own, is needed.

### Submissions and the validation

| theorem | property |
|---|---|
| `ValidPlansCanFinish` | `ValidPlan(plan) => CanFinish(plan)` for plans of any size |
| `AcceptedRunsCanFinish` | `RunsCanFinish` |
| `SubmissionTypes` | `SubmissionTypeOK` |
| `MessagesGiveOneRun` | `MessagesAreDecidedOnce` |
| `SchedulesKeepTheirInterval` | `ScheduleKeepsItsInterval` |

`Visit` is a recursive function, and all that may be used of it is its equation
(`VisitEquation`), which holds because the equation has a solution: the least set
of calls closed under it (`LeastIsFixed`). Suppose a set of agents each of which
needs one of the set. From an agent of the set a call that is not true leads to
a call for another one of it, with a path longer by one name; paths cannot grow
for ever, so some call is true, and truth is passed back to the first one
(`SearchFindsCircles`). Hence a plan without cycle, with known dependencies, has
no such set, and that is `CanFinish`. The converse is left to TLC
(`CyclesAreFound`).

Of the processes, `MessageInv` says that a message is in the hands of one
submitter at most while it is pending, and has its run as soon as that one has
made the insertion; `AgendaInv` that a schedule is once on a scheduler's agenda
and not while it is being submitted; `ScheduleInv` that, as long as nothing has
failed and the schedule was not put again, a run of it at `t` keeps its
scheduler away until `t + Interval`, either because `next_run_at` is that late
or because the move of `next_run_at` comes before the scheduler looks again.

### Clarifications

| theorem | property |
|---|---|
| `ClarificationTypes` | `ClarificationTypeOK` |
| `AnswersBelong` | `AnswersAreToTheQuestion` |
| `AnsweredIsNotPending` | `AnsweredStaysAnswered` |
| `NothingIsOverlooked` | `NoAnswerIsOverlooked` |

`CInv` says that a question belongs to one call, that a response names the id of
an event (the foreign key), that what a call has found answers its question, and
that a call that goes on has found nothing among the answers of its last look.
The ledger is bounded because every call that waits may add one event more, its
timeout (`RoomForTimeouts`).

### Only model-checked

* Liveness: `EveryAgentEnds`, `RecordedWakeupIsDelivered`,
  `UnwantedRuntimeStops`, `EveryTransactionEnds`,
  `HealthySubmissionBecomesARun`, `DueScheduleIsServed`, `EveryCallReturns`.
  The prover reasons neither about fairness nor about ENABLED.
* The orders, layers, subtrees and builders of `PlanGraph`. What a recursion
  computes for every input takes an induction over data. (The validation needs
  none: what matters of it follows from the equation.)
* `ListedCanBeAnswered`, the documented statement that `clarification_ids`
  refutes, and the other three violations: they are false.

## 6. Divergences

Seen while modelling, each a behaviour of a module here, and not kept as runs
of their own:

* the budget is read in `complete_agent` only; `CHANGELOG.md:75` says that it is
  enforced before start and retry;
* a breaker that pauses skips the step that fails the dependents; after a
  `resume_run` they wait for ever, as in `resume_waits`;
* `spawn_worker_agent` does not read the status of the run, so a manager that
  has not noticed a cancellation brings the run back to running;
* the reaper updates by key and brings back an agent that was cancelled or
  completed between its two statements; `refresh_run_status` may overwrite a
  `cancel_run` committed between its statements, and a late promotion the row
  of an agent that runs already;
* an enqueue that raises, a claim refused for lack of a slot, and a final
  failure that frees a slot lose wake-ups until someone reconciles;
* an answer recorded during the last sleep of a call is missed, although the
  error says that no response was recorded; an answer that comes later is never
  read;
* `create_schedule` on an existing id makes it due at once; an exception that
  is no `ValueError` leaves a submission pending for ever; a schedule whose
  template gives no plan holds up those behind it; two schedulers, or a crash
  before `mark_schedule_submitted`, submit a due schedule twice, as a repeated
  webhook delivery does.

The properties of the passing runs are stated so that these are allowed, and
their comments say so.

## 7. Not modelled

* Artifacts and redaction: content-addressed writes and text substitution.
* Telemetry and notifications: output nothing reads back.
* The installation of the GitHub trigger: calls of `gh`. A delivery is a request
  of `Submissions`.
* Configuration, policy, roles: pure functions of environment and plan; their
  refusals are outcomes in `Worker` and `Submissions`.
* Tool adapters: they expose the tools and keep no state.
* The loops around vendor SDKs: a runtime has its outcomes only.
* The content of git trees, and the maintenance commands on worktrees.
* Migrations, parsing, rendering, authentication, read-only views.

## 8. The plan

1. The core, its contract and its proofs; dispatch; isolation; workers;
   submissions and plans; clarifications: done.
2. Theorems about each of these modules, for every safety property of a run:
   done.
3. A refinement of `RunIsolation` to `RunState` for the transactions that are
   serialized by a row lock, with the exceptions of section 6 named.
4. `fail_agent` and `resume_run` in `RunIsolation`.
