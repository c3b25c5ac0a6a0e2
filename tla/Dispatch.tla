------------------------------ MODULE Dispatch ------------------------------
(***************************************************************************)
(* How a queued agent reaches a worker: the outbox rows and the hints on   *)
(* the ready stream that the submitter, the workers, the operators and the *)
(* tools of a manager publish, and the poll loop of a worker that reads    *)
(* them.  The rows of the run are those of module RunState, and so are the *)
(* operations on them.                                                     *)
(*                                                                         *)
(* A process publishes one agent in three steps: it records an outbox row, *)
(* enqueues the hint, and marks the row published.  It may crash between   *)
(* any two of its steps, and the second may fail.  A hint is read by one   *)
(* worker; its entry in the pending list of a worker that crashed is never *)
(* read again, and an acknowledgement only removes that entry, so neither  *)
(* is part of the state.                                                   *)
(***************************************************************************)
EXTENDS RunState

CONSTANTS
  Workers,      \* the workers that run the poll loop
  Operators,    \* the processes that run `spawnd reconcile` again and again
  Clients,      \* commands and tool calls: each resumes, cancels or spawns once
  Submitter,    \* the process that submitted the plan
  Rank,         \* the order of agents.created_at, ties resolved once
  Reports,      \* the failures an execution may end with
  MaxRows,      \* bound on the outbox rows in use at a time
  MaxHints,     \* bound on the unread hints when an operator reconciles again
  MaxFailures,  \* bound on the failures of Redis
  MaxCrashes    \* bound on the crashes of processes

Procs == Workers \cup Operators \cup Clients \cup {Submitter}
NoAgent == "no agent"

ASSUME DispatchAssumption ==
  /\ NoAgent \notin Agents
  /\ Rank \in [Agents -> Nat]
  /\ \A a, b \in Agents : Rank[a] = Rank[b] => a = b
  /\ Reports \subseteq FailureReports
  /\ {MaxRows, MaxHints, MaxFailures, MaxCrashes} \subseteq Nat

VARIABLES
  stream,    \* READY_STREAM: the hints no worker has read, in order
  outbox,    \* the pending rows of queue_outbox
  at,        \* the step each process is at
  then,      \* where it goes on after what it publishes
  todo,      \* the agents it has yet to publish
  batch,     \* the rows drain_queue_outbox has read and not yet relayed
  row,       \* the row it is sending, as a set
  job,       \* the agent a worker has read, or executes
  published, \* the agents a reconciliation has published after the expiry
  failures,  \* failures of Redis so far
  crashes    \* crashes so far

queueVars == <<stream, outbox>>
procVars == <<at, then, todo, batch, row, job, published>>
faultVars == <<failures, crashes>>
dispatchVars == <<vars, queueVars, procVars, faultVars>>

RowSet == [id : 1..MaxRows, agent : Agents]
Steps == {"publish", "send", "mark", "refresh", "drain", "relay", "expire", "expiring",
          "read", "claim", "exec", "again", "ready", "done", "command", "promote"}

\* A process holds a row exactly while it sends it, and a worker a job while
\* it claims or executes it.
DispatchTypeOK ==
  /\ stream \in Seq(Agents)
  /\ outbox \subseteq RowSet
  /\ at \in [Procs -> Steps]
  /\ then \in [Procs -> Steps]
  /\ todo \in [Procs -> SUBSET Agents]
  /\ batch \in [Procs -> SUBSET RowSet]
  /\ row \in [Procs -> SUBSET RowSet]
  /\ job \in [Workers -> Agents \cup {NoAgent}]
  /\ published \in [Operators -> SUBSET Agents]
  /\ failures \in 0..MaxFailures /\ crashes \in 0..MaxCrashes
  /\ \A p \in Procs : row[p] # {} <=> at[p] \in {"send", "mark"}
  /\ \A w \in Workers : job[w] # NoAgent <=> at[w] \in {"claim", "exec"}

\* The first step of the loop of a process, where a restart and an exception
\* that reaches the loop take it.
Home(p) == IF p \in Workers THEN "drain" ELSE IF p \in Operators THEN "expire" ELSE "done"

\* ready_agents: the first limit - running of the queued rows.
ReadyAgents(s) ==
  LET queued == Rows(s, {"queued"}) IN
  {a \in queued :
     \/ ConcurrencyLimit = 0
     \/ Cardinality({b \in queued : Rank[b] < Rank[a]}) + Cardinality(Running(s))
          < ConcurrencyLimit}

NewlyQueued == {a \in Agents : status[a] # "queued" /\ status'[a] = "queued"}

\* Process p goes to a step; it publishes some agents first, and refreshes the
\* run before that if refresh is true.
GoTo(p, step) ==
  /\ at' = [at EXCEPT ![p] = step]
  /\ then' = [then EXCEPT ![p] = Home(p)]
Publish(p, agents, refresh, step) ==
  LET first == IF refresh THEN "refresh" ELSE IF agents # {} THEN "publish" ELSE step IN
  /\ todo' = [todo EXCEPT ![p] = agents]
  /\ at' = [at EXCEPT ![p] = first]
  /\ then' = [then EXCEPT ![p] = IF first = step THEN Home(p) ELSE step]

ForgetPublished(p) ==
  published' = [o \in Operators |-> IF o = p THEN {} ELSE published[o]]

-----------------------------------------------------------------------------
\* submit_plan has committed create_run.
DispatchInit ==
  /\ Init
  /\ stream = <<>> /\ outbox = {}
  /\ at = [p \in Procs |-> IF p = Submitter THEN "ready"
                       ELSE IF p \in Clients THEN "command" ELSE Home(p)]
  /\ then = [p \in Procs |-> Home(p)]
  /\ todo = [p \in Procs |-> {}]
  /\ batch = [p \in Procs |-> {}]
  /\ row = [p \in Procs |-> {}]
  /\ job = [w \in Workers |-> NoAgent]
  /\ published = [o \in Operators |-> {}]
  /\ failures = 0 /\ crashes = 0

\* submit_plan, without the second loop of reconcile_ready_agents.
PublishReadyAgents_ExpiredOnly(p) ==
  /\ at[p] = "ready"
  /\ Idle
  /\ Publish(p, IF p = Submitter THEN ReadyAgents(status) ELSE {}, FALSE, Home(p))
  /\ ForgetPublished(p)
  /\ UNCHANGED <<vars, queueVars, batch, row, job, faultVars>>

\* submit_plan, and reconcile_ready_agents after the expiry: ready_agents, and
\* a hint for each of them it has not published yet.
PublishReadyAgents(p) ==
  /\ at[p] = "ready"
  /\ Idle
  /\ Publish(p, {a \in ReadyAgents(status) :
                     p \in Operators => a \notin published[p]}, FALSE, Home(p))
  /\ ForgetPublished(p)
  /\ UNCHANGED <<vars, queueVars, batch, row, job, faultVars>>

\* record_queue_outbox; a new row takes the least number that is not in use.
InUse == {r.id : r \in outbox \cup UNION {batch[p] \cup row[p] : p \in Procs}}
RecordQueueOutbox(p) ==
  /\ at[p] = "publish"
  /\ \E a \in todo[p], n \in (1..MaxRows) \ InUse :
       /\ 1..(n - 1) \subseteq InUse
       /\ outbox' = outbox \cup {[id |-> n, agent |-> a]}
       /\ row' = [row EXCEPT ![p] = {[id |-> n, agent |-> a]}]
       /\ todo' = [todo EXCEPT ![p] = @ \ {a}]
  /\ at' = [at EXCEPT ![p] = "send"]
  /\ UNCHANGED <<vars, stream, then, batch, job, published, faultVars>>

\* enqueue_agent
EnqueueAgent(p) ==
  /\ at[p] = "send"
  /\ \E r \in row[p] : stream' = Append(stream, r.agent)
  /\ at' = [at EXCEPT ![p] = "mark"]
  /\ UNCHANGED <<vars, outbox, then, todo, batch, row, job, published, faultVars>>

\* mark_outbox_published
MarkOutboxPublished(p) ==
  /\ at[p] = "mark"
  /\ outbox' = outbox \ row[p]
  /\ row' = [row EXCEPT ![p] = {}]
  /\ IF todo[p] # {} THEN at' = [at EXCEPT ![p] = "publish"] /\ UNCHANGED then
                     ELSE GoTo(p, then[p])
  /\ UNCHANGED <<vars, stream, todo, batch, job, published, faultVars>>

\* A failed enqueue, with the row marked published all the same.
EnqueueFails_MarksPublished(p) ==
  /\ at[p] = "send"
  /\ failures < MaxFailures
  /\ failures' = failures + 1
  /\ row' = [row EXCEPT ![p] = {}]
  /\ todo' = [todo EXCEPT ![p] = {}]
  /\ outbox' = outbox \ row[p]
  /\ GoTo(p, IF then[p] = "relay" THEN "relay" ELSE Home(p))
  /\ ForgetPublished(p)
  /\ UNCHANGED <<vars, stream, batch, job, crashes>>

(***************************************************************************)
(* enqueue_agent raises.  The relay puts the row off and goes on with the  *)
(* next; any other caller leaves its loop over the agents to publish, and  *)
(* what it has not recorded yet is in no outbox row.                       *)
(***************************************************************************)
EnqueueFails(p) ==
  /\ at[p] = "send"
  /\ failures < MaxFailures
  /\ failures' = failures + 1
  /\ row' = [row EXCEPT ![p] = {}]
  /\ todo' = [todo EXCEPT ![p] = {}]
  /\ GoTo(p, IF then[p] = "relay" THEN "relay" ELSE Home(p))
  /\ ForgetPublished(p)
  /\ UNCHANGED <<vars, queueVars, batch, job, crashes>>

\* refresh_run_status, after the transaction that owes it.
Refresh(p) ==
  /\ at[p] = "refresh"
  /\ RefreshRunStatus
  /\ IF todo[p] # {} THEN at' = [at EXCEPT ![p] = "publish"] /\ UNCHANGED then
                     ELSE GoTo(p, then[p])
  /\ UNCHANGED <<queueVars, todo, batch, row, job, published, faultVars>>

-----------------------------------------------------------------------------
\* run_poll, first drain_queue_outbox: it reads the pending rows and relays
\* each of them, published by somebody else meanwhile or not.
DrainQueueOutbox(w) ==
  /\ at[w] = "drain"
  /\ batch' = [batch EXCEPT ![w] = outbox]
  /\ GoTo(w, "relay")
  /\ UNCHANGED <<vars, queueVars, todo, row, job, published, faultVars>>

RelayRow(w) ==
  /\ at[w] = "relay"
  /\ \/ /\ batch[w] = {}
        /\ GoTo(w, "expire")
        /\ UNCHANGED <<batch, row>>
     \/ \E r \in batch[w] :
          /\ \A q \in batch[w] : r.id <= q.id
          /\ batch' = [batch EXCEPT ![w] = @ \ {r}]
          /\ row' = [row EXCEPT ![w] = {r}]
          /\ at' = [at EXCEPT ![w] = "send"]
          /\ then' = [then EXCEPT ![w] = "relay"]
  /\ UNCHANGED <<vars, queueVars, todo, job, published, faultVars>>

\* run_poll and reconcile_ready_agents: expire_stale_leases, and a hint for
\* each agent it requeued.
AfterExpiry(p) == IF p \in Workers THEN "read" ELSE "ready"
ExpireLeases(p) ==
  /\ at[p] = "expire"
  /\ p \in Operators => Len(stream) < MaxHints
  /\ IF \E a \in Rows(status, {"running"}) : leased_until[a] = "past"
     THEN ExpireStaleLeases /\ GoTo(p, "expiring")
     ELSE Idle /\ GoTo(p, AfterExpiry(p)) /\ UNCHANGED vars
  /\ UNCHANGED <<queueVars, todo, batch, row, job, published, faultVars>>

ExpireNext(p) ==
  /\ at[p] = "expiring"
  /\ \E a \in Agents : ExpireRow(a)
  /\ IF expiring' = {} THEN Publish(p, todo[p] \cup NewlyQueued, TRUE, AfterExpiry(p))
     ELSE todo' = [todo EXCEPT ![p] = @ \cup NewlyQueued] /\ UNCHANGED <<at, then>>
  /\ published' = [o \in Operators |-> IF o = p THEN todo'[p] ELSE published[o]]
  /\ UNCHANGED <<queueVars, batch, row, job, faultVars>>

\* claim_agent refused, with the job kept.
ClaimNextAgent_KeepsJob(w) ==
  /\ at[w] = "claim"
  /\ IF job[w] \in ReadyAgents(status)
     THEN ClaimAgent(job[w]) /\ GoTo(w, "exec")
     ELSE Idle /\ GoTo(w, "drain") /\ UNCHANGED vars
  /\ UNCHANGED <<queueVars, todo, batch, row, job, published, faultVars>>

\* claim_next_agent: read_agent, then claim_agent, whose refusal is final
\* for the hint.
ReadAgent(w) ==
  /\ at[w] = "read"
  /\ IF stream = <<>>
     THEN GoTo(w, "drain") /\ UNCHANGED <<stream, job>>
     ELSE /\ job' = [job EXCEPT ![w] = Head(stream)]
          /\ stream' = Tail(stream)
          /\ GoTo(w, "claim")
  /\ UNCHANGED <<vars, outbox, todo, batch, row, published, faultVars>>

ClaimNextAgent(w) ==
  /\ at[w] = "claim"
  /\ IF job[w] \in ReadyAgents(status)
     THEN ClaimAgent(job[w]) /\ GoTo(w, "exec") /\ UNCHANGED job
     ELSE /\ Idle
          /\ job' = [job EXCEPT ![w] = NoAgent]
          /\ GoTo(w, "drain")
          /\ UNCHANGED vars
  /\ UNCHANGED <<queueVars, todo, batch, row, published, faultVars>>

-----------------------------------------------------------------------------
\* The execution of w is over: it makes a report of its attempt, or, when the
\* agent was cancelled meanwhile, one that is refused.
Attempt(w) == Len(attempts[job[w]])
Executed(w) ==
  /\ at[w] = "exec"
  /\ job' = [job EXCEPT ![w] = NoAgent]
  /\ UNCHANGED <<queueVars, batch, row, published, faultVars>>

\* The end of _execute_claimed: complete_agent and hints for what it returns,
\* then enqueue_newly_ready_agents, also when the completion was refused.
ReportCompletion(w) ==
  /\ Executed(w)
  /\ IF Owns(job[w], Attempt(w))
     THEN /\ \E c \in Costs : CompleteAgent(job[w], Attempt(w), c)
          /\ Publish(w, IF BudgetAction(cost_usd') \in {"pause", "cancel"} THEN {}
                        ELSE ReadyAgents(status'), TRUE, "again")
     ELSE /\ Idle
          /\ GoTo(w, "again")
          /\ UNCHANGED <<vars, todo>>

EnqueueNewlyReadyAgents(w) ==
  /\ at[w] = "again"
  /\ MarkNewlyReadyAgents
  /\ Publish(w, ReadyAgents(status'), FALSE, "drain")
  /\ UNCHANGED <<queueVars, batch, row, job, published, faultVars>>

\* fail_agent, without the hints for the agents it has queued.
ReportFailure_NoHints(w) ==
  /\ Executed(w)
  /\ IF Owns(job[w], Attempt(w))
     THEN /\ \E r \in Reports : IF r[2] /\ r[1] # "cost_exceeded" /\ CanRetry(job[w])
                                THEN FailAgentRetry(job[w], Attempt(w))
                                ELSE FailAgentFinal(job[w], Attempt(w), r[1], r[2])
          /\ Publish(w, {}, TRUE, "drain")
     ELSE /\ Idle
          /\ GoTo(w, "drain")
          /\ UNCHANGED <<vars, todo>>

\* _fail_claimed_agent: hints for the agents fail_agent has queued.
ReportFailure(w) ==
  /\ Executed(w)
  /\ IF Owns(job[w], Attempt(w))
     THEN /\ \E r \in Reports : IF r[2] /\ r[1] # "cost_exceeded" /\ CanRetry(job[w])
                                THEN FailAgentRetry(job[w], Attempt(w))
                                ELSE FailAgentFinal(job[w], Attempt(w), r[1], r[2])
          /\ Publish(w, NewlyQueued, TRUE, "drain")
     ELSE /\ Idle
          /\ GoTo(w, "drain")
          /\ UNCHANGED <<vars, todo>>

(***************************************************************************)
(* Commands of operators and calls of a manager's tools, each a process or *)
(* a task that ends with it.  `spawnd resume`: resume_run, its promotion   *)
(* and its refresh, each in a transaction of its own, then a hint for each *)
(* agent the first one has queued.                                         *)
(***************************************************************************)
ResumeCommand(c) ==
  /\ at[c] = "command"
  /\ ResumeRun
  /\ todo' = [todo EXCEPT ![c] = NewlyQueued]
  /\ GoTo(c, "promote")
  /\ UNCHANGED <<queueVars, batch, row, job, published, faultVars>>
PromoteResumed(c) ==
  /\ at[c] = "promote"
  /\ MarkNewlyReadyAgents
  /\ at' = [at EXCEPT ![c] = "refresh"]
  /\ UNCHANGED <<queueVars, then, todo, batch, row, job, published, faultVars>>

\* `spawnd cancel`; the cancel flag in Redis stops no hint.
CancelCommand(c) ==
  /\ at[c] = "command"
  /\ CancelRun
  /\ GoTo(c, Home(c))
  /\ UNCHANGED <<queueVars, todo, batch, row, job, published, faultVars>>

\* spawn_worker and cancel_worker, in the runtime of a manager.  What it can
\* cancel has a name that begins with that of some manager (_worker_name).
WorkerNames == DynamicAgents \cup UNION {NamedAfter[m] : m \in Managers}
SpawnWorker(c, m, d) ==
  /\ at[c] = "command"
  /\ SpawnWorkerAgent(m, d)
  /\ Publish(c, {d}, FALSE, Home(c))
  /\ UNCHANGED <<queueVars, batch, row, job, published, faultVars>>
CancelWorker(c, a) ==
  /\ at[c] = "command"
  /\ \E m \in Managers : attempts[m] # <<>>
  /\ CancelAgent(a)
  /\ Publish(c, {}, TRUE, Home(c))
  /\ UNCHANGED <<queueVars, batch, row, job, published, faultVars>>

\* The clock passes a lease; a worker that executes renews it in time.
LeasePasses(a) ==
  /\ \A w \in Workers : job[w] # a
  /\ LeaseLapses(a)
  /\ UNCHANGED <<queueVars, procVars, faultVars>>

\* A process dies between two of its steps and is started again, the
\* submitter is not.  An open transaction is rolled back, as if not started.
Crash(p) ==
  /\ crashes < MaxCrashes
  /\ crashes' = crashes + 1
  /\ at[p] \notin {Home(p), "expiring", "command"}
  /\ IF at[p] = "refresh" THEN CallerDies ELSE Idle /\ UNCHANGED vars
  /\ GoTo(p, Home(p))
  /\ todo' = [todo EXCEPT ![p] = {}]
  /\ batch' = [batch EXCEPT ![p] = {}]
  /\ row' = [row EXCEPT ![p] = {}]
  /\ job' = [w \in Workers |-> IF w = p THEN NoAgent ELSE job[w]]
  /\ ForgetPublished(p)
  /\ UNCHANGED <<queueVars, failures>>

-----------------------------------------------------------------------------
\* What a process does by itself: a failure, a crash and the clock are not
\* among it.
PublishStep(p) ==
  \/ RecordQueueOutbox(p) \/ EnqueueAgent(p) \/ MarkOutboxPublished(p)
  \/ Refresh(p)
SubmitterStep == PublishReadyAgents(Submitter) \/ PublishStep(Submitter)
WorkerStep(w) ==
  \/ PublishStep(w)
  \/ DrainQueueOutbox(w) \/ RelayRow(w)
  \/ ExpireLeases(w) \/ ExpireNext(w)
  \/ ReadAgent(w) \/ ClaimNextAgent(w)
  \/ ReportCompletion(w) \/ ReportFailure(w)
  \/ EnqueueNewlyReadyAgents(w)
OperatorStep(o) ==
  \/ PublishStep(o)
  \/ ExpireLeases(o) \/ ExpireNext(o)
  \/ PublishReadyAgents(o)
\* A client goes on with a command, but gives none.
ClientStep(c) == PublishStep(c) \/ PromoteResumed(c)
Command(c) ==
  \/ ResumeCommand(c) \/ CancelCommand(c)
  \/ \E a \in WorkerNames : CancelWorker(c, a)
  \/ \E m \in Managers, d \in DynamicAgents : SpawnWorker(c, m, d)

DispatchNext ==
  \/ SubmitterStep
  \/ \E w \in Workers : WorkerStep(w)
  \/ \E o \in Operators : OperatorStep(o)
  \/ \E c \in Clients : ClientStep(c) \/ Command(c)
  \/ \E p \in Procs : EnqueueFails(p) \/ Crash(p)
  \/ \E a \in Agents : LeasePasses(a)

DispatchSpec == DispatchInit /\ [][DispatchNext]_dispatchVars

(***************************************************************************)
(* A worker that is alive keeps polling and its executions end (the code   *)
(* guarantees it when runtime_timeout_seconds is set); the submitter and   *)
(* clients publish what they have begun to; operators keep reconciling; a  *)
(* lease nobody renews passes.  Failures and crashes are bounded, so in    *)
(* the end none happens.                                                   *)
(***************************************************************************)
DispatchFairness ==
  /\ WF_dispatchVars(SubmitterStep)
  /\ \A w \in Workers : WF_dispatchVars(WorkerStep(w))
  /\ \A o \in Operators : WF_dispatchVars(OperatorStep(o))
  /\ \A c \in Clients : WF_dispatchVars(ClientStep(c))
  /\ \A a \in Agents : WF_dispatchVars(LeasePasses(a))

FairDispatchSpec == DispatchSpec /\ DispatchFairness

-----------------------------------------------------------------------------
(***************************************************************************)
(* At-least-once delivery: a wakeup whose outbox row is pending and whose  *)
(* recorder has yet to send it reaches the worker, in spite of a crash of  *)
(* the recorder, of an enqueue that fails and of a crash of the relay.     *)
(* (With one worker: with two, one may read the hint while the relay of    *)
(* the other still holds the row.)                                         *)
(***************************************************************************)
Unsent(a) ==
  \E p \in Procs : /\ at[p] = "send" /\ then[p] # "relay"
                   /\ \E r \in row[p] \cap outbox : r.agent = a
RecordedWakeupIsDelivered ==
  \A a \in Agents : Unsent(a) ~> (\E w \in Workers : job[w] = a)

(***************************************************************************)
(* A run with a live worker and an operator that reconciles ends: the      *)
(* hints lost by crashes, failures and refused claims are made again from  *)
(* the rows, and the leases of crashed workers pass.                       *)
(***************************************************************************)
EveryAgentEnds == <>[](Rows(status, LiveAgentStatuses) = {})

(***************************************************************************)
(* No wakeup is lost: as long as nothing crashes or fails, and without a   *)
(* limit that makes claim_next_agent drop hints, each queued agent has     *)
(* something of its own that makes a worker look at it without an          *)
(* operator: a hint, an outbox row whose hint has yet to be sent, a        *)
(* process that has yet to record it or to ask for the ready agents, or a  *)
(* worker with its hint in hand.                                           *)
(***************************************************************************)
HasHint(a) == \E i \in DOMAIN stream : stream[i] = a
HasRow(a) ==
  \E r \in outbox : /\ r.agent = a
                    /\ \A p \in Procs : at[p] = "mark" => r \notin row[p]
HasPublisher(a) ==
  \E p \in Procs : \/ a \in todo[p]
                   \/ at[p] = "ready" /\ (p \in Operators => a \notin published[p])
HasClaimant(a) == \E w \in Workers : at[w] = "claim" /\ job[w] = a
Covered(a) == HasHint(a) \/ HasRow(a) \/ HasPublisher(a) \/ HasClaimant(a)
QueuedAgentHasAWakeup ==
  ConcurrencyLimit = 0 /\ failures = 0 /\ crashes = 0 =>
    \A a \in Agents : status[a] = "queued" => Covered(a)
=============================================================================
