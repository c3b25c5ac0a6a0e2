---------------------------- MODULE RunIsolation ----------------------------
(***************************************************************************)
(* The transactions of DeployedRepository (spawnd/state/repository.py)     *)
(* statement by statement, as Postgres runs them at its default level,     *)
(* READ COMMITTED: a SELECT reads what is committed when it starts and the *)
(* transaction's own writes; an UPDATE, and SELECT FOR UPDATE, wait for    *)
(* the transaction that holds the row and then look at the row it left; a  *)
(* cycle of waits is broken by aborting one of its members.                *)
(*                                                                         *)
(* Workers claim, complete, refresh and promote; operators cancel the run  *)
(* or expire leases.  RunState takes each of these transactions as one     *)
(* step; here is what remains true when they interleave.  The attempts of  *)
(* an agent are written only by a transaction that has written, and so     *)
(* locks, the row of the agent, and are kept with it.  Every agent has     *)
(* retries left and no budget, so that neither a failure nor a pause is    *)
(* among the steps.  None of the statements has an ORDER BY: a SELECT      *)
(* gives its rows in any order.  A first write, of which nobody sees       *)
(* anything while its row is locked, is one step with the read that        *)
(* follows it, and the last write one with the commit.                     *)
(***************************************************************************)
EXTENDS Integers, SequencesExt

CONSTANTS
  Agents,            \* the agents of the run
  Deps,              \* depends_on of each
  ConcurrencyLimit,  \* orchestration.concurrency_limit, 0 for none
  Workers,           \* processes that claim and complete
  Operators,         \* processes that cancel the run or expire leases
  MaxOperations      \* cancellations and expiries per operator

Procs == Workers \cup Operators

ASSUME IsolationAssumption ==
  /\ IsFiniteSet(Agents) /\ IsFiniteSet(Procs)
  /\ "run" \notin Agents /\ "nobody" \notin Procs
  /\ Workers \cap Operators = {}
  /\ Deps \in [Agents -> SUBSET Agents]
  /\ ConcurrencyLimit \in Nat /\ MaxOperations \in Nat

VARIABLES
  committed,   \* the rows as committed: the agents' and the run's
  draft,       \* the rows as the transactions that lock them have written them
  lock,        \* the process whose transaction holds each row
  step,        \* the next statement of each process
  job,         \* the agent and the attempt of each worker
  todo,        \* the rows each process has read and will write, in their order
  verdict,     \* the status each refresh has computed
  operations,  \* the operations each operator has begun
  skipped      \* a promotion was lost: its transaction was aborted

dbVars == <<committed, draft, lock>>
isoVars == <<dbVars, step, job, todo, verdict, operations, skipped>>

RowIds == Agents \cup {"run"}
NoJob == [agent |-> "none", attempt |-> 0]
Terminal == {"completed", "cancelled"}
WorkerSteps == {"idle", "start run", "exec", "complete", "queue", "promote again",
                "queue again"}
OperatorSteps == {"idle", "cancel run", "cancel rows", "requeue"}
RefreshSteps == {"refresh", "aggregate", "publish"}

AgentRow == [status : {"pending", "queued", "running"} \cup Terminal, token : Nat,
             attempts : Seq({"running", "expired"} \cup Terminal)]
RunRow == [status : {"queued", "running"} \cup Terminal]

IsolationTypeOK ==
  /\ DOMAIN committed = RowIds /\ DOMAIN draft = RowIds
  /\ \A a \in Agents : committed[a] \in AgentRow /\ draft[a] \in AgentRow
  /\ committed["run"] \in RunRow /\ draft["run"] \in RunRow
  /\ lock \in [RowIds -> Procs \cup {"nobody"}]
  /\ \A w \in Workers : step[w] \in WorkerSteps \cup RefreshSteps
  /\ \A o \in Operators : step[o] \in OperatorSteps \cup RefreshSteps
  /\ \A w \in Workers : job[w] # NoJob <=> step[w] \in {"start run", "exec", "complete"}
  /\ todo \in [Procs -> Seq(Agents)]
  /\ operations \in [Operators -> 0..MaxOperations]
  /\ skipped \in BOOLEAN
  /\ \A r \in RowIds : lock[r] = "nobody" => draft[r] = committed[r]

-----------------------------------------------------------------------------
\* What a statement of p sees of a row, and the agents in some statuses.
View(p, r) == IF lock[r] = p THEN draft[r] ELSE committed[r]
In(p, statuses) == {a \in Agents : View(p, a).status \in statuses}

\* A write waits for the row; a commit publishes the writes of p, with the last
\* one if there is one.
MayWrite(p, r) == lock[r] \in {"nobody", p}
Write(p, r, v) ==
  /\ lock' = [lock EXCEPT ![r] = p]
  /\ draft' = [draft EXCEPT ![r] = v]
  /\ UNCHANGED committed
Released(p) == [r \in RowIds |-> IF lock[r] = p THEN "nobody" ELSE lock[r]]
Commit(p) ==
  /\ committed' = [r \in RowIds |-> IF lock[r] = p THEN draft[r] ELSE committed[r]]
  /\ lock' = Released(p)
  /\ UNCHANGED draft
CommitLast(p, last, v) ==
  /\ committed' = [r \in RowIds |->
                     IF r = last THEN v ELSE IF lock[r] = p THEN draft[r] ELSE committed[r]]
  /\ draft' = [draft EXCEPT ![last] = v]
  /\ lock' = Released(p)
Rollback(p) ==
  /\ draft' = [r \in RowIds |-> IF lock[r] = p THEN committed[r] ELSE draft[r]]
  /\ lock' = Released(p)
  /\ UNCHANGED committed

GoTo(p, s) == step' = [step EXCEPT ![p] = s]
Keep(p, s) == GoTo(p, s) /\ UNCHANGED <<job, todo, verdict, operations, skipped>>
Drop(p, s) == /\ GoTo(p, s)
              /\ job' = [job EXCEPT ![p] = NoJob]
              /\ UNCHANGED <<todo, verdict, operations, skipped>>

\* The next update by key of a loop over the rows that were read; the last one
\* is committed with the transaction.
WriteNext(p, New(_), then) ==
  LET a == Head(todo[p]) IN
  /\ IF todo[p] = <<>> THEN Commit(p) /\ GoTo(p, then) /\ UNCHANGED todo
     ELSE /\ MayWrite(p, a)
          /\ todo' = [todo EXCEPT ![p] = Tail(@)]
          /\ IF Len(todo[p]) > 1 THEN Write(p, a, New(View(p, a))) /\ UNCHANGED step
                                 ELSE CommitLast(p, a, New(View(p, a))) /\ GoTo(p, then)
  /\ UNCHANGED <<job, verdict, operations, skipped>>

\* The attempts of the rows that are running get their final status with them.
Ended_Rewrites(row, status, outcome) ==
  [status |-> status, token |-> 0, attempts |-> [i \in DOMAIN row.attempts |-> outcome]]
Ended(row, status, outcome) ==
  [status |-> status, token |-> 0,
   attempts |-> [i \in DOMAIN row.attempts |->
                   IF row.attempts[i] = "running" THEN outcome ELSE row.attempts[i]]]

IsolationInit ==
  /\ committed = [r \in RowIds |->
       IF r = "run" THEN [status |-> "queued"]
       ELSE [status |-> IF Deps[r] = {} THEN "queued" ELSE "pending",
             token |-> 0, attempts |-> <<>>]]
  /\ draft = committed
  /\ lock = [r \in RowIds |-> "nobody"]
  /\ step = [p \in Procs |-> "idle"]
  /\ job = [w \in Workers |-> NoJob]
  /\ todo = [p \in Procs |-> <<>>]
  /\ verdict = [p \in Procs |-> "none"]
  /\ operations = [o \in Operators |-> 0]
  /\ skipped = FALSE

-----------------------------------------------------------------------------
\* claim_agent of a worker with a hint for a: SELECT FOR UPDATE of the agent,
\* the count of the running rows (with a limit, queued rows before this one may
\* take the free slots: the claim may always be refused), the update of the
\* agent with the new attempt; then the update of the run.  A claim that is
\* refused changes nothing.
FreeSlot(w) == ConcurrencyLimit = 0 \/ Cardinality(In(w, {"running"})) < ConcurrencyLimit
ClaimTakes_NoCount(w, a) ==
  LET n == Len(committed[a].attempts) + 1 IN
  /\ step[w] = "idle"
  /\ MayWrite(w, a)
  /\ committed[a].status = "queued"
  /\ Write(w, a, [status |-> "running", token |-> n,
                  attempts |-> Append(committed[a].attempts, "running")])
  /\ job' = [job EXCEPT ![w] = [agent |-> a, attempt |-> n]]
  /\ GoTo(w, "start run")
  /\ UNCHANGED <<todo, verdict, operations, skipped>>
ClaimTakes(w, a) ==
  LET n == Len(committed[a].attempts) + 1 IN
  /\ step[w] = "idle"
  /\ MayWrite(w, a)
  /\ committed[a].status = "queued"
  /\ FreeSlot(w)
  /\ Write(w, a, [status |-> "running", token |-> n,
                  attempts |-> Append(committed[a].attempts, "running")])
  /\ job' = [job EXCEPT ![w] = [agent |-> a, attempt |-> n]]
  /\ GoTo(w, "start run")
  /\ UNCHANGED <<todo, verdict, operations, skipped>>

ClaimStartsRun(w) ==
  /\ step[w] = "start run"
  /\ MayWrite(w, "run")
  /\ CommitLast(w, "run", [status |-> "running"])
  /\ Keep(w, "exec")

\* A worker dies, between two transactions, and its agent stays running until a
\* reaper comes.  Its successor has its name.
Crash(w) ==
  /\ step[w] = "exec"
  /\ Drop(w, "idle")
  /\ UNCHANGED dbVars

-----------------------------------------------------------------------------
(***************************************************************************)
(* _mark_newly_ready_agents_in_transaction: one SELECT of all agents, then *)
(* an update by name for each that is ready.  It ends complete_agent, and  *)
(* a worker calls it again, in a transaction of its own, when the run has  *)
(* been refreshed (enqueue_newly_ready_agents).                            *)
(***************************************************************************)
Ready(p, done) ==
  {a \in In(p, {"pending"}) : Deps[a] \subseteq In(p, {"completed"}) \cup done}
Queued(row) == [row EXCEPT !.status = "queued"]
QueueReady(w) ==
  \/ step[w] = "queue" /\ WriteNext(w, Queued, "refresh")
  \/ step[w] = "queue again" /\ WriteNext(w, Queued, "idle")
PromoteAgain(w) ==
  /\ step[w] = "promote again"
  /\ \E order \in SetToSeqs(Ready(w, {})) : todo' = [todo EXCEPT ![w] = order]
  /\ GoTo(w, IF Ready(w, {}) = {} THEN "idle" ELSE "queue again")
  /\ UNCHANGED <<dbVars, job, verdict, operations, skipped>>

\* complete_agent: the SELECT of the attempt, then the update of the agent,
\* which asks for the status and the token, and the promotion.
ReadAttempt(w) ==
  LET a == job[w].agent IN
  /\ step[w] = "exec"
  /\ IF committed[a].attempts[job[w].attempt] = "running"
     THEN Keep(w, "complete")
     ELSE Drop(w, "promote again")
  /\ UNCHANGED dbVars

\* A refused completion that keeps its job.
Complete_KeepsJob(w) ==
  /\ step[w] = "complete"
  /\ MayWrite(w, job[w].agent)
  /\ Commit(w)
  /\ Keep(w, "promote again")
\* The update asks for the status alone, or also for the token.
CompleteIf(w, accepted) ==
  LET a == job[w].agent IN
  /\ step[w] = "complete"
  /\ MayWrite(w, a)
  /\ IF accepted
     THEN /\ Write(w, a, [status |-> "completed", token |-> 0,
               attempts |-> [committed[a].attempts EXCEPT ![job[w].attempt] = "completed"]])
          /\ \E order \in SetToSeqs(Ready(w, {a})) : todo' = [todo EXCEPT ![w] = order]
          /\ job' = [job EXCEPT ![w] = NoJob]
          /\ GoTo(w, "queue")
          /\ UNCHANGED <<verdict, operations, skipped>>
     ELSE Drop(w, "promote again") /\ UNCHANGED dbVars
Complete_AnyToken(w) == CompleteIf(w, committed[job[w].agent].status = "running")
Complete(w) ==
  CompleteIf(w, /\ committed[job[w].agent].status = "running"
                /\ committed[job[w].agent].token = job[w].attempt)

-----------------------------------------------------------------------------
\* refresh_run_status: the SELECT of the run, the SELECT of the agents, the
\* update of the run by its key.
Done_NoSecondLook(p) == "idle"
Done(p) == IF p \in Workers THEN "promote again" ELSE "idle"
ReadRun(p) ==
  /\ step[p] = "refresh"
  /\ Keep(p, IF committed["run"].status = "cancelled" THEN Done(p) ELSE "aggregate")
  /\ UNCHANGED dbVars
Aggregate(p) ==
  LET next == IF In(p, {"completed"}) = Agents THEN "completed"
              ELSE IF In(p, Terminal) = Agents THEN "cancelled"
              ELSE IF In(p, {"running"}) # {} THEN "running" ELSE "queued"
  IN
  /\ step[p] = "aggregate"
  /\ verdict' = [verdict EXCEPT ![p] = next]
  /\ GoTo(p, "publish")
  /\ UNCHANGED <<dbVars, job, todo, operations, skipped>>
\* A refresh that leaves its transaction open.
PublishVerdict_LeaksLock(p) ==
  /\ step[p] = "publish"
  /\ MayWrite(p, "run")
  /\ Write(p, "run", [status |-> verdict[p]])
  /\ verdict' = [verdict EXCEPT ![p] = "none"]
  /\ GoTo(p, Done(p))
  /\ UNCHANGED <<job, todo, operations, skipped>>
PublishVerdict(p) ==
  /\ step[p] = "publish"
  /\ MayWrite(p, "run")
  /\ CommitLast(p, "run", [status |-> verdict[p]])
  /\ verdict' = [verdict EXCEPT ![p] = "none"]
  /\ GoTo(p, Done(p))
  /\ UNCHANGED <<job, todo, operations, skipped>>

-----------------------------------------------------------------------------
\* cancel_run: the SELECT of the run, its update, the SELECT of the agents, an
\* update by key of each that was not terminal, whatever it has become.
Begin(o) ==
  /\ step[o] = "idle"
  /\ operations[o] < MaxOperations
  /\ operations' = [operations EXCEPT ![o] = @ + 1]
  /\ UNCHANGED <<dbVars, job, verdict, skipped>>
CancelReadsRun(o) ==
  /\ Begin(o)
  /\ committed["run"].status \notin Terminal
  /\ GoTo(o, "cancel run")
  /\ UNCHANGED todo
CancelWritesRun(o) ==
  /\ step[o] = "cancel run"
  /\ MayWrite(o, "run")
  /\ Write(o, "run", [status |-> "cancelled"])
  /\ \E order \in SetToSeqs(Agents \ In(o, Terminal)) : todo' = [todo EXCEPT ![o] = order]
  /\ GoTo(o, "cancel rows")
  /\ UNCHANGED <<job, verdict, operations, skipped>>
Cancelled(row) == Ended(row, "cancelled", "cancelled")
CancelRow(o) == step[o] = "cancel rows" /\ WriteNext(o, Cancelled, "idle")

\* expire_stale_leases: the SELECT of the running rows whose lease has passed,
\* then an update of each by its key, then refresh_run_status.
ReadStale(o) ==
  /\ Begin(o)
  /\ \E stale \in SUBSET In(o, {"running"}) :
       /\ stale # {}
       /\ \E order \in SetToSeqs(stale) : todo' = [todo EXCEPT ![o] = order]
  /\ GoTo(o, "requeue")
Expired(row) == Ended(row, "queued", "expired")
Requeue(o) == step[o] = "requeue" /\ WriteNext(o, Expired, "refresh")

-----------------------------------------------------------------------------
\* Postgres aborts a member of a cycle of waits; the caller gets an exception.
Wants(p) ==
  CASE step[p] = "complete" -> {job[p].agent}
    [] step[p] \in {"start run", "publish", "cancel run"} -> {"run"}
    [] step[p] \in {"queue", "queue again", "cancel rows", "requeue"} ->
         IF todo[p] = <<>> THEN {} ELSE {Head(todo[p])}
    [] OTHER -> {}
WaitsFor(p) == {lock[r] : r \in Wants(p)} \ {"nobody", p}
Deadlocked(p) ==
  /\ WaitsFor(p) # {}
  /\ \E S \in SUBSET Procs : /\ p \in S
                             /\ \A q \in S : \E r \in S : WaitsFor(q) = {r}
                             /\ \A q \in S : \E r \in S : WaitsFor(r) = {q}
Abort(p) ==
  /\ Deadlocked(p)
  /\ Rollback(p)
  /\ job' = [w \in Workers |-> IF w = p THEN NoJob ELSE job[w]]
  /\ todo' = [todo EXCEPT ![p] = <<>>]
  /\ skipped' = (skipped \/ step[p] = "queue again")
  /\ GoTo(p, "idle")
  /\ UNCHANGED <<verdict, operations>>

-----------------------------------------------------------------------------
Refreshing(p) == ReadRun(p) \/ Aggregate(p) \/ PublishVerdict(p)
OperatorStep(o) ==
  CancelWritesRun(o) \/ CancelRow(o) \/ Requeue(o)
WorkerStep(w) ==
  ClaimStartsRun(w) \/ ReadAttempt(w) \/ Complete(w) \/ QueueReady(w) \/ PromoteAgain(w)

IsolationNext ==
  \/ \E w \in Workers, a \in Agents : ClaimTakes(w, a)
  \/ \E w \in Workers : WorkerStep(w) \/ Crash(w)
  \/ \E o \in Operators : CancelReadsRun(o) \/ ReadStale(o) \/ OperatorStep(o)
  \/ \E p \in Procs : Refreshing(p) \/ Abort(p)

\* The processes go on with what they have begun, and Postgres grants a row to
\* those who wait for it in turn: hence strong fairness.
IsolationSpec ==
  /\ IsolationInit
  /\ [][IsolationNext]_isoVars
  /\ \A w \in Workers : SF_isoVars(WorkerStep(w) \/ Refreshing(w) \/ Abort(w))
  /\ \A o \in Operators : SF_isoVars(OperatorStep(o) \/ Refreshing(o) \/ Abort(o))

-----------------------------------------------------------------------------
RunningRows == {a \in Agents : committed[a].status = "running"}

(***************************************************************************)
(* The limit on running agents is exceeded by concurrent claims, each of   *)
(* which counted before the others committed, and by no more than that:    *)
(* one agent for each claimant but one.                                    *)
(***************************************************************************)
OvershootIsBounded ==
  ConcurrencyLimit > 0 =>
    Cardinality(RunningRows) <= ConcurrencyLimit + Cardinality(Workers) - 1

\* README.md says of the limit that "multiple worker processes cannot exceed
\* the configured number of simultaneously running agents" (lines 166-168).
LimitIsNeverExceeded ==
  ConcurrencyLimit > 0 => Cardinality(RunningRows) <= ConcurrencyLimit

(***************************************************************************)
(* The token guard of complete_agent is enough at this level: an attempt   *)
(* that completes is the newest of its agent, however many reapers have    *)
(* requeued the agent since it began.                                      *)
(***************************************************************************)
SupersededNeverCompletes ==
  [][\A a \in Agents : \A i \in DOMAIN committed'[a].attempts :
       committed'[a].attempts[i] = "completed" =>
         \/ i \in DOMAIN committed[a].attempts /\ committed[a].attempts[i] = "completed"
         \/ i = Len(committed'[a].attempts)]_isoVars

(***************************************************************************)
(* The history of attempts stays append-only: a cancellation or an expiry  *)
(* that overwrites the row of an agent which meanwhile has completed does  *)
(* not touch the attempt that completed it.                                *)
(***************************************************************************)
EndedAttemptsStay ==
  [][\A a \in Agents : \A i \in DOMAIN committed[a].attempts :
       /\ i \in DOMAIN committed'[a].attempts
       /\ committed[a].attempts[i] # "running" =>
            committed'[a].attempts[i] = committed[a].attempts[i]]_isoVars

(***************************************************************************)
(* Two dependencies that complete at once see each other as running, and   *)
(* neither promotes the agent that needs both; the second look of the      *)
(* worker that is last does.  So with no transaction open no agent waits   *)
(* for dependencies that are all completed, unless that second look was    *)
(* itself aborted.                                                         *)
(***************************************************************************)
NoForgottenDependent ==
  (\A p \in Procs : step[p] \in {"idle", "exec"}) /\ ~skipped =>
    \A a \in Agents : committed[a].status = "pending" =>
      \E d \in Deps[a] : committed[d].status # "completed"

(***************************************************************************)
(* Nobody waits for ever: each transaction commits, is refused or is       *)
(* aborted, though claim_agent locks the agent and then the run, and       *)
(* cancel_run the run and then the agents.                                 *)
(***************************************************************************)
EveryTransactionEnds ==
  \A r \in RowIds : lock[r] # "nobody" ~> lock[r] = "nobody"
=============================================================================
