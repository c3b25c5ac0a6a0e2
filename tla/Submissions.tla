---------------------------- MODULE Submissions ----------------------------
(***************************************************************************)
(* How runs come into being: spawnd/state/submission.py and the processes  *)
(* that call it.  Submitters (`submit-queue drain --poll`) consume the     *)
(* submission stream of Redis, schedulers (`schedules run-due --poll`)     *)
(* submit the schedules that are due, handlers of the HTTP server submit a *)
(* plan or a template at once, a GitHub delivery among them.  All end in   *)
(* submit_plan, in the same steps: render and validate, insert the run,    *)
(* publish its first agents, and then acknowledge the message or move the  *)
(* schedule.  An exception between two steps leaves the rest undone: it    *)
(* ends the command, which the operator's supervisor starts again.         *)
(*                                                                         *)
(* The rows of a run after its insertion are the module RunState's.        *)
(***************************************************************************)
EXTENDS Integers, PlanGraph

CONSTANTS
  Plans,        \* the plans that are submitted or that templates render to
  AgentsOf,     \* their agents, as PlanGraph has them
  Templates,    \* ids of run templates
  Schedules,    \* ids of schedules
  RunIds,       \* run ids that requests ask for
  Interval,     \* interval_seconds of each schedule
  Submitters,   \* consumers of the submission stream
  Schedulers,   \* processes that submit due schedules
  Handlers,     \* requests the HTTP server can handle at once
  Payloads,     \* the messages that arrive
  Requests,     \* the direct submissions that arrive
  Contents,     \* the template texts that are stored
  Changes,      \* what operators do to templates and schedules
  Templates0,   \* the text of each template at the start
  Schedules0,   \* the row of each schedule at the start
  MaxEvents,    \* messages, direct submissions, changes and faults, all together
  MaxTime       \* the last instant

Procs == Submitters \cup Schedulers \cup Handlers
NoId == "generated"
\* What rendering a template may end in, apart from a plan: a KeyError (a
\* parameter is missing), a YAML error or a TypeError is no ValueError.
Unrenderable == "unrenderable"
NoTemplate == "no such template"
Garbled == [kind |-> "not JSON"]
PlanPayloads == [kind : {"plan"}, plan : Plans, run_id : RunIds \cup {NoId}]
TemplatePayloads == [kind : {"template"}, template : Templates, run_id : RunIds \cup {NoId}]
ScheduleRow == [template : Templates, status : {"active", "paused"}, next_run_at : Nat]

ASSUME SubmissionAssumption ==
  /\ Plans \cap {Unrenderable, NoTemplate} = {} /\ Plans \subseteq DOMAIN AgentsOf
  /\ \A plan \in Plans : AgentsOf[plan] \in Seq([name : STRING, depends_on : SUBSET STRING])
  /\ Payloads \subseteq PlanPayloads \cup TemplatePayloads \cup {Garbled}
  /\ Requests \subseteq PlanPayloads \cup TemplatePayloads
  /\ Changes \subseteq
       [kind : {"put template"}, template : Templates, content : Contents]
       \cup [kind : {"put schedule"}, schedule : Schedules, template : Templates,
             status : {"active", "paused"}]
       \cup [kind : {"set status"}, schedule : Schedules, status : {"active", "paused"}]
  /\ Contents \subseteq Plans \cup {Unrenderable}
  /\ Interval \in [Schedules -> Nat \ {0}]
  /\ Templates0 \in [Templates -> Contents \cup {NoTemplate}]
  /\ Schedules0 \in [Schedules -> ScheduleRow] /\ IsFiniteSet(Schedules)
  /\ \A s \in Schedules : Templates0[Schedules0[s].template] # NoTemplate
  /\ Submitters \cap (Schedulers \cup Handlers) = {} /\ Schedulers \cap Handlers = {}
  /\ MaxEvents \in Nat /\ MaxTime \in Nat

VARIABLES
  stream,     \* the submission stream
  delivered,  \* how far its consumer group has read: ">" gives what follows
  acked,      \* the messages that are acknowledged
  rejected,   \* the messages whose consumer returned status "rejected"
  runs,       \* the rows of runs, with where each comes from
  templates,  \* run_templates.plan_template, NoTemplate for no row
  schedules,  \* the rows of schedules
  work,       \* what each process is doing
  agenda,     \* the due rows each scheduler has read and not yet handled
  now,        \* the clock
  replaced,   \* the schedules that were put again
  events,     \* messages, submissions, changes and faults so far
  faults      \* the faults among them

submissionVars == <<stream, delivered, acked, rejected, runs, templates, schedules,
                    work, agenda, now, replaced, events, faults>>
\* Groups of them, for the steps that leave them alone.
streamVars == <<stream, delivered, acked, rejected>>
definitionVars == <<templates, schedules, replaced>>
boundVars == <<now, events, faults>>

Nothing == [step |-> "idle", from |-> <<"nothing", 0>>]

SubmissionTypeOK ==
  /\ stream \in Seq(Payloads)
  /\ delivered \in 0..Len(stream)
  /\ acked \subseteq 1..delivered
  /\ rejected \subseteq 1..delivered
  /\ \A r \in runs : r.run_id \in RunIds \cup {NoId} /\ r.plan \in Plans
  /\ templates \in [Templates -> Contents \cup {NoTemplate}]
  /\ schedules \in [Schedules -> ScheduleRow]
  /\ \A p \in Procs : work[p].step \in {"idle", "create", "reject", "finish"}
  /\ \A p \in Procs \ Submitters : work[p].step # "reject"
  /\ agenda \in [Schedulers -> Seq([schedule : Schedules, template : Templates])]
  /\ now \in 0..MaxTime
  /\ replaced \subseteq Schedules
  /\ events \in 0..MaxEvents
  /\ faults \in 0..events

SubmissionInit ==
  /\ stream = <<>> /\ delivered = 0 /\ acked = {} /\ rejected = {}
  /\ runs = {}
  /\ templates = Templates0
  /\ schedules = Schedules0
  /\ work = [p \in Procs |-> Nothing]
  /\ agenda = [q \in Schedulers |-> <<>>]
  /\ now = 0
  /\ replaced = {}
  /\ events = 0
  /\ faults = 0

-----------------------------------------------------------------------------
\* enqueue_submission: POST /submissions, `submit-queue enqueue-*`, or an
\* external system that writes to Redis.
EnqueueSubmission(payload) ==
  /\ events < MaxEvents
  /\ events' = events + 1
  /\ stream' = Append(stream, payload)
  /\ UNCHANGED <<delivered, acked, rejected, runs, definitionVars, work, agenda, now, faults>>

Move(p, step) == work' = [work EXCEPT ![p].step = step]

\* An exception leaves the loop: the command ends and begins anew.
Raise(p) ==
  /\ work' = [work EXCEPT ![p] = Nothing]
  /\ agenda' = IF p \in Schedulers THEN [agenda EXCEPT ![p] = <<>>] ELSE agenda

(***************************************************************************)
(* submit_queued_message and submit_template up to the insertion.  Of the  *)
(* exceptions only a ValueError is an answer, and only for a message; a    *)
(* process with nothing else to do is where Raise would put it.            *)
(***************************************************************************)
\* Unknown names are refused, circles are not.
Valid_KnownNames ==
  {plan \in Plans :
     LET agents == AgentsOf[plan] IN
     \A i \in DOMAIN agents : agents[i].depends_on \subseteq Names(agents)}
Valid == {plan \in Plans : ValidPlan(AgentsOf[plan])}
Rendered(payload) ==
  IF payload.kind = "plan" THEN payload.plan ELSE templates[payload.template]
Refused(plan) == plan = NoTemplate \/ (plan # Unrenderable /\ plan \notin Valid)
\* A refusal that is an answer to everybody.
Begin_AnswersAll(p, payload, from) ==
  LET plan == Rendered(payload) IN
  work' = [work EXCEPT ![p] =
    IF plan \in Valid
    THEN [step |-> "create", from |-> from, plan |-> plan, run_id |-> payload.run_id]
    ELSE [step |-> "reject", from |-> from]]
Begin(p, payload, from) ==
  LET plan == Rendered(payload) IN
  work' = [work EXCEPT ![p] =
    IF plan \in Valid
    THEN [step |-> "create", from |-> from, plan |-> plan, run_id |-> payload.run_id]
    ELSE IF Refused(plan) /\ from[1] = "message"
    THEN [step |-> "reject", from |-> from]
    ELSE Nothing]

(***************************************************************************)
(* read_submission: message i is pending from now on.  JSON that cannot be *)
(* parsed raises its exception here, where nobody handles it.              *)
(***************************************************************************)
Deliver(p, i) ==
  /\ work[p].step = "idle"
  /\ i <= Len(stream)
  /\ delivered' = Max({delivered, i})
  /\ IF stream[i] = Garbled THEN UNCHANGED work ELSE Begin(p, stream[i], <<"message", i>>)
  /\ UNCHANGED <<stream, acked, rejected, runs, definitionVars, agenda, boundVars>>
Pending == (1..delivered) \ acked
\* A consumer that serves what is pending first, and one that waits for it.
ReadSubmission_Redelivers(p) ==
  Deliver(p, IF Pending = {} THEN delivered + 1 ELSE Min(Pending))
ReadSubmission_InTurn(p) == Pending = {} /\ Deliver(p, delivered + 1)
ReadSubmission(p) == Deliver(p, delivered + 1)

\* POST /runs, /templates/{id}/runs and /webhooks/github/{id}.  GitHub delivers
\* again what timed out, with nothing that would tell.
Request(p, payload) ==
  /\ work[p].step = "idle"
  /\ events < MaxEvents
  /\ events' = events + 1
  /\ Begin(p, payload, <<"request", events>>)
  /\ UNCHANGED <<streamVars, runs, definitionVars, agenda, now, faults>>

-----------------------------------------------------------------------------
\* due_schedules: active, next_run_at <= now, in the order of next_run_at.
Due == {s \in Schedules : schedules[s].status = "active" /\ schedules[s].next_run_at <= now}
\* The latest first, as a listing for people has them.
InOrder_LatestFirst(list) ==
  \A i, j \in DOMAIN list :
    i < j => schedules[list[i]].next_run_at >= schedules[list[j]].next_run_at
InOrder(list) ==
  \A i, j \in DOMAIN list :
    i < j => schedules[list[i]].next_run_at <= schedules[list[j]].next_run_at
\* The loop of submit_due_schedules over the rows as they were read.  A template
\* that gives no plan ends it.
SubmitFirst(p, rows) ==
  LET row == Head(rows)
      payload == [kind |-> "template", template |-> row.template, run_id |-> NoId]
  IN
  /\ Begin(p, payload, <<"schedule", row.schedule>>)
  /\ agenda' = [agenda EXCEPT ![p] = IF Rendered(payload) \in Valid THEN Tail(rows) ELSE <<>>]
ReadDueSchedules(p) ==
  /\ work[p].step = "idle"
  /\ agenda[p] = <<>>
  /\ \E list \in SetToSeqs(Due) :
       /\ InOrder(list) /\ list # <<>>
       /\ SubmitFirst(p, [i \in DOMAIN list |->
            [schedule |-> list[i], template |-> schedules[list[i]].template]])
  /\ UNCHANGED <<streamVars, runs, definitionVars, boundVars>>
SubmitNextDue(p) ==
  /\ work[p].step = "idle"
  /\ agenda[p] # <<>>
  /\ SubmitFirst(p, agenda[p])
  /\ UNCHANGED <<streamVars, runs, definitionVars, boundVars>>

-----------------------------------------------------------------------------
\* create_run: the primary key refuses a second run of one id, with an
\* IntegrityError, which is no ValueError.
Taken(id) == id # NoId /\ \E r \in runs : r.run_id = id
From(origin) == {r \in runs : r.from = origin}
CreateRun(p) ==
  LET origin == IF p \in Schedulers THEN work[p].from \o <<p, now>> ELSE work[p].from
      row == [run_id |-> work[p].run_id, plan |-> work[p].plan, from |-> origin,
              number |-> Cardinality(From(origin))]
  IN
  /\ work[p].step = "create"
  /\ IF Taken(row.run_id)
     THEN Raise(p) /\ UNCHANGED runs
     ELSE Move(p, "finish") /\ runs' = runs \cup {row} /\ UNCHANGED agenda
  /\ UNCHANGED <<streamVars, definitionVars, boundVars>>

(***************************************************************************)
(* What follows the insertion: the hints of submit_plan, whose failure is  *)
(* a Fault, and then the acknowledgement of the message (after a refusal,  *)
(* too), the next time of the schedule, or the response.                   *)
(***************************************************************************)
Ack(p) ==
  /\ work[p].step \in {"reject", "finish"} /\ work[p].from[1] = "message"
  /\ acked' = acked \cup {work[p].from[2]}
  /\ rejected' = IF work[p].step = "reject" THEN rejected \cup {work[p].from[2]} ELSE rejected
  /\ work' = [work EXCEPT ![p] = Nothing]
  /\ UNCHANGED <<stream, delivered, runs, definitionVars, agenda, boundVars>>

\* The next time counted from the time that was missed.
NextRunAt_CatchesUp(s) == schedules[s].next_run_at + Interval[s]
NextRunAt(s) == now + Interval[s]
\* mark_schedule_submitted
MarkScheduleSubmitted(p) ==
  LET s == work[p].from[2] IN
  /\ work[p].step = "finish" /\ work[p].from[1] = "schedule"
  /\ schedules' = [schedules EXCEPT ![s].next_run_at = NextRunAt(s)]
  /\ work' = [work EXCEPT ![p] = Nothing]
  /\ UNCHANGED <<streamVars, runs, templates, replaced, agenda, boundVars>>

Respond(p) ==
  /\ work[p].step = "finish" /\ work[p].from[1] = "request"
  /\ work' = [work EXCEPT ![p] = Nothing]
  /\ UNCHANGED <<streamVars, runs, definitionVars, agenda, boundVars>>

-----------------------------------------------------------------------------
\* create_run_template, create_schedule (which makes an existing schedule due
\* again) and set_schedule_status (which does not).
PutTemplate(c) ==
  /\ c.kind = "put template"
  /\ templates' = [templates EXCEPT ![c.template] = c.content]
  /\ UNCHANGED <<schedules, replaced>>
PutSchedule(c) ==
  /\ c.kind = "put schedule"
  /\ templates[c.template] # NoTemplate
  /\ schedules' = [schedules EXCEPT ![c.schedule] =
                     [template |-> c.template, status |-> c.status, next_run_at |-> now]]
  /\ replaced' = replaced \cup {c.schedule}
  /\ UNCHANGED templates
SetScheduleStatus(c) ==
  /\ c.kind = "set status"
  /\ schedules' = [schedules EXCEPT ![c.schedule].status = c.status]
  /\ UNCHANGED <<templates, replaced>>
Change(c) ==
  /\ events < MaxEvents
  /\ events' = events + 1
  /\ PutTemplate(c) \/ PutSchedule(c) \/ SetScheduleStatus(c)
  /\ UNCHANGED <<streamVars, runs, work, agenda, now, faults>>

Tick ==
  /\ now < MaxTime
  /\ now' = now + 1
  /\ UNCHANGED <<streamVars, runs, definitionVars, work, agenda, events, faults>>

\* The process dies, or Postgres or Redis raises an exception in it.
Fault(p) ==
  /\ work[p].step # "idle"
  /\ events < MaxEvents
  /\ events' = events + 1
  /\ faults' = faults + 1
  /\ Raise(p)
  /\ UNCHANGED <<streamVars, runs, definitionVars, now>>

-----------------------------------------------------------------------------
SubmitterStep(p) == ReadSubmission(p) \/ CreateRun(p) \/ Ack(p)
SchedulerStep(p) ==
  ReadDueSchedules(p) \/ SubmitNextDue(p) \/ CreateRun(p) \/ MarkScheduleSubmitted(p)
HandlerStep(p) == CreateRun(p) \/ Respond(p)

SubmissionNext ==
  \/ \E payload \in Payloads : EnqueueSubmission(payload)
  \/ \E p \in Handlers, payload \in Requests : Request(p, payload)
  \/ \E p \in Submitters : SubmitterStep(p)
  \/ \E p \in Schedulers : SchedulerStep(p)
  \/ \E p \in Handlers : HandlerStep(p)
  \/ \E p \in Procs : Fault(p)
  \/ \E c \in Changes : Change(c)
  \/ Tick

\* Submitters and schedulers poll for ever and are started again when they end.
SubmissionSpec ==
  /\ SubmissionInit /\ [][SubmissionNext]_submissionVars
  /\ \A p \in Submitters : WF_submissionVars(SubmitterStep(p))
  /\ \A p \in Schedulers : WF_submissionVars(SchedulerStep(p))

-----------------------------------------------------------------------------
(***************************************************************************)
(* A run that was accepted can end: whatever part of its agents is left,   *)
(* one of them needs none of that part and nothing that does not exist.    *)
(* (Dispatch and RunState take such plans for granted.)                    *)
(***************************************************************************)
CanFinish(plan) ==
  \A S \in (SUBSET Names(plan)) \ {{}} :
    \E n \in S : DepsOf(plan)[n] \subseteq Names(plan) \ S
Finishable == {plan \in Plans : CanFinish(AgentsOf[plan])}
RunsCanFinish == \A r \in runs : r.plan \in Finishable

(***************************************************************************)
(* A message is decided once: it gives one run at most, and when it is     *)
(* acknowledged it has given one or was rejected.  (One that is never      *)
(* acknowledged may have given its run as well, and nobody reads it again.)*)
(***************************************************************************)
MessagesAreDecidedOnce ==
  \A i \in 1..delivered :
    /\ Cardinality(From(<<"message", i>>)) <= 1
    /\ i \in acked => (i \in rejected <=> From(<<"message", i>>) = {})

(***************************************************************************)
(* A schedule keeps its interval, and times that were missed are not made  *)
(* up for: two runs of it are closer only if two schedulers submitted      *)
(* them, if something failed, or if the schedule was put again.            *)
(***************************************************************************)
ScheduleKeepsItsInterval ==
  \A s \in Schedules \ replaced : \A q \in Schedulers : \A i, j \in 0..MaxTime :
    LET first == From(<<"schedule", s, q, i>>)
        second == From(<<"schedule", s, q, j>>)
    IN  /\ i < j /\ j - i < Interval[s] /\ first # {} => second = {} \/ faults > 0
        /\ Cardinality(first) <= 1 \/ faults > 0

(***************************************************************************)
(* A message that can become a run does, whatever its neighbours are like: *)
(* those that raise an exception do not hold up the stream.                *)
(***************************************************************************)
Healthy(payload) ==
  payload # Garbled /\ payload.kind = "plan" /\ payload.run_id = NoId /\ payload.plan \in Valid
HealthySubmissionBecomesARun ==
  \A i \in 1..MaxEvents :
    (i <= Len(stream) /\ Healthy(stream[i])) ~> (From(<<"message", i>>) # {} \/ faults > 0)

(***************************************************************************)
(* A due schedule is served, or one that is no later than it has a         *)
(* template that gives no plan: that one ends every round where it stands, *)
(* and holds up those behind it only.                                      *)
(***************************************************************************)
HeldUp(s) ==
  \E t \in Due :
    /\ schedules[t].next_run_at <= schedules[s].next_run_at
    /\ LET plan == templates[schedules[t].template] IN plan = Unrenderable \/ Refused(plan)
DueScheduleIsServed ==
  \A s \in Schedules : (s \in Due /\ ~HeldUp(s)) ~> (s \notin Due \/ HeldUp(s))
=============================================================================
