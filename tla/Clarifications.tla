--------------------------- MODULE Clarifications ---------------------------
(***************************************************************************)
(* Questions of workers and answers of managers: the coordination tools    *)
(* request_clarification and report_blocker (spawnd/tools/worker.py), and  *)
(* get_pending_clarifications and respond_to_clarification                 *)
(* (spawnd/tools/manager.py), over the tables events and responses of one  *)
(* run.  Each call runs in the process of its agent's runtime; every query *)
(* and every statement of a call is a transaction of its own.              *)
(***************************************************************************)
EXTENDS Integers, SequencesExt

CONSTANTS
  Calls,      \* tool calls that ask, one after another in each of them
  AgentOf,    \* the agent of each: the sequence of the parts of its name
  Managers,   \* agents that have the tools of a manager
  Timeout,    \* seconds a call waits
  PollEvery,  \* seconds between two looks
  MaxEvents,  \* events after which no more are begun
  MaxAnswers, \* answers that are recorded
  MaxTime     \* the last instant

ASSUME ClarificationAssumption ==
  /\ IsFiniteSet(Calls)
  /\ AgentOf \in [Calls -> Seq(STRING)]
  /\ Managers \subseteq Seq(STRING)
  /\ Timeout \in Nat \ {0} /\ PollEvery \in Nat \ {0}
  /\ MaxEvents \in Nat /\ MaxAnswers \in Nat /\ MaxTime \in Nat

VARIABLES
  events,     \* the ledger; the place of an event stands for its id
  responses,  \* the rows of responses, in the order of their insertion
  calls,      \* what each call is doing
  returned,   \* what became of the questions whose call is over
  now         \* the clock of the event loops
clarificationVars == <<events, responses, calls, returned, now>>

Questions == {q \in DOMAIN events : events[q].event_type = "question"}
Idle == [step |-> "idle", question |-> 0, deadline |-> 0, until |-> 0, response |-> 0, seen |-> 0]
\* uuid4().hex and its first eight characters, which are no id.
FullId(q) == <<"id", q>>
ShownId(q) == <<"id[:8]", q>>

ClarificationTypeOK ==
  /\ \A i \in DOMAIN events :
       events[i].event_type \in {"question", "progress", "timeout"}
  /\ Len(events) <= MaxEvents + Cardinality(Calls)
  /\ \A r \in DOMAIN responses : responses[r].clarification_id \in {FullId(i) : i \in DOMAIN events}
  /\ \A c \in Calls : calls[c].step # "idle" =>
       calls[c].question \in Questions /\ calls[c].deadline \in Nat
  /\ \A q \in DOMAIN returned : q \in Questions /\ returned[q][1] \in {"answer", "timeout", "lost"}
  /\ now \in 0..MaxTime

ClarificationInit ==
  /\ events = <<>> /\ responses = <<>>
  /\ calls = [c \in Calls |-> Idle]
  /\ returned = <<>>
  /\ now = 0

-----------------------------------------------------------------------------
Event(agent, type) == [agent |-> agent, event_type |-> type]

\* The first statement of request_clarification and of report_blocker, whose
\* events differ in their type and are asked for together.
Ask(c) ==
  /\ calls[c] = Idle
  /\ Len(events) < MaxEvents
  /\ now + Timeout + PollEvery <= MaxTime
  /\ events' = Append(events, Event(AgentOf[c], "question"))
  /\ calls' = [calls EXCEPT ![c] =
       [step |-> "look", question |-> Len(events) + 1, deadline |-> now + Timeout,
        until |-> 0, response |-> 0, seen |-> 0]]
  /\ UNCHANGED <<responses, returned, now>>

\* mark_complete and report_progress: events that are no questions.
Report(c) ==
  /\ calls[c] = Idle
  /\ Len(events) < MaxEvents
  /\ events' = Append(events, Event(AgentOf[c], "progress"))
  /\ UNCHANGED <<responses, calls, returned, now>>

\* get_response: the rows it picks the first of.  Its variant forgets the id.
Unread_OfRun(q) == {r \in DOMAIN responses : ~responses[r].consumed}
Unread(q) ==
  {r \in DOMAIN responses :
     responses[r].clarification_id = FullId(q) /\ ~responses[r].consumed}

(***************************************************************************)
(* _poll_for_response: a round of its loop.  The deadline is looked at     *)
(* before the table is, never after.                                       *)
(***************************************************************************)
Look(c) ==
  LET rows == Unread(calls[c].question) IN
  /\ calls[c].step = "look" /\ now < calls[c].deadline
  /\ calls' = [calls EXCEPT ![c] =
       [@ EXCEPT !.step = IF rows = {} THEN "sleep" ELSE "consume",
                 !.until = now + PollEvery,
                 !.response = IF rows = {} THEN 0 ELSE Min(rows),
                 !.seen = Len(responses)]]
  /\ UNCHANGED <<events, responses, returned, now>>
\* The time left is reckoned anew in every round.
Wake_Renews(c) ==
  /\ calls[c].step = "sleep" /\ now >= calls[c].until
  /\ calls' = [calls EXCEPT ![c].step = "look", ![c].deadline = now + Timeout]
  /\ UNCHANGED <<events, responses, returned, now>>
Wake(c) ==
  /\ calls[c].step = "sleep" /\ now >= calls[c].until
  /\ calls' = [calls EXCEPT ![c].step = "look"]
  /\ UNCHANGED <<events, responses, returned, now>>

\* The call is over; `result` is what its runtime is told.
Return(c, result) ==
  /\ calls' = [calls EXCEPT ![c] = Idle]
  /\ returned' = [q \in DOMAIN returned \cup {calls[c].question} |->
                    IF q = calls[c].question THEN result ELSE returned[q]]

\* consume_response, and the answer is returned.
Consume(c) ==
  /\ calls[c].step = "consume"
  /\ responses' = [responses EXCEPT ![calls[c].response].consumed = TRUE]
  /\ Return(c, <<"answer", calls[c].response>>)
  /\ UNCHANGED <<events, now>>

\* The deadline passes: "ERROR: ... timeout. No response was recorded."  Its
\* variant cuts the call off wherever it is.
Expire_Anywhere(c) ==
  /\ calls[c].step # "idle" /\ now >= calls[c].deadline
  /\ events' = Append(events, Event(AgentOf[c], "timeout"))
  /\ Return(c, <<"timeout">>)
  /\ UNCHANGED <<responses, now>>
Expire(c) ==
  /\ calls[c].step = "look" /\ now >= calls[c].deadline
  /\ events' = Append(events, Event(AgentOf[c], "timeout"))
  /\ Return(c, <<"timeout">>)
  /\ UNCHANGED <<responses, now>>

\* The runtime is cancelled or dies.
Lose(c) ==
  /\ calls[c].step # "idle"
  /\ Return(c, <<"lost">>)
  /\ UNCHANGED <<events, responses, now>>

-----------------------------------------------------------------------------
(***************************************************************************)
(* get_pending_clarifications: the questions of agents below manager m for *)
(* which there is no row, read or not.  The tool shows the beginning of    *)
(* each id.                                                                *)
(***************************************************************************)
IsBelow(agent, m) == IsStrictPrefix(m, agent)
\* The questions without an answer that waits to be read.
IsPending_NoneUnread(q) == Unread(q) = {}
IsPending(q) == \A r \in DOMAIN responses : responses[r].clarification_id # FullId(q)
Pending(m) == {q \in Questions : IsBelow(events[q].agent, m) /\ IsPending(q)}

(***************************************************************************)
(* respond_to_clarification with the id of any event, or as the list has   *)
(* it: the foreign key of responses refuses what is the id of no event,    *)
(* with an exception that only the manager's runtime sees.                 *)
(***************************************************************************)
IsReferable(id) == \E i \in DOMAIN events : id = FullId(i)
\* Every insertion goes through.
RecordResponse_AnyId(id) ==
  /\ responses' = Append(responses, [clarification_id |-> id, consumed |-> FALSE])
  /\ UNCHANGED <<events, calls, returned, now>>
RecordResponse(id) ==
  /\ responses' = IF IsReferable(id)
       THEN Append(responses, [clarification_id |-> id, consumed |-> FALSE])
       ELSE responses
  /\ UNCHANGED <<events, calls, returned, now>>
Respond(m) ==
  /\ Len(responses) < MaxAnswers
  /\ \/ \E q \in Pending(m) : RecordResponse(ShownId(q))
     \/ \E i \in DOMAIN events : RecordResponse(FullId(i))

Tick ==
  /\ now < MaxTime
  /\ now' = now + 1
  /\ UNCHANGED <<events, responses, calls, returned>>

CallStep(c) == Look(c) \/ Wake(c) \/ Consume(c) \/ Expire(c)
ClarificationNext ==
  \/ \E c \in Calls : Ask(c) \/ Report(c)
  \/ \E c \in Calls : CallStep(c) \/ Lose(c)
  \/ \E m \in Managers : Respond(m)
  \/ Tick

\* The event loop of a runtime comes back to a call that waits, and time passes.
ClarificationSpec ==
  /\ ClarificationInit /\ [][ClarificationNext]_clarificationVars
  /\ WF_clarificationVars(Tick)
  /\ \A c \in Calls : WF_clarificationVars(CallStep(c))

-----------------------------------------------------------------------------
(***************************************************************************)
(* A question that has been answered is pending for no manager ever again, *)
(* whether its agent reads the answer, misses it or dies before it does.   *)
(* (A retried agent asks a question of its own.)                           *)
(***************************************************************************)
Answered(q) == q \in Questions /\ ~IsPending(q)
AnsweredStaysAnswered ==
  [][\A q \in DOMAIN events, m \in Managers : Answered(q) => q \notin Pending(m)']_clarificationVars

(***************************************************************************)
(* What a call returns as an answer was recorded for its question, and no  *)
(* other call returned it.                                                 *)
(***************************************************************************)
AnswersAreToTheQuestion ==
  \A q \in DOMAIN returned : returned[q][1] = "answer" =>
    /\ responses[returned[q][2]].clarification_id = FullId(q)
    /\ \A p \in DOMAIN returned \ {q} : returned[p] # returned[q]

(***************************************************************************)
(* A call that gives up was never shown an answer: those that are there    *)
(* were recorded after its last look.                                      *)
(***************************************************************************)
NoAnswerIsOverlooked ==
  [][\A c \in Calls :
       LET q == calls[c].question IN
       calls[c].step # "idle" /\ q \in DOMAIN returned' \ DOMAIN returned
         /\ returned'[q] = <<"timeout">>
       => \A r \in Unread(q) : r > calls[c].seen]_clarificationVars

\* Every call ends, with an answer, a timeout, or its runtime.
EveryCallReturns == \A c \in Calls : calls[c].step # "idle" ~> calls[c].step = "idle"

(***************************************************************************)
(* What spawnd/tools/mcp.py:73 says of the tools of a manager, "Respond to *)
(* a pending worker clarification or blocker.": what is listed as pending  *)
(* can be responded to, under the name it is listed with.                  *)
(***************************************************************************)
ListedCanBeAnswered ==
  \A m \in Managers : \A q \in Pending(m) : IsReferable(ShownId(q))
=============================================================================
