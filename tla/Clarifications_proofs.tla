------------------------ MODULE Clarifications_proofs ------------------------
(***************************************************************************)
(* Theorems about Clarifications, for any calls, managers and times: types,*)
(* whose answer a call returns, what is pending, and what a call that      *)
(* gives up was shown.                                                     *)
(***************************************************************************)
EXTENDS Clarifications, NaturalFacts, SequenceTheorems

-----------------------------------------------------------------------------
(* The inductive invariant. *)

EventRow == [agent : Seq(STRING), event_type : {"question", "progress", "timeout"}]
ResponseRow == [clarification_id : {FullId(i) : i \in Nat}, consumed : BOOLEAN]
CallRow == [step : {"idle", "look", "sleep", "consume"}, question : Nat, deadline : Nat,
            until : Nat, response : Nat, seen : Nat]
Results == {<<"answer", r>> : r \in Nat} \cup {<<"timeout">>, <<"lost">>}

Active == {c \in Calls : calls[c].step # "idle"}

Types ==
  /\ events \in Seq(EventRow)
  /\ responses \in Seq(ResponseRow)
  /\ calls \in [Calls -> CallRow]
  /\ returned \in [DOMAIN returned -> Results]
  /\ now \in 0..MaxTime

\* A call that is idle keeps nothing; a question belongs to one call.
QuestionsOfCalls ==
  /\ \A c \in Calls : calls[c].step = "idle" => calls[c] = Idle
  /\ \A c \in Active : calls[c].question \in Questions
  /\ \A c, d \in Active : calls[c].question = calls[d].question => c = d
  /\ DOMAIN returned \subseteq Questions

\* Every call that waits may add one event, its timeout.
RoomForTimeouts == Len(events) + Cardinality(Active) <= MaxEvents + Cardinality(Calls)

\* The foreign key of responses.
ResponsesRefer ==
  \A r \in DOMAIN responses :
    \E i \in DOMAIN events : responses[r].clarification_id = FullId(i)

IsAnswerTo(r, q) == r \in DOMAIN responses /\ responses[r].clarification_id = FullId(q)

\* What a call has found, and what calls have returned, answers their question.
AnswersMatch ==
  /\ \A c \in Calls : calls[c].step = "consume" =>
       IsAnswerTo(calls[c].response, calls[c].question)
  /\ \A q \in DOMAIN returned : returned[q][1] = "answer" => IsAnswerTo(returned[q][2], q)

\* A call that goes on has found nothing among the answers it has looked at.
NothingWasSeen ==
  \A c \in Calls : calls[c].step \in {"look", "sleep"} =>
    /\ calls[c].seen <= Len(responses)
    /\ \A r \in Unread(calls[c].question) : r > calls[c].seen

CInv ==
  /\ Types
  /\ QuestionsOfCalls
  /\ RoomForTimeouts
  /\ ResponsesRefer
  /\ AnswersMatch
  /\ NothingWasSeen

-----------------------------------------------------------------------------
(* What the conjuncts say of single rows and calls. *)

LEMMA CallFacts ==
  ASSUME CInv, NEW c \in Calls
  PROVE  /\ calls[c] \in CallRow
         /\ calls[c].step \in {"idle", "look", "sleep", "consume"}
         /\ calls[c].question \in Nat /\ calls[c].deadline \in Nat
         /\ calls[c].response \in Nat /\ calls[c].seen \in Nat
         /\ Len(events) \in Nat /\ DOMAIN events = 1..Len(events)
         /\ Len(responses) \in Nat /\ DOMAIN responses = 1..Len(responses)
         /\ now \in Nat
<1>1. calls[c] \in CallRow
  BY DEF CInv, Types
<1>2. /\ events \in Seq(EventRow) /\ responses \in Seq(ResponseRow)
      /\ now \in 0..MaxTime /\ MaxTime \in Nat
  BY ClarificationAssumption DEF CInv, Types
<1>3. Len(events) \in Nat /\ DOMAIN events = 1..Len(events)
  BY <1>2
<1>4. Len(responses) \in Nat /\ DOMAIN responses = 1..Len(responses)
  BY <1>2
<1> QED
  BY <1>1, <1>2, <1>3, <1>4 DEF CallRow

LEMMA IdsAreDistinct ==
  \A i, j : FullId(i) = FullId(j) => i = j
  BY DEF FullId

LEMMA IntervalsAreDistinct ==
  ASSUME NEW m \in Nat, NEW n \in Nat, 1..m = 1..n
  PROVE  m = n
<1>1. m \in 1..m \/ m = 0
  OBVIOUS
<1>2. n \in 1..n \/ n = 0
  OBVIOUS
<1> QED
  BY <1>1, <1>2

LEMMA ActiveIsFinite ==
  /\ IsFiniteSet(Active) /\ Cardinality(Active) \in Nat
  /\ IsFiniteSet(Calls) /\ Cardinality(Calls) \in Nat
  /\ Cardinality(Active) <= Cardinality(Calls)
  BY ClarificationAssumption, FS_Subset, FS_CardinalityType DEF Active

\* The ledger grows by one event and keeps the others.
LEMMA LedgerGrows ==
  ASSUME CInv, NEW row \in EventRow, events' = Append(events, row)
  PROVE  /\ events' \in Seq(EventRow)
         /\ Len(events') = Len(events) + 1
         /\ DOMAIN events' = 1..(Len(events) + 1)
         /\ \A i \in DOMAIN events : i \in DOMAIN events' /\ events'[i] = events[i]
         /\ events'[Len(events) + 1] = row
         /\ Questions \subseteq Questions'
<1>1. events \in Seq(EventRow)
  BY DEF CInv, Types
<1>2. /\ events' \in Seq(EventRow)
      /\ Len(events') = Len(events) + 1
      /\ \A i \in 1..Len(events) : events'[i] = events[i]
      /\ events'[Len(events) + 1] = row
  BY <1>1, AppendProperties
<1>3. /\ Len(events) \in Nat
      /\ DOMAIN events = 1..Len(events)
      /\ DOMAIN events' = 1..Len(events')
  BY <1>1, <1>2, LenProperties
<1> QED
  BY <1>2, <1>3 DEF Questions

-----------------------------------------------------------------------------
(* The steps, one lemma each. *)

LEMMA AskKeepsCInv ==
  ASSUME CInv, NEW c \in Calls, Ask(c)
  PROVE  CInv'
<1> DEFINE row == Event(AgentOf[c], "question")
           call == [step |-> "look", question |-> Len(events) + 1,
                    deadline |-> now + Timeout, until |-> 0, response |-> 0, seen |-> 0]
<1>1. row \in EventRow
  BY ClarificationAssumption DEF Event, EventRow
<1>2. /\ events' = Append(events, row)
      /\ calls' = [calls EXCEPT ![c] = call]
      /\ calls[c] = Idle /\ Len(events) < MaxEvents
      /\ UNCHANGED <<responses, returned, now>>
  BY DEF Ask
<1>3. /\ Len(events') = Len(events) + 1
      /\ DOMAIN events' = 1..(Len(events) + 1)
      /\ \A i \in DOMAIN events : i \in DOMAIN events' /\ events'[i] = events[i]
      /\ events'[Len(events) + 1] = row
      /\ Questions \subseteq Questions'
      /\ events' \in Seq(EventRow)
  BY <1>1, <1>2, LedgerGrows
<1>4. /\ call.step = "look" /\ call.question = Len(events) + 1 /\ call.seen = 0
      /\ call \in CallRow
  <2>1. now + Timeout \in Nat /\ Len(events) + 1 \in Nat
    BY CallFacts, ClarificationAssumption
  <2> QED
    BY <2>1 DEF CallRow
<1> HIDE DEF row, call
<1>5. /\ \A d \in Calls : calls'[d] = IF d = c THEN call ELSE calls[d]
      /\ calls' \in [Calls -> CallRow]
  BY <1>2, <1>4 DEF CInv, Types
<1>6. Active' = Active \cup {c} /\ c \notin Active
  BY <1>2, <1>4, <1>5 DEF Active, Idle
<1>7. Types'
  BY <1>2, <1>3, <1>5 DEF CInv, Types
<1>8. QuestionsOfCalls'
  <2>1. \A d \in Calls : calls'[d].step = "idle" => calls'[d] = Idle
    BY <1>4, <1>5 DEF CInv, QuestionsOfCalls
  <2>2. Len(events) + 1 \in Questions'
    BY <1>3, CallFacts DEF Questions, row, Event
  <2>3. \A d \in Active : calls'[d].question \in Questions /\ calls'[d].question # Len(events) + 1
    <3>1. \A d \in Active : calls'[d] = calls[d] /\ calls[d].question \in Questions
      BY <1>5, <1>6 DEF CInv, QuestionsOfCalls, Active
    <3>2. Len(events) + 1 \notin Questions
      BY CallFacts DEF Questions
    <3> QED
      BY <3>1, <3>2
  <2>4. calls'[c].question = Len(events) + 1
    BY <1>4, <1>5
  <2>5. \A d \in Active' : calls'[d].question \in Questions'
    BY <1>3, <1>6, <2>2, <2>3, <2>4
  <2>6. \A d, e \in Active' : calls'[d].question = calls'[e].question => d = e
    <3>1. \A d \in Active : calls'[d] = calls[d]
      BY <1>5, <1>6 DEF Active
    <3> QED
      BY <1>6, <2>3, <2>4, <3>1 DEF CInv, QuestionsOfCalls
  <2>7. DOMAIN returned' \subseteq Questions'
    BY <1>2, <1>3 DEF CInv, QuestionsOfCalls
  <2> QED
    BY <2>1, <2>5, <2>6, <2>7 DEF QuestionsOfCalls
<1>9. RoomForTimeouts'
  <2>1. Cardinality(Active') = Cardinality(Active) + 1 /\ Cardinality(Active') <= Cardinality(Calls)
    BY <1>6, ActiveIsFinite, FS_AddElement, FS_Subset DEF Active
  <2> QED
    BY <1>2, <1>3, <2>1, ActiveIsFinite, CallFacts, ClarificationAssumption
    DEF RoomForTimeouts
<1>10. ResponsesRefer'
  BY <1>2, <1>3 DEF CInv, ResponsesRefer
<1>11. AnswersMatch'
  BY <1>2, <1>4, <1>5 DEF CInv, AnswersMatch, IsAnswerTo
<1>12. NothingWasSeen'
  <2>1. \A d \in Calls : d # c => calls'[d] = calls[d]
    BY <1>5
  <2>2. \A r \in Unread(Len(events) + 1) : FALSE
    <3>1. \A r \in DOMAIN responses : responses[r].clarification_id # FullId(Len(events) + 1)
      BY IdsAreDistinct, CallFacts DEF CInv, ResponsesRefer
    <3> QED
      BY <3>1 DEF Unread
  <2>3. \A q : Unread(q)' = Unread(q)
    BY <1>2 DEF Unread
  <2> QED
    BY <1>2, <1>4, <1>5, <2>1, <2>2, <2>3, CallFacts DEF CInv, NothingWasSeen
<1> QED
  BY <1>7, <1>8, <1>9, <1>10, <1>11, <1>12 DEF CInv

LEMMA ReportKeepsCInv ==
  ASSUME CInv, NEW c \in Calls, Report(c)
  PROVE  CInv'
<1> DEFINE row == Event(AgentOf[c], "progress")
<1>1. row \in EventRow
  BY ClarificationAssumption DEF Event, EventRow
<1>2. /\ events' = Append(events, row)
      /\ Len(events) < MaxEvents
      /\ UNCHANGED <<responses, calls, returned, now>>
  BY DEF Report
<1>3. /\ Len(events') = Len(events) + 1
      /\ \A i \in DOMAIN events : i \in DOMAIN events' /\ events'[i] = events[i]
      /\ Questions \subseteq Questions'
      /\ events' \in Seq(EventRow)
  BY <1>1, <1>2, LedgerGrows
<1>4. Active' = Active
  BY <1>2 DEF Active
<1>5. Types'
  BY <1>2, <1>3 DEF CInv, Types
<1>6. QuestionsOfCalls'
  BY <1>2, <1>3, <1>4 DEF CInv, QuestionsOfCalls
<1>7. RoomForTimeouts'
  BY <1>2, <1>3, <1>4, ActiveIsFinite, CallFacts, ClarificationAssumption DEF RoomForTimeouts
<1>8. ResponsesRefer'
  BY <1>2, <1>3 DEF CInv, ResponsesRefer
<1>9. AnswersMatch'
  BY <1>2 DEF CInv, AnswersMatch, IsAnswerTo
<1>10. NothingWasSeen'
  BY <1>2 DEF CInv, NothingWasSeen, Unread
<1> QED
  BY <1>5, <1>6, <1>7, <1>8, <1>9, <1>10 DEF CInv

\* A call goes on with another row that has its question.
LEMMA GoingOnKeepsCInv ==
  ASSUME CInv, NEW c \in Active, NEW call \in CallRow,
         call.step # "idle", call.question = calls[c].question,
         calls' = [calls EXCEPT ![c] = call],
         UNCHANGED <<events, responses, returned, now>>,
         call.step = "consume" => IsAnswerTo(call.response, call.question),
         call.step # "consume" =>
           /\ call.seen <= Len(responses)
           /\ \A r \in Unread(call.question) : r > call.seen
  PROVE  CInv'
<1>1. c \in Calls /\ calls[c].step # "idle"
  BY DEF Active
<1>2. /\ \A d \in Calls : calls'[d] = IF d = c THEN call ELSE calls[d]
      /\ calls' \in [Calls -> CallRow]
  BY <1>1 DEF CInv, Types
<1>3. Active' = Active
  BY <1>1, <1>2 DEF Active
<1>4. \A d \in Active : calls'[d].question = calls[d].question
  BY <1>2 DEF Active
<1>5. Types'
  BY <1>2 DEF CInv, Types
<1>6. QuestionsOfCalls'
  <2>1. Questions' = Questions
    BY DEF Questions
  <2>2. \A d \in Calls : calls'[d].step = "idle" => calls'[d] = Idle
    BY <1>2 DEF CInv, QuestionsOfCalls
  <2> QED
    BY <1>3, <1>4, <2>1, <2>2 DEF CInv, QuestionsOfCalls
<1>7. RoomForTimeouts'
  BY <1>3 DEF CInv, RoomForTimeouts
<1>8. ResponsesRefer'
  BY DEF CInv, ResponsesRefer
<1>9. AnswersMatch'
  BY <1>2 DEF CInv, AnswersMatch, IsAnswerTo
<1>10. NothingWasSeen'
  BY <1>2 DEF CInv, NothingWasSeen, Unread
<1> QED
  BY <1>5, <1>6, <1>7, <1>8, <1>9, <1>10 DEF CInv

LEMMA LookKeepsCInv ==
  ASSUME CInv, NEW c \in Calls, Look(c)
  PROVE  CInv'
<1> DEFINE q == calls[c].question
           rows == Unread(q)
           call == [calls[c] EXCEPT !.step = IF rows = {} THEN "sleep" ELSE "consume",
                                    !.until = now + PollEvery,
                                    !.response = IF rows = {} THEN 0 ELSE Min(rows),
                                    !.seen = Len(responses)]
<1>1. c \in Active
  BY DEF Look, Active
<1>2. calls' = [calls EXCEPT ![c] = call] /\ UNCHANGED <<events, responses, returned, now>>
  BY DEF Look
<1>3. rows \in SUBSET Nat
  BY CallFacts DEF Unread
<1>4. rows # {} => Min(rows) \in rows
  BY <1>3, MinOfNaturals
<1>5. /\ call \in CallRow
      /\ call.step = IF rows = {} THEN "sleep" ELSE "consume"
      /\ call.question = q
      /\ call.response = IF rows = {} THEN 0 ELSE Min(rows)
      /\ call.seen = Len(responses)
  <2>1. (IF rows = {} THEN 0 ELSE Min(rows)) \in Nat
    BY <1>3, <1>4
  <2>2. calls[c] \in CallRow /\ now + PollEvery \in Nat /\ Len(responses) \in Nat
    BY CallFacts, ClarificationAssumption
  <2> HIDE DEF rows
  <2> QED
    BY <2>1, <2>2 DEF CallRow
<1>6. rows # {} => IsAnswerTo(Min(rows), q)
  BY <1>4 DEF Unread, IsAnswerTo
<1> HIDE DEF call
<1>7. /\ call.step # "idle"
      /\ call.step = "consume" => IsAnswerTo(call.response, call.question)
  BY <1>5, <1>6
<1>8. call.step # "consume" => /\ call.seen <= Len(responses)
                              /\ \A r \in Unread(call.question) : r > call.seen
  BY <1>5, CallFacts
<1> QED
  BY <1>1, <1>2, <1>5, <1>7, <1>8, GoingOnKeepsCInv

LEMMA WakeKeepsCInv ==
  ASSUME CInv, NEW c \in Calls, Wake(c)
  PROVE  CInv'
<1> DEFINE call == [calls[c] EXCEPT !.step = "look"]
<1>1. c \in Active /\ calls[c].step = "sleep"
  BY DEF Wake, Active
<1>2. calls' = [calls EXCEPT ![c] = call] /\ UNCHANGED <<events, responses, returned, now>>
  BY DEF Wake
<1>3. /\ call \in CallRow /\ call.step = "look"
      /\ call.question = calls[c].question /\ call.seen = calls[c].seen
  BY CallFacts DEF CallRow
<1>4. /\ calls[c].seen <= Len(responses)
      /\ \A r \in Unread(calls[c].question) : r > calls[c].seen
  BY <1>1 DEF CInv, NothingWasSeen
<1> HIDE DEF call
<1> QED
  BY <1>1, <1>2, <1>3, <1>4, GoingOnKeepsCInv

\* A call ends: it leaves its question to what it returned.
LEMMA ReturningKeepsCInv ==
  ASSUME CInv, NEW c \in Active, NEW result \in Results, Return(c, result),
         result[1] = "answer" => IsAnswerTo(result[2], calls[c].question),
         \/ UNCHANGED events
         \/ \E row \in EventRow : events' = Append(events, row),
         responses' \in Seq(ResponseRow),
         DOMAIN responses' = DOMAIN responses,
         \A r \in DOMAIN responses :
           /\ responses'[r].clarification_id = responses[r].clarification_id
           /\ responses[r].consumed => responses'[r].consumed,
         now' = now
  PROVE  CInv'
<1> DEFINE q == calls[c].question
<1>1. /\ c \in Calls /\ calls[c].step # "idle" /\ q \in Questions
      /\ \A d \in Active : calls[d].question = q => d = c
  BY DEF Active, CInv, QuestionsOfCalls
<1>2. /\ \A d \in Calls : calls'[d] = IF d = c THEN Idle ELSE calls[d]
      /\ calls' \in [Calls -> CallRow]
  BY <1>1 DEF CInv, Types, Return, Idle, CallRow
<1>3. /\ DOMAIN returned' = DOMAIN returned \cup {q}
      /\ \A p \in DOMAIN returned' : returned'[p] = IF p = q THEN result ELSE returned[p]
      /\ returned' \in [DOMAIN returned' -> Results]
  BY DEF CInv, Types, Return
<1>4. Active' = Active \ {c}
  BY <1>1, <1>2 DEF Active, Idle
<1>5. /\ events' \in Seq(EventRow)
      /\ Len(events') <= Len(events) + 1
      /\ Len(events') \in Nat
      /\ Questions \subseteq Questions'
      /\ DOMAIN events \subseteq DOMAIN events'
  <2>1. CASE UNCHANGED events
    BY <2>1, <1>1, CallFacts DEF CInv, Types, Questions
  <2>2. CASE \E row \in EventRow : events' = Append(events, row)
    BY <2>2, <1>1, CallFacts, LedgerGrows
  <2> QED
    BY <2>1, <2>2
<1>6. Types'
  BY <1>2, <1>3, <1>5 DEF CInv, Types
<1>7. QuestionsOfCalls'
  <2>1. \A d \in Calls : calls'[d].step = "idle" => calls'[d] = Idle
    BY <1>2 DEF CInv, QuestionsOfCalls
  <2>2. \A d \in Active' : d \in Active /\ calls'[d] = calls[d]
    BY <1>2, <1>4 DEF Active
  <2>3. DOMAIN returned' \subseteq Questions'
    BY <1>1, <1>3, <1>5 DEF CInv, QuestionsOfCalls
  <2> QED
    BY <1>5, <2>1, <2>2, <2>3 DEF CInv, QuestionsOfCalls
<1>8. RoomForTimeouts'
  <2>1. Cardinality(Active') = Cardinality(Active) - 1
    BY <1>4, ActiveIsFinite, FS_RemoveElement
  <2>2. Len(events) + Cardinality(Active) <= MaxEvents + Cardinality(Calls)
    BY DEF CInv, RoomForTimeouts
  <2> QED
    BY <1>1, <1>5, <2>1, <2>2, ActiveIsFinite, CallFacts, ClarificationAssumption
    DEF RoomForTimeouts
<1>9. ResponsesRefer'
  BY <1>5 DEF CInv, ResponsesRefer
<1>10. \A r, p : IsAnswerTo(r, p) => IsAnswerTo(r, p)'
  BY DEF IsAnswerTo
<1>11. AnswersMatch'
  BY <1>2, <1>3, <1>10 DEF CInv, AnswersMatch, Idle
<1>12. NothingWasSeen'
  <2>1. \A p : Unread(p)' \subseteq Unread(p)
    BY DEF Unread
  <2>2. Len(responses') = Len(responses)
    <3>1. \A m, n \in Nat : 1..m = 1..n => m = n
      BY IntervalsAreDistinct
    <3>2. Len(responses) \in Nat /\ DOMAIN responses = 1..Len(responses)
      BY <1>1, CallFacts
    <3>3. Len(responses') \in Nat /\ DOMAIN responses' = 1..Len(responses')
      BY LenProperties
    <3> QED
      BY <3>1, <3>2, <3>3
  <2> QED
    BY <1>2, <2>1, <2>2 DEF CInv, NothingWasSeen, Idle
<1> QED
  BY <1>6, <1>7, <1>8, <1>9, <1>11, <1>12 DEF CInv

\* Reading an answer, giving up and being lost are such returns.
LEMMA ConsumeKeepsCInv ==
  ASSUME CInv, NEW c \in Calls, Consume(c)
  PROVE  CInv'
<1> DEFINE r == calls[c].response
           result == <<"answer", r>>
<1>1. /\ c \in Active /\ calls[c].step = "consume"
      /\ Return(c, result)
      /\ responses' = [responses EXCEPT ![r].consumed = TRUE]
      /\ UNCHANGED <<events, now>>
  BY DEF Consume, Active
<1>2. result \in Results /\ (result[1] = "answer" => IsAnswerTo(result[2], calls[c].question))
  BY <1>1, CallFacts DEF Results, CInv, AnswersMatch
<1>3. r \in DOMAIN responses
  BY <1>1 DEF CInv, AnswersMatch, IsAnswerTo
<1>4. responses \in Seq(ResponseRow)
  BY DEF CInv, Types
<1>5. /\ [responses[r] EXCEPT !.consumed = TRUE] \in ResponseRow
      /\ [responses[r] EXCEPT !.consumed = TRUE].clarification_id = responses[r].clarification_id
      /\ [responses[r] EXCEPT !.consumed = TRUE].consumed
  <2>1. responses[r] \in ResponseRow
    BY <1>3, <1>4, ElementOfSeq, LenProperties
  <2> QED
    BY <2>1 DEF ResponseRow
<1>6. responses' = [responses EXCEPT ![r] = [responses[r] EXCEPT !.consumed = TRUE]]
  BY <1>1
<1>7. /\ responses' \in Seq(ResponseRow)
      /\ DOMAIN responses' = DOMAIN responses
      /\ \A i \in DOMAIN responses :
           responses'[i] = IF i = r THEN [responses[r] EXCEPT !.consumed = TRUE] ELSE responses[i]
  BY <1>3, <1>4, <1>5, <1>6, ExceptSeq
<1> HIDE DEF result
<1> QED
  BY <1>1, <1>2, <1>5, <1>7, ReturningKeepsCInv

LEMMA ExpireKeepsCInv ==
  ASSUME CInv, NEW c \in Calls, Expire(c)
  PROVE  CInv'
<1> DEFINE row == Event(AgentOf[c], "timeout")
<1>1. row \in EventRow
  BY ClarificationAssumption DEF Event, EventRow
<1>2. /\ c \in Active
      /\ events' = Append(events, row)
      /\ Return(c, <<"timeout">>)
      /\ UNCHANGED <<responses, now>>
  BY DEF Expire, Active
<1>3. responses' \in Seq(ResponseRow)
  BY <1>2 DEF CInv, Types
<1>4. <<"timeout">> \in Results /\ <<"timeout">>[1] # "answer"
  BY DEF Results
<1> HIDE DEF row
<1> QED
  BY <1>1, <1>2, <1>3, <1>4, ReturningKeepsCInv

LEMMA LoseKeepsCInv ==
  ASSUME CInv, NEW c \in Calls, Lose(c)
  PROVE  CInv'
<1>1. /\ c \in Active
      /\ Return(c, <<"lost">>)
      /\ UNCHANGED <<events, responses, now>>
  BY DEF Lose, Active
<1>2. responses' \in Seq(ResponseRow)
  BY <1>1 DEF CInv, Types
<1>3. <<"lost">> \in Results /\ <<"lost">>[1] # "answer"
  BY DEF Results
<1> QED
  BY <1>1, <1>2, <1>3, ReturningKeepsCInv

\* An answer that the foreign key lets in is a new row at the end.
LEMMA RecordedAtTheEnd ==
  ASSUME CInv, NEW id, RecordResponse(id)
  PROVE  /\ responses' \in Seq(ResponseRow)
         /\ DOMAIN responses \subseteq DOMAIN responses'
         /\ \A r \in DOMAIN responses : responses'[r] = responses[r]
         /\ \A r \in DOMAIN responses' \ DOMAIN responses : r > Len(responses)
         /\ \A r \in DOMAIN responses' :
              \E i \in DOMAIN events : responses'[r].clarification_id = FullId(i)
         /\ Len(responses) <= Len(responses')
         /\ UNCHANGED <<events, calls, returned, now>>
<1> DEFINE row == [clarification_id |-> id, consumed |-> FALSE]
<1>1. /\ responses \in Seq(ResponseRow)
      /\ Len(responses) \in Nat /\ DOMAIN responses = 1..Len(responses)
  BY LenProperties DEF CInv, Types
<1>2. CASE IsReferable(id)
  <2>1. PICK i \in DOMAIN events : id = FullId(i)
    BY <1>2 DEF IsReferable
  <2>2. i \in Nat
    BY <2>1 DEF CInv, Types
  <2>3. row \in ResponseRow /\ row.clarification_id = FullId(i)
    BY <2>1, <2>2 DEF ResponseRow
  <2>4. responses' = Append(responses, row)
    BY <1>2 DEF RecordResponse
  <2> HIDE DEF row
  <2>5. /\ responses' \in Seq(ResponseRow)
        /\ Len(responses') = Len(responses) + 1
        /\ \A r \in 1..Len(responses) : responses'[r] = responses[r]
        /\ responses'[Len(responses) + 1] = row
    BY <1>1, <2>3, <2>4, AppendProperties
  <2>6. DOMAIN responses' = 1..(Len(responses) + 1)
    BY <2>5, LenProperties
  <2> QED
    BY <1>1, <2>1, <2>3, <2>5, <2>6 DEF RecordResponse, CInv, ResponsesRefer
<1>3. CASE ~IsReferable(id)
  BY <1>1, <1>3 DEF RecordResponse, CInv, ResponsesRefer
<1> QED
  BY <1>2, <1>3

LEMMA RespondKeepsCInv ==
  ASSUME CInv, NEW m \in Managers, Respond(m)
  PROVE  CInv'
<1>1. PICK id : RecordResponse(id)
  BY DEF Respond
<1>2. /\ responses' \in Seq(ResponseRow)
      /\ DOMAIN responses \subseteq DOMAIN responses'
      /\ \A r \in DOMAIN responses : responses'[r] = responses[r]
      /\ \A r \in DOMAIN responses' \ DOMAIN responses : r > Len(responses)
      /\ \A r \in DOMAIN responses' :
           \E i \in DOMAIN events : responses'[r].clarification_id = FullId(i)
      /\ Len(responses) <= Len(responses')
      /\ Len(responses) \in Nat /\ Len(responses') \in Nat
      /\ UNCHANGED <<events, calls, returned, now>>
  BY <1>1, RecordedAtTheEnd DEF CInv, Types
<1>3. Active' = Active
  BY <1>2 DEF Active
<1>4. Types'
  BY <1>2 DEF CInv, Types
<1>5. QuestionsOfCalls'
  BY <1>2, <1>3 DEF CInv, QuestionsOfCalls, Questions
<1>6. RoomForTimeouts'
  BY <1>2, <1>3 DEF CInv, RoomForTimeouts
<1>7. ResponsesRefer'
  BY <1>2 DEF ResponsesRefer
<1>8. AnswersMatch'
  BY <1>2 DEF CInv, AnswersMatch, IsAnswerTo
<1>9. NothingWasSeen'
  <2> SUFFICES ASSUME NEW c \in Calls, calls[c].step \in {"look", "sleep"}
               PROVE  /\ calls[c].seen <= Len(responses')
                      /\ \A r \in Unread(calls[c].question)' : r > calls[c].seen
    BY <1>2 DEF NothingWasSeen, Unread
  <2>1. /\ calls[c].seen <= Len(responses) /\ calls[c].seen \in Nat
        /\ \A r \in Unread(calls[c].question) : r > calls[c].seen
    BY CallFacts DEF CInv, NothingWasSeen
  <2>2. \A r \in Unread(calls[c].question)' :
          r \in Unread(calls[c].question) \/ r \in DOMAIN responses' \ DOMAIN responses
    BY <1>2 DEF Unread
  <2>3. DOMAIN responses' = 1..Len(responses')
    BY <1>2, LenProperties
  <2> QED
    BY <1>2, <2>1, <2>2, <2>3
<1> QED
  BY <1>4, <1>5, <1>6, <1>7, <1>8, <1>9 DEF CInv

LEMMA TickKeepsCInv ==
  ASSUME CInv, Tick
  PROVE  CInv'
<1>1. now' \in 0..MaxTime /\ UNCHANGED <<events, responses, calls, returned>>
  BY ClarificationAssumption DEF Tick, CInv, Types
<1>2. Types'
  BY <1>1 DEF CInv, Types
<1>3. (QuestionsOfCalls /\ RoomForTimeouts)'
  BY <1>1 DEF CInv, QuestionsOfCalls, RoomForTimeouts, Questions, Active
<1>4. (ResponsesRefer /\ AnswersMatch /\ NothingWasSeen)'
  BY <1>1 DEF CInv, ResponsesRefer, AnswersMatch, NothingWasSeen, IsAnswerTo, Unread
<1> QED
  BY <1>2, <1>3, <1>4 DEF CInv

LEMMA InitCInv == ClarificationInit => CInv
<1> SUFFICES ASSUME ClarificationInit
             PROVE  CInv
  OBVIOUS
<1>1. /\ events = <<>> /\ responses = <<>> /\ returned = <<>> /\ now = 0
      /\ \A c \in Calls : calls[c] = Idle /\ calls[c].step = "idle"
      /\ calls = [c \in Calls |-> Idle]
  BY DEF ClarificationInit, Idle
<1>2. Active = {}
  BY <1>1 DEF Active
<1>3. Types
  BY <1>1, ClarificationAssumption DEF Types, Idle, CallRow
<1>4. QuestionsOfCalls
  BY <1>1, <1>2 DEF QuestionsOfCalls
<1>5. RoomForTimeouts
  BY <1>1, <1>2, ActiveIsFinite, FS_EmptySet, ClarificationAssumption DEF RoomForTimeouts
<1>6. ResponsesRefer /\ AnswersMatch /\ NothingWasSeen
  BY <1>1 DEF ResponsesRefer, AnswersMatch, NothingWasSeen
<1> QED
  BY <1>3, <1>4, <1>5, <1>6 DEF CInv

LEMMA StepKeepsCInv == CInv /\ [ClarificationNext]_clarificationVars => CInv'
<1> SUFFICES ASSUME CInv, [ClarificationNext]_clarificationVars
             PROVE  CInv'
  OBVIOUS
<1>1. CASE UNCHANGED clarificationVars
  BY <1>1 DEF clarificationVars, CInv, Types, QuestionsOfCalls, RoomForTimeouts,
     ResponsesRefer, AnswersMatch, NothingWasSeen, Questions, Active, IsAnswerTo, Unread
<1>2. CASE \E c \in Calls : Ask(c) \/ Report(c)
  BY <1>2, AskKeepsCInv, ReportKeepsCInv
<1>3. CASE \E c \in Calls : CallStep(c) \/ Lose(c)
  BY <1>3, LookKeepsCInv, WakeKeepsCInv, ConsumeKeepsCInv, ExpireKeepsCInv, LoseKeepsCInv
  DEF CallStep
<1>4. CASE \E m \in Managers : Respond(m)
  BY <1>4, RespondKeepsCInv
<1>5. CASE Tick
  BY <1>5, TickKeepsCInv
<1> QED
  BY <1>1, <1>2, <1>3, <1>4, <1>5 DEF ClarificationNext

LEMMA CInvHolds == ClarificationSpec => []CInv
  BY InitCInv, StepKeepsCInv, PTL DEF ClarificationSpec

-----------------------------------------------------------------------------
(***************************************************************************)
(* Type correctness: events, responses and calls refer to rows that exist, *)
(* and the ledger outgrows its bound by the timeouts of the calls only.    *)
(***************************************************************************)
THEOREM ClarificationTypes == ClarificationSpec => []ClarificationTypeOK
<1>1. CInv => ClarificationTypeOK
  <2> SUFFICES ASSUME CInv
               PROVE  ClarificationTypeOK
    OBVIOUS
  <2>1. \A i \in DOMAIN events : events[i].event_type \in {"question", "progress", "timeout"}
    <3> SUFFICES ASSUME NEW i \in DOMAIN events
                 PROVE  events[i] \in EventRow
      BY DEF EventRow
    <3> QED
      BY ElementOfSeq, LenProperties DEF CInv, Types
  <2>2. Len(events) <= MaxEvents + Cardinality(Calls)
    <3>1. Len(events) \in Nat
      BY DEF CInv, Types
    <3> QED
      BY <3>1, ActiveIsFinite, ClarificationAssumption DEF CInv, RoomForTimeouts
  <2>3. \A r \in DOMAIN responses :
          responses[r].clarification_id \in {FullId(i) : i \in DOMAIN events}
    BY DEF CInv, ResponsesRefer
  <2>4. \A c \in Calls : calls[c].step # "idle" =>
          calls[c].question \in Questions /\ calls[c].deadline \in Nat
    BY CallFacts DEF CInv, QuestionsOfCalls, Active
  <2>5. \A q \in DOMAIN returned :
          q \in Questions /\ returned[q][1] \in {"answer", "timeout", "lost"}
    <3> SUFFICES ASSUME NEW q \in DOMAIN returned
                 PROVE  returned[q][1] \in {"answer", "timeout", "lost"}
      BY DEF CInv, QuestionsOfCalls
    <3>1. returned[q] \in Results
      BY DEF CInv, Types
    <3> QED
      BY <3>1 DEF Results
  <2> QED
    BY <2>1, <2>2, <2>3, <2>4, <2>5 DEF ClarificationTypeOK, CInv, Types
<1> QED
  BY <1>1, CInvHolds, PTL

(***************************************************************************)
(* What a call returns as an answer was recorded for its question, and no  *)
(* other call returned it.                                                 *)
(***************************************************************************)
THEOREM AnswersBelong == ClarificationSpec => []AnswersAreToTheQuestion
<1>1. CInv => AnswersAreToTheQuestion
  BY IdsAreDistinct DEF CInv, AnswersMatch, IsAnswerTo, AnswersAreToTheQuestion
<1> QED
  BY <1>1, CInvHolds, PTL

(***************************************************************************)
(* A question that has been answered is pending for no manager ever again. *)
(***************************************************************************)
THEOREM AnsweredIsNotPending == ClarificationSpec => AnsweredStaysAnswered
<1>1. ASSUME CInv, [ClarificationNext]_clarificationVars, NEW q \in DOMAIN events,
             NEW m \in Managers, Answered(q)
      PROVE  q \notin Pending(m)'
  <2>1. \A r \in DOMAIN responses :
          /\ r \in DOMAIN responses'
          /\ responses'[r].clarification_id = responses[r].clarification_id
    <3>1. CASE UNCHANGED responses
      BY <3>1
    <3>2. ASSUME NEW c \in Calls, Consume(c)
          PROVE  /\ DOMAIN responses' = DOMAIN responses
                 /\ \A r \in DOMAIN responses :
                      responses'[r].clarification_id = responses[r].clarification_id
      BY <1>1, <3>2 DEF Consume, CInv, Types, ResponseRow
    <3>3. CASE \E n \in Managers : Respond(n)
      BY <1>1, <3>3, RecordedAtTheEnd DEF Respond
    <3> QED
      BY <1>1, <3>1, <3>2, <3>3
      DEF ClarificationNext, clarificationVars, Ask, Report, CallStep, Look, Wake, Expire, Lose,
          Tick
  <2> QED
    BY <1>1, <2>1 DEF Answered, IsPending, Pending
<1>2. CInv /\ [ClarificationNext]_clarificationVars =>
        [\A q \in DOMAIN events, m \in Managers :
           Answered(q) => q \notin Pending(m)']_clarificationVars
  BY <1>1
<1> QED
  BY <1>2, CInvHolds, PTL DEF AnsweredStaysAnswered, ClarificationSpec

(***************************************************************************)
(* A call that gives up was never shown an answer: those that are there    *)
(* were recorded after its last look.                                      *)
(***************************************************************************)
THEOREM NothingIsOverlooked == ClarificationSpec => NoAnswerIsOverlooked
<1>1. ASSUME CInv, [ClarificationNext]_clarificationVars, NEW c \in Calls,
             calls[c].step # "idle",
             calls[c].question \in DOMAIN returned' \ DOMAIN returned,
             returned'[calls[c].question] = <<"timeout">>
      PROVE  \A r \in Unread(calls[c].question) : r > calls[c].seen
  <2> DEFINE q == calls[c].question
  <2>1. PICK d \in Calls : \/ Consume(d) \/ Expire(d) \/ Lose(d)
    BY <1>1 DEF ClarificationNext, clarificationVars, Ask, Report, CallStep, Look, Wake,
                Respond, RecordResponse, Tick
  <2>2. PICK result \in {<<"answer", calls[d].response>>, <<"timeout">>, <<"lost">>} :
          /\ Return(d, result)
          /\ result = <<"timeout">> => Expire(d)
    BY <2>1 DEF Consume, Expire, Lose
  <2>3. q = calls[d].question /\ result = <<"timeout">>
    BY <1>1, <2>2 DEF Return
  <2>4. d = c
    BY <1>1, <2>1, <2>3 DEF CInv, QuestionsOfCalls, Active, Consume, Expire, Lose
  <2>5. calls[c].step = "look"
    BY <2>2, <2>3, <2>4 DEF Expire
  <2> QED
    BY <1>1, <2>5 DEF CInv, NothingWasSeen
<1>2. CInv /\ [ClarificationNext]_clarificationVars =>
        [\A c \in Calls :
           LET q == calls[c].question IN
           calls[c].step # "idle" /\ q \in DOMAIN returned' \ DOMAIN returned
             /\ returned'[q] = <<"timeout">>
           => \A r \in Unread(q) : r > calls[c].seen]_clarificationVars
  BY <1>1
<1> QED
  BY <1>2, CInvHolds, PTL DEF NoAnswerIsOverlooked, ClarificationSpec
=============================================================================
