------------------------- MODULE Submissions_proofs -------------------------
(***************************************************************************)
(* What is true of submissions for any plans, messages, schedules and      *)
(* processes.                                                              *)
(*                                                                         *)
(* First the validation: whatever validate_plan accepts can finish, though *)
(* its search for circles is a recursion of which nothing is known but its *)
(* equation.  Then the invariant of the processes.                         *)
(***************************************************************************)
EXTENDS Submissions, SequenceTheorems, NaturalFacts

-----------------------------------------------------------------------------
(***************************************************************************)
(* The depth-first search.  Its equation has a solution: the least set of  *)
(* calls that is closed under Again, the calls that are true when those in *)
(* X are.                                                                  *)
(***************************************************************************)
Calls(plan) == [name : Mentioned(plan), path : SUBSET Mentioned(plan)]
NextCall(call, d) == [name |-> d, path |-> call.path \cup {call.name}]
IsTrue(plan, call, X) ==
  \/ call.name \in call.path
  \/ /\ call.name \in DOMAIN DepsOf(plan)
     /\ \E d \in DepsOf(plan)[call.name] : NextCall(call, d) \in X
Again(plan, X) == {call \in Calls(plan) : IsTrue(plan, call, X)}
Least(plan) == {call \in Calls(plan) : \A X \in SUBSET Calls(plan) :
                                         Again(plan, X) \subseteq X => call \in X}

LEMMA LeastIsFixed ==
  ASSUME NEW plan
  PROVE  Again(plan, Least(plan)) = Least(plan)
<1>1. ASSUME NEW X, NEW Y, X \subseteq Y
      PROVE  Again(plan, X) \subseteq Again(plan, Y)
  BY <1>1 DEF Again, IsTrue
<1>2. ASSUME NEW X \in SUBSET Calls(plan), Again(plan, X) \subseteq X
      PROVE  Least(plan) \subseteq X
  BY <1>2 DEF Least
<1>3. Again(plan, Least(plan)) \subseteq Least(plan)
  <2> SUFFICES ASSUME NEW call \in Again(plan, Least(plan)),
                      NEW X \in SUBSET Calls(plan), Again(plan, X) \subseteq X
               PROVE  call \in X
    BY DEF Least, Again
  <2> QED
    BY <1>1, <1>2
<1>4. Least(plan) \subseteq Again(plan, Least(plan))
  <2>1. Again(plan, Least(plan)) \in SUBSET Calls(plan)
    BY DEF Again
  <2>2. Again(plan, Again(plan, Least(plan))) \subseteq Again(plan, Least(plan))
    BY <1>1, <1>3
  <2> QED
    BY <1>2, <2>1, <2>2
<1> QED
  BY <1>3, <1>4

LEMMA VisitEquation ==
  ASSUME NEW plan
  PROVE  \A call \in Calls(plan) : Visit(plan)[call] <=>
           \/ call.name \in call.path
           \/ /\ call.name \in DOMAIN DepsOf(plan)
              /\ \E d \in DepsOf(plan)[call.name] : Visit(plan)[NextCall(call, d)]
<1> DEFINE Solves(f) == f = [call \in Calls(plan) |->
              \/ call.name \in call.path
              \/ /\ call.name \in DOMAIN DepsOf(plan)
                 /\ \E d \in DepsOf(plan)[call.name] :
                      f[[name |-> d, path |-> call.path \cup {call.name}]]]
           f0 == [call \in Calls(plan) |-> call \in Least(plan)]
<1>1. Solves(f0)
  <2>1. ASSUME NEW call \in Calls(plan), NEW d \in DepsOf(plan)[call.name],
               call.name \in DOMAIN DepsOf(plan)
        PROVE  NextCall(call, d) \in Calls(plan)
    <3>1. d \in Mentioned(plan)
      BY <2>1 DEF Mentioned, Range
    <3> QED
      BY <3>1 DEF Calls, NextCall
  <2>2. ASSUME NEW call \in Calls(plan)
        PROVE  call \in Least(plan) <=>
                 \/ call.name \in call.path
                 \/ /\ call.name \in DOMAIN DepsOf(plan)
                    /\ \E d \in DepsOf(plan)[call.name] :
                         f0[[name |-> d, path |-> call.path \cup {call.name}]]
    <3>1. call \in Least(plan) <=> IsTrue(plan, call, Least(plan))
      <4>1. call \in Again(plan, Least(plan)) <=> IsTrue(plan, call, Least(plan))
        BY DEF Again
      <4> QED
        BY <4>1, LeastIsFixed
    <3>2. ASSUME NEW d \in DepsOf(plan)[call.name], call.name \in DOMAIN DepsOf(plan)
          PROVE  f0[NextCall(call, d)] <=> NextCall(call, d) \in Least(plan)
      BY <2>1, <3>2
    <3> HIDE DEF f0
    <3> QED
      BY <3>1, <3>2, Zenon DEF IsTrue, NextCall
  <2> DEFINE body(call) ==
               \/ call.name \in call.path
               \/ /\ call.name \in DOMAIN DepsOf(plan)
                  /\ \E d \in DepsOf(plan)[call.name] :
                       f0[[name |-> d, path |-> call.path \cup {call.name}]]
  <2>3. \A call \in Calls(plan) : (call \in Least(plan)) = body(call)
    <3> HIDE DEF f0
    <3>1. \A call \in Calls(plan) : body(call) \in BOOLEAN
      BY Zenon
    <3>2. \A call \in Calls(plan) : call \in Least(plan) <=> body(call)
      BY <2>2, Zenon
    <3> HIDE DEF body
    <3> QED
      BY <3>1, <3>2
  <2> QED
    BY <2>3, Zenon
<1>2. Visit(plan) = CHOOSE f : Solves(f)
  BY Zenon DEF Visit, Calls
<1> HIDE DEF Solves
<1>3. Solves(CHOOSE f : Solves(f))
  BY <1>1, Zenon
<1>4. Solves(Visit(plan))
  BY <1>2, <1>3, Zenon
<1> USE DEF Solves
<1>5. ASSUME NEW f, Solves(f), NEW call \in Calls(plan)
      PROVE  f[call] = (\/ call.name \in call.path
                        \/ /\ call.name \in DOMAIN DepsOf(plan)
                           /\ \E d \in DepsOf(plan)[call.name] :
                                f[[name |-> d, path |-> call.path \cup {call.name}]])
  BY <1>5, Zenon
<1> HIDE DEF Solves
<1> QED
  BY <1>4, <1>5, Zenon DEF NextCall

-----------------------------------------------------------------------------
(***************************************************************************)
(* What it accepts can finish.                                             *)
(***************************************************************************)
\* The greatest index of an agent is one.
LEMMA MaxOfIndices ==
  ASSUME NEW k \in Nat, NEW S \in SUBSET (1..k), S # {}
  PROVE  Max(S) \in S
<1> DEFINE T == {k - i : i \in S}
<1>1. T \in SUBSET Nat /\ T # {}
  <2>1. \A i \in S : k - i \in Nat
    OBVIOUS
  <2> QED
    BY <2>1, Zenon
<1>2. PICK m \in T : \A n \in T : m <= n
  BY <1>1, LeastNatural
<1>3. PICK i \in S : m = k - i
  BY <1>2
<1>4. \A j \in S : i >= j
  <2> SUFFICES ASSUME NEW j \in S
               PROVE  i >= j
    OBVIOUS
  <2>1. k - i <= k - j
    BY <1>2, <1>3
  <2> QED
    BY <2>1
<1> QED
  BY <1>3, <1>4, Zenon DEF Max

LEMMA NamesAreFinite ==
  ASSUME NEW plan, NEW k \in Nat, DOMAIN plan = 1..k
  PROVE  IsFiniteSet(Names(plan))
<1> DEFINE f == [i \in 1..k |-> plan[i].name]
<1>1. f \in Surjection(1..k, Names(plan))
  BY DEF Surjection, Names
<1>2. IsFiniteSet(1..k)
  BY FS_Interval
<1> QED
  BY <1>1, <1>2, FS_Surjection

\* The dependencies of a name are those of one of its agents.
LEMMA DepsAreNames ==
  ASSUME NEW plan, NEW k \in Nat, DOMAIN plan = 1..k, ValidPlan(plan),
         NEW n \in Names(plan)
  PROVE  DepsOf(plan)[n] \subseteq Names(plan)
<1> DEFINE S == {i \in DOMAIN plan : plan[i].name = n}
<1>1. S \in SUBSET (1..k) /\ S # {}
  BY DEF Names
<1>2. Max(S) \in S
  BY <1>1, MaxOfIndices
<1>3. DepsOf(plan)[n] = plan[Max(S)].depends_on
  BY Zenon DEF DepsOf
<1> HIDE DEF S
<1>4. Max(S) \in DOMAIN plan
  BY <1>2 DEF S
<1> QED
  BY <1>3, <1>4 DEF ValidPlan

(***************************************************************************)
(* In a set of agents that all need another of the set every search comes  *)
(* to a name of its path, since paths cannot grow for ever.                *)
(***************************************************************************)
LEMMA SearchFindsCircles ==
  ASSUME NEW plan, IsFiniteSet(Names(plan)),
         NEW S \in SUBSET Names(plan),
         \A n \in S : \E d \in DepsOf(plan)[n] : d \in S,
         NEW call \in Calls(plan), call.name \in S
  PROVE  Visit(plan)[call]
<1> DEFINE Missed == {c \in Calls(plan) : c.name \in S /\ ~Visit(plan)[c]}
           Left(c) == Cardinality(S \ c.path)
           Sizes == {Left(c) : c \in Missed}
<1> SUFFICES ASSUME Missed # {}
             PROVE  FALSE
  OBVIOUS
<1>1. \A c \in Calls(plan) : IsFiniteSet(S \ c.path) /\ Left(c) \in Nat
  BY FS_Subset, FS_CardinalityType
<1>2. Sizes \in SUBSET Nat /\ Sizes # {}
  <2> HIDE DEF Left
  <2> QED
    BY <1>1
<1>3. PICK c \in Missed : \A e \in Missed : Left(c) <= Left(e)
  <2>1. PICK m \in Sizes : \A i \in Sizes : m <= i
    BY <1>2, LeastNatural
  <2> HIDE DEF Left
  <2> QED
    BY <2>1
<1>4. PICK d \in DepsOf(plan)[c.name] : d \in S
  OBVIOUS
<1>5. c.name \notin c.path /\ ~Visit(plan)[NextCall(c, d)]
  <2>1. c.name \in DOMAIN DepsOf(plan)
    BY DEF DepsOf
  <2> QED
    BY <2>1, VisitEquation
<1>6. NextCall(c, d) \in Missed
  <2>1. d \in Mentioned(plan) /\ c.name \in Mentioned(plan)
    BY <1>4 DEF Mentioned
  <2> QED
    BY <1>4, <1>5, <2>1 DEF NextCall, Calls
<1>7. Left(NextCall(c, d)) = Left(c) - 1
  <2>1. S \ NextCall(c, d).path = (S \ c.path) \ {c.name}
    BY DEF NextCall
  <2>2. c.name \in S \ c.path /\ IsFiniteSet(S \ c.path)
    BY <1>1, <1>5
  <2>3. Cardinality((S \ c.path) \ {c.name}) = Cardinality(S \ c.path) - 1
    BY <2>2, FS_RemoveElement
  <2> QED
    BY <2>1, <2>3, Zenon
<1>8. Left(c) <= Left(NextCall(c, d)) /\ Left(c) \in Nat
  <2> HIDE DEF Left
  <2> QED
    BY <1>1, <1>3, <1>6
<1> QED
  BY <1>7, <1>8

\* What validate_plan accepts can finish: no part of its agents waits for itself.
THEOREM ValidPlansCanFinish ==
  ASSUME NEW plan, NEW k \in Nat, DOMAIN plan = 1..k, ValidPlan(plan)
  PROVE  CanFinish(plan)
<1> SUFFICES ASSUME NEW S \in (SUBSET Names(plan)) \ {{}},
                    ~ \E n \in S : DepsOf(plan)[n] \subseteq Names(plan) \ S
             PROVE  FALSE
  BY DEF CanFinish
<1>1. \A n \in S : \E d \in DepsOf(plan)[n] : d \in S
  BY DepsAreNames
<1>2. PICK n \in S : TRUE
  OBVIOUS
<1>3. [name |-> n, path |-> {}] \in Calls(plan)
  BY <1>2 DEF Calls, Mentioned
<1>4. Visit(plan)[[name |-> n, path |-> {}]]
  BY <1>1, <1>3, NamesAreFinite, SearchFindsCircles
<1> QED
  BY <1>2, <1>4 DEF ValidPlan, HasCircularDeps

-----------------------------------------------------------------------------
(***************************************************************************)
(* The invariant of the processes, in three parts.                         *)
(***************************************************************************)
Busy(p) == work[p].step # "idle"
Ids == RunIds \cup {NoId}
\* What a process has in hand, by its kind.
Origins(p) ==
  IF p \in Submitters THEN {"message"} \X Nat
  ELSE IF p \in Schedulers THEN {"schedule"} \X Schedules
  ELSE {"request"} \X Nat
Submitting(p) == [step : {"create", "finish"}, from : Origins(p), plan : Valid, run_id : Ids]
Refusing(p) == [step : {"reject"}, from : Origins(p)]
Jobs(p) ==
  {Nothing} \cup Submitting(p) \cup (IF p \in Submitters THEN Refusing(p) ELSE {})
RunOrigins ==
  ({"message"} \X Nat) \cup ({"request"} \X Nat) \cup
  ({"schedule"} \X Schedules \X Schedulers \X Nat)
RunRow == [run_id : Ids, plan : Valid, from : RunOrigins, number : Nat]
DueRow == [schedule : Schedules, template : Templates]

RowsInv ==
  /\ stream \in Seq(Payloads)
  /\ delivered \in 0..Len(stream)
  /\ acked \subseteq 1..delivered /\ rejected \subseteq acked
  /\ runs \subseteq RunRow /\ IsFiniteSet(runs)
  /\ templates \in [Templates -> Contents \cup {NoTemplate}]
  /\ schedules \in [Schedules -> ScheduleRow]
  /\ now \in 0..MaxTime
  /\ replaced \subseteq Schedules
  /\ events \in 0..MaxEvents
  /\ faults \in 0..events
ProcsInv ==
  /\ work \in [Procs -> UNION {Jobs(p) : p \in Procs}]
  /\ \A p \in Procs : work[p] \in Jobs(p)
  /\ agenda \in [Schedulers -> Seq(DueRow)]

\* Messages: each is in the hands of one consumer, while it is pending, and has
\* its run as soon as that consumer has inserted it.
MessageInv ==
  /\ \A p \in Submitters : Busy(p) => work[p].from[2] \in (1..delivered) \ acked
  /\ \A p, q \in Submitters : Busy(p) /\ Busy(q) /\ work[p].from = work[q].from => p = q
  /\ \A r \in runs : r.from[1] = "message" => r.from[2] \in 1..delivered
  /\ \A r1, r2 \in runs : r1.from[1] = "message" /\ r1.from = r2.from => r1 = r2
  /\ \A p \in Submitters : Busy(p) =>
       (work[p].step = "finish" <=> \E r \in runs : r.from = work[p].from)
  /\ \A i \in acked : i \in rejected <=> ~ \E r \in runs : r.from = <<"message", i>>

\* Schedules, as long as nothing failed and the schedule was not put again: a run
\* moves its schedule before its scheduler looks again.
OnAgenda(q, s) == \E i \in DOMAIN agenda[q] : agenda[q][i].schedule = s
Has(q, s, step) == work[q].step = step /\ work[q].from[2] = s
SubmittedAt(q, s) == {t \in Nat : \E r \in runs : r.from = <<"schedule", s, q, t>>}
AgendaInv ==
  \A q \in Schedulers :
    /\ \A i, j \in DOMAIN agenda[q] :
         agenda[q][i].schedule = agenda[q][j].schedule => i = j
    /\ Busy(q) => ~OnAgenda(q, work[q].from[2])
TimesInv ==
  \A q \in Schedulers : \A s \in Schedules \ replaced : \A t \in SubmittedAt(q, s) :
    /\ t <= now
    /\ Has(q, s, "finish") \/ t + Interval[s] <= schedules[s].next_run_at
    /\ Has(q, s, "create") \/ OnAgenda(q, s) => t + Interval[s] <= now
    /\ \A u \in SubmittedAt(q, s) : t < u => t + Interval[s] <= u
OneEach ==
  \A r1, r2 \in runs : r1.from[1] = "schedule" /\ r1.from[2] \notin replaced
                       /\ r1.from = r2.from => r1 = r2
ScheduleInv == faults = 0 => TimesInv /\ OneEach

SubInv == RowsInv /\ ProcsInv /\ MessageInv /\ AgendaInv /\ ScheduleInv

-----------------------------------------------------------------------------
(***************************************************************************)
(* What processes have in hand.                                            *)
(***************************************************************************)
LEMMA KindsOfProcs ==
  ASSUME NEW p \in Procs
  PROVE  /\ p \in Submitters => p \notin Schedulers /\ p \notin Handlers
         /\ p \in Schedulers => p \notin Submitters /\ p \notin Handlers
         /\ p \in Handlers => p \notin Submitters /\ p \notin Schedulers
         /\ p \in Submitters \/ p \in Schedulers \/ p \in Handlers
  BY SubmissionAssumption DEF Procs

LEMMA OriginFacts ==
  ASSUME NEW p \in Procs, NEW o \in Origins(p)
  PROVE  /\ p \in Submitters => o[1] = "message" /\ o[2] \in Nat /\ o = <<"message", o[2]>>
         /\ p \in Schedulers => o[1] = "schedule" /\ o[2] \in Schedules
                                /\ o = <<"schedule", o[2]>>
         /\ p \in Handlers => o[1] = "request" /\ o[2] \in Nat
         /\ o[1] \in {"message", "schedule", "request"}
         /\ p \notin Submitters => o[1] # "message"
         /\ p \notin Schedulers => o[1] # "schedule"
  BY KindsOfProcs DEF Origins

LEMMA JobFacts ==
  ASSUME ProcsInv, NEW p \in Procs
  PROVE  /\ Busy(p) => work[p].from \in Origins(p)
         /\ work[p].step \in {"create", "finish"} =>
              work[p] \in Submitting(p) /\ work[p].plan \in Valid /\ work[p].run_id \in Ids
         /\ work[p].step \in {"idle", "create", "reject", "finish"}
         /\ ~Busy(p) => work[p] = Nothing
         /\ work[p].step = "reject" => p \in Submitters
<1>1. work[p] \in Jobs(p)
  BY DEF ProcsInv
<1>2. CASE work[p] = Nothing
  BY <1>2 DEF Nothing, Busy
<1>3. CASE work[p] \in Submitting(p)
  BY <1>3 DEF Submitting, Busy
<1>4. CASE p \in Submitters /\ work[p] \in Refusing(p)
  BY <1>4 DEF Refusing, Busy
<1> QED
  BY <1>1, <1>2, <1>3, <1>4 DEF Jobs

LEMMA FinishingIsAJob ==
  ASSUME ProcsInv, NEW p \in Procs, work[p].step = "create"
  PROVE  [work[p] EXCEPT !.step = "finish"] \in Submitting(p)
<1>1. work[p] \in Submitting(p)
  BY JobFacts
<1> QED
  BY <1>1 DEF Submitting

LEMMA BeginGivesAJob ==
  ASSUME RowsInv, NEW p \in Procs, NEW payload \in PlanPayloads \cup TemplatePayloads,
         NEW from \in Origins(p), Begin(p, payload, from)
  PROVE  \E job \in Jobs(p) :
           /\ work' = [work EXCEPT ![p] = job]
           /\ job = Nothing \/ job.from = from
           /\ job.step \in {"idle", "create", "reject"}
           /\ job.step = "idle" => job = Nothing
           /\ Rendered(payload) \in Valid => job.step = "create" /\ job.from = from
           /\ Rendered(payload) \notin Valid /\ p \notin Submitters => job = Nothing
<1>1. payload.run_id \in Ids
  BY DEF PlanPayloads, TemplatePayloads, Ids
<1>2. CASE Rendered(payload) \in Valid
  <2> DEFINE job == [step |-> "create", from |-> from, plan |-> Rendered(payload),
                     run_id |-> payload.run_id]
  <2>1. work' = [work EXCEPT ![p] = job]
    BY <1>2, Zenon DEF Begin
  <2>2. job \in Submitting(p)
    BY <1>1, <1>2 DEF Submitting
  <2>3. job.from = from /\ job.step = "create"
    OBVIOUS
  <2> HIDE DEF job
  <2> QED
    BY <1>2, <2>1, <2>2, <2>3 DEF Jobs
<1>3. CASE Rendered(payload) \notin Valid /\ Refused(Rendered(payload)) /\ from[1] = "message"
  <2> DEFINE job == [step |-> "reject", from |-> from]
  <2>1. work' = [work EXCEPT ![p] = job]
    BY <1>3, Zenon DEF Begin
  <2>2. job \in Refusing(p) /\ p \in Submitters
    BY <1>3, OriginFacts DEF Refusing
  <2>3. job.from = from /\ job.step = "reject"
    OBVIOUS
  <2> HIDE DEF job
  <2> QED
    BY <1>3, <2>1, <2>2, <2>3 DEF Jobs
<1>4. CASE Rendered(payload) \notin Valid /\ ~(Refused(Rendered(payload)) /\ from[1] = "message")
  <2>1. work' = [work EXCEPT ![p] = Nothing]
    BY <1>4, Zenon DEF Begin
  <2> QED
    BY <1>4, <2>1 DEF Jobs, Nothing
<1> QED
  BY <1>2, <1>3, <1>4

\* A step of one process and of its agenda.
LEMMA ProcsStep ==
  ASSUME ProcsInv, NEW p \in Procs, NEW job \in Jobs(p),
         work' = [work EXCEPT ![p] = job], agenda' \in [Schedulers -> Seq(DueRow)]
  PROVE  ProcsInv'
<1>1. work \in [Procs -> UNION {Jobs(q) : q \in Procs}] /\ \A q \in Procs : work[q] \in Jobs(q)
  BY DEF ProcsInv
<1>2. job \in UNION {Jobs(q) : q \in Procs}
  OBVIOUS
<1>3. work' \in [Procs -> UNION {Jobs(q) : q \in Procs}]
  BY <1>1, <1>2
<1>4. \A q \in Procs : work'[q] \in Jobs(q)
  BY <1>1
<1> QED
  BY <1>3, <1>4 DEF ProcsInv

LEMMA AgendaIsTyped ==
  ASSUME ProcsInv, NEW p, NEW rows \in Seq(DueRow), agenda' = [agenda EXCEPT ![p] = rows]
  PROVE  agenda' \in [Schedulers -> Seq(DueRow)]
  BY DEF ProcsInv

LEMMA RaiseKeepsProcs ==
  ASSUME ProcsInv, NEW p \in Procs, Raise(p)
  PROVE  ProcsInv' /\ work' = [work EXCEPT ![p] = Nothing]
<1>1. <<>> \in Seq(DueRow)
  OBVIOUS
<1>2. agenda' \in [Schedulers -> Seq(DueRow)]
  <2>1. CASE p \in Schedulers
    BY <1>1, <2>1, AgendaIsTyped DEF Raise
  <2>2. CASE p \notin Schedulers
    BY <2>2 DEF Raise, ProcsInv
  <2> QED
    BY <2>1, <2>2
<1>3. Nothing \in Jobs(p)
  BY DEF Jobs
<1>4. work' = [work EXCEPT ![p] = Nothing]
  BY DEF Raise
<1> QED
  BY <1>2, <1>3, <1>4, ProcsStep

-----------------------------------------------------------------------------
(***************************************************************************)
(* What each action does to the processes.                                 *)
(***************************************************************************)
\* A process begins something, or has an exception at once.
Begins(p, from) ==
  \E job \in Jobs(p) :
    /\ work' = [work EXCEPT ![p] = job]
    /\ job = Nothing \/ job.from = from
    /\ job.step \in {"idle", "create", "reject"}
    /\ job.step = "idle" => job = Nothing

LEMMA NothingIsAJob ==
  ASSUME ProcsInv, NEW p \in Procs, ~Busy(p)
  PROVE  /\ Nothing \in Jobs(p) /\ Nothing.step = "idle"
         /\ work = [work EXCEPT ![p] = Nothing]
<1>1. work[p] = Nothing
  BY JobFacts
<1> QED
  BY <1>1 DEF Jobs, Nothing, ProcsInv

LEMMA DeliverSteps ==
  ASSUME RowsInv, ProcsInv, NEW p \in Submitters, ReadSubmission(p)
  PROVE  /\ delivered' = delivered + 1 /\ delivered' <= Len(stream)
         /\ ~Busy(p) /\ Begins(p, <<"message", delivered + 1>>)
         /\ ProcsInv'
         /\ UNCHANGED <<stream, acked, rejected, runs, definitionVars, agenda, boundVars>>
<1> p \in Procs
  BY DEF Procs
<1>1. delivered + 1 \in 1..Len(stream)
  BY DEF RowsInv, ReadSubmission, Deliver
<1>2. ~Busy(p)
  BY DEF ReadSubmission, Deliver, Busy
<1>3. delivered' = delivered + 1
  <2> DEFINE D == {delivered, delivered + 1}
  <2>2. \A x \in D : Max(D) >= x
    <3>1. delivered + 1 \in D /\ \A x \in D : delivered + 1 >= x
      BY DEF RowsInv
    <3> HIDE DEF D
    <3> QED
      BY <3>1, Zenon DEF Max
  <2>3. Max(D) \in D
    <3>1. delivered + 1 \in D /\ \A x \in D : delivered + 1 >= x
      BY DEF RowsInv
    <3> HIDE DEF D
    <3> QED
      BY <3>1, Zenon DEF Max
  <2>4. Max(D) = delivered + 1
    BY <2>2, <2>3 DEF RowsInv
  <2> QED
    BY <2>4, Zenon DEF ReadSubmission, Deliver
<1>4. Begins(p, <<"message", delivered + 1>>)
  <2>1. CASE stream[delivered + 1] = Garbled
    <3>1. work' = work
      BY <2>1 DEF ReadSubmission, Deliver
    <3>2. Nothing \in Jobs(p) /\ Nothing.step = "idle" /\ work = [work EXCEPT ![p] = Nothing]
      BY <1>2, NothingIsAJob
    <3> QED
      BY <3>1, <3>2, Zenon DEF Begins
  <2>2. CASE stream[delivered + 1] # Garbled
    <3>1. stream[delivered + 1] \in PlanPayloads \cup TemplatePayloads
      <4>1. stream \in Seq(Payloads)
        BY DEF RowsInv
      <4>2. stream[delivered + 1] \in Payloads
        BY <1>1, <4>1
      <4> QED
        BY <2>2, <4>2, SubmissionAssumption, Zenon
    <3>2. <<"message", delivered + 1>> \in Origins(p)
      BY <1>1 DEF Origins
    <3>3. Begin(p, stream[delivered + 1], <<"message", delivered + 1>>)
      BY <2>2 DEF ReadSubmission, Deliver
    <3>4. \E job \in Jobs(p) :
            /\ work' = [work EXCEPT ![p] = job]
            /\ job = Nothing \/ job.from = <<"message", delivered + 1>>
            /\ job.step \in {"idle", "create", "reject"}
            /\ job.step = "idle" => job = Nothing
      BY <3>1, <3>2, <3>3, BeginGivesAJob, Zenon
    <3> QED
      BY <3>4, Zenon DEF Begins
  <2> QED
    BY <2>1, <2>2
<1>5. ProcsInv'
  <2>1. agenda' \in [Schedulers -> Seq(DueRow)]
    BY DEF ProcsInv, ReadSubmission, Deliver
  <2>2. PICK job \in Jobs(p) : work' = [work EXCEPT ![p] = job]
    BY <1>4, Zenon DEF Begins
  <2> QED
    BY <2>1, <2>2, ProcsStep
<1> QED
  BY <1>1, <1>2, <1>3, <1>4, <1>5 DEF ReadSubmission, Deliver

LEMMA RequestSteps ==
  ASSUME RowsInv, ProcsInv, NEW p \in Handlers, NEW payload \in Requests, Request(p, payload)
  PROVE  /\ ~Busy(p) /\ Begins(p, <<"request", events>>) /\ ProcsInv'
         /\ events' = events + 1 /\ events' <= MaxEvents
         /\ UNCHANGED <<streamVars, runs, definitionVars, agenda, now, faults>>
<1> p \in Procs
  BY DEF Procs
<1>1. ~Busy(p)
  BY DEF Request, Busy
<1>2. <<"request", events>> \in Origins(p)
  BY KindsOfProcs DEF Origins, RowsInv
<1>3. payload \in PlanPayloads \cup TemplatePayloads
  BY SubmissionAssumption
<1>4. Begins(p, <<"request", events>>)
  <2>1. Begin(p, payload, <<"request", events>>)
    BY DEF Request
  <2>2. \E job \in Jobs(p) :
          /\ work' = [work EXCEPT ![p] = job]
          /\ job = Nothing \/ job.from = <<"request", events>>
          /\ job.step \in {"idle", "create", "reject"}
          /\ job.step = "idle" => job = Nothing
    BY <1>2, <1>3, <2>1, BeginGivesAJob, Zenon
  <2> QED
    BY <2>2, Zenon DEF Begins
<1>5. ProcsInv'
  <2>1. agenda' \in [Schedulers -> Seq(DueRow)]
    BY DEF ProcsInv, Request
  <2>2. PICK job \in Jobs(p) : work' = [work EXCEPT ![p] = job]
    BY <1>4, Zenon DEF Begins
  <2> QED
    BY <2>1, <2>2, ProcsStep
<1>6. events' = events + 1 /\ events' <= MaxEvents
  <2>1. events \in 0..MaxEvents /\ MaxEvents \in Nat
    BY SubmissionAssumption DEF RowsInv
  <2>2. events < MaxEvents /\ events' = events + 1
    BY Zenon DEF Request
  <2> QED
    BY <2>1, <2>2
<1> QED
  BY <1>1, <1>4, <1>5, <1>6 DEF Request

\* A scheduler takes the first of the rows it has read, and the others are left;
\* or that one gives no plan, and it drops them all.
Distinct(rows) == \A i, j \in DOMAIN rows : rows[i].schedule = rows[j].schedule => i = j
TakesFirst(q, rows) ==
  /\ rows \in Seq(DueRow) /\ rows # <<>>
  /\ rows = agenda[q] \/ (Distinct(rows) /\ \A i \in DOMAIN rows : rows[i].schedule \in Due)
  /\ \/ /\ work' = [work EXCEPT ![q] = Nothing]
        /\ agenda' = [agenda EXCEPT ![q] = <<>>]
     \/ /\ \E job \in Jobs(q) :
             /\ work' = [work EXCEPT ![q] = job]
             /\ job.step = "create" /\ job.from = <<"schedule", Head(rows).schedule>>
        /\ agenda' = [agenda EXCEPT ![q] = Tail(rows)]

LEMMA SubmitFirstTakesFirst ==
  ASSUME RowsInv, ProcsInv, NEW q \in Schedulers, NEW rows \in Seq(DueRow), rows # <<>>,
         rows = agenda[q] \/ (Distinct(rows) /\ \A i \in DOMAIN rows : rows[i].schedule \in Due),
         SubmitFirst(q, rows)
  PROVE  TakesFirst(q, rows) /\ ProcsInv'
<1> q \in Procs /\ q \notin Submitters
  BY KindsOfProcs DEF Procs
<1> DEFINE row == Head(rows)
           payload == [kind |-> "template", template |-> row.template, run_id |-> NoId]
           from == <<"schedule", row.schedule>>
<1>1. row \in DueRow /\ Tail(rows) \in Seq(DueRow) /\ <<>> \in Seq(DueRow)
  OBVIOUS
<1>2. payload \in PlanPayloads \cup TemplatePayloads
  BY <1>1 DEF DueRow, TemplatePayloads
<1>3. from \in Origins(q)
  BY <1>1, KindsOfProcs DEF Origins, DueRow
<1>4. Begin(q, payload, from)
  BY Zenon DEF SubmitFirst
<1>5. agenda' = [agenda EXCEPT ![q] = IF Rendered(payload) \in Valid THEN Tail(rows) ELSE <<>>]
  BY Zenon DEF SubmitFirst
<1> HIDE DEF payload, from
<1>6. PICK job \in Jobs(q) :
        /\ work' = [work EXCEPT ![q] = job]
        /\ Rendered(payload) \in Valid => job.step = "create" /\ job.from = from
        /\ Rendered(payload) \notin Valid => job = Nothing
  BY <1>2, <1>3, <1>4, BeginGivesAJob, Zenon
<1>7. agenda' \in [Schedulers -> Seq(DueRow)]
  BY <1>1, <1>5, AgendaIsTyped, Zenon
<1>8. CASE Rendered(payload) \in Valid
  <2>1. agenda' = [agenda EXCEPT ![q] = Tail(rows)]
    BY <1>5, <1>8, Zenon
  <2>2. job.step = "create" /\ job.from = <<"schedule", Head(rows).schedule>>
    BY <1>6, <1>8 DEF from
  <2> QED
    BY <1>6, <1>7, <2>1, <2>2, ProcsStep, Zenon DEF TakesFirst
<1>9. CASE Rendered(payload) \notin Valid
  <2>1. agenda' = [agenda EXCEPT ![q] = <<>>]
    BY <1>5, <1>9, Zenon
  <2> QED
    BY <1>6, <1>7, <1>9, <2>1, ProcsStep, Zenon DEF TakesFirst
<1> QED
  BY <1>8, <1>9

LEMMA ScheduleSteps ==
  ASSUME RowsInv, ProcsInv, NEW q \in Schedulers, ReadDueSchedules(q) \/ SubmitNextDue(q)
  PROVE  /\ ~Busy(q) /\ \E rows : TakesFirst(q, rows)
         /\ ProcsInv'
         /\ UNCHANGED <<streamVars, runs, definitionVars, boundVars>>
<1>1. ~Busy(q) /\ UNCHANGED <<streamVars, runs, definitionVars, boundVars>>
  BY Zenon DEF ReadDueSchedules, SubmitNextDue, Busy
<1>2. CASE SubmitNextDue(q)
  <2>1. agenda[q] \in Seq(DueRow) /\ agenda[q] # <<>> /\ SubmitFirst(q, agenda[q])
    BY <1>2 DEF SubmitNextDue, ProcsInv
  <2>2. TakesFirst(q, agenda[q]) /\ ProcsInv'
    BY <2>1, SubmitFirstTakesFirst, Zenon
  <2> QED
    BY <1>1, <2>2, Zenon
<1>3. CASE ReadDueSchedules(q)
  <2>1. PICK list \in SetToSeqs(Due) :
          /\ list # <<>>
          /\ SubmitFirst(q, [i \in DOMAIN list |->
               [schedule |-> list[i], template |-> schedules[list[i]].template]])
    BY <1>3, Zenon DEF ReadDueSchedules
  <2> DEFINE n == Cardinality(Due)
             rows == [i \in DOMAIN list |->
                        [schedule |-> list[i], template |-> schedules[list[i]].template]]
  <2>2. n \in Nat
    BY SubmissionAssumption, FS_Subset, FS_CardinalityType DEF Due
  <2>3. /\ list \in [1..n -> Due]
        /\ \A i, j \in 1..n : i # j => list[i] # list[j]
    BY Zenon DEF SetToSeqs
  <2> HIDE DEF n
  <2>4. \A i \in 1..n : rows[i].schedule = list[i] /\ rows[i] \in DueRow
    BY <2>3 DEF DueRow, RowsInv, ScheduleRow, Due
  <2>5. rows \in [1..n -> DueRow]
    BY <2>3, <2>4
  <2> HIDE DEF rows
  <2>6. rows \in Seq(DueRow)
    BY <2>2, <2>5
  <2>7. rows # <<>>
    <3>1. n # 0
      BY <2>1, <2>3
    <3> QED
      BY <2>2, <2>5, <3>1
  <2>8. Distinct(rows) /\ \A i \in DOMAIN rows : rows[i].schedule \in Due
    BY <2>3, <2>4, <2>5 DEF Distinct
  <2>9. TakesFirst(q, rows) /\ ProcsInv'
    BY <2>1, <2>6, <2>7, <2>8, SubmitFirstTakesFirst, Zenon DEF rows
  <2> QED
    BY <1>1, <2>9, Zenon
<1> QED
  BY <1>2, <1>3

OriginOf(p) == IF p \in Schedulers THEN work[p].from \o <<p, now>> ELSE work[p].from

\* Two pairs make a tuple of four.
LEMMA PairsConcatenate ==
  ASSUME NEW X, NEW a \in X, NEW b \in X, NEW c \in X, NEW d \in X
  PROVE  <<a, b>> \o <<c, d>> = <<a, b, c, d>>
<1> DEFINE u == <<a, b>> \o <<c, d>>
           v == <<a, b, c, d>>
           x == <<a, b>>
           y == <<c, d>>
<1>1. x \in Seq(X) /\ y \in Seq(X) /\ Len(x) = 2 /\ Len(y) = 2 /\ v \in Seq(X) /\ Len(v) = 4
  OBVIOUS
<1>2. u \in Seq(X) /\ Len(u) = 4
  BY <1>1
<1>3. x[1] = a /\ x[2] = b /\ y[1] = c /\ y[2] = d
  OBVIOUS
<1>4. v[1] = a /\ v[2] = b /\ v[3] = c /\ v[4] = d
  OBVIOUS
<1>5. u = x \o y
  OBVIOUS
<1> HIDE DEF u, v, x, y
<1>6. u[1] = x[1] /\ u[2] = x[2] /\ u[3] = y[1] /\ u[4] = y[2]
  <2>1. \A i \in 1..(Len(x) + Len(y)) :
          (x \o y)[i] = IF i <= Len(x) THEN x[i] ELSE y[i - Len(x)]
    BY <1>1, ConcatProperties, Zenon
  <2>4. Len(x) + Len(y) = 4 /\ Len(x) = 2
    BY <1>1
  <2>2. \A i \in 1..4 : u[i] = IF i <= 2 THEN x[i] ELSE y[i - 2]
    BY <1>5, <2>1, <2>4, Zenon
  <2>3. u[1] = x[1] /\ u[2] = x[2] /\ u[3] = y[3 - 2] /\ u[4] = y[4 - 2]
    BY <2>2
  <2> QED
    BY <2>3
<1>7. \A i \in 1..4 : u[i] = v[i]
  <2> SUFFICES ASSUME NEW i \in 1..4
                PROVE  u[i] = v[i]
    OBVIOUS
  <2>1. i = 1 \/ i = 2 \/ i = 3 \/ i = 4
    OBVIOUS
  <2> QED
    BY <2>1, <1>3, <1>4, <1>6
<1>8. u = v
  BY <1>1, <1>2, <1>7, SeqEqual, Zenon
<1> QED
  BY <1>8 DEF u, v

LEMMA OriginOfRun ==
  ASSUME RowsInv, ProcsInv, NEW p \in Procs, Busy(p)
  PROVE  /\ OriginOf(p) \in RunOrigins
         /\ p \in Schedulers => /\ OriginOf(p) = <<"schedule", work[p].from[2], p, now>>
                                /\ work[p].from[2] \in Schedules /\ now \in Nat
         /\ p \notin Schedulers => OriginOf(p) = work[p].from /\ OriginOf(p)[1] # "schedule"
         /\ p \notin Submitters => OriginOf(p)[1] # "message"
         /\ p \in Submitters => OriginOf(p) = <<"message", work[p].from[2]>>
<1>1. work[p].from \in Origins(p)
  BY JobFacts
<1>2. now \in Nat
  BY DEF RowsInv
<1>3. CASE p \in Schedulers
  <2>1. work[p].from = <<"schedule", work[p].from[2]>> /\ work[p].from[2] \in Schedules
    BY <1>1, <1>3, OriginFacts
  <2> DEFINE s == work[p].from[2]
  <2>2. OriginOf(p) = <<"schedule", s>> \o <<p, now>>
    BY <1>3, <2>1, Zenon DEF OriginOf
  <2> HIDE DEF s
  <2>3. <<"schedule", s>> \o <<p, now>> = <<"schedule", s, p, now>>
    <3> DEFINE X == {"schedule", s, p, now}
    <3>1. "schedule" \in X /\ s \in X /\ p \in X /\ now \in X
      OBVIOUS
    <3> HIDE DEF X
    <3> QED
      BY <3>1, PairsConcatenate, Zenon
  <2>4. OriginOf(p) = <<"schedule", s, p, now>>
    BY <2>2, <2>3, Zenon
  <2>5. <<"schedule", s, p, now>> \in RunOrigins /\ <<"schedule", s, p, now>>[1] = "schedule"
    BY <1>2, <1>3, <2>1 DEF RunOrigins, s
  <2> QED
    BY <1>2, <1>3, <2>1, <2>4, <2>5, KindsOfProcs DEF s
<1>4. CASE p \notin Schedulers
  <2>1. OriginOf(p) = work[p].from
    BY <1>4 DEF OriginOf
  <2> QED
    BY <1>1, <1>4, <2>1, OriginFacts, KindsOfProcs DEF RunOrigins, Origins
<1> QED
  BY <1>3, <1>4

LEMMA CreateRunSteps ==
  ASSUME RowsInv, ProcsInv, NEW p \in Procs, CreateRun(p)
  PROVE  /\ work[p].step = "create" /\ ProcsInv'
         /\ \/ Raise(p) /\ UNCHANGED runs
            \/ /\ work' = [work EXCEPT ![p] = [work[p] EXCEPT !.step = "finish"]]
               /\ UNCHANGED agenda
               /\ \E row \in RunRow : row.from = OriginOf(p) /\ runs' = runs \cup {row}
         /\ UNCHANGED <<streamVars, definitionVars, boundVars>>
<1>1. work[p].step = "create" /\ UNCHANGED <<streamVars, definitionVars, boundVars>>
  BY Zenon DEF CreateRun
<1> DEFINE row == [run_id |-> work[p].run_id, plan |-> work[p].plan, from |-> OriginOf(p),
                   number |-> Cardinality(From(OriginOf(p)))]
<1>2. row \in RunRow
  <2>1. Cardinality(From(OriginOf(p))) \in Nat
    <3>1. From(OriginOf(p)) \in SUBSET runs /\ IsFiniteSet(runs)
      BY DEF From, RowsInv
    <3> QED
      BY <3>1, FS_Subset, FS_CardinalityType
  <2>2. work[p].run_id \in Ids /\ work[p].plan \in Valid
    BY <1>1, JobFacts
  <2>3. OriginOf(p) \in RunOrigins
    BY <1>1, OriginOfRun DEF Busy
  <2> QED
    BY <2>1, <2>2, <2>3 DEF RunRow
<1>3. \/ Raise(p) /\ UNCHANGED runs
      \/ Move(p, "finish") /\ runs' = runs \cup {row} /\ UNCHANGED agenda
  BY Zenon DEF CreateRun, OriginOf
<1> HIDE DEF row
<1>4. CASE Raise(p) /\ UNCHANGED runs
  BY <1>1, <1>4, RaiseKeepsProcs
<1>5. CASE Move(p, "finish") /\ runs' = runs \cup {row} /\ UNCHANGED agenda
  <2>1. work' = [work EXCEPT ![p] = [work[p] EXCEPT !.step = "finish"]]
    BY <1>5, Zenon DEF Move
  <2>2. [work[p] EXCEPT !.step = "finish"] \in Jobs(p)
    BY <1>1, FinishingIsAJob DEF Jobs
  <2>3. agenda' \in [Schedulers -> Seq(DueRow)]
    BY <1>5 DEF ProcsInv
  <2>4. ProcsInv'
    BY <2>1, <2>2, <2>3, ProcsStep
  <2>5. row.from = OriginOf(p)
    BY DEF row
  <2> QED
    BY <1>1, <1>2, <1>5, <2>1, <2>4, <2>5, Zenon
<1> QED
  BY <1>3, <1>4, <1>5

\* The steps that release a process.
LEMMA ReleaseKeepsProcs ==
  ASSUME ProcsInv, NEW p \in Procs, work' = [work EXCEPT ![p] = Nothing], UNCHANGED agenda
  PROVE  ProcsInv'
<1>1. Nothing \in Jobs(p) /\ agenda' \in [Schedulers -> Seq(DueRow)]
  BY DEF Jobs, ProcsInv
<1> QED
  BY <1>1, ProcsStep

LEMMA AckSteps ==
  ASSUME RowsInv, ProcsInv, NEW p \in Submitters, Ack(p)
  PROVE  /\ work[p].step \in {"reject", "finish"} /\ ProcsInv'
         /\ work' = [work EXCEPT ![p] = Nothing]
         /\ acked' = acked \cup {work[p].from[2]}
         /\ rejected' = IF work[p].step = "reject" THEN rejected \cup {work[p].from[2]}
                        ELSE rejected
         /\ UNCHANGED <<stream, delivered, runs, definitionVars, agenda, boundVars>>
<1>1. p \in Procs /\ work' = [work EXCEPT ![p] = Nothing] /\ UNCHANGED agenda
  BY DEF Ack, Procs
<1>2. ProcsInv'
  BY <1>1, ReleaseKeepsProcs
<1> QED
  BY <1>2, Zenon DEF Ack

LEMMA MarkSteps ==
  ASSUME RowsInv, ProcsInv, NEW q \in Schedulers, MarkScheduleSubmitted(q)
  PROVE  /\ work[q].step = "finish" /\ work[q].from[2] \in Schedules /\ ProcsInv'
         /\ work' = [work EXCEPT ![q] = Nothing]
         /\ schedules' = [schedules EXCEPT ![work[q].from[2]].next_run_at =
                                              now + Interval[work[q].from[2]]]
         /\ UNCHANGED <<streamVars, runs, templates, replaced, agenda, boundVars>>
<1>1. q \in Procs /\ work' = [work EXCEPT ![q] = Nothing] /\ UNCHANGED agenda
  BY DEF MarkScheduleSubmitted, Procs
<1>2. ProcsInv'
  BY <1>1, ReleaseKeepsProcs
<1>3. work[q].step = "finish"
  BY DEF MarkScheduleSubmitted
<1>4. work[q].from[2] \in Schedules
  BY <1>1, <1>3, JobFacts, OriginFacts DEF Busy
<1> QED
  BY <1>2, <1>4, Zenon DEF MarkScheduleSubmitted, NextRunAt

LEMMA RespondSteps ==
  ASSUME RowsInv, ProcsInv, NEW p \in Handlers, Respond(p)
  PROVE  /\ work[p].step = "finish" /\ ProcsInv'
         /\ work' = [work EXCEPT ![p] = Nothing]
         /\ UNCHANGED <<streamVars, runs, definitionVars, agenda, boundVars>>
<1>1. p \in Procs /\ work' = [work EXCEPT ![p] = Nothing] /\ UNCHANGED agenda
  BY DEF Respond, Procs
<1>2. ProcsInv'
  BY <1>1, ReleaseKeepsProcs
<1> QED
  BY <1>2, Zenon DEF Respond

LEMMA FaultSteps ==
  ASSUME RowsInv, ProcsInv, NEW p \in Procs, Fault(p)
  PROVE  /\ Raise(p) /\ ProcsInv' /\ Busy(p)
         /\ events' = events + 1 /\ events' <= MaxEvents /\ faults' = faults + 1
         /\ UNCHANGED <<streamVars, runs, definitionVars, now>>
<1>1. Raise(p) /\ Busy(p) /\ events < MaxEvents /\ events' = events + 1
  BY Zenon DEF Fault, Busy
<1>2. ProcsInv'
  BY <1>1, RaiseKeepsProcs
<1>3. events' <= MaxEvents
  <2>1. events \in 0..MaxEvents /\ MaxEvents \in Nat
    BY SubmissionAssumption DEF RowsInv
  <2> QED
    BY <1>1, <2>1
<1> QED
  BY <1>1, <1>2, <1>3, Zenon DEF Fault

\* Every step is one of these.
LEMMA StepCases ==
  ASSUME [SubmissionNext]_submissionVars
  PROVE  \/ \E payload \in Payloads : EnqueueSubmission(payload)
         \/ \E p \in Handlers, payload \in Requests : Request(p, payload)
         \/ \E p \in Submitters : ReadSubmission(p)
         \/ \E q \in Schedulers : ReadDueSchedules(q) \/ SubmitNextDue(q)
         \/ \E p \in Procs : CreateRun(p)
         \/ \E p \in Submitters : Ack(p)
         \/ \E q \in Schedulers : MarkScheduleSubmitted(q)
         \/ \E p \in Handlers : Respond(p)
         \/ \E p \in Procs : Fault(p)
         \/ \E c \in Changes : Change(c)
         \/ Tick
         \/ UNCHANGED submissionVars
<1>1. CASE \E p \in Submitters : SubmitterStep(p)
  <2>1. PICK p \in Submitters : SubmitterStep(p)
    BY <1>1, Zenon
  <2>2. p \in Procs
    BY DEF Procs
  <2> QED
    BY <2>1, <2>2, Zenon DEF SubmitterStep
<1>2. CASE \E q \in Schedulers : SchedulerStep(q)
  <2>1. PICK q \in Schedulers : SchedulerStep(q)
    BY <1>2, Zenon
  <2>2. q \in Procs
    BY DEF Procs
  <2> QED
    BY <2>1, <2>2, Zenon DEF SchedulerStep
<1>3. CASE \E p \in Handlers : HandlerStep(p)
  <2>1. PICK p \in Handlers : HandlerStep(p)
    BY <1>3, Zenon
  <2>2. p \in Procs
    BY DEF Procs
  <2> QED
    BY <2>1, <2>2, Zenon DEF HandlerStep
<1> QED
  BY <1>1, <1>2, <1>3, Zenon DEF SubmissionNext

-----------------------------------------------------------------------------
(***************************************************************************)
(* Types.                                                                  *)
(***************************************************************************)
LEMMA RowsUnchanged ==
  ASSUME RowsInv, UNCHANGED <<streamVars, runs, definitionVars>>,
         now' \in 0..MaxTime, events' \in 0..MaxEvents, faults' \in 0..events'
  PROVE  RowsInv'
  BY DEF RowsInv, streamVars, definitionVars

LEMMA BoundsUnchanged ==
  ASSUME RowsInv, UNCHANGED boundVars
  PROVE  now' \in 0..MaxTime /\ events' \in 0..MaxEvents /\ faults' \in 0..events'
  BY DEF RowsInv, boundVars

LEMMA ChangeKeepsTypes ==
  ASSUME RowsInv, ProcsInv, NEW c \in Changes, Change(c)
  PROVE  RowsInv' /\ ProcsInv'
<1>1. UNCHANGED <<streamVars, runs, work, agenda, now, faults>> /\ events' = events + 1
      /\ events < MaxEvents /\ (PutTemplate(c) \/ PutSchedule(c) \/ SetScheduleStatus(c))
  BY Zenon DEF Change
<1>2. ProcsInv'
  BY <1>1 DEF ProcsInv
<1>3. events \in 0..MaxEvents /\ MaxEvents \in Nat /\ faults \in 0..events
  BY SubmissionAssumption DEF RowsInv
<1>4. events' \in 0..MaxEvents /\ faults' \in 0..events'
  BY <1>1, <1>3
<1>5. /\ templates' \in [Templates -> Contents \cup {NoTemplate}]
      /\ schedules' \in [Schedules -> ScheduleRow]
      /\ replaced' \subseteq Schedules
  <2>1. /\ templates \in [Templates -> Contents \cup {NoTemplate}]
        /\ schedules \in [Schedules -> ScheduleRow]
        /\ replaced \subseteq Schedules /\ now \in Nat
    BY DEF RowsInv
  <2>2. c \in [kind : {"put template"}, template : Templates, content : Contents]
          \cup [kind : {"put schedule"}, schedule : Schedules, template : Templates,
                status : {"active", "paused"}]
          \cup [kind : {"set status"}, schedule : Schedules, status : {"active", "paused"}]
    BY SubmissionAssumption, Zenon
  <2>3. CASE PutTemplate(c)
    <3>1. c.template \in Templates /\ c.content \in Contents
      BY <2>2, <2>3 DEF PutTemplate
    <3> QED
      BY <2>1, <2>3, <3>1 DEF PutTemplate
  <2>4. CASE PutSchedule(c)
    <3>1. c.schedule \in Schedules /\ c.template \in Templates /\ c.status \in {"active", "paused"}
      BY <2>2, <2>4 DEF PutSchedule
    <3>2. [template |-> c.template, status |-> c.status, next_run_at |-> now] \in ScheduleRow
      BY <2>1, <3>1 DEF ScheduleRow
    <3> QED
      BY <2>1, <2>4, <3>1, <3>2 DEF PutSchedule
  <2>5. CASE SetScheduleStatus(c)
    <3>1. c.schedule \in Schedules /\ c.status \in {"active", "paused"}
      BY <2>2, <2>5 DEF SetScheduleStatus
    <3>2. [schedules[c.schedule] EXCEPT !.status = c.status] \in ScheduleRow
      BY <2>1, <3>1 DEF ScheduleRow
    <3> QED
      BY <2>1, <2>5, <3>1, <3>2 DEF SetScheduleStatus
  <2> QED
    BY <1>1, <2>3, <2>4, <2>5
<1>6. RowsInv'
  BY <1>1, <1>4, <1>5 DEF RowsInv, streamVars
<1> QED
  BY <1>2, <1>6

LEMMA TypesAreKept ==
  ASSUME RowsInv, ProcsInv, MessageInv, [SubmissionNext]_submissionVars
  PROVE  RowsInv' /\ ProcsInv'
<1>1. CASE \E payload \in Payloads : EnqueueSubmission(payload)
  <2>1. PICK payload \in Payloads : EnqueueSubmission(payload)
    BY <1>1, Zenon
  <2>2. /\ stream' \in Seq(Payloads) /\ Len(stream') = Len(stream) + 1
        /\ Len(stream) \in Nat
    BY <2>1 DEF EnqueueSubmission, RowsInv
  <2>3. events' \in 0..MaxEvents /\ faults' \in 0..events'
    <3>1. events \in 0..MaxEvents /\ MaxEvents \in Nat /\ faults \in 0..events
      BY SubmissionAssumption DEF RowsInv
    <3>2. events < MaxEvents /\ events' = events + 1 /\ faults' = faults
      BY <2>1, Zenon DEF EnqueueSubmission
    <3> QED
      BY <3>1, <3>2
  <2>4. delivered' \in 0..Len(stream')
    <3>1. delivered \in 0..Len(stream) /\ delivered' = delivered
      BY <2>1 DEF EnqueueSubmission, RowsInv
    <3> QED
      BY <2>2, <3>1
  <2>5. UNCHANGED <<acked, rejected, runs, definitionVars, work, agenda, now, delivered>>
    BY <2>1, Zenon DEF EnqueueSubmission
  <2>6. RowsInv'
    BY <2>2, <2>3, <2>4, <2>5 DEF RowsInv, definitionVars
  <2> QED
    BY <2>5, <2>6 DEF ProcsInv
<1>2. CASE \E p \in Handlers, payload \in Requests : Request(p, payload)
  <2>1. PICK p \in Handlers, payload \in Requests : Request(p, payload)
    BY <1>2, Zenon
  <2>2. ProcsInv' /\ events' = events + 1 /\ events' <= MaxEvents
        /\ UNCHANGED <<streamVars, runs, definitionVars, agenda, now, faults>>
    BY <2>1, RequestSteps, Zenon
  <2>3. events \in 0..MaxEvents /\ MaxEvents \in Nat /\ faults \in 0..events
        /\ now \in 0..MaxTime
    BY SubmissionAssumption DEF RowsInv
  <2>4. now' \in 0..MaxTime /\ events' \in 0..MaxEvents /\ faults' \in 0..events'
    BY <2>2, <2>3
  <2> QED
    BY <2>2, <2>4, RowsUnchanged
<1>3. CASE \E p \in Submitters : ReadSubmission(p)
  <2>1. PICK p \in Submitters : ReadSubmission(p)
    BY <1>3, Zenon
  <2>2. ProcsInv' /\ delivered' = delivered + 1 /\ delivered' <= Len(stream)
        /\ UNCHANGED <<stream, acked, rejected, runs, definitionVars, agenda, boundVars>>
    BY <2>1, DeliverSteps, Zenon
  <2>3. delivered' \in 0..Len(stream) /\ acked \subseteq 1..delivered'
    BY <2>2 DEF RowsInv
  <2> QED
    BY <2>2, <2>3 DEF RowsInv, definitionVars, boundVars
<1>4. CASE \E q \in Schedulers : ReadDueSchedules(q) \/ SubmitNextDue(q)
  <2>1. PICK q \in Schedulers : ReadDueSchedules(q) \/ SubmitNextDue(q)
    BY <1>4, Zenon
  <2> QED
    BY <2>1, ScheduleSteps, RowsUnchanged, BoundsUnchanged
<1>5. CASE \E p \in Procs : CreateRun(p)
  <2>1. PICK p \in Procs : CreateRun(p)
    BY <1>5, Zenon
  <2>2. ProcsInv' /\ UNCHANGED <<streamVars, definitionVars, boundVars>>
    BY <2>1, CreateRunSteps, Zenon
  <2>3. runs' = runs \/ \E row \in RunRow : runs' = runs \cup {row}
    BY <2>1, CreateRunSteps, Zenon
  <2>4. runs' \subseteq RunRow /\ IsFiniteSet(runs')
    <3>1. runs \subseteq RunRow /\ IsFiniteSet(runs)
      BY DEF RowsInv
    <3> QED
      BY <2>3, <3>1, FS_AddElement
  <2> QED
    BY <2>2, <2>4 DEF RowsInv, streamVars, definitionVars, boundVars
<1>6. CASE \E p \in Submitters : Ack(p)
  <2>1. PICK p \in Submitters : Ack(p)
    BY <1>6, Zenon
  <2>2. /\ ProcsInv'
        /\ acked' = acked \cup {work[p].from[2]}
        /\ rejected' \subseteq rejected \cup {work[p].from[2]}
        /\ UNCHANGED <<stream, delivered, runs, definitionVars, agenda, boundVars>>
    BY <2>1, AckSteps
  <2>3. work[p].from[2] \in 1..delivered
    <3>1. Busy(p)
      BY <2>1 DEF Ack, Busy
    <3> QED
      BY <3>1 DEF MessageInv
  <2>4. acked' \subseteq 1..delivered' /\ rejected' \subseteq acked'
    BY <2>2, <2>3 DEF RowsInv
  <2> QED
    BY <2>2, <2>4 DEF RowsInv, definitionVars, boundVars
<1>7. CASE \E q \in Schedulers : MarkScheduleSubmitted(q)
  <2>1. PICK q \in Schedulers : MarkScheduleSubmitted(q)
    BY <1>7, Zenon
  <2> DEFINE s == work[q].from[2]
  <2>2. /\ ProcsInv' /\ s \in Schedules
        /\ schedules' = [schedules EXCEPT ![s].next_run_at = now + Interval[s]]
        /\ UNCHANGED <<streamVars, runs, templates, replaced, agenda, boundVars>>
    BY <2>1, MarkSteps, Zenon
  <2> HIDE DEF s
  <2>3. now + Interval[s] \in Nat /\ schedules \in [Schedules -> ScheduleRow]
    <3>1. Interval \in [Schedules -> Nat \ {0}]
      BY SubmissionAssumption, Zenon
    <3>2. Interval[s] \in Nat
      BY <2>2, <3>1
    <3>3. now \in Nat
      BY DEF RowsInv
    <3> QED
      BY <3>2, <3>3 DEF RowsInv
  <2>4. [schedules[s] EXCEPT !.next_run_at = now + Interval[s]] \in ScheduleRow
    BY <2>2, <2>3 DEF ScheduleRow
  <2>5. schedules' \in [Schedules -> ScheduleRow]
    BY <2>2, <2>3, <2>4
  <2> QED
    BY <2>2, <2>5 DEF RowsInv, streamVars, boundVars
<1>8. CASE \E p \in Handlers : Respond(p)
  <2>1. PICK p \in Handlers : Respond(p)
    BY <1>8, Zenon
  <2> QED
    BY <2>1, RespondSteps, RowsUnchanged, BoundsUnchanged
<1>9. CASE \E p \in Procs : Fault(p)
  <2>1. PICK p \in Procs : Fault(p)
    BY <1>9, Zenon
  <2>2. /\ ProcsInv' /\ events' = events + 1 /\ events' <= MaxEvents /\ faults' = faults + 1
        /\ UNCHANGED <<streamVars, runs, definitionVars, now>>
    BY <2>1, FaultSteps, Zenon
  <2>3. events \in 0..MaxEvents /\ MaxEvents \in Nat /\ faults \in 0..events
        /\ now \in 0..MaxTime
    BY SubmissionAssumption DEF RowsInv
  <2>4. now' \in 0..MaxTime /\ events' \in 0..MaxEvents /\ faults' \in 0..events'
    BY <2>2, <2>3
  <2> QED
    BY <2>2, <2>4, RowsUnchanged
<1>10. CASE \E c \in Changes : Change(c)
  BY <1>10, ChangeKeepsTypes
<1>11. CASE Tick
  <2>1. now < MaxTime /\ now' = now + 1
        /\ UNCHANGED <<streamVars, runs, definitionVars, work, agenda, events, faults>>
    BY <1>11, Zenon DEF Tick
  <2>2. events \in 0..MaxEvents /\ MaxTime \in Nat /\ faults \in 0..events
        /\ now \in 0..MaxTime
    BY SubmissionAssumption DEF RowsInv
  <2>3. now' \in 0..MaxTime /\ events' \in 0..MaxEvents /\ faults' \in 0..events'
    BY <2>1, <2>2
  <2> QED
    BY <2>1, <2>3, RowsUnchanged DEF ProcsInv
<1>12. CASE UNCHANGED submissionVars
  BY <1>12 DEF submissionVars, RowsInv, ProcsInv
<1> QED
  BY StepCases, <1>1, <1>2, <1>3, <1>4, <1>5, <1>6, <1>7, <1>8, <1>9, <1>10, <1>11, <1>12, Zenon

-----------------------------------------------------------------------------
(***************************************************************************)
(* Messages.                                                               *)
(***************************************************************************)
LEMMA SubmittersHaveMessages ==
  ASSUME ProcsInv, NEW p \in Submitters, Busy(p)
  PROVE  /\ p \in Procs /\ work[p].from[2] \in Nat
         /\ work[p].from = <<"message", work[p].from[2]>>
<1>1. p \in Procs
  BY DEF Procs
<1>2. work[p].from \in Origins(p)
  BY <1>1, JobFacts
<1> QED
  BY <1>1, <1>2, OriginFacts

\* Steps that leave messages and their runs alone; a consumer may be released.
LEMMA MessagesLeftAlone ==
  ASSUME ProcsInv, MessageInv,
         \A p \in Submitters : work'[p] \in {work[p], Nothing},
         UNCHANGED <<delivered, acked, rejected>>,
         \A r : r.from[1] = "message" => (r \in runs' <=> r \in runs)
  PROVE  MessageInv'
<1>1. \A p \in Submitters : work'[p].step # "idle" => work'[p] = work[p]
  BY DEF Nothing
<1>2. \A p \in Submitters : work'[p].step # "idle" => work'[p].from[2] \in (1..delivered') \ acked'
  BY <1>1 DEF MessageInv, Busy
<1>3. \A p, q \in Submitters : work'[p].step # "idle" /\ work'[q].step # "idle"
                                /\ work'[p].from = work'[q].from => p = q
  BY <1>1 DEF MessageInv, Busy
<1>4. \A r \in runs' : r.from[1] = "message" => r.from[2] \in 1..delivered'
  BY DEF MessageInv
<1>5. \A r1, r2 \in runs' : r1.from[1] = "message" /\ r1.from = r2.from => r1 = r2
  BY DEF MessageInv
<1>6. \A i \in acked' : i \in rejected' <=> ~ \E r \in runs' : r.from = <<"message", i>>
  <2>1. \A r, i : r.from = <<"message", i>> => (r \in runs' <=> r \in runs)
    <3>1. \A i : <<"message", i>>[1] = "message"
      OBVIOUS
    <3> QED
      BY <3>1, Zenon
  <2> QED
    BY <2>1 DEF MessageInv
<1>7. ASSUME NEW p \in Submitters, work'[p].step # "idle"
      PROVE  work'[p].step = "finish" <=> \E r \in runs' : r.from = work'[p].from
  <2>1. work'[p] = work[p] /\ Busy(p)
    BY <1>1, <1>7 DEF Busy
  <2>2. work[p].from[1] = "message"
    BY <2>1, SubmittersHaveMessages
  <2>3. work[p].step = "finish" <=> \E r \in runs : r.from = work[p].from
    BY <2>1, Zenon DEF MessageInv
  <2>4. \A r : r.from = work[p].from => (r \in runs' <=> r \in runs)
    BY <2>2, Zenon
  <2> QED
    BY <2>1, <2>3, <2>4, Zenon
<1> QED
  BY <1>2, <1>3, <1>4, <1>5, <1>6, <1>7 DEF MessageInv, Busy

LEMMA DeliverKeepsMessages ==
  ASSUME RowsInv, ProcsInv, MessageInv, NEW p \in Submitters, ReadSubmission(p)
  PROVE  MessageInv'
<1> DEFINE i == delivered + 1
<1>1. /\ delivered' = i /\ i \in Nat \ {0}
      /\ ~Busy(p) /\ Begins(p, <<"message", i>>)
      /\ UNCHANGED <<acked, rejected, runs>>
  <2>1. delivered \in Nat
    BY DEF RowsInv
  <2> QED
    BY <2>1, DeliverSteps
<1>2. /\ i \notin acked /\ acked \subseteq 1..delivered /\ delivered \in Nat
      /\ \A j \in 1..delivered : j # i /\ j \in 1..i
  BY DEF RowsInv
<1> HIDE DEF i
<1>3. PICK job \in Jobs(p) :
        /\ work' = [work EXCEPT ![p] = job]
        /\ job.step # "idle" => job.from = <<"message", i>> /\ job.step # "finish"
  <2>1. PICK job \in Jobs(p) :
          /\ work' = [work EXCEPT ![p] = job]
          /\ job = Nothing \/ job.from = <<"message", i>>
          /\ job.step \in {"idle", "create", "reject"}
    BY <1>1, Zenon DEF Begins
  <2>2. Nothing.step = "idle"
    BY DEF Nothing
  <2> QED
    BY <2>1, <2>2
<1>4. work'[p] = job /\ \A q \in Submitters \ {p} : work'[q] = work[q]
  BY <1>3 DEF ProcsInv, Procs
<1>5. <<"message", i>>[2] = i /\ <<"message", i>>[1] = "message"
  OBVIOUS
<1>6. ~ \E r \in runs : r.from = <<"message", i>>
  BY <1>2, <1>5 DEF MessageInv
<1>7. i \in 1..i
  BY <1>2, <1>1
<1>8. \A q \in Submitters : work'[q].step # "idle" => work'[q].from[2] \in (1..i) \ acked
  <2> SUFFICES ASSUME NEW q \in Submitters, work'[q].step # "idle"
               PROVE  work'[q].from[2] \in (1..i) \ acked
    OBVIOUS
  <2>1. CASE q = p
    BY <1>2, <1>3, <1>4, <1>5, <1>7, <2>1
  <2>2. CASE q # p
    <3>1. work[q].from[2] \in (1..delivered) \ acked
      BY <1>4, <2>2 DEF MessageInv, Busy
    <3> QED
      BY <1>2, <1>4, <2>2, <3>1
  <2> QED
    BY <2>1, <2>2
<1>9. \A q, o \in Submitters : work'[q].step # "idle" /\ work'[o].step # "idle"
                                /\ work'[q].from = work'[o].from => q = o
  <2>1. \A q \in Submitters \ {p} : work'[q].step # "idle" => work'[q].from # <<"message", i>>
    <3> SUFFICES ASSUME NEW q \in Submitters \ {p}, work'[q].step # "idle"
                 PROVE  work'[q].from # <<"message", i>>
      OBVIOUS
    <3>1. work[q].from[2] \in 1..delivered /\ work'[q] = work[q]
      BY <1>4 DEF MessageInv, Busy
    <3> QED
      BY <1>2, <1>5, <3>1
  <2>2. work'[p].step # "idle" => work'[p].from = <<"message", i>>
    BY <1>3, <1>4
  <2>3. \A q, o \in Submitters \ {p} :
          work'[q].step # "idle" /\ work'[o].step # "idle"
          /\ work'[q].from = work'[o].from => q = o
    BY <1>4 DEF MessageInv, Busy
  <2> QED
    BY <2>1, <2>2, <2>3
<1>10. \A q \in Submitters : work'[q].step # "idle" =>
         (work'[q].step = "finish" <=> \E r \in runs : r.from = work'[q].from)
  <2>1. \A q \in Submitters \ {p} : work'[q].step # "idle" =>
          (work'[q].step = "finish" <=> \E r \in runs : r.from = work'[q].from)
    BY <1>4 DEF MessageInv, Busy
  <2>2. work'[p].step # "idle" =>
          (work'[p].step = "finish" <=> \E r \in runs : r.from = work'[p].from)
    BY <1>3, <1>4, <1>6
  <2> QED
    BY <2>1, <2>2
<1>11. \A r \in runs : r.from[1] = "message" => r.from[2] \in 1..i
  BY <1>2 DEF MessageInv
<1> QED
  BY <1>1, <1>8, <1>9, <1>10, <1>11 DEF MessageInv, Busy

LEMMA InsertionKeepsMessages ==
  ASSUME RowsInv, ProcsInv, MessageInv, NEW p \in Submitters,
         work[p].step = "create",
         work' = [work EXCEPT ![p] = [work[p] EXCEPT !.step = "finish"]],
         NEW row, row.from = OriginOf(p), runs' = runs \cup {row},
         UNCHANGED <<delivered, acked, rejected>>
  PROVE  MessageInv'
<1> DEFINE from == work[p].from
<1>1. p \in Procs /\ Busy(p) /\ from = <<"message", from[2]>> /\ row.from = from
  <2>1. p \in Procs /\ Busy(p)
    BY DEF Procs, Busy
  <2>2. OriginOf(p) = <<"message", work[p].from[2]>>
    BY <2>1, OriginOfRun
  <2> QED
    BY <2>1, <2>2, SubmittersHaveMessages
<1>2. /\ from[2] \in (1..delivered) \ acked
      /\ ~ \E r \in runs : r.from = from
  BY <1>1 DEF MessageInv, Busy
<1>3. /\ work'[p].step = "finish" /\ work'[p].from = from
      /\ \A q \in Submitters \ {p} : work'[q] = work[q]
  <2>1. work[p] \in Submitting(p)
    BY <1>1, JobFacts
  <2>2. [work[p] EXCEPT !.step = "finish"].step = "finish"
        /\ [work[p] EXCEPT !.step = "finish"].from = work[p].from
    BY <2>1 DEF Submitting
  <2>3. work'[p] = [work[p] EXCEPT !.step = "finish"]
    BY <1>1 DEF ProcsInv
  <2> QED
    BY <2>2, <2>3 DEF ProcsInv, Procs
<1>4. from[1] = "message"
  BY <1>1
<1> HIDE DEF from
<1>5. \A q \in Submitters : work'[q].step # "idle" =>
        Busy(q) /\ work'[q].from = work[q].from
  BY <1>1, <1>3 DEF Busy, from
<1>6. \A q \in Submitters : work'[q].step # "idle" =>
        work'[q].from[2] \in (1..delivered) \ acked
  BY <1>5 DEF MessageInv
<1>7. \A q, o \in Submitters : work'[q].step # "idle" /\ work'[o].step # "idle"
                                /\ work'[q].from = work'[o].from => q = o
  BY <1>5 DEF MessageInv
<1>8. \A r \in runs' : r.from[1] = "message" => r.from[2] \in 1..delivered
  BY <1>1, <1>2 DEF MessageInv
<1>9. \A r1, r2 \in runs' : r1.from[1] = "message" /\ r1.from = r2.from => r1 = r2
  BY <1>1, <1>2 DEF MessageInv
<1>10. \A q \in Submitters : work'[q].step # "idle" =>
         (work'[q].step = "finish" <=> \E r \in runs' : r.from = work'[q].from)
  <2>1. ASSUME NEW q \in Submitters \ {p}, work'[q].step # "idle"
        PROVE  work'[q].step = "finish" <=> \E r \in runs' : r.from = work'[q].from
    <3>1. work[q].from # from /\ work'[q] = work[q] /\ Busy(q)
      BY <1>1, <1>3, <1>5, <2>1 DEF MessageInv, from
    <3>2. work[q].step = "finish" <=> \E r \in runs : r.from = work[q].from
      BY <3>1, Zenon DEF MessageInv
    <3> QED
      BY <1>1, <3>1, <3>2
  <2>2. work'[p].step = "finish" /\ \E r \in runs' : r.from = work'[p].from
    BY <1>1, <1>3
  <2> QED
    BY <2>1, <2>2
<1>11. \A i \in acked : i \in rejected <=> ~ \E r \in runs' : r.from = <<"message", i>>
  <2>1. \A i \in acked : row.from # <<"message", i>>
    BY <1>1, <1>2
  <2> QED
    BY <2>1 DEF MessageInv
<1> QED
  BY <1>6, <1>7, <1>8, <1>9, <1>10, <1>11 DEF MessageInv, Busy

LEMMA AckKeepsMessages ==
  ASSUME RowsInv, ProcsInv, MessageInv, NEW p \in Submitters, Ack(p)
  PROVE  MessageInv'
<1> DEFINE n == work[p].from[2]
<1>1. /\ work[p].step \in {"reject", "finish"}
      /\ work' = [work EXCEPT ![p] = Nothing]
      /\ acked' = acked \cup {n}
      /\ rejected' = IF work[p].step = "reject" THEN rejected \cup {n} ELSE rejected
      /\ UNCHANGED <<delivered, runs>>
  BY AckSteps, Zenon
<1>2. p \in Procs /\ Busy(p) /\ work[p].from = <<"message", n>>
  <2>1. Busy(p)
    BY <1>1 DEF Busy
  <2> QED
    BY <2>1, SubmittersHaveMessages
<1>3. /\ n \in (1..delivered) \ acked
      /\ work[p].step = "finish" <=> \E r \in runs : r.from = <<"message", n>>
  BY <1>2, Zenon DEF MessageInv
<1> HIDE DEF n
<1>4. work'[p] = Nothing /\ \A q \in Submitters \ {p} : work'[q] = work[q]
  BY <1>1, <1>2 DEF ProcsInv, Procs
<1>5. \A q \in Submitters : work'[q].step # "idle" =>
        q # p /\ Busy(q) /\ work'[q] = work[q]
  BY <1>4 DEF Busy, Nothing
<1>6. \A q \in Submitters : work'[q].step # "idle" =>
        work'[q].from[2] \in (1..delivered) \ acked'
  <2> SUFFICES ASSUME NEW q \in Submitters, work'[q].step # "idle"
               PROVE  work'[q].from[2] \in (1..delivered) \ acked'
    OBVIOUS
  <2>1. q # p /\ Busy(q) /\ work'[q] = work[q]
    BY <1>5
  <2>2. work[q].from = <<"message", work[q].from[2]>>
    BY <2>1, SubmittersHaveMessages
  <2>3. work[q].from # work[p].from
    BY <1>2, <2>1 DEF MessageInv
  <2>4. work[q].from[2] # n
    BY <1>2, <2>2, <2>3, Zenon
  <2>5. work[q].from[2] \in (1..delivered) \ acked
    BY <2>1 DEF MessageInv
  <2> QED
    BY <1>1, <2>1, <2>4, <2>5
<1>7. \A q, o \in Submitters : work'[q].step # "idle" /\ work'[o].step # "idle"
                                /\ work'[q].from = work'[o].from => q = o
  BY <1>5 DEF MessageInv
<1>8. \A q \in Submitters : work'[q].step # "idle" =>
        (work'[q].step = "finish" <=> \E r \in runs : r.from = work'[q].from)
  BY <1>5, Zenon DEF MessageInv
<1>9. \A i \in acked' : i \in rejected' <=> ~ \E r \in runs : r.from = <<"message", i>>
  <2>1. n \notin rejected
    BY <1>3 DEF RowsInv
  <2>2. n \in rejected' <=> work[p].step = "reject"
    BY <1>1, <2>1
  <2>3. \A i \in acked : i # n /\ (i \in rejected' <=> i \in rejected)
    BY <1>1, <1>3
  <2>4. \A i \in acked : i \in rejected <=> ~ \E r \in runs : r.from = <<"message", i>>
    BY Zenon DEF MessageInv
  <2>5. work[p].step = "reject" <=> ~ (work[p].step = "finish")
    BY <1>1
  <2>6. n \in rejected' <=> ~ \E r \in runs : r.from = <<"message", n>>
    BY <1>3, <2>2, <2>5, Zenon
  <2>7. \A i \in acked' : i = n \/ i \in acked
    BY <1>1
  <2> QED
    BY <2>3, <2>4, <2>6, <2>7, Zenon
<1>10. /\ \A r \in runs : r.from[1] = "message" => r.from[2] \in 1..delivered
       /\ \A r1, r2 \in runs : r1.from[1] = "message" /\ r1.from = r2.from => r1 = r2
  BY DEF MessageInv
<1> QED
  BY <1>1, <1>6, <1>7, <1>8, <1>9, <1>10 DEF MessageInv, Busy

LEMMA OthersKeepMessages ==
  ASSUME ProcsInv, MessageInv, NEW p \in Procs, NEW job,
         work' = [work EXCEPT ![p] = job], p \notin Submitters \/ job = Nothing,
         UNCHANGED <<streamVars, runs>>
  PROVE  MessageInv'
<1>1. \A q \in Submitters : work'[q] \in {work[q], Nothing}
  BY DEF ProcsInv, Procs
<1>2. UNCHANGED <<delivered, acked, rejected>>
  BY DEF streamVars
<1> QED
  BY <1>1, <1>2, MessagesLeftAlone

LEMMA StillWorkKeepsMessages ==
  ASSUME ProcsInv, MessageInv, UNCHANGED <<delivered, acked, rejected, runs, work>>
  PROVE  MessageInv'
<1>1. \A q \in Submitters : work'[q] \in {work[q], Nothing}
  OBVIOUS
<1> QED
  BY <1>1, MessagesLeftAlone

LEMMA CreateRunKeepsMessages ==
  ASSUME RowsInv, ProcsInv, MessageInv, NEW p \in Procs, CreateRun(p)
  PROVE  MessageInv'
<1>1. UNCHANGED streamVars /\ work[p].step = "create"
  BY CreateRunSteps
<1>2. CASE Raise(p) /\ UNCHANGED runs
  <2>1. work' = [work EXCEPT ![p] = Nothing]
    BY <1>2 DEF Raise
  <2> QED
    BY <1>1, <1>2, <2>1, OthersKeepMessages
<1>3. CASE /\ work' = [work EXCEPT ![p] = [work[p] EXCEPT !.step = "finish"]]
           /\ \E row \in RunRow : row.from = OriginOf(p) /\ runs' = runs \cup {row}
  <2>1. PICK row \in RunRow : row.from = OriginOf(p) /\ runs' = runs \cup {row}
    BY <1>3, Zenon
  <2>2. UNCHANGED <<delivered, acked, rejected>>
    BY <1>1 DEF streamVars
  <2>3. CASE p \in Submitters
    BY <1>1, <1>3, <2>1, <2>2, <2>3, InsertionKeepsMessages
  <2>4. CASE p \notin Submitters
    <3>1. row.from[1] # "message"
      BY <1>1, <2>1, <2>4, OriginOfRun DEF Busy
    <3>2. \A r : r.from[1] = "message" => (r \in runs' <=> r \in runs)
      BY <2>1, <3>1
    <3>3. \A q \in Submitters : work'[q] \in {work[q], Nothing}
      BY <1>3, <2>4 DEF ProcsInv, Procs
    <3> QED
      BY <2>2, <3>2, <3>3, MessagesLeftAlone
  <2> QED
    BY <2>3, <2>4
<1>4. \/ Raise(p) /\ UNCHANGED runs
      \/ /\ work' = [work EXCEPT ![p] = [work[p] EXCEPT !.step = "finish"]]
         /\ \E row \in RunRow : row.from = OriginOf(p) /\ runs' = runs \cup {row}
  BY CreateRunSteps, Zenon
<1> QED
  BY <1>2, <1>3, <1>4

LEMMA MessagesAreKept ==
  ASSUME RowsInv, ProcsInv, MessageInv, [SubmissionNext]_submissionVars
  PROVE  MessageInv'
<1>1. CASE \E payload \in Payloads : EnqueueSubmission(payload)
  BY <1>1, StillWorkKeepsMessages DEF EnqueueSubmission
<1>2. CASE \E p \in Handlers, payload \in Requests : Request(p, payload)
  <2>1. PICK p \in Handlers, payload \in Requests : Request(p, payload)
    BY <1>2, Zenon
  <2>2. p \in Procs /\ p \notin Submitters
    BY KindsOfProcs DEF Procs
  <2>3. PICK job \in Jobs(p) : work' = [work EXCEPT ![p] = job]
    BY <2>1, RequestSteps, Zenon DEF Begins
  <2>4. UNCHANGED <<streamVars, runs>>
    BY <2>1, RequestSteps, Zenon
  <2> QED
    BY <2>2, <2>3, <2>4, OthersKeepMessages
<1>3. CASE \E p \in Submitters : ReadSubmission(p)
  BY <1>3, DeliverKeepsMessages
<1>4. CASE \E q \in Schedulers : ReadDueSchedules(q) \/ SubmitNextDue(q)
  <2>1. PICK q \in Schedulers : ReadDueSchedules(q) \/ SubmitNextDue(q)
    BY <1>4, Zenon
  <2>2. q \in Procs /\ q \notin Submitters
    BY KindsOfProcs DEF Procs
  <2>3. PICK job : work' = [work EXCEPT ![q] = job]
    BY <2>1, ScheduleSteps, Zenon DEF TakesFirst
  <2>4. UNCHANGED <<streamVars, runs>>
    BY <2>1, ScheduleSteps, Zenon
  <2> QED
    BY <2>2, <2>3, <2>4, OthersKeepMessages
<1>5. CASE \E p \in Procs : CreateRun(p)
  BY <1>5, CreateRunKeepsMessages
<1>6. CASE \E p \in Submitters : Ack(p)
  BY <1>6, AckKeepsMessages
<1>7. CASE \E q \in Schedulers : MarkScheduleSubmitted(q)
  <2>1. PICK q \in Schedulers : MarkScheduleSubmitted(q)
    BY <1>7, Zenon
  <2>2. q \in Procs /\ work' = [work EXCEPT ![q] = Nothing] /\ UNCHANGED <<streamVars, runs>>
    BY <2>1, MarkSteps DEF Procs
  <2> QED
    BY <2>2, OthersKeepMessages
<1>8. CASE \E p \in Handlers : Respond(p)
  <2>1. PICK p \in Handlers : Respond(p)
    BY <1>8, Zenon
  <2>2. p \in Procs /\ work' = [work EXCEPT ![p] = Nothing] /\ UNCHANGED <<streamVars, runs>>
    BY <2>1, RespondSteps DEF Procs
  <2> QED
    BY <2>2, OthersKeepMessages
<1>9. CASE \E p \in Procs : Fault(p)
  <2>1. PICK p \in Procs : Fault(p)
    BY <1>9, Zenon
  <2>2. work' = [work EXCEPT ![p] = Nothing] /\ UNCHANGED <<streamVars, runs>>
    BY <2>1, FaultSteps DEF Raise
  <2> QED
    BY <2>2, OthersKeepMessages
<1>10. CASE \E c \in Changes : Change(c)
  BY <1>10, StillWorkKeepsMessages DEF Change, streamVars
<1>11. CASE Tick
  BY <1>11, StillWorkKeepsMessages DEF Tick, streamVars
<1>12. CASE UNCHANGED submissionVars
  BY <1>12, StillWorkKeepsMessages DEF submissionVars
<1> QED
  BY StepCases, <1>1, <1>2, <1>3, <1>4, <1>5, <1>6, <1>7, <1>8, <1>9, <1>10, <1>11, <1>12, Zenon

-----------------------------------------------------------------------------
(***************************************************************************)
(* Schedules: what schedulers have in hand.                                *)
(***************************************************************************)
LEMMA TailFacts ==
  ASSUME NEW X, NEW rows \in Seq(X), rows # <<>>
  PROVE  /\ 1 \in DOMAIN rows /\ Head(rows) = rows[1] /\ Head(rows) \in X
         /\ \A i \in DOMAIN Tail(rows) : i \in Nat /\ i + 1 \in DOMAIN rows /\ i + 1 # 1
                                         /\ Tail(rows)[i] = rows[i + 1]
<1>1. Len(rows) \in Nat \ {0} /\ DOMAIN rows = 1..Len(rows)
  BY EmptySeq
<1>2. /\ DOMAIN Tail(rows) = 1..(Len(rows) - 1)
      /\ \A i \in 1..(Len(rows) - 1) : Tail(rows)[i] = rows[i + 1]
  BY <1>1, HeadTailProperties
<1> QED
  BY <1>1, <1>2

LEMMA SchedulersHaveSchedules ==
  ASSUME ProcsInv, NEW q \in Schedulers, Busy(q)
  PROVE  q \in Procs /\ work[q].from[2] \in Schedules
                     /\ work[q].from = <<"schedule", work[q].from[2]>>
<1>1. q \in Procs
  BY DEF Procs
<1>2. work[q].from \in Origins(q)
  BY <1>1, JobFacts
<1> QED
  BY <1>1, <1>2, OriginFacts

LEMMA AgendaLeftAlone ==
  ASSUME AgendaInv, UNCHANGED agenda,
         \A q \in Schedulers : work'[q].step # "idle" => Busy(q) /\ work'[q].from = work[q].from
  PROVE  AgendaInv'
  BY DEF AgendaInv, OnAgenda, Busy

LEMMA RaiseKeepsAgenda ==
  ASSUME ProcsInv, AgendaInv, NEW p \in Procs, Raise(p)
  PROVE  AgendaInv'
<1>1. work'[p] = Nothing /\ \A q \in Procs \ {p} : work'[q] = work[q]
  BY DEF Raise, ProcsInv
<1>2. \A q \in Schedulers : agenda'[q] = <<>> \/ (q # p /\ agenda'[q] = agenda[q])
  <2>1. CASE p \in Schedulers
    BY <2>1 DEF Raise, ProcsInv
  <2>2. CASE p \notin Schedulers
    BY <2>2 DEF Raise
  <2> QED
    BY <2>1, <2>2
<1> SUFFICES ASSUME NEW q \in Schedulers
             PROVE  /\ \A i, j \in DOMAIN agenda'[q] :
                         agenda'[q][i].schedule = agenda'[q][j].schedule => i = j
                    /\ work'[q].step # "idle" =>
                         ~ \E i \in DOMAIN agenda'[q] : agenda'[q][i].schedule = work'[q].from[2]
  BY DEF AgendaInv, OnAgenda, Busy
<1>3. CASE agenda'[q] = <<>>
  BY <1>3
<1>4. CASE q # p /\ agenda'[q] = agenda[q]
  <2>1. work'[q] = work[q]
    BY <1>1, <1>4 DEF Procs
  <2> QED
    BY <1>4, <2>1 DEF AgendaInv, OnAgenda, Busy
<1> QED
  BY <1>2, <1>3, <1>4

\* What q has in hand or before it afterwards, it had before it or has read just now.
LEMMA TakesFirstMoves ==
  ASSUME ProcsInv, NEW q \in Schedulers, NEW rows, TakesFirst(q, rows)
  PROVE  /\ \A o \in Schedulers \ {q} : work'[o] = work[o] /\ agenda'[o] = agenda[o]
         /\ work'[q].step # "idle" => /\ work'[q].step = "create"
                                      /\ work'[q].from = <<"schedule", rows[1].schedule>>
         /\ agenda'[q] = Tail(rows) \/ agenda'[q] = <<>>
<1> q \in Procs
  BY DEF Procs
<1>1. CASE work' = [work EXCEPT ![q] = Nothing] /\ agenda' = [agenda EXCEPT ![q] = <<>>]
  BY <1>1 DEF ProcsInv, Procs, Nothing
<1>2. CASE /\ \E job \in Jobs(q) :
                /\ work' = [work EXCEPT ![q] = job]
                /\ job.step = "create" /\ job.from = <<"schedule", Head(rows).schedule>>
           /\ agenda' = [agenda EXCEPT ![q] = Tail(rows)]
  <2>1. Head(rows) = rows[1]
    BY TailFacts, Zenon DEF TakesFirst
  <2>2. PICK job : /\ work' = [work EXCEPT ![q] = job]
                   /\ job.step = "create" /\ job.from = <<"schedule", rows[1].schedule>>
    BY <1>2, <2>1, Zenon
  <2> QED
    BY <1>2, <2>2 DEF ProcsInv, Procs
<1> QED
  BY <1>1, <1>2, Zenon DEF TakesFirst

LEMMA TakesFirstKeepsAgenda ==
  ASSUME ProcsInv, AgendaInv, NEW q \in Schedulers, NEW rows, TakesFirst(q, rows)
  PROVE  AgendaInv'
<1>1. rows \in Seq(DueRow) /\ rows # <<>> /\ Distinct(rows)
  BY DEF TakesFirst, AgendaInv, Distinct
<1>2. /\ 1 \in DOMAIN rows
      /\ \A i \in DOMAIN Tail(rows) : i \in Nat /\ i + 1 \in DOMAIN rows /\ i + 1 # 1
                                      /\ Tail(rows)[i] = rows[i + 1]
  BY <1>1, TailFacts, Zenon
<1> SUFFICES ASSUME NEW o \in Schedulers
             PROVE  /\ \A i, j \in DOMAIN agenda'[o] :
                         agenda'[o][i].schedule = agenda'[o][j].schedule => i = j
                    /\ work'[o].step # "idle" =>
                         ~ \E i \in DOMAIN agenda'[o] : agenda'[o][i].schedule = work'[o].from[2]
  BY DEF AgendaInv, OnAgenda, Busy
<1>3. CASE o # q
  <2>1. work'[o] = work[o] /\ agenda'[o] = agenda[o]
    BY <1>3, TakesFirstMoves
  <2> QED
    BY <2>1 DEF AgendaInv, OnAgenda, Busy
<1>4. CASE o = q
  <2>1. work'[q].step # "idle" => work'[q].from = <<"schedule", rows[1].schedule>>
    BY TakesFirstMoves, Zenon
  <2>2. work'[q].step # "idle" => work'[q].from[2] = rows[1].schedule
    BY <2>1
  <2>3. CASE agenda'[q] = <<>>
    BY <1>4, <2>3
  <2>4. CASE agenda'[q] = Tail(rows)
    <3>1. \A i, j \in DOMAIN Tail(rows) : Tail(rows)[i].schedule = Tail(rows)[j].schedule => i = j
      <4> SUFFICES ASSUME NEW i \in DOMAIN Tail(rows), NEW j \in DOMAIN Tail(rows),
                          Tail(rows)[i].schedule = Tail(rows)[j].schedule
                   PROVE  i = j
        BY Zenon
      <4>1. i \in Nat /\ j \in Nat /\ i + 1 \in DOMAIN rows /\ j + 1 \in DOMAIN rows
            /\ rows[i + 1].schedule = rows[j + 1].schedule
        BY <1>2, Zenon
      <4>2. i + 1 = j + 1
        BY <1>1, <4>1, Zenon DEF Distinct
      <4> QED
        BY <4>1, <4>2
    <3>2. \A i \in DOMAIN Tail(rows) : Tail(rows)[i].schedule # rows[1].schedule
      BY <1>1, <1>2, Zenon DEF Distinct
    <3> QED
      BY <1>4, <2>2, <2>4, <3>1, <3>2, Zenon
  <2> QED
    BY <2>3, <2>4, TakesFirstMoves, Zenon
<1> QED
  BY <1>3, <1>4

-----------------------------------------------------------------------------
(***************************************************************************)
(* Schedules: the times of their runs.                                     *)
(***************************************************************************)
LEMMA NumbersOfSchedules ==
  ASSUME RowsInv
  PROVE  /\ now \in Nat /\ faults \in Nat
         /\ \A s \in Schedules : Interval[s] \in Nat \ {0} /\ schedules[s].next_run_at \in Nat
<1>1. now \in Nat /\ faults \in Nat /\ schedules \in [Schedules -> ScheduleRow]
  BY DEF RowsInv
<1>2. Interval \in [Schedules -> Nat \ {0}]
  BY SubmissionAssumption, Zenon
<1> QED
  BY <1>1, <1>2 DEF ScheduleRow

LEMMA SameRunsSameTimes ==
  ASSUME \A r : r.from[1] = "schedule" => (r \in runs' <=> r \in runs)
  PROVE  /\ \A q, s : SubmittedAt(q, s)' = SubmittedAt(q, s)
         /\ OneEach /\ replaced \subseteq replaced' => OneEach'
<1>1. \A q, s, t : <<"schedule", s, q, t>>[1] = "schedule"
  OBVIOUS
<1>2. \A r, q, s, t : r.from = <<"schedule", s, q, t>> => (r \in runs' <=> r \in runs)
  BY <1>1, Zenon
<1>3. \A q, s : SubmittedAt(q, s)' = SubmittedAt(q, s)
  BY <1>2 DEF SubmittedAt
<1>4. OneEach /\ replaced \subseteq replaced' => OneEach'
  BY DEF OneEach
<1> QED
  BY <1>3, <1>4

\* Steps that insert no run of a schedule and move none: a scheduler that looks
\* at a schedule now has looked at it before, or finds it due.
LEMMA TimesAreLeftAlone ==
  ASSUME RowsInv, RowsInv', ScheduleInv, faults' = 0 => faults = 0,
         \A r : r.from[1] = "schedule" => (r \in runs' <=> r \in runs),
         replaced \subseteq replaced', now <= now',
         \A s \in Schedules \ replaced' : schedules'[s].next_run_at = schedules[s].next_run_at,
         \A q \in Schedulers : \A s \in Schedules :
           /\ Has(q, s, "finish") => Has(q, s, "finish")'
           /\ (Has(q, s, "create") \/ OnAgenda(q, s))' =>
                \/ Has(q, s, "create") \/ OnAgenda(q, s)
                \/ (schedules[s].next_run_at <= now /\ ~Has(q, s, "finish"))
  PROVE  ScheduleInv'
<1> SUFFICES ASSUME faults' = 0
             PROVE  TimesInv' /\ OneEach'
  BY DEF ScheduleInv
<1>1. TimesInv /\ OneEach
  BY DEF ScheduleInv
<1>2. OneEach'
  BY <1>1, SameRunsSameTimes
<1>3. ASSUME NEW q \in Schedulers, NEW s \in Schedules \ replaced', NEW t \in SubmittedAt(q, s)
      PROVE  /\ t <= now'
             /\ Has(q, s, "finish")' \/ t + Interval[s] <= schedules'[s].next_run_at
             /\ (Has(q, s, "create") \/ OnAgenda(q, s))' => t + Interval[s] <= now'
             /\ \A u \in SubmittedAt(q, s) : t < u => t + Interval[s] <= u
  <2>1. /\ t <= now
        /\ Has(q, s, "finish") \/ t + Interval[s] <= schedules[s].next_run_at
        /\ Has(q, s, "create") \/ OnAgenda(q, s) => t + Interval[s] <= now
        /\ \A u \in SubmittedAt(q, s) : t < u => t + Interval[s] <= u
    BY <1>1, <1>3, Zenon DEF TimesInv
  <2>2. /\ t \in Nat /\ now \in Nat /\ now' \in Nat /\ Interval[s] \in Nat
        /\ schedules[s].next_run_at \in Nat
        /\ schedules'[s].next_run_at = schedules[s].next_run_at
    <3>1. now' \in Nat
      BY DEF RowsInv
    <3> QED
      BY <3>1, NumbersOfSchedules DEF SubmittedAt
  <2>3. t <= now'
    BY <2>1, <2>2
  <2>4. Has(q, s, "finish")' \/ t + Interval[s] <= schedules'[s].next_run_at
    <3>1. Has(q, s, "finish") => Has(q, s, "finish")'
      BY Zenon
    <3> QED
      BY <2>1, <2>2, <3>1, Zenon
  <2>5. ASSUME (Has(q, s, "create") \/ OnAgenda(q, s))'
        PROVE  t + Interval[s] <= now'
    <3>1. \/ Has(q, s, "create") \/ OnAgenda(q, s)
          \/ (schedules[s].next_run_at <= now /\ ~Has(q, s, "finish"))
      BY <2>5, Zenon
    <3>2. t + Interval[s] <= now \/ (/\ schedules[s].next_run_at <= now
                                     /\ t + Interval[s] <= schedules[s].next_run_at)
      BY <2>1, <3>1, Zenon
    <3> QED
      BY <2>2, <3>2
  <2> QED
    BY <2>1, <2>3, <2>4, <2>5, Zenon
<1>4. \A q, s : SubmittedAt(q, s)' = SubmittedAt(q, s)
  BY SameRunsSameTimes
<1>5. TimesInv'
  BY <1>3, <1>4, Zenon DEF TimesInv
<1> QED
  BY <1>2, <1>5

\* The scheduler inserts the run: what its earlier runs say is that their interval
\* is over.
LEMMA InsertionKeepsTimes ==
  ASSUME RowsInv, ProcsInv, AgendaInv, ScheduleInv, NEW p \in Schedulers,
         work[p].step = "create",
         work' = [work EXCEPT ![p] = [work[p] EXCEPT !.step = "finish"]],
         UNCHANGED <<agenda, schedules, replaced, now, faults>>,
         NEW row, row.from = OriginOf(p), runs' = runs \cup {row}
  PROVE  ScheduleInv'
<1> SUFFICES ASSUME faults = 0
             PROVE  TimesInv' /\ OneEach'
  BY DEF ScheduleInv
<1>1. TimesInv /\ OneEach
  BY DEF ScheduleInv
<1>2. PICK m \in Schedules :
        /\ p \in Procs /\ Busy(p) /\ m = work[p].from[2]
        /\ row.from = <<"schedule", m, p, now>>
  <2>1. p \in Procs /\ Busy(p)
    BY DEF Procs, Busy
  <2>2. /\ work[p].from[2] \in Schedules
        /\ row.from = <<"schedule", work[p].from[2], p, now>>
    BY <2>1, OriginOfRun
  <2> QED
    BY <2>1, <2>2
<1>3. /\ work'[p].step = "finish" /\ work'[p].from = work[p].from
      /\ \A q \in Schedulers \ {p} : work'[q] = work[q]
  <2>1. work[p] \in Submitting(p)
    BY <1>2, JobFacts
  <2>2. [work[p] EXCEPT !.step = "finish"].step = "finish"
        /\ [work[p] EXCEPT !.step = "finish"].from = work[p].from
    BY <2>1 DEF Submitting
  <2>3. work'[p] = [work[p] EXCEPT !.step = "finish"]
    BY <1>2 DEF ProcsInv
  <2> QED
    BY <2>2, <2>3 DEF ProcsInv, Procs
<1>4. Has(p, m, "create") /\ ~OnAgenda(p, m)
  BY <1>2 DEF Has, AgendaInv
<1>5. \A s \in Schedules : s # m => ~Has(p, s, "create") /\ ~Has(p, s, "finish")
                                    /\ ~Has(p, s, "create")' /\ ~Has(p, s, "finish")'
  BY <1>2, <1>3 DEF Has
<1>6. Has(p, m, "finish")' /\ ~Has(p, m, "create")' /\ ~OnAgenda(p, m)'
  BY <1>2, <1>3, <1>4 DEF Has, OnAgenda
<1>7. \A q \in Schedulers : \A s : q # p => /\ Has(q, s, "finish")' <=> Has(q, s, "finish")
                                            /\ Has(q, s, "create")' <=> Has(q, s, "create")
  BY <1>3 DEF Has
<1>8. \A q, s : OnAgenda(q, s)' <=> OnAgenda(q, s)
  BY DEF OnAgenda
<1>9. \A q, s : q # p \/ s # m => SubmittedAt(q, s)' = SubmittedAt(q, s)
  <2>1. \A q, s, t : q # p \/ s # m => row.from # <<"schedule", s, q, t>>
    BY <1>2
  <2> QED
    BY <2>1 DEF SubmittedAt
<1>10. now \in Nat /\ SubmittedAt(p, m)' = SubmittedAt(p, m) \cup {now}
  <2>1. now \in Nat
    BY NumbersOfSchedules, Zenon
  <2>2. \A t : row.from = <<"schedule", m, p, t>> <=> t = now
    BY <1>2
  <2>3. \A t \in Nat : (\E r \in runs' : r.from = <<"schedule", m, p, t>>)
                       <=> (\E r \in runs : r.from = <<"schedule", m, p, t>>) \/ t = now
    BY <2>2
  <2>4. SubmittedAt(p, m)' = SubmittedAt(p, m) \cup {now}
    BY <2>1, <2>3 DEF SubmittedAt
  <2> QED
    BY <2>1, <2>4
<1>11. ASSUME m \notin replaced
       PROVE  \A t \in SubmittedAt(p, m) :
                t \in Nat /\ Interval[m] \in Nat \ {0} /\ t + Interval[m] <= now /\ t < now
  <2> SUFFICES ASSUME NEW t \in SubmittedAt(p, m)
               PROVE  t \in Nat /\ Interval[m] \in Nat \ {0} /\ t + Interval[m] <= now /\ t < now
    BY Zenon
  <2>1. t + Interval[m] <= now
    BY <1>1, <1>2, <1>4, <1>11, Zenon DEF TimesInv
  <2>2. t \in Nat /\ Interval[m] \in Nat \ {0}
    BY <1>2, NumbersOfSchedules DEF SubmittedAt
  <2> QED
    BY <1>10, <2>1, <2>2
<1>12. OneEach'
  <2>1. ASSUME m \notin replaced, NEW r \in runs, r.from = row.from
        PROVE  FALSE
    <3>1. now \in SubmittedAt(p, m)
      BY <1>2, <1>10, <2>1 DEF SubmittedAt
    <3> QED
      BY <1>10, <1>11, <2>1, <3>1
  <2>2. row.from[2] = m
    BY <1>2
  <2> QED
    BY <1>1, <2>1, <2>2 DEF OneEach
<1>13. ASSUME NEW q \in Schedulers, NEW s \in Schedules \ replaced,
              NEW t \in SubmittedAt(q, s)'
       PROVE  /\ t <= now
              /\ Has(q, s, "finish")' \/ t + Interval[s] <= schedules[s].next_run_at
              /\ (Has(q, s, "create") \/ OnAgenda(q, s))' => t + Interval[s] <= now
              /\ \A u \in SubmittedAt(q, s)' : t < u => t + Interval[s] <= u
  <2>1. CASE q # p \/ s # m
    <3>1. t \in SubmittedAt(q, s) /\ SubmittedAt(q, s)' = SubmittedAt(q, s)
      BY <1>9, <1>13, <2>1
    <3>2. /\ t <= now
          /\ Has(q, s, "finish") \/ t + Interval[s] <= schedules[s].next_run_at
          /\ Has(q, s, "create") \/ OnAgenda(q, s) => t + Interval[s] <= now
          /\ \A u \in SubmittedAt(q, s) : t < u => t + Interval[s] <= u
      BY <1>1, <1>13, <3>1, Zenon DEF TimesInv
    <3>3. /\ Has(q, s, "finish") => Has(q, s, "finish")'
          /\ (Has(q, s, "create") \/ OnAgenda(q, s))' => Has(q, s, "create") \/ OnAgenda(q, s)
      BY <1>5, <1>7, <1>8, <2>1, Zenon
    <3> QED
      BY <3>1, <3>2, <3>3, Zenon
  <2>2. CASE q = p /\ s = m
    <3>1. t \in SubmittedAt(p, m) \/ t = now
      <4>1. t \in SubmittedAt(p, m)'
        BY <1>13, <2>2, Zenon DEF SubmittedAt
      <4> QED
        BY <1>10, <4>1
    <3>2. t <= now /\ t \in Nat
      BY <1>10, <1>11, <1>13, <2>2, <3>1
    <3>3. ASSUME NEW u \in SubmittedAt(p, m)', t < u
          PROVE  t + Interval[m] <= u
      <4>1. u \in SubmittedAt(p, m) \/ u = now
        BY <1>10
      <4>2. t \in SubmittedAt(p, m)
        BY <1>10, <1>11, <1>13, <2>2, <3>1, <3>3, <4>1
      <4>3. CASE u = now
        BY <1>11, <1>13, <2>2, <4>2, <4>3
      <4>4. CASE u \in SubmittedAt(p, m)
        BY <1>1, <1>2, <1>13, <2>2, <3>3, <4>2, <4>4, Zenon DEF TimesInv
      <4> QED
        BY <4>1, <4>3, <4>4
    <3>4. Has(q, s, "finish")' /\ ~Has(q, s, "create")' /\ ~OnAgenda(q, s)'
      BY <1>6, <2>2, Zenon DEF Has, OnAgenda
    <3>5. \A u \in SubmittedAt(q, s)' : t < u => t + Interval[s] <= u
      BY <2>2, <3>3, Zenon DEF SubmittedAt
    <3> QED
      BY <3>2, <3>4, <3>5, Zenon
  <2> QED
    BY <2>1, <2>2
<1>14. TimesInv'
  BY <1>13, Zenon DEF TimesInv
<1> QED
  BY <1>12, <1>14

\* The scheduler moves the schedule.
LEMMA MarkKeepsTimes ==
  ASSUME RowsInv, RowsInv', ProcsInv, AgendaInv, ScheduleInv, NEW p \in Schedulers,
         MarkScheduleSubmitted(p)
  PROVE  ScheduleInv'
<1> DEFINE m == work[p].from[2]
<1>1. /\ work[p].step = "finish" /\ m \in Schedules
      /\ work' = [work EXCEPT ![p] = Nothing]
      /\ schedules' = [schedules EXCEPT ![m].next_run_at = now + Interval[m]]
      /\ UNCHANGED <<runs, replaced, agenda, now, faults>>
  <2>1. /\ work[p].step = "finish" /\ m \in Schedules
        /\ work' = [work EXCEPT ![p] = Nothing]
        /\ schedules' = [schedules EXCEPT ![m].next_run_at = now + Interval[m]]
        /\ UNCHANGED <<streamVars, runs, templates, replaced, agenda, boundVars>>
    BY MarkSteps, Zenon
  <2> QED
    BY <2>1 DEF boundVars
<1> SUFFICES ASSUME faults = 0
             PROVE  TimesInv' /\ OneEach'
  BY <1>1 DEF ScheduleInv
<1>2. TimesInv /\ OneEach
  BY DEF ScheduleInv
<1>3. OneEach'
  BY <1>1, <1>2 DEF OneEach
<1>4. /\ work'[p] = Nothing /\ \A q \in Schedulers \ {p} : work'[q] = work[q]
  BY <1>1 DEF ProcsInv, Procs
<1>5. \A s \in Schedules : Has(p, s, "finish") => s = m
  BY DEF Has
<1> HIDE DEF m
<1>6. /\ schedules'[m].next_run_at = now + Interval[m]
      /\ \A s \in Schedules : s # m => schedules'[s] = schedules[s]
  <2>1. schedules \in [Schedules -> ScheduleRow]
    BY DEF RowsInv
  <2>2. schedules[m] \in ScheduleRow
    BY <1>1, <2>1
  <2>3. [schedules[m] EXCEPT !.next_run_at = now + Interval[m]].next_run_at = now + Interval[m]
    BY <2>2 DEF ScheduleRow
  <2>4. schedules'[m] = [schedules[m] EXCEPT !.next_run_at = now + Interval[m]]
    BY <1>1, <2>1
  <2> QED
    BY <1>1, <2>1, <2>3, <2>4
<1>7. \A q, s : SubmittedAt(q, s)' = SubmittedAt(q, s)
  BY <1>1 DEF SubmittedAt
<1>8. ASSUME NEW q \in Schedulers, NEW s \in Schedules \ replaced, NEW t \in SubmittedAt(q, s)
      PROVE  /\ t <= now
             /\ Has(q, s, "finish")' \/ t + Interval[s] <= schedules'[s].next_run_at
             /\ (Has(q, s, "create") \/ OnAgenda(q, s))' => t + Interval[s] <= now
             /\ \A u \in SubmittedAt(q, s) : t < u => t + Interval[s] <= u
  <2>1. /\ t <= now
        /\ Has(q, s, "finish") \/ t + Interval[s] <= schedules[s].next_run_at
        /\ Has(q, s, "create") \/ OnAgenda(q, s) => t + Interval[s] <= now
        /\ \A u \in SubmittedAt(q, s) : t < u => t + Interval[s] <= u
    BY <1>2, <1>8, Zenon DEF TimesInv
  <2>2. t \in Nat /\ now \in Nat /\ Interval[s] \in Nat /\ schedules[s].next_run_at \in Nat
    BY NumbersOfSchedules DEF SubmittedAt
  <2>3. Has(q, s, "finish")' \/ t + Interval[s] <= schedules'[s].next_run_at
    <3>1. CASE s = m
      BY <1>6, <2>1, <2>2, <3>1
    <3>2. CASE s # m /\ q = p
      BY <1>5, <1>6, <2>1, <3>2
    <3>3. CASE s # m /\ q # p
      <4>1. Has(q, s, "finish") => Has(q, s, "finish")'
        BY <1>4, <3>3 DEF Has
      <4> QED
        BY <1>6, <2>1, <3>3, <4>1
    <3> QED
      BY <3>1, <3>2, <3>3
  <2>4. (Has(q, s, "create") \/ OnAgenda(q, s))' => Has(q, s, "create") \/ OnAgenda(q, s)
    <3>1. CASE q = p
      BY <1>1, <1>4, <3>1 DEF Has, OnAgenda, Nothing
    <3>2. CASE q # p
      BY <1>1, <1>4, <3>2 DEF Has, OnAgenda
    <3> QED
      BY <3>1, <3>2
  <2> QED
    BY <2>1, <2>3, <2>4, Zenon
<1>9. TimesInv'
  BY <1>1, <1>7, <1>8 DEF TimesInv
<1> QED
  BY <1>3, <1>9

-----------------------------------------------------------------------------
(***************************************************************************)
(* Schedules: every step.                                                  *)
(***************************************************************************)
LEMMA StillSchedulers ==
  ASSUME RowsInv, RowsInv', AgendaInv, ScheduleInv, faults' = 0 => faults = 0,
         \A r : r.from[1] = "schedule" => (r \in runs' <=> r \in runs),
         replaced \subseteq replaced', now <= now',
         \A s \in Schedules \ replaced' : schedules'[s].next_run_at = schedules[s].next_run_at,
         \A q \in Schedulers : work'[q] = work[q], UNCHANGED agenda
  PROVE  AgendaInv' /\ ScheduleInv'
<1>1. AgendaInv'
  BY AgendaLeftAlone DEF Busy
<1>2. \A q \in Schedulers : \A s \in Schedules :
        /\ Has(q, s, "finish") => Has(q, s, "finish")'
        /\ (Has(q, s, "create") \/ OnAgenda(q, s))' => Has(q, s, "create") \/ OnAgenda(q, s)
  BY DEF Has, OnAgenda
<1>3. ScheduleInv'
  BY <1>2, TimesAreLeftAlone
<1> QED
  BY <1>1, <1>3

LEMMA StillSchedules ==
  ASSUME RowsInv, UNCHANGED <<runs, definitionVars, now, faults>>
  PROVE  /\ faults' = 0 => faults = 0
         /\ \A r : r.from[1] = "schedule" => (r \in runs' <=> r \in runs)
         /\ replaced \subseteq replaced' /\ now <= now'
         /\ \A s \in Schedules \ replaced' : schedules'[s].next_run_at = schedules[s].next_run_at
  BY NumbersOfSchedules DEF definitionVars

LEMMA OthersKeepSchedules ==
  ASSUME RowsInv, RowsInv', ProcsInv, AgendaInv, ScheduleInv,
         NEW p \in Procs, p \notin Schedulers, NEW job, work' = [work EXCEPT ![p] = job],
         UNCHANGED <<runs, definitionVars, agenda, now, faults>>
  PROVE  AgendaInv' /\ ScheduleInv'
<1>1. \A q \in Schedulers : work'[q] = work[q]
  BY DEF ProcsInv, Procs
<1> QED
  BY <1>1, StillSchedules, StillSchedulers

LEMMA TakesFirstKeepsTimes ==
  ASSUME RowsInv, RowsInv', ProcsInv, AgendaInv, ScheduleInv,
         NEW q \in Schedulers, ~Busy(q), NEW rows, TakesFirst(q, rows),
         UNCHANGED <<runs, definitionVars, now, faults>>
  PROVE  ScheduleInv'
<1>1. /\ \A o \in Schedulers \ {q} : work'[o] = work[o] /\ agenda'[o] = agenda[o]
      /\ work'[q].step # "idle" => /\ work'[q].step = "create"
                                   /\ work'[q].from = <<"schedule", rows[1].schedule>>
      /\ agenda'[q] = Tail(rows) \/ agenda'[q] = <<>>
  BY TakesFirstMoves, Zenon
<1>2. /\ 1 \in DOMAIN rows
      /\ \A i \in DOMAIN Tail(rows) : i + 1 \in DOMAIN rows /\ Tail(rows)[i] = rows[i + 1]
  BY TailFacts, Zenon DEF TakesFirst
<1>3. \/ rows = agenda[q]
      \/ \A i \in DOMAIN rows : rows[i].schedule \in Due
  BY Zenon DEF TakesFirst
<1>4. ASSUME NEW s \in Schedules, Has(q, s, "create")' \/ OnAgenda(q, s)'
      PROVE  \E i \in DOMAIN rows : rows[i].schedule = s
  <2>1. CASE Has(q, s, "create")'
    <3>1. work'[q].step = "create" /\ work'[q].from[2] = s
      BY <2>1 DEF Has
    <3>2. work'[q].from = <<"schedule", rows[1].schedule>>
      BY <1>1, <3>1
    <3>3. rows[1].schedule = s
      BY <3>1, <3>2
    <3> QED
      BY <1>2, <3>3
  <2>2. CASE OnAgenda(q, s)'
    <3>1. PICK i \in DOMAIN agenda'[q] : agenda'[q][i].schedule = s
      BY <2>2 DEF OnAgenda
    <3>2. agenda'[q] = Tail(rows)
      BY <1>1, <3>1
    <3>3. i + 1 \in DOMAIN rows /\ rows[i + 1].schedule = s
      BY <1>2, <3>1, <3>2, Zenon
    <3> QED
      BY <3>3, Zenon
  <2> QED
    BY <1>4, <2>1, <2>2
<1>5. \A s \in Schedules : ~Has(q, s, "finish")
  BY DEF Has, Busy
<1>6. \A s \in Schedules : (Has(q, s, "create") \/ OnAgenda(q, s))' =>
        OnAgenda(q, s) \/ (schedules[s].next_run_at <= now /\ ~Has(q, s, "finish"))
  <2> SUFFICES ASSUME NEW s \in Schedules, Has(q, s, "create")' \/ OnAgenda(q, s)'
               PROVE  OnAgenda(q, s) \/ (schedules[s].next_run_at <= now /\ ~Has(q, s, "finish"))
    BY Zenon
  <2>1. PICK i \in DOMAIN rows : rows[i].schedule = s
    BY <1>4
  <2>2. CASE rows = agenda[q]
    BY <2>1, <2>2, Zenon DEF OnAgenda
  <2>3. CASE \A k \in DOMAIN rows : rows[k].schedule \in Due
    <3>1. s \in Due
      BY <2>1, <2>3
    <3> QED
      BY <1>5, <3>1 DEF Due
  <2> QED
    BY <1>3, <2>2, <2>3
<1>7. ASSUME NEW o \in Schedulers, NEW s \in Schedules
      PROVE  /\ Has(o, s, "finish") => Has(o, s, "finish")'
             /\ (Has(o, s, "create") \/ OnAgenda(o, s))' =>
                  \/ Has(o, s, "create") \/ OnAgenda(o, s)
                  \/ (schedules[s].next_run_at <= now /\ ~Has(o, s, "finish"))
  <2>1. CASE o # q
    <3>1. work'[o] = work[o] /\ agenda'[o] = agenda[o]
      BY <1>1, <2>1
    <3> QED
      BY <3>1 DEF Has, OnAgenda
  <2>2. CASE o = q
    <3>1. ~Has(o, s, "finish")
      BY <1>5, <2>2
    <3>2. (Has(o, s, "create") \/ OnAgenda(o, s))' =>
            OnAgenda(o, s) \/ (schedules[s].next_run_at <= now /\ ~Has(o, s, "finish"))
      BY <1>6, <2>2, Zenon DEF Has, OnAgenda
    <3> QED
      BY <3>1, <3>2, Zenon
  <2> QED
    BY <2>1, <2>2
<1> QED
  BY <1>7, StillSchedules, TimesAreLeftAlone

LEMMA CreateRunKeepsSchedules ==
  ASSUME RowsInv, RowsInv', ProcsInv, AgendaInv, ScheduleInv, NEW p \in Procs, CreateRun(p)
  PROVE  AgendaInv' /\ ScheduleInv'
<1>1. work[p].step = "create" /\ Busy(p) /\ UNCHANGED <<definitionVars, boundVars>>
  BY CreateRunSteps DEF Busy
<1>2. UNCHANGED <<schedules, replaced, now, faults>>
  BY <1>1 DEF definitionVars, boundVars
<1>3. CASE Raise(p) /\ UNCHANGED runs
  <2>1. AgendaInv'
    BY <1>3, RaiseKeepsAgenda
  <2>2. \A q \in Schedulers : \A s \in Schedules :
          /\ Has(q, s, "finish") => Has(q, s, "finish")'
          /\ (Has(q, s, "create") \/ OnAgenda(q, s))' => Has(q, s, "create") \/ OnAgenda(q, s)
    <3>1. work'[p] = Nothing /\ \A q \in Procs \ {p} : work'[q] = work[q]
      BY <1>3 DEF Raise, ProcsInv
    <3>2. \A q \in Schedulers : agenda'[q] = <<>> \/ agenda'[q] = agenda[q]
      <4>1. CASE p \in Schedulers
        BY <1>3, <4>1 DEF Raise, ProcsInv
      <4>2. CASE p \notin Schedulers
        BY <1>3, <4>2 DEF Raise
      <4> QED
        BY <4>1, <4>2
    <3>3. \A q \in Schedulers : \A s \in Schedules :
            Has(q, s, "finish") => Has(q, s, "finish")'
      BY <1>1, <3>1 DEF Has, Procs
    <3>4. \A q \in Schedulers : \A s \in Schedules :
            Has(q, s, "create")' => Has(q, s, "create")
      BY <3>1 DEF Has, Procs, Nothing
    <3>5. \A q \in Schedulers : \A s \in Schedules : OnAgenda(q, s)' => OnAgenda(q, s)
      BY <3>2 DEF OnAgenda
    <3> QED
      BY <3>3, <3>4, <3>5
  <2>3. ScheduleInv'
    BY <1>2, <1>3, <2>2, TimesAreLeftAlone, NumbersOfSchedules
  <2> QED
    BY <2>1, <2>3
<1>4. CASE /\ work' = [work EXCEPT ![p] = [work[p] EXCEPT !.step = "finish"]]
           /\ UNCHANGED agenda
           /\ \E row \in RunRow : row.from = OriginOf(p) /\ runs' = runs \cup {row}
  <2>1. PICK row \in RunRow : row.from = OriginOf(p) /\ runs' = runs \cup {row}
    BY <1>4, Zenon
  <2>2. CASE p \in Schedulers
    <3>1. ScheduleInv'
      BY <1>1, <1>2, <1>4, <2>1, <2>2, InsertionKeepsTimes
    <3>2. \A q \in Schedulers : work'[q].from = work[q].from
      <4>1. work[p] \in Submitting(p)
        BY <1>1, JobFacts
      <4>2. [work[p] EXCEPT !.step = "finish"].from = work[p].from
        BY <4>1 DEF Submitting
      <4> QED
        BY <1>4, <4>2 DEF ProcsInv, Procs
    <3>3. \A q \in Schedulers : work'[q].step # "idle" => Busy(q)
      BY <1>1, <1>4 DEF ProcsInv, Procs, Busy
    <3>4. AgendaInv'
      BY <1>4, <3>2, <3>3, AgendaLeftAlone
    <3> QED
      BY <3>1, <3>4
  <2>3. CASE p \notin Schedulers
    <3>1. row.from[1] # "schedule"
      BY <1>1, <2>1, <2>3, OriginOfRun
    <3>2. \A r : r.from[1] = "schedule" => (r \in runs' <=> r \in runs)
      BY <2>1, <3>1
    <3>3. \A q \in Schedulers : work'[q] = work[q]
      BY <1>4, <2>3 DEF ProcsInv, Procs
    <3> QED
      BY <1>2, <1>4, <3>2, <3>3, StillSchedulers, NumbersOfSchedules
  <2> QED
    BY <2>2, <2>3
<1>5. \/ Raise(p) /\ UNCHANGED runs
      \/ /\ work' = [work EXCEPT ![p] = [work[p] EXCEPT !.step = "finish"]]
         /\ UNCHANGED agenda
         /\ \E row \in RunRow : row.from = OriginOf(p) /\ runs' = runs \cup {row}
  BY CreateRunSteps, Zenon
<1> QED
  BY <1>3, <1>4, <1>5

LEMMA ChangeKeepsSchedules ==
  ASSUME RowsInv, RowsInv', AgendaInv, ScheduleInv, NEW c \in Changes, Change(c)
  PROVE  AgendaInv' /\ ScheduleInv'
<1>1. /\ UNCHANGED <<runs, work, agenda, now, faults>>
      /\ PutTemplate(c) \/ PutSchedule(c) \/ SetScheduleStatus(c)
  BY Zenon DEF Change
<1>2. schedules \in [Schedules -> ScheduleRow] /\ now \in Nat
  BY DEF RowsInv
<1>3. /\ replaced \subseteq replaced'
      /\ \A s \in Schedules \ replaced' : schedules'[s].next_run_at = schedules[s].next_run_at
  <2>1. CASE PutTemplate(c)
    BY <2>1 DEF PutTemplate
  <2>2. CASE PutSchedule(c)
    BY <1>2, <2>2 DEF PutSchedule
  <2>3. CASE SetScheduleStatus(c)
    <3>1. replaced' = replaced /\ schedules' = [schedules EXCEPT ![c.schedule].status = c.status]
      BY <2>3, Zenon DEF SetScheduleStatus
    <3>2. ASSUME NEW s \in Schedules
          PROVE  schedules'[s].next_run_at = schedules[s].next_run_at
      <4>1. CASE s = c.schedule
        <5>1. schedules'[s] = [schedules[s] EXCEPT !.status = c.status]
          BY <1>2, <3>1, <4>1
        <5>2. schedules[s] \in ScheduleRow
          BY <1>2
        <5> QED
          BY <5>1, <5>2 DEF ScheduleRow
      <4>2. CASE s # c.schedule
        BY <1>2, <3>1, <4>2
      <4> QED
        BY <4>1, <4>2
    <3> QED
      BY <3>1, <3>2
  <2> QED
    BY <1>1, <2>1, <2>2, <2>3
<1> QED
  BY <1>1, <1>2, <1>3, StillSchedulers

LEMMA SchedulesAreKept ==
  ASSUME RowsInv, RowsInv', ProcsInv, AgendaInv, ScheduleInv, [SubmissionNext]_submissionVars
  PROVE  AgendaInv' /\ ScheduleInv'
<1>1. CASE \E payload \in Payloads : EnqueueSubmission(payload)
  <2>1. UNCHANGED <<runs, definitionVars, work, agenda, now, faults>>
    BY <1>1, Zenon DEF EnqueueSubmission
  <2> QED
    BY <2>1, StillSchedules, StillSchedulers
<1>2. CASE \E p \in Handlers, payload \in Requests : Request(p, payload)
  <2>1. PICK p \in Handlers, payload \in Requests : Request(p, payload)
    BY <1>2, Zenon
  <2>2. p \in Procs /\ p \notin Schedulers
    BY KindsOfProcs DEF Procs
  <2>3. PICK job : work' = [work EXCEPT ![p] = job]
    BY <2>1, RequestSteps, Zenon DEF Begins
  <2>4. UNCHANGED <<runs, definitionVars, agenda, now, faults>>
    BY <2>1, RequestSteps, Zenon
  <2> QED
    BY <2>2, <2>3, <2>4, OthersKeepSchedules
<1>3. CASE \E p \in Submitters : ReadSubmission(p)
  <2>1. PICK p \in Submitters : ReadSubmission(p)
    BY <1>3, Zenon
  <2>2. p \in Procs /\ p \notin Schedulers
    BY KindsOfProcs DEF Procs
  <2>3. PICK job : work' = [work EXCEPT ![p] = job]
    BY <2>1, DeliverSteps, Zenon DEF Begins
  <2>4. UNCHANGED <<runs, definitionVars, agenda, boundVars>>
    BY <2>1, DeliverSteps, Zenon
  <2>5. UNCHANGED <<runs, definitionVars, agenda, now, faults>>
    BY <2>4 DEF boundVars
  <2> QED
    BY <2>2, <2>3, <2>5, OthersKeepSchedules
<1>4. CASE \E q \in Schedulers : ReadDueSchedules(q) \/ SubmitNextDue(q)
  <2>1. PICK q \in Schedulers : ReadDueSchedules(q) \/ SubmitNextDue(q)
    BY <1>4, Zenon
  <2>2. PICK rows : TakesFirst(q, rows)
    BY <2>1, ScheduleSteps, Zenon
  <2>3. ~Busy(q) /\ UNCHANGED <<runs, definitionVars, boundVars>>
    BY <2>1, ScheduleSteps, Zenon
  <2>4. UNCHANGED <<runs, definitionVars, now, faults>>
    BY <2>3 DEF boundVars
  <2> QED
    BY <2>2, <2>3, <2>4, TakesFirstKeepsAgenda, TakesFirstKeepsTimes
<1>5. CASE \E p \in Procs : CreateRun(p)
  BY <1>5, CreateRunKeepsSchedules
<1>6. CASE \E p \in Submitters : Ack(p)
  <2>1. PICK p \in Submitters : Ack(p)
    BY <1>6, Zenon
  <2>2. p \in Procs /\ p \notin Schedulers
    BY KindsOfProcs DEF Procs
  <2>3. work' = [work EXCEPT ![p] = Nothing] /\ UNCHANGED <<runs, definitionVars, agenda, boundVars>>
    BY <2>1, AckSteps, Zenon
  <2>4. UNCHANGED <<runs, definitionVars, agenda, now, faults>>
    BY <2>3 DEF boundVars
  <2> QED
    BY <2>2, <2>3, <2>4, OthersKeepSchedules
<1>7. CASE \E q \in Schedulers : MarkScheduleSubmitted(q)
  <2>1. PICK q \in Schedulers : MarkScheduleSubmitted(q)
    BY <1>7, Zenon
  <2>2. ScheduleInv'
    BY <2>1, MarkKeepsTimes
  <2>3. work' = [work EXCEPT ![q] = Nothing] /\ UNCHANGED agenda
    BY <2>1, MarkSteps
  <2>4. \A o \in Schedulers : work'[o].step # "idle" => Busy(o) /\ work'[o].from = work[o].from
    BY <2>3 DEF ProcsInv, Procs, Busy, Nothing
  <2> QED
    BY <2>2, <2>3, <2>4, AgendaLeftAlone
<1>8. CASE \E p \in Handlers : Respond(p)
  <2>1. PICK p \in Handlers : Respond(p)
    BY <1>8, Zenon
  <2>2. p \in Procs /\ p \notin Schedulers
    BY KindsOfProcs DEF Procs
  <2>3. work' = [work EXCEPT ![p] = Nothing] /\ UNCHANGED <<runs, definitionVars, agenda, boundVars>>
    BY <2>1, RespondSteps, Zenon
  <2>4. UNCHANGED <<runs, definitionVars, agenda, now, faults>>
    BY <2>3 DEF boundVars
  <2> QED
    BY <2>2, <2>3, <2>4, OthersKeepSchedules
<1>9. CASE \E p \in Procs : Fault(p)
  <2>1. PICK p \in Procs : Fault(p)
    BY <1>9, Zenon
  <2>2. Raise(p) /\ faults' = faults + 1
    BY <2>1, FaultSteps
  <2>3. faults' # 0
    BY <2>2, NumbersOfSchedules
  <2> QED
    BY <2>2, <2>3, RaiseKeepsAgenda DEF ScheduleInv
<1>10. CASE \E c \in Changes : Change(c)
  BY <1>10, ChangeKeepsSchedules
<1>11. CASE Tick
  <2>1. now' = now + 1 /\ UNCHANGED <<runs, definitionVars, work, agenda, faults>>
    BY <1>11, Zenon DEF Tick
  <2>2. now <= now' /\ UNCHANGED <<schedules, replaced>>
    BY <2>1, NumbersOfSchedules DEF definitionVars
  <2> QED
    BY <2>1, <2>2, StillSchedulers
<1>12. CASE UNCHANGED submissionVars
  <2>1. UNCHANGED <<runs, definitionVars, work, agenda, now, faults>>
    BY <1>12 DEF submissionVars, definitionVars
  <2> QED
    BY <2>1, StillSchedules, StillSchedulers
<1> QED
  BY StepCases, <1>1, <1>2, <1>3, <1>4, <1>5, <1>6, <1>7, <1>8, <1>9, <1>10, <1>11, <1>12, Zenon

-----------------------------------------------------------------------------
(***************************************************************************)
(* The invariant, and what it says.                                        *)
(***************************************************************************)
LEMMA AtMostOne ==
  ASSUME NEW S, \A x, y \in S : x = y
  PROVE  Cardinality(S) <= 1
<1>1. CASE S = {}
  BY <1>1, FS_EmptySet
<1>2. CASE S # {}
  <2>1. PICK x \in S : TRUE
    BY <1>2
  <2>2. S = {x}
    BY <2>1
  <2>3. Cardinality({x}) = 1
    BY FS_Singleton, Zenon
  <2> QED
    BY <2>2, <2>3
<1> QED
  BY <1>1, <1>2

LEMMA SubmissionsBegin ==
  ASSUME SubmissionInit
  PROVE  SubInv
<1>1. RowsInv
  <2>1. IsFiniteSet({})
    BY FS_EmptySet
  <2>2. /\ MaxEvents \in Nat /\ MaxTime \in Nat
        /\ Templates0 \in [Templates -> Contents \cup {NoTemplate}]
        /\ Schedules0 \in [Schedules -> ScheduleRow]
    BY SubmissionAssumption, Zenon
  <2>3. stream \in Seq(Payloads) /\ Len(stream) = 0
    BY DEF SubmissionInit
  <2> QED
    BY <2>1, <2>2, <2>3 DEF SubmissionInit, RowsInv
<1>2. ProcsInv
  <2>1. \A p \in Procs : Nothing \in Jobs(p)
    BY DEF Jobs
  <2>2. work = [p \in Procs |-> Nothing] /\ agenda = [q \in Schedulers |-> <<>>]
    BY DEF SubmissionInit
  <2>3. work \in [Procs -> UNION {Jobs(p) : p \in Procs}] /\ \A p \in Procs : work[p] \in Jobs(p)
    BY <2>1, <2>2
  <2> QED
    BY <2>2, <2>3 DEF ProcsInv
<1>3. \A p \in Procs : ~Busy(p)
  BY DEF SubmissionInit, Busy, Nothing
<1>4. MessageInv
  BY <1>3 DEF SubmissionInit, MessageInv, Procs
<1>5. AgendaInv
  BY <1>3 DEF SubmissionInit, AgendaInv, Procs
<1>6. ScheduleInv
  BY DEF SubmissionInit, ScheduleInv, TimesInv, OneEach, SubmittedAt
<1> QED
  BY <1>1, <1>2, <1>4, <1>5, <1>6 DEF SubInv

LEMMA SubmissionInvariance == SubmissionSpec => []SubInv
<1>1. SubInv /\ [SubmissionNext]_submissionVars => SubInv'
  BY TypesAreKept, MessagesAreKept, SchedulesAreKept DEF SubInv
<1> QED
  BY <1>1, SubmissionsBegin, PTL DEF SubmissionSpec

\* Every variable has its type: no process holds something of another kind, and
\* only a consumer of messages rejects.
THEOREM SubmissionTypes == SubmissionSpec => []SubmissionTypeOK
<1>1. SubInv => SubmissionTypeOK
  <2> SUFFICES ASSUME SubInv
               PROVE  SubmissionTypeOK
    OBVIOUS
  <2>1. RowsInv /\ ProcsInv
    BY DEF SubInv
  <2>2. \A p \in Procs : work[p].step \in {"idle", "create", "reject", "finish"}
    BY <2>1, JobFacts
  <2>3. \A p \in Procs \ Submitters : work[p].step # "reject"
    BY <2>1, JobFacts
  <2>4. \A r \in runs : r.run_id \in RunIds \cup {NoId} /\ r.plan \in Plans
    BY <2>1 DEF RowsInv, RunRow, Ids, Valid
  <2>5. agenda \in [Schedulers -> Seq([schedule : Schedules, template : Templates])]
    BY <2>1 DEF ProcsInv, DueRow
  <2>6. rejected \subseteq 1..delivered
    BY <2>1 DEF RowsInv
  <2> QED
    BY <2>1, <2>2, <2>3, <2>4, <2>5, <2>6 DEF RowsInv, SubmissionTypeOK
<1> QED
  BY <1>1, SubmissionInvariance, PTL

\* Whatever is submitted, by message, schedule or request: a run that exists can
\* finish, because submit_plan validates every plan and the validation is right.
THEOREM AcceptedRunsCanFinish == SubmissionSpec => []RunsCanFinish
<1>1. ASSUME NEW plan \in Valid
      PROVE  plan \in Finishable
  <2>1. plan \in Plans /\ ValidPlan(AgentsOf[plan])
    BY DEF Valid
  <2>2. AgentsOf[plan] \in Seq([name : STRING, depends_on : SUBSET STRING])
    BY <2>1, SubmissionAssumption
  <2>3. PICK k \in Nat : DOMAIN AgentsOf[plan] = 1..k
    BY <2>2, LenProperties
  <2>4. CanFinish(AgentsOf[plan])
    BY <2>1, <2>3, ValidPlansCanFinish
  <2> QED
    BY <2>1, <2>4 DEF Finishable
<1>2. SubInv => RunsCanFinish
  BY <1>1 DEF SubInv, RowsInv, RunRow, RunsCanFinish
<1> QED
  BY <1>2, SubmissionInvariance, PTL

\* A message gives one run at most, and when it is acknowledged it has given one
\* or was rejected: read_submission hands it to one consumer, once.
THEOREM MessagesGiveOneRun == SubmissionSpec => []MessagesAreDecidedOnce
<1>1. SubInv => MessagesAreDecidedOnce
  <2> SUFFICES ASSUME SubInv, NEW i \in 1..delivered
               PROVE  /\ Cardinality(From(<<"message", i>>)) <= 1
                      /\ i \in acked => (i \in rejected <=> From(<<"message", i>>) = {})
    BY DEF MessagesAreDecidedOnce
  <2> DEFINE S == From(<<"message", i>>)
  <2>1. \A r \in S : r \in runs /\ r.from = <<"message", i>> /\ r.from[1] = "message"
    BY DEF From
  <2>2. \A r1, r2 \in S : r1 = r2
    BY <2>1 DEF SubInv, MessageInv
  <2>3. S = {} <=> ~ \E r \in runs : r.from = <<"message", i>>
    BY DEF From
  <2>4. i \in acked => (i \in rejected <=> S = {})
    BY <2>3, Zenon DEF SubInv, MessageInv
  <2> HIDE DEF S
  <2>5. Cardinality(S) <= 1
    BY <2>2, AtMostOne, Zenon
  <2> QED
    BY <2>4, <2>5 DEF S
<1> QED
  BY <1>1, SubmissionInvariance, PTL

\* A scheduler submits a schedule once in an interval, and late runs do not pile
\* up: mark_schedule_submitted counts the next time from now.
THEOREM SchedulesKeepTheirInterval == SubmissionSpec => []ScheduleKeepsItsInterval
<1>1. SubInv => ScheduleKeepsItsInterval
  <2> SUFFICES ASSUME SubInv, NEW s \in Schedules \ replaced, NEW q \in Schedulers,
                      NEW i \in 0..MaxTime, NEW j \in 0..MaxTime, ~(faults > 0)
               PROVE  /\ i < j /\ j - i < Interval[s] /\ From(<<"schedule", s, q, i>>) # {}
                           => From(<<"schedule", s, q, j>>) = {}
                      /\ Cardinality(From(<<"schedule", s, q, i>>)) <= 1
    BY Zenon DEF ScheduleKeepsItsInterval
  <2>1. TimesInv /\ OneEach
    <3>1. faults \in Nat
      BY NumbersOfSchedules DEF SubInv
    <3> QED
      BY <3>1 DEF SubInv, ScheduleInv
  <2>2. i \in Nat /\ j \in Nat /\ Interval[s] \in Nat
    <3>1. RowsInv
      BY DEF SubInv
    <3>2. Interval[s] \in Nat
      BY <3>1, NumbersOfSchedules, Zenon
    <3>3. MaxTime \in Nat
      BY SubmissionAssumption, Zenon
    <3> QED
      BY <3>2, <3>3
  <2>3. ASSUME i < j, j - i < Interval[s], From(<<"schedule", s, q, i>>) # {},
               From(<<"schedule", s, q, j>>) # {}
        PROVE  FALSE
    <3>1. i \in SubmittedAt(q, s) /\ j \in SubmittedAt(q, s)
      BY <2>2, <2>3 DEF SubmittedAt, From
    <3>2. i + Interval[s] <= j
      BY <2>1, <2>3, <3>1, Zenon DEF TimesInv
    <3> QED
      BY <2>2, <2>3, <3>2
  <2> DEFINE S == From(<<"schedule", s, q, i>>)
  <2>4. \A r \in S : r \in runs /\ r.from = <<"schedule", s, q, i>>
    BY DEF From
  <2>5. <<"schedule", s, q, i>>[1] = "schedule" /\ <<"schedule", s, q, i>>[2] = s
    OBVIOUS
  <2>6. \A r1, r2 \in S : r1 = r2
    BY <2>1, <2>4, <2>5, Zenon DEF OneEach
  <2> HIDE DEF S
  <2>7. Cardinality(S) <= 1
    BY <2>6, AtMostOne, Zenon
  <2> QED
    BY <2>3, <2>7, Zenon DEF S
<1> QED
  BY <1>1, SubmissionInvariance, PTL
=============================================================================
