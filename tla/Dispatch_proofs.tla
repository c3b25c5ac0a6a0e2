--------------------------- MODULE Dispatch_proofs ---------------------------
(***************************************************************************)
(* What is true of the dispatch of agents for any plan and any number of   *)
(* processes: its processes do to the rows only what RunState allows, so   *)
(* that its theorems hold here; and, without a concurrency limit and as    *)
(* long as nothing fails or crashes, each agent that is queued has a       *)
(* wakeup of its own.                                                      *)
(*                                                                         *)
(* The invariant ties what a process holds to the step it is at; on it     *)
(* rests the one about wakeups (QueuedAgentHasAWakeup).                    *)
(***************************************************************************)
EXTENDS Dispatch, RunVerdict_proofs

\* The steps at which a process has agents to publish, and those to which it
\* goes on when it has published them.
PublishSteps == {"publish", "send", "mark", "refresh", "expiring", "promote"}
ThenSteps == {"drain", "relay", "expire", "read", "again", "ready", "done"}

DInv ==
  /\ DispatchTypeOK
  /\ then \in [Procs -> ThenSteps]
  /\ \A p \in Procs : todo[p] # {} => at[p] \in PublishSteps
  /\ \A p \in Procs : \A r, q \in row[p] : r = q

-----------------------------------------------------------------------------
(***************************************************************************)
(* Processes.                                                              *)
(***************************************************************************)
LEMMA Homes ==
  ASSUME NEW p
  PROVE  Home(p) \in ThenSteps \cap Steps
  BY DEF Home, ThenSteps, Steps

LEMMA StepKindsDiffer ==
  /\ ThenSteps \subseteq Steps /\ PublishSteps \subseteq Steps
  /\ ThenSteps \cap PublishSteps = {}
  /\ \A s \in ThenSteps : s \notin {"send", "mark", "claim", "exec"}
  BY DEF ThenSteps, PublishSteps, Steps

LEMMA GoToShape ==
  ASSUME DInv, NEW p \in Procs, NEW s \in Steps, GoTo(p, s)
  PROVE  /\ at' \in [Procs -> Steps] /\ then' \in [Procs -> ThenSteps]
         /\ at'[p] = s
         /\ \A q \in Procs \ {p} : at'[q] = at[q]
  BY Homes DEF DInv, DispatchTypeOK, GoTo

LEMMA PublishShape ==
  ASSUME DInv, NEW p \in Procs, NEW A \in SUBSET Agents, NEW refresh \in BOOLEAN,
         NEW s \in ThenSteps, Publish(p, A, refresh, s)
  PROVE  /\ at' \in [Procs -> Steps] /\ then' \in [Procs -> ThenSteps]
         /\ todo' \in [Procs -> SUBSET Agents]
         /\ at'[p] \in {"refresh", "publish", s}
         /\ A # {} => at'[p] \in {"refresh", "publish"}
         /\ todo'[p] = A
         /\ \A q \in Procs \ {p} : at'[q] = at[q] /\ todo'[q] = todo[q]
<1> DEFINE first == IF refresh THEN "refresh" ELSE IF A # {} THEN "publish" ELSE s
           after == IF first = s THEN Home(p) ELSE s
<1>1. /\ todo' = [todo EXCEPT ![p] = A]
      /\ at' = [at EXCEPT ![p] = first]
      /\ then' = [then EXCEPT ![p] = after]
  BY DEF Publish
<1>2. first \in Steps /\ first \in {"refresh", "publish", s}
      /\ (A # {} => first \in {"refresh", "publish"})
  BY StepKindsDiffer DEF Steps
<1>3. after \in ThenSteps
  BY Homes
<1> HIDE DEF first, after
<1> QED
  BY <1>1, <1>2, <1>3 DEF DInv, DispatchTypeOK

\* A step of p that keeps the types and leaves the other processes alone.
LEMMA DInvAfterStep ==
  ASSUME DInv, NEW p \in Procs,
         stream' \in Seq(Agents), outbox' \subseteq RowSet,
         at' \in [Procs -> Steps], then' \in [Procs -> ThenSteps],
         todo' \in [Procs -> SUBSET Agents],
         batch' \in [Procs -> SUBSET RowSet], row' \in [Procs -> SUBSET RowSet],
         job' \in [Workers -> Agents \cup {NoAgent}],
         published' \in [Operators -> SUBSET Agents],
         failures' \in 0..MaxFailures, crashes' \in 0..MaxCrashes,
         \A q \in Procs \ {p} : at'[q] = at[q] /\ todo'[q] = todo[q] /\ row'[q] = row[q],
         \A w \in Workers \ {p} : job'[w] = job[w],
         row'[p] # {} <=> at'[p] \in {"send", "mark"},
         p \in Workers => (job'[p] # NoAgent <=> at'[p] \in {"claim", "exec"}),
         todo'[p] # {} => at'[p] \in PublishSteps,
         \A r, q \in row'[p] : r = q
  PROVE  DInv'
<1>1. \A q \in Procs : row'[q] # {} <=> at'[q] \in {"send", "mark"}
  BY DEF DInv, DispatchTypeOK
<1>2. \A w \in Workers : job'[w] # NoAgent <=> at'[w] \in {"claim", "exec"}
  BY DEF DInv, DispatchTypeOK, Procs
<1>3. then' \in [Procs -> Steps]
  BY StepKindsDiffer
<1>4. DispatchTypeOK'
  BY <1>1, <1>2, <1>3 DEF DispatchTypeOK
<1>5. \A q \in Procs : todo'[q] # {} => at'[q] \in PublishSteps
  BY DEF DInv
<1>6. \A q \in Procs : \A x, y \in row'[q] : x = y
  BY DEF DInv
<1> QED
  BY <1>4, <1>5, <1>6 DEF DInv

\* What p holds when it is at a step.
LEMMA HeldAt ==
  ASSUME DInv, NEW p \in Procs
  PROVE  /\ at[p] \notin PublishSteps => todo[p] = {}
         /\ at[p] \notin {"send", "mark"} => row[p] = {}
         /\ p \in Workers /\ at[p] \notin {"claim", "exec"} => job[p] = NoAgent
         /\ then[p] \in ThenSteps
         /\ p \in Workers /\ at[p] \in {"claim", "exec"} => job[p] \in Agents
  BY DEF DInv, DispatchTypeOK

\* A step of p that only goes on, perhaps with agents to publish.
Settled(p) ==
  /\ at' \in [Procs -> Steps] /\ then' \in [Procs -> ThenSteps]
  /\ todo' \in [Procs -> SUBSET Agents]
  /\ \A q \in Procs \ {p} : at'[q] = at[q] /\ todo'[q] = todo[q]
  /\ todo'[p] # {} => at'[p] \in PublishSteps

LEMMA SettledByGoTo ==
  ASSUME DInv, NEW p \in Procs, NEW s \in Steps, GoTo(p, s), UNCHANGED todo,
         at[p] \notin PublishSteps \/ s \in PublishSteps \/ todo[p] = {}
  PROVE  Settled(p) /\ at'[p] = s
  BY GoToShape, HeldAt DEF Settled, DInv, DispatchTypeOK

LEMMA SettledByPublish ==
  ASSUME DInv, NEW p \in Procs, NEW A \in SUBSET Agents, NEW refresh \in BOOLEAN,
         NEW s \in ThenSteps, Publish(p, A, refresh, s)
  PROVE  Settled(p) /\ at'[p] \in {"refresh", "publish"} \cup ThenSteps /\ todo'[p] = A
<1>1. /\ at' \in [Procs -> Steps] /\ then' \in [Procs -> ThenSteps]
      /\ todo' \in [Procs -> SUBSET Agents]
      /\ at'[p] \in {"refresh", "publish", s}
      /\ A # {} => at'[p] \in {"refresh", "publish"}
      /\ todo'[p] = A
      /\ \A q \in Procs \ {p} : at'[q] = at[q] /\ todo'[q] = todo[q]
  BY PublishShape
<1>2. todo'[p] # {} => at'[p] \in PublishSteps
  BY <1>1 DEF PublishSteps
<1>3. Settled(p)
  BY <1>1, <1>2 DEF Settled
<1> QED
  BY <1>1, <1>3

LEMMA DInvAfterSettled ==
  ASSUME DInv, NEW p \in Procs, Settled(p),
         at[p] \notin {"send", "mark"}, at'[p] \notin {"send", "mark"},
         UNCHANGED row, batch' \in [Procs -> SUBSET RowSet],
         stream' \in Seq(Agents), outbox' \subseteq RowSet,
         published' \in [Operators -> SUBSET Agents],
         failures' \in 0..MaxFailures, crashes' \in 0..MaxCrashes,
         job' \in [Workers -> Agents \cup {NoAgent}],
         \A w \in Workers \ {p} : job'[w] = job[w],
         p \in Workers => (job'[p] # NoAgent <=> at'[p] \in {"claim", "exec"})
  PROVE  DInv'
<1>1. row' \in [Procs -> SUBSET RowSet] /\ row'[p] = {}
  BY HeldAt DEF DInv, DispatchTypeOK
<1>2. \A q \in Procs \ {p} : at'[q] = at[q] /\ todo'[q] = todo[q] /\ row'[q] = row[q]
  BY DEF Settled
<1> QED
  BY <1>1, <1>2, DInvAfterStep DEF Settled

-----------------------------------------------------------------------------
(***************************************************************************)
(* Each step keeps the invariant.                                          *)
(***************************************************************************)
LEMMA QueueTypes ==
  ASSUME DInv
  PROVE  /\ stream \in Seq(Agents) /\ outbox \subseteq RowSet
         /\ at \in [Procs -> Steps] /\ then \in [Procs -> ThenSteps]
         /\ todo \in [Procs -> SUBSET Agents]
         /\ batch \in [Procs -> SUBSET RowSet]
         /\ row \in [Procs -> SUBSET RowSet]
         /\ job \in [Workers -> Agents \cup {NoAgent}]
         /\ published \in [Operators -> SUBSET Agents]
         /\ failures \in 0..MaxFailures /\ crashes \in 0..MaxCrashes
  BY DEF DInv, DispatchTypeOK

LEMMA ForgottenType ==
  ASSUME DInv, NEW p, ForgetPublished(p)
  PROVE  published' \in [Operators -> SUBSET Agents]
  BY QueueTypes DEF ForgetPublished

LEMMA PublishReadyAgentsKeeps ==
  ASSUME DInv, NEW p \in Procs, PublishReadyAgents(p)
  PROVE  DInv'
<1> DEFINE A == {a \in ReadyAgents(status) : p \in Operators => a \notin published[p]}
<1>1. /\ at[p] = "ready" /\ Publish(p, A, FALSE, Home(p)) /\ ForgetPublished(p)
      /\ UNCHANGED <<queueVars, batch, row, job, faultVars>>
  BY DEF PublishReadyAgents
<1>2. A \in SUBSET Agents /\ Home(p) \in ThenSteps
  BY Homes DEF ReadyAgents, Rows
<1> HIDE DEF A
<1>3. Settled(p) /\ at'[p] \in {"refresh", "publish"} \cup ThenSteps
  BY <1>1, <1>2, SettledByPublish
<1>4. at'[p] \notin {"send", "mark", "claim", "exec"}
  BY <1>3, StepKindsDiffer
<1> QED
  BY <1>1, <1>3, <1>4, QueueTypes, ForgottenType, HeldAt, DInvAfterSettled
  DEF queueVars, faultVars

LEMMA RecordQueueOutboxKeeps ==
  ASSUME DInv, NEW p \in Procs, RecordQueueOutbox(p)
  PROVE  DInv'
<1>1. PICK a \in todo[p], n \in (1..MaxRows) \ InUse :
        /\ outbox' = outbox \cup {[id |-> n, agent |-> a]}
        /\ row' = [row EXCEPT ![p] = {[id |-> n, agent |-> a]}]
        /\ todo' = [todo EXCEPT ![p] = @ \ {a}]
  BY DEF RecordQueueOutbox
<1>2. /\ at[p] = "publish" /\ at' = [at EXCEPT ![p] = "send"]
      /\ UNCHANGED <<stream, then, batch, job, published, faultVars>>
  BY DEF RecordQueueOutbox
<1>3. [id |-> n, agent |-> a] \in RowSet
  BY QueueTypes DEF RowSet
<1>4. /\ outbox' \subseteq RowSet
      /\ row' \in [Procs -> SUBSET RowSet] /\ row'[p] = {[id |-> n, agent |-> a]}
      /\ todo' \in [Procs -> SUBSET Agents]
      /\ \A q \in Procs \ {p} : todo'[q] = todo[q] /\ row'[q] = row[q]
  BY <1>1, <1>3, QueueTypes
<1>5. /\ at' \in [Procs -> Steps] /\ at'[p] = "send"
      /\ \A q \in Procs \ {p} : at'[q] = at[q]
  BY <1>2, QueueTypes DEF Steps
<1>6. p \in Workers => (job'[p] # NoAgent <=> at'[p] \in {"claim", "exec"})
  BY <1>2, <1>5, HeldAt
<1> QED
  BY <1>2, <1>4, <1>5, <1>6, QueueTypes, DInvAfterStep DEF PublishSteps, faultVars

LEMMA EnqueueAgentKeeps ==
  ASSUME DInv, NEW p \in Procs, EnqueueAgent(p)
  PROVE  DInv'
<1>1. /\ at[p] = "send" /\ at' = [at EXCEPT ![p] = "mark"]
      /\ UNCHANGED <<outbox, then, todo, batch, row, job, published, faultVars>>
  BY DEF EnqueueAgent
<1>2. PICK r \in row[p] : stream' = Append(stream, r.agent)
  BY DEF EnqueueAgent
<1>3. stream' \in Seq(Agents)
  <2>1. r.agent \in Agents
    BY QueueTypes DEF RowSet
  <2> QED
    BY <1>2, <2>1, QueueTypes, AppendProperties
<1>4. /\ at' \in [Procs -> Steps] /\ at'[p] = "mark"
      /\ \A q \in Procs \ {p} : at'[q] = at[q]
  BY <1>1, QueueTypes DEF Steps
<1>5. p \in Workers => (job'[p] # NoAgent <=> at'[p] \in {"claim", "exec"})
  BY <1>1, <1>4, HeldAt
<1>6. row'[p] # {} /\ \A x, y \in row'[p] : x = y
  BY <1>1, <1>2 DEF DInv
<1> QED
  BY <1>1, <1>3, <1>4, <1>5, <1>6, QueueTypes, DInvAfterStep DEF PublishSteps, faultVars

LEMMA MarkOutboxPublishedKeeps ==
  ASSUME DInv, NEW p \in Procs, MarkOutboxPublished(p)
  PROVE  DInv'
<1>1. /\ at[p] = "mark" /\ outbox' = outbox \ row[p]
      /\ row' = [row EXCEPT ![p] = {}]
      /\ UNCHANGED <<stream, todo, batch, job, published, faultVars>>
  BY DEF MarkOutboxPublished
<1>2. \/ todo[p] # {} /\ at' = [at EXCEPT ![p] = "publish"] /\ UNCHANGED then
      \/ todo[p] = {} /\ GoTo(p, then[p])
  BY DEF MarkOutboxPublished
<1>3. /\ at' \in [Procs -> Steps] /\ then' \in [Procs -> ThenSteps]
      /\ \A q \in Procs \ {p} : at'[q] = at[q]
      /\ at'[p] \in {"publish"} \cup ThenSteps
      /\ todo[p] # {} => at'[p] = "publish"
  <2>1. CASE todo[p] # {} /\ at' = [at EXCEPT ![p] = "publish"] /\ UNCHANGED then
    BY <2>1, QueueTypes DEF Steps
  <2>2. CASE todo[p] = {} /\ GoTo(p, then[p])
    <3>1. then[p] \in ThenSteps /\ then[p] \in Steps
      BY QueueTypes, StepKindsDiffer
    <3> QED
      BY <2>2, <3>1, GoToShape
  <2> QED
    BY <1>2, <2>1, <2>2
<1>4. at'[p] \notin {"send", "mark", "claim", "exec"}
  BY <1>3, StepKindsDiffer
<1>5. /\ row' \in [Procs -> SUBSET RowSet] /\ row'[p] = {}
      /\ \A q \in Procs \ {p} : row'[q] = row[q]
  BY <1>1, QueueTypes
<1>6. p \in Workers => (job'[p] # NoAgent <=> at'[p] \in {"claim", "exec"})
  BY <1>1, <1>4, HeldAt
<1>7. todo'[p] # {} => at'[p] \in PublishSteps
  BY <1>1, <1>3 DEF PublishSteps
<1> QED
  BY <1>1, <1>3, <1>4, <1>5, <1>6, <1>7, QueueTypes, DInvAfterStep DEF faultVars

LEMMA EnqueueFailsKeeps ==
  ASSUME DInv, NEW p \in Procs, EnqueueFails(p)
  PROVE  DInv'
<1> DEFINE s == IF then[p] = "relay" THEN "relay" ELSE Home(p)
<1>1. /\ at[p] = "send" /\ failures < MaxFailures /\ failures' = failures + 1
      /\ row' = [row EXCEPT ![p] = {}] /\ todo' = [todo EXCEPT ![p] = {}]
      /\ GoTo(p, s) /\ ForgetPublished(p)
      /\ UNCHANGED <<queueVars, batch, job, crashes>>
  BY DEF EnqueueFails
<1>2. s \in ThenSteps
  BY Homes DEF ThenSteps
<1> HIDE DEF s
<1>3. /\ at' \in [Procs -> Steps] /\ then' \in [Procs -> ThenSteps] /\ at'[p] = s
      /\ \A q \in Procs \ {p} : at'[q] = at[q]
  BY <1>1, <1>2, GoToShape, StepKindsDiffer
<1>4. at'[p] \notin {"send", "mark", "claim", "exec"}
  BY <1>2, <1>3, StepKindsDiffer
<1>5. /\ row' \in [Procs -> SUBSET RowSet] /\ row'[p] = {}
      /\ todo' \in [Procs -> SUBSET Agents] /\ todo'[p] = {}
      /\ \A q \in Procs \ {p} : row'[q] = row[q] /\ todo'[q] = todo[q]
  BY <1>1, QueueTypes
<1>6. p \in Workers => (job'[p] # NoAgent <=> at'[p] \in {"claim", "exec"})
  BY <1>1, <1>4, HeldAt
<1>7. failures' \in 0..MaxFailures
  BY <1>1, QueueTypes, DispatchAssumption
<1> QED
  BY <1>1, <1>3, <1>4, <1>5, <1>6, <1>7, QueueTypes, ForgottenType, DInvAfterStep
  DEF queueVars

LEMMA RefreshKeeps ==
  ASSUME DInv, NEW p \in Procs, Refresh(p)
  PROVE  DInv'
<1>1. /\ at[p] = "refresh"
      /\ UNCHANGED <<queueVars, todo, batch, row, job, published, faultVars>>
  BY DEF Refresh
<1>2. \/ todo[p] # {} /\ at' = [at EXCEPT ![p] = "publish"] /\ UNCHANGED then
      \/ todo[p] = {} /\ GoTo(p, then[p])
  BY DEF Refresh
<1>3. Settled(p) /\ at'[p] \in {"publish"} \cup ThenSteps
  <2>1. CASE todo[p] # {} /\ at' = [at EXCEPT ![p] = "publish"] /\ UNCHANGED then
    BY <1>1, <2>1, QueueTypes DEF Settled, Steps, PublishSteps
  <2>2. CASE todo[p] = {} /\ GoTo(p, then[p])
    <3>1. then[p] \in ThenSteps /\ then[p] \in Steps
      BY QueueTypes, StepKindsDiffer
    <3> QED
      BY <1>1, <2>2, <3>1, SettledByGoTo
  <2> QED
    BY <1>2, <2>1, <2>2
<1>4. at'[p] \notin {"send", "mark", "claim", "exec"}
  BY <1>3, StepKindsDiffer
<1> QED
  BY <1>1, <1>3, <1>4, QueueTypes, HeldAt, DInvAfterSettled DEF queueVars, faultVars

LEMMA DrainQueueOutboxKeeps ==
  ASSUME DInv, NEW w \in Workers, DrainQueueOutbox(w)
  PROVE  DInv'
<1>1. /\ at[w] = "drain" /\ batch' = [batch EXCEPT ![w] = outbox] /\ GoTo(w, "relay")
      /\ UNCHANGED <<queueVars, todo, row, job, published, faultVars>>
      /\ w \in Procs
  BY DEF DrainQueueOutbox, Procs
<1>2. Settled(w) /\ at'[w] = "relay"
  BY <1>1, SettledByGoTo DEF PublishSteps, Steps
<1>3. batch' \in [Procs -> SUBSET RowSet]
  BY <1>1, QueueTypes
<1> QED
  BY <1>1, <1>2, <1>3, QueueTypes, HeldAt, DInvAfterSettled DEF queueVars, faultVars

LEMMA RelayRowKeeps ==
  ASSUME DInv, NEW w \in Workers, RelayRow(w)
  PROVE  DInv'
<1>1. /\ at[w] = "relay" /\ w \in Procs
      /\ UNCHANGED <<queueVars, todo, job, published, faultVars>>
  BY DEF RelayRow, Procs
<1>2. CASE GoTo(w, "expire") /\ UNCHANGED <<batch, row>>
  <2>1. Settled(w) /\ at'[w] = "expire"
    BY <1>1, <1>2, SettledByGoTo DEF PublishSteps, Steps
  <2> QED
    BY <1>1, <1>2, <2>1, QueueTypes, HeldAt, DInvAfterSettled DEF queueVars, faultVars
<1>3. ASSUME NEW r \in batch[w],
             batch' = [batch EXCEPT ![w] = @ \ {r}],
             row' = [row EXCEPT ![w] = {r}],
             at' = [at EXCEPT ![w] = "send"], then' = [then EXCEPT ![w] = "relay"]
      PROVE  DInv'
  <2>1. /\ row' \in [Procs -> SUBSET RowSet] /\ row'[w] = {r}
        /\ batch' \in [Procs -> SUBSET RowSet]
        /\ \A q \in Procs \ {w} : row'[q] = row[q]
    BY <1>1, <1>3, QueueTypes
  <2>2. /\ at' \in [Procs -> Steps] /\ at'[w] = "send"
        /\ then' \in [Procs -> ThenSteps]
        /\ \A q \in Procs \ {w} : at'[q] = at[q]
    BY <1>1, <1>3, QueueTypes DEF Steps, ThenSteps
  <2>3. todo' \in [Procs -> SUBSET Agents] /\ todo'[w] = {}
    BY <1>1, QueueTypes, HeldAt DEF PublishSteps
  <2>4. job'[w] = NoAgent
    BY <1>1, HeldAt
  <2> QED
    BY <1>1, <2>1, <2>2, <2>3, <2>4, QueueTypes, DInvAfterStep DEF queueVars, faultVars
<1> QED
  BY <1>2, <1>3 DEF RelayRow

LEMMA ExpireLeasesKeeps ==
  ASSUME DInv, NEW p \in Procs, ExpireLeases(p)
  PROVE  DInv'
<1>1. /\ at[p] = "expire"
      /\ GoTo(p, "expiring") \/ GoTo(p, AfterExpiry(p))
      /\ UNCHANGED <<queueVars, todo, batch, row, job, published, faultVars>>
  BY DEF ExpireLeases
<1>2. AfterExpiry(p) \in {"read", "ready"}
  BY DEF AfterExpiry
<1>3. Settled(p) /\ at'[p] \in {"expiring", "read", "ready"}
  BY <1>1, <1>2, SettledByGoTo DEF PublishSteps, Steps
<1>4. p \in Workers => job[p] = NoAgent
  BY <1>1, HeldAt
<1> QED
  BY <1>1, <1>3, <1>4, QueueTypes, DInvAfterSettled DEF queueVars, faultVars

LEMMA ExpireNextKeeps ==
  ASSUME DInv, NEW p \in Procs, ExpireNext(p)
  PROVE  DInv'
<1>1. /\ at[p] = "expiring"
      /\ published' = [o \in Operators |-> IF o = p THEN todo'[p] ELSE published[o]]
      /\ UNCHANGED <<queueVars, batch, row, job, faultVars>>
  BY DEF ExpireNext
<1>2. todo[p] \cup NewlyQueued \in SUBSET Agents
  BY QueueTypes DEF NewlyQueued
<1>3. AfterExpiry(p) \in ThenSteps
  BY DEF AfterExpiry, ThenSteps
<1>4. Settled(p) /\ at'[p] \in {"refresh", "publish", "expiring"} \cup ThenSteps
  <2>1. CASE Publish(p, todo[p] \cup NewlyQueued, TRUE, AfterExpiry(p))
    BY <1>2, <1>3, <2>1, SettledByPublish
  <2>2. CASE /\ todo' = [todo EXCEPT ![p] = @ \cup NewlyQueued]
             /\ UNCHANGED <<at, then>>
    <3>1. /\ todo' \in [Procs -> SUBSET Agents]
          /\ \A q \in Procs \ {p} : todo'[q] = todo[q]
      BY <1>2, <2>2, QueueTypes
    <3> QED
      BY <1>1, <2>2, <3>1, QueueTypes DEF Settled, PublishSteps
  <2> QED
    BY <2>1, <2>2 DEF ExpireNext
<1>5. published' \in [Operators -> SUBSET Agents]
  <2>1. todo'[p] \in SUBSET Agents
    BY <1>4 DEF Settled
  <2> QED
    BY <1>1, <2>1, QueueTypes
<1>6. at'[p] \notin {"send", "mark", "claim", "exec"}
  BY <1>4, StepKindsDiffer
<1>7. p \in Workers => job[p] = NoAgent
  BY <1>1, HeldAt
<1> QED
  BY <1>1, <1>4, <1>5, <1>6, <1>7, QueueTypes, DInvAfterSettled DEF queueVars, faultVars

LEMMA ReadAgentKeeps ==
  ASSUME DInv, NEW w \in Workers, ReadAgent(w)
  PROVE  DInv'
<1>1. /\ at[w] = "read" /\ w \in Procs /\ job[w] = NoAgent
      /\ UNCHANGED <<outbox, todo, batch, row, published, faultVars>>
  BY HeldAt DEF ReadAgent, Procs
<1>2. CASE GoTo(w, "drain") /\ UNCHANGED <<stream, job>>
  <2>1. Settled(w) /\ at'[w] = "drain"
    BY <1>1, <1>2, SettledByGoTo DEF PublishSteps, Steps
  <2> QED
    BY <1>1, <1>2, <2>1, QueueTypes, DInvAfterSettled DEF faultVars
<1>3. CASE /\ stream # <<>> /\ job' = [job EXCEPT ![w] = Head(stream)]
           /\ stream' = Tail(stream) /\ GoTo(w, "claim")
  <2>1. Settled(w) /\ at'[w] = "claim"
    BY <1>1, <1>3, SettledByGoTo DEF PublishSteps, Steps
  <2>2. Head(stream) \in Agents /\ stream' \in Seq(Agents)
    BY <1>3, QueueTypes, HeadTailProperties
  <2>3. /\ job' \in [Workers -> Agents \cup {NoAgent}] /\ job'[w] # NoAgent
        /\ \A v \in Workers \ {w} : job'[v] = job[v]
    BY <1>3, <2>2, QueueTypes, DispatchAssumption
  <2> QED
    BY <1>1, <2>1, <2>2, <2>3, QueueTypes, DInvAfterSettled DEF faultVars
<1> QED
  BY <1>2, <1>3 DEF ReadAgent

LEMMA ClaimNextAgentKeeps ==
  ASSUME DInv, NEW w \in Workers, ClaimNextAgent(w)
  PROVE  DInv'
<1>1. /\ at[w] = "claim" /\ w \in Procs /\ job[w] \in Agents
      /\ UNCHANGED <<queueVars, todo, batch, row, published, faultVars>>
  BY HeldAt DEF ClaimNextAgent, Procs
<1>2. CASE GoTo(w, "exec") /\ UNCHANGED job
  <2>1. Settled(w) /\ at'[w] = "exec"
    BY <1>1, <1>2, SettledByGoTo DEF PublishSteps, Steps
  <2>2. job[w] # NoAgent
    BY <1>1, DispatchAssumption
  <2> QED
    BY <1>1, <1>2, <2>1, <2>2, QueueTypes, DInvAfterSettled DEF queueVars, faultVars
<1>3. CASE GoTo(w, "drain") /\ job' = [job EXCEPT ![w] = NoAgent]
  <2>1. Settled(w) /\ at'[w] = "drain"
    BY <1>1, <1>3, SettledByGoTo DEF PublishSteps, Steps
  <2>2. /\ job' \in [Workers -> Agents \cup {NoAgent}] /\ job'[w] = NoAgent
        /\ \A v \in Workers \ {w} : job'[v] = job[v]
    BY <1>3, QueueTypes
  <2> QED
    BY <1>1, <2>1, <2>2, QueueTypes, DInvAfterSettled DEF queueVars, faultVars
<1> QED
  BY <1>2, <1>3 DEF ClaimNextAgent

\* The step after an execution: w lets go of its job.
LEMMA ExecutedKeeps ==
  ASSUME DInv, NEW w \in Workers, Executed(w), Settled(w),
         at'[w] \in {"refresh", "publish"} \cup ThenSteps,
         UNCHANGED <<failures, crashes>>
  PROVE  DInv'
<1>1. /\ at[w] = "exec" /\ w \in Procs /\ job' = [job EXCEPT ![w] = NoAgent]
      /\ UNCHANGED <<queueVars, batch, row, published>>
  BY DEF Executed, Procs
<1>2. /\ job' \in [Workers -> Agents \cup {NoAgent}] /\ job'[w] = NoAgent
      /\ \A v \in Workers \ {w} : job'[v] = job[v]
  BY <1>1, QueueTypes
<1>3. at'[w] \notin {"send", "mark", "claim", "exec"}
  BY StepKindsDiffer
<1> QED
  BY <1>1, <1>2, <1>3, QueueTypes, DInvAfterSettled DEF queueVars

LEMMA ReportCompletionKeeps ==
  ASSUME DInv, NEW w \in Workers, ReportCompletion(w)
  PROVE  DInv'
<1>1. Executed(w) /\ w \in Procs /\ UNCHANGED <<failures, crashes>>
      /\ at[w] = "exec"
  BY DEF ReportCompletion, Executed, faultVars, Procs
<1>2. Settled(w) /\ at'[w] \in {"refresh", "publish"} \cup ThenSteps
  <2>0. "again" \in ThenSteps /\ "again" \in Steps
    BY DEF ThenSteps, Steps
  <2>1. CASE Publish(w, IF BudgetAction(cost_usd') \in {"pause", "cancel"} THEN {}
                        ELSE ReadyAgents(status'), TRUE, "again")
    <3>1. (IF BudgetAction(cost_usd') \in {"pause", "cancel"} THEN {}
           ELSE ReadyAgents(status')) \in SUBSET Agents
      BY DEF ReadyAgents, Rows
    <3> QED
      BY <1>1, <2>0, <2>1, <3>1, SettledByPublish
  <2>2. CASE GoTo(w, "again") /\ UNCHANGED <<vars, todo>>
    BY <1>1, <2>0, <2>2, SettledByGoTo DEF PublishSteps
  <2> QED
    BY <2>1, <2>2 DEF ReportCompletion
<1> QED
  BY <1>1, <1>2, ExecutedKeeps

LEMMA ReportFailureKeeps ==
  ASSUME DInv, NEW w \in Workers, ReportFailure(w)
  PROVE  DInv'
<1>1. Executed(w) /\ w \in Procs /\ UNCHANGED <<failures, crashes>>
      /\ at[w] = "exec"
  BY DEF ReportFailure, Executed, faultVars, Procs
<1>2. Settled(w) /\ at'[w] \in {"refresh", "publish"} \cup ThenSteps
  <2>0. "drain" \in ThenSteps /\ "drain" \in Steps
    BY DEF ThenSteps, Steps
  <2>1. CASE Publish(w, NewlyQueued, TRUE, "drain")
    <3>1. NewlyQueued \in SUBSET Agents
      BY DEF NewlyQueued
    <3> QED
      BY <1>1, <2>0, <2>1, <3>1, SettledByPublish
  <2>2. CASE GoTo(w, "drain") /\ UNCHANGED <<vars, todo>>
    BY <1>1, <2>0, <2>2, SettledByGoTo DEF PublishSteps
  <2> QED
    BY <2>1, <2>2 DEF ReportFailure
<1> QED
  BY <1>1, <1>2, ExecutedKeeps

\* A step of p that publishes, reads nothing and takes no job.
LEMMA PublishingKeeps ==
  ASSUME DInv, NEW p \in Procs, NEW A \in SUBSET Agents, NEW refresh \in BOOLEAN,
         NEW s \in ThenSteps, Publish(p, A, refresh, s),
         at[p] \notin {"send", "mark", "claim", "exec"},
         UNCHANGED <<queueVars, batch, row, job, published, faultVars>>
  PROVE  DInv'
<1>1. Settled(p) /\ at'[p] \in {"refresh", "publish"} \cup ThenSteps
  BY SettledByPublish
<1>2. at'[p] \notin {"send", "mark", "claim", "exec"}
  BY <1>1, StepKindsDiffer
<1>3. p \in Workers => job[p] = NoAgent
  BY HeldAt
<1> QED
  BY <1>1, <1>2, <1>3, QueueTypes, DInvAfterSettled DEF queueVars, faultVars

LEMMA EnqueueNewlyReadyAgentsKeeps ==
  ASSUME DInv, NEW w \in Workers, EnqueueNewlyReadyAgents(w)
  PROVE  DInv'
<1>1. ReadyAgents(status') \in SUBSET Agents
  BY DEF ReadyAgents, Rows
<1>2. "drain" \in ThenSteps /\ w \in Procs
  BY DEF ThenSteps, Procs
<1> QED
  BY <1>1, <1>2, PublishingKeeps DEF EnqueueNewlyReadyAgents

LEMMA CommandsKeep ==
  ASSUME DInv, NEW c \in Clients, ClientStep(c) \/ Command(c)
  PROVE  DInv'
<1>0. c \in Procs /\ Home(c) \in ThenSteps /\ Home(c) \in Steps
  BY Homes DEF Procs
<1>1. ASSUME ResumeCommand(c)
      PROVE  DInv'
  <2>1. /\ at[c] = "command" /\ todo' = [todo EXCEPT ![c] = NewlyQueued]
        /\ GoTo(c, "promote")
        /\ UNCHANGED <<queueVars, batch, row, job, published, faultVars>>
    BY <1>1 DEF ResumeCommand
  <2>2. /\ at' \in [Procs -> Steps] /\ then' \in [Procs -> ThenSteps]
        /\ at'[c] = "promote" /\ \A q \in Procs \ {c} : at'[q] = at[q]
    BY <1>0, <2>1, GoToShape DEF Steps
  <2>3. /\ todo' \in [Procs -> SUBSET Agents]
        /\ \A q \in Procs \ {c} : todo'[q] = todo[q]
    BY <2>1, QueueTypes DEF NewlyQueued
  <2>4. Settled(c)
    BY <2>2, <2>3 DEF Settled, PublishSteps
  <2>5. c \in Workers => job[c] = NoAgent
    BY <1>0, <2>1, HeldAt
  <2> QED
    BY <1>0, <2>1, <2>2, <2>4, <2>5, QueueTypes, DInvAfterSettled DEF queueVars, faultVars
<1>2. ASSUME PromoteResumed(c)
      PROVE  DInv'
  <2>1. /\ at[c] = "promote" /\ at' = [at EXCEPT ![c] = "refresh"]
        /\ UNCHANGED <<queueVars, then, todo, batch, row, job, published, faultVars>>
    BY <1>2 DEF PromoteResumed
  <2>2. Settled(c) /\ at'[c] = "refresh"
    BY <1>0, <2>1, QueueTypes DEF Settled, PublishSteps, Steps
  <2>5. c \in Workers => job[c] = NoAgent
    BY <1>0, <2>1, HeldAt
  <2> QED
    BY <1>0, <2>1, <2>2, <2>5, QueueTypes, DInvAfterSettled DEF queueVars, faultVars
<1>3. ASSUME CancelCommand(c)
      PROVE  DInv'
  <2>1. /\ at[c] = "command" /\ GoTo(c, Home(c))
        /\ UNCHANGED <<queueVars, todo, batch, row, job, published, faultVars>>
    BY <1>3 DEF CancelCommand
  <2>2. Settled(c) /\ at'[c] = Home(c)
    BY <1>0, <2>1, SettledByGoTo DEF PublishSteps
  <2>3. at'[c] \notin {"send", "mark", "claim", "exec"}
    BY <1>0, <2>2, StepKindsDiffer
  <2>5. c \in Workers => job[c] = NoAgent
    BY <1>0, <2>1, HeldAt
  <2> QED
    BY <1>0, <2>1, <2>2, <2>3, <2>5, QueueTypes, DInvAfterSettled DEF queueVars, faultVars
<1>4. ASSUME NEW a \in WorkerNames, CancelWorker(c, a)
      PROVE  DInv'
  BY <1>0, <1>4, PublishingKeeps DEF CancelWorker
<1>5. ASSUME NEW m \in Managers, NEW d \in DynamicAgents, SpawnWorker(c, m, d)
      PROVE  DInv'
  <2>1. {d} \in SUBSET Agents
    BY DEF Agents
  <2> QED
    BY <1>0, <1>5, <2>1, PublishingKeeps DEF SpawnWorker
<1>6. ASSUME PublishStep(c)
      PROVE  DInv'
  BY <1>0, <1>6, RecordQueueOutboxKeeps, EnqueueAgentKeeps, MarkOutboxPublishedKeeps,
     RefreshKeeps DEF PublishStep
<1> QED
  BY <1>1, <1>2, <1>3, <1>4, <1>5, <1>6 DEF ClientStep, Command

LEMMA CrashKeeps ==
  ASSUME DInv, NEW p \in Procs, Crash(p)
  PROVE  DInv'
<1>1. /\ crashes < MaxCrashes /\ crashes' = crashes + 1
      /\ GoTo(p, Home(p)) /\ ForgetPublished(p)
      /\ todo' = [todo EXCEPT ![p] = {}]
      /\ batch' = [batch EXCEPT ![p] = {}] /\ row' = [row EXCEPT ![p] = {}]
      /\ job' = [w \in Workers |-> IF w = p THEN NoAgent ELSE job[w]]
      /\ UNCHANGED <<queueVars, failures>>
  BY DEF Crash
<1>2. /\ at' \in [Procs -> Steps] /\ then' \in [Procs -> ThenSteps]
      /\ at'[p] = Home(p) /\ \A q \in Procs \ {p} : at'[q] = at[q]
  BY <1>1, Homes, GoToShape
<1>3. at'[p] \notin {"send", "mark", "claim", "exec"}
  BY <1>2, Homes, StepKindsDiffer
<1>4. /\ row' \in [Procs -> SUBSET RowSet] /\ row'[p] = {}
      /\ batch' \in [Procs -> SUBSET RowSet]
      /\ todo' \in [Procs -> SUBSET Agents] /\ todo'[p] = {}
      /\ \A q \in Procs \ {p} : row'[q] = row[q] /\ todo'[q] = todo[q]
  BY <1>1, QueueTypes
<1>5. /\ job' \in [Workers -> Agents \cup {NoAgent}]
      /\ \A v \in Workers \ {p} : job'[v] = job[v]
      /\ p \in Workers => job'[p] = NoAgent
  BY <1>1, QueueTypes
<1>6. crashes' \in 0..MaxCrashes
  BY <1>1, QueueTypes, DispatchAssumption
<1> QED
  BY <1>1, <1>2, <1>3, <1>4, <1>5, <1>6, QueueTypes, ForgottenType, DInvAfterStep
  DEF queueVars

LEMMA StepKeepsDInv ==
  ASSUME DInv, [DispatchNext]_dispatchVars
  PROVE  DInv'
<1>0. Submitter \in Procs /\ Workers \subseteq Procs /\ Operators \subseteq Procs
  BY DEF Procs
<1>1. ASSUME NEW p \in Procs, PublishStep(p)
      PROVE  DInv'
  BY <1>1, RecordQueueOutboxKeeps, EnqueueAgentKeeps, MarkOutboxPublishedKeeps,
     RefreshKeeps DEF PublishStep
<1>2. CASE SubmitterStep
  BY <1>0, <1>1, <1>2, PublishReadyAgentsKeeps DEF SubmitterStep
<1>3. ASSUME NEW w \in Workers, WorkerStep(w)
      PROVE  DInv'
  BY <1>0, <1>1, <1>3, DrainQueueOutboxKeeps, RelayRowKeeps, ExpireLeasesKeeps,
     ExpireNextKeeps, ReadAgentKeeps, ClaimNextAgentKeeps, ReportCompletionKeeps,
     ReportFailureKeeps, EnqueueNewlyReadyAgentsKeeps DEF WorkerStep
<1>4. ASSUME NEW o \in Operators, OperatorStep(o)
      PROVE  DInv'
  BY <1>0, <1>1, <1>4, ExpireLeasesKeeps, ExpireNextKeeps, PublishReadyAgentsKeeps
  DEF OperatorStep
<1>5. ASSUME NEW a \in Agents, LeasePasses(a)
      PROVE  DInv'
  BY <1>5 DEF LeasePasses, queueVars, procVars, faultVars, DInv, DispatchTypeOK
<1>6. CASE UNCHANGED dispatchVars
  BY <1>6 DEF dispatchVars, queueVars, procVars, faultVars, DInv, DispatchTypeOK
<1> QED
  BY <1>2, <1>3, <1>4, <1>5, <1>6, CommandsKeep, EnqueueFailsKeeps, CrashKeeps
  DEF DispatchNext

LEMMA InitDInv ==
  ASSUME DispatchInit
  PROVE  DInv
<1>1. /\ stream \in Seq(Agents) /\ outbox \subseteq RowSet
      /\ todo \in [Procs -> SUBSET Agents] /\ batch \in [Procs -> SUBSET RowSet]
      /\ row \in [Procs -> SUBSET RowSet]
      /\ job \in [Workers -> Agents \cup {NoAgent}]
      /\ published \in [Operators -> SUBSET Agents]
      /\ failures \in 0..MaxFailures /\ crashes \in 0..MaxCrashes
      /\ \A p \in Procs : todo[p] = {} /\ row[p] = {}
      /\ \A w \in Workers : job[w] = NoAgent
  BY DispatchAssumption DEF DispatchInit
<1>2. /\ then \in [Procs -> ThenSteps] /\ then \in [Procs -> Steps]
  BY Homes DEF DispatchInit
<1>3. /\ at \in [Procs -> Steps]
      /\ \A p \in Procs : at[p] \notin {"send", "mark", "claim", "exec"}
  <2>1. \A p \in Procs : at[p] \in {"ready", "command", Home(p)}
    BY DEF DispatchInit
  <2>2. \A p \in Procs : Home(p) \in Steps /\ Home(p) \notin {"send", "mark", "claim", "exec"}
    BY Homes, StepKindsDiffer
  <2>3. at = [p \in Procs |-> at[p]]
    BY DEF DispatchInit
  <2> QED
    BY <2>1, <2>2, <2>3 DEF Steps
<1> QED
  BY <1>1, <1>2, <1>3 DEF DInv, DispatchTypeOK, Procs

LEMMA DispatchInvariance == DispatchSpec => []DInv
<1>1. DInv /\ [DispatchNext]_dispatchVars => DInv'
  BY StepKeepsDInv
<1> QED
  BY <1>1, InitDInv, PTL DEF DispatchSpec

(***************************************************************************)
(* At each step of its loop a process holds exactly what that step is      *)
(* about: an outbox row while it sends it (record_queue_outbox to          *)
(* mark_outbox_published), a job while it claims or executes it            *)
(* (claim_next_agent), wherever the others have crashed or failed.         *)
(***************************************************************************)
THEOREM DispatchTypes == DispatchSpec => []DispatchTypeOK
<1>1. DInv => DispatchTypeOK
  BY DEF DInv
<1> QED
  BY <1>1, DispatchInvariance, PTL

-----------------------------------------------------------------------------
(***************************************************************************)
(* The processes change the rows only by the operations of RunState.       *)
(***************************************************************************)
LEMMA PublishingLeavesTheRows ==
  ASSUME NEW p, PublishReadyAgents(p) \/ PublishStep(p)
  PROVE  [Next]_vars
<1>1. CASE Refresh(p)
  BY <1>1 DEF Refresh, Next
<1>2. CASE PublishReadyAgents(p) \/ RecordQueueOutbox(p) \/ EnqueueAgent(p)
           \/ MarkOutboxPublished(p)
  BY <1>2 DEF PublishReadyAgents, RecordQueueOutbox, EnqueueAgent, MarkOutboxPublished, vars
<1> QED
  BY <1>1, <1>2 DEF PublishStep

LEMMA ExpiryIsOfTheRows ==
  ASSUME NEW p, ExpireLeases(p) \/ ExpireNext(p)
  PROVE  [Next]_vars
<1>1. CASE ExpireLeases(p)
  BY <1>1 DEF ExpireLeases, Next, vars
<1>2. CASE ExpireNext(p)
  BY <1>2 DEF ExpireNext, Next
<1> QED
  BY <1>1, <1>2

LEMMA ReportsAreOfTheRows ==
  ASSUME DInv, NEW w \in Workers, ReportCompletion(w) \/ ReportFailure(w)
  PROVE  [Next]_vars
<1>1. job[w] \in Agents
  BY HeldAt DEF ReportCompletion, ReportFailure, Executed, Procs
<1>2. CASE UNCHANGED vars
  BY <1>2
<1>3. CASE Owns(job[w], Attempt(w)) /\ ReportCompletion(w)
  <2>1. Attempt(w) \in DOMAIN attempts[job[w]]
    BY <1>3 DEF Owns
  <2>2. PICK c \in Costs : CompleteAgent(job[w], Attempt(w), c)
    BY <1>3 DEF ReportCompletion
  <2> QED
    BY <1>1, <2>1, <2>2 DEF Next
<1>4. CASE Owns(job[w], Attempt(w)) /\ ReportFailure(w)
  <2>1. Attempt(w) \in DOMAIN attempts[job[w]]
    BY <1>4 DEF Owns
  <2>2. PICK r \in Reports : \/ FailAgentRetry(job[w], Attempt(w))
                             \/ FailAgentFinal(job[w], Attempt(w), r[1], r[2])
    BY <1>4 DEF ReportFailure
  <2>3. r \in FailureReports
    BY DispatchAssumption
  <2> QED
    BY <1>1, <2>1, <2>2, <2>3 DEF Next
<1> QED
  BY <1>2, <1>3, <1>4 DEF ReportCompletion, ReportFailure

LEMMA WorkersUseTheRows ==
  ASSUME DInv, NEW w \in Workers, WorkerStep(w)
  PROVE  [Next]_vars
<1>1. CASE DrainQueueOutbox(w) \/ RelayRow(w) \/ ReadAgent(w)
  BY <1>1 DEF DrainQueueOutbox, RelayRow, ReadAgent, vars
<1>2. CASE ClaimNextAgent(w)
  BY <1>2 DEF ClaimNextAgent, ReadyAgents, Rows, Next, vars
<1>3. CASE EnqueueNewlyReadyAgents(w)
  BY <1>3 DEF EnqueueNewlyReadyAgents, Next
<1> QED
  BY <1>1, <1>2, <1>3, PublishingLeavesTheRows, ExpiryIsOfTheRows, ReportsAreOfTheRows
  DEF WorkerStep

LEMMA CommandsUseTheRows ==
  ASSUME NEW c \in Clients, ClientStep(c) \/ Command(c)
  PROVE  [Next]_vars
<1>1. CASE PromoteResumed(c) \/ ResumeCommand(c) \/ CancelCommand(c)
  BY <1>1 DEF PromoteResumed, ResumeCommand, CancelCommand, Next
<1>2. ASSUME NEW a \in WorkerNames, CancelWorker(c, a)
      PROVE  [Next]_vars
  <2>1. a \in Agents
    BY AgentsAssumption DEF WorkerNames, Agents
  <2> QED
    BY <1>2, <2>1 DEF CancelWorker, Next
<1>3. ASSUME NEW m \in Managers, NEW d \in DynamicAgents, SpawnWorker(c, m, d)
      PROVE  [Next]_vars
  BY <1>3 DEF SpawnWorker, Next
<1> QED
  BY <1>1, <1>2, <1>3, PublishingLeavesTheRows DEF ClientStep, Command

LEMMA DispatchStepIsARowStep ==
  ASSUME DInv, [DispatchNext]_dispatchVars
  PROVE  [Next]_vars
<1>1. ASSUME NEW p \in Procs, EnqueueFails(p) \/ Crash(p)
      PROVE  [Next]_vars
  BY <1>1 DEF EnqueueFails, Crash, Next, vars
<1>2. ASSUME NEW a \in Agents, LeasePasses(a)
      PROVE  [Next]_vars
  BY <1>2 DEF LeasePasses, Next
<1>3. CASE UNCHANGED dispatchVars
  BY <1>3 DEF dispatchVars
<1> QED
  BY <1>1, <1>2, <1>3, PublishingLeavesTheRows, ExpiryIsOfTheRows, WorkersUseTheRows,
     CommandsUseTheRows DEF DispatchNext, SubmitterStep, OperatorStep

(***************************************************************************)
(* Whatever the order in which workers, operators, clients and the         *)
(* submitter take their steps, crash and fail, the rows go through a       *)
(* behaviour of RunState: a report reaches complete_agent and fail_agent   *)
(* only for an attempt that exists, a claim only for an agent that is      *)
(* queued.  So each theorem about RunState is one about this system.       *)
(***************************************************************************)
THEOREM DispatchRunsTheRows == DispatchSpec => Spec
<1>1. DispatchInit => Init
  BY DEF DispatchInit
<1>2. DInv /\ [DispatchNext]_dispatchVars => [Next]_vars
  BY DispatchStepIsARowStep
<1> QED
  BY <1>1, <1>2, DispatchInvariance, PTL DEF DispatchSpec, Spec

\* So the budget of retries bounds the executions whoever delivers the hints,
\* twice or late (claim_next_agent), and no promotion is missed.
THEOREM HintsStayInBudget ==
  DispatchSpec => [](RetryBudgetBoundsAttempts /\ PendingWaitsForADependency)
BY DispatchRunsTheRows, RetriesArePaid, NoPromotionIsMissed, PTL

-----------------------------------------------------------------------------
(***************************************************************************)
(* Wakeups.  A step of p leaves what the others hold; what covers an agent *)
(* is theirs, or p hands it on.                                            *)
(***************************************************************************)
Elsewhere(p) ==
  /\ \A q \in Procs \ {p} : at'[q] = at[q] /\ todo'[q] = todo[q] /\ row'[q] = row[q]
  /\ \A o \in Operators \ {p} : published'[o] = published[o]
  /\ \A w \in Workers \ {p} : job'[w] = job[w]

LEMMA CoverIsHandedOn ==
  ASSUME NEW p \in Procs, Elsewhere(p), NEW a \in Agents, Covered(a),
         HasHint(a) => Covered(a)', HasRow(a) => Covered(a)',
         a \in todo[p] => Covered(a)',
         at[p] = "ready" /\ (p \in Operators => a \notin published[p]) => Covered(a)',
         p \in Workers /\ at[p] = "claim" /\ job[p] = a => Covered(a)'
  PROVE  Covered(a)'
<1>1. CASE HasPublisher(a)
  <2>1. PICK q \in Procs : \/ a \in todo[q]
                           \/ at[q] = "ready" /\ (q \in Operators => a \notin published[q])
    BY <1>1 DEF HasPublisher
  <2>2. CASE q = p
    BY <2>1, <2>2
  <2>3. CASE q # p
    <3>1. HasPublisher(a)'
      BY <2>1, <2>3 DEF Elsewhere, HasPublisher
    <3> QED
      BY <3>1 DEF Covered
  <2> QED
    BY <2>2, <2>3
<1>2. CASE HasClaimant(a)
  <2>1. PICK w \in Workers : at[w] = "claim" /\ job[w] = a
    BY <1>2 DEF HasClaimant
  <2>2. CASE w = p
    BY <2>1, <2>2
  <2>3. CASE w # p
    <3>1. HasClaimant(a)'
      BY <2>1, <2>3 DEF Elsewhere, HasClaimant, Procs
    <3> QED
      BY <3>1 DEF Covered
  <2> QED
    BY <2>2, <2>3
<1> QED
  BY <1>1, <1>2 DEF Covered

\* An outbox row p does not remove covers its agent after a step of p, unless
\* p has just sent it.
LEMMA RowStays ==
  ASSUME NEW p \in Procs, Elsewhere(p), NEW a, HasRow(a),
         at'[p] # "mark", outbox \subseteq outbox'
  PROVE  Covered(a)'
<1>1. HasRow(a)'
  BY DEF HasRow, Elsewhere
<1> QED
  BY <1>1 DEF Covered

LEMMA PublisherCovers ==
  ASSUME NEW p \in Procs, NEW a, a \in todo'[p]
  PROVE  Covered(a)'
  BY DEF Covered, HasPublisher

\* A step of p that only goes on, perhaps with more agents to publish.
LEMMA CoverStays ==
  ASSUME NEW p \in Procs, Elsewhere(p), NEW a \in Agents, Covered(a),
         UNCHANGED stream, outbox \subseteq outbox', at'[p] # "mark",
         todo[p] \subseteq todo'[p], at[p] \notin {"ready", "claim"}
  PROVE  Covered(a)'
<1>1. HasHint(a) => Covered(a)'
  BY DEF HasHint, Covered
<1>2. HasRow(a) => Covered(a)'
  BY RowStays
<1>3. a \in todo[p] => Covered(a)'
  BY PublisherCovers
<1> QED
  BY <1>1, <1>2, <1>3, CoverIsHandedOn

LEMMA ElsewhereWhenSettled ==
  ASSUME NEW p \in Procs, Settled(p), UNCHANGED row,
         \A o \in Operators \ {p} : published'[o] = published[o],
         \A w \in Workers \ {p} : job'[w] = job[w]
  PROVE  Elsewhere(p)
  BY DEF Settled, Elsewhere

-----------------------------------------------------------------------------
\* The steps that leave the rows alone.
LEMMA RecordQueueOutboxCovers ==
  ASSUME DInv, NEW p \in Procs, RecordQueueOutbox(p), NEW a \in Agents, Covered(a)
  PROVE  Covered(a)'
<1>1. PICK b \in todo[p], n \in (1..MaxRows) \ InUse :
        /\ outbox' = outbox \cup {[id |-> n, agent |-> b]}
        /\ row' = [row EXCEPT ![p] = {[id |-> n, agent |-> b]}]
        /\ todo' = [todo EXCEPT ![p] = @ \ {b}]
  BY DEF RecordQueueOutbox
<1>2. /\ at[p] = "publish" /\ at' = [at EXCEPT ![p] = "send"]
      /\ UNCHANGED <<stream, then, batch, job, published>>
  BY DEF RecordQueueOutbox
<1>3. Elsewhere(p) /\ at'[p] = "send" /\ todo'[p] = todo[p] \ {b}
  BY <1>1, <1>2, QueueTypes DEF Elsewhere
<1>4. HasRow(b)'
  <2> DEFINE r == [id |-> n, agent |-> b]
  <2>1. ASSUME NEW q \in Procs, at'[q] = "mark"
        PROVE  r \notin row'[q]
    <3>1. q # p /\ row'[q] = row[q]
      BY <1>3, <2>1 DEF Elsewhere
    <3>2. r \in row[q] => r.id \in InUse
      BY DEF InUse
    <3> QED
      BY <3>1, <3>2
  <2>2. r \in outbox' /\ r.agent = b
    BY <1>1
  <2> QED
    BY <2>1, <2>2 DEF HasRow
<1>5. HasHint(a) => Covered(a)'
  BY <1>2 DEF HasHint, Covered
<1>6. HasRow(a) => Covered(a)'
  BY <1>1, <1>3, RowStays
<1>7. a \in todo[p] => Covered(a)'
  BY <1>3, <1>4, PublisherCovers DEF Covered
<1> QED
  BY <1>2, <1>3, <1>5, <1>6, <1>7, CoverIsHandedOn

LEMMA EnqueueAgentCovers ==
  ASSUME DInv, NEW p \in Procs, EnqueueAgent(p), NEW a \in Agents, Covered(a)
  PROVE  Covered(a)'
<1>1. /\ at[p] = "send" /\ at' = [at EXCEPT ![p] = "mark"]
      /\ UNCHANGED <<outbox, then, todo, batch, row, job, published>>
  BY DEF EnqueueAgent
<1>2. PICK r \in row[p] : stream' = Append(stream, r.agent)
  BY DEF EnqueueAgent
<1>3. /\ \A i \in DOMAIN stream : i \in DOMAIN stream' /\ stream'[i] = stream[i]
      /\ \E i \in DOMAIN stream' : stream'[i] = r.agent
  <2>1. r.agent \in Agents /\ stream \in Seq(Agents)
    BY QueueTypes DEF RowSet
  <2>2. /\ \A i \in 1..Len(stream) : stream'[i] = stream[i]
        /\ stream'[Len(stream) + 1] = r.agent
        /\ Len(stream') = Len(stream) + 1 /\ stream' \in Seq(Agents)
    BY <1>2, <2>1, AppendProperties
  <2>3. /\ Len(stream) \in Nat /\ DOMAIN stream = 1..Len(stream)
        /\ DOMAIN stream' = 1..(Len(stream) + 1)
    BY <2>1, <2>2
  <2> QED
    BY <2>2, <2>3
<1>4. Elsewhere(p)
  BY <1>1, QueueTypes DEF Elsewhere
<1>5. HasHint(a) => Covered(a)'
  BY <1>3 DEF HasHint, Covered
<1>6. HasRow(a) => Covered(a)'
  <2>1. ASSUME NEW q \in outbox, q.agent = a,
               \A o \in Procs : at[o] = "mark" => q \notin row[o]
        PROVE  Covered(a)'
    <3>1. CASE q \in row[p]
      <4>1. q = r
        BY <3>1 DEF DInv
      <4> QED
        BY <1>3, <2>1, <4>1 DEF HasHint, Covered
    <3>2. CASE q \notin row[p]
      <4>1. HasRow(a)'
        BY <1>1, <1>4, <2>1, <3>2 DEF HasRow, Elsewhere
      <4> QED
        BY <4>1 DEF Covered
    <3> QED
      BY <3>1, <3>2
  <2> QED
    BY <2>1 DEF HasRow
<1>7. a \in todo[p] => Covered(a)'
  BY <1>1, PublisherCovers
<1> QED
  BY <1>1, <1>4, <1>5, <1>6, <1>7, CoverIsHandedOn

LEMMA MarkOutboxPublishedCovers ==
  ASSUME DInv, NEW p \in Procs, MarkOutboxPublished(p), NEW a \in Agents, Covered(a)
  PROVE  Covered(a)'
<1>1. /\ at[p] = "mark" /\ outbox' = outbox \ row[p]
      /\ row' = [row EXCEPT ![p] = {}]
      /\ UNCHANGED <<stream, todo, job, published>>
  BY DEF MarkOutboxPublished
<1>2. at'[p] # "mark" /\ \A q \in Procs \ {p} : at'[q] = at[q]
  <2>1. CASE at' = [at EXCEPT ![p] = "publish"]
    BY <2>1, QueueTypes
  <2>2. CASE GoTo(p, then[p])
    <3>1. then[p] \in ThenSteps /\ then[p] \in Steps
      BY QueueTypes, StepKindsDiffer
    <3> QED
      BY <2>2, <3>1, GoToShape, StepKindsDiffer
  <2> QED
    BY <2>1, <2>2 DEF MarkOutboxPublished
<1>3. Elsewhere(p)
  BY <1>1, <1>2, QueueTypes DEF Elsewhere
<1>4. HasHint(a) => Covered(a)'
  BY <1>1 DEF HasHint, Covered
<1>5. HasRow(a) => Covered(a)'
  <2>1. ASSUME NEW r \in outbox, r.agent = a,
               \A q \in Procs : at[q] = "mark" => r \notin row[q]
        PROVE  HasRow(a)'
    BY <1>1, <1>2, <1>3, <2>1 DEF HasRow, Elsewhere
  <2> QED
    BY <2>1 DEF HasRow, Covered
<1>6. a \in todo[p] => Covered(a)'
  BY <1>1, PublisherCovers
<1> QED
  BY <1>1, <1>3, <1>4, <1>5, <1>6, CoverIsHandedOn

LEMMA RefreshCovers ==
  ASSUME DInv, NEW p \in Procs, Refresh(p), NEW a \in Agents, Covered(a)
  PROVE  Covered(a)'
<1>1. /\ at[p] = "refresh"
      /\ UNCHANGED <<queueVars, todo, batch, row, job, published>>
  BY DEF Refresh
<1>2. at'[p] # "mark" /\ \A q \in Procs \ {p} : at'[q] = at[q]
  <2>1. CASE at' = [at EXCEPT ![p] = "publish"]
    BY <2>1, QueueTypes
  <2>2. CASE GoTo(p, then[p])
    <3>1. then[p] \in ThenSteps /\ then[p] \in Steps
      BY QueueTypes, StepKindsDiffer
    <3> QED
      BY <2>2, <3>1, GoToShape, StepKindsDiffer
  <2> QED
    BY <2>1, <2>2 DEF Refresh
<1>3. Elsewhere(p)
  BY <1>1, <1>2 DEF Elsewhere
<1> QED
  BY <1>1, <1>2, <1>3, CoverStays DEF queueVars

LEMMA RelayCovers ==
  ASSUME DInv, NEW w \in Workers, DrainQueueOutbox(w) \/ RelayRow(w),
         NEW a \in Agents, Covered(a)
  PROVE  Covered(a)'
<1>1. /\ at[w] \in {"drain", "relay"} /\ w \in Procs
      /\ UNCHANGED <<queueVars, todo, job, published>>
  BY DEF DrainQueueOutbox, RelayRow, Procs
<1>2. at'[w] # "mark" /\ \A q \in Procs \ {w} : at'[q] = at[q]
  <2>1. CASE GoTo(w, "relay") \/ GoTo(w, "expire")
    BY <1>1, <2>1, GoToShape DEF Steps
  <2>2. CASE at' = [at EXCEPT ![w] = "send"]
    BY <1>1, <2>2, QueueTypes
  <2> QED
    BY <2>1, <2>2 DEF DrainQueueOutbox, RelayRow
<1>3. \A q \in Procs \ {w} : row'[q] = row[q]
  <2>1. UNCHANGED row \/ \E r \in batch[w] : row' = [row EXCEPT ![w] = {r}]
    BY DEF DrainQueueOutbox, RelayRow
  <2> QED
    BY <2>1, QueueTypes
<1>4. Elsewhere(w)
  BY <1>1, <1>2, <1>3 DEF Elsewhere
<1> QED
  BY <1>1, <1>2, <1>4, CoverStays DEF queueVars

LEMMA ExpireLeasesCovers ==
  ASSUME DInv, NEW p \in Procs, ExpireLeases(p), NEW a \in Agents, Covered(a)
  PROVE  Covered(a)'
<1>1. /\ at[p] = "expire"
      /\ GoTo(p, "expiring") \/ GoTo(p, AfterExpiry(p))
      /\ UNCHANGED <<queueVars, todo, batch, row, job, published>>
  BY DEF ExpireLeases
<1>2. AfterExpiry(p) \in {"read", "ready"}
  BY DEF AfterExpiry
<1>3. at'[p] # "mark" /\ \A q \in Procs \ {p} : at'[q] = at[q]
  BY <1>1, <1>2, GoToShape DEF Steps
<1>4. Elsewhere(p)
  BY <1>1, <1>3 DEF Elsewhere
<1> QED
  BY <1>1, <1>3, <1>4, CoverStays DEF queueVars

LEMMA ReadAgentCovers ==
  ASSUME DInv, NEW w \in Workers, ReadAgent(w), NEW a \in Agents, Covered(a)
  PROVE  Covered(a)'
<1>1. /\ at[w] = "read" /\ w \in Procs
      /\ UNCHANGED <<outbox, todo, batch, row, published>>
  BY DEF ReadAgent, Procs
<1>2. CASE GoTo(w, "drain") /\ UNCHANGED <<stream, job>>
  <2>1. at'[w] # "mark" /\ \A q \in Procs \ {w} : at'[q] = at[q]
    BY <1>1, <1>2, GoToShape DEF Steps
  <2>2. Elsewhere(w)
    BY <1>1, <1>2, <2>1 DEF Elsewhere
  <2> QED
    BY <1>1, <1>2, <2>1, <2>2, CoverStays
<1>3. CASE /\ stream # <<>> /\ job' = [job EXCEPT ![w] = Head(stream)]
           /\ stream' = Tail(stream) /\ GoTo(w, "claim")
  <2>1. at'[w] = "claim" /\ \A q \in Procs \ {w} : at'[q] = at[q]
    BY <1>1, <1>3, GoToShape DEF Steps
  <2>2. Elsewhere(w) /\ job'[w] = Head(stream)
    BY <1>1, <1>3, <2>1, QueueTypes DEF Elsewhere
  <2>3. ASSUME HasHint(a)
        PROVE  Covered(a)'
    <3>1. PICK i \in DOMAIN stream : stream[i] = a
      BY <2>3 DEF HasHint
    <3>2. /\ stream \in Seq(Agents) /\ Len(stream) \in Nat /\ i \in 1..Len(stream)
          /\ Head(stream) = stream[1]
          /\ Tail(stream) \in Seq(Agents) /\ Len(Tail(stream)) = Len(stream) - 1
          /\ \A j \in 1..Len(Tail(stream)) : Tail(stream)[j] = stream[j + 1]
      BY <1>3, <3>1, QueueTypes, HeadTailProperties
    <3>3. CASE i = 1
      BY <2>1, <2>2, <3>1, <3>2, <3>3 DEF HasClaimant, Covered
    <3>4. CASE i # 1
      <4>1. i - 1 \in 1..Len(Tail(stream)) /\ (i - 1) + 1 = i
        BY <3>2, <3>4
      <4>2. i - 1 \in DOMAIN stream' /\ stream'[i - 1] = a
        BY <1>3, <3>1, <3>2, <4>1
      <4> QED
        BY <4>2 DEF HasHint, Covered
    <3> QED
      BY <3>3, <3>4
  <2>4. HasRow(a) => Covered(a)'
    BY <1>1, <2>1, <2>2, RowStays
  <2>5. a \in todo[w] => Covered(a)'
    BY <1>1, PublisherCovers
  <2> QED
    BY <1>1, <2>2, <2>3, <2>4, <2>5, CoverIsHandedOn
<1> QED
  BY <1>2, <1>3 DEF ReadAgent

\* The claim of a queued agent succeeds: without a limit nothing refuses it.
LEMMA ClaimNextAgentCovers ==
  ASSUME DInv, ConcurrencyLimit = 0, TypeOK, NEW w \in Workers, ClaimNextAgent(w),
         NEW a \in Agents, Covered(a), status'[a] = "queued"
  PROVE  Covered(a)'
<1>1. /\ at[w] = "claim" /\ w \in Procs
      /\ UNCHANGED <<queueVars, todo, batch, row, published>>
      /\ GoTo(w, "exec") \/ GoTo(w, "drain")
      /\ UNCHANGED job \/ job' = [job EXCEPT ![w] = NoAgent]
  BY DEF ClaimNextAgent, Procs
<1>2. at'[w] # "mark" /\ \A q \in Procs \ {w} : at'[q] = at[q]
  BY <1>1, GoToShape DEF Steps
<1>3. Elsewhere(w)
  BY <1>1, <1>2, QueueTypes DEF Elsewhere
<1>4. job[w] # a
  <2> SUFFICES ASSUME job[w] = a
               PROVE  FALSE
    OBVIOUS
  <2>1. CASE a \in ReadyAgents(status)
    <3>1. status' = [status EXCEPT ![a] = "running"]
      BY <2>1 DEF ClaimNextAgent, ClaimAgent
    <3> QED
      BY <3>1 DEF TypeOK
  <2>2. CASE a \notin ReadyAgents(status)
    <3>1. status[a] = "queued"
      BY <2>2 DEF ClaimNextAgent, vars
    <3> QED
      BY <2>2, <3>1 DEF ReadyAgents, Rows
  <2> QED
    BY <2>1, <2>2
<1>5. HasHint(a) => Covered(a)'
  BY <1>1 DEF HasHint, Covered, queueVars
<1>6. HasRow(a) => Covered(a)'
  BY <1>1, <1>2, <1>3, RowStays DEF queueVars
<1>7. a \in todo[w] => Covered(a)'
  BY <1>1, PublisherCovers
<1> QED
  BY <1>1, <1>3, <1>4, <1>5, <1>6, <1>7, CoverIsHandedOn

-----------------------------------------------------------------------------
\* The steps that may queue agents.
LEMMA PublishingCovers ==
  ASSUME DInv, NEW p \in Procs, NEW A \in SUBSET Agents, NEW refresh \in BOOLEAN,
         NEW s \in ThenSteps, Publish(p, A, refresh, s),
         at[p] \notin {"ready", "claim"}, todo[p] \subseteq A,
         UNCHANGED <<queueVars, row>>,
         \A o \in Operators \ {p} : published'[o] = published[o],
         \A w \in Workers \ {p} : job'[w] = job[w],
         NEW a \in Agents, a \in A \/ Covered(a)
  PROVE  Covered(a)'
<1>1. /\ Settled(p) /\ todo'[p] = A
      /\ at'[p] \in {"refresh", "publish"} \cup ThenSteps
  BY SettledByPublish
<1>2. at'[p] # "mark" /\ Elsewhere(p)
  BY <1>1, StepKindsDiffer, ElsewhereWhenSettled
<1>3. CASE a \in A
  BY <1>1, <1>3, PublisherCovers
<1>4. CASE Covered(a)
  BY <1>1, <1>2, <1>4, CoverStays DEF queueVars
<1> QED
  BY <1>3, <1>4

\* ready_agents covers all that are queued: without a limit it returns them all.
LEMMA ReadyAgentsAreAll ==
  ASSUME ConcurrencyLimit = 0, NEW s
  PROVE  ReadyAgents(s) = Rows(s, {"queued"}) /\ ReadyAgents(s) \in SUBSET Agents
  BY DEF ReadyAgents, Rows

LEMMA PublishReadyAgentsCovers ==
  ASSUME DInv, ConcurrencyLimit = 0, NEW p \in Procs, PublishReadyAgents(p),
         NEW a \in Agents, Covered(a), status'[a] = "queued"
  PROVE  Covered(a)'
<1> DEFINE A == {b \in ReadyAgents(status) : p \in Operators => b \notin published[p]}
<1>1. /\ at[p] = "ready" /\ Publish(p, A, FALSE, Home(p)) /\ ForgetPublished(p)
      /\ UNCHANGED <<queueVars, row, job>> /\ status' = status
  BY DEF PublishReadyAgents, vars
<1>2. A \in SUBSET Agents /\ Home(p) \in ThenSteps
  BY Homes DEF ReadyAgents, Rows
<1>3. a \in ReadyAgents(status)
  BY <1>1, ReadyAgentsAreAll DEF Rows
<1>4. (p \in Operators => a \notin published[p]) => a \in A
  BY <1>3
<1> HIDE DEF A
<1>5. /\ Settled(p) /\ todo'[p] = A
      /\ at'[p] \in {"refresh", "publish"} \cup ThenSteps
  BY <1>1, <1>2, SettledByPublish
<1>6. at'[p] # "mark" /\ Elsewhere(p)
  <2>1. \A o \in Operators \ {p} : published'[o] = published[o]
    BY <1>1 DEF ForgetPublished
  <2> QED
    BY <1>1, <1>5, <2>1, StepKindsDiffer, ElsewhereWhenSettled
<1>7. HasHint(a) => Covered(a)'
  BY <1>1 DEF HasHint, Covered, queueVars
<1>8. HasRow(a) => Covered(a)'
  BY <1>1, <1>6, RowStays DEF queueVars
<1>9. a \in A => Covered(a)'
  BY <1>5, PublisherCovers
<1>10. todo[p] = {}
  BY <1>1, HeldAt DEF PublishSteps
<1> QED
  BY <1>1, <1>4, <1>6, <1>7, <1>8, <1>9, <1>10, CoverIsHandedOn

LEMMA ExpireNextCovers ==
  ASSUME DInv, NEW p \in Procs, ExpireNext(p), NEW a \in Agents,
         status[a] = "queued" => Covered(a), status'[a] = "queued"
  PROVE  Covered(a)'
<1>1. /\ at[p] = "expiring"
      /\ published' = [o \in Operators |-> IF o = p THEN todo'[p] ELSE published[o]]
      /\ UNCHANGED <<queueVars, batch, row, job>>
  BY DEF ExpireNext
<1>2. a \in NewlyQueued \/ Covered(a)
  BY DEF NewlyQueued
<1>3. NewlyQueued \in SUBSET Agents /\ todo[p] \in SUBSET Agents
  BY QueueTypes DEF NewlyQueued
<1>4. CASE Publish(p, todo[p] \cup NewlyQueued, TRUE, AfterExpiry(p))
  <2>1. AfterExpiry(p) \in ThenSteps
    BY DEF AfterExpiry, ThenSteps
  <2>2. \A o \in Operators \ {p} : published'[o] = published[o]
    BY <1>1
  <2> DEFINE A == todo[p] \cup NewlyQueued
  <2>3. A \in SUBSET Agents /\ todo[p] \subseteq A /\ (a \in A \/ Covered(a))
    BY <1>2, <1>3
  <2>4. Publish(p, A, TRUE, AfterExpiry(p))
    BY <1>4
  <2> HIDE DEF A
  <2> QED
    BY <1>1, <2>1, <2>2, <2>3, <2>4, PublishingCovers
<1>5. CASE /\ todo' = [todo EXCEPT ![p] = @ \cup NewlyQueued]
           /\ UNCHANGED <<at, then>>
  <2>1. todo'[p] = todo[p] \cup NewlyQueued /\ Elsewhere(p) /\ at'[p] # "mark"
    BY <1>1, <1>5, QueueTypes DEF Elsewhere
  <2>2. CASE a \in NewlyQueued
    BY <2>1, <2>2, PublisherCovers
  <2>3. CASE Covered(a)
    BY <1>1, <2>1, <2>3, CoverStays DEF queueVars
  <2> QED
    BY <1>2, <2>2, <2>3
<1> QED
  BY <1>4, <1>5 DEF ExpireNext

\* A completion that exhausts the budget leaves nothing queued.
LEMMA NothingQueuedOverBudget ==
  ASSUME NEW b, NEW i, NEW c, CompleteAgent(b, i, c), NEW a \in Agents,
         status'[a] = "queued"
  PROVE  BudgetAction(cost_usd') \notin {"pause", "cancel"}
<1> DEFINE done == MarkNewlyReady(Updated(status, {b}, "completed"))
<1>1. \/ BudgetAction(cost_usd') \in {"none", "warn"}
      \/ status' = Paused(done) \/ status' = Stopped(done)
  BY DEF CompleteAgent
<1> HIDE DEF done
<1>2. status' # Paused(done)
  BY DEF Paused, Updated, Rows
<1>3. status' # Stopped(done)
  BY DEF Stopped, Updated, Rows, LiveAgentStatuses
<1> QED
  BY <1>1, <1>2, <1>3

LEMMA ReportCompletionCovers ==
  ASSUME DInv, ConcurrencyLimit = 0, NEW w \in Workers, ReportCompletion(w),
         NEW a \in Agents, status[a] = "queued" => Covered(a), status'[a] = "queued"
  PROVE  Covered(a)'
<1>1. /\ at[w] = "exec" /\ w \in Procs /\ todo[w] = {}
      /\ UNCHANGED <<queueVars, batch, row, published>>
      /\ \A v \in Workers \ {w} : job'[v] = job[v]
  BY HeldAt, QueueTypes DEF ReportCompletion, Executed, Procs, PublishSteps
<1>2. "again" \in ThenSteps /\ "again" \in Steps
  BY DEF ThenSteps, Steps
<1>3. CASE Owns(job[w], Attempt(w))
  <2>1. PICK c \in Costs : CompleteAgent(job[w], Attempt(w), c)
    BY <1>3 DEF ReportCompletion
  <2>2. BudgetAction(cost_usd') \notin {"pause", "cancel"}
    BY <2>1, NothingQueuedOverBudget
  <2>3. Publish(w, ReadyAgents(status'), TRUE, "again")
    BY <1>3, <2>2 DEF ReportCompletion
  <2>4. a \in ReadyAgents(status') /\ ReadyAgents(status') \in SUBSET Agents
    BY ReadyAgentsAreAll DEF Rows
  <2> QED
    BY <1>1, <1>2, <2>3, <2>4, PublishingCovers
<1>4. CASE ~Owns(job[w], Attempt(w))
  <2>1. GoTo(w, "again") /\ UNCHANGED todo /\ status' = status
    BY <1>4 DEF ReportCompletion, vars
  <2>2. Settled(w) /\ at'[w] = "again"
    BY <1>1, <1>2, <2>1, SettledByGoTo
  <2>3. Elsewhere(w) /\ at'[w] # "mark"
    BY <1>1, <2>2, ElsewhereWhenSettled
  <2> QED
    BY <1>1, <2>1, <2>3, CoverStays DEF queueVars
<1> QED
  BY <1>3, <1>4

LEMMA ReportFailureCovers ==
  ASSUME DInv, NEW w \in Workers, ReportFailure(w),
         NEW a \in Agents, status[a] = "queued" => Covered(a), status'[a] = "queued"
  PROVE  Covered(a)'
<1>1. /\ at[w] = "exec" /\ w \in Procs /\ todo[w] = {}
      /\ UNCHANGED <<queueVars, batch, row, published>>
      /\ \A v \in Workers \ {w} : job'[v] = job[v]
  BY HeldAt, QueueTypes DEF ReportFailure, Executed, Procs, PublishSteps
<1>2. "drain" \in ThenSteps /\ "drain" \in Steps
  BY DEF ThenSteps, Steps
<1>3. CASE Owns(job[w], Attempt(w))
  <2>1. Publish(w, NewlyQueued, TRUE, "drain")
    BY <1>3 DEF ReportFailure
  <2>2. NewlyQueued \in SUBSET Agents /\ (a \in NewlyQueued \/ Covered(a))
    BY DEF NewlyQueued
  <2> QED
    BY <1>1, <1>2, <2>1, <2>2, PublishingCovers
<1>4. CASE ~Owns(job[w], Attempt(w))
  <2>1. GoTo(w, "drain") /\ UNCHANGED todo /\ status' = status
    BY <1>4 DEF ReportFailure, vars
  <2>2. Settled(w) /\ at'[w] = "drain"
    BY <1>1, <1>2, <2>1, SettledByGoTo
  <2>3. Elsewhere(w) /\ at'[w] # "mark"
    BY <1>1, <2>2, ElsewhereWhenSettled
  <2> QED
    BY <1>1, <2>1, <2>3, CoverStays DEF queueVars
<1> QED
  BY <1>3, <1>4

LEMMA EnqueueNewlyReadyAgentsCovers ==
  ASSUME DInv, ConcurrencyLimit = 0, NEW w \in Workers, EnqueueNewlyReadyAgents(w),
         NEW a \in Agents, status'[a] = "queued"
  PROVE  Covered(a)'
<1>1. /\ at[w] = "again" /\ w \in Procs /\ todo[w] = {}
      /\ UNCHANGED <<queueVars, batch, row, job, published>>
      /\ Publish(w, ReadyAgents(status'), FALSE, "drain")
  BY HeldAt DEF EnqueueNewlyReadyAgents, Procs, PublishSteps
<1>2. a \in ReadyAgents(status') /\ ReadyAgents(status') \in SUBSET Agents
  BY ReadyAgentsAreAll DEF Rows
<1>3. "drain" \in ThenSteps
  BY DEF ThenSteps
<1> QED
  BY <1>1, <1>2, <1>3, PublishingCovers

\* The promotion of resume_run queues nothing: what is unblocked was queued.
LEMMA PromotionQueuesNothing ==
  ASSUME PendingWaitsForADependency, MarkNewlyReadyAgents, NEW a \in Agents
  PROVE  status'[a] = status[a]
<1>1. NewlyReady(status) = {}
  BY DEF PendingWaitsForADependency, MarkNewlyReadyAgents, NewlyReady, Rows
<1> QED
  BY <1>1 DEF MarkNewlyReadyAgents, MarkNewlyReady, Updated

LEMMA CommandsCover ==
  ASSUME DInv, TypeOK, PendingWaitsForADependency, NEW c \in Clients,
         PromoteResumed(c) \/ Command(c),
         NEW a \in Agents, status[a] = "queued" => Covered(a), status'[a] = "queued"
  PROVE  Covered(a)'
<1>0. c \in Procs /\ Home(c) \in ThenSteps /\ Home(c) \in Steps
  BY Homes DEF Procs
<1>1. ASSUME ResumeCommand(c)
      PROVE  Covered(a)'
  <2>1. /\ at[c] = "command" /\ todo' = [todo EXCEPT ![c] = NewlyQueued]
        /\ GoTo(c, "promote")
        /\ UNCHANGED <<queueVars, batch, row, job, published, faultVars>>
        /\ todo[c] = {}
    BY <1>0, <1>1, HeldAt DEF ResumeCommand, PublishSteps
  <2>2. at'[c] = "promote" /\ \A q \in Procs \ {c} : at'[q] = at[q]
    BY <1>0, <2>1, GoToShape DEF Steps
  <2>3. todo'[c] = NewlyQueued /\ \A q \in Procs \ {c} : todo'[q] = todo[q]
    BY <1>0, <2>1, QueueTypes
  <2>4. Elsewhere(c)
    BY <2>1, <2>2, <2>3 DEF Elsewhere
  <2>5. CASE a \in NewlyQueued
    BY <1>0, <2>3, <2>5, PublisherCovers
  <2>6. CASE a \notin NewlyQueued
    <3>1. Covered(a)
      BY <2>6 DEF NewlyQueued
    <3> QED
      BY <1>0, <2>1, <2>2, <2>4, <3>1, CoverStays DEF queueVars
  <2> QED
    BY <2>5, <2>6
<1>2. ASSUME PromoteResumed(c)
      PROVE  Covered(a)'
  <2>1. /\ at[c] = "promote" /\ at' = [at EXCEPT ![c] = "refresh"]
        /\ UNCHANGED <<queueVars, then, todo, batch, row, job, published, faultVars>>
    BY <1>2 DEF PromoteResumed
  <2>2. Covered(a)
    BY <1>2, PromotionQueuesNothing DEF PromoteResumed
  <2>3. Elsewhere(c) /\ at'[c] = "refresh"
    BY <1>0, <2>1, QueueTypes DEF Elsewhere
  <2> QED
    BY <1>0, <2>1, <2>2, <2>3, CoverStays DEF queueVars
<1>3. ~CancelCommand(c)
  BY DEF CancelCommand, CancelRun, Stopped, Updated, Rows, LiveAgentStatuses
<1>4. ASSUME NEW b \in WorkerNames, CancelWorker(c, b)
      PROVE  Covered(a)'
  <2>1. /\ at[c] = "command" /\ Publish(c, {}, TRUE, Home(c)) /\ todo[c] = {}
        /\ UNCHANGED <<queueVars, batch, row, job, published, faultVars>>
    BY <1>0, <1>4, HeldAt DEF CancelWorker, PublishSteps
  <2>2. Covered(a)
    <3>1. status' = [status EXCEPT ![b] = "cancelled"]
      BY <1>4 DEF CancelWorker, CancelAgent
    <3> QED
      BY <3>1 DEF TypeOK
  <2> QED
    BY <1>0, <2>1, <2>2, PublishingCovers
<1>5. ASSUME NEW m \in Managers, NEW d \in DynamicAgents, SpawnWorker(c, m, d)
      PROVE  Covered(a)'
  <2>1. /\ at[c] = "command" /\ Publish(c, {d}, FALSE, Home(c)) /\ todo[c] = {}
        /\ UNCHANGED <<queueVars, batch, row, job, published, faultVars>>
        /\ {d} \in SUBSET Agents
    BY <1>0, <1>5, HeldAt DEF SpawnWorker, PublishSteps, Agents
  <2>2. a \in {d} \/ Covered(a)
    <3>1. status' = [status EXCEPT ![d] = "queued"]
      BY <1>5 DEF SpawnWorker, SpawnWorkerAgent
    <3> QED
      BY <3>1 DEF TypeOK
  <2> QED
    BY <1>0, <2>1, <2>2, PublishingCovers
<1> QED
  BY <1>1, <1>2, <1>3, <1>4, <1>5 DEF Command

-----------------------------------------------------------------------------
\* A failure or a crash is counted, and nothing else is.
LEMMA FaultsAreCounted ==
  ASSUME DInv, [DispatchNext]_dispatchVars, failures' = 0, crashes' = 0
  PROVE  /\ failures = 0 /\ crashes = 0
         /\ \A p \in Procs : ~EnqueueFails(p) /\ ~Crash(p)
<1>0. failures \in Nat /\ crashes \in Nat
  BY QueueTypes, DispatchAssumption
<1>1. \A p \in Procs : ~EnqueueFails(p) /\ ~Crash(p)
  BY <1>0 DEF EnqueueFails, Crash
<1>2. ASSUME NEW p \in Procs, PublishStep(p) \/ PublishReadyAgents(p)
      PROVE  UNCHANGED faultVars
  BY <1>2 DEF PublishStep, RecordQueueOutbox, EnqueueAgent, MarkOutboxPublished, Refresh,
     PublishReadyAgents
<1>3. ASSUME NEW p \in Procs, ExpireLeases(p) \/ ExpireNext(p)
      PROVE  UNCHANGED faultVars
  BY <1>3 DEF ExpireLeases, ExpireNext
<1>4. ASSUME NEW w \in Workers, WorkerStep(w)
      PROVE  UNCHANGED faultVars
  <2>0. w \in Procs
    BY DEF Procs
  <2>1. CASE DrainQueueOutbox(w) \/ RelayRow(w) \/ ReadAgent(w) \/ ClaimNextAgent(w)
    BY <2>1 DEF DrainQueueOutbox, RelayRow, ReadAgent, ClaimNextAgent
  <2>2. CASE ReportCompletion(w) \/ ReportFailure(w) \/ EnqueueNewlyReadyAgents(w)
    BY <2>2 DEF ReportCompletion, ReportFailure, Executed, EnqueueNewlyReadyAgents
  <2> QED
    BY <1>2, <1>3, <1>4, <2>0, <2>1, <2>2 DEF WorkerStep
<1>5. ASSUME NEW c \in Clients, ClientStep(c) \/ Command(c)
      PROVE  UNCHANGED faultVars
  <2>0. c \in Procs
    BY DEF Procs
  <2> QED
    BY <1>2, <1>5, <2>0 DEF ClientStep, Command, PromoteResumed, ResumeCommand,
       CancelCommand, CancelWorker, SpawnWorker
<1>6. UNCHANGED faultVars
  BY <1>1, <1>2, <1>3, <1>4, <1>5
  DEF DispatchNext, SubmitterStep, OperatorStep, LeasePasses, dispatchVars, Procs
<1> QED
  BY <1>1, <1>6 DEF faultVars

LEMMA StepKeepsCover ==
  ASSUME DInv, ConcurrencyLimit = 0, TypeOK, PendingWaitsForADependency,
         QueuedAgentHasAWakeup, [DispatchNext]_dispatchVars
  PROVE  QueuedAgentHasAWakeup'
<1> SUFFICES ASSUME failures' = 0, crashes' = 0,
                    NEW a \in Agents, status'[a] = "queued"
             PROVE  Covered(a)'
  BY DEF QueuedAgentHasAWakeup
<1>0. Submitter \in Procs /\ Workers \subseteq Procs /\ Operators \subseteq Procs
      /\ Clients \subseteq Procs
  BY DEF Procs
<1>1. /\ status[a] = "queued" => Covered(a)
      /\ \A p \in Procs : ~EnqueueFails(p) /\ ~Crash(p)
  BY FaultsAreCounted DEF QueuedAgentHasAWakeup
<1>2. ASSUME NEW p \in Procs, PublishStep(p)
      PROVE  Covered(a)'
  <2>1. status' = status
    BY <1>2 DEF PublishStep, RecordQueueOutbox, EnqueueAgent, MarkOutboxPublished, Refresh,
       RefreshRunStatus, vars
  <2> QED
    BY <1>1, <1>2, <2>1, RecordQueueOutboxCovers, EnqueueAgentCovers,
       MarkOutboxPublishedCovers, RefreshCovers DEF PublishStep
<1>3. ASSUME NEW p \in Procs, PublishReadyAgents(p)
      PROVE  Covered(a)'
  <2>1. status' = status
    BY <1>3 DEF PublishReadyAgents, vars
  <2> QED
    BY <1>1, <1>3, <2>1, PublishReadyAgentsCovers
<1>4. ASSUME NEW p \in Procs, ExpireLeases(p) \/ ExpireNext(p)
      PROVE  Covered(a)'
  <2>1. ExpireLeases(p) => status' = status
    BY DEF ExpireLeases, ExpireStaleLeases, vars
  <2> QED
    BY <1>1, <1>4, <2>1, ExpireLeasesCovers, ExpireNextCovers
<1>5. ASSUME NEW w \in Workers, WorkerStep(w)
      PROVE  Covered(a)'
  <2>1. CASE DrainQueueOutbox(w) \/ RelayRow(w) \/ ReadAgent(w)
    <3>1. status' = status
      BY <2>1 DEF DrainQueueOutbox, RelayRow, ReadAgent, vars
    <3> QED
      BY <1>1, <2>1, <3>1, RelayCovers, ReadAgentCovers
  <2>2. CASE ClaimNextAgent(w)
    <3>1. status[a] = "queued"
      <4>1. ASSUME ClaimAgent(job[w])
            PROVE  status[a] = "queued"
        BY <4>1 DEF ClaimAgent, TypeOK
      <4> QED
        BY <2>2, <4>1 DEF ClaimNextAgent, vars
    <3> QED
      BY <1>1, <2>2, <3>1, ClaimNextAgentCovers
  <2> QED
    BY <1>0, <1>1, <1>2, <1>4, <1>5, <2>1, <2>2, ReportCompletionCovers,
       ReportFailureCovers, EnqueueNewlyReadyAgentsCovers DEF WorkerStep
<1>6. ASSUME NEW c \in Clients, ClientStep(c) \/ Command(c)
      PROVE  Covered(a)'
  BY <1>0, <1>1, <1>2, <1>6, CommandsCover DEF ClientStep
<1>7. ASSUME UNCHANGED <<status, queueVars, procVars>>
      PROVE  Covered(a)'
  BY <1>1, <1>7 DEF queueVars, procVars, Covered, HasHint, HasRow, HasPublisher, HasClaimant
<1>8. \A b \in Agents : LeasePasses(b) => UNCHANGED <<status, queueVars, procVars>>
  BY DEF LeasePasses, LeaseLapses
<1>9. UNCHANGED dispatchVars => UNCHANGED <<status, queueVars, procVars>>
  BY DEF dispatchVars, vars
<1> QED
  BY <1>0, <1>1, <1>2, <1>3, <1>4, <1>5, <1>6, <1>7, <1>8, <1>9
  DEF DispatchNext, SubmitterStep, OperatorStep

LEMMA InitCover ==
  ASSUME DispatchInit
  PROVE  QueuedAgentHasAWakeup
<1>1. Submitter \in Procs /\ at[Submitter] = "ready"
  BY DEF DispatchInit, Procs
<1>2. \A o \in Operators : published[o] = {}
  BY DEF DispatchInit
<1>3. \A a \in Agents : HasPublisher(a)
  BY <1>1, <1>2 DEF HasPublisher
<1> QED
  BY <1>3 DEF QueuedAgentHasAWakeup, Covered

(***************************************************************************)
(* No step of submit_plan, run_poll, reconcile, resume or the tools of a   *)
(* manager loses the wakeup of a queued agent, in any order: what is       *)
(* queued is published by the process that queued it, an outbox row stays  *)
(* until its hint is sent, and a hint that is read is claimed.             *)
(***************************************************************************)
THEOREM NoWakeupIsLost == DispatchSpec => []QueuedAgentHasAWakeup
<1>1. ASSUME DInv, TypeOK, PendingWaitsForADependency, QueuedAgentHasAWakeup,
             [DispatchNext]_dispatchVars
      PROVE  QueuedAgentHasAWakeup'
  <2>1. CASE ConcurrencyLimit = 0
    BY <1>1, <2>1, StepKeepsCover
  <2>2. CASE ConcurrencyLimit # 0
    BY <2>2 DEF QueuedAgentHasAWakeup
  <2> QED
    BY <2>1, <2>2
<1>2. DispatchSpec => [](TypeOK /\ PendingWaitsForADependency)
  BY DispatchRunsTheRows, TypeCorrectness, NoPromotionIsMissed, PTL
<1> QED
  BY <1>1, <1>2, InitCover, DispatchInvariance, PTL DEF DispatchSpec
=============================================================================
