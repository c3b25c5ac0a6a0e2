--------------------------- MODULE RunState_proofs ---------------------------
(***************************************************************************)
(* Theorems about RunState, for every plan and every policy.               *)
(*                                                                         *)
(* Every action but a claim, a spawn and the two halves of an open expiry  *)
(* changes the rows in a way RowStep describes.  The inductive invariant   *)
(* is shown to be preserved by a RowStep once, and each action is shown to *)
(* be a RowStep.                                                           *)
(***************************************************************************)
EXTENDS RunState, SequenceTheorems, FiniteSetTheorems, TLAPS

StatusColumn == [Agents -> AgentStatuses]
AttemptsColumn == [Agents -> Seq(AttemptStatuses)]

-----------------------------------------------------------------------------
(* The helpers of the actions. *)

\* Completing agents unblocks others and blocks none.
LEMMA UnblockedGrows ==
  ASSUME NEW s, NEW t, \A d \in Agents : s[d] = "completed" => t[d] = "completed"
  PROVE  \A a \in Agents : Unblocked(s, a) => Unblocked(t, a)
  BY AgentsAssumption DEF Unblocked, Agents

\* Promotion queues unblocked pending rows and changes nothing else.
LEMMA MarkNewlyReadyRows ==
  ASSUME NEW s \in StatusColumn
  PROVE  /\ MarkNewlyReady(s) \in StatusColumn
         /\ \A a \in Agents :
              \/ MarkNewlyReady(s)[a] = s[a]
              \/ /\ s[a] = "pending"
                 /\ MarkNewlyReady(s)[a] = "queued"
                 /\ Unblocked(s, a)
  BY DEF MarkNewlyReady, NewlyReady, Rows, Updated, StatusColumn, AgentStatuses,
         LiveAgentStatuses

\* A failure fails waiting rows and promotes others, and no more.
LEMMA FailDependencyBlockedRows ==
  ASSUME NEW s \in StatusColumn, NEW f \in Agents
  PROVE  /\ FailDependencyBlocked(s, f) \in StatusColumn
         /\ \A a \in Agents :
              \/ FailDependencyBlocked(s, f)[a] = s[a]
              \/ /\ s[a] \in {"pending", "queued"}
                 /\ FailDependencyBlocked(s, f)[a] = "failed"
              \/ /\ s[a] = "pending"
                 /\ FailDependencyBlocked(s, f)[a] = "queued"
                 /\ Unblocked(s, a)
<1> DEFINE blocked == DependencyBlocked(s, f)
           u == Updated(s, blocked, "failed")
<1>1. blocked \in SUBSET Rows(s, {"pending", "queued"})
  BY DEF DependencyBlocked
<1>2. blocked \in SUBSET Agents
  BY <1>1 DEF Rows
<1>3. \A a \in blocked : s[a] \in {"pending", "queued"}
  BY <1>1 DEF Rows
<1>4. /\ u \in StatusColumn
      /\ \A a \in blocked : u[a] = "failed"
      /\ \A a \in Agents \ blocked : u[a] = s[a]
  <2>1. "failed" \in AgentStatuses
    BY DEF AgentStatuses, TerminalAgentStatuses
  <2> HIDE DEF blocked
  <2> QED
    BY <1>2, <2>1 DEF Updated, StatusColumn
<1>5. ASSUME NEW a \in Agents, Unblocked(u, a)
      PROVE  Unblocked(s, a)
  <2> SUFFICES ASSUME NEW d \in Deps[a]
               PROVE  s[d] = "completed"
    BY DEF Unblocked
  <2>1. u[d] = "completed" /\ d \in Agents
    BY <1>5, AgentsAssumption DEF Unblocked, Agents
  <2> QED
    BY <2>1, <1>4
<1>6. FailDependencyBlocked(s, f) = MarkNewlyReady(u)
  BY DEF FailDependencyBlocked
<1> HIDE DEF blocked, u
<1>7. /\ MarkNewlyReady(u) \in StatusColumn
      /\ \A a \in Agents :
              \/ MarkNewlyReady(u)[a] = u[a]
              \/ /\ u[a] = "pending"
                 /\ MarkNewlyReady(u)[a] = "queued"
                 /\ Unblocked(u, a)
  BY <1>4, MarkNewlyReadyRows
<1> QED
  BY <1>3, <1>4, <1>5, <1>6, <1>7

\* Finishing attempts keeps their number, and the status of the finished.
LEMMA FinishedColumn ==
  ASSUME NEW at \in AttemptsColumn, NEW rows,
         NEW outcome \in AttemptStatuses
  PROVE  /\ Finished(at, rows, outcome) \in AttemptsColumn
         /\ \A a \in Agents :
              /\ Len(Finished(at, rows, outcome)[a]) = Len(at[a])
              /\ DOMAIN Finished(at, rows, outcome)[a] = DOMAIN at[a]
              /\ \A i \in DOMAIN at[a] :
                   Finished(at, rows, outcome)[a][i] =
                     IF a \in rows /\ at[a][i] = "running" THEN outcome ELSE at[a][i]
<1> DEFINE row(a) == [i \in DOMAIN at[a] |->
                        IF at[a][i] = "running" THEN outcome ELSE at[a][i]]
<1>1. ASSUME NEW a \in Agents
      PROVE  /\ row(a) \in Seq(AttemptStatuses)
             /\ Len(row(a)) = Len(at[a])
             /\ DOMAIN row(a) = DOMAIN at[a]
  <2>1. at[a] \in Seq(AttemptStatuses)
    BY DEF AttemptsColumn
  <2>2. /\ Len(at[a]) \in Nat
        /\ DOMAIN at[a] = 1..Len(at[a])
        /\ \A i \in DOMAIN at[a] : at[a][i] \in AttemptStatuses
    BY <2>1, LenProperties, ElementOfSeq
  <2>3. row(a) \in [1..Len(at[a]) -> AttemptStatuses]
    BY <2>2
  <2> QED
    BY <2>2, <2>3, SMT
<1>2. ASSUME NEW a \in Agents
      PROVE  Finished(at, rows, outcome)[a] = IF a \in rows THEN row(a) ELSE at[a]
  BY DEF Finished
<1>3. Finished(at, rows, outcome) \in AttemptsColumn
  BY <1>1, <1>2 DEF Finished, AttemptsColumn
<1> QED
  BY <1>1, <1>2, <1>3

-----------------------------------------------------------------------------
(***************************************************************************)
(* The inductive invariant: a claim is safe because of what holds of the   *)
(* queued rows, and an expiry because of what held when it read the rows.  *)
(***************************************************************************)
IInv == /\ TypeOK
        /\ LeaseOwnership
        /\ RetryBudgetBoundsAttempts
        /\ DependenciesCompletedFirst
        /\ ExpiringRows

\* What a transaction may do to a row unless it claims or inserts it: to its
\* attempts and its lease, and to the rest.
LeaseStep(a) ==
  /\ Len(attempts'[a]) = Len(attempts[a])
  /\ DOMAIN attempts'[a] = DOMAIN attempts[a]
  /\ \A i \in DOMAIN attempts[a] :
       attempts[a][i] # "running" => attempts'[a][i] = attempts[a][i]
  /\ status'[a] = "running" =>
       /\ status[a] = "running"
       /\ attempts'[a] = attempts[a]
       /\ lease_token'[a] = lease_token[a]
       /\ leased_until'[a] # "null"
  /\ status'[a] # "running" =>
       /\ lease_token'[a] = 0
       /\ leased_until'[a] = "null"
       /\ \A i \in DOMAIN attempts[a] : attempts'[a][i] # "running"

StatusStep(a) ==
  /\ status[a] = "completed" => status'[a] = "completed"
  /\ status'[a] = "completed" => status[a] \in {"running", "completed"}
  /\ status'[a] = "queued" => status[a] = "queued" \/ Unblocked(status', a)
  /\ \/ /\ retry_attempt'[a] = retry_attempt[a]
        /\ status'[a] \in {"absent", "pending", "queued", "paused"} =>
             status[a] \in {"absent", "pending", "queued", "paused"}
     \/ /\ retry_attempt'[a] = retry_attempt[a] + 1
        /\ CanRetry(a)
  /\ a \in expiring' =>
       /\ status'[a] \in {"running", "cancelled"}
       /\ a \in expiring \/ status[a] = "running"

RowStep(a) == LeaseStep(a) /\ StatusStep(a)

LEMMA RowStepPreservesIInv ==
  ASSUME IInv, TypeOK', \A a \in Agents : RowStep(a)
  PROVE  IInv'
<1>1. \A a \in Agents : Unblocked(status, a) => Unblocked(status', a)
  BY UnblockedGrows DEF RowStep, StatusStep
<1>2. LeaseOwnership'
  <2> SUFFICES ASSUME NEW a \in Agents
               PROVE  /\ status'[a] = "running" <=> lease_token'[a] # 0
                      /\ lease_token'[a] # 0 <=> leased_until'[a] # "null"
                      /\ lease_token'[a] # 0 => lease_token'[a] = Len(attempts'[a])
                      /\ \A i \in DOMAIN attempts'[a] :
                           attempts'[a][i] = "running" <=> lease_token'[a] = i
    BY DEF LeaseOwnership
  <2>1. CASE status'[a] = "running"
    BY <2>1 DEF RowStep, LeaseStep, StatusStep, IInv, LeaseOwnership
  <2>2. CASE status'[a] # "running"
    <3>1. \A i \in DOMAIN attempts[a] : i # 0
      BY LenProperties DEF IInv, TypeOK
    <3> QED
      BY <2>2, <3>1 DEF RowStep, LeaseStep
  <2> QED
    BY <2>1, <2>2
<1>3. RetryBudgetBoundsAttempts'
  <2> SUFFICES ASSUME NEW a \in Agents
               PROVE  /\ retry_attempt'[a] <= RetryCount[a]
                      /\ Len(attempts'[a]) <= retry_attempt'[a] + 1
                      /\ status'[a] \in {"absent", "pending", "queued", "paused"} =>
                           Len(attempts'[a]) <= retry_attempt'[a]
    BY DEF RetryBudgetBoundsAttempts
  <2>1. /\ retry_attempt[a] \in Nat
        /\ RetryCount[a] \in Nat
        /\ Len(attempts[a]) \in Nat
    BY PolicyAssumption, LenProperties DEF IInv, TypeOK
  <2> QED
    BY <2>1 DEF RowStep, LeaseStep, StatusStep, IInv, RetryBudgetBoundsAttempts, CanRetry
<1>4. DependenciesCompletedFirst'
  BY <1>1 DEF DependenciesCompletedFirst, RowStep, LeaseStep, StatusStep, IInv
<1>5. ExpiringRows'
  <2>1. expiring' \subseteq Agents
    BY DEF TypeOK
  <2> QED
    BY <1>1, <2>1 DEF ExpiringRows, DependenciesCompletedFirst, RowStep, StatusStep, IInv
<1> QED
  BY <1>2, <1>3, <1>4, <1>5 DEF IInv

-----------------------------------------------------------------------------
(* Each action keeps the types, and is a RowStep unless it claims or spawns. *)

\* What the invariant says of one row, in the form the actions use.
LEMMA RowFacts ==
  ASSUME IInv, NEW a \in Agents
  PROVE  /\ status[a] \in AgentStatuses
         /\ retry_attempt[a] \in Nat
         /\ attempts[a] \in Seq(AttemptStatuses)
         /\ Len(attempts[a]) \in Nat
         /\ DOMAIN attempts[a] = 1..Len(attempts[a])
         /\ status[a] # "running" =>
              /\ lease_token[a] = 0
              /\ leased_until[a] = "null"
              /\ \A i \in DOMAIN attempts[a] : attempts[a][i] # "running"
         /\ status[a] = "running" => leased_until[a] # "null"
<1>1. /\ attempts[a] \in Seq(AttemptStatuses)
      /\ Len(attempts[a]) \in Nat
      /\ DOMAIN attempts[a] = 1..Len(attempts[a])
  BY LenProperties DEF IInv, TypeOK
<1>2. status[a] \in AgentStatuses /\ retry_attempt[a] \in Nat
  BY DEF IInv, TypeOK
<1>3. status[a] # "running" => lease_token[a] = 0 /\ leased_until[a] = "null"
  BY DEF IInv, LeaseOwnership
<1>4. \A i \in DOMAIN attempts[a] : attempts[a][i] = "running" => lease_token[a] = i
  BY DEF IInv, LeaseOwnership
<1>5. status[a] # "running" => \A i \in DOMAIN attempts[a] : attempts[a][i] # "running"
  BY <1>1, <1>3, <1>4
<1>6. status[a] = "running" => leased_until[a] # "null"
  BY DEF IInv, LeaseOwnership
<1> QED
  BY <1>1, <1>2, <1>3, <1>5, <1>6

\* The running attempts of some rows have got an outcome.
EndedColumn(at, new, rows) ==
  /\ new \in AttemptsColumn
  /\ \A a \in Agents :
       /\ Len(new[a]) = Len(at[a])
       /\ DOMAIN new[a] = DOMAIN at[a]
       /\ a \notin rows => new[a] = at[a]
       /\ \A i \in DOMAIN at[a] :
            IF at[a][i] = "running" /\ a \in rows
            THEN new[a][i] # "running"
            ELSE new[a][i] = at[a][i]

\* Rows end together: their leases are released, their attempts have ended.
Ends(rows) == ReleaseLeases(rows) /\ EndedColumn(attempts, attempts', rows)

LEMMA EndsOnce ==
  ASSUME IInv, NEW rows, NEW outcome \in AttemptStatuses,
         outcome # "running", ReleaseLeases(rows),
         attempts' = Finished(attempts, rows, outcome)
  PROVE  Ends(rows)
<1>1. attempts \in AttemptsColumn
  BY DEF IInv, TypeOK, AttemptsColumn
<1>2. \A a \in Agents \ rows : Finished(attempts, rows, outcome)[a] = attempts[a]
  BY DEF Finished
<1> QED
  BY <1>1, <1>2, FinishedColumn DEF Ends, EndedColumn

LEMMA FinishedTwice ==
  ASSUME NEW at \in AttemptsColumn, NEW first, NEW rows,
         NEW outcome \in AttemptStatuses, NEW last \in AttemptStatuses,
         outcome # "running", last # "running"
  PROVE  EndedColumn(at, Finished(Finished(at, first, outcome), rows, last),
                     first \cup rows)
<1> DEFINE once == Finished(at, first, outcome)
           twice == Finished(once, rows, last)
<1>1. once \in AttemptsColumn
  BY FinishedColumn
<1>2. \A a \in Agents :
        /\ Len(once[a]) = Len(at[a])
        /\ DOMAIN once[a] = DOMAIN at[a]
        /\ \A i \in DOMAIN at[a] :
             once[a][i] = IF a \in first /\ at[a][i] = "running"
                          THEN outcome ELSE at[a][i]
  BY FinishedColumn
<1>3. \A a \in Agents \ (first \cup rows) : twice[a] = at[a]
  BY DEF Finished
<1> HIDE DEF once
<1>4. twice \in AttemptsColumn
  BY <1>1, FinishedColumn
<1>5. \A a \in Agents :
        /\ Len(twice[a]) = Len(once[a])
        /\ DOMAIN twice[a] = DOMAIN once[a]
        /\ \A i \in DOMAIN once[a] :
             twice[a][i] = IF a \in rows /\ once[a][i] = "running"
                           THEN last ELSE once[a][i]
  BY <1>1, FinishedColumn
<1> HIDE DEF twice
<1>6. \A a \in Agents :
        /\ Len(twice[a]) = Len(at[a])
        /\ DOMAIN twice[a] = DOMAIN at[a]
        /\ a \notin first \cup rows => twice[a] = at[a]
        /\ \A i \in DOMAIN at[a] :
             IF at[a][i] = "running" /\ a \in first \cup rows
             THEN twice[a][i] # "running"
             ELSE twice[a][i] = at[a][i]
  BY <1>2, <1>3, <1>5
<1> QED
  BY <1>4, <1>6 DEF once, twice, EndedColumn

LEMMA EndsTwice ==
  ASSUME IInv, NEW first, NEW rows, NEW outcome \in AttemptStatuses,
         outcome # "running", ReleaseLeases({first} \cup rows),
         attempts' = Finished(Finished(attempts, {first}, outcome), rows, "cancelled")
  PROVE  Ends({first} \cup rows)
<1>1. attempts \in AttemptsColumn /\ "cancelled" \in AttemptStatuses
  BY DEF IInv, TypeOK, AttemptsColumn, AttemptStatuses
<1> QED
  BY <1>1, FinishedTwice DEF Ends

LEMMA EndsIsLeaseStep ==
  ASSUME IInv, NEW rows, Ends(rows),
         \A a \in Agents : IF a \in rows THEN status'[a] # "running"
                          ELSE status'[a] = "running" <=> status[a] = "running"
  PROVE  \A a \in Agents : LeaseStep(a)
<1> SUFFICES ASSUME NEW a \in Agents
             PROVE  LeaseStep(a)
  OBVIOUS
<1>1. CASE a \in rows
  BY <1>1, RowFacts DEF Ends, EndedColumn, ReleaseLeases, Updated, LeaseStep
<1>2. CASE a \notin rows
  BY <1>2, RowFacts DEF Ends, EndedColumn, ReleaseLeases, Updated, LeaseStep
<1> QED
  BY <1>1, <1>2

\* Ending rows keeps the types of the columns it touches.
LEMMA EndsType ==
  ASSUME IInv, NEW rows, Ends(rows)
  PROVE  /\ attempts' \in [Agents -> Seq(AttemptStatuses)]
         /\ lease_token' \in [Agents -> Nat]
         /\ leased_until' \in [Agents -> {"null", "future", "past"}]
  BY DEF Ends, EndedColumn, ReleaseLeases, Updated, AttemptsColumn, IInv, TypeOK

LEMMA OweRefreshType ==
  ASSUME IInv, OweRefresh
  PROVE  refreshes' \in 0..MaxInFlight
  BY BoundAssumption DEF IInv, TypeOK, OweRefresh

\* The statuses the actions write are statuses.
LEMMA StatusValues ==
  /\ {"completed", "failed", "cancelled", "queued", "pending", "paused", "running"}
       \subseteq AgentStatuses
  /\ FailureAgentStatuses \subseteq AgentStatuses
  BY DEF AgentStatuses, LiveAgentStatuses, TerminalAgentStatuses, FailureAgentStatuses

LEMMA CancelAgentStep ==
  ASSUME IInv, NEW a \in Agents, CancelAgent(a)
  PROVE  TypeOK' /\ \A b \in Agents : RowStep(b)
<1>1. Ends({a})
  BY EndsOnce DEF CancelAgent, AttemptStatuses
<1>2. \A b \in Agents : LeaseStep(b)
  BY <1>1, EndsIsLeaseStep DEF CancelAgent, IInv, TypeOK
<1>3. \A b \in Agents : StatusStep(b)
  BY DEF CancelAgent, StatusStep, IInv, TypeOK, ExpiringRows, LiveAgentStatuses, Idle
<1>4. TypeOK'
  <2>1. status' \in [Agents -> AgentStatuses]
    BY StatusValues DEF CancelAgent, IInv, TypeOK
  <2>2. refreshes' \in 0..MaxInFlight
    BY OweRefreshType DEF CancelAgent
  <2> QED
    BY <1>1, <2>1, <2>2, EndsType DEF CancelAgent, IInv, TypeOK
<1> QED
  BY <1>2, <1>3, <1>4 DEF RowStep

LEMMA CancelRunStep ==
  ASSUME IInv, CancelRun
  PROVE  TypeOK' /\ \A b \in Agents : RowStep(b)
<1> DEFINE live == Rows(status, LiveAgentStatuses)
<1>1. Ends(live)
  BY EndsOnce DEF CancelRun, AttemptStatuses
<1>2. \A b \in Agents : LeaseStep(b)
  BY <1>1, EndsIsLeaseStep
     DEF Paused, Stopped, CancelRun, Rows, Updated, LiveAgentStatuses
<1>3. \A b \in Agents : StatusStep(b)
  BY DEF Paused, Stopped, CancelRun, StatusStep, Rows, Updated, LiveAgentStatuses, Idle
<1>4. TypeOK'
  <2>1. status' \in [Agents -> AgentStatuses]
    BY StatusValues DEF Paused, Stopped, CancelRun, IInv, TypeOK, Updated
  <2>2. run_status' \in RunStatuses
    BY DEF CancelRun, RunStatuses
  <2> QED
    BY <1>1, <2>1, <2>2, EndsType DEF CancelRun, IInv, TypeOK
<1> QED
  BY <1>2, <1>3, <1>4 DEF RowStep

LEMMA ResumeRunStep ==
  ASSUME IInv, ResumeRun
  PROVE  TypeOK' /\ \A b \in Agents : RowStep(b)
<1> DEFINE retried == {a \in Rows(status, {"failed", "timeout"}) : CanRetry(a)}
           resumed == retried \cup Rows(status, {"paused"})
<1>1. \A b \in Agents : LeaseStep(b)
  BY RowFacts DEF ResumeRun, LeaseStep, Rows, ReleaseLeases, Updated
<1>2. \A b \in Agents : Unblocked(status, b) => Unblocked(status', b)
  BY UnblockedGrows DEF ResumeRun, Rows
<1>3. \A b \in Agents : StatusStep(b)
  BY <1>2 DEF ResumeRun, StatusStep, Rows, Idle, IInv, TypeOK
<1>4. TypeOK'
  <2>1. /\ status' \in [Agents -> AgentStatuses]
        /\ retry_attempt' \in [Agents -> Nat]
    BY StatusValues DEF ResumeRun, IInv, TypeOK
  <2>2. /\ lease_token' \in [Agents -> Nat]
        /\ leased_until' \in [Agents -> {"null", "future", "past"}]
    BY DEF ResumeRun, IInv, TypeOK, ReleaseLeases, Updated
  <2>3. run_status' \in RunStatuses
    BY DEF ResumeRun, RunStatuses
  <2>4. refreshes' \in 0..MaxInFlight
    BY OweRefreshType DEF ResumeRun
  <2> QED
    BY <2>1, <2>2, <2>3, <2>4 DEF ResumeRun, IInv, TypeOK
<1> QED
  BY <1>1, <1>3, <1>4 DEF RowStep

\* The clock and the renewals move leased_until of running rows only.
LEMMA LeaseClockStep ==
  ASSUME IInv, NEW a \in Agents,
         LeaseLapses(a) \/ RenewLease(a, lease_token[a])
  PROVE  TypeOK' /\ \A b \in Agents : RowStep(b)
<1>1. /\ UNCHANGED <<status, retry_attempt, lease_token, attempts, cost_usd,
                      run_status, expiring, refreshes>>
      /\ Idle
      /\ \E v \in {"future", "past"} : leased_until' = [leased_until EXCEPT ![a] = v]
      /\ status[a] = "running"
  BY RowFacts DEF LeaseLapses, RenewLease
<1>2. TypeOK'
  BY <1>1 DEF IInv, TypeOK
<1>3. \A b \in Agents : LeaseStep(b)
  BY <1>1, RowFacts DEF LeaseStep, IInv, TypeOK
<1>4. \A b \in Agents : StatusStep(b)
  BY <1>1 DEF StatusStep, Idle
<1> QED
  BY <1>2, <1>3, <1>4 DEF RowStep

LEMMA MarkNewlyReadyAgentsStep ==
  ASSUME IInv, MarkNewlyReadyAgents
  PROVE  TypeOK' /\ \A b \in Agents : RowStep(b)
<1>1. status \in StatusColumn
  BY DEF IInv, TypeOK, StatusColumn
<1>2. /\ status' \in StatusColumn
      /\ \A b \in Agents :
           \/ status'[b] = status[b]
           \/ /\ status[b] = "pending"
              /\ status'[b] = "queued"
              /\ Unblocked(status, b)
  BY <1>1, MarkNewlyReadyRows DEF MarkNewlyReadyAgents
<1>3. \A b \in Agents : Unblocked(status, b) => Unblocked(status', b)
  BY <1>2, UnblockedGrows
<1>4. TypeOK'
  BY <1>2 DEF MarkNewlyReadyAgents, IInv, TypeOK, StatusColumn
<1>5. \A b \in Agents : LeaseStep(b)
  BY <1>2, RowFacts DEF LeaseStep, MarkNewlyReadyAgents
<1>6. \A b \in Agents : StatusStep(b)
  BY <1>2, <1>3 DEF StatusStep, MarkNewlyReadyAgents, Idle
<1> QED
  BY <1>4, <1>5, <1>6 DEF RowStep

LEMMA ExpireStaleLeasesStep ==
  ASSUME IInv, ExpireStaleLeases
  PROVE  TypeOK' /\ \A b \in Agents : RowStep(b)
<1>1. TypeOK'
  BY DEF ExpireStaleLeases, IInv, TypeOK, Rows
<1>2. \A b \in Agents : LeaseStep(b)
  BY RowFacts DEF LeaseStep, ExpireStaleLeases
<1>3. \A b \in Agents : StatusStep(b)
  BY DEF StatusStep, ExpireStaleLeases, Rows
<1> QED
  BY <1>1, <1>2, <1>3 DEF RowStep

\* A refresh writes the status of the run only.
LEMMA RefreshStep ==
  ASSUME IInv, RefreshRunStatus \/ CallerDies
  PROVE  TypeOK' /\ \A b \in Agents : RowStep(b)
<1>1. UNCHANGED <<status, retry_attempt, lease_token, leased_until, attempts,
                  cost_usd, expiring>>
  BY DEF RefreshRunStatus, CallerDies
<1>2. refreshes' \in 0..MaxInFlight
  BY BoundAssumption DEF RefreshRunStatus, CallerDies, IInv, TypeOK
<1>3. run_status' \in RunStatuses
  <2>1. AggregateStatus \in RunStatuses
    BY DEF AggregateStatus, EndedVerdict, IInv, TypeOK, RunStatuses, TerminalAgentStatuses
  <2> QED
    BY <2>1 DEF RefreshRunStatus, CallerDies, IInv, TypeOK
<1>4. TypeOK'
  BY <1>1, <1>2, <1>3 DEF IInv, TypeOK
<1>5. \A b \in Agents : LeaseStep(b)
  BY <1>1, RowFacts DEF LeaseStep
<1>6. \A b \in Agents : StatusStep(b)
  BY <1>1 DEF StatusStep, RefreshRunStatus, CallerDies, Idle
<1> QED
  BY <1>4, <1>5, <1>6 DEF RowStep

\* The status column when a running agent has completed.
LEMMA CompletedColumn ==
  ASSUME IInv, NEW a \in Agents, status[a] = "running"
  PROVE  LET done == MarkNewlyReady(Updated(status, {a}, "completed")) IN
         /\ done \in StatusColumn
         /\ done[a] = "completed"
         /\ \A b \in Agents : b # a =>
              \/ done[b] = status[b]
              \/ /\ status[b] = "pending"
                 /\ done[b] = "queued"
                 /\ Unblocked(done, b)
<1> DEFINE s == Updated(status, {a}, "completed")
           done == MarkNewlyReady(s)
<1>1. /\ s \in StatusColumn
      /\ s[a] = "completed"
      /\ \A b \in Agents : b # a => s[b] = status[b]
  BY StatusValues DEF IInv, TypeOK, StatusColumn, Updated
<1> HIDE DEF s
<1>2. /\ done \in StatusColumn
      /\ \A b \in Agents :
           \/ done[b] = s[b]
           \/ s[b] = "pending" /\ done[b] = "queued" /\ Unblocked(s, b)
  BY <1>1, MarkNewlyReadyRows
<1> HIDE DEF done
<1>3. \A b \in Agents : Unblocked(s, b) => Unblocked(done, b)
  BY <1>2, UnblockedGrows
<1>4. /\ done[a] = "completed"
      /\ \A b \in Agents : b # a =>
           \/ done[b] = status[b]
           \/ status[b] = "pending" /\ done[b] = "queued" /\ Unblocked(done, b)
  BY <1>1, <1>2, <1>3
<1> QED
  BY <1>2, <1>4 DEF s, done

LEMMA CompleteAgentStep ==
  ASSUME IInv, NEW a \in Agents, NEW i \in DOMAIN attempts[a], NEW cost \in Costs,
         CompleteAgent(a, i, cost)
  PROVE  TypeOK' /\ \A b \in Agents : RowStep(b)
<1> DEFINE done == MarkNewlyReady(Updated(status, {a}, "completed"))
           live == Rows(done, LiveAgentStatuses)
           action == BudgetAction([cost_usd EXCEPT ![a] = cost])
           closed == Finished(attempts, {a}, "completed")
<1>1. /\ status[a] = "running"
      /\ UNCHANGED <<retry_attempt, expiring>>
      /\ Idle
      /\ cost_usd' = [cost_usd EXCEPT ![a] = cost]
      /\ OweRefresh
  BY DEF CompleteAgent, Owns
<1>2. /\ done \in StatusColumn
      /\ done[a] = "completed"
      /\ \A b \in Agents : b # a =>
           \/ done[b] = status[b]
           \/ status[b] = "pending" /\ done[b] = "queued" /\ Unblocked(done, b)
  BY <1>1, CompletedColumn
<1>3. \/ /\ status' = done
         /\ attempts' = closed
         /\ ReleaseLeases({a})
         /\ run_status' = run_status
      \/ /\ status' = Paused(done)
         /\ attempts' = closed
         /\ ReleaseLeases({a})
         /\ run_status' = "paused"
      \/ /\ status' = Stopped(done)
         /\ attempts' = Finished(closed, live, "cancelled")
         /\ ReleaseLeases({a} \cup live)
         /\ run_status' = "cost_exceeded"
  BY DEF CompleteAgent
<1>4. {"completed", "cancelled"} \subseteq AttemptStatuses
  BY DEF AttemptStatuses
<1> HIDE DEF done
<1>5. PICK rows : /\ Ends(rows)
                  /\ \/ /\ rows = {a}
                        /\ status' \in {done, Paused(done)}
                     \/ /\ rows = {a} \cup live
                        /\ status' = Stopped(done)
  BY <1>3, <1>4, EndsOnce, EndsTwice
<1>6. /\ status' \in StatusColumn
      /\ \A b \in Agents : done[b] = "completed" <=> status'[b] = "completed"
      /\ \A b \in Agents : status'[b] = "queued" => done[b] = "queued"
      /\ \A b \in Agents :
           status'[b] = done[b] \/ status'[b] = "cancelled"
           \/ (done[b] \in {"pending", "queued"} /\ status'[b] = "paused")
  BY <1>2, <1>3, StatusValues DEF Paused, Stopped, Updated, Rows, StatusColumn, LiveAgentStatuses
<1>7. \A b \in Agents : Unblocked(done, b) => Unblocked(status', b)
  BY <1>6, UnblockedGrows
<1>8. \A b \in Agents : LeaseStep(b)
  <2>1. \A b \in Agents : IF b \in rows THEN status'[b] # "running"
                           ELSE status'[b] = "running" <=> status[b] = "running"
    BY <1>1, <1>2, <1>3, <1>5 DEF Paused, Stopped, Updated, Rows, LiveAgentStatuses
  <2> QED
    BY <1>5, <2>1, EndsIsLeaseStep
<1>9. \A b \in Agents : StatusStep(b)
  BY <1>1, <1>2, <1>6, <1>7 DEF StatusStep, Idle
<1>10. TypeOK'
  <2>1. /\ attempts' \in [Agents -> Seq(AttemptStatuses)]
        /\ lease_token' \in [Agents -> Nat]
        /\ leased_until' \in [Agents -> {"null", "future", "past"}]
    BY <1>5, EndsType
  <2>2. cost_usd' \in [Agents -> Nat]
    BY <1>1, CostAssumption DEF IInv, TypeOK
  <2>3. run_status' \in RunStatuses
    BY <1>3 DEF RunStatuses, IInv, TypeOK
  <2>4. refreshes' \in 0..MaxInFlight
    BY <1>1, OweRefreshType
  <2> QED
    BY <1>1, <1>6, <2>1, <2>2, <2>3, <2>4 DEF IInv, TypeOK, StatusColumn
<1> QED
  BY <1>8, <1>9, <1>10 DEF RowStep

LEMMA FailAgentRetryStep ==
  ASSUME IInv, NEW a \in Agents, NEW i \in DOMAIN attempts[a], FailAgentRetry(a, i)
  PROVE  TypeOK' /\ \A b \in Agents : RowStep(b)
<1>1. status[a] = "running"
  BY DEF FailAgentRetry, Owns
<1>2. Ends({a})
  BY EndsOnce DEF FailAgentRetry, AttemptStatuses
<1>3. \A b \in Agents : LeaseStep(b)
  BY <1>2, EndsIsLeaseStep DEF FailAgentRetry, IInv, TypeOK
<1>4. \A b \in Agents : Unblocked(status, b) => Unblocked(status', b)
  BY <1>1, UnblockedGrows DEF FailAgentRetry, IInv, TypeOK
<1>5. \A b \in Agents : StatusStep(b)
  BY <1>1, <1>4
     DEF FailAgentRetry, StatusStep, IInv, TypeOK, DependenciesCompletedFirst, Idle
<1>6. TypeOK'
  <2>1. status' \in [Agents -> AgentStatuses]
    BY StatusValues DEF FailAgentRetry, IInv, TypeOK
  <2>2. refreshes' \in 0..MaxInFlight
    BY OweRefreshType DEF FailAgentRetry
  <2>3. retry_attempt' \in [Agents -> Nat]
    BY DEF FailAgentRetry, IInv, TypeOK
  <2> QED
    BY <1>2, <2>1, <2>2, <2>3, EndsType DEF FailAgentRetry, IInv, TypeOK
<1> QED
  BY <1>3, <1>5, <1>6 DEF RowStep

(***************************************************************************)
(* The status column when an execution has failed for good, whether it was *)
(* reported or its lease expired: the failed row, and what the breaker,    *)
(* on_failure or the dependencies do to the others.                        *)
(***************************************************************************)
Failed(a, terminal) == Updated(status, {a}, terminal)
FailureOutcomes(failed, a) ==
  {Stopped(failed), Paused(failed), FailDependencyBlocked(failed, a)}

LEMMA FailureColumn ==
  ASSUME IInv, NEW a \in Agents, status[a] \in {"running", "cancelled"},
         NEW terminal \in FailureAgentStatuses,
         status' \in FailureOutcomes(Failed(a, terminal), a)
  PROVE  /\ status' \in StatusColumn
         /\ status'[a] = terminal
         /\ \A b \in Agents : b # a =>
              /\ status[b] = "completed" <=> status'[b] = "completed"
              /\ status'[b] = "running" => status[b] = "running"
              /\ status[b] = "running" => status'[b] \in {"running", "cancelled"}
              /\ status[b] = "cancelled" => status'[b] = "cancelled"
              /\ status'[b] = "queued" => status[b] = "queued" \/ Unblocked(status', b)
              /\ status'[b] \in {"absent", "pending", "queued", "paused"} =>
                   status[b] \in {"absent", "pending", "queued", "paused"}
<1> DEFINE failed == Failed(a, terminal)
<1>0. terminal \in {"failed", "timeout", "cost_exceeded"}
  BY DEF FailureAgentStatuses
<1>1. /\ failed \in StatusColumn
      /\ failed[a] = terminal
      /\ \A b \in Agents : b # a => failed[b] = status[b]
  BY StatusValues DEF Failed, IInv, TypeOK, StatusColumn, Updated
<1>2. \A b \in Agents :
        status'[b] = "completed" <=> failed[b] = "completed"
  <2>1. CASE status' = FailDependencyBlocked(failed, a)
    BY <1>1, <2>1, FailDependencyBlockedRows
  <2>2. CASE status' # FailDependencyBlocked(failed, a)
    BY <2>2 DEF FailureOutcomes, Stopped, Paused, Updated, Rows, LiveAgentStatuses
  <2> QED
    BY <2>1, <2>2
<1>3. \A b \in Agents : Unblocked(failed, b) => Unblocked(status', b)
  BY <1>2, UnblockedGrows
<1>4. CASE status' = FailDependencyBlocked(failed, a)
  <2>1. /\ status' \in StatusColumn
        /\ \A b \in Agents :
             \/ status'[b] = failed[b]
             \/ failed[b] \in {"pending", "queued"} /\ status'[b] = "failed"
             \/ failed[b] = "pending" /\ status'[b] = "queued" /\ Unblocked(failed, b)
    BY <1>1, <1>4, FailDependencyBlockedRows
  <2> HIDE DEF failed
  <2> QED
    BY <1>0, <1>1, <1>2, <1>3, <2>1
<1>5. CASE status' = Paused(failed)
  <2>1. status' \in StatusColumn
    BY <1>1, <1>5, StatusValues DEF Paused, Updated, StatusColumn
  <2> HIDE DEF failed
  <2> QED
    BY <1>0, <1>1, <1>5, <2>1 DEF Paused, Updated, Rows
<1>6. CASE status' = Stopped(failed)
  <2>1. status' \in StatusColumn
    BY <1>1, <1>6, StatusValues DEF Stopped, Updated, StatusColumn
  <2>2. /\ status'[a] = terminal
        /\ \A b \in Agents : b # a =>
             status'[b] = IF status[b] \in LiveAgentStatuses
                          THEN "cancelled" ELSE status[b]
    BY <1>0, <1>1, <1>6 DEF Stopped, Updated, Rows, LiveAgentStatuses
  <2> QED
    BY <1>6, <2>1, <2>2 DEF LiveAgentStatuses
<1> QED
  BY <1>4, <1>5, <1>6 DEF FailureOutcomes

\* Its leases: those of the failed row and of the rows it stopped are released.
LEMMA FailureLeases ==
  ASSUME IInv, NEW a \in Agents,
         NEW terminal \in FailureAgentStatuses, NEW rows, Ends(rows),
         LET failed == Failed(a, terminal) IN
           \/ /\ rows = {a}
              /\ status' \in {Paused(failed), FailDependencyBlocked(failed, a)}
           \/ /\ rows = {a} \cup Rows(failed, LiveAgentStatuses)
              /\ status' = Stopped(failed)
  PROVE  \A b \in Agents : LeaseStep(b)
<1> DEFINE failed == Failed(a, terminal)
           live == Rows(failed, LiveAgentStatuses)
<1>1. /\ failed \in StatusColumn
      /\ failed[a] = terminal
      /\ terminal \notin {"pending", "queued", "running", "paused"}
      /\ \A b \in Agents : b # a => failed[b] = status[b]
  BY StatusValues
     DEF Failed, IInv, TypeOK, StatusColumn, Updated, FailureAgentStatuses
<1>2. CASE rows = {a} /\ status' = Paused(failed)
  BY <1>1, <1>2, EndsIsLeaseStep DEF Paused, Updated, Rows
<1>3. CASE rows = {a} /\ status' = FailDependencyBlocked(failed, a)
  <2>1. \A b \in Agents :
          \/ status'[b] = failed[b]
          \/ failed[b] \in {"pending", "queued"} /\ status'[b] = "failed"
          \/ failed[b] = "pending" /\ status'[b] = "queued"
    BY <1>1, <1>3, FailDependencyBlockedRows
  <2> HIDE DEF failed
  <2> QED
    BY <1>1, <1>3, <2>1, EndsIsLeaseStep
<1>4. CASE rows = {a} \cup live /\ status' = Stopped(failed)
  BY <1>1, <1>4, EndsIsLeaseStep DEF Stopped, Updated, Rows, LiveAgentStatuses
<1> QED
  BY <1>2, <1>3, <1>4

LEMMA FailAgentFinalStep ==
  ASSUME IInv, NEW a \in Agents, NEW i \in DOMAIN attempts[a],
         NEW terminal \in FailureAgentStatuses, NEW retryable \in BOOLEAN,
         FailAgentFinal(a, i, terminal, retryable)
  PROVE  TypeOK' /\ \A b \in Agents : RowStep(b)
<1> DEFINE failed == Failed(a, terminal)
           live == Rows(failed, LiveAgentStatuses)
           closed == Finished(attempts, {a}, "failed")
<1>1. /\ status[a] = "running"
      /\ UNCHANGED <<retry_attempt, cost_usd, expiring>>
      /\ Idle
      /\ OweRefresh
  BY DEF FailAgentFinal, Owns
<1>2. \/ /\ status' = Stopped(failed)
         /\ attempts' = Finished(closed, live, "cancelled")
         /\ ReleaseLeases({a} \cup live)
         /\ run_status' = "failed"
      \/ /\ status' \in {Paused(failed), FailDependencyBlocked(failed, a)}
         /\ attempts' = closed
         /\ ReleaseLeases({a})
         /\ run_status' \in {run_status, "paused"}
  BY DEF FailAgentFinal, Failed, Stopped, Paused
<1> HIDE DEF failed
<1>3. status' \in FailureOutcomes(failed, a)
  BY <1>2 DEF FailureOutcomes
<1>4. {"failed", "cancelled"} \subseteq AttemptStatuses
  BY DEF AttemptStatuses
<1>5. PICK rows :
        /\ Ends(rows)
        /\ \/ rows = {a} /\ status' \in {Paused(failed), FailDependencyBlocked(failed, a)}
           \/ rows = {a} \cup live /\ status' = Stopped(failed)
  BY <1>2, <1>4, EndsOnce, EndsTwice
<1>6. \A b \in Agents : LeaseStep(b)
  BY <1>5, FailureLeases DEF failed
<1>7. /\ status' \in StatusColumn
      /\ \A b \in Agents : StatusStep(b)
  BY <1>1, <1>3, FailureColumn DEF failed, StatusStep, Idle, FailureAgentStatuses
<1>8. TypeOK'
  <2>1. /\ attempts' \in [Agents -> Seq(AttemptStatuses)]
        /\ lease_token' \in [Agents -> Nat]
        /\ leased_until' \in [Agents -> {"null", "future", "past"}]
    BY <1>5, EndsType
  <2>2. run_status' \in RunStatuses
    BY <1>2 DEF RunStatuses, IInv, TypeOK
  <2>3. refreshes' \in 0..MaxInFlight
    BY <1>1, OweRefreshType
  <2> QED
    BY <1>1, <1>7, <2>1, <2>2, <2>3 DEF IInv, TypeOK, StatusColumn
<1> QED
  BY <1>6, <1>7, <1>8 DEF RowStep

\* What an expiry reads of its row: ExpiringRows, and no status but two.
LEMMA ExpireRowStep ==
  ASSUME IInv, NEW a \in Agents, ExpireRow(a)
  PROVE  TypeOK' /\ \A b \in Agents : RowStep(b)
<1> DEFINE failed == Failed(a, "failed")
           live == Rows(failed, LiveAgentStatuses)
           expired == Finished(attempts, {a}, "expired")
<1>1. /\ status[a] \in {"running", "cancelled"}
      /\ Unblocked(status, a)
      /\ expiring' = expiring \ {a}
      /\ UNCHANGED cost_usd
  BY DEF ExpireRow, IInv, ExpiringRows
<1>2. \A b \in expiring : status[b] \in {"running", "cancelled"}
  BY DEF IInv, ExpiringRows
<1>3. refreshes' \in 0..MaxInFlight
  BY OweRefreshType DEF ExpireRow, IInv, TypeOK
<1>4. {"expired", "cancelled"} \subseteq AttemptStatuses
  BY DEF AttemptStatuses
<1>5. CASE /\ CanRetry(a)
           /\ status' = Updated(status, {a}, "queued")
           /\ retry_attempt' = [retry_attempt EXCEPT ![a] = @ + 1]
           /\ attempts' = expired
           /\ ReleaseLeases({a})
           /\ UNCHANGED run_status
  <2>1. Ends({a})
    BY <1>4, <1>5, EndsOnce
  <2>2. \A b \in Agents : LeaseStep(b)
    BY <1>5, <2>1, EndsIsLeaseStep DEF Updated
  <2>3. \A b \in Agents : Unblocked(status, b) => Unblocked(status', b)
    BY <1>1, <1>5, UnblockedGrows DEF Updated
  <2>4. \A b \in Agents : StatusStep(b)
    BY <1>1, <1>2, <1>5, <2>3 DEF StatusStep, Updated, IInv, TypeOK
  <2>5. status' \in [Agents -> AgentStatuses]
    BY <1>5, StatusValues DEF Updated, IInv, TypeOK
  <2>6. retry_attempt' \in [Agents -> Nat]
    BY <1>5 DEF IInv, TypeOK
  <2>7. TypeOK'
    BY <1>1, <1>3, <1>5, <2>1, <2>5, <2>6, EndsType DEF IInv, TypeOK
  <2> QED
    BY <2>2, <2>4, <2>7 DEF RowStep
<1>6. CASE /\ UNCHANGED retry_attempt
           /\ \/ /\ status' = Stopped(failed)
                 /\ attempts' = Finished(expired, live, "cancelled")
                 /\ ReleaseLeases({a} \cup live)
                 /\ run_status' = "failed"
              \/ /\ status' = FailDependencyBlocked(failed, a)
                 /\ attempts' = expired
                 /\ ReleaseLeases({a})
                 /\ UNCHANGED run_status
  <2> HIDE DEF failed
  <2>1. "failed" \in FailureAgentStatuses
    BY DEF FailureAgentStatuses
  <2>2. status' \in FailureOutcomes(failed, a)
    BY <1>6 DEF FailureOutcomes
  <2>3. PICK rows :
          /\ Ends(rows)
          /\ \/ rows = {a} /\ status' \in {Paused(failed), FailDependencyBlocked(failed, a)}
             \/ rows = {a} \cup live /\ status' = Stopped(failed)
    BY <1>4, <1>6, EndsOnce, EndsTwice
  <2>4. \A b \in Agents : LeaseStep(b)
    BY <2>1, <2>3, FailureLeases DEF failed
  <2>5. /\ status' \in StatusColumn
        /\ \A b \in Agents : StatusStep(b)
    <3>1. /\ status' \in StatusColumn
          /\ status'[a] = "failed"
          /\ \A b \in Agents : b # a =>
               /\ status[b] = "completed" <=> status'[b] = "completed"
               /\ status[b] = "running" => status'[b] \in {"running", "cancelled"}
               /\ status[b] = "cancelled" => status'[b] = "cancelled"
               /\ status'[b] = "queued" => status[b] = "queued" \/ Unblocked(status', b)
               /\ status'[b] \in {"absent", "pending", "queued", "paused"} =>
                    status[b] \in {"absent", "pending", "queued", "paused"}
      BY <1>1, <2>1, <2>2, FailureColumn DEF failed
    <3> QED
      BY <1>1, <1>2, <1>6, <3>1 DEF StatusStep
  <2>6. TypeOK'
    <3>1. run_status' \in RunStatuses
      BY <1>6 DEF RunStatuses, IInv, TypeOK
    <3> QED
      BY <1>1, <1>3, <1>6, <2>3, <2>5, <3>1, EndsType DEF IInv, TypeOK, StatusColumn
  <2> QED
    BY <2>4, <2>5, <2>6 DEF RowStep
<1> QED
  BY <1>5, <1>6 DEF ExpireRow, Failed, Stopped

(***************************************************************************)
(* The two actions that are no RowStep: an agent gets a new row, or a new  *)
(* attempt.                                                                *)
(***************************************************************************)
LEMMA SpawnWorkerAgentStep ==
  ASSUME IInv, NEW m \in Managers, NEW d \in DynamicAgents, SpawnWorkerAgent(m, d)
  PROVE  IInv'
<1>1. /\ d \in Agents
      /\ Deps[d] = {}
      /\ status[d] = "absent"
      /\ status' = [status EXCEPT ![d] = "queued"]
      /\ UNCHANGED <<retry_attempt, lease_token, leased_until, attempts, cost_usd,
                      run_status, expiring, refreshes>>
      /\ Idle
  BY AgentsAssumption DEF SpawnWorkerAgent, Agents
<1>2. TypeOK'
  BY <1>1, StatusValues DEF IInv, TypeOK
<1>3. LeaseOwnership'
  BY <1>1 DEF IInv, TypeOK, LeaseOwnership
<1>4. RetryBudgetBoundsAttempts'
  BY <1>1 DEF IInv, TypeOK, RetryBudgetBoundsAttempts
<1>5. DependenciesCompletedFirst'
  <2>1. \A a \in Agents : Unblocked(status, a) => Unblocked(status', a)
    BY <1>1, UnblockedGrows DEF IInv, TypeOK
  <2>2. Unblocked(status', d)
    BY <1>1 DEF Unblocked
  <2> QED
    BY <1>1, <2>1, <2>2 DEF IInv, TypeOK, DependenciesCompletedFirst
<1>6. ExpiringRows'
  BY <1>1 DEF Idle, ExpiringRows
<1> QED
  BY <1>2, <1>3, <1>4, <1>5, <1>6 DEF IInv

LEMMA ClaimAgentStep ==
  ASSUME IInv, NEW a \in Agents, ClaimAgent(a)
  PROVE  IInv'
<1>1. /\ status[a] = "queued"
      /\ status' = [status EXCEPT ![a] = "running"]
      /\ attempts' = [attempts EXCEPT ![a] = Append(@, "running")]
      /\ lease_token' = [lease_token EXCEPT ![a] = Len(attempts[a]) + 1]
      /\ leased_until' = [leased_until EXCEPT ![a] = "future"]
      /\ run_status' = "running"
      /\ UNCHANGED <<retry_attempt, cost_usd, expiring, refreshes>>
      /\ Idle
  BY DEF ClaimAgent, Claimable
<1>2. /\ attempts[a] \in Seq(AttemptStatuses)
      /\ Len(attempts[a]) \in Nat
      /\ DOMAIN attempts[a] = 1..Len(attempts[a])
      /\ \A i \in DOMAIN attempts[a] : attempts[a][i] # "running"
  BY <1>1, RowFacts
<1> DEFINE grown == Append(attempts[a], "running")
<1>3. /\ grown \in Seq(AttemptStatuses)
      /\ Len(grown) = Len(attempts[a]) + 1
      /\ DOMAIN grown = 1..(Len(attempts[a]) + 1)
      /\ \A i \in DOMAIN grown : grown[i] = "running" <=> i = Len(attempts[a]) + 1
  <2>1. "running" \in AttemptStatuses
    BY DEF AttemptStatuses
  <2> QED
    BY <1>2, <2>1
<1>4. attempts' = [attempts EXCEPT ![a] = grown]
  BY <1>1
<1> HIDE DEF grown
<1>5. TypeOK'
  <2>1. status' \in [Agents -> AgentStatuses]
    BY <1>1, StatusValues DEF IInv, TypeOK
  <2>2. run_status' \in RunStatuses
    BY <1>1 DEF RunStatuses
  <2> QED
    BY <1>1, <1>2, <1>3, <1>4, <2>1, <2>2 DEF IInv, TypeOK
<1>6. LeaseOwnership'
  BY <1>1, <1>2, <1>3, <1>4 DEF IInv, TypeOK, LeaseOwnership
<1>7. RetryBudgetBoundsAttempts'
  BY <1>1, <1>2, <1>3, <1>4 DEF IInv, TypeOK, RetryBudgetBoundsAttempts
<1>8. DependenciesCompletedFirst'
  <2>1. \A b \in Agents : Unblocked(status, b) => Unblocked(status', b)
    BY <1>1, UnblockedGrows DEF IInv, TypeOK
  <2> QED
    BY <1>1, <2>1 DEF IInv, TypeOK, DependenciesCompletedFirst
<1>9. ExpiringRows'
  BY <1>1 DEF Idle, ExpiringRows
<1> QED
  BY <1>5, <1>6, <1>7, <1>8, <1>9 DEF IInv

-----------------------------------------------------------------------------
LEMMA InitIInv ==
  ASSUME Init
  PROVE  IInv
<1>1. TypeOK
  <2>1. status \in [Agents -> AgentStatuses]
    BY DEF Init, AgentStatuses, LiveAgentStatuses
  <2>2. attempts \in [Agents -> Seq(AttemptStatuses)]
    BY EmptySeq DEF Init
  <2> QED
    BY <2>1, <2>2, BoundAssumption DEF Init, TypeOK, RunStatuses
<1>2. LeaseOwnership
  BY DEF Init, LeaseOwnership
<1>3. RetryBudgetBoundsAttempts
  BY PolicyAssumption DEF Init, RetryBudgetBoundsAttempts
<1>4. DependenciesCompletedFirst
  BY AgentsAssumption DEF Init, DependenciesCompletedFirst, Unblocked
<1>5. ExpiringRows
  BY DEF Init, ExpiringRows
<1> QED
  BY <1>1, <1>2, <1>3, <1>4, <1>5 DEF IInv

LEMMA FailureReportValues ==
  ASSUME NEW r \in FailureReports
  PROVE  r[1] \in FailureAgentStatuses /\ r[2] \in BOOLEAN
<1>1. CASE r \in {"failed", "timeout"} \X BOOLEAN
  BY <1>1 DEF FailureAgentStatuses
<1>2. CASE r = <<"cost_exceeded", FALSE>>
  BY <1>2 DEF FailureAgentStatuses
<1> QED
  BY <1>1, <1>2 DEF FailureReports

\* The three kinds of steps of the repository.
LEMMA StepKinds ==
  ASSUME IInv, [Next]_vars
  PROVE  \/ TypeOK' /\ \A a \in Agents : RowStep(a)
         \/ \E m \in Managers, d \in DynamicAgents : SpawnWorkerAgent(m, d)
         \/ \E a \in Agents : ClaimAgent(a)
<1>1. CASE UNCHANGED vars
  <2>1. TypeOK'
    BY <1>1 DEF vars, IInv, TypeOK
  <2>2. \A a \in Agents : LeaseStep(a)
    BY <1>1, RowFacts DEF vars, LeaseStep
  <2>3. \A a \in Agents : StatusStep(a)
    BY <1>1 DEF vars, StatusStep, IInv, ExpiringRows, TypeOK
  <2> QED
    BY <2>1, <2>2, <2>3 DEF RowStep
<1>2. ASSUME NEW a \in Agents, LeaseLapses(a) \/ RenewLease(a, lease_token[a])
      PROVE  TypeOK' /\ \A b \in Agents : RowStep(b)
  BY <1>2, LeaseClockStep
<1>3. ASSUME NEW a \in Agents, NEW i \in DOMAIN attempts[a], NEW c \in Costs,
             CompleteAgent(a, i, c)
      PROVE  TypeOK' /\ \A b \in Agents : RowStep(b)
  BY <1>3, CompleteAgentStep
<1>4. ASSUME NEW a \in Agents, NEW i \in DOMAIN attempts[a], FailAgentRetry(a, i)
      PROVE  TypeOK' /\ \A b \in Agents : RowStep(b)
  BY <1>4, FailAgentRetryStep
<1>5. ASSUME NEW a \in Agents, NEW i \in DOMAIN attempts[a], NEW r \in FailureReports,
             FailAgentFinal(a, i, r[1], r[2])
      PROVE  TypeOK' /\ \A b \in Agents : RowStep(b)
  BY <1>5, FailureReportValues, FailAgentFinalStep
<1>6. ASSUME NEW a \in Agents, CancelAgent(a)
      PROVE  TypeOK' /\ \A b \in Agents : RowStep(b)
  BY <1>6, CancelAgentStep
<1>7. ASSUME CancelRun \/ ResumeRun \/ MarkNewlyReadyAgents \/ ExpireStaleLeases
      PROVE  TypeOK' /\ \A b \in Agents : RowStep(b)
  BY <1>7, CancelRunStep, ResumeRunStep, MarkNewlyReadyAgentsStep, ExpireStaleLeasesStep
<1>8. ASSUME NEW a \in Agents, ExpireRow(a)
      PROVE  TypeOK' /\ \A b \in Agents : RowStep(b)
  BY <1>8, ExpireRowStep
<1>9. ASSUME RefreshRunStatus \/ CallerDies
      PROVE  TypeOK' /\ \A b \in Agents : RowStep(b)
  BY <1>9, RefreshStep
<1> QED
  BY <1>1, <1>2, <1>3, <1>4, <1>5, <1>6, <1>7, <1>8, <1>9 DEF Next

LEMMA StepIInv ==
  ASSUME IInv, [Next]_vars
  PROVE  IInv'
<1>1. CASE TypeOK' /\ \A a \in Agents : RowStep(a)
  BY <1>1, RowStepPreservesIInv
<1>2. ASSUME NEW m \in Managers, NEW d \in DynamicAgents, SpawnWorkerAgent(m, d)
      PROVE  IInv'
  BY <1>2, SpawnWorkerAgentStep
<1>3. ASSUME NEW a \in Agents, ClaimAgent(a)
      PROVE  IInv'
  BY <1>3, ClaimAgentStep
<1> QED
  BY <1>1, <1>2, <1>3, StepKinds

LEMMA Invariance == Spec => []IInv
<1>1. Init => IInv
  BY InitIInv
<1>2. IInv /\ [Next]_vars => IInv'
  BY StepIInv
<1> QED
  BY <1>1, <1>2, PTL DEF Spec

\* The rows keep their types.
THEOREM TypeCorrectness == Spec => []TypeOK
<1>1. IInv => TypeOK
  BY DEF IInv
<1> QED
  BY <1>1, Invariance, PTL

(***************************************************************************)
(* In every plan and under every policy an agent is running exactly when   *)
(* its newest attempt is, and the lease names that attempt.                *)
(***************************************************************************)
THEOREM OneOwner == Spec => []LeaseOwnership
<1>1. IInv => LeaseOwnership
  BY DEF IInv
<1> QED
  BY <1>1, Invariance, PTL

\* No agent is ever started more often than its retry budget pays for.
THEOREM RetriesArePaid == Spec => []RetryBudgetBoundsAttempts
<1>1. IInv => RetryBudgetBoundsAttempts
  BY DEF IInv
<1> QED
  BY <1>1, Invariance, PTL

\* No agent is queued, runs or completes before the agents it depends on have.
THEOREM DependenciesFirst == Spec => []DependenciesCompletedFirst
<1>1. IInv => DependenciesCompletedFirst
  BY DEF IInv
<1> QED
  BY <1>1, Invariance, PTL

-----------------------------------------------------------------------------
\* What finished attempts say is never rewritten, whatever comes later.
THEOREM HistoryIsAppendOnly == Spec => FinishedAttemptsImmutable
<1> DEFINE Kept == \A a \in Agents : \A i \in DOMAIN attempts[a] :
                     /\ i \in DOMAIN attempts'[a]
                     /\ attempts[a][i] # "running" => attempts'[a][i] = attempts[a][i]
<1>1. ASSUME IInv, [Next]_vars
      PROVE  Kept
  <2>1. CASE \A a \in Agents : RowStep(a)
    BY <2>1 DEF RowStep, LeaseStep
  <2>2. ASSUME NEW m \in Managers, NEW d \in DynamicAgents, SpawnWorkerAgent(m, d)
        PROVE  Kept
    BY <2>2 DEF SpawnWorkerAgent
  <2>3. ASSUME NEW a \in Agents, ClaimAgent(a)
        PROVE  Kept
    <3> SUFFICES ASSUME NEW b \in Agents, NEW i \in DOMAIN attempts[b]
                 PROVE  i \in DOMAIN attempts'[b] /\ attempts'[b][i] = attempts[b][i]
      OBVIOUS
    <3>1. attempts' = [attempts EXCEPT ![a] = Append(attempts[a], "running")]
      BY <2>3 DEF ClaimAgent
    <3>2. /\ attempts[b] \in Seq(AttemptStatuses)
          /\ Len(attempts[b]) \in Nat
          /\ DOMAIN attempts[b] = 1..Len(attempts[b])
      BY <1>1, RowFacts
    <3>3. "running" \in AttemptStatuses
      BY DEF AttemptStatuses
    <3>4. CASE b = a
      <4>1. attempts'[b] = Append(attempts[b], "running")
        BY <1>1, <3>1, <3>4 DEF IInv, TypeOK
      <4> QED
        BY <3>2, <3>3, <4>1
    <3>5. CASE b # a
      BY <3>1, <3>5
    <3> QED
      BY <3>4, <3>5
  <2> QED
    BY <1>1, <2>1, <2>2, <2>3, StepKinds
<1>2. IInv /\ [Next]_vars => [Kept]_vars
  BY <1>1
<1> QED
  BY <1>2, Invariance, PTL DEF Spec, FinishedAttemptsImmutable

(***************************************************************************)
(* The limit holds when claims are serial: only a claim adds a running     *)
(* agent, and it counts the running ones first.                            *)
(***************************************************************************)
THEOREM LimitHolds == Spec => []ConcurrencyLimitHolds
<1>1. \A s : IsFiniteSet(Running(s)) /\ Cardinality(Running(s)) \in Nat
  BY AgentsAssumption, FS_Subset, FS_CardinalityType DEF Running, Rows
<1>2. Init => ConcurrencyLimitHolds
  <2> SUFFICES ASSUME Init
               PROVE  Running(status) = {}
    BY FS_EmptySet, PolicyAssumption DEF ConcurrencyLimitHolds
  <2> QED
    BY DEF Init, Running, Rows
<1>3. ASSUME IInv, [Next]_vars, ConcurrencyLimitHolds
      PROVE  ConcurrencyLimitHolds'
  <2>1. CASE Running(status') \subseteq Running(status)
    <3>1. Cardinality(Running(status')) <= Cardinality(Running(status))
      BY <1>1, <2>1, FS_Subset
    <3> QED
      BY <1>1, <1>3, <3>1, PolicyAssumption DEF ConcurrencyLimitHolds
  <2>2. CASE \A a \in Agents : RowStep(a)
    BY <2>1, <2>2 DEF RowStep, LeaseStep, Running, Rows
  <2>3. ASSUME NEW m \in Managers, NEW d \in DynamicAgents, SpawnWorkerAgent(m, d)
        PROVE  ConcurrencyLimitHolds'
    <3>1. Running(status') \subseteq Running(status)
      BY <1>3, <2>3 DEF SpawnWorkerAgent, Running, Rows, IInv, TypeOK
    <3> QED
      BY <2>1, <3>1
  <2>4. ASSUME NEW a \in Agents, ClaimAgent(a)
        PROVE  ConcurrencyLimitHolds'
    <3>1. Running(status') = Running(status) \cup {a}
      BY <1>3, <2>4 DEF ClaimAgent, Running, Rows, IInv, TypeOK
    <3>2. a \notin Running(status)
      BY <2>4 DEF ClaimAgent, Claimable, Running, Rows
    <3>3. Cardinality(Running(status')) = Cardinality(Running(status)) + 1
      BY <1>1, <3>1, <3>2, FS_AddElement
    <3>4. Cardinality(Before(a)) \in Nat
      <4>1. Before(a) \subseteq Agents
        BY DEF Before, Rows
      <4> QED
        BY <4>1, AgentsAssumption, FS_Subset, FS_CardinalityType
    <3>5. \/ ConcurrencyLimit = 0
          \/ Cardinality(Before(a)) + Cardinality(Running(status)) < ConcurrencyLimit
      BY <2>4 DEF ClaimAgent, Claimable
    <3> QED
      BY <1>1, <3>3, <3>4, <3>5, PolicyAssumption DEF ConcurrencyLimitHolds
  <2> QED
    BY <1>3, <2>2, <2>3, <2>4, StepKinds
<1>4. IInv /\ [Next]_vars /\ ConcurrencyLimitHolds => ConcurrencyLimitHolds'
  BY <1>3
<1> QED
  BY <1>2, <1>4, Invariance, PTL DEF Spec

-----------------------------------------------------------------------------
(* The refinement of ExecutionContract. *)

LEMMA NothingCompletes ==
  ASSUME IInv, NEW a \in Agents,
         \/ \E i \in DOMAIN attempts[a] : FailAgentRetry(a, i)
         \/ \E i \in DOMAIN attempts[a], r \in FailureReports :
              FailAgentFinal(a, i, r[1], r[2])
         \/ ExpireRow(a)
  PROVE  \A b \in Agents : status'[b] = "completed" => status[b] = "completed"
<1>1. CASE \E i \in DOMAIN attempts[a] : FailAgentRetry(a, i)
  BY <1>1 DEF FailAgentRetry, IInv, TypeOK
<1>2. ASSUME NEW i \in DOMAIN attempts[a], NEW r \in FailureReports,
             FailAgentFinal(a, i, r[1], r[2])
      PROVE  \A b \in Agents : status'[b] = "completed" => status[b] = "completed"
  <2>1. r[1] \in FailureAgentStatuses
    BY FailureReportValues
  <2>2. /\ status[a] = "running"
        /\ status' \in FailureOutcomes(Failed(a, r[1]), a)
    BY <1>2 DEF FailAgentFinal, Owns, Failed, FailureOutcomes, Stopped, Paused
  <2> QED
    BY <2>1, <2>2, FailureColumn DEF FailureAgentStatuses
<1>3. CASE ExpireRow(a)
  <2>1. status[a] \in {"running", "cancelled"}
    BY <1>3 DEF ExpireRow, IInv, ExpiringRows
  <2>2. \/ status' = Updated(status, {a}, "queued")
        \/ status' \in FailureOutcomes(Failed(a, "failed"), a)
    BY <1>3 DEF ExpireRow, Failed, FailureOutcomes, Stopped
  <2>3. "failed" \in FailureAgentStatuses
    BY DEF FailureAgentStatuses
  <2>4. CASE status' = Updated(status, {a}, "queued")
    BY <2>4 DEF Updated
  <2>5. CASE status' \in FailureOutcomes(Failed(a, "failed"), a)
    BY <2>1, <2>3, <2>5, FailureColumn
  <2> QED
    BY <2>2, <2>4, <2>5
<1> QED
  BY <1>1, <1>2, <1>3

\* Only complete_agent completes.
LEMMA OnlyCompleteAgentCompletes ==
  ASSUME IInv, [Next]_vars
  PROVE  \/ \E c \in Agents : \E i \in DOMAIN attempts[c], cost \in Costs :
               CompleteAgent(c, i, cost)
         \/ \A d \in Agents : status'[d] = "completed" => status[d] = "completed"
<1> DEFINE None == \A d \in Agents : status'[d] = "completed" => status[d] = "completed"
<1>1. ASSUME NEW c \in Agents,
             \/ \E i \in DOMAIN attempts[c] : FailAgentRetry(c, i)
             \/ \E i \in DOMAIN attempts[c], r \in FailureReports :
                  FailAgentFinal(c, i, r[1], r[2])
             \/ ExpireRow(c)
      PROVE  None
  BY <1>1, NothingCompletes
<1>2. ASSUME NEW c \in Agents,
             ClaimAgent(c) \/ CancelAgent(c) \/ LeaseLapses(c)
               \/ RenewLease(c, lease_token[c])
      PROVE  None
  BY <1>2 DEF ClaimAgent, CancelAgent, LeaseLapses, RenewLease, IInv, TypeOK
<1>3. ASSUME NEW m \in Managers, NEW d \in DynamicAgents, SpawnWorkerAgent(m, d)
      PROVE  None
  BY <1>3 DEF SpawnWorkerAgent, IInv, TypeOK
<1>4. ASSUME CancelRun \/ ResumeRun \/ MarkNewlyReadyAgents
      PROVE  None
  BY <1>4 DEF Paused, Stopped, CancelRun, ResumeRun, MarkNewlyReadyAgents, MarkNewlyReady, Updated
<1>5. ASSUME ExpireStaleLeases \/ RefreshRunStatus \/ CallerDies \/ UNCHANGED vars
      PROVE  None
  BY <1>5 DEF ExpireStaleLeases, RefreshRunStatus, CallerDies, vars
<1> HIDE DEF None
<1>6. \/ \E c \in Agents : \E i \in DOMAIN attempts[c], cost \in Costs :
          CompleteAgent(c, i, cost)
      \/ None
  BY <1>1, <1>2, <1>3, <1>4, <1>5 DEF Next
<1> QED
  BY <1>6 DEF None

\* complete_agent completes its agent only, whatever the budget does then.
LEMMA CompletedRow ==
  ASSUME IInv, NEW c \in Agents, NEW i \in DOMAIN attempts[c], NEW cost \in Costs,
         CompleteAgent(c, i, cost), NEW d \in Agents,
         status[d] # "completed", status'[d] = "completed"
  PROVE  d = c
<1> DEFINE done == MarkNewlyReady(Updated(status, {c}, "completed"))
<1>1. status[c] = "running"
  BY DEF CompleteAgent, Owns
<1>2. d # c /\ done[d] = "completed" => status[d] = "completed"
  BY <1>1, CompletedColumn
<1>3. \/ status' = done
      \/ \E rows, v : v # "completed" /\ status' = Updated(done, rows, v)
  BY DEF Paused, Stopped, CompleteAgent
<1>4. status'[d] = "completed" => done[d] = "completed"
  <2> HIDE DEF done
  <2> QED
    BY <1>3 DEF Updated
<1> QED
  BY <1>2, <1>4

\* One step completes one agent at most.
LEMMA CompletionsAreSingle ==
  ASSUME IInv, [Next]_vars, NEW a \in Agents, NEW b \in Agents,
         status[a] # "completed", status'[a] = "completed",
         status[b] # "completed", status'[b] = "completed"
  PROVE  a = b
  BY OnlyCompleteAgentCompletes, CompletedRow

(***************************************************************************)
(* The repository keeps the promise of ExecutionContract: a claim starts   *)
(* an execution, complete_agent finishes one and may stop others, every    *)
(* other transaction stops some or changes nothing the contract sees.      *)
(***************************************************************************)
THEOREM KeepsContract == Spec => ImplementsContract
<1> DEFINE open == Running(status)
           done == Rows(status, {"completed"})
           used == [a \in Agents |-> Len(attempts[a])]
<1>1. Init => Contract!Init
  BY DEF Init, Contract!Init, Running, Rows
<1>2. ASSUME IInv, [Next]_vars
      PROVE  [Contract!Next]_(Contract!vars)
  <2>1. CASE TypeOK' /\ \A a \in Agents : RowStep(a)
    <3>1. used' = used
      BY <2>1 DEF RowStep, LeaseStep
    <3>2. open' \subseteq open /\ done \subseteq done'
      BY <2>1 DEF RowStep, LeaseStep, StatusStep, Running, Rows
    <3>3. CASE done' = done
      <4>1. open' = open \ (open \ open')
        BY <3>2
      <4>2. open \ open' \in SUBSET Agents
        BY DEF Running, Rows
      <4>3. Contract!Abandon(open \ open')
        BY <3>1, <3>3, <4>1 DEF Contract!Abandon
      <4> QED
        BY <4>2, <4>3 DEF Contract!Next
    <3>4. CASE done' # done
      <4>1. PICK a \in Agents : status'[a] = "completed" /\ status[a] # "completed"
        BY <3>2, <3>4 DEF Rows
      <4>2. a \in open /\ a \notin open'
        BY <2>1, <4>1 DEF RowStep, StatusStep, Running, Rows
      <4>3. done' = done \cup {a}
        BY <1>2, <3>2, <4>1, CompletionsAreSingle DEF Rows
      <4>4. open' = open \ ({a} \cup (open \ open'))
        BY <3>2, <4>2
      <4>5. open \ open' \in SUBSET Agents
        BY DEF Running, Rows
      <4>6. Contract!Finish(a, open \ open')
        BY <3>1, <4>2, <4>3, <4>4 DEF Contract!Finish
      <4> QED
        BY <4>1, <4>5, <4>6 DEF Contract!Next
    <3> QED
      BY <3>3, <3>4
  <2>2. ASSUME NEW m \in Managers, NEW d \in DynamicAgents, SpawnWorkerAgent(m, d)
        PROVE  UNCHANGED Contract!vars
    BY <1>2, <2>2 DEF SpawnWorkerAgent, Contract!vars, Running, Rows, IInv, TypeOK
  <2>3. ASSUME NEW a \in Agents, ClaimAgent(a)
        PROVE  Contract!Start(a)
    <3>1. /\ status[a] = "queued"
          /\ status' = [status EXCEPT ![a] = "running"]
          /\ attempts' = [attempts EXCEPT ![a] = Append(@, "running")]
      BY <2>3 DEF ClaimAgent, Claimable
    <3>2. a \notin open \cup done
      BY <3>1 DEF Running, Rows
    <3>3. Deps[a] \subseteq done
      BY <1>2, <3>1, AgentsAssumption
         DEF IInv, DependenciesCompletedFirst, Unblocked, Rows, Agents
    <3>4. used[a] <= RetryCount[a]
      BY <1>2, <3>1, RowFacts, PolicyAssumption DEF IInv, RetryBudgetBoundsAttempts
    <3>5. open' = open \cup {a} /\ done' = done
      BY <1>2, <3>1 DEF Running, Rows, IInv, TypeOK
    <3>6. used' = [used EXCEPT ![a] = @ + 1]
      <4>1. \A b \in Agents : Len(attempts'[b]) =
              IF b = a THEN Len(attempts[b]) + 1 ELSE Len(attempts[b])
        BY <1>2, <3>1, RowFacts DEF IInv, TypeOK
      <4> QED
        BY <4>1
    <3> QED
      BY <3>2, <3>3, <3>4, <3>5, <3>6 DEF Contract!Start
  <2> QED
    BY <1>2, <2>1, <2>2, <2>3, StepKinds DEF Contract!Next
<1>3. IInv /\ [Next]_vars => [Contract!Next]_(Contract!vars)
  BY <1>2
<1> QED
  BY <1>1, <1>3, Invariance, PTL DEF Spec, ImplementsContract, Contract!Spec
=============================================================================
