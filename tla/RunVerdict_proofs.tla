-------------------------- MODULE RunVerdict_proofs --------------------------
(***************************************************************************)
(* What the status of a run says of its agents, who still waits and for    *)
(* whom: theorems about RunState, for every plan and every policy.         *)
(*                                                                         *)
(* They rest on the inductive invariant of RunState_proofs and on what a   *)
(* step may do to a row that waits or has ended (RowFate).                 *)
(***************************************************************************)
EXTENDS RunState_proofs

-----------------------------------------------------------------------------
(* What becomes of a row. *)

\* Unless resume_run takes it up, an ended row stays as it is, save in an open
\* expiry pass; and nothing becomes pending or disappears.
RowFate(a) ==
  \/ status'[a] = status[a]
  \/ /\ status[a] \notin TerminalAgentStatuses \/ a \in expiring
     /\ status'[a] \notin {"absent", "pending"}

LEMMA MovedByPromotion ==
  ASSUME NEW s \in StatusColumn
  PROVE  \A a \in Agents :
           /\ MarkNewlyReady(s)[a] = s[a] \/ (s[a] = "pending" /\ MarkNewlyReady(s)[a] = "queued")
           /\ MarkNewlyReady(s)[a] = "pending" => ~Unblocked(MarkNewlyReady(s), a)
<1> SUFFICES ASSUME NEW a \in Agents
             PROVE  /\ MarkNewlyReady(s)[a] = s[a]
                         \/ (s[a] = "pending" /\ MarkNewlyReady(s)[a] = "queued")
                    /\ MarkNewlyReady(s)[a] = "pending" => ~Unblocked(MarkNewlyReady(s), a)
  OBVIOUS
<1>1. \A b \in Agents :
        MarkNewlyReady(s)[b] = s[b] \/ (s[b] = "pending" /\ MarkNewlyReady(s)[b] = "queued")
  BY MarkNewlyReadyRows
<1>2. ASSUME MarkNewlyReady(s)[a] = "pending"
      PROVE  ~Unblocked(MarkNewlyReady(s), a)
  <2>1. s[a] = "pending" /\ a \notin NewlyReady(s)
    BY <1>2, <1>1 DEF MarkNewlyReady, Updated
  <2>2. PICK d \in Deps[a] : s[d] # "completed"
    BY <2>1 DEF NewlyReady, Rows, Unblocked
  <2>3. d \in Agents
    BY AgentsAssumption DEF Agents
  <2>4. MarkNewlyReady(s)[d] # "completed"
    BY <1>1, <2>2, <2>3
  <2> QED
    BY <2>2, <2>4 DEF Unblocked
<1> QED
  BY <1>1, <1>2

\* The failure of an agent touches waiting, paused and running rows only.
LEMMA FailureFate ==
  ASSUME IInv, NEW f \in Agents, NEW terminal \in FailureAgentStatuses,
         status' \in FailureOutcomes(Failed(f, terminal), f), NEW b \in Agents, b # f
  PROVE  \/ status'[b] = status[b]
         \/ /\ status[b] \in LiveAgentStatuses
            /\ status'[b] \notin {"absent", "pending"}
<1> DEFINE failed == Failed(f, terminal)
<1>1. failed \in StatusColumn /\ failed[b] = status[b]
  BY StatusValues DEF Failed, IInv, TypeOK, StatusColumn, Updated
<1> HIDE DEF failed
<1>2. CASE status' = FailDependencyBlocked(failed, f)
  <2>1. \/ status'[b] = failed[b]
        \/ failed[b] \in {"pending", "queued"} /\ status'[b] = "failed"
        \/ failed[b] = "pending" /\ status'[b] = "queued"
    BY <1>1, <1>2, FailDependencyBlockedRows
  <2> QED
    BY <1>1, <2>1 DEF LiveAgentStatuses
<1>3. CASE status' = Paused(failed)
  BY <1>1, <1>3 DEF Paused, Updated, Rows, LiveAgentStatuses
<1>4. CASE status' = Stopped(failed)
  BY <1>1, <1>4 DEF Stopped, Updated, Rows, LiveAgentStatuses
<1> QED
  BY <1>2, <1>3, <1>4 DEF FailureOutcomes, failed

\* What the completion of agent c does to the rows.
LEMMA CompletionFate ==
  ASSUME IInv, NEW c \in Agents, NEW i \in DOMAIN attempts[c], NEW cost \in Costs,
         CompleteAgent(c, i, cost), NEW b \in Agents
  PROVE  RowFate(b)
<1> DEFINE done == MarkNewlyReady(Updated(status, {c}, "completed"))
<1>1. status[c] = "running"
  BY DEF CompleteAgent, Owns
<1>2. /\ done[c] = "completed"
      /\ b # c => done[b] = status[b] \/ (status[b] = "pending" /\ done[b] = "queued")
  BY <1>1, CompletedColumn
<1>3. status' \in {done, Paused(done), Stopped(done)}
  BY DEF CompleteAgent
<1> HIDE DEF done
<1>4. \/ status'[b] = done[b]
      \/ /\ done[b] \in LiveAgentStatuses
         /\ status'[b] \in {"paused", "cancelled"}
  BY <1>3 DEF Paused, Stopped, Updated, Rows, LiveAgentStatuses
<1>5. {"pending", "queued", "running"} \cap TerminalAgentStatuses = {}
      /\ LiveAgentStatuses \cap TerminalAgentStatuses = {}
  BY DEF TerminalAgentStatuses, LiveAgentStatuses
<1> QED
  BY <1>1, <1>2, <1>4, <1>5 DEF RowFate

LEMMA Fates ==
  ASSUME IInv, [Next]_vars, ~ResumeRun, NEW b \in Agents
  PROVE  RowFate(b)
<1>0. LiveAgentStatuses \cap TerminalAgentStatuses = {}
      /\ {"absent", "pending", "queued", "running"} \cap TerminalAgentStatuses = {}
      /\ status \in StatusColumn
  BY DEF TerminalAgentStatuses, LiveAgentStatuses, IInv, TypeOK, StatusColumn
<1>1. ASSUME NEW m \in Managers, NEW d \in DynamicAgents, SpawnWorkerAgent(m, d)
      PROVE  RowFate(b)
  BY <1>0, <1>1 DEF SpawnWorkerAgent, RowFate, StatusColumn
<1>2. ASSUME NEW a \in Agents, ClaimAgent(a) \/ CancelAgent(a)
      PROVE  RowFate(b)
  BY <1>0, <1>2 DEF ClaimAgent, Claimable, CancelAgent, RowFate, StatusColumn
<1>3. ASSUME NEW a \in Agents, NEW i \in DOMAIN attempts[a], FailAgentRetry(a, i)
      PROVE  RowFate(b)
  BY <1>0, <1>3 DEF FailAgentRetry, Owns, RowFate, StatusColumn
<1>4. ASSUME NEW a \in Agents, NEW i \in DOMAIN attempts[a], NEW r \in FailureReports,
             FailAgentFinal(a, i, r[1], r[2])
      PROVE  RowFate(b)
  <2>1. r[1] \in FailureAgentStatuses
    BY FailureReportValues
  <2>2. /\ status[a] = "running"
        /\ status' \in FailureOutcomes(Failed(a, r[1]), a)
    BY <1>4 DEF FailAgentFinal, Owns, Failed, FailureOutcomes, Stopped, Paused
  <2>3. status'[a] = r[1]
    BY <2>1, <2>2, FailureColumn
  <2> QED
    BY <1>0, <2>1, <2>2, <2>3, FailureFate DEF RowFate, FailureAgentStatuses
<1>5. ASSUME NEW a \in Agents, ExpireRow(a)
      PROVE  RowFate(b)
  <2>1. a \in expiring
    BY <1>5 DEF ExpireRow
  <2>2. status[a] \in {"running", "cancelled"}
    BY <2>1 DEF IInv, ExpiringRows
  <2>3. \/ status' = Updated(status, {a}, "queued")
        \/ status' \in FailureOutcomes(Failed(a, "failed"), a)
    BY <1>5 DEF ExpireRow, Failed, FailureOutcomes, Stopped
  <2>4. "failed" \in FailureAgentStatuses
    BY DEF FailureAgentStatuses
  <2>5. CASE status' = Updated(status, {a}, "queued")
    BY <2>1, <2>5 DEF Updated, RowFate
  <2>6. CASE status' \in FailureOutcomes(Failed(a, "failed"), a)
    <3>1. status'[a] = "failed"
      BY <2>2, <2>4, <2>6, FailureColumn
    <3> QED
      BY <1>0, <2>1, <2>4, <2>6, <3>1, FailureFate DEF RowFate
  <2> QED
    BY <2>3, <2>5, <2>6
<1>6. ASSUME CancelRun
      PROVE  RowFate(b)
  BY <1>0, <1>6 DEF CancelRun, Stopped, Updated, Rows, RowFate
<1>7. ASSUME MarkNewlyReadyAgents
      PROVE  RowFate(b)
  BY <1>0, <1>7, MovedByPromotion DEF MarkNewlyReadyAgents, RowFate
<1>8. ASSUME \/ \E a \in Agents : LeaseLapses(a) \/ RenewLease(a, lease_token[a])
             \/ ExpireStaleLeases \/ RefreshRunStatus \/ CallerDies \/ UNCHANGED vars
      PROVE  RowFate(b)
  BY <1>8 DEF LeaseLapses, RenewLease, ExpireStaleLeases, RefreshRunStatus, CallerDies, vars,
              RowFate
<1> QED
  BY <1>1, <1>2, <1>3, <1>4, <1>5, <1>6, <1>7, <1>8, CompletionFate DEF Next

-----------------------------------------------------------------------------
\* The waits.

(***************************************************************************)
(* A pending row has a dependency that is not completed, between the steps *)
(* of an expiry pass too: complete_agent promotes in the same transaction, *)
(* and resume_run tells the unblocked rows from the others.                *)
(***************************************************************************)
NoneOverlooked == \A a \in Agents : status[a] = "pending" => ~Unblocked(status, a)

LEMMA CompletionOverlooksNone ==
  ASSUME IInv, NEW c \in Agents, NEW i \in DOMAIN attempts[c], NEW cost \in Costs,
         CompleteAgent(c, i, cost)
  PROVE  NoneOverlooked'
<1> DEFINE s == Updated(status, {c}, "completed")
           done == MarkNewlyReady(s)
<1>1. s \in StatusColumn
  BY StatusValues DEF IInv, TypeOK, StatusColumn, Updated
<1>2. status' \in {done, Paused(done), Stopped(done)}
  BY DEF CompleteAgent
<1> HIDE DEF s
<1>3. \A a \in Agents : done[a] = "pending" => ~Unblocked(done, a)
  BY <1>1, MovedByPromotion
<1> HIDE DEF done
<1>4. \A a \in Agents : /\ status'[a] = "pending" => done[a] = "pending"
                        /\ status'[a] = "completed" => done[a] = "completed"
  BY <1>2 DEF Paused, Stopped, Updated
<1>5. \A a \in Agents : Unblocked(status', a) => Unblocked(done, a)
  BY <1>4, UnblockedGrows
<1> QED
  BY <1>3, <1>4, <1>5 DEF NoneOverlooked

\* No promotion is missed, in any plan and under any policy.
THEOREM NoPromotionIsMissed == Spec => []PendingWaitsForADependency
<1>1. Init => NoneOverlooked
  <2> SUFFICES ASSUME Init, NEW a \in Agents, status[a] = "pending"
               PROVE  ~Unblocked(status, a)
    BY DEF NoneOverlooked
  <2>1. Deps[a] # {}
    BY DEF Init
  <2>2. PICK d \in Deps[a] : d \in Agents
    BY <2>1, AgentsAssumption DEF Agents
  <2>3. status[d] # "completed"
    BY <2>2 DEF Init
  <2> QED
    BY <2>3 DEF Unblocked
<1>2. ASSUME IInv, NoneOverlooked, [Next]_vars
      PROVE  NoneOverlooked'
  <2>1. CASE \E c \in Agents : \E i \in DOMAIN attempts[c], cost \in Costs :
               CompleteAgent(c, i, cost)
    BY <1>2, <2>1, CompletionOverlooksNone
  <2>2. CASE \A d \in Agents : status'[d] = "completed" => status[d] = "completed"
    <3>1. \A a \in Agents : Unblocked(status', a) => Unblocked(status, a)
      BY <2>2, UnblockedGrows
    <3>2. \A a \in Agents : status'[a] = "pending" =>
            status[a] = "pending" \/ ~Unblocked(status, a)
      <4>1. CASE ResumeRun
        BY <4>1 DEF ResumeRun
      <4>2. CASE ~ResumeRun
        BY <1>2, <4>2, Fates DEF RowFate
      <4> QED
        BY <4>1, <4>2
    <3> QED
      BY <1>2, <3>1, <3>2 DEF NoneOverlooked
  <2> QED
    BY <1>2, <2>1, <2>2, OnlyCompleteAgentCompletes
<1>3. NoneOverlooked => PendingWaitsForADependency
  BY DEF NoneOverlooked, PendingWaitsForADependency
<1>4. IInv /\ NoneOverlooked /\ [Next]_vars => NoneOverlooked'
  BY <1>2
<1> QED
  BY <1>1, <1>3, <1>4, Invariance, PTL DEF Spec

\* The agents whose failure ends no wait by itself: dependency_blocked is closed.
LEMMA BlockedIsClosed ==
  ASSUME NEW s, NEW f,
         NEW b \in Rows(s, {"pending", "queued"}),
         Deps[b] \cap (DependencyBlocked(s, f) \cup {f}) # {}
  PROVE  b \in DependencyBlocked(s, f)
<1> DEFINE waiting == Rows(s, {"pending", "queued"})
<1> SUFFICES ASSUME NEW S \in SUBSET waiting, Closed(S, waiting, f)
             PROVE  b \in S
  BY DEF DependencyBlocked
<1>1. DependencyBlocked(s, f) \subseteq S
  BY DEF DependencyBlocked
<1>2. Deps[b] \cap (S \cup {f}) # {}
  BY <1>1
<1> QED
  BY <1>2 DEF Closed

\* A failure that is final ends the wait of the agents that follow it.
LEMMA FailureEndsWaits ==
  ASSUME IInv, NEW f \in Agents, NEW terminal \in FailureAgentStatuses,
         status[f] \in {"running", "cancelled"},
         status' \in FailureOutcomes(Failed(f, terminal), f),
         NEW a \in Agents, NEW d \in Deps[a],
         status[d] \notin FailureAgentStatuses, status'[d] \in FailureAgentStatuses
  PROVE  status'[a] # "pending"
<1> SUFFICES ASSUME status'[a] = "pending"
             PROVE  FALSE
  OBVIOUS
<1> DEFINE failed == Failed(f, terminal)
           blocked == DependencyBlocked(failed, f)
           u == Updated(failed, blocked, "failed")
<1>1. failed \in StatusColumn /\ failed[f] = terminal
      /\ \A b \in Agents : b # f => failed[b] = status[b]
  BY StatusValues DEF Failed, IInv, TypeOK, StatusColumn, Updated
<1>2. d \in Agents
  BY AgentsAssumption DEF Agents
<1> HIDE DEF failed
<1>3. status' = FailDependencyBlocked(failed, f)
  BY <1>1 DEF FailureOutcomes, Paused, Stopped, Updated, Rows, LiveAgentStatuses, StatusColumn,
              failed
<1>4. u \in StatusColumn
  BY <1>1, StatusValues DEF Updated, StatusColumn
<1>5. status' = MarkNewlyReady(u)
  BY <1>3 DEF FailDependencyBlocked
<1> HIDE DEF blocked, u
<1>6. u[a] = "pending"
      /\ u[d] \in FailureAgentStatuses
  BY <1>2, <1>4, <1>5, MovedByPromotion DEF FailureAgentStatuses
<1>7. d = f \/ d \in blocked
  BY <1>1, <1>2, <1>6 DEF u, Updated
<1>8. a \notin blocked /\ failed[a] = "pending"
  BY <1>6 DEF u, Updated
<1>9. a \in Rows(failed, {"pending", "queued"})
  BY <1>8 DEF Rows
<1> QED
  BY <1>7, <1>8, <1>9, BlockedIsClosed DEF blocked

\* Rows fail by the final failure of some agent only.
LEMMA OnlyFailuresFail ==
  ASSUME IInv, [Next]_vars, ~ResumeRun, NEW d \in Agents,
         status[d] \notin FailureAgentStatuses, status'[d] \in FailureAgentStatuses
  PROVE  \E f \in Agents, terminal \in FailureAgentStatuses :
           /\ status[f] \in {"running", "cancelled"}
           /\ status' \in FailureOutcomes(Failed(f, terminal), f)
<1> DEFINE Fails == \E f \in Agents, terminal \in FailureAgentStatuses :
                      /\ status[f] \in {"running", "cancelled"}
                      /\ status' \in FailureOutcomes(Failed(f, terminal), f)
<1>0. status \in StatusColumn
  BY DEF IInv, TypeOK, StatusColumn
<1>1. ASSUME NEW a \in Agents, NEW i \in DOMAIN attempts[a], NEW r \in FailureReports,
             FailAgentFinal(a, i, r[1], r[2])
      PROVE  Fails
  <2>1. r[1] \in FailureAgentStatuses
    BY FailureReportValues
  <2>2. /\ status[a] = "running"
        /\ status' \in FailureOutcomes(Failed(a, r[1]), a)
    BY <1>1 DEF FailAgentFinal, Owns, Failed, FailureOutcomes, Stopped, Paused
  <2> QED
    BY <2>1, <2>2
<1>2. ASSUME NEW a \in Agents, ExpireRow(a)
      PROVE  Fails
  <2>1. status[a] \in {"running", "cancelled"}
    BY <1>2 DEF ExpireRow, IInv, ExpiringRows
  <2>2. \/ status' = Updated(status, {a}, "queued")
        \/ status' \in FailureOutcomes(Failed(a, "failed"), a)
    BY <1>2 DEF ExpireRow, Failed, FailureOutcomes, Stopped
  <2>3. status' # Updated(status, {a}, "queued")
    BY DEF Updated, FailureAgentStatuses
  <2>4. "failed" \in FailureAgentStatuses
    BY DEF FailureAgentStatuses
  <2> QED
    BY <2>1, <2>2, <2>3, <2>4
<1>3. ASSUME NEW c \in Agents, NEW i \in DOMAIN attempts[c], NEW cost \in Costs,
             CompleteAgent(c, i, cost)
      PROVE  FALSE
  <2> DEFINE done == MarkNewlyReady(Updated(status, {c}, "completed"))
  <2>1. status[c] = "running"
    BY <1>3 DEF CompleteAgent, Owns
  <2>2. done[d] \notin FailureAgentStatuses
    BY <2>1, CompletedColumn DEF FailureAgentStatuses
  <2>3. status' \in {done, Paused(done), Stopped(done)}
    BY <1>3 DEF CompleteAgent
  <2> HIDE DEF done
  <2> QED
    BY <2>2, <2>3 DEF Paused, Stopped, Updated, FailureAgentStatuses
<1>4. ASSUME NEW m \in Managers, NEW e \in DynamicAgents, SpawnWorkerAgent(m, e)
      PROVE  FALSE
  BY <1>0, <1>4 DEF SpawnWorkerAgent, StatusColumn, FailureAgentStatuses
<1>5. ASSUME NEW a \in Agents,
             \/ ClaimAgent(a) \/ CancelAgent(a)
             \/ \E i \in DOMAIN attempts[a] : FailAgentRetry(a, i)
      PROVE  FALSE
  BY <1>0, <1>5 DEF ClaimAgent, CancelAgent, FailAgentRetry, StatusColumn, FailureAgentStatuses
<1>6. ASSUME CancelRun
      PROVE  FALSE
  BY <1>6 DEF CancelRun, Stopped, Updated, FailureAgentStatuses
<1>7. ASSUME MarkNewlyReadyAgents
      PROVE  FALSE
  BY <1>7 DEF MarkNewlyReadyAgents, MarkNewlyReady, Updated, FailureAgentStatuses
<1>8. ASSUME \/ \E a \in Agents : LeaseLapses(a) \/ RenewLease(a, lease_token[a])
             \/ ExpireStaleLeases \/ RefreshRunStatus \/ CallerDies \/ UNCHANGED vars
      PROVE  FALSE
  BY <1>8 DEF LeaseLapses, RenewLease, ExpireStaleLeases, RefreshRunStatus, CallerDies, vars
<1> HIDE DEF Fails
<1>9. Fails
  BY <1>1, <1>2, <1>3, <1>4, <1>5, <1>6, <1>7, <1>8 DEF Next
<1> QED
  BY <1>9 DEF Fails

(***************************************************************************)
(* The failure of an agent ends every wait for it, along chains of any     *)
(* length and whatever breaker and budget do meanwhile.                    *)
(***************************************************************************)
THEOREM FailuresEndWaits == Spec => FailureEndsTheWaits
<1> DEFINE Ended == \A a \in Agents : WaitsForAFailure(a)' /\ ~WaitsForAFailure(a) =>
                      status[a] \in {"paused", "failed", "timeout"}
<1>1. ASSUME IInv, IInv', [Next]_vars
      PROVE  Ended
  <2> SUFFICES ASSUME NEW a \in Agents, NEW d \in Deps[a],
                      status'[a] = "pending",
                      status'[d] \in FailureAgentStatuses, ~CanRetry(d)',
                      ~(status[a] = "pending" /\ status[d] \in FailureAgentStatuses
                         /\ ~CanRetry(d))
               PROVE  status[a] \in {"paused", "failed", "timeout"}
    BY DEF WaitsForAFailure
  <2>1. d \in Agents
    BY AgentsAssumption DEF Agents
  <2>2. FailureAgentStatuses \subseteq TerminalAgentStatuses
    BY DEF FailureAgentStatuses, TerminalAgentStatuses
  <2>3. CASE ResumeRun
    <3>1. CASE status[a] = "pending"
      <4>1. status[d] \in FailureAgentStatuses /\ CanRetry(d)' = CanRetry(d)
        BY <1>1, <2>1, <2>3, <3>1
           DEF ResumeRun, Rows, FailureAgentStatuses, IInv, TypeOK, CanRetry
      <4> QED
        BY <3>1, <4>1
    <3>2. CASE status[a] # "pending"
      BY <2>3, <3>2 DEF ResumeRun, Rows
    <3> QED
      BY <3>1, <3>2
  <2>4. CASE ~ResumeRun
    <3>1. status[a] = "pending"
      BY <1>1, <2>4, Fates DEF RowFate
    <3>2. CASE status[d] \in FailureAgentStatuses
      <4>1. d \notin expiring
        BY <1>1, <3>2 DEF IInv, ExpiringRows, FailureAgentStatuses
      <4>2. retry_attempt'[d] = retry_attempt[d]
        <5>1. CASE \E b \in Agents : \E i \in DOMAIN attempts[b] : FailAgentRetry(b, i)
          BY <1>1, <2>1, <3>2, <5>1
             DEF FailAgentRetry, Owns, FailureAgentStatuses, IInv, TypeOK
        <5>2. CASE \E b \in Agents : ExpireRow(b)
          BY <1>1, <2>1, <4>1, <5>2 DEF ExpireRow, IInv, TypeOK
        <5>3. CASE UNCHANGED retry_attempt
          BY <5>3
        <5>4. \/ \E b \in Agents : \E i \in DOMAIN attempts[b] : FailAgentRetry(b, i)
              \/ \E b \in Agents : ExpireRow(b)
              \/ UNCHANGED retry_attempt
          BY <1>1, <2>4
             DEF Next, vars, SpawnWorkerAgent, ClaimAgent, LeaseLapses, RenewLease,
                 CompleteAgent, FailAgentFinal, CancelAgent, CancelRun, MarkNewlyReadyAgents,
                 ExpireStaleLeases, RefreshRunStatus, CallerDies
        <5> QED
          BY <5>1, <5>2, <5>3, <5>4
      <4> QED
        BY <3>1, <3>2, <4>2 DEF CanRetry
    <3>3. CASE status[d] \notin FailureAgentStatuses
      <4>1. PICK f \in Agents, terminal \in FailureAgentStatuses :
              /\ status[f] \in {"running", "cancelled"}
              /\ status' \in FailureOutcomes(Failed(f, terminal), f)
        BY <1>1, <2>1, <2>4, <3>3, OnlyFailuresFail
      <4> QED
        BY <1>1, <3>3, <4>1, FailureEndsWaits
    <3> QED
      BY <3>2, <3>3
  <2> QED
    BY <2>3, <2>4
<1>2. IInv /\ IInv' /\ [Next]_vars => [Ended]_vars
  BY <1>1
<1> QED
  BY <1>2, Invariance, PTL DEF Spec, FailureEndsTheWaits

-----------------------------------------------------------------------------
(* The verdict. *)

\* complete_agent with a budget that is exceeded stops or pauses what is left.
THEOREM BudgetEndsTheRun == Spec => BudgetStopsTheRun
<1> DEFINE Stops == \A a \in Agents :
       status[a] # "completed" /\ status'[a] = "completed" =>
         /\ BudgetAction(cost_usd') = "cancel" => Rows(status', LiveAgentStatuses) = {}
         /\ BudgetAction(cost_usd') = "pause" => Rows(status', {"pending", "queued"}) = {}
<1>1. ASSUME IInv, [Next]_vars
      PROVE  Stops
  <2> SUFFICES ASSUME NEW a \in Agents, status[a] # "completed", status'[a] = "completed"
               PROVE  /\ BudgetAction(cost_usd') = "cancel" =>
                           Rows(status', LiveAgentStatuses) = {}
                      /\ BudgetAction(cost_usd') = "pause" =>
                           Rows(status', {"pending", "queued"}) = {}
    OBVIOUS
  <2>0. PICK c \in Agents : \E i \in DOMAIN attempts[c], cost \in Costs :
          CompleteAgent(c, i, cost)
    BY <1>1, OnlyCompleteAgentCompletes
  <2>1. PICK i \in DOMAIN attempts[c], cost \in Costs : CompleteAgent(c, i, cost)
    BY <2>0
  <2> DEFINE done == MarkNewlyReady(Updated(status, {c}, "completed"))
             action == BudgetAction([cost_usd EXCEPT ![c] = cost])
  <2>2. action = BudgetAction(cost_usd')
    BY <2>1 DEF CompleteAgent
  <2>3. \/ action \in {"none", "warn"}
        \/ action = "pause" /\ status' = Paused(done)
        \/ action = "cancel" /\ status' = Stopped(done)
    BY <2>1 DEF CompleteAgent
  <2> HIDE DEF done, action
  <2>4. CASE action \in {"none", "warn"}
    BY <2>2, <2>4
  <2>5. CASE action = "pause" /\ status' = Paused(done)
    BY <2>2, <2>5 DEF Paused, Updated, Rows
  <2>6. CASE action = "cancel" /\ status' = Stopped(done)
    BY <2>2, <2>6 DEF Stopped, Updated, Rows, LiveAgentStatuses
  <2> QED
    BY <2>3, <2>4, <2>5, <2>6
<1>2. IInv /\ [Next]_vars => [Stops]_vars
  BY <1>1
<1> QED
  BY <1>2, Invariance, PTL DEF Spec, BudgetStopsTheRun

(***************************************************************************)
(* What makes the verdict inductive: the rows of the plan exist, and an    *)
(* expiry pass that is open has read none of a plan that has ended.        *)
(***************************************************************************)
VerdictInv ==
  /\ \A a \in PlanAgents : status[a] # "absent"
  /\ RunVerdictCoversPlan
  /\ run_status \in {"completed", "cancelled"} => expiring \cap PlanAgents = {}

\* The actions that give the run its status.
LEMMA VerdictKinds ==
  ASSUME IInv, [Next]_vars
  PROVE  \/ run_status' = run_status /\ ~ResumeRun
         \/ run_status' \notin {"completed", "cancelled"}
         \/ CancelRun
         \/ RefreshRunStatus
<1> DEFINE Kind == \/ run_status' = run_status /\ ~ResumeRun
                   \/ run_status' \notin {"completed", "cancelled"}
                   \/ CancelRun
                   \/ RefreshRunStatus
<1>1. CASE ResumeRun
  BY <1>1 DEF ResumeRun
<1>2. ASSUME ~ResumeRun, NEW a \in Agents, NEW i \in DOMAIN attempts[a], NEW c \in Costs,
             CompleteAgent(a, i, c)
      PROVE  Kind
  BY <1>2 DEF CompleteAgent
<1>3. ASSUME ~ResumeRun, NEW a \in Agents, NEW i \in DOMAIN attempts[a],
             NEW r \in FailureReports, FailAgentFinal(a, i, r[1], r[2])
      PROVE  Kind
  BY <1>3 DEF FailAgentFinal
<1>4. ASSUME ~ResumeRun, NEW a \in Agents, ExpireRow(a) \/ ClaimAgent(a)
      PROVE  Kind
  BY <1>4 DEF ExpireRow, ClaimAgent
<1>5. ASSUME ~ResumeRun,
             \/ \E m \in Managers, d \in DynamicAgents : SpawnWorkerAgent(m, d)
             \/ \E a \in Agents : \/ LeaseLapses(a) \/ RenewLease(a, lease_token[a])
                                  \/ CancelAgent(a)
                                  \/ \E i \in DOMAIN attempts[a] : FailAgentRetry(a, i)
             \/ MarkNewlyReadyAgents \/ ExpireStaleLeases \/ CallerDies \/ UNCHANGED vars
      PROVE  Kind
  BY <1>5 DEF SpawnWorkerAgent, LeaseLapses, RenewLease, CancelAgent, FailAgentRetry,
              MarkNewlyReadyAgents, ExpireStaleLeases, CallerDies, vars
<1> QED
  BY <1>1, <1>2, <1>3, <1>4, <1>5 DEF Next

\* What refresh_run_status finds of the rows when it ends the run.
LEMMA RefreshVerdict ==
  ASSUME IInv, VerdictInv, RefreshRunStatus
  PROVE  RunVerdictCoversPlan'
<1> DEFINE statuses == {status[a] : a \in Agents} \ {"absent"}
<1>0. status' = status
  BY DEF RefreshRunStatus
<1>1. CASE run_status' = run_status
  BY <1>0, <1>1 DEF VerdictInv, RunVerdictCoversPlan
<1>2. CASE run_status' = AggregateStatus /\ run_status' # run_status
  <2>1. \A a \in PlanAgents : status[a] \in statuses
    BY DEF VerdictInv, Agents
  <2>2. AggregateStatus = "completed" =>
          statuses = {} \/ statuses \subseteq {"completed"}
    BY <1>2 DEF AggregateStatus, EndedVerdict
  <2>3. AggregateStatus = "cancelled" =>
          statuses = {} \/ statuses \subseteq TerminalAgentStatuses
    BY <1>2 DEF AggregateStatus
  <2> HIDE DEF statuses
  <2>4. AggregateStatus = "completed" => \A a \in PlanAgents : status[a] = "completed"
    BY <2>1, <2>2
  <2>5. AggregateStatus = "cancelled" =>
          \A a \in PlanAgents : status[a] \in TerminalAgentStatuses
    BY <2>1, <2>3
  <2> QED
    BY <1>0, <1>2, <2>4, <2>5 DEF RunVerdictCoversPlan
<1> QED
  BY <1>1, <1>2 DEF RefreshRunStatus

LEMMA StepVerdictInv ==
  ASSUME IInv, VerdictInv, [Next]_vars
  PROVE  VerdictInv'
<1>0. PlanAgents \subseteq Agents
  BY DEF Agents
<1>1. \A a \in PlanAgents : status'[a] # "absent"
  <2>1. CASE ResumeRun
    BY <1>0, <2>1 DEF ResumeRun, VerdictInv
  <2>2. CASE ~ResumeRun
    BY <1>0, <2>2, Fates DEF RowFate, VerdictInv
  <2> QED
    BY <2>1, <2>2
<1>2. CASE run_status' = run_status /\ ~ResumeRun
  <2> SUFFICES ASSUME run_status \in {"completed", "cancelled"}
               PROVE  RunVerdictCoversPlan' /\ expiring' \cap PlanAgents = {}
    BY <1>1, <1>2 DEF VerdictInv, RunVerdictCoversPlan
  <2>1. \A a \in PlanAgents : status[a] \in TerminalAgentStatuses /\ a \notin expiring
    BY DEF VerdictInv, RunVerdictCoversPlan, TerminalAgentStatuses
  <2>2. \A a \in PlanAgents : status'[a] = status[a]
    BY <1>0, <1>2, <2>1, Fates DEF RowFate
  <2>3. \A a \in PlanAgents : a \notin expiring'
    <3>1. CASE \A a \in Agents : RowStep(a)
      BY <1>0, <2>1, <3>1 DEF RowStep, StatusStep, TerminalAgentStatuses
    <3>2. CASE expiring' = expiring
      BY <2>1, <3>2
    <3> QED
      BY <3>1, <3>2, StepKinds DEF SpawnWorkerAgent, ClaimAgent
  <2> QED
    BY <1>2, <2>2, <2>3 DEF VerdictInv, RunVerdictCoversPlan
<1>3. CASE run_status' \notin {"completed", "cancelled"}
  BY <1>1, <1>3 DEF VerdictInv, RunVerdictCoversPlan
<1>4. CASE CancelRun
  <2>1. \A a \in PlanAgents : status'[a] \in TerminalAgentStatuses
    <3> SUFFICES ASSUME NEW a \in PlanAgents
                 PROVE  status'[a] \in TerminalAgentStatuses
      OBVIOUS
    <3>1. status[a] \in LiveAgentStatuses \cup TerminalAgentStatuses
      BY <1>0 DEF IInv, TypeOK, VerdictInv, AgentStatuses
    <3> QED
      BY <1>0, <1>4, <3>1 DEF CancelRun, Stopped, Updated, Rows, TerminalAgentStatuses
  <2>2. run_status' = "cancelled" /\ expiring' = {}
    BY <1>4 DEF CancelRun, Idle
  <2> QED
    BY <1>1, <2>1, <2>2 DEF VerdictInv, RunVerdictCoversPlan
<1>5. CASE RefreshRunStatus
  <2>1. expiring' = {}
    BY <1>5 DEF RefreshRunStatus, Idle
  <2> QED
    BY <1>1, <1>5, <2>1, RefreshVerdict DEF VerdictInv
<1> QED
  BY <1>2, <1>3, <1>4, <1>5, VerdictKinds

LEMMA VerdictInvariance == Spec => [](IInv /\ VerdictInv)
<1>1. Init => VerdictInv
  BY AgentsAssumption DEF Init, VerdictInv, RunVerdictCoversPlan, Agents
<1>2. IInv /\ VerdictInv /\ [Next]_vars => VerdictInv'
  BY StepVerdictInv
<1> QED
  BY <1>1, <1>2, Invariance, PTL DEF Spec

(***************************************************************************)
(* A run that is shown completed has completed its plan, a run shown       *)
(* cancelled has none of it left, however late a refresh is made.          *)
(***************************************************************************)
THEOREM VerdictCoversPlan == Spec => []RunVerdictCoversPlan
<1>1. VerdictInv => RunVerdictCoversPlan
  BY DEF VerdictInv
<1> QED
  BY <1>1, VerdictInvariance, PTL

(***************************************************************************)
(* No agent of the plan starts in a run that was cancelled: by the verdict *)
(* none is queued.                                                         *)
(***************************************************************************)
THEOREM CancelledPlansStay == Spec => CancelledPlanStays
<1> DEFINE Stays == run_status = "cancelled" => \A a \in PlanAgents :
                      ~(status[a] # "running" /\ status'[a] = "running")
<1>1. ASSUME IInv, VerdictInv, [Next]_vars
      PROVE  Stays
  <2> SUFFICES ASSUME run_status = "cancelled", NEW a \in PlanAgents,
                      status[a] # "running", status'[a] = "running"
               PROVE  FALSE
    OBVIOUS
  <2>1. a \in Agents /\ status[a] \in TerminalAgentStatuses /\ a \notin expiring
    BY <1>1 DEF Agents, VerdictInv, RunVerdictCoversPlan
  <2>2. CASE ResumeRun
    BY <2>1, <2>2 DEF ResumeRun
  <2>3. CASE ~ResumeRun
    BY <1>1, <2>1, <2>3, Fates DEF RowFate
  <2> QED
    BY <2>2, <2>3
<1>2. IInv /\ VerdictInv /\ [Next]_vars => [Stays]_vars
  BY <1>1
<1> QED
  BY <1>2, VerdictInvariance, PTL DEF Spec, CancelledPlanStays

\* A refresh that finds every agent ended ends the run.
LEMMA RefreshEnds ==
  ASSUME IInv, VerdictInv, PlanAgents # {}, RefreshRunStatus,
         \A a \in Agents : status'[a] \notin LiveAgentStatuses
  PROVE  run_status' \in TerminalRunStatuses
<1> DEFINE statuses == {status[a] : a \in Agents} \ {"absent"}
<1>1. CASE run_status \in {"cancelled", "cost_exceeded"}
  BY <1>1 DEF RefreshRunStatus, TerminalRunStatuses
<1>2. CASE run_status \notin {"cancelled", "cost_exceeded"}
  <2>1. run_status' = AggregateStatus /\ status' = status
    BY <1>2 DEF RefreshRunStatus
  <2>2. statuses # {}
    BY DEF VerdictInv, Agents
  <2>3. statuses \subseteq TerminalAgentStatuses
    BY <2>1 DEF IInv, TypeOK, AgentStatuses
  <2>4. EndedVerdict(statuses) \in TerminalRunStatuses
    BY DEF EndedVerdict, TerminalRunStatuses
  <2>5. AggregateStatus \in {"completed", EndedVerdict(statuses)}
    BY <2>2, <2>3 DEF AggregateStatus
  <2> QED
    BY <2>1, <2>4, <2>5 DEF TerminalRunStatuses
<1> QED
  BY <1>1, <1>2

(***************************************************************************)
(* A run whose agents have all ended ends, if the callers live to refresh  *)
(* it: what ends the last agent leaves a refresh owed or ends the run.     *)
(***************************************************************************)
THEOREM SettledRunsEnd ==
  ASSUME ~CallersMayDie, PlanAgents # {}
  PROVE  Spec => []SettledRunIsTerminal
<1> DEFINE Settled == Idle /\ refreshes = 0 /\ Rows(status, LiveAgentStatuses) = {}
<1>1. Init => SettledRunIsTerminal
  <2> SUFFICES ASSUME Init
               PROVE  Rows(status, LiveAgentStatuses) # {}
    BY DEF SettledRunIsTerminal
  <2>1. PICK a \in PlanAgents : a \in Agents /\ a \notin DynamicAgents
    BY AgentsAssumption DEF Agents
  <2> QED
    BY <2>1 DEF Init, Rows, LiveAgentStatuses
<1>2. ASSUME IInv, VerdictInv, SettledRunIsTerminal, [Next]_vars
      PROVE  SettledRunIsTerminal'
  <2> SUFFICES ASSUME expiring' = {}, refreshes' = 0, Rows(status', LiveAgentStatuses) = {}
               PROVE  run_status' \in TerminalRunStatuses
    BY DEF SettledRunIsTerminal, Idle
  <2>1. refreshes \in Nat /\ \A a \in Agents : status'[a] \notin LiveAgentStatuses
    BY <1>2, BoundAssumption DEF IInv, TypeOK, Rows
  <2>2. ~OweRefresh
    BY <2>1 DEF OweRefresh
  <2>3. \A a \in Agents : ~ClaimAgent(a)
    BY <1>2, <2>1 DEF ClaimAgent, LiveAgentStatuses, IInv, TypeOK
  <2>4. \A m \in Managers, d \in DynamicAgents : ~SpawnWorkerAgent(m, d)
    BY <1>2, <2>1 DEF SpawnWorkerAgent, LiveAgentStatuses, IInv, TypeOK, Agents
  <2>5. CASE CancelRun
    BY <2>5 DEF CancelRun, TerminalRunStatuses
  <2>6. CASE RefreshRunStatus
    BY <1>2, <2>1, <2>6, RefreshEnds
  <2>7. CASE UNCHANGED <<run_status, refreshes, expiring>> /\ UNCHANGED status
    BY <1>2, <2>7 DEF SettledRunIsTerminal, Idle
  <2>8. CASE MarkNewlyReadyAgents
    <3>1. \A a \in Agents : status[a] \notin LiveAgentStatuses
      BY <1>2, <2>1, <2>8, MovedByPromotion
         DEF MarkNewlyReadyAgents, LiveAgentStatuses, IInv, TypeOK, StatusColumn
    <3> QED
      BY <1>2, <2>8, <3>1 DEF MarkNewlyReadyAgents, SettledRunIsTerminal, Idle, Rows
  <2>9. \A a \in Agents : ~ExpireRow(a)
    BY <2>2 DEF ExpireRow
  <2>10. ~ExpireStaleLeases
    BY DEF ExpireStaleLeases
  <2>11. CASE \E a \in Agents : LeaseLapses(a) \/ RenewLease(a, lease_token[a])
    BY <2>7, <2>11 DEF LeaseLapses, RenewLease
  <2> QED
    BY <1>2, <2>2, <2>3, <2>4, <2>5, <2>6, <2>7, <2>8, <2>9, <2>10, <2>11
       DEF Next, vars, CompleteAgent, FailAgentRetry, FailAgentFinal, CancelAgent, ResumeRun,
           CallerDies
<1>3. IInv /\ VerdictInv /\ SettledRunIsTerminal /\ [Next]_vars => SettledRunIsTerminal'
  BY <1>2
<1> QED
  BY <1>1, <1>3, VerdictInvariance, PTL DEF Spec
=============================================================================
