-------------------------- MODULE Isolation_proofs --------------------------
(***************************************************************************)
(* What the interleaved transactions of RunIsolation keep true, for any    *)
(* run, any number of workers and operators and any limit.                 *)
(*                                                                         *)
(* The inductive invariant says what each process holds: which of its      *)
(* steps has rows locked, and what it has drafted on them (LocksMatch),    *)
(* and that a draft only ever carries a row on from what is committed      *)
(* (RowInv).  On it rest two counts: the rows that run together with the   *)
(* claims that are about to commit (SlotsAreBounded), and, for each agent  *)
(* whose dependencies are done, a worker that has yet to look              *)
(* (SomebodyLooks).                                                        *)
(***************************************************************************)
EXTENDS RunIsolation, FiniteSetTheorems, SequenceTheorems, TLAPS

\* A lease token is that of the last attempt of its agent, which runs.
TokenOfLast(row) ==
  row.token # 0 => /\ row.token = Len(row.attempts)
                   /\ row.attempts[row.token] = "running"
GoodRow(row) == row \in AgentRow /\ TokenOfLast(row)

\* A later row has the attempts of an earlier one, with their outcomes, and a
\* new success only at its end.
Evolves(old, new) ==
  /\ Len(old.attempts) <= Len(new.attempts)
  /\ \A i \in 1..Len(old.attempts) :
       old.attempts[i] # "running" => new.attempts[i] = old.attempts[i]
  /\ \A i \in 1..Len(new.attempts) : new.attempts[i] = "completed" =>
       \/ i <= Len(old.attempts) /\ old.attempts[i] = "completed"
       \/ i = Len(new.attempts)

Fits(r, v) ==
  /\ r \in Agents => GoodRow(v) /\ Evolves(committed[r], v)
  /\ r = "run" => v \in RunRow

RowInv ==
  /\ committed \in [RowIds -> AgentRow \cup RunRow]
  /\ draft \in [RowIds -> AgentRow \cup RunRow]
  /\ lock \in [RowIds -> Procs \cup {"nobody"}]
  /\ \A a \in Agents : GoodRow(committed[a])
  /\ committed["run"] \in RunRow
  /\ \A r \in RowIds : Fits(r, draft[r])
  /\ \A r \in RowIds : lock[r] = "nobody" => draft[r] = committed[r]

Steps == WorkerSteps \cup OperatorSteps \cup RefreshSteps
JobSteps == {"start run", "exec", "complete"}
ProcInv ==
  /\ step \in [Procs -> Steps]
  /\ \A w \in Workers : step[w] \in WorkerSteps \cup RefreshSteps
  /\ \A o \in Operators : step[o] \in OperatorSteps \cup RefreshSteps
  /\ job \in [Workers -> [agent : Agents \cup {"none"}, attempt : Nat]]
  /\ \A w \in Workers : IF step[w] \in JobSteps
                        THEN job[w].agent \in Agents /\ job[w].attempt # 0
                        ELSE job[w] = NoJob
  /\ todo \in [Procs -> Seq(Agents)]
  /\ verdict \in [Procs -> {"none", "queued", "running"} \cup Terminal]
  /\ \A p \in Procs : step[p] = "publish" => verdict[p] # "none"
  /\ operations \in [Operators -> 0..MaxOperations]
  /\ skipped \in BOOLEAN

\* What a process in step s may have drafted on an agent.
Drafts(s) ==
  CASE s = "start run" -> {"running"}
    [] s = "queue" -> {"completed", "queued"}
    [] s \in {"queue again", "requeue"} -> {"queued"}
    [] s = "cancel rows" -> {"cancelled"}
    [] OTHER -> {}
LocksMatch ==
  /\ \A a \in Agents : lock[a] # "nobody" =>
       /\ draft[a].status \in Drafts(step[lock[a]])
       /\ step[lock[a]] = "start run" => a = job[lock[a]].agent
  /\ lock["run"] # "nobody" => step[lock["run"]] = "cancel rows"

\* The claims that have counted and not committed yet.
Claiming == {w \in Workers : step[w] = "start run"}
SlotsAreBounded ==
  ConcurrencyLimit > 0 =>
    Cardinality(RunningRows) + Cardinality(Claiming)
      <= ConcurrencyLimit + Cardinality(Workers) - 1

\* A worker that has yet to look for ready agents, or is at the row of a.
LooksAt(w, a) ==
  \/ step[w] \in RefreshSteps \cup {"promote again"}
  \/ step[w] = "queue again" /\ (lock[a] = w \/ \E i \in DOMAIN todo[w] : todo[w][i] = a)
Overlooked(a) ==
  /\ committed[a].status = "pending"
  /\ \A d \in Deps[a] : committed[d].status = "completed"
SomebodyLooks ==
  ~skipped => \A a \in Agents : Overlooked(a) => \E w \in Workers : LooksAt(w, a)

IsoInv == RowInv /\ ProcInv /\ LocksMatch

-----------------------------------------------------------------------------
(***************************************************************************)
(* Rows.                                                                   *)
(***************************************************************************)
LEMMA AgentRowParts ==
  ASSUME NEW row \in AgentRow
  PROVE  /\ row.status \in {"pending", "queued", "running"} \cup Terminal
         /\ row.token \in Nat
         /\ row.attempts \in Seq({"running", "expired"} \cup Terminal)
         /\ Len(row.attempts) \in Nat
         /\ DOMAIN row.attempts = 1..Len(row.attempts)
         /\ \A i \in 1..Len(row.attempts) :
              row.attempts[i] \in {"running", "expired"} \cup Terminal
<1>1. row.attempts \in Seq({"running", "expired"} \cup Terminal)
  BY DEF AgentRow
<1>2. row.status \in {"pending", "queued", "running"} \cup Terminal /\ row.token \in Nat
  BY DEF AgentRow
<1> QED
  BY <1>1, <1>2, LenProperties, ElementOfSeq, Zenon

LEMMA EvolvesReflexive ==
  ASSUME NEW row \in AgentRow
  PROVE  Evolves(row, row)
  BY AgentRowParts DEF Evolves

\* A row that is carried on, and gets no new attempt and no new success.
LEMMA EvolvesFurther ==
  ASSUME NEW old \in AgentRow, NEW mid \in AgentRow, NEW new \in AgentRow,
         Evolves(old, mid),
         Len(new.attempts) = Len(mid.attempts),
         \A i \in 1..Len(mid.attempts) :
           IF mid.attempts[i] = "running" THEN new.attempts[i] # "completed"
                                          ELSE new.attempts[i] = mid.attempts[i]
  PROVE  Evolves(old, new)
<1>1. Len(old.attempts) \in Nat /\ Len(mid.attempts) \in Nat
  BY AgentRowParts
<1>2. ASSUME NEW i \in 1..Len(old.attempts), old.attempts[i] # "running"
      PROVE  new.attempts[i] = old.attempts[i]
  <2>1. i \in 1..Len(mid.attempts) /\ mid.attempts[i] = old.attempts[i]
    BY <1>1, <1>2 DEF Evolves
  <2> QED
    BY <1>2, <2>1
<1>3. ASSUME NEW i \in 1..Len(new.attempts), new.attempts[i] = "completed"
      PROVE  \/ i <= Len(old.attempts) /\ old.attempts[i] = "completed"
             \/ i = Len(new.attempts)
  <2>1. mid.attempts[i] = "completed"
    BY <1>3
  <2> QED
    BY <1>3, <2>1 DEF Evolves
<1>4. Len(old.attempts) <= Len(new.attempts)
  BY DEF Evolves
<1> QED
  BY <1>2, <1>3, <1>4 DEF Evolves

LEMMA QueuedRow ==
  ASSUME NEW old \in AgentRow, NEW row, GoodRow(row), Evolves(old, row)
  PROVE  /\ GoodRow(Queued(row)) /\ Evolves(old, Queued(row))
         /\ Queued(row).status = "queued"
<1> USE DEF GoodRow
<1> DEFINE new == [status |-> "queued", token |-> row.token, attempts |-> row.attempts]
<1>1. Queued(row) = new
  BY DEF Queued, AgentRow
<1>2. new \in AgentRow
  BY DEF AgentRow
<1>3. TokenOfLast(new)
  BY DEF TokenOfLast
<1>4. Evolves(old, new)
  BY DEF Evolves
<1>5. new.status = "queued"
  OBVIOUS
<1> HIDE DEF new
<1> QED
  BY <1>1, <1>2, <1>3, <1>4, <1>5

LEMMA EndedRow ==
  ASSUME NEW old \in AgentRow, NEW row, GoodRow(row), Evolves(old, row),
         NEW status \in {"queued", "cancelled"}, NEW outcome \in {"expired", "cancelled"}
  PROVE  /\ GoodRow(Ended(row, status, outcome))
         /\ Evolves(old, Ended(row, status, outcome))
         /\ Ended(row, status, outcome).status = status
<1> DEFINE at == [i \in DOMAIN row.attempts |->
                    IF row.attempts[i] = "running" THEN outcome ELSE row.attempts[i]]
           new == [status |-> status, token |-> 0, attempts |-> at]
<1>1. Ended(row, status, outcome) = new
  BY Zenon DEF Ended
<1>2. row \in AgentRow
  BY DEF GoodRow
<1>3. Len(row.attempts) \in Nat /\ DOMAIN row.attempts = 1..Len(row.attempts)
  BY <1>2, AgentRowParts
<1>4. at \in Seq({"running", "expired"} \cup Terminal) /\ Len(at) = Len(row.attempts)
  <2>1. \A i \in 1..Len(row.attempts) : at[i] \in {"running", "expired"} \cup Terminal
    BY <1>2, <1>3, AgentRowParts DEF Terminal
  <2> HIDE DEF at
  <2>2. DOMAIN at = 1..Len(row.attempts) /\ at = [i \in 1..Len(row.attempts) |-> at[i]]
    BY <1>3 DEF at
  <2>3. at \in [1..Len(row.attempts) -> {"running", "expired"} \cup Terminal]
    BY <2>1, <2>2
  <2> QED
    BY <1>3, <2>2, <2>3, SeqDef, LenProperties
<1>5. new \in AgentRow
  <2> HIDE DEF at
  <2> QED
    BY <1>4 DEF AgentRow, Terminal
<1>6. \A i \in 1..Len(row.attempts) :
        IF row.attempts[i] = "running" THEN at[i] # "completed"
                                       ELSE at[i] = row.attempts[i]
  BY <1>3
<1>7. new.status = status /\ new.token = 0 /\ new.attempts = at
  OBVIOUS
<1> HIDE DEF at, new
<1>8. Evolves(old, new)
  BY <1>2, <1>4, <1>5, <1>6, <1>7, EvolvesFurther
<1>9. TokenOfLast(new)
  BY <1>7 DEF TokenOfLast
<1> QED
  BY <1>1, <1>5, <1>7, <1>8, <1>9 DEF GoodRow

\* The row of an agent whose newest attempt completes.
LEMMA CompletedRow ==
  ASSUME NEW row, GoodRow(row), NEW n \in Nat, n # 0, row.token = n
  PROVE  LET new == [status |-> "completed", token |-> 0,
                     attempts |-> [row.attempts EXCEPT ![n] = "completed"]]
         IN  GoodRow(new) /\ Evolves(row, new) /\ new.status = "completed"
<1> DEFINE at == [row.attempts EXCEPT ![n] = "completed"]
           new == [status |-> "completed", token |-> 0, attempts |-> at]
<1>1. row \in AgentRow /\ n = Len(row.attempts) /\ row.attempts[n] = "running"
  BY DEF GoodRow, TokenOfLast
<1>2. /\ row.attempts \in Seq({"running", "expired"} \cup Terminal)
      /\ DOMAIN row.attempts = 1..Len(row.attempts)
  BY <1>1, AgentRowParts
<1>3. /\ at \in Seq({"running", "expired"} \cup Terminal)
      /\ Len(at) = Len(row.attempts)
      /\ \A i \in 1..Len(row.attempts) :
           at[i] = IF i = n THEN "completed" ELSE row.attempts[i]
  BY <1>1, <1>2, ExceptSeq DEF Terminal
<1>4. new \in AgentRow
  <2> HIDE DEF at
  <2> QED
    BY <1>3 DEF AgentRow, Terminal
<1>5. new.status = "completed" /\ new.token = 0 /\ new.attempts = at
  OBVIOUS
<1> HIDE DEF at, new
<1>6. Evolves(row, new)
  BY <1>1, <1>3, <1>5 DEF Evolves
<1>7. GoodRow(new)
  BY <1>4, <1>5 DEF GoodRow, TokenOfLast
<1>8. GoodRow(new) /\ Evolves(row, new) /\ new.status = "completed"
  BY <1>5, <1>6, <1>7
<1> QED
  BY <1>8 DEF new, at

\* The row of an agent that is claimed.
LEMMA ClaimedRow ==
  ASSUME NEW row, GoodRow(row)
  PROVE  LET n   == Len(row.attempts) + 1
             new == [status |-> "running", token |-> n,
                     attempts |-> Append(row.attempts, "running")]
         IN  GoodRow(new) /\ Evolves(row, new) /\ new.status = "running" /\ n \in Nat \ {0}
<1> DEFINE n   == Len(row.attempts) + 1
           at  == Append(row.attempts, "running")
           new == [status |-> "running", token |-> n, attempts |-> at]
<1>1. row \in AgentRow
  BY DEF GoodRow
<1>2. /\ row.attempts \in Seq({"running", "expired"} \cup Terminal)
      /\ Len(row.attempts) \in Nat
  BY <1>1, AgentRowParts
<1>3. /\ at \in Seq({"running", "expired"} \cup Terminal)
      /\ Len(at) = n
      /\ \A i \in 1..Len(row.attempts) : at[i] = row.attempts[i]
      /\ at[n] = "running"
  BY <1>2, AppendProperties
<1>4. n \in Nat \ {0} /\ n = Len(row.attempts) + 1
  BY <1>2
<1>5. new \in AgentRow
  <2> HIDE DEF at, n
  <2> QED
    BY <1>3, <1>4 DEF AgentRow
<1>6. new.status = "running" /\ new.token = n /\ new.attempts = at
  OBVIOUS
<1> HIDE DEF at, new, n
<1>7. Evolves(row, new)
  <2>1. \A i \in 1..n : i \in 1..Len(row.attempts) \/ i = n
    BY <1>2, <1>4
  <2> QED
    BY <1>2, <1>3, <1>4, <1>6, <2>1 DEF Evolves
<1>8. GoodRow(new)
  BY <1>3, <1>5, <1>6 DEF GoodRow, TokenOfLast
<1>9. GoodRow(new) /\ Evolves(row, new) /\ new.status = "running" /\ n \in Nat \ {0}
  BY <1>4, <1>6, <1>7, <1>8
<1> QED
  BY <1>9 DEF new, at, n

-----------------------------------------------------------------------------
(***************************************************************************)
(* Statements: a write, a commit with or without a last write, a rollback  *)
(* keep the rows in order, and what is committed only carries rows on.     *)
(***************************************************************************)
CommittedEvolves == \A a \in Agents : Evolves(committed[a], committed'[a])

LEMMA RowIdCases ==
  /\ "run" \in RowIds /\ Agents \subseteq RowIds /\ "run" \notin Agents
  /\ \A r \in RowIds : r \in Agents \/ r = "run"
  /\ "nobody" \notin Procs
  BY IsolationAssumption DEF RowIds

LEMMA FitsTypes ==
  ASSUME NEW r \in RowIds, NEW v, Fits(r, v)
  PROVE  v \in AgentRow \cup RunRow
  BY RowIdCases DEF Fits, GoodRow

LEMMA StutterKeepsRows ==
  ASSUME RowInv, UNCHANGED dbVars
  PROVE  RowInv' /\ CommittedEvolves
<1>1. RowInv'
  BY DEF RowInv, Fits, dbVars
<1>2. CommittedEvolves
  BY EvolvesReflexive DEF RowInv, CommittedEvolves, GoodRow, dbVars
<1> QED
  BY <1>1, <1>2

LEMMA WriteKeepsRows ==
  ASSUME RowInv, NEW p \in Procs, NEW r \in RowIds, NEW v,
         Write(p, r, v), Fits(r, v)
  PROVE  RowInv' /\ CommittedEvolves
<1> USE DEF Write
<1>1. committed' = committed
  OBVIOUS
<1>2. lock' \in [RowIds -> Procs \cup {"nobody"}]
  BY DEF RowInv
<1>3. draft' \in [RowIds -> AgentRow \cup RunRow]
  BY FitsTypes DEF RowInv
<1>4. \A x \in RowIds : Fits(x, draft'[x])
  BY DEF RowInv
<1>5. \A x \in RowIds : Fits(x, draft[x])'
  BY <1>1, <1>4 DEF Fits
<1>6. \A x \in RowIds : lock'[x] = "nobody" => draft'[x] = committed'[x]
  BY <1>1, RowIdCases DEF RowInv
<1>7. CommittedEvolves
  BY <1>1, EvolvesReflexive DEF RowInv, CommittedEvolves, GoodRow
<1>8. RowInv'
  BY <1>1, <1>2, <1>3, <1>5, <1>6 DEF RowInv
<1> QED
  BY <1>7, <1>8

\* A commit, by what it makes of each row.
LEMMA PublishKeepsRows ==
  ASSUME RowInv,
         committed' \in [RowIds -> AgentRow \cup RunRow],
         draft' \in [RowIds -> AgentRow \cup RunRow],
         lock' \in [RowIds -> Procs \cup {"nobody"}],
         \A r \in RowIds : \/ Fits(r, committed'[r]) /\ draft'[r] = committed'[r]
                           \/ /\ committed'[r] = committed[r] /\ draft'[r] = draft[r]
                              /\ lock'[r] = lock[r]
  PROVE  RowInv' /\ CommittedEvolves
<1>1. \A a \in Agents : GoodRow(committed'[a]) /\ Evolves(committed[a], committed'[a])
  BY RowIdCases, EvolvesReflexive DEF RowInv, Fits, GoodRow
<1>2. committed'["run"] \in RunRow
  BY RowIdCases DEF RowInv, Fits
<1>3. \A r \in RowIds : Fits(r, draft[r])'
  <2> SUFFICES ASSUME NEW r \in RowIds
               PROVE  Fits(r, draft[r])'
    OBVIOUS
  <2>1. CASE Fits(r, committed'[r]) /\ draft'[r] = committed'[r]
    BY <1>1, <2>1, EvolvesReflexive DEF Fits, GoodRow
  <2>2. CASE committed'[r] = committed[r] /\ draft'[r] = draft[r]
    BY <2>2 DEF RowInv, Fits
  <2> QED
    BY <2>1, <2>2
<1>4. \A r \in RowIds : lock'[r] = "nobody" => draft'[r] = committed'[r]
  BY DEF RowInv
<1>5. RowInv'
  BY <1>1, <1>2, <1>3, <1>4 DEF RowInv
<1> QED
  BY <1>1, <1>5 DEF CommittedEvolves

LEMMA CommitKeepsRows ==
  ASSUME RowInv, NEW p \in Procs, Commit(p)
  PROVE  RowInv' /\ CommittedEvolves
<1> USE DEF Commit, Released
<1>1. /\ committed' \in [RowIds -> AgentRow \cup RunRow]
      /\ draft' \in [RowIds -> AgentRow \cup RunRow]
      /\ lock' \in [RowIds -> Procs \cup {"nobody"}]
  BY DEF RowInv
<1>2. \A r \in RowIds : \/ Fits(r, committed'[r]) /\ draft'[r] = committed'[r]
                        \/ /\ committed'[r] = committed[r] /\ draft'[r] = draft[r]
                           /\ lock'[r] = lock[r]
  BY DEF RowInv
<1> QED
  BY <1>1, <1>2, PublishKeepsRows

LEMMA CommitLastKeepsRows ==
  ASSUME RowInv, NEW p \in Procs, NEW last \in RowIds, NEW v,
         CommitLast(p, last, v), Fits(last, v)
  PROVE  RowInv' /\ CommittedEvolves
<1> USE DEF CommitLast, Released
<1>1. v \in AgentRow \cup RunRow
  BY FitsTypes
<1>2. /\ committed' \in [RowIds -> AgentRow \cup RunRow]
      /\ draft' \in [RowIds -> AgentRow \cup RunRow]
      /\ lock' \in [RowIds -> Procs \cup {"nobody"}]
  BY <1>1 DEF RowInv
<1>3. \A r \in RowIds : \/ Fits(r, committed'[r]) /\ draft'[r] = committed'[r]
                        \/ /\ committed'[r] = committed[r] /\ draft'[r] = draft[r]
                           /\ lock'[r] = lock[r]
  BY DEF RowInv
<1> QED
  BY <1>2, <1>3, PublishKeepsRows

LEMMA RollbackKeepsRows ==
  ASSUME RowInv, NEW p \in Procs, Rollback(p)
  PROVE  RowInv' /\ CommittedEvolves
<1> USE DEF Rollback, Released
<1>1. /\ committed' \in [RowIds -> AgentRow \cup RunRow]
      /\ draft' \in [RowIds -> AgentRow \cup RunRow]
      /\ lock' \in [RowIds -> Procs \cup {"nobody"}]
  BY DEF RowInv
<1>2. \A r \in RowIds : Fits(r, committed[r])
  BY EvolvesReflexive, RowIdCases DEF RowInv, Fits, GoodRow
<1>3. \A r \in RowIds : \/ Fits(r, committed'[r]) /\ draft'[r] = committed'[r]
                        \/ /\ committed'[r] = committed[r] /\ draft'[r] = draft[r]
                           /\ lock'[r] = lock[r]
  BY <1>2 DEF RowInv
<1> QED
  BY <1>1, <1>3, PublishKeepsRows

-----------------------------------------------------------------------------
(***************************************************************************)
(* Loops over rows: in which order they are written, and what a step of    *)
(* such a loop does.                                                       *)
(***************************************************************************)
LEMMA OrderOfRows ==
  ASSUME NEW S \in SUBSET Agents, NEW order \in SetToSeqs(S)
  PROVE  order \in Seq(Agents) /\ \A a \in S : \E i \in DOMAIN order : order[i] = a
<1> DEFINE n == Cardinality(S)
<1>1. IsFiniteSet(S) /\ n \in Nat
  BY IsolationAssumption, FS_Subset, FS_CardinalityType
<1>2. order \in [1..n -> S] /\ \A i, j \in 1..n : i # j => order[i] # order[j]
  BY DEF SetToSeqs
<1>3. IsFiniteSet(1..n) /\ Cardinality(1..n) = n
  BY <1>1, FS_Interval
<1>4. order \in Injection(1..n, S)
  BY <1>2 DEF Injection, IsInjective
<1>5. order \in Surjection(1..n, S)
  BY <1>1, <1>3, <1>4, FS_Injection
<1>6. \A a \in S : \E i \in DOMAIN order : order[i] = a
  BY <1>2, <1>5 DEF Surjection
<1>7. order \in Seq(Agents)
  BY <1>1, <1>2, SeqDef
<1> QED
  BY <1>6, <1>7

SweepSteps == {"queue", "queue again", "cancel rows", "requeue"}
After(s) == IF s \in {"queue", "requeue"} THEN "refresh" ELSE "idle"
Makes(s) == IF s = "cancel rows" THEN "cancelled" ELSE "queued"
SweepsRow(p, a, v) ==
  /\ todo[p] # <<>> /\ a = Head(todo[p])
  /\ MayWrite(p, a) /\ Fits(a, v) /\ v.status = Makes(step[p])
  /\ todo' = [todo EXCEPT ![p] = Tail(@)]
  /\ \/ Len(todo[p]) > 1 /\ Write(p, a, v) /\ UNCHANGED step
     \/ ~(Len(todo[p]) > 1) /\ CommitLast(p, a, v) /\ GoTo(p, After(step[p]))
Sweeps(p) ==
  /\ step[p] \in SweepSteps
  /\ UNCHANGED <<job, verdict, operations, skipped>>
  /\ \/ Commit(p) /\ GoTo(p, After(step[p])) /\ UNCHANGED todo /\ todo[p] = <<>>
     \/ \E a \in Agents, v \in AgentRow : SweepsRow(p, a, v)

LEMMA ViewedRow ==
  ASSUME RowInv, NEW p \in Procs, NEW a \in Agents
  PROVE  /\ committed[a] \in AgentRow
         /\ GoodRow(View(p, a)) /\ Evolves(committed[a], View(p, a))
<1>1. GoodRow(committed[a]) /\ committed[a] \in AgentRow
  BY DEF RowInv, GoodRow
<1>2. GoodRow(draft[a]) /\ Evolves(committed[a], draft[a])
  BY RowIdCases DEF RowInv, Fits
<1> QED
  BY <1>1, <1>2, EvolvesReflexive DEF View

LEMMA SweepIsRow ==
  ASSUME IsoInv, NEW p \in Procs, NEW a \in Agents, NEW v,
         todo[p] # <<>>, a = Head(todo[p]), MayWrite(p, a),
         todo' = [todo EXCEPT ![p] = Tail(@)],
         GoodRow(v), Evolves(committed[a], v), v.status = Makes(step[p]),
         \/ Len(todo[p]) > 1 /\ Write(p, a, v) /\ UNCHANGED step
         \/ ~(Len(todo[p]) > 1) /\ CommitLast(p, a, v) /\ GoTo(p, After(step[p]))
  PROVE  v \in AgentRow /\ SweepsRow(p, a, v)
  BY RowIdCases DEF SweepsRow, Fits, GoodRow

LEMMA NextRow ==
  ASSUME IsoInv, NEW p \in Procs, todo[p] # <<>>
  PROVE  Head(todo[p]) \in Agents
<1>1. todo[p] \in Seq(Agents)
  BY DEF IsoInv, ProcInv
<1> QED
  BY <1>1, HeadTailProperties

LEMMA QueueSweeps ==
  ASSUME IsoInv, NEW w \in Workers, QueueReady(w)
  PROVE  Sweeps(w)
<1> DEFINE a == Head(todo[w])
           v == Queued(View(w, a))
<1>1. w \in Procs /\ step[w] \in {"queue", "queue again"}
  BY DEF Procs, QueueReady
<1>2. /\ UNCHANGED <<job, verdict, operations, skipped>>
      /\ \/ Commit(w) /\ GoTo(w, After(step[w])) /\ UNCHANGED todo /\ todo[w] = <<>>
         \/ /\ todo[w] # <<>> /\ MayWrite(w, a)
            /\ todo' = [todo EXCEPT ![w] = Tail(@)]
            /\ \/ Len(todo[w]) > 1 /\ Write(w, a, v) /\ UNCHANGED step
               \/ /\ ~(Len(todo[w]) > 1)
                  /\ CommitLast(w, a, v) /\ GoTo(w, After(step[w]))
  <2>1. CASE step[w] = "queue" /\ WriteNext(w, Queued, "refresh")
    <3>1. After(step[w]) = "refresh"
      BY <2>1 DEF After
    <3> QED
      BY <2>1, <3>1, Zenon DEF WriteNext
  <2>2. CASE step[w] = "queue again" /\ WriteNext(w, Queued, "idle")
    <3>1. After(step[w]) = "idle"
      BY <2>2 DEF After
    <3> QED
      BY <2>2, <3>1, Zenon DEF WriteNext
  <2> QED
    BY <2>1, <2>2 DEF QueueReady
<1>3. ASSUME todo[w] # <<>>
      PROVE  a \in Agents /\ GoodRow(v) /\ Evolves(committed[a], v)
             /\ v.status = Makes(step[w])
  <2>1. a \in Agents
    BY <1>1, <1>3, NextRow
  <2>2. GoodRow(View(w, a)) /\ Evolves(committed[a], View(w, a)) /\ committed[a] \in AgentRow
    BY <1>1, <2>1, ViewedRow DEF IsoInv
  <2> QED
    BY <1>1, <2>1, <2>2, QueuedRow DEF Makes
<1> HIDE DEF v
<1>4. CASE todo[w] # <<>>
  <2>1. a \in Agents /\ v \in AgentRow /\ SweepsRow(w, a, v)
    BY <1>1, <1>2, <1>3, <1>4, SweepIsRow
  <2> QED
    BY <1>1, <1>2, <2>1 DEF Sweeps, SweepSteps
<1>5. CASE todo[w] = <<>>
  BY <1>1, <1>2, <1>5 DEF Sweeps, SweepSteps
<1> QED
  BY <1>4, <1>5

LEMMA OperatorSweeps ==
  ASSUME IsoInv, NEW o \in Operators, CancelRow(o) \/ Requeue(o)
  PROVE  Sweeps(o)
<1> DEFINE a == Head(todo[o])
           v == IF step[o] = "cancel rows" THEN Cancelled(View(o, a))
                                           ELSE Expired(View(o, a))
<1>1. o \in Procs /\ step[o] \in {"cancel rows", "requeue"}
  BY DEF Procs, CancelRow, Requeue
<1>2. /\ UNCHANGED <<job, verdict, operations, skipped>>
      /\ \/ Commit(o) /\ GoTo(o, After(step[o])) /\ UNCHANGED todo /\ todo[o] = <<>>
         \/ /\ todo[o] # <<>> /\ MayWrite(o, a)
            /\ todo' = [todo EXCEPT ![o] = Tail(@)]
            /\ \/ Len(todo[o]) > 1 /\ Write(o, a, v) /\ UNCHANGED step
               \/ /\ ~(Len(todo[o]) > 1)
                  /\ CommitLast(o, a, v) /\ GoTo(o, After(step[o]))
  <2>1. CASE CancelRow(o)
    <3>1. /\ step[o] = "cancel rows" /\ After(step[o]) = "idle"
          /\ v = Cancelled(View(o, a))
      BY <2>1 DEF CancelRow, After
    <3> HIDE DEF v
    <3> QED
      BY <2>1, <3>1, Zenon DEF CancelRow, WriteNext
  <2>2. CASE Requeue(o)
    <3>1. /\ step[o] = "requeue" /\ After(step[o]) = "refresh"
          /\ v = Expired(View(o, a))
      BY <2>2 DEF Requeue, After
    <3> HIDE DEF v
    <3> QED
      BY <2>2, <3>1, Zenon DEF Requeue, WriteNext
  <2> QED
    BY <2>1, <2>2
<1>3. ASSUME todo[o] # <<>>
      PROVE  a \in Agents /\ GoodRow(v) /\ Evolves(committed[a], v)
             /\ v.status = Makes(step[o])
  <2>1. a \in Agents
    BY <1>1, <1>3, NextRow
  <2>2. GoodRow(View(o, a)) /\ Evolves(committed[a], View(o, a)) /\ committed[a] \in AgentRow
    BY <1>1, <2>1, ViewedRow DEF IsoInv
  <2>3. CASE step[o] = "cancel rows"
    BY <2>1, <2>2, <2>3, EndedRow DEF Makes, Cancelled
  <2>4. CASE step[o] = "requeue"
    BY <2>1, <2>2, <2>4, EndedRow DEF Makes, Expired
  <2> QED
    BY <1>1, <2>3, <2>4
<1> HIDE DEF v
<1>4. CASE todo[o] # <<>>
  <2>1. a \in Agents /\ v \in AgentRow /\ SweepsRow(o, a, v)
    BY <1>1, <1>2, <1>3, <1>4, SweepIsRow
  <2> QED
    BY <1>1, <1>2, <2>1 DEF Sweeps, SweepSteps
<1>5. CASE todo[o] = <<>>
  BY <1>1, <1>2, <1>5 DEF Sweeps, SweepSteps
<1> QED
  BY <1>4, <1>5

-----------------------------------------------------------------------------
(***************************************************************************)
(* Locks.                                                                  *)
(***************************************************************************)
HoldsNothing(p) == \A r \in RowIds : lock[r] # p

LEMMA WhoHolds ==
  ASSUME IsoInv, NEW p \in Procs, step[p] \notin SweepSteps \cup {"start run"}
  PROVE  HoldsNothing(p)
<1> SUFFICES ASSUME NEW r \in RowIds, lock[r] = p
             PROVE  FALSE
  BY DEF HoldsNothing
<1>1. p # "nobody"
  BY IsolationAssumption
<1>2. CASE r \in Agents
  BY <1>1, <1>2 DEF IsoInv, LocksMatch, Drafts, SweepSteps
<1>3. CASE r = "run"
  BY <1>1, <1>3 DEF IsoInv, LocksMatch, SweepSteps
<1> QED
  BY <1>2, <1>3, RowIdCases

\* What a process that holds nothing sees is what is committed.
LEMMA SeesCommitted ==
  ASSUME NEW p \in Procs, HoldsNothing(p)
  PROVE  /\ \A r \in RowIds : View(p, r) = committed[r]
         /\ \A S : In(p, S) = {a \in Agents : committed[a].status \in S}
  BY RowIdCases DEF HoldsNothing, View, In

\* The others keep their steps and their jobs.
OnlyMoves(p) ==
  /\ \A q \in Procs \ {p} : step'[q] = step[q]
  /\ \A w \in Workers \ {p} : job'[w] = job[w]

LEMMA LocksWhenNothingMoves ==
  ASSUME IsoInv, NEW p \in Procs, OnlyMoves(p), HoldsNothing(p), UNCHANGED dbVars
  PROVE  LocksMatch'
<1>1. \A r \in RowIds : lock[r] # "nobody" => lock[r] \in Procs \ {p}
  BY DEF IsoInv, RowInv, HoldsNothing
<1>2. \A q \in Procs : step[q] = "start run" => q \in Workers
  BY DEF IsoInv, ProcInv, Procs, OperatorSteps, RefreshSteps
<1> QED
  BY <1>1, <1>2, RowIdCases DEF IsoInv, LocksMatch, OnlyMoves, dbVars

LEMMA LocksAfterRelease ==
  ASSUME IsoInv, NEW p \in Procs, OnlyMoves(p), lock' = Released(p),
         \A r \in RowIds : lock[r] \notin {"nobody", p} => draft'[r] = draft[r]
  PROVE  LocksMatch'
<1>1. \A r \in RowIds : lock'[r] # "nobody" =>
        lock[r] \in Procs \ {p} /\ lock'[r] = lock[r] /\ draft'[r] = draft[r]
  BY DEF IsoInv, RowInv, Released
<1>2. \A q \in Procs : step[q] = "start run" => q \in Workers
  BY DEF IsoInv, ProcInv, Procs, OperatorSteps, RefreshSteps
<1>3. ASSUME NEW a \in Agents, lock'[a] # "nobody"
      PROVE  /\ draft'[a].status \in Drafts(step'[lock'[a]])
             /\ step'[lock'[a]] = "start run" => a = job'[lock'[a]].agent
  <2> DEFINE q == lock[a]
  <2>1. q \in Procs \ {p} /\ lock'[a] = q /\ draft'[a] = draft[a]
    BY <1>1, <1>3, RowIdCases
  <2>2. step'[q] = step[q] /\ (q \in Workers => job'[q] = job[q])
    BY <2>1 DEF OnlyMoves
  <2>3. /\ draft[a].status \in Drafts(step[q])
        /\ step[q] = "start run" => a = job[q].agent
    BY <2>1, RowIdCases DEF IsoInv, LocksMatch
  <2> QED
    BY <1>2, <2>1, <2>2, <2>3
<1>4. ASSUME lock'["run"] # "nobody"
      PROVE  step'[lock'["run"]] = "cancel rows"
  BY <1>1, <1>4, RowIdCases DEF IsoInv, LocksMatch, OnlyMoves
<1> QED
  BY <1>3, <1>4 DEF LocksMatch

LEMMA LocksAfterCommit ==
  ASSUME IsoInv, NEW p \in Procs, OnlyMoves(p), Commit(p)
  PROVE  LocksMatch'
  BY LocksAfterRelease DEF Commit

LEMMA LocksAfterCommitLast ==
  ASSUME IsoInv, NEW p \in Procs, NEW last \in RowIds, NEW v,
         OnlyMoves(p), MayWrite(p, last), CommitLast(p, last, v)
  PROVE  LocksMatch'
<1>1. \A r \in RowIds : lock[r] \notin {"nobody", p} => draft'[r] = draft[r]
  BY DEF IsoInv, RowInv, CommitLast, MayWrite
<1> QED
  BY <1>1, LocksAfterRelease DEF CommitLast

LEMMA LocksAfterRollback ==
  ASSUME IsoInv, NEW p \in Procs, OnlyMoves(p), Rollback(p)
  PROVE  LocksMatch'
<1>1. \A r \in RowIds : lock[r] \notin {"nobody", p} => draft'[r] = draft[r]
  BY DEF Rollback
<1> QED
  BY <1>1, LocksAfterRelease DEF Rollback

\* A first write, and one of a process that goes on with its loop.
LEMMA LocksAfterFirstWrite ==
  ASSUME IsoInv, NEW p \in Procs, NEW r \in RowIds, NEW v,
         OnlyMoves(p), HoldsNothing(p), Write(p, r, v),
         r \in Agents => /\ v.status \in Drafts(step'[p])
                         /\ step'[p] = "start run" => r = job'[p].agent,
         r = "run" => step'[p] = "cancel rows"
  PROVE  LocksMatch'
<1>1. \A x \in RowIds : lock'[x] # "nobody" =>
        \/ x = r /\ lock'[x] = p /\ draft'[x] = v
        \/ lock[x] \in Procs \ {p} /\ lock'[x] = lock[x] /\ draft'[x] = draft[x]
  BY DEF IsoInv, RowInv, Write, HoldsNothing
<1>2. \A q \in Procs : step[q] = "start run" => q \in Workers
  BY DEF IsoInv, ProcInv, Procs, OperatorSteps, RefreshSteps
<1>3. ASSUME NEW a \in Agents, lock'[a] # "nobody"
      PROVE  /\ draft'[a].status \in Drafts(step'[lock'[a]])
             /\ step'[lock'[a]] = "start run" => a = job'[lock'[a]].agent
  <2> DEFINE q == lock[a]
  <2>1. CASE q \in Procs \ {p} /\ lock'[a] = q /\ draft'[a] = draft[a]
    <3>1. step'[q] = step[q] /\ (q \in Workers => job'[q] = job[q])
      BY <2>1 DEF OnlyMoves
    <3>2. /\ draft[a].status \in Drafts(step[q])
          /\ step[q] = "start run" => a = job[q].agent
      BY <2>1, RowIdCases DEF IsoInv, LocksMatch
    <3> QED
      BY <1>2, <2>1, <3>1, <3>2
  <2>2. CASE a = r /\ lock'[a] = p /\ draft'[a] = v
    BY <2>2
  <2> QED
    BY <1>1, <1>3, <2>1, <2>2, RowIdCases
<1>4. ASSUME lock'["run"] # "nobody"
      PROVE  step'[lock'["run"]] = "cancel rows"
  BY <1>1, <1>4, RowIdCases DEF IsoInv, LocksMatch, OnlyMoves
<1> QED
  BY <1>3, <1>4 DEF LocksMatch

LEMMA LocksAfterNextWrite ==
  ASSUME IsoInv, NEW p \in Procs, NEW a \in Agents, NEW v,
         UNCHANGED <<step, job>>, Write(p, a, v),
         step[p] \in SweepSteps, v.status = Makes(step[p])
  PROVE  LocksMatch'
<1>1. \A x \in RowIds : lock'[x] # "nobody" =>
        \/ x = a /\ lock'[x] = p /\ draft'[x] = v
        \/ lock[x] \in Procs /\ lock'[x] = lock[x] /\ draft'[x] = draft[x]
  BY DEF IsoInv, RowInv, Write
<1>2. v.status \in Drafts(step[p]) /\ step[p] # "start run"
  BY DEF SweepSteps, Makes, Drafts
<1> QED
  BY <1>1, <1>2, RowIdCases DEF IsoInv, LocksMatch

-----------------------------------------------------------------------------
(***************************************************************************)
(* Processes.                                                              *)
(***************************************************************************)
StepsOf(p) == RefreshSteps \cup (IF p \in Workers THEN WorkerSteps ELSE OperatorSteps)
JobFits(s, j) ==
  IF s \in JobSteps THEN j.agent \in Agents /\ j.attempt # 0 ELSE j = NoJob
JobTypes == [agent : Agents \cup {"none"}, attempt : Nat]

LEMMA ProcsAfterMove ==
  ASSUME ProcInv, NEW p \in Procs, NEW s \in StepsOf(p), GoTo(p, s),
         job' \in [Workers -> JobTypes],
         \A w \in Workers \ {p} : job'[w] = job[w],
         p \in Workers => JobFits(s, job'[p]),
         todo' \in [Procs -> Seq(Agents)],
         verdict' \in [Procs -> {"none", "queued", "running"} \cup Terminal],
         \A q \in Procs \ {p} : verdict'[q] = verdict[q],
         s = "publish" => verdict'[p] # "none",
         operations' \in [Operators -> 0..MaxOperations],
         skipped' \in BOOLEAN
  PROVE  ProcInv' /\ OnlyMoves(p)
<1>1. s \in Steps
  BY DEF Steps, StepsOf
<1>2. /\ step' \in [Procs -> Steps]
      /\ \A q \in Procs : step'[q] = IF q = p THEN s ELSE step[q]
  BY <1>1 DEF ProcInv, GoTo
<1>3. OnlyMoves(p)
  BY <1>2 DEF OnlyMoves
<1>4. \A w \in Workers : step'[w] \in WorkerSteps \cup RefreshSteps
  BY <1>2 DEF ProcInv, StepsOf, Procs
<1>5. \A o \in Operators : step'[o] \in OperatorSteps \cup RefreshSteps
  BY <1>2, IsolationAssumption DEF ProcInv, StepsOf, Procs
<1>6. \A w \in Workers : IF step'[w] \in JobSteps
                         THEN job'[w].agent \in Agents /\ job'[w].attempt # 0
                         ELSE job'[w] = NoJob
  BY <1>2 DEF ProcInv, JobFits, Procs
<1>7. \A q \in Procs : step'[q] = "publish" => verdict'[q] # "none"
  BY <1>2 DEF ProcInv
<1>8. ProcInv'
  BY <1>2, <1>4, <1>5, <1>6, <1>7 DEF ProcInv, JobTypes
<1> QED
  BY <1>3, <1>8

LEMMA ProcsAfterKeep ==
  ASSUME ProcInv, NEW p \in Procs, NEW s \in StepsOf(p), Keep(p, s),
         s # "publish", s \in JobSteps <=> step[p] \in JobSteps
  PROVE  ProcInv' /\ OnlyMoves(p)
<1>1. /\ GoTo(p, s)
      /\ UNCHANGED <<job, todo, verdict, operations, skipped>>
  BY DEF Keep
<1>2. job' \in [Workers -> JobTypes] /\ (p \in Workers => JobFits(s, job'[p]))
  BY <1>1 DEF ProcInv, JobFits, JobTypes
<1>3. /\ todo' \in [Procs -> Seq(Agents)]
      /\ verdict' \in [Procs -> {"none", "queued", "running"} \cup Terminal]
      /\ operations' \in [Operators -> 0..MaxOperations]
      /\ skipped' \in BOOLEAN
  BY <1>1 DEF ProcInv
<1> QED
  BY <1>1, <1>2, <1>3, ProcsAfterMove

LEMMA ProcsAfterDrop ==
  ASSUME ProcInv, NEW w \in Workers, NEW s \in StepsOf(w) \ JobSteps, Drop(w, s),
         s # "publish"
  PROVE  ProcInv' /\ OnlyMoves(w)
<1>1. /\ GoTo(w, s) /\ job' = [job EXCEPT ![w] = NoJob]
      /\ UNCHANGED <<todo, verdict, operations, skipped>>
  BY DEF Drop
<1>2. w \in Procs
  BY DEF Procs
<1>3. job' \in [Workers -> JobTypes] /\ JobFits(s, job'[w])
  BY <1>1 DEF ProcInv, JobFits, JobTypes, NoJob
<1>4. \A x \in Workers \ {w} : job'[x] = job[x]
  BY <1>1 DEF ProcInv
<1>5. /\ todo' \in [Procs -> Seq(Agents)]
      /\ verdict' \in [Procs -> {"none", "queued", "running"} \cup Terminal]
      /\ operations' \in [Operators -> 0..MaxOperations]
      /\ skipped' \in BOOLEAN
      /\ \A q \in Procs \ {w} : verdict'[q] = verdict[q]
  BY <1>1 DEF ProcInv
<1> QED
  BY <1>1, <1>2, <1>3, <1>4, <1>5, ProcsAfterMove

-----------------------------------------------------------------------------
(***************************************************************************)
(* Each step keeps the invariant, and carries the committed rows on.       *)
(***************************************************************************)
Carried == IsoInv' /\ CommittedEvolves

LEMMA ClaimTakesCarries ==
  ASSUME IsoInv, NEW w \in Workers, NEW a \in Agents, ClaimTakes(w, a)
  PROVE  Carried
<1> DEFINE n == Len(committed[a].attempts) + 1
           v == [status |-> "running", token |-> n,
                 attempts |-> Append(committed[a].attempts, "running")]
<1>1. /\ step[w] = "idle"
      /\ MayWrite(w, a)
      /\ Write(w, a, v)
      /\ job' = [job EXCEPT ![w] = [agent |-> a, attempt |-> n]]
      /\ GoTo(w, "start run")
      /\ UNCHANGED <<todo, verdict, operations, skipped>>
  BY DEF ClaimTakes
<1>2. w \in Procs /\ a \in RowIds /\ HoldsNothing(w)
  BY <1>1, WhoHolds, RowIdCases DEF Procs, SweepSteps
<1>3. GoodRow(v) /\ Evolves(committed[a], v) /\ v.status = "running" /\ n \in Nat \ {0}
  BY ClaimedRow DEF IsoInv, RowInv
<1> HIDE DEF v, n
<1>4. Fits(a, v)
  BY <1>3, RowIdCases DEF Fits
<1>5. RowInv' /\ CommittedEvolves
  BY <1>1, <1>2, <1>4, WriteKeepsRows DEF IsoInv
<1>6. ProcInv' /\ OnlyMoves(w)
  <2>1. "start run" \in StepsOf(w)
    BY DEF StepsOf, WorkerSteps
  <2>2. job' \in [Workers -> JobTypes] /\ JobFits("start run", job'[w])
    BY <1>1, <1>3 DEF IsoInv, ProcInv, JobFits, JobTypes, JobSteps
  <2>3. \A x \in Workers \ {w} : job'[x] = job[x]
    BY <1>1 DEF IsoInv, ProcInv
  <2>4. /\ todo' \in [Procs -> Seq(Agents)]
        /\ verdict' \in [Procs -> {"none", "queued", "running"} \cup Terminal]
        /\ operations' \in [Operators -> 0..MaxOperations]
        /\ skipped' \in BOOLEAN
        /\ \A q \in Procs \ {w} : verdict'[q] = verdict[q]
    BY <1>1 DEF IsoInv, ProcInv
  <2> QED
    BY <1>1, <1>2, <2>1, <2>2, <2>3, <2>4, ProcsAfterMove DEF IsoInv
<1>7. LocksMatch'
  <2>1. step'[w] = "start run" /\ job'[w].agent = a /\ a # "run"
    BY <1>1, <1>2, RowIdCases DEF IsoInv, ProcInv, GoTo
  <2>2. v.status \in Drafts("start run")
    BY <1>3 DEF Drafts
  <2> QED
    BY <1>1, <1>2, <1>6, <2>1, <2>2, LocksAfterFirstWrite
<1> QED
  BY <1>5, <1>6, <1>7 DEF Carried, IsoInv

LEMMA ClaimStartsRunCarries ==
  ASSUME IsoInv, NEW w \in Workers, ClaimStartsRun(w)
  PROVE  Carried
<1> DEFINE v == [status |-> "running"]
<1>1. /\ step[w] = "start run" /\ MayWrite(w, "run")
      /\ CommitLast(w, "run", v) /\ Keep(w, "exec")
  BY DEF ClaimStartsRun
<1>2. w \in Procs /\ "run" \in RowIds
  BY RowIdCases DEF Procs
<1>3. Fits("run", v)
  BY RowIdCases DEF Fits, RunRow
<1> HIDE DEF v
<1>4. RowInv' /\ CommittedEvolves
  BY <1>1, <1>2, <1>3, CommitLastKeepsRows DEF IsoInv
<1>5. ProcInv' /\ OnlyMoves(w)
  BY <1>1, <1>2, ProcsAfterKeep DEF IsoInv, StepsOf, WorkerSteps, JobSteps
<1>6. LocksMatch'
  BY <1>1, <1>2, <1>5, LocksAfterCommitLast
<1> QED
  BY <1>4, <1>5, <1>6 DEF Carried, IsoInv

\* Steps that write nothing, of a process that holds nothing.
LEMMA ReadCarries ==
  ASSUME IsoInv, NEW p \in Procs, UNCHANGED dbVars, ProcInv', OnlyMoves(p),
         step[p] \notin SweepSteps \cup {"start run"}
  PROVE  Carried
  BY WhoHolds, LocksWhenNothingMoves, StutterKeepsRows DEF Carried, IsoInv

LEMMA CrashCarries ==
  ASSUME IsoInv, NEW w \in Workers, Crash(w)
  PROVE  Carried
<1>1. step[w] = "exec" /\ Drop(w, "idle") /\ UNCHANGED dbVars /\ w \in Procs
  BY DEF Crash, Procs
<1>2. ProcInv' /\ OnlyMoves(w)
  BY <1>1, ProcsAfterDrop DEF IsoInv, StepsOf, WorkerSteps, JobSteps
<1> QED
  BY <1>1, <1>2, ReadCarries DEF SweepSteps

LEMMA SweepCarries ==
  ASSUME IsoInv, NEW p \in Procs, Sweeps(p)
  PROVE  Carried
<1>1. /\ step[p] \in SweepSteps
      /\ UNCHANGED <<job, verdict, operations, skipped>>
  BY DEF Sweeps
<1>2. After(step[p]) \in StepsOf(p) \ ({"publish"} \cup JobSteps)
  BY <1>1 DEF After, StepsOf, RefreshSteps, WorkerSteps, OperatorSteps, JobSteps
<1>3. step[p] \notin JobSteps /\ step[p] # "publish"
  BY <1>1 DEF SweepSteps, JobSteps
<1>4. job' \in [Workers -> JobTypes] /\ (p \in Workers => job'[p] = NoJob)
  BY <1>1, <1>3 DEF IsoInv, ProcInv, JobTypes
<1>5. /\ verdict' \in [Procs -> {"none", "queued", "running"} \cup Terminal]
      /\ operations' \in [Operators -> 0..MaxOperations]
      /\ skipped' \in BOOLEAN
  BY <1>1 DEF IsoInv, ProcInv
<1>6. ASSUME GoTo(p, After(step[p])), todo' \in [Procs -> Seq(Agents)]
      PROVE  ProcInv' /\ OnlyMoves(p)
  <2>1. p \in Workers => JobFits(After(step[p]), job'[p])
    BY <1>2, <1>4 DEF JobFits
  <2> QED
    BY <1>1, <1>2, <1>4, <1>5, <1>6, <2>1, ProcsAfterMove DEF IsoInv
<1>7. CASE Commit(p) /\ GoTo(p, After(step[p])) /\ UNCHANGED todo
  <2>1. ProcInv' /\ OnlyMoves(p)
    BY <1>6, <1>7 DEF IsoInv, ProcInv
  <2> QED
    BY <1>7, <2>1, CommitKeepsRows, LocksAfterCommit DEF Carried, IsoInv
<1>8. ASSUME NEW a \in Agents, NEW v \in AgentRow, SweepsRow(p, a, v)
      PROVE  Carried
  <2>1. /\ todo[p] # <<>> /\ MayWrite(p, a) /\ Fits(a, v) /\ v.status = Makes(step[p])
        /\ todo' = [todo EXCEPT ![p] = Tail(@)]
    BY <1>8 DEF SweepsRow
  <2>2. todo' \in [Procs -> Seq(Agents)]
    <3>1. todo[p] \in Seq(Agents)
      BY DEF IsoInv, ProcInv
    <3>2. Tail(todo[p]) \in Seq(Agents)
      BY <2>1, <3>1, HeadTailProperties
    <3> QED
      BY <2>1, <3>2 DEF IsoInv, ProcInv
  <2>3. a \in RowIds
    BY RowIdCases
  <2>4. CASE Write(p, a, v) /\ UNCHANGED step
    <3>1. ProcInv'
      BY <1>1, <2>2, <2>4 DEF IsoInv, ProcInv
    <3>2. LocksMatch'
      BY <1>1, <2>1, <2>4, LocksAfterNextWrite
    <3> QED
      BY <2>1, <2>3, <2>4, <3>1, <3>2, WriteKeepsRows DEF Carried, IsoInv
  <2>5. CASE CommitLast(p, a, v) /\ GoTo(p, After(step[p]))
    <3>1. ProcInv' /\ OnlyMoves(p)
      BY <1>6, <2>2, <2>5
    <3>2. LocksMatch'
      BY <2>1, <2>3, <2>5, <3>1, LocksAfterCommitLast
    <3> QED
      BY <2>1, <2>3, <2>5, <3>1, <3>2, CommitLastKeepsRows DEF Carried, IsoInv
  <2> QED
    BY <1>8, <2>4, <2>5 DEF SweepsRow
<1> QED
  BY <1>7, <1>8 DEF Sweeps

LEMMA PromoteAgainCarries ==
  ASSUME IsoInv, NEW w \in Workers, PromoteAgain(w)
  PROVE  Carried
<1> DEFINE s == IF Ready(w, {}) = {} THEN "idle" ELSE "queue again"
<1>1. /\ step[w] = "promote again" /\ GoTo(w, s)
      /\ UNCHANGED <<dbVars, job, verdict, operations, skipped>>
  BY DEF PromoteAgain
<1>2. PICK order \in SetToSeqs(Ready(w, {})) : todo' = [todo EXCEPT ![w] = order]
  BY DEF PromoteAgain
<1>3. order \in Seq(Agents)
  <2>1. Ready(w, {}) \in SUBSET Agents
    BY DEF Ready, In
  <2> QED
    BY <2>1, OrderOfRows
<1>4. w \in Procs /\ s \in StepsOf(w) \ ({"publish"} \cup JobSteps)
  BY DEF Procs, StepsOf, WorkerSteps, JobSteps
<1> HIDE DEF s
<1>5. job' \in [Workers -> JobTypes] /\ JobFits(s, job'[w])
  BY <1>1, <1>4 DEF IsoInv, ProcInv, JobFits, JobSteps, JobTypes
<1>6. /\ todo' \in [Procs -> Seq(Agents)]
      /\ verdict' \in [Procs -> {"none", "queued", "running"} \cup Terminal]
      /\ operations' \in [Operators -> 0..MaxOperations]
      /\ skipped' \in BOOLEAN
  BY <1>1, <1>2, <1>3, <1>4 DEF IsoInv, ProcInv
<1>7. ProcInv' /\ OnlyMoves(w)
  BY <1>1, <1>4, <1>5, <1>6, ProcsAfterMove DEF IsoInv
<1> QED
  BY <1>1, <1>4, <1>7, ReadCarries DEF SweepSteps, dbVars

LEMMA ReadAttemptCarries ==
  ASSUME IsoInv, NEW w \in Workers, ReadAttempt(w)
  PROVE  Carried
<1>1. /\ step[w] = "exec" /\ UNCHANGED dbVars /\ w \in Procs
      /\ Keep(w, "complete") \/ Drop(w, "promote again")
  BY DEF ReadAttempt, Procs
<1>2. ProcInv' /\ OnlyMoves(w)
  BY <1>1, ProcsAfterKeep, ProcsAfterDrop DEF IsoInv, StepsOf, WorkerSteps, JobSteps
<1> QED
  BY <1>1, <1>2, ReadCarries DEF SweepSteps

\* A completion that is accepted: the row that results, and the rows to write.
LEMMA CompleteAccepted ==
  ASSUME IsoInv, NEW w \in Workers, Complete(w),
         committed[job[w].agent].status = "running",
         committed[job[w].agent].token = job[w].attempt
  PROVE  /\ step[w] = "complete" /\ job[w].agent \in Agents /\ HoldsNothing(w)
         /\ MayWrite(w, job[w].agent)
         /\ \E v \in AgentRow : /\ Write(w, job[w].agent, v) /\ Fits(job[w].agent, v)
                                /\ v.status = "completed"
         /\ todo' \in [Procs -> Seq(Agents)]
         /\ job' = [job EXCEPT ![w] = NoJob]
         /\ GoTo(w, "queue")
         /\ UNCHANGED <<verdict, operations, skipped>>
<1> DEFINE a == job[w].agent
           n == job[w].attempt
           v == [status |-> "completed", token |-> 0,
                 attempts |-> [committed[a].attempts EXCEPT ![n] = "completed"]]
<1>1. /\ step[w] = "complete" /\ MayWrite(w, a)
      /\ Write(w, a, v)
      /\ \E order \in SetToSeqs(Ready(w, {a})) : todo' = [todo EXCEPT ![w] = order]
      /\ job' = [job EXCEPT ![w] = NoJob]
      /\ GoTo(w, "queue")
      /\ UNCHANGED <<verdict, operations, skipped>>
  BY DEF Complete, CompleteIf
<1>2. w \in Procs /\ a \in Agents /\ n \in Nat /\ n # 0
  BY <1>1 DEF IsoInv, ProcInv, JobSteps, JobTypes, Procs
<1>3. HoldsNothing(w)
  BY <1>1, <1>2, WhoHolds DEF SweepSteps
<1>4. GoodRow(v) /\ Evolves(committed[a], v) /\ v.status = "completed"
  BY <1>2, CompletedRow DEF IsoInv, RowInv
<1>5. PICK order \in SetToSeqs(Ready(w, {a})) : todo' = [todo EXCEPT ![w] = order]
  BY <1>1
<1>6. order \in Seq(Agents)
  <2>1. Ready(w, {a}) \in SUBSET Agents
    BY DEF Ready, In
  <2> QED
    BY <2>1, OrderOfRows
<1> HIDE DEF v
<1>7. todo' \in [Procs -> Seq(Agents)]
  BY <1>2, <1>5, <1>6 DEF IsoInv, ProcInv
<1>8. v \in AgentRow /\ Fits(a, v)
  BY <1>2, <1>4, RowIdCases DEF Fits, GoodRow
<1> QED
  BY <1>1, <1>2, <1>3, <1>4, <1>7, <1>8

LEMMA CompleteCarries ==
  ASSUME IsoInv, NEW w \in Workers, Complete(w)
  PROVE  Carried
<1> DEFINE a == job[w].agent
<1>1. step[w] = "complete" /\ w \in Procs
  BY DEF Complete, CompleteIf, Procs
<1>2. CASE ~(committed[a].status = "running" /\ committed[a].token = job[w].attempt)
  <2>1. Drop(w, "promote again") /\ UNCHANGED dbVars
    BY <1>2 DEF Complete, CompleteIf
  <2>2. ProcInv' /\ OnlyMoves(w)
    BY <1>1, <2>1, ProcsAfterDrop DEF IsoInv, StepsOf, WorkerSteps, JobSteps
  <2> QED
    BY <1>1, <2>1, <2>2, ReadCarries DEF SweepSteps
<1>3. CASE committed[a].status = "running" /\ committed[a].token = job[w].attempt
  <2>1. /\ a \in Agents /\ HoldsNothing(w) /\ MayWrite(w, a)
        /\ todo' \in [Procs -> Seq(Agents)]
        /\ job' = [job EXCEPT ![w] = NoJob]
        /\ GoTo(w, "queue")
        /\ UNCHANGED <<verdict, operations, skipped>>
    BY <1>3, CompleteAccepted
  <2>2. PICK v \in AgentRow : Write(w, a, v) /\ Fits(a, v) /\ v.status = "completed"
    BY <1>3, CompleteAccepted
  <2>3. "queue" \in StepsOf(w) \ ({"publish"} \cup JobSteps)
    BY DEF StepsOf, WorkerSteps, JobSteps
  <2>4. job' \in [Workers -> JobTypes] /\ JobFits("queue", job'[w])
    BY <2>1, <2>3 DEF IsoInv, ProcInv, JobFits, JobTypes, NoJob
  <2>5. \A x \in Workers \ {w} : job'[x] = job[x]
    BY <2>1 DEF IsoInv, ProcInv
  <2>6. /\ verdict' \in [Procs -> {"none", "queued", "running"} \cup Terminal]
        /\ operations' \in [Operators -> 0..MaxOperations]
        /\ skipped' \in BOOLEAN
        /\ \A q \in Procs \ {w} : verdict'[q] = verdict[q]
    BY <2>1 DEF IsoInv, ProcInv
  <2>7. ProcInv' /\ OnlyMoves(w)
    BY <1>1, <2>1, <2>3, <2>4, <2>5, <2>6, ProcsAfterMove DEF IsoInv
  <2>8. a \in RowIds /\ a # "run" /\ step'[w] = "queue"
    BY <1>1, <2>1, RowIdCases DEF IsoInv, ProcInv, GoTo
  <2>9. RowInv' /\ CommittedEvolves
    BY <1>1, <2>2, <2>8, WriteKeepsRows DEF IsoInv
  <2>10. v.status \in Drafts("queue")
    BY <2>2 DEF Drafts
  <2>11. LocksMatch'
    BY <1>1, <2>1, <2>2, <2>7, <2>8, <2>10, LocksAfterFirstWrite
  <2> QED
    BY <2>7, <2>9, <2>11 DEF Carried, IsoInv
<1> QED
  BY <1>2, <1>3

LEMMA ReadRunCarries ==
  ASSUME IsoInv, NEW p \in Procs, ReadRun(p)
  PROVE  Carried
<1>1. /\ step[p] = "refresh" /\ UNCHANGED dbVars
      /\ Keep(p, Done(p)) \/ Keep(p, "aggregate")
  BY DEF ReadRun
<1>2. \A s \in {Done(p), "aggregate"} :
        s \in StepsOf(p) \ ({"publish"} \cup JobSteps)
  BY DEF Done, StepsOf, RefreshSteps, WorkerSteps, OperatorSteps, JobSteps
<1>3. step[p] \notin JobSteps
  BY <1>1 DEF JobSteps
<1>4. ProcInv' /\ OnlyMoves(p)
  BY <1>1, <1>2, <1>3, ProcsAfterKeep DEF IsoInv
<1> QED
  BY <1>1, <1>4, ReadCarries DEF SweepSteps

LEMMA AggregateCarries ==
  ASSUME IsoInv, NEW p \in Procs, Aggregate(p)
  PROVE  Carried
<1>1. PICK next \in {"queued", "running"} \cup Terminal :
        verdict' = [verdict EXCEPT ![p] = next]
  BY DEF Aggregate, Terminal
<1>2. /\ step[p] = "aggregate" /\ GoTo(p, "publish")
      /\ UNCHANGED <<dbVars, job, todo, operations, skipped>>
  BY DEF Aggregate
<1>3. "publish" \in StepsOf(p) \ JobSteps /\ step[p] \notin JobSteps
  BY <1>2 DEF StepsOf, RefreshSteps, JobSteps
<1>4. job' \in [Workers -> JobTypes] /\ (p \in Workers => JobFits("publish", job'[p]))
  BY <1>2, <1>3 DEF IsoInv, ProcInv, JobFits, JobTypes
<1>5. /\ verdict' \in [Procs -> {"none", "queued", "running"} \cup Terminal]
      /\ \A q \in Procs \ {p} : verdict'[q] = verdict[q]
      /\ verdict'[p] # "none"
  BY <1>1 DEF IsoInv, ProcInv, Terminal
<1>6. /\ todo' \in [Procs -> Seq(Agents)]
      /\ operations' \in [Operators -> 0..MaxOperations]
      /\ skipped' \in BOOLEAN
  BY <1>2 DEF IsoInv, ProcInv
<1>7. ProcInv' /\ OnlyMoves(p)
  BY <1>2, <1>3, <1>4, <1>5, <1>6, ProcsAfterMove DEF IsoInv
<1> QED
  BY <1>2, <1>7, ReadCarries DEF SweepSteps, dbVars

LEMMA PublishVerdictCarries ==
  ASSUME IsoInv, NEW p \in Procs, PublishVerdict(p)
  PROVE  Carried
<1> DEFINE v == [status |-> verdict[p]]
<1>1. /\ step[p] = "publish" /\ MayWrite(p, "run")
      /\ CommitLast(p, "run", v)
      /\ verdict' = [verdict EXCEPT ![p] = "none"]
      /\ GoTo(p, Done(p))
      /\ UNCHANGED <<job, todo, operations, skipped>>
  BY DEF PublishVerdict
<1>2. "run" \in RowIds /\ Fits("run", v)
  BY <1>1, RowIdCases DEF Fits, RunRow, IsoInv, ProcInv
<1> HIDE DEF v
<1>3. Done(p) \in StepsOf(p) \ ({"publish"} \cup JobSteps) /\ step[p] \notin JobSteps
  BY <1>1 DEF Done, StepsOf, WorkerSteps, OperatorSteps, JobSteps
<1>4. job' \in [Workers -> JobTypes] /\ (p \in Workers => JobFits(Done(p), job'[p]))
  BY <1>1, <1>3 DEF IsoInv, ProcInv, JobFits, JobTypes
<1>5. /\ verdict' \in [Procs -> {"none", "queued", "running"} \cup Terminal]
      /\ \A q \in Procs \ {p} : verdict'[q] = verdict[q]
      /\ todo' \in [Procs -> Seq(Agents)]
      /\ operations' \in [Operators -> 0..MaxOperations]
      /\ skipped' \in BOOLEAN
  BY <1>1 DEF IsoInv, ProcInv
<1>6. ProcInv' /\ OnlyMoves(p)
  BY <1>1, <1>3, <1>4, <1>5, ProcsAfterMove DEF IsoInv
<1>7. RowInv' /\ CommittedEvolves
  BY <1>1, <1>2, CommitLastKeepsRows DEF IsoInv
<1>8. LocksMatch'
  BY <1>1, <1>2, <1>6, LocksAfterCommitLast
<1> QED
  BY <1>6, <1>7, <1>8 DEF Carried, IsoInv

\* An operator keeps everything of the workers.
LEMMA ProcsAfterOperator ==
  ASSUME ProcInv, NEW o \in Operators, NEW s \in OperatorSteps, GoTo(o, s),
         UNCHANGED <<job, verdict, skipped>>,
         todo' \in [Procs -> Seq(Agents)],
         operations' \in [Operators -> 0..MaxOperations]
  PROVE  ProcInv' /\ OnlyMoves(o)
<1>1. o \in Procs /\ o \notin Workers
  BY IsolationAssumption DEF Procs
<1>2. s \in StepsOf(o) /\ s # "publish"
  BY <1>1 DEF StepsOf, OperatorSteps
<1>3. /\ job' \in [Workers -> JobTypes]
      /\ verdict' \in [Procs -> {"none", "queued", "running"} \cup Terminal]
      /\ skipped' \in BOOLEAN
  BY DEF ProcInv, JobTypes
<1> QED
  BY <1>1, <1>2, <1>3, ProcsAfterMove

LEMMA OneMoreOperation ==
  ASSUME ProcInv, NEW o \in Operators, operations[o] < MaxOperations,
         operations' = [operations EXCEPT ![o] = @ + 1]
  PROVE  operations' \in [Operators -> 0..MaxOperations]
<1>1. operations \in [Operators -> 0..MaxOperations]
  BY DEF ProcInv
<1>2. operations[o] \in 0..MaxOperations /\ MaxOperations \in Nat
  BY <1>1, IsolationAssumption
<1>3. operations[o] + 1 \in 0..MaxOperations
  BY <1>2
<1> QED
  BY <1>1, <1>3

LEMMA CancelReadsRunCarries ==
  ASSUME IsoInv, NEW o \in Operators, CancelReadsRun(o)
  PROVE  Carried
<1>1. /\ step[o] = "idle" /\ operations[o] < MaxOperations
      /\ operations' = [operations EXCEPT ![o] = @ + 1]
      /\ UNCHANGED <<dbVars, job, verdict, skipped, todo>>
      /\ GoTo(o, "cancel run")
  BY DEF CancelReadsRun, Begin
<1>2. operations' \in [Operators -> 0..MaxOperations]
  BY <1>1, OneMoreOperation DEF IsoInv
<1>3. ProcInv' /\ OnlyMoves(o)
  BY <1>1, <1>2, ProcsAfterOperator DEF IsoInv, ProcInv, OperatorSteps
<1> QED
  BY <1>1, <1>3, ReadCarries DEF SweepSteps, Procs, dbVars

LEMMA CancelWritesRunCarries ==
  ASSUME IsoInv, NEW o \in Operators, CancelWritesRun(o)
  PROVE  Carried
<1> DEFINE v == [status |-> "cancelled"]
<1>1. /\ step[o] = "cancel run"
      /\ Write(o, "run", v)
      /\ GoTo(o, "cancel rows")
      /\ UNCHANGED <<job, verdict, operations, skipped>>
  BY DEF CancelWritesRun
<1>2. PICK order \in SetToSeqs(Agents \ In(o, Terminal)) : todo' = [todo EXCEPT ![o] = order]
  BY DEF CancelWritesRun
<1>3. order \in Seq(Agents)
  BY OrderOfRows
<1>4. todo' \in [Procs -> Seq(Agents)] /\ operations' \in [Operators -> 0..MaxOperations]
  BY <1>1, <1>2, <1>3 DEF IsoInv, ProcInv
<1>5. ProcInv' /\ OnlyMoves(o)
  BY <1>1, <1>4, ProcsAfterOperator DEF IsoInv, OperatorSteps
<1>6. o \in Procs /\ "run" \in RowIds /\ Fits("run", v) /\ step'[o] = "cancel rows"
  BY <1>1, RowIdCases DEF Procs, Fits, RunRow, Terminal, GoTo, IsoInv, ProcInv
<1> HIDE DEF v
<1>7. HoldsNothing(o)
  BY <1>1, <1>6, WhoHolds DEF SweepSteps
<1>8. LocksMatch'
  BY <1>1, <1>5, <1>6, <1>7, RowIdCases, LocksAfterFirstWrite
<1> QED
  BY <1>1, <1>5, <1>6, <1>8, WriteKeepsRows DEF Carried, IsoInv

LEMMA ReadStaleCarries ==
  ASSUME IsoInv, NEW o \in Operators, ReadStale(o)
  PROVE  Carried
<1>1. /\ step[o] = "idle" /\ operations[o] < MaxOperations
      /\ operations' = [operations EXCEPT ![o] = @ + 1]
      /\ UNCHANGED <<dbVars, job, verdict, skipped>>
      /\ GoTo(o, "requeue")
  BY DEF ReadStale, Begin
<1>2. PICK stale \in SUBSET In(o, {"running"}) :
        \E order \in SetToSeqs(stale) : todo' = [todo EXCEPT ![o] = order]
  BY DEF ReadStale
<1>3. PICK order \in SetToSeqs(stale) : todo' = [todo EXCEPT ![o] = order]
  BY <1>2
<1>4. order \in Seq(Agents)
  <2>1. stale \in SUBSET Agents
    BY DEF In
  <2> QED
    BY <2>1, OrderOfRows
<1>5. todo' \in [Procs -> Seq(Agents)] /\ operations' \in [Operators -> 0..MaxOperations]
  <2>1. todo' \in [Procs -> Seq(Agents)]
    BY <1>3, <1>4 DEF IsoInv, ProcInv
  <2> QED
    BY <1>1, <2>1, OneMoreOperation DEF IsoInv
<1>6. ProcInv' /\ OnlyMoves(o)
  BY <1>1, <1>5, ProcsAfterOperator DEF IsoInv, OperatorSteps
<1> QED
  BY <1>1, <1>6, ReadCarries DEF SweepSteps, Procs, dbVars

LEMMA AbortCarries ==
  ASSUME IsoInv, NEW p \in Procs, Abort(p)
  PROVE  Carried
<1>1. /\ Rollback(p) /\ GoTo(p, "idle")
      /\ job' = [w \in Workers |-> IF w = p THEN NoJob ELSE job[w]]
      /\ todo' = [todo EXCEPT ![p] = <<>>]
      /\ skipped' = (skipped \/ step[p] = "queue again")
      /\ UNCHANGED <<verdict, operations>>
  BY DEF Abort
<1>2. "idle" \in StepsOf(p) \ JobSteps
  BY DEF StepsOf, WorkerSteps, OperatorSteps, JobSteps
<1>3. /\ job' \in [Workers -> JobTypes] /\ (p \in Workers => JobFits("idle", job'[p]))
      /\ \A w \in Workers \ {p} : job'[w] = job[w]
  BY <1>1, <1>2 DEF IsoInv, ProcInv, JobTypes, JobFits, NoJob
<1>4. <<>> \in Seq(Agents)
  BY EmptySeq
<1>5. /\ todo' \in [Procs -> Seq(Agents)]
      /\ verdict' \in [Procs -> {"none", "queued", "running"} \cup Terminal]
      /\ operations' \in [Operators -> 0..MaxOperations]
      /\ \A q \in Procs \ {p} : verdict'[q] = verdict[q]
  BY <1>1, <1>4 DEF IsoInv, ProcInv
<1>6. skipped' \in BOOLEAN
  BY <1>1, Zenon
<1>7. ProcInv' /\ OnlyMoves(p)
  BY <1>1, <1>2, <1>3, <1>5, <1>6, ProcsAfterMove DEF IsoInv
<1> QED
  BY <1>1, <1>7, RollbackKeepsRows, LocksAfterRollback DEF Carried, IsoInv

-----------------------------------------------------------------------------
(***************************************************************************)
(* The invariant.                                                          *)
(***************************************************************************)
LEMMA InitialRows ==
  ASSUME IsolationInit
  PROVE  IsoInv
<1> USE DEF IsolationInit
<1>1. <<>> \in Seq({"running", "expired"} \cup Terminal) /\ Len(<<>>) = 0 /\ <<>> \in Seq(Agents)
  BY EmptySeq
<1>2. \A a \in Agents : /\ committed[a] \in AgentRow
                        /\ committed[a].token = 0
  BY <1>1, RowIdCases DEF AgentRow
<1>3. committed["run"] \in RunRow
  BY RowIdCases DEF RunRow
<1>4. \A a \in Agents : GoodRow(committed[a]) /\ Evolves(committed[a], committed[a])
  BY <1>2, EvolvesReflexive DEF GoodRow, TokenOfLast
<1>5. \A r \in RowIds : committed[r] \in AgentRow \cup RunRow
  BY <1>2, <1>3, RowIdCases
<1>6. committed \in [RowIds -> AgentRow \cup RunRow]
  BY <1>5
<1>7. RowInv
  BY <1>3, <1>4, <1>6 DEF RowInv, Fits
<1>8. ProcInv
  <2>1. /\ step \in [Procs -> Steps]
        /\ \A w \in Workers : step[w] = "idle" /\ job[w] = NoJob
        /\ \A o \in Operators : step[o] = "idle"
    BY DEF Steps, WorkerSteps, Procs
  <2>2. job \in [Workers -> [agent : Agents \cup {"none"}, attempt : Nat]]
    BY DEF NoJob
  <2>3. todo \in [Procs -> Seq(Agents)]
    BY <1>1
  <2>4. operations \in [Operators -> 0..MaxOperations]
    BY IsolationAssumption
  <2>5. /\ verdict \in [Procs -> {"none", "queued", "running"} \cup Terminal]
        /\ \A p \in Procs : step[p] = "idle"
        /\ skipped \in BOOLEAN
    OBVIOUS
  <2> QED
    BY <2>1, <2>2, <2>3, <2>4, <2>5
    DEF ProcInv, WorkerSteps, OperatorSteps, JobSteps
<1>9. LocksMatch
  BY RowIdCases DEF LocksMatch
<1> QED
  BY <1>7, <1>8, <1>9 DEF IsoInv

LEMMA EveryStepCarries ==
  ASSUME IsoInv, [IsolationNext]_isoVars
  PROVE  Carried
<1>1. CASE UNCHANGED isoVars
  <2>1. UNCHANGED <<dbVars, step, job, todo, verdict, operations, skipped>>
    BY <1>1 DEF isoVars
  <2>2. ProcInv' /\ LocksMatch'
    BY <2>1 DEF IsoInv, ProcInv, LocksMatch, dbVars
  <2> QED
    BY <2>1, <2>2, StutterKeepsRows DEF Carried, IsoInv
<1>2. ASSUME NEW w \in Workers, NEW a \in Agents, ClaimTakes(w, a)
      PROVE  Carried
  BY <1>2, ClaimTakesCarries
<1>3. ASSUME NEW w \in Workers, WorkerStep(w) \/ Crash(w)
      PROVE  Carried
  <2>1. w \in Procs
    BY DEF Procs
  <2> QED
    BY <1>3, <2>1, ClaimStartsRunCarries, ReadAttemptCarries, CompleteCarries,
       QueueSweeps, SweepCarries, PromoteAgainCarries, CrashCarries DEF WorkerStep
<1>4. ASSUME NEW o \in Operators, CancelReadsRun(o) \/ ReadStale(o) \/ OperatorStep(o)
      PROVE  Carried
  <2>1. o \in Procs
    BY DEF Procs
  <2> QED
    BY <1>4, <2>1, CancelReadsRunCarries, ReadStaleCarries, CancelWritesRunCarries,
       OperatorSweeps, SweepCarries DEF OperatorStep
<1>5. ASSUME NEW p \in Procs, Refreshing(p) \/ Abort(p)
      PROVE  Carried
  BY <1>5, ReadRunCarries, AggregateCarries, PublishVerdictCarries, AbortCarries
  DEF Refreshing
<1> QED
  BY <1>1, <1>2, <1>3, <1>4, <1>5, Zenon DEF IsolationNext

LEMMA IsoInvariant == IsolationSpec => []IsoInv
<1>1. IsolationInit => IsoInv
  BY InitialRows
<1>2. IsoInv /\ [IsolationNext]_isoVars => IsoInv'
  BY EveryStepCarries DEF Carried
<1> QED
  BY <1>1, <1>2, PTL DEF IsolationSpec

-----------------------------------------------------------------------------
\* The rows, the locks, the steps and the jobs stay within their types, and no
\* draft is left on a row that nobody holds: the statements of repository.py
\* that write agents and runs leave nothing half written.
THEOREM IsolationTypes == IsolationSpec => []IsolationTypeOK
<1>1. ASSUME IsoInv
      PROVE  IsolationTypeOK
  <2>1. /\ DOMAIN committed = RowIds /\ DOMAIN draft = RowIds
        /\ committed["run"] \in RunRow
        /\ lock \in [RowIds -> Procs \cup {"nobody"}]
        /\ \A r \in RowIds : lock[r] = "nobody" => draft[r] = committed[r]
    BY <1>1 DEF IsoInv, RowInv
  <2>2. \A a \in Agents : committed[a] \in AgentRow /\ draft[a] \in AgentRow
    BY <1>1, RowIdCases DEF IsoInv, RowInv, Fits, GoodRow
  <2>3. draft["run"] \in RunRow
    BY <1>1, RowIdCases DEF IsoInv, RowInv, Fits
  <2>4. \A w \in Workers : job[w] # NoJob <=> step[w] \in {"start run", "exec", "complete"}
    <3>1. NoJob.attempt = 0
      BY DEF NoJob
    <3> QED
      BY <1>1, <3>1 DEF IsoInv, ProcInv, JobSteps
  <2> QED
    BY <1>1, <2>1, <2>2, <2>3, <2>4 DEF IsolationTypeOK, IsoInv, ProcInv
<1> QED
  BY <1>1, IsoInvariant, PTL

\* The token guard of complete_agent: an attempt that completes is the newest
\* one of its agent, with any number of workers and reapers.
THEOREM CompletedIsNewest == IsolationSpec => SupersededNeverCompletes
<1>1. ASSUME IsoInv, [IsolationNext]_isoVars
      PROVE  \A a \in Agents : \A i \in DOMAIN committed'[a].attempts :
               committed'[a].attempts[i] = "completed" =>
                 \/ i \in DOMAIN committed[a].attempts /\ committed[a].attempts[i] = "completed"
                 \/ i = Len(committed'[a].attempts)
  <2> SUFFICES ASSUME NEW a \in Agents, NEW i \in DOMAIN committed'[a].attempts,
                      committed'[a].attempts[i] = "completed"
               PROVE  \/ /\ i \in DOMAIN committed[a].attempts
                         /\ committed[a].attempts[i] = "completed"
                      \/ i = Len(committed'[a].attempts)
    OBVIOUS
  <2>1. Evolves(committed[a], committed'[a]) /\ committed[a] \in AgentRow /\ committed'[a] \in AgentRow
    BY <1>1, EveryStepCarries DEF Carried, CommittedEvolves, IsoInv, RowInv, GoodRow
  <2>2. /\ DOMAIN committed[a].attempts = 1..Len(committed[a].attempts)
        /\ i \in 1..Len(committed'[a].attempts)
        /\ Len(committed[a].attempts) \in Nat /\ Len(committed'[a].attempts) \in Nat
    BY <2>1, AgentRowParts
  <2> QED
    BY <2>1, <2>2 DEF Evolves
<1> QED
  BY <1>1, IsoInvariant, PTL DEF IsolationSpec, SupersededNeverCompletes

\* The history of attempts is append-only: a cancellation or an expiry that
\* writes over the row of an agent that completed keeps its attempts.
THEOREM AttemptsAreHistory == IsolationSpec => EndedAttemptsStay
<1>1. ASSUME IsoInv, [IsolationNext]_isoVars
      PROVE  \A a \in Agents : \A i \in DOMAIN committed[a].attempts :
               /\ i \in DOMAIN committed'[a].attempts
               /\ committed[a].attempts[i] # "running" =>
                    committed'[a].attempts[i] = committed[a].attempts[i]
  <2> SUFFICES ASSUME NEW a \in Agents, NEW i \in DOMAIN committed[a].attempts
               PROVE  /\ i \in DOMAIN committed'[a].attempts
                      /\ committed[a].attempts[i] # "running" =>
                           committed'[a].attempts[i] = committed[a].attempts[i]
    OBVIOUS
  <2>1. Evolves(committed[a], committed'[a]) /\ committed[a] \in AgentRow /\ committed'[a] \in AgentRow
    BY <1>1, EveryStepCarries DEF Carried, CommittedEvolves, IsoInv, RowInv, GoodRow
  <2>2. /\ DOMAIN committed'[a].attempts = 1..Len(committed'[a].attempts)
        /\ i \in 1..Len(committed[a].attempts)
        /\ Len(committed[a].attempts) \in Nat /\ Len(committed'[a].attempts) \in Nat
    BY <2>1, AgentRowParts
  <2> QED
    BY <2>1, <2>2 DEF Evolves
<1> QED
  BY <1>1, IsoInvariant, PTL DEF IsolationSpec, EndedAttemptsStay

-----------------------------------------------------------------------------
(***************************************************************************)
(* What a step moves: rows get a status that its process may draft, and    *)
(* the other processes keep their steps, their loops and their locks.      *)
(***************************************************************************)
Moves(p) ==
  /\ \A a \in Agents : \/ committed'[a] = committed[a]
                       \/ committed'[a].status \in Drafts(step[p])
  /\ \A q \in Procs \ {p} :
       /\ step'[q] = step[q] /\ todo'[q] = todo[q]
       /\ \A r \in RowIds : lock[r] = q => lock'[r] = q

LEMMA StatementMoves ==
  ASSUME IsoInv, NEW p \in Procs,
         \A q \in Procs \ {p} : step'[q] = step[q] /\ todo'[q] = todo[q],
         \/ UNCHANGED dbVars
         \/ \E r \in RowIds : \E v : MayWrite(p, r) /\ Write(p, r, v)
         \/ Commit(p)
         \/ Rollback(p)
         \/ \E r \in RowIds : \E v : /\ MayWrite(p, r) /\ CommitLast(p, r, v)
                                     /\ r \in Agents => v.status \in Drafts(step[p])
  PROVE  Moves(p)
<1>1. \A q \in Procs \ {p} : q # "nobody"
  BY IsolationAssumption
<1>2. lock \in [RowIds -> Procs \cup {"nobody"}]
  BY DEF IsoInv, RowInv
<1>3. \A a \in Agents : lock[a] = p => draft[a].status \in Drafts(step[p])
  BY RowIdCases DEF IsoInv, LocksMatch
<1>4. CASE UNCHANGED dbVars
  BY <1>4 DEF Moves, dbVars
<1>5. ASSUME NEW r \in RowIds, NEW v, MayWrite(p, r), Write(p, r, v)
      PROVE  Moves(p)
  BY <1>1, <1>2, <1>5 DEF Moves, MayWrite, Write
<1>6. CASE Commit(p)
  BY <1>2, <1>3, <1>6, RowIdCases DEF Moves, Commit, Released
<1>7. CASE Rollback(p)
  BY <1>2, <1>7 DEF Moves, Rollback, Released
<1>8. ASSUME NEW r \in RowIds, NEW v, MayWrite(p, r), CommitLast(p, r, v),
             r \in Agents => v.status \in Drafts(step[p])
      PROVE  Moves(p)
  BY <1>2, <1>3, <1>8, RowIdCases DEF Moves, CommitLast, Released
<1> QED
  BY <1>4, <1>5, <1>6, <1>7, <1>8

LEMMA OthersStay ==
  ASSUME IsoInv, NEW p \in Procs, NEW s, GoTo(p, s) \/ UNCHANGED step,
         (\E x : todo' = [todo EXCEPT ![p] = x]) \/ UNCHANGED todo
  PROVE  \A q \in Procs \ {p} : step'[q] = step[q] /\ todo'[q] = todo[q]
  BY DEF IsoInv, ProcInv, GoTo

LEMMA SweepMoves ==
  ASSUME IsoInv, NEW p \in Procs, Sweeps(p)
  PROVE  Moves(p)
<1>1. step[p] \in SweepSteps
  BY DEF Sweeps
<1>2. CASE Commit(p) /\ GoTo(p, After(step[p])) /\ UNCHANGED todo
  BY <1>2, OthersStay, StatementMoves
<1>3. ASSUME NEW a \in Agents, NEW v \in AgentRow, SweepsRow(p, a, v)
      PROVE  Moves(p)
  <2>1. v.status \in Drafts(step[p]) /\ a \in RowIds /\ MayWrite(p, a)
    BY <1>1, <1>3, RowIdCases DEF SweepsRow, SweepSteps, Makes, Drafts
  <2>2. \A q \in Procs \ {p} : step'[q] = step[q] /\ todo'[q] = todo[q]
    BY <1>3, OthersStay DEF SweepsRow
  <2> QED
    BY <1>3, <2>1, <2>2, StatementMoves DEF SweepsRow
<1> QED
  BY <1>2, <1>3 DEF Sweeps

\* The steps of a worker, of an operator, and those of both.
LEMMA ClaimMoves ==
  ASSUME IsoInv, NEW w \in Workers,
         (\E a \in Agents : ClaimTakes(w, a)) \/ ClaimStartsRun(w)
  PROVE  Moves(w)
<1>1. w \in Procs
  BY DEF Procs
<1>2. ASSUME NEW a \in Agents, ClaimTakes(w, a)
      PROVE  Moves(w)
  <2>1. \E v : MayWrite(w, a) /\ Write(w, a, v)
    BY <1>2 DEF ClaimTakes
  <2>2. GoTo(w, "start run") /\ UNCHANGED todo
    BY <1>2 DEF ClaimTakes
  <2> QED
    BY <1>1, <2>1, <2>2, OthersStay, StatementMoves, RowIdCases
<1>3. CASE ClaimStartsRun(w)
  <2>1. \E v : MayWrite(w, "run") /\ CommitLast(w, "run", v)
    BY <1>3 DEF ClaimStartsRun
  <2>2. GoTo(w, "exec") /\ UNCHANGED todo
    BY <1>3 DEF ClaimStartsRun, Keep
  <2> QED
    BY <1>1, <2>1, <2>2, OthersStay, StatementMoves, RowIdCases
<1> QED
  BY <1>2, <1>3

LEMMA JobMoves ==
  ASSUME IsoInv, NEW w \in Workers,
         Crash(w) \/ ReadAttempt(w) \/ Complete(w) \/ PromoteAgain(w)
  PROVE  Moves(w)
<1>1. w \in Procs
  BY DEF Procs
<1>2. CASE Crash(w)
  BY <1>1, <1>2, OthersStay, StatementMoves DEF Crash, Drop
<1>3. CASE ReadAttempt(w)
  BY <1>1, <1>3, OthersStay, StatementMoves DEF ReadAttempt, Drop, Keep
<1>4. CASE Complete(w)
  <2> DEFINE a == job[w].agent
  <2>1. CASE committed[a].status = "running" /\ committed[a].token = job[w].attempt
    <3>1. a \in RowIds /\ \E v : MayWrite(w, a) /\ Write(w, a, v)
      BY <1>4, <2>1, CompleteAccepted, RowIdCases
    <3>2. GoTo(w, "queue") /\ \E x : todo' = [todo EXCEPT ![w] = x]
      BY <1>4, <2>1 DEF Complete, CompleteIf
    <3> QED
      BY <1>1, <3>1, <3>2, OthersStay, StatementMoves
  <2>2. CASE ~(committed[a].status = "running" /\ committed[a].token = job[w].attempt)
    <3>1. Drop(w, "promote again") /\ UNCHANGED dbVars
      BY <1>4, <2>2 DEF Complete, CompleteIf
    <3> QED
      BY <1>1, <3>1, OthersStay, StatementMoves DEF Drop
  <2> QED
    BY <2>1, <2>2
<1>5. CASE PromoteAgain(w)
  <2>1. UNCHANGED dbVars
    BY <1>5 DEF PromoteAgain
  <2>2. \A q \in Procs \ {w} : step'[q] = step[q] /\ todo'[q] = todo[q]
    BY <1>1, <1>5, OthersStay DEF PromoteAgain
  <2> QED
    BY <1>1, <2>1, <2>2, StatementMoves
<1> QED
  BY <1>2, <1>3, <1>4, <1>5

LEMMA OperatorMoves ==
  ASSUME IsoInv, NEW o \in Operators,
         CancelReadsRun(o) \/ ReadStale(o) \/ CancelWritesRun(o)
  PROVE  Moves(o)
<1>1. o \in Procs /\ "run" \in RowIds
  BY RowIdCases DEF Procs
<1>2. CASE CancelReadsRun(o)
  BY <1>1, <1>2, OthersStay, StatementMoves DEF CancelReadsRun, Begin
<1>3. CASE ReadStale(o)
  <2>1. UNCHANGED dbVars
    BY <1>3 DEF ReadStale, Begin
  <2>2. \A q \in Procs \ {o} : step'[q] = step[q] /\ todo'[q] = todo[q]
    BY <1>1, <1>3, OthersStay DEF ReadStale
  <2> QED
    BY <1>1, <2>1, <2>2, StatementMoves
<1>4. CASE CancelWritesRun(o)
  <2>1. MayWrite(o, "run") /\ \E v : Write(o, "run", v)
    BY <1>4 DEF CancelWritesRun
  <2>2. \A q \in Procs \ {o} : step'[q] = step[q] /\ todo'[q] = todo[q]
    BY <1>1, <1>4, OthersStay DEF CancelWritesRun
  <2> QED
    BY <1>1, <2>1, <2>2, StatementMoves
<1> QED
  BY <1>2, <1>3, <1>4

LEMMA RefreshMoves ==
  ASSUME IsoInv, NEW p \in Procs, Refreshing(p) \/ Abort(p)
  PROVE  Moves(p)
<1>1. CASE ReadRun(p)
  BY <1>1, OthersStay, StatementMoves DEF ReadRun, Keep
<1>2. CASE Aggregate(p)
  <2>1. GoTo(p, "publish") /\ UNCHANGED todo /\ UNCHANGED dbVars
    BY <1>2 DEF Aggregate
  <2> QED
    BY <2>1, OthersStay, StatementMoves
<1>3. CASE PublishVerdict(p)
  <2>1. \E v : MayWrite(p, "run") /\ CommitLast(p, "run", v)
    BY <1>3 DEF PublishVerdict
  <2>2. GoTo(p, Done(p)) /\ UNCHANGED todo
    BY <1>3 DEF PublishVerdict
  <2> QED
    BY <2>1, <2>2, OthersStay, StatementMoves, RowIdCases
<1>4. CASE Abort(p)
  BY <1>4, OthersStay, StatementMoves DEF Abort
<1> QED
  BY <1>1, <1>2, <1>3, <1>4 DEF Refreshing

-----------------------------------------------------------------------------
(***************************************************************************)
(* The limit.                                                              *)
(***************************************************************************)
LEMMA CountsAreFinite ==
  /\ IsFiniteSet(RunningRows) /\ Cardinality(RunningRows) \in Nat
  /\ IsFiniteSet(RunningRows') /\ Cardinality(RunningRows') \in Nat
  /\ IsFiniteSet(Claiming) /\ Cardinality(Claiming) \in Nat
  /\ IsFiniteSet(Claiming') /\ Cardinality(Claiming') \in Nat
  /\ IsFiniteSet(Workers) /\ Cardinality(Workers) \in Nat
  /\ Cardinality(Claiming') <= Cardinality(Workers)
<1>1. IsFiniteSet(Agents) /\ IsFiniteSet(Workers)
  BY IsolationAssumption, FS_Subset DEF Procs
<1>2. /\ RunningRows \in SUBSET Agents /\ RunningRows' \in SUBSET Agents
      /\ Claiming \in SUBSET Workers /\ Claiming' \in SUBSET Workers
  BY DEF RunningRows, Claiming
<1> QED
  BY <1>1, <1>2, FS_Subset, FS_CardinalityType

LEMMA FewerSlots ==
  ASSUME SlotsAreBounded, RunningRows' \subseteq RunningRows, Claiming' \subseteq Claiming
  PROVE  SlotsAreBounded'
<1>1. /\ Cardinality(RunningRows') <= Cardinality(RunningRows)
      /\ Cardinality(Claiming') <= Cardinality(Claiming)
  BY CountsAreFinite, FS_Subset
<1> QED
  BY <1>1, CountsAreFinite, IsolationAssumption DEF SlotsAreBounded

LEMMA OthersTakeNoSlot ==
  ASSUME IsoInv, SlotsAreBounded, NEW p \in Procs, Moves(p),
         step[p] # "start run", step'[p] # "start run"
  PROVE  SlotsAreBounded'
<1>1. "running" \notin Drafts(step[p])
  BY DEF Drafts
<1>2. RunningRows' \subseteq RunningRows
  BY <1>1 DEF RunningRows, Moves
<1>3. Claiming' \subseteq Claiming
  BY DEF Claiming, Moves, Procs
<1> QED
  BY <1>2, <1>3, FewerSlots

LEMMA ClaimTakesASlot ==
  ASSUME IsoInv, SlotsAreBounded, NEW w \in Workers, NEW a \in Agents, ClaimTakes(w, a)
  PROVE  SlotsAreBounded'
<1> SUFFICES ASSUME ConcurrencyLimit > 0
             PROVE  Cardinality(RunningRows') + Cardinality(Claiming')
                      <= ConcurrencyLimit + Cardinality(Workers) - 1
  BY DEF SlotsAreBounded
<1>1. w \in Procs /\ HoldsNothing(w)
  BY WhoHolds DEF Procs, ClaimTakes, SweepSteps
<1>2. In(w, {"running"}) = RunningRows
  BY <1>1, SeesCommitted DEF RunningRows
<1>3. Cardinality(RunningRows) < ConcurrencyLimit
  <2>1. FreeSlot(w)
    BY DEF ClaimTakes
  <2>2. ConcurrencyLimit # 0
    OBVIOUS
  <2> QED
    BY <1>2, <2>1, <2>2 DEF FreeSlot
<1>4. RunningRows' = RunningRows
  BY DEF RunningRows, ClaimTakes, Write
<1> QED
  BY <1>3, <1>4, CountsAreFinite, IsolationAssumption

LEMMA ClaimStartsRunInItsSlot ==
  ASSUME IsoInv, SlotsAreBounded, NEW w \in Workers, ClaimStartsRun(w)
  PROVE  SlotsAreBounded'
<1>1. /\ step[w] = "start run" /\ GoTo(w, "exec")
      /\ \E v : CommitLast(w, "run", v)
  BY DEF ClaimStartsRun, Keep
<1>2. RunningRows' \subseteq RunningRows \cup {job[w].agent}
  <2>1. \A a \in Agents : committed'[a] # committed[a] => lock[a] = w
    BY <1>1, RowIdCases DEF CommitLast
  <2>2. \A a \in Agents : lock[a] = w => a = job[w].agent
    BY <1>1, RowIdCases DEF IsoInv, LocksMatch, Procs
  <2> QED
    BY <2>1, <2>2 DEF RunningRows
<1>3. Claiming' = Claiming \ {w} /\ w \in Claiming
  BY <1>1 DEF Claiming, GoTo, IsoInv, ProcInv, Procs
<1>4. Cardinality(Claiming') = Cardinality(Claiming) - 1
  BY <1>3, CountsAreFinite, FS_RemoveElement
<1>5. Cardinality(RunningRows') <= Cardinality(RunningRows) + 1
  <2>1. /\ IsFiniteSet(RunningRows \cup {job[w].agent})
        /\ Cardinality(RunningRows \cup {job[w].agent}) \in Nat
        /\ Cardinality(RunningRows \cup {job[w].agent}) <= Cardinality(RunningRows) + 1
    <3>1. IsFiniteSet(RunningRows) /\ Cardinality(RunningRows) \in Nat
      BY CountsAreFinite
    <3>2. /\ IsFiniteSet(RunningRows \cup {job[w].agent})
          /\ \/ Cardinality(RunningRows \cup {job[w].agent}) = Cardinality(RunningRows)
             \/ Cardinality(RunningRows \cup {job[w].agent}) = Cardinality(RunningRows) + 1
      BY <3>1, FS_AddElement
    <3> QED
      BY <3>1, <3>2
  <2>2. Cardinality(RunningRows') <= Cardinality(RunningRows \cup {job[w].agent})
    BY <1>2, <2>1, FS_Subset
  <2> QED
    BY <2>1, <2>2, CountsAreFinite
<1> QED
  BY <1>4, <1>5, CountsAreFinite, IsolationAssumption DEF SlotsAreBounded

\* The steps that neither make nor commit a claim do not lead to "start run".
LEMMA StepTakesASlot ==
  ASSUME IsoInv, SlotsAreBounded, [IsolationNext]_isoVars
  PROVE  SlotsAreBounded'
<1>1. CASE UNCHANGED isoVars
  BY <1>1, FewerSlots DEF isoVars, dbVars, RunningRows, Claiming
<1>2. ASSUME NEW w \in Workers, NEW a \in Agents, ClaimTakes(w, a)
      PROVE  SlotsAreBounded'
  BY <1>2, ClaimTakesASlot
<1>3. step \in [Procs -> Steps]
  BY DEF IsoInv, ProcInv
<1>4. ASSUME NEW p \in Procs, Sweeps(p)
      PROVE  SlotsAreBounded'
  <2>1. step[p] # "start run" /\ After(step[p]) # "start run"
    BY <1>4 DEF Sweeps, SweepSteps, After
  <2>2. step'[p] # "start run"
    BY <1>3, <1>4, <2>1 DEF Sweeps, SweepsRow, GoTo
  <2> QED
    BY <1>4, <2>1, <2>2, SweepMoves, OthersTakeNoSlot
<1>5. ASSUME NEW w \in Workers, Crash(w) \/ ReadAttempt(w) \/ Complete(w) \/ PromoteAgain(w)
      PROVE  SlotsAreBounded'
  <2>1. w \in Procs
    BY DEF Procs
  <2>2. step[w] # "start run" /\ step'[w] # "start run"
    <3>1. CASE Crash(w)
      BY <1>3, <2>1, <3>1 DEF Crash, Drop, GoTo
    <3>2. CASE ReadAttempt(w)
      BY <1>3, <2>1, <3>2 DEF ReadAttempt, Keep, Drop, GoTo
    <3>3. CASE Complete(w)
      BY <1>3, <2>1, <3>3 DEF Complete, CompleteIf, Drop, GoTo
    <3>4. CASE PromoteAgain(w)
      BY <1>3, <2>1, <3>4 DEF PromoteAgain, GoTo
    <3> QED
      BY <1>5, <3>1, <3>2, <3>3, <3>4
  <2> QED
    BY <1>5, <2>1, <2>2, JobMoves, OthersTakeNoSlot
<1>6. ASSUME NEW w \in Workers, WorkerStep(w) \/ Crash(w)
      PROVE  SlotsAreBounded'
  <2>1. w \in Procs
    BY DEF Procs
  <2> QED
    BY <1>4, <1>5, <1>6, <2>1, ClaimStartsRunInItsSlot, QueueSweeps DEF WorkerStep
<1>7. ASSUME NEW o \in Operators, CancelReadsRun(o) \/ ReadStale(o) \/ OperatorStep(o)
      PROVE  SlotsAreBounded'
  <2>1. o \in Procs
    BY DEF Procs
  <2>2. ASSUME CancelReadsRun(o) \/ ReadStale(o) \/ CancelWritesRun(o)
        PROVE  SlotsAreBounded'
    <3>1. step[o] # "start run" /\ step'[o] # "start run"
      <4>1. CASE CancelReadsRun(o)
        BY <1>3, <2>1, <4>1 DEF CancelReadsRun, Begin, GoTo
      <4>2. CASE ReadStale(o)
        BY <1>3, <2>1, <4>2 DEF ReadStale, Begin, GoTo
      <4>3. CASE CancelWritesRun(o)
        BY <1>3, <2>1, <4>3 DEF CancelWritesRun, GoTo
      <4> QED
        BY <2>2, <4>1, <4>2, <4>3
    <3> QED
      BY <2>1, <2>2, <3>1, OperatorMoves, OthersTakeNoSlot
  <2> QED
    BY <1>4, <1>7, <2>1, <2>2, OperatorSweeps DEF OperatorStep
<1>8. ASSUME NEW p \in Procs, Refreshing(p)
      PROVE  SlotsAreBounded'
  <2>1. step[p] # "start run" /\ step'[p] # "start run"
    <3>1. CASE ReadRun(p)
      BY <1>3, <3>1 DEF ReadRun, Keep, Done, GoTo
    <3>2. CASE Aggregate(p)
      BY <1>3, <3>2 DEF Aggregate, GoTo
    <3>3. CASE PublishVerdict(p)
      BY <1>3, <3>3 DEF PublishVerdict, Done, GoTo
    <3> QED
      BY <1>8, <3>1, <3>2, <3>3 DEF Refreshing
  <2> QED
    BY <1>8, <2>1, RefreshMoves, OthersTakeNoSlot
<1>9. ASSUME NEW p \in Procs, Abort(p)
      PROVE  SlotsAreBounded'
  <2>1. GoTo(p, "idle") /\ Rollback(p)
    BY <1>9 DEF Abort
  <2>2. RunningRows' \subseteq RunningRows
    BY <2>1 DEF RunningRows, Rollback
  <2>3. Claiming' \subseteq Claiming
    BY <2>1 DEF Claiming, GoTo, IsoInv, ProcInv, Procs
  <2> QED
    BY <2>2, <2>3, FewerSlots
<1> QED
  BY <1>1, <1>2, <1>6, <1>7, <1>8, <1>9, Zenon DEF IsolationNext

\* Concurrent claims of claim_agent, each of which counts before the others
\* commit, exceed the concurrency limit by at most one agent for each worker
\* but one, for any number of workers.
THEOREM OvershootHasABound == IsolationSpec => []OvershootIsBounded
<1>1. IsolationInit => SlotsAreBounded
  <2> SUFFICES ASSUME IsolationInit, ConcurrencyLimit > 0
               PROVE  Cardinality(RunningRows) + Cardinality(Claiming)
                        <= ConcurrencyLimit + Cardinality(Workers) - 1
    BY DEF SlotsAreBounded
  <2>1. RunningRows = {} /\ Claiming = {}
    BY RowIdCases DEF IsolationInit, RunningRows, Claiming, Procs
  <2> QED
    BY <2>1, FS_EmptySet, CountsAreFinite, IsolationAssumption
<1>2. IsoInv /\ SlotsAreBounded /\ [IsolationNext]_isoVars => SlotsAreBounded'
  BY StepTakesASlot
<1>3. SlotsAreBounded => OvershootIsBounded
  BY CountsAreFinite, IsolationAssumption DEF SlotsAreBounded, OvershootIsBounded
<1> QED
  BY <1>1, <1>2, <1>3, IsoInvariant, PTL DEF IsolationSpec

-----------------------------------------------------------------------------
(***************************************************************************)
(* The dependents.                                                         *)
(***************************************************************************)
Watched(a) == \E w \in Workers : LooksAt(w, a)

\* Nobody else stops looking, and an agent is newly overlooked only when a
\* worker commits what it completed.
LEMMA OthersKeepLooking ==
  ASSUME IsoInv, SomebodyLooks, ~skipped, NEW p \in Procs, Moves(p),
         step[p] # "queue", NEW a \in Agents, Overlooked(a)',
         ~LooksAt(p, a) \/ p \notin Workers
  PROVE  Watched(a)'
<1>1. "pending" \notin Drafts(step[p]) /\ "completed" \notin Drafts(step[p])
  BY DEF Drafts
<1>2. Deps[a] \subseteq Agents
  BY IsolationAssumption
<1>3. Overlooked(a)
  BY <1>1, <1>2 DEF Overlooked, Moves
<1>4. PICK w \in Workers : LooksAt(w, a)
  BY <1>3 DEF SomebodyLooks
<1>5. w \in Procs \ {p}
  BY <1>4 DEF Procs
<1>6. step'[w] = step[w] /\ todo'[w] = todo[w] /\ (lock[a] = w => lock'[a] = w)
  BY <1>5, RowIdCases DEF Moves
<1>7. LooksAt(w, a)'
  BY <1>4, <1>6 DEF LooksAt
<1> QED
  BY <1>7 DEF Watched

\* The step of a worker at which it looks at everything.
LEMMA LooksAfter ==
  ASSUME IsoInv, NEW w \in Workers, NEW s \in RefreshSteps \cup {"promote again"},
         GoTo(w, s), NEW a \in Agents
  PROVE  Watched(a)'
<1>1. step'[w] = s
  BY DEF GoTo, IsoInv, ProcInv, Procs
<1> QED
  BY <1>1 DEF LooksAt, Watched

LEMMA Indexes ==
  ASSUME NEW n \in Nat
  PROVE  /\ n = 0 => 1..n = {}
         /\ \A i \in 1..n : ~(n > 1) => i = 1
         /\ \A i \in 1..n : i # 1 => i - 1 \in 1..(n - 1) /\ (i - 1) + 1 = i
  OBVIOUS

LEMMA HeadIsFirst ==
  ASSUME NEW S, NEW s \in Seq(S), s # <<>>
  PROVE  Head(s) = s[1]
  OBVIOUS

\* The worker that writes the rows it found ready comes to each of them.
LEMMA QueueAgainLooks ==
  ASSUME IsoInv, SomebodyLooks, ~skipped, NEW w \in Workers, Sweeps(w),
         step[w] = "queue again", NEW a \in Agents, Overlooked(a)'
  PROVE  Watched(a)'
<1>1. w \in Procs /\ Moves(w)
  BY SweepMoves DEF Procs
<1>2. ~LooksAt(w, a) => Watched(a)'
  BY <1>1, OthersKeepLooking
<1>3. ASSUME LooksAt(w, a)
      PROVE  Watched(a)'
  <2>1. lock[a] = w \/ \E i \in DOMAIN todo[w] : todo[w][i] = a
    BY <1>3 DEF LooksAt, RefreshSteps
  <2>2. todo[w] \in Seq(Agents)
    BY <1>1 DEF IsoInv, ProcInv
  <2>3. committed'[a].status = "pending"
    BY DEF Overlooked
  <2>4. lock[a] = w => draft[a].status = "queued"
    BY <1>1, RowIdCases DEF IsoInv, LocksMatch, Drafts
  <2> PICK t \in Seq(Agents) : t = todo[w]
    BY <2>2
  <2> PICK n \in Nat : n = Len(t)
    BY LenProperties
  <2>5. DOMAIN t = 1..n
    BY LenProperties
  <2>6. CASE Commit(w) /\ t = <<>>
    <3>1. n = 0
      BY <2>6, EmptySeq
    <3>2. lock[a] = w
      BY <2>1, <2>5, <3>1, Indexes, Zenon
    <3>3. committed'[a] = draft[a]
      BY <2>6, <3>2, RowIdCases DEF Commit
    <3> QED
      BY <2>3, <2>4, <3>2, <3>3
  <2>7. ASSUME NEW x \in Agents, NEW v \in AgentRow, SweepsRow(w, x, v)
        PROVE  Watched(a)'
    <3>1. /\ t # <<>> /\ x = Head(t) /\ v.status = "queued"
          /\ todo' = [todo EXCEPT ![w] = Tail(t)]
      BY <2>7 DEF SweepsRow, Makes
    <3>2. x = t[1]
      BY <3>1, HeadIsFirst, Zenon
    <3>3. /\ Tail(t) \in Seq(Agents) /\ Len(Tail(t)) = n - 1
          /\ \A k \in 1..Len(Tail(t)) : Tail(t)[k] = t[k + 1]
      BY <3>1, HeadTailProperties
    <3>4. lock[a] = w \/ \E i \in 1..n : t[i] = a
      BY <2>1, <2>5
    <3>5. todo'[w] = Tail(t)
      BY <1>1, <3>1 DEF IsoInv, ProcInv
    <3>6. CASE n > 1 /\ Write(w, x, v) /\ UNCHANGED step
      <4>1. step'[w] = "queue again"
        BY <3>6
      <4>2. CASE lock[a] = w \/ a = x
        <5>1. lock'[a] = w
          BY <1>1, <3>6, <4>2, RowIdCases DEF Write, IsoInv, RowInv
        <5> QED
          BY <4>1, <5>1 DEF LooksAt, Watched
      <4>3. CASE lock[a] # w /\ a # x
        <5>1. PICK i \in 1..n : t[i] = a
          BY <3>4, <4>3
        <5>2. i # 1
          BY <3>2, <4>3, <5>1
        <5>3. i - 1 \in 1..(n - 1) /\ (i - 1) + 1 = i
          BY <5>1, <5>2, Indexes, Zenon
        <5>4. Tail(t)[i - 1] = a
          BY <3>3, <5>1, <5>3
        <5>5. DOMAIN Tail(t) = 1..(n - 1)
          BY <3>3, LenProperties
        <5>6. \E k \in DOMAIN todo'[w] : todo'[w][k] = a
          BY <3>5, <5>3, <5>4, <5>5
        <5> QED
          BY <4>1, <5>6 DEF LooksAt, Watched
      <4> QED
        BY <4>2, <4>3
    <3>7. CASE ~(n > 1) /\ CommitLast(w, x, v)
      <4>1. a = x \/ lock[a] = w
        <5>1. ASSUME NEW i \in 1..n
              PROVE  i = 1
          BY <3>7, Indexes, Zenon
        <5> QED
          BY <3>2, <3>4, <5>1
      <4>2. committed'[a] = v \/ (committed'[a] = draft[a] /\ lock[a] = w)
        BY <3>7, <4>1, RowIdCases DEF CommitLast
      <4> QED
        BY <2>3, <2>4, <3>1, <4>2
    <3>8. \/ n > 1 /\ Write(w, x, v) /\ UNCHANGED step
          \/ ~(n > 1) /\ CommitLast(w, x, v)
      BY <2>7 DEF SweepsRow
    <3> QED
      BY <3>6, <3>7, <3>8
  <2> QED
    BY <2>6, <2>7 DEF Sweeps
<1> QED
  BY <1>2, <1>3

LEMMA SweepsLook ==
  ASSUME IsoInv, SomebodyLooks, ~skipped, NEW p \in Procs, Sweeps(p),
         NEW a \in Agents, Overlooked(a)'
  PROVE  Watched(a)'
<1>1. Moves(p) /\ step[p] \in SweepSteps
  BY SweepMoves DEF Sweeps
<1>2. CASE p \notin Workers
  <2>1. step[p] # "queue"
    BY <1>2 DEF IsoInv, ProcInv, Procs, OperatorSteps, RefreshSteps
  <2> QED
    BY <1>1, <1>2, <2>1, OthersKeepLooking
<1>3. CASE p \in Workers /\ step[p] = "queue again"
  BY <1>3, QueueAgainLooks
<1>4. CASE p \in Workers /\ step[p] = "queue"
  <2>1. ~LooksAt(p, a)
    BY <1>4 DEF LooksAt, RefreshSteps
  <2>2. CASE GoTo(p, "refresh")
    BY <1>4, <2>2, LooksAfter DEF RefreshSteps
  <2>3. CASE UNCHANGED <<committed, step>> /\ \E x \in Agents, v \in AgentRow : SweepsRow(p, x, v) /\ Write(p, x, v)
    <3>1. Overlooked(a)
      BY <2>3 DEF Overlooked
    <3>2. PICK w \in Workers : LooksAt(w, a)
      BY <3>1 DEF SomebodyLooks
    <3>3. w \in Procs \ {p}
      BY <2>1, <3>2 DEF Procs
    <3>4. step'[w] = step[w] /\ todo'[w] = todo[w] /\ (lock[a] = w => lock'[a] = w)
      BY <1>1, <3>3, RowIdCases DEF Moves
    <3> QED
      BY <3>2, <3>4 DEF LooksAt, Watched
  <2>4. After(step[p]) = "refresh"
    BY <1>4 DEF After
  <2> QED
    BY <2>2, <2>3, <2>4 DEF Sweeps, SweepsRow, Write
<1>5. CASE p \in Workers /\ step[p] \notin {"queue", "queue again"}
  <2>1. ~LooksAt(p, a)
    BY <1>1, <1>5 DEF LooksAt, RefreshSteps, SweepSteps
  <2> QED
    BY <1>1, <1>5, <2>1, OthersKeepLooking
<1> QED
  BY <1>2, <1>3, <1>4, <1>5

\* A worker that looks again finds every agent that is overlooked.
LEMMA PromoteAgainLooks ==
  ASSUME IsoInv, NEW w \in Workers, PromoteAgain(w), NEW a \in Agents, Overlooked(a)'
  PROVE  Watched(a)'
<1>1. step[w] = "promote again" /\ w \in Procs /\ UNCHANGED dbVars
  BY DEF PromoteAgain, Procs
<1>2. HoldsNothing(w)
  BY <1>1, WhoHolds DEF SweepSteps
<1>3. Overlooked(a)
  BY <1>1 DEF Overlooked, dbVars
<1>4. a \in Ready(w, {})
  <2>1. In(w, {"pending"}) = {x \in Agents : committed[x].status \in {"pending"}}
    BY <1>1, <1>2, SeesCommitted
  <2>2. In(w, {"completed"}) = {x \in Agents : committed[x].status \in {"completed"}}
    BY <1>1, <1>2, SeesCommitted
  <2>3. Deps[a] \subseteq Agents
    BY IsolationAssumption
  <2> QED
    BY <1>3, <2>1, <2>2, <2>3 DEF Ready, Overlooked
<1>5. PICK order \in SetToSeqs(Ready(w, {})) : todo' = [todo EXCEPT ![w] = order]
  BY DEF PromoteAgain
<1>6. \E i \in DOMAIN order : order[i] = a
  <2>1. Ready(w, {}) \in SUBSET Agents
    BY DEF Ready, In
  <2> QED
    BY <1>4, <2>1, OrderOfRows
<1>7. todo'[w] = order
  BY <1>1, <1>5 DEF IsoInv, ProcInv
<1>8. step'[w] = "queue again"
  BY <1>1, <1>4 DEF PromoteAgain, GoTo, IsoInv, ProcInv
<1> QED
  BY <1>6, <1>7, <1>8 DEF LooksAt, Watched

\* Someone waits for a row of a transaction that Postgres aborts.
LEMMA AbortedHolds ==
  ASSUME IsoInv, NEW p \in Procs, Abort(p)
  PROVE  step[p] \in SweepSteps \cup {"start run"}
<1>1. PICK S \in SUBSET Procs : /\ p \in S
                                /\ \A q \in S : \E r \in S : WaitsFor(r) = {q}
  BY DEF Abort, Deadlocked
<1>2. PICK q \in S : WaitsFor(q) = {p}
  BY <1>1
<1>3. \E r \in Wants(q) : lock[r] = p
  BY <1>2 DEF WaitsFor
<1>4. \A r \in Wants(q) : r \in RowIds
  <2>1. q \in Procs
    BY <1>1, <1>2
  <2>2. step[q] = "complete" => q \in Workers
    BY <2>1 DEF IsoInv, ProcInv, OperatorSteps, RefreshSteps, Procs
  <2>3. step[q] = "complete" => job[q].agent \in Agents
    BY <2>2 DEF IsoInv, ProcInv, JobSteps
  <2>4. todo[q] # <<>> => Head(todo[q]) \in Agents
    BY <2>1, NextRow
  <2> QED
    BY <2>3, <2>4, RowIdCases DEF Wants
<1> QED
  BY <1>3, <1>4, WhoHolds DEF HoldsNothing

LEMMA WorkersLook ==
  ASSUME IsoInv, SomebodyLooks, ~skipped, NEW w \in Workers,
         \/ \E x \in Agents : ClaimTakes(w, x)
         \/ ClaimStartsRun(w) \/ Crash(w) \/ ReadAttempt(w) \/ Complete(w),
         NEW a \in Agents, Overlooked(a)'
  PROVE  Watched(a)'
<1>1. step[w] \in {"idle", "start run", "exec", "complete"}
  <2>1. CASE \E x \in Agents : ClaimTakes(w, x)
    BY <2>1 DEF ClaimTakes
  <2>2. CASE ClaimStartsRun(w)
    BY <2>2 DEF ClaimStartsRun
  <2>3. CASE Crash(w)
    BY <2>3 DEF Crash
  <2>4. CASE ReadAttempt(w)
    BY <2>4 DEF ReadAttempt
  <2>5. CASE Complete(w)
    BY <2>5 DEF Complete, CompleteIf
  <2> QED
    BY <2>1, <2>2, <2>3, <2>4, <2>5
<1>2. Moves(w) /\ w \in Procs
  BY ClaimMoves, JobMoves DEF Procs
<1>3. ~LooksAt(w, a) /\ step[w] # "queue"
  BY <1>1 DEF LooksAt, RefreshSteps
<1> QED
  BY <1>2, <1>3, OthersKeepLooking

LEMMA RefreshLooks ==
  ASSUME IsoInv, SomebodyLooks, ~skipped, NEW p \in Procs, Refreshing(p),
         NEW a \in Agents, Overlooked(a)'
  PROVE  Watched(a)'
<1>1. /\ step[p] # "queue"
      /\ \/ GoTo(p, Done(p)) \/ GoTo(p, "aggregate") \/ GoTo(p, "publish")
  <2>1. CASE ReadRun(p)
    BY <2>1 DEF ReadRun, Keep
  <2>2. CASE Aggregate(p)
    BY <2>2 DEF Aggregate
  <2>3. CASE PublishVerdict(p)
    BY <2>3 DEF PublishVerdict
  <2> QED
    BY <2>1, <2>2, <2>3 DEF Refreshing
<1>2. CASE p \notin Workers
  BY <1>1, <1>2, RefreshMoves, OthersKeepLooking
<1>3. CASE p \in Workers
  <2>1. \A s \in {Done(p), "aggregate", "publish"} : s \in RefreshSteps \cup {"promote again"}
    BY <1>3 DEF Done, RefreshSteps
  <2> QED
    BY <1>1, <1>3, <2>1, LooksAfter
<1> QED
  BY <1>2, <1>3

LEMMA AbortLooks ==
  ASSUME IsoInv, SomebodyLooks, NEW p \in Procs, Abort(p), ~skipped',
         NEW a \in Agents, Overlooked(a)'
  PROVE  Watched(a)'
<1>1. ~skipped /\ step[p] # "queue again" /\ UNCHANGED committed
  BY DEF Abort, Rollback
<1>2. ~LooksAt(p, a)
  BY <1>1, AbortedHolds DEF LooksAt, RefreshSteps, SweepSteps
<1>3. Overlooked(a)
  BY <1>1 DEF Overlooked
<1>4. PICK w \in Workers : LooksAt(w, a)
  BY <1>1, <1>3 DEF SomebodyLooks
<1>5. w \in Procs \ {p}
  BY <1>2, <1>4 DEF Procs
<1>6. step'[w] = step[w] /\ todo'[w] = todo[w] /\ (lock[a] = w => lock'[a] = w)
  BY <1>5, RefreshMoves, RowIdCases DEF Moves
<1> QED
  BY <1>4, <1>6 DEF LooksAt, Watched

LEMMA SomebodyLooksOn ==
  ASSUME IsoInv, SomebodyLooks, [IsolationNext]_isoVars
  PROVE  SomebodyLooks'
<1> SUFFICES ASSUME ~skipped', NEW a \in Agents, Overlooked(a)'
             PROVE  Watched(a)'
  BY DEF SomebodyLooks, Watched
<1>1. CASE UNCHANGED isoVars
  <2>1. UNCHANGED <<committed, lock, step, todo, skipped>>
    BY <1>1 DEF isoVars, dbVars
  <2>2. ~skipped /\ Overlooked(a)
    BY <2>1 DEF Overlooked
  <2> QED
    BY <2>1, <2>2 DEF SomebodyLooks, LooksAt, Watched
<1>2. ASSUME NEW w \in Workers, NEW x \in Agents, ClaimTakes(w, x)
      PROVE  Watched(a)'
  <2>1. ~skipped
    BY <1>2 DEF ClaimTakes
  <2> QED
    BY <1>2, <2>1, WorkersLook
<1>3. ASSUME NEW w \in Workers, WorkerStep(w) \/ Crash(w)
      PROVE  Watched(a)'
  <2>1. w \in Procs
    BY DEF Procs
  <2>2. CASE ClaimStartsRun(w) \/ Crash(w) \/ ReadAttempt(w) \/ Complete(w)
    <3>1. ~skipped
      <4>1. CASE ClaimStartsRun(w)
        BY <4>1 DEF ClaimStartsRun, Keep
      <4>2. CASE Crash(w)
        BY <4>2 DEF Crash, Drop
      <4>3. CASE ReadAttempt(w)
        BY <4>3 DEF ReadAttempt, Keep, Drop
      <4>4. CASE Complete(w)
        BY <4>4 DEF Complete, CompleteIf, Drop
      <4> QED
        BY <2>2, <4>1, <4>2, <4>3, <4>4
    <3> QED
      BY <2>2, <3>1, WorkersLook
  <2>3. CASE QueueReady(w)
    BY <2>1, <2>3, QueueSweeps, SweepsLook DEF Sweeps
  <2>4. CASE PromoteAgain(w)
    BY <2>4, PromoteAgainLooks
  <2> QED
    BY <1>3, <2>2, <2>3, <2>4 DEF WorkerStep
<1>4. ASSUME NEW o \in Operators, CancelReadsRun(o) \/ ReadStale(o) \/ OperatorStep(o)
      PROVE  Watched(a)'
  <2>1. o \in Procs /\ o \notin Workers
    BY IsolationAssumption DEF Procs
  <2>2. CASE CancelReadsRun(o) \/ ReadStale(o) \/ CancelWritesRun(o)
    <3>1. ~skipped /\ step[o] # "queue"
      <4>1. CASE CancelReadsRun(o)
        BY <4>1 DEF CancelReadsRun, Begin
      <4>2. CASE ReadStale(o)
        BY <4>2 DEF ReadStale, Begin
      <4>3. CASE CancelWritesRun(o)
        BY <4>3 DEF CancelWritesRun
      <4> QED
        BY <2>2, <4>1, <4>2, <4>3
    <3> QED
      BY <2>1, <2>2, <3>1, OperatorMoves, OthersKeepLooking
  <2>3. CASE CancelRow(o) \/ Requeue(o)
    BY <2>1, <2>3, OperatorSweeps, SweepsLook DEF Sweeps
  <2> QED
    BY <1>4, <2>2, <2>3 DEF OperatorStep
<1>5. ASSUME NEW p \in Procs, Refreshing(p)
      PROVE  Watched(a)'
  <2>1. ~skipped
    BY <1>5 DEF Refreshing, ReadRun, Aggregate, PublishVerdict, Keep
  <2> QED
    BY <1>5, <2>1, RefreshLooks
<1>6. ASSUME NEW p \in Procs, Abort(p)
      PROVE  Watched(a)'
  BY <1>6, AbortLooks
<1> QED
  BY <1>1, <1>2, <1>3, <1>4, <1>5, <1>6, Zenon DEF IsolationNext

\* No dependent is forgotten: two dependencies that complete at once each see
\* the other as running in complete_agent, and still, once every transaction
\* has ended, an agent that is pending has a dependency that is not completed,
\* unless the promotion that was to find it was aborted.
THEOREM DependentsAreFound == IsolationSpec => []NoForgottenDependent
<1>1. IsolationInit => SomebodyLooks
  <2> SUFFICES ASSUME IsolationInit, NEW a \in Agents, Overlooked(a)
               PROVE  FALSE
    BY DEF SomebodyLooks
  <2>1. committed[a].status = "pending" /\ Deps[a] # {}
    BY RowIdCases DEF IsolationInit, Overlooked
  <2>2. PICK d \in Deps[a] : d \in Agents
    BY <2>1, IsolationAssumption
  <2>3. committed[d].status # "completed"
    BY <2>2, RowIdCases DEF IsolationInit
  <2> QED
    BY <2>2, <2>3 DEF Overlooked
<1>2. IsoInv /\ SomebodyLooks /\ [IsolationNext]_isoVars => SomebodyLooks'
  BY SomebodyLooksOn
<1>3. SomebodyLooks => NoForgottenDependent
  BY DEF SomebodyLooks, NoForgottenDependent, Overlooked, LooksAt, RefreshSteps, Procs
<1> QED
  BY <1>1, <1>2, <1>3, IsoInvariant, PTL DEF IsolationSpec
=============================================================================
