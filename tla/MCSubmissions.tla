---------------------------- MODULE MCSubmissions ----------------------------
(***************************************************************************)
(* Small instances of Submissions, and the algorithms on plans compared    *)
(* with their definitions on every plan of up to three agents.             *)
(***************************************************************************)
EXTENDS Submissions
G == INSTANCE Graphs

Agent(name, needs) == [name |-> name, depends_on |-> needs]
Chain == Pipeline(<<Agent("a", {}), Agent("b", {}), Agent("c", {})>>)
Cycle == <<Agent("a", {"c"}), Agent("b", {"a"}), Agent("c", {"b"})>>
MCAgentsOf == [plan \in {"chain", "cycle"} |-> IF plan = "chain" THEN Chain ELSE Cycle]

MCPayloads ==
  {[kind |-> "plan", plan |-> "chain", run_id |-> NoId],
   [kind |-> "plan", plan |-> "chain", run_id |-> "nightly"],
   [kind |-> "plan", plan |-> "cycle", run_id |-> NoId],
   [kind |-> "template", template |-> "t2", run_id |-> NoId], Garbled}
MCRequests ==
  {[kind |-> "plan", plan |-> "chain", run_id |-> "nightly"],
   [kind |-> "template", template |-> "t1", run_id |-> NoId]}
MCContents == {"chain", Unrenderable}
MCChanges ==
  {[kind |-> "put template", template |-> "t2", content |-> "chain"],
   [kind |-> "put schedule", schedule |-> "s1", template |-> "t2", status |-> "active"],
   [kind |-> "set status", schedule |-> "s1", status |-> "paused"]}
MCTemplates0 == [t \in Templates |-> IF t = "t1" THEN "chain" ELSE Unrenderable]
MCSchedules0 ==
  [s \in Schedules |->
     IF s = "s1" THEN [template |-> "t1", status |-> "active", next_run_at |-> 0]
                 ELSE [template |-> "t2", status |-> "active", next_run_at |-> 1]]
MCInterval == [s \in Schedules |-> IF s = "s1" THEN 1 ELSE 2]

-----------------------------------------------------------------------------
\* Every plan of three agents, some of whose dependencies are unknown.
ThreeAgents ==
  {<<Agent("a", f["a"]), Agent("b", f["b"]), Agent("c", f["c"])>> :
     f \in [{"a", "b", "c"} -> SUBSET {"a", "b", "c", "ghost"}]}
Graph(plan) ==
  [node |-> Names(plan),
   edge |-> {<<n, d>> \in Names(plan) \X Names(plan) : d \in DepsOf(plan)[n]}]
Place(list, n) == CHOOSE i \in DOMAIN list : list[i] = n

\* The depth-first search finds the plans that have a cycle; with no unknown
\* name the plans it accepts are those that can finish.
ASSUME CyclesAreFound ==
  \A plan \in ThreeAgents :
    /\ HasCircularDeps(plan) <=> G!HasCycle(Graph(plan))
    /\ ValidPlan(plan) <=> CanFinish(plan)

\* get_subtree is the agent and what depends on it, however far away.
ASSUME SubtreeIsWhatFollows ==
  \A plan \in ThreeAgents : \A n \in Names(plan) :
    GetSubtree(plan, n) = {n} \cup G!Ancestors(Graph(plan), n)

\* topological_order exists for the plans that can finish, takes each agent once
\* and every dependency before its dependents; the layers agree with it.
ASSUME OrderRespectsDependencies ==
  \A plan \in ThreeAgents :
    LET order == GetMergeOrder(plan)
        layers == ResolveDependencies(plan)
    IN
    /\ order = Circular <=> ~CanFinish(plan)
    /\ layers = Circular <=> ~CanFinish(plan)
    /\ order # Circular =>
         /\ ToSet(order) = Names(plan) /\ Len(order) = Cardinality(Names(plan))
         /\ \A n \in Names(plan) : \A d \in DepsOf(plan)[n] :
              /\ Place(order, d) < Place(order, n)
              /\ Place(ReverseTopologicalOrder(plan), d) > Place(ReverseTopologicalOrder(plan), n)
         /\ \A i \in DOMAIN layers : layers[i] =
              GetReadyAgents(plan, UNION {layers[j] : j \in 1..(i - 1)}, {})

\* The two validations, one by depth-first search and one by counting, accept the
\* same plans.
ASSUME ValidationsAgree == \A plan \in ThreeAgents : Validates(plan) <=> ValidPlan(plan)

\* With what is left of a plan that can finish something can be started, or what
\* has failed blocks an agent; nothing is both.
ASSUME ReadyOrBlocked ==
  \A plan \in {p \in ThreeAgents : ValidPlan(p)} :
  \A completed \in SUBSET Names(plan) : \A failed \in SUBSET (Names(plan) \ completed) :
    LET ready == GetReadyAgents(plan, completed, failed)
        blocked == GetBlockedByFailure(plan, failed)
    IN
    /\ ready \cap blocked = {}
    /\ completed \cup failed # Names(plan) => ready \cup (blocked \ completed) # {}

\* Agents in a row can finish if no two have one name and none waits for one
\* that is behind it.
ASSUME RowsCanFinish ==
  /\ \A names \in [1..3 -> {"a", "b", "c"}] :
       ValidPlan(InlinePlan(names)) <=> IsInjective(names)
  /\ \A plan \in ThreeAgents :
       ValidPlan(Pipeline(plan)) <=>
         \A i \in 1..3 : plan[i].depends_on \subseteq {plan[j].name : j \in 1..(i - 1)}
=============================================================================
