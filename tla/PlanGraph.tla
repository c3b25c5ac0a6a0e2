----------------------------- MODULE PlanGraph -----------------------------
(***************************************************************************)
(* Plans as graphs of dependencies: validate_plan and has_circular_deps    *)
(* (spawnd/io/validation.py), which every submission goes through, and     *)
(* DependencyGraph (spawnd/core/deps.py), which plans of the Python API    *)
(* are inspected with.  A plan is the sequence of its agents.              *)
(***************************************************************************)
EXTENDS Naturals, SequencesExt

Names(plan) == {plan[i].name : i \in DOMAIN plan}

\* {a.name: set(a.depends_on) for a in agents}: of two agents with one name the
\* first gives the place and the second the value.
DepsOf(plan) ==
  [n \in Names(plan) |->
     plan[Max({i \in DOMAIN plan : plan[i].name = n})].depends_on]
Keys(plan) ==
  LET AddKey(keys, agent) ==
        IF Contains(keys, agent.name) THEN keys ELSE Append(keys, agent.name)
  IN  FoldLeft(AddKey, <<>>, plan)

Mentioned(plan) == Names(plan) \cup UNION Range(DepsOf(plan))

\* has_circular_deps: the depth-first search `visit` with its path.
Visit(plan) ==
  LET deps == DepsOf(plan)
      visit[call \in [name : Mentioned(plan), path : SUBSET Mentioned(plan)]] ==
        \/ call.name \in call.path
        \/ /\ call.name \in DOMAIN deps
           /\ \E d \in deps[call.name] :
                visit[[name |-> d, path |-> call.path \cup {call.name}]]
  IN  visit
HasCircularDeps(plan) == \E n \in Names(plan) : Visit(plan)[[name |-> n, path |-> {}]]

\* validate_plan, as to the graph; the other errors it knows are about roles and
\* MCP servers.
ValidPlan(plan) ==
  /\ Len(plan) = Cardinality(Names(plan))
  /\ \A i \in DOMAIN plan : plan[i].depends_on \subseteq Names(plan)
  /\ ~HasCircularDeps(plan)

-----------------------------------------------------------------------------
Circular == "Circular dependency detected"

(***************************************************************************)
(* topological_order: the queue is served once for each agent at most.     *)
(***************************************************************************)
TopologicalOrder(plan) ==
  LET deps == DepsOf(plan)
      Serve(s, turn) ==
        IF s.queue = <<>> THEN s
        ELSE LET node == Head(s.queue)
                 left == [n \in DOMAIN deps |->
                            IF node \in deps[n] THEN s.in_degree[n] - 1 ELSE s.in_degree[n]]
                 Freed(n) == node \in deps[n] /\ left[n] = 0
             IN  [order |-> Append(s.order, node), in_degree |-> left,
                  queue |-> Tail(s.queue) \o SelectSeq(Keys(plan), Freed)]
      Root(n) == deps[n] = {}
      start == [order |-> <<>>, in_degree |-> [n \in DOMAIN deps |-> Cardinality(deps[n])],
                queue |-> SelectSeq(Keys(plan), Root)]
      order == FoldLeft(Serve, start, Keys(plan)).order
  IN  IF Len(order) = Cardinality(Names(plan)) THEN order ELSE Circular

ReverseTopologicalOrder(plan) == Reverse(TopologicalOrder(plan))

\* iter_layers, collected.
Layers(plan) ==
  LET deps == DepsOf(plan)
      NextLayer(s, turn) ==
        LET layer == {n \in Names(plan) \ s.completed : deps[n] \subseteq s.completed}
        IN  IF layer = {} THEN s
            ELSE [completed |-> s.completed \cup layer, layers |-> Append(s.layers, layer)]
      end == FoldLeft(NextLayer, [completed |-> {}, layers |-> <<>>], Keys(plan))
  IN  IF end.completed = Names(plan) THEN end.layers ELSE Circular

\* resolve_dependencies and get_merge_order: the two as functions of the agents.
ResolveDependencies(plan) == Layers(plan)
GetMergeOrder(plan) == TopologicalOrder(plan)

\* DependencyGraph.validate: no errors.  A name that occurs twice is none.
Validates(plan) ==
  /\ \A n \in Names(plan) : DepsOf(plan)[n] \subseteq Names(plan)
  /\ TopologicalOrder(plan) # Circular

GetDependents(plan, name) == {n \in Names(plan) : name \in DepsOf(plan)[n]}

\* get_subtree: breadth-first, each agent enters the queue once.
GetSubtree(plan, name) ==
  LET Serve(s, turn) ==
        IF s.queue = <<>> THEN s
        ELSE LET new == GetDependents(plan, Head(s.queue)) \ s.subtree
             IN  [subtree |-> s.subtree \cup new, queue |-> Tail(s.queue) \o SetToSeq(new)]
  IN  FoldLeft(Serve, [subtree |-> {name}, queue |-> <<name>>], Keys(plan)).subtree

GetReadyAgents(plan, completed, failed) ==
  {n \in Names(plan) \ (completed \cup failed) : DepsOf(plan)[n] \subseteq completed}

GetBlockedByFailure(plan, failed) ==
  {n \in Names(plan) : DepsOf(plan)[n] \cap failed # {}}

-----------------------------------------------------------------------------
\* pipeline of the Python API: each step also needs the one before it.
Pipeline(steps) ==
  [i \in DOMAIN steps |->
     IF i = 1 THEN steps[1]
     ELSE [steps[i] EXCEPT !.depends_on = @ \cup {steps[i - 1].name}]]

\* create_inline_plan with `sequential`, from the names of its prompts.
InlinePlan(names) ==
  [i \in DOMAIN names |->
     [name |-> names[i], depends_on |-> IF i = 1 THEN {} ELSE {names[i - 1]}]]
=============================================================================
