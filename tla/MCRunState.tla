------------------------------ MODULE MCRunState ------------------------------
(***************************************************************************)
(* Small plans for the runs of RunState and RunStateClaims.                *)
(*                                                                         *)
(* Pipeline: two independent agents and one that needs both, one agent of  *)
(* each failure policy.  Managed: two managers, one waiting for the other, *)
(* that may spawn workers.                                                 *)
(***************************************************************************)
EXTENDS RunStateClaims

NoAgents == {}
NoFunction == [a \in {} |-> a]

Pipeline == {"build", "lint", "ship"}
PipelineDeps == [a \in Pipeline |-> IF a = "ship" THEN {"build", "lint"} ELSE {}]
PipelineOnFailure == [a \in Pipeline |->
  CASE a = "build" -> "retry" [] a = "lint" -> "stop" [] OTHER -> "continue"]
PipelineRetryCount == [a \in Pipeline |-> IF a = "build" THEN 1 ELSE 0]

\* A chain behind an agent that may be retried, beside an independent agent.
Chain == {"root", "mid", "leaf", "side"}
ChainDeps == [a \in Chain |-> CASE a = "mid" -> {"root"} [] a = "leaf" -> {"mid", "side"}
                                [] OTHER -> {}]
ChainOnFailure == [a \in Chain |-> IF a \in {"root", "mid"} THEN "retry" ELSE "continue"]
ChainRetryCount == [a \in Chain |-> IF a \in {"root", "mid"} THEN 1 ELSE 0]

\* Both plan agents are managers; any of them may spawn a worker by a dotted
\* name, and the cap of "report" counts the names it prefixes.
Managed == {"lead", "report"}
Spawned == {"report.w1", "report.w2"}
ManagedTeam == Managed \cup Spawned
ManagedDeps == [a \in ManagedTeam |-> IF a = "report" THEN {"lead"} ELSE {}]
ManagedOnFailure == [a \in ManagedTeam |-> IF a = "lead" THEN "stop" ELSE "retry"]
ManagedRetryCount == [a \in ManagedTeam |-> IF a = "report.w1" THEN 1 ELSE 0]
ManagedNames == [m \in Managed |-> IF m = "report" THEN Spawned ELSE {}]
ManagedCap == [m \in Managed |-> IF m = "report" THEN 1 ELSE NoCap]
=============================================================================
