------------------------------ MODULE MCDispatch ------------------------------
(***************************************************************************)
(* Small instances of Dispatch.                                            *)
(***************************************************************************)
EXTENDS Dispatch

NoAgents == {}
NoFunction == [a \in {} |-> a]
OneReport == {<<"failed", TRUE>>}

TwoReports == {<<"failed", TRUE>>, <<"failed", FALSE>>}

\* A manager with a retry, an agent that depends on it and is named after it, and
\* a worker it spawns; the cap counts both names.
Pair == {"first", "first.second"}
Spawned == {"first.worker"}
TeamDeps == [a \in Agents |-> IF a = "first.second" THEN {"first"} ELSE {}]
TeamOnFailure == [a \in Agents |-> IF a = "first" THEN "retry" ELSE "continue"]
TeamRetryCount == [a \in Agents |-> IF a = "first" THEN 1 ELSE 0]
TeamRank == [a \in Agents |-> IF a = "first" THEN 1 ELSE IF a = "first.second" THEN 2 ELSE 3]
PairManagers == {"first"}
PairNamedAfter == [m \in {"first"} |-> Agents \ {"first"}]
PairManagerCap == [m \in {"first"} |-> 2]

\* One agent that may be retried once.
Solo == {"solo"}
SoloDeps == [a \in Solo |-> {}]
SoloOnFailure == [a \in Solo |-> "retry"]
SoloRetryCount == [a \in Solo |-> 1]
SoloRank == [a \in Solo |-> 1]
=============================================================================
