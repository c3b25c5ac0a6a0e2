--------------------------- MODULE MCRunIsolation ---------------------------
(***************************************************************************)
(* Small instances of RunIsolation.                                        *)
(***************************************************************************)
EXTENDS RunIsolation

\* An agent that needs two others.
Join == {"left", "right", "join"}
JoinDeps == [a \in Join |-> IF a = "join" THEN {"left", "right"} ELSE {}]
=============================================================================
