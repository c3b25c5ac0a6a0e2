------------------------------- MODULE MCWorker -------------------------------
(***************************************************************************)
(* Small instances of Worker.                                              *)
(***************************************************************************)
EXTENDS Worker

NoAgents == {}
NoFunction == [a \in {} |-> a]

\* One agent that may be retried once, and two workers on one host.
Solo == {"solo"}
SoloDeps == [a \in Solo |-> {}]
SoloOnFailure == [a \in Solo |-> "retry"]
SoloRetryCount == [a \in Solo |-> 1]
SharedHost == [w \in Workers |-> "host"]
=============================================================================
