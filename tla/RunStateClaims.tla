--------------------------- MODULE RunStateClaims ---------------------------
(***************************************************************************)
(* What the documentation says of the operations of RunState and the code  *)
(* does not do, checked in a run that finds a behaviour that breaks it.    *)
(***************************************************************************)
EXTENDS RunState

(***************************************************************************)
(* "on_failure='stop' terminalizes non-terminal agents": what the expiry   *)
(* of an agent with that policy has cancelled stays terminal for the rest  *)
(* of the expire_stale_leases transaction.  The loop goes on to the stale  *)
(* row of a sibling, as it was before the stop, and requeues it.           *)
(***************************************************************************)
StopTerminalizes ==
  [][~Idle => \A a \in Agents :
       status[a] = "cancelled" => status'[a] \in TerminalAgentStatuses]_vars
=============================================================================
