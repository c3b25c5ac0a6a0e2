-------------------------- MODULE ExecutionContract --------------------------
(***************************************************************************)
(* What the state repository promises about the executions of the agents   *)
(* of one run, whatever retries, cancellations, lease expiries, resumes    *)
(* and crashes happen: an agent has at most one open execution, it starts  *)
(* after its dependencies completed, never again once it completed, and at *)
(* most retry_count + 1 times in all.                                      *)
(***************************************************************************)
EXTENDS Naturals

CONSTANTS Agents, Deps, RetryCount

VARIABLES
  open,   \* agents with an execution in progress
  done,   \* agents with a successful execution
  used    \* executions started so far, by agent

vars == <<open, done, used>>

Init == /\ open = {}
        /\ done = {}
        /\ used = [a \in Agents |-> 0]

\* An execution starts.
Start(a) ==
  /\ a \notin open \cup done
  /\ Deps[a] \subseteq done
  /\ used[a] <= RetryCount[a]
  /\ open' = open \cup {a}
  /\ used' = [used EXCEPT ![a] = @ + 1]
  /\ UNCHANGED done

\* The execution of a succeeds; others may be stopped for it (a budget).
Finish(a, stopped) ==
  /\ a \in open
  /\ open' = open \ ({a} \cup stopped)
  /\ done' = done \cup {a}
  /\ UNCHANGED used

\* Executions end without success: failures, timeouts, cancellations, expiry.
Abandon(stopped) ==
  /\ open' = open \ stopped
  /\ UNCHANGED <<done, used>>

Next == \/ \E a \in Agents : Start(a)
        \/ \E a \in Agents, S \in SUBSET Agents : Finish(a, S)
        \/ \E S \in SUBSET Agents : Abandon(S)

Spec == Init /\ [][Next]_vars
=============================================================================
