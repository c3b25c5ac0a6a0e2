-------------------------- MODULE MCClarifications --------------------------
(***************************************************************************)
(* Two managers, one of them below the other, and a worker of each: a      *)
(* question of the second worker is listed for both managers.              *)
(***************************************************************************)
EXTENDS Clarifications
MCAgentOf ==
  [c \in Calls |-> IF c = "c1" THEN <<"m", "w">> ELSE <<"m", "sub", "w">>]
MCManagers == {<<"m">>, <<"m", "sub">>}
=============================================================================
