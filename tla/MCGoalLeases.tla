---------------------------- MODULE MCGoalLeases ----------------------------
(***************************************************************************)
(* Two goals that compete for one agent with an external executor: two      *)
(* attempts each, a retry safe goal behind an approval gate, and a restart. *)
(***************************************************************************)
EXTENDS GoalCoordinator

CONSTANTS p, x, a

MCTarget == p :> a @@ x :> a
MCClass  == p :> 1 @@ x :> 0
MCMaxAttempts == p :> 2 @@ x :> 2
MCPairs  == {<<p, x>>}
=============================================================================
