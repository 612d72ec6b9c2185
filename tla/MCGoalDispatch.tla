--------------------------- MODULE MCGoalDispatch ---------------------------
(***************************************************************************)
(* Two goals of one agent.  p, which has a second attempt, may park on x or *)
(* be made to wait for it.                                                  *)
(***************************************************************************)
EXTENDS GoalDispatch

CONSTANTS p, x, a

MCTarget == p :> a @@ x :> a
MCClass  == p :> 1 @@ x :> 0
MCMaxAttempts == p :> 2 @@ x :> 1
MCPairs  == {<<p, x>>}
=============================================================================
