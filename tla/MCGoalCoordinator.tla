------------------------- MODULE MCGoalCoordinator -------------------------
(***************************************************************************)
(* Three goals for two agents: p and x share agent a, so p can only wait    *)
(* for x by yielding, y runs on agent b, and either of p and x may be made  *)
(* to wait for the other.                                                   *)
(***************************************************************************)
EXTENDS GoalCoordinator

CONSTANTS p, x, y, a, b

MCTarget == p :> a @@ x :> a @@ y :> b
MCClass  == p :> 1 @@ x :> 0 @@ y :> 1
MCMaxAttempts == p :> 1 @@ x :> 1 @@ y :> 1
MCPairs  == {<<p, x>>, <<p, y>>, <<x, p>>}
=============================================================================
