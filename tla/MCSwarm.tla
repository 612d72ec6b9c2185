-------------------------------- MODULE MCSwarm --------------------------------
(***************************************************************************)
(* Two agents on two attempts, one of which may be handed over; one of the  *)
(* agents edits, and so does another session.                               *)
(***************************************************************************)
EXTENDS SwarmEdits, TLC

CONSTANTS x, y, f, g, inner, outer

MCAttemptOf == 1 :> 1 @@ 2 :> 1 @@ 3 :> 2
MCAgentOf   == inner :> x @@ outer :> Nobody
MCResources == {[files |-> {f}, access |-> "mutate"],
                [files |-> {f, g}, access |-> "inspect"]}
=============================================================================
