------------------------------ MODULE MCFeedback ------------------------------
(***************************************************************************)
(* A chain work -> gate -> publish whose last two nodes bounce the first   *)
(* when they fail, driven by one owner and one worker: what a bounce must  *)
(* reach is two consumers away.                                            *)
(***************************************************************************)
EXTENDS WorkGraph, TLC

CONSTANTS work, gate, publish, owner, ann

MCNodes  == {work, gate, publish}
MCAgents == {owner, ann}
Dependency(m, n) == [from |-> m, to |-> n, feedback |-> FALSE, condition |-> "Succeeded",
                     onOutcome |-> "None", bound |-> TRUE]
Bounce(m, n) == [from |-> m, to |-> n, feedback |-> TRUE, condition |-> "Failed",
                 onOutcome |-> "None", bound |-> FALSE]
MCEdges == {Dependency(work, gate), Dependency(gate, publish),
            Bounce(gate, work), Bounce(publish, work)}
MCMaxAttempts   == (work :> 2) @@ (gate :> 1) @@ (publish :> 1)
MCRequiredLevel == (work :> 0) @@ (gate :> 0) @@ (publish :> 0)
MCReviewNodes   == {}
MCReports ==
    {[status |-> "Succeeded", outcome |-> "Success", level |-> 0],
     [status |-> "Failed", outcome |-> "Failure", level |-> 0]}

=============================================================================
