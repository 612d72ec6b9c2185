----------------------------- MODULE MCWorkGraph -----------------------------
(***************************************************************************)
(* A gate loop: `work` feeds `gate` its result, and a gate that fails      *)
(* bounces the work, handing it the verdict.                               *)
(***************************************************************************)
EXTENDS WorkGraph, TLC

CONSTANTS work, gate, owner, ann, bob

MCNodes  == {work, gate}
MCAgents == {owner, ann, bob}
MCEdges  ==
    {[from |-> work, to |-> gate, feedback |-> FALSE, condition |-> "Succeeded",
      onOutcome |-> "None", bound |-> TRUE],
     [from |-> gate, to |-> work, feedback |-> TRUE, condition |-> "Failed",
      onOutcome |-> "None", bound |-> TRUE]}
MCMaxAttempts   == (work :> 2) @@ (gate :> 1)
MCRequiredLevel == (work :> 0) @@ (gate :> 0)
MCReviewNodes   == {gate}
MCReports ==
    {[status |-> "Succeeded", outcome |-> "Success", level |-> 0],
     [status |-> "Failed", outcome |-> "Failure", level |-> 0]}

WorkerSymmetry == Permutations({ann, bob})
=============================================================================
