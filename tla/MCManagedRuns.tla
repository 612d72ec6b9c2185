---------------------------- MODULE MCManagedRuns ----------------------------
(***************************************************************************)
(* One graph and its owner: `work` feeds the driver's `gate` and the       *)
(* owner's own `review`, and either of them bounces the work when it       *)
(* fails.  Only the work is capped: what bounds the gate is the budget of  *)
(* the run.                                                                *)
(***************************************************************************)
EXTENDS ManagedRuns, TLC

CONSTANTS plan, work, gate, review

Needs(m, n)   == [from |-> m, to |-> n, condition |-> "Succeeded", required |-> TRUE]
OnFailure(m, n) == [from |-> m, to |-> n, on |-> "Failed"]

MCNodes        == {work, gate, review}
MCDependencies == {Needs(work, gate), Needs(work, review)}
MCJoin         == [n \in MCNodes |-> [policy |-> "AllSucceeded", need |-> 0, of |-> 0]]
MCGraphOf      == [n \in MCNodes |-> plan]
MCManual       == {review}
MCBounces      == {OnFailure(gate, work), OnFailure(review, work)}
MCCap          == (work :> 2) @@ (gate :> 0) @@ (review :> 2)
=============================================================================
