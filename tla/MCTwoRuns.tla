----------------------------- MODULE MCTwoRuns -----------------------------
(***************************************************************************)
(* Two owners of one session, each with a managed run of one node.         *)
(***************************************************************************)
EXTENDS ManagedRuns

CONSTANTS left, right, m, n

MCNodes   == {m, n}
MCJoin    == [x \in MCNodes |-> [policy |-> "AllSucceeded", need |-> 0, of |-> 0]]
MCGraphOf == [x \in MCNodes |-> IF x = m THEN left ELSE right]
MCCap     == [x \in MCNodes |-> 1]
=============================================================================
