---------------------------- MODULE AgentLeases ----------------------------
(***************************************************************************)
(* What the goal coordinator promises about an agent's execution slot,      *)
(* with nothing of goals, queues or dependencies: an agent is leased to at  *)
(* most one run, or reserved by one external executor, each lease carries a *)
(* fencing token never issued before for that agent, and no lease outlives  *)
(* the daemon era it was granted in.  GoalCoordinator implements it.        *)
(***************************************************************************)
EXTENDS Naturals

CONSTANT Agents

VARIABLES leases,    \* per agent, the tokens a run executes under
          issued,    \* per agent, the last token issued
          reserved,  \* the agents an external executor has claimed
          era        \* the daemon lifetime

vars == <<leases, issued, reserved, era>>

TypeOK == /\ issued \in [Agents -> Nat]
          /\ leases \in [Agents -> SUBSET Nat]
          /\ reserved \in SUBSET Agents
          /\ era \in Nat

Init == /\ leases = [a \in Agents |-> {}]
        /\ issued = [a \in Agents |-> 0]
        /\ reserved = {}
        /\ era = 0

Free(a) == leases[a] = {} /\ a \notin reserved

Grant(a) == /\ Free(a)
            /\ issued' = [issued EXCEPT ![a] = @ + 1]
            /\ leases' = [leases EXCEPT ![a] = {issued[a] + 1}]
            /\ UNCHANGED <<reserved, era>>

\* One operation may take the lease of several agents (an expiry sweep).
Revoke(S) == /\ leases' = [a \in Agents |-> IF a \in S THEN {} ELSE leases[a]]
             /\ UNCHANGED <<issued, reserved, era>>

Reserve(a) == /\ Free(a)
              /\ reserved' = reserved \cup {a}
              /\ UNCHANGED <<leases, issued, era>>

Unreserve(a) == /\ a \in reserved
                /\ reserved' = reserved \ {a}
                /\ UNCHANGED <<leases, issued, era>>

\* A new daemon fences every lease of the old one; claims are durable.
Restart == /\ era' = era + 1
           /\ leases' = [a \in Agents |-> {}]
           /\ UNCHANGED <<issued, reserved>>

Next == \/ \E a \in Agents : Grant(a) \/ Reserve(a) \/ Unreserve(a)
        \/ \E S \in SUBSET Agents : Revoke(S)
        \/ Restart

Spec == Init /\ [][Next]_vars

-----------------------------------------------------------------------------

\* An agent executes for one holder at a time, and only under the newest
\* token: a run holding an older one has lost the agent for good.
Exclusive == \A a \in Agents : /\ leases[a] \subseteq {issued[a]}
                               /\ a \in reserved => leases[a] = {}

\* A token that is not in force comes into force only if it was never issued.
TokensAreFresh ==
  [][\A a \in Agents, t \in Nat :
        t \in leases'[a] /\ t \notin leases[a] => t > issued[a]]_vars
=============================================================================
