------------------------------ MODULE Readiness ------------------------------
(***************************************************************************)
(* Which pending nodes of a graph may start: the pure functions of         *)
(* crates/core/src/work/readiness.rs, over the statuses of the nodes.      *)
(* Edge conditions that look at an outcome or a verification level are in  *)
(* WorkGraph!ConditionHolds; here an edge asks for a status.  Feedback     *)
(* edges are not dependencies and are not among Dependencies.              *)
(***************************************************************************)
EXTENDS Naturals, FiniteSets

CONSTANTS
    Nodes,
    Dependencies,   \* records [from, to, condition, required]
    Join            \* the join policy of each node: [policy, need, of]

DependencyType == [from: Nodes, to: Nodes, required: BOOLEAN,
                   condition: {"Completed", "Succeeded", "Failed", "Blocked"}]
JoinType == [policy: {"AllSucceeded", "AllSettled", "AnySucceeded", "MinimumSucceeded",
                      "Quorum"}, need: Nat, of: Nat]

ASSUME ReadinessAssumption ==
    /\ IsFiniteSet(Nodes)
    /\ Dependencies \subseteq DependencyType /\ Join \in [Nodes -> JoinType]

Into(n) == {e \in Dependencies : e.to = n}

IsSettled(s) == s \in {"Succeeded", "Failed", "Cancelled", "Interrupted", "Blocked"}

IsMet(status, e) == e.condition = "Completed" \/ status[e.from] = e.condition

(* evaluate_node's counters, as sets of edges.                             *)
SettledInto(status, n) == {e \in Into(n) : IsSettled(status[e.from])}
MetInto(status, n)     == {e \in SettledInto(status, n) : IsMet(status, e)}
RequiredInto(n)        == {e \in Into(n) : e.required}
IsPending(status, n)   == ~(RequiredInto(n) \subseteq SettledInto(status, n))

(* The verdict on a node with incoming edges: Ready, Waiting or Blocked.   *)
Verdict(isReady, mayWait) ==
    IF isReady THEN "Ready" ELSE IF mayWait THEN "Waiting" ELSE "Blocked"

EvaluateNode(status, n) ==
    LET join    == Join[n]
        met     == Cardinality(MetInto(status, n))
        settled == Cardinality(SettledInto(status, n))
        pending == IsPending(status, n)
        out     == IF settled < join.of THEN join.of - settled ELSE 0
    IN
    CASE join.policy = "AllSucceeded" ->
            Verdict(RequiredInto(n) \subseteq MetInto(status, n), pending)
      [] join.policy = "AllSettled"   -> Verdict(~pending, TRUE)
      [] join.policy = "AnySucceeded" -> Verdict(met > 0, pending)
      [] join.policy = "MinimumSucceeded" -> Verdict(met >= join.need, pending)
      [] join.policy = "Quorum" -> Verdict(met >= join.need, met + out >= join.need)

(* evaluate_readiness: a pending node without dependencies is ready.       *)
IsReady(status, n) ==
    /\ status[n] = "Pending"
    /\ Into(n) = {} \/ EvaluateNode(status, n) = "Ready"
=============================================================================
