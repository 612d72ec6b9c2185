------------------------------ MODULE WorkGraph ------------------------------
(***************************************************************************)
(* One managed work graph of a Firmius session: crates/core/src/work/      *)
(* transition.rs with the parts of model.rs, readiness.rs and swarm.rs its *)
(* transitions call.  The state is the graph record (nodes, attempts,      *)
(* assignments), the bindings of agents to assignments, and the fences of  *)
(* the assignments.  One action is one WorkState operation applied by      *)
(* Session::mutate_work: the operation runs on a candidate, the candidate  *)
(* is validated and only then installed.  A refused operation is a stutter.*)
(*                                                                         *)
(* Abstractions.  An id is the place of the thing it names: attempt k of   *)
(* node n is the code's NodeAttempt with number = k, its result and its    *)
(* input manifest are fields of it, and assignment j of node n is the j-th *)
(* one made on n.  Topology is constant: Edges does not change.  Advisory  *)
(* file claims, resource claims and coordination are left out; so are      *)
(* revisions, which a caller that omits expected_revision always matches.  *)
(***************************************************************************)
EXTENDS Naturals, FiniteSets

CONSTANTS
    Nodes, Agents,
    Owner,          \* graph.owner_agent_id
    Edges,          \* the graph's edges
    MaxAttempts,    \* retry_policy.max_attempts of each node, 0 = no cap
    RequiredLevel,  \* WorkNode.verification of each node
    ReviewNodes,    \* nodes with review_policy.requires_independent_reviewer
    Reports,        \* what a settlement may report
    BlockFrom,      \* statuses from which callers ask for `block`
    MaxNumber,      \* bound: attempts of one node
    MaxHandoffs     \* bound: assignments of one node

Numbers  == 1..MaxNumber
Handoffs == 1..MaxHandoffs

(* ExecutionStatus, without Ready (WorkGraph::validate rejects it) and     *)
(* Skipped (nothing sets it).                                              *)
Settlements == {"Succeeded", "Failed", "Blocked", "Cancelled", "Interrupted"}
Statuses    == Settlements \cup {"Pending", "Running"}
Outcomes    == {"None", "Success", "Failure", "TestFailed", "Blocked",
                "Cancelled", "Interrupted", "Custom"}
Levels      == 0..3
Phases      == {"Active", "Succeeded", "Failed", "Cancelled", "Interrupted",
                "Superseded"}
Conditions  == {"Completed", "Succeeded", "Failed", "Blocked", "Outcome",
                "Verification"}

(* Work is handed to spawned children, never back to the owner.            *)
Workers == Agents \ {Owner}

Nobody == "nobody"
(* An attempt that was never opened, an assignment never made, and the     *)
(* absence of a result.                                                    *)
NoResult     == [status |-> "None", outcome |-> "None", level |-> 0,
                 producer |-> Nobody]
NoAttempt    == [state |-> "None", agent |-> Nobody, assignment |-> 0,
                 result |-> NoResult, inputs |-> {}]
NoAssignment == [attempt |-> 0, agent |-> Nobody, live |-> FALSE, notices |-> 0]
NoFence      == [phase |-> "None", generation |-> 0]

EdgeType == [from: Nodes, to: Nodes, feedback: BOOLEAN, condition: Conditions,
             onOutcome: Outcomes, bound: BOOLEAN]

ASSUME GraphAssumption ==
    /\ IsFiniteSet(Nodes) /\ Owner \in Agents /\ Nobody \notin Agents
    /\ Edges \subseteq EdgeType /\ \A e \in Edges : e.from # e.to
    /\ MaxAttempts \in [Nodes -> Nat] /\ RequiredLevel \in [Nodes -> Levels]
    /\ ReviewNodes \subseteq Nodes
    /\ BlockFrom \subseteq {"Pending", "Running", "Failed"}
    /\ MaxNumber \in Nat /\ MaxHandoffs \in Nat

ASSUME ReportAssumption ==
    Reports \subseteq [status: Settlements, outcome: Outcomes \ {"None"}, level: Levels]

VARIABLES
    graph,      \* WorkGraph: nodes, attempts, assignments
    bindings,   \* WorkState.active_binding_by_agent
    fences      \* SwarmState.assignment_fences

vars == <<graph, bindings, fences>>

-----------------------------------------------------------------------------
(* Reading a graph.                                                        *)

HasAttemptsLeft(g, n) ==
    MaxAttempts[n] = 0 \/ g.nodes[n].attempts < MaxAttempts[n]

LastAttempt(g, n) == g.attempts[n][g.nodes[n].attempts]

HasResult(g, n) == g.nodes[n].attempts > 0 /\ LastAttempt(g, n).result # NoResult

(* The result of n's last attempt as a set of at most one reference.       *)
LatestResult(g, n) ==
    IF HasResult(g, n) THEN {<<n, g.nodes[n].attempts>>} ELSE {}

LiveAssignments(g, n) == {j \in Handoffs : g.assignments[n][j].live}

(* live_assignee: `find` over a map keyed by random ids, so any live one,  *)
(* or 0 when there is none.                                                *)
LiveAssignee(g, n) ==
    IF LiveAssignments(g, n) = {} THEN {0} ELSE LiveAssignments(g, n)

AgentIsOccupied(a, n) ==
    \/ \E b \in bindings : b.agent = a /\ b.node # n
    \/ \E m \in Nodes \ {n} : \E j \in LiveAssignments(graph, m) :
          graph.assignments[m][j].agent = a

(* Owners act on every node, an assignee on the node it holds.             *)
Authorized(a, n) ==
    a = Owner \/ \E j \in LiveAssignments(graph, n) : graph.assignments[n][j].agent = a

ConditionHolds(g, e) ==
    LET p == g.nodes[e.from] IN
    CASE e.condition = "Completed"    -> TRUE
      [] e.condition = "Outcome"      -> IF e.onOutcome = "None" THEN p.outcome # "None"
                                         ELSE p.outcome = e.onOutcome
      [] e.condition = "Verification" ->
            RequiredLevel[e.from] <=
              (IF HasResult(g, e.from) THEN LastAttempt(g, e.from).result.level ELSE 0)
      [] OTHER                        -> p.status = e.condition

IsIndependentReviewer(g, n, a) ==
    (n \in ReviewNodes \/ RequiredLevel[n] = 3) =>
       \A e \in Edges : e.to = n /\ HasResult(g, e.from) =>
           LastAttempt(g, e.from).result.producer # a

(* freeze_manifest: the latest results of the bound predecessors.          *)
FreezeManifest(g, n) ==
    UNION {LatestResult(g, e.from) : e \in {d \in Edges : d.to = n /\ d.bound}}

-----------------------------------------------------------------------------
(* Feedback: a settlement re-opens the targets of its feedback edges and   *)
(* every settled node that consumed, directly or through others, a result  *)
(* that thereby became stale.                                              *)

Bounceable == {"Succeeded", "Failed", "Blocked", "Interrupted"}

Consumers(g, results) ==
    {n \in Nodes : \E k \in Numbers :
        g.attempts[n][k].result # NoResult /\ g.attempts[n][k].inputs \cap results # {}}

(* Mutation: a bounce that reaches direct consumers only.                  *)
StaleTargets(g, reopened) == UNION {LatestResult(g, n) : n \in reopened}

StaleResults(g, reopened) ==
    LET stale[i \in 0..Cardinality(Nodes)] ==
            IF i = 0 THEN UNION {LatestResult(g, n) : n \in reopened}
            ELSE stale[i-1] \cup
                 UNION {LatestResult(g, n) : n \in Consumers(g, stale[i-1])}
    IN  stale[Cardinality(Nodes)]

FeedbackTargets(g, n) ==
    {t \in Nodes : /\ g.nodes[t].status \in Bounceable
                   /\ HasAttemptsLeft(g, t)
                   /\ \E e \in Edges : /\ e.feedback /\ e.from = n /\ e.to = t
                                       /\ ConditionHolds(g, e)}

Reopened(g, n) ==
    LET targets == FeedbackTargets(g, n) IN
    targets \cup {c \in Consumers(g, StaleResults(g, targets)) :
                     g.nodes[c].status \in Bounceable}

FireFeedback(g, n) ==
    LET reopened == Reopened(g, n) IN
    [g EXCEPT !.nodes = [m \in Nodes |->
        IF m \in reopened
        THEN [g.nodes[m] EXCEPT !.status = "Pending", !.outcome = "None"]
        ELSE g.nodes[m]]]

-----------------------------------------------------------------------------
(* Steps of an operation, from graph to graph.                             *)

Claimable(g, n) ==
    /\ g.nodes[n].status \in {"Pending", "Failed"}
    /\ HasAttemptsLeft(g, n)
    /\ g.nodes[n].attempts < MaxNumber

(* Mutation: a retry that runs the last attempt again.                     *)
ReopenAttempt(g, n, a, j) ==
    LET k == IF g.nodes[n].attempts = 0 THEN 1 ELSE g.nodes[n].attempts IN
    [g EXCEPT !.nodes[n] = [status |-> "Running", outcome |-> "None", attempts |-> k],
              !.attempts[n][k] = [state |-> "Running", agent |-> a, assignment |-> j,
                                  result |-> NoResult,
                                  inputs |-> FreezeManifest(g, n)]]

OpenAttempt(g, n, a, j) ==
    LET k == g.nodes[n].attempts + 1 IN
    [g EXCEPT !.nodes[n] = [status |-> "Running", outcome |-> "None", attempts |-> k],
              !.attempts[n][k] = [state |-> "Running", agent |-> a, assignment |-> j,
                                  result |-> NoResult,
                                  inputs |-> FreezeManifest(g, n)]]

FreeHandoff(g, n) == {j \in Handoffs : /\ g.assignments[n][j] = NoAssignment
                                       /\ \A i \in 1..(j-1) : g.assignments[n][i] # NoAssignment}

AddAssignment(g, n, j, k, a) ==
    [g EXCEPT !.assignments[n][j] =
        [attempt |-> k, agent |-> a, live |-> TRUE, notices |-> 0]]

(* Mutation: a settlement that forgets released_at.                        *)
ReleaseNothing(g, n, j) == g

Release(g, n, j) ==
    IF j = 0 THEN g ELSE [g EXCEPT !.assignments[n][j] = [@ EXCEPT !.live = FALSE]]

(* An attempt changes hands: new agent, new assignment, a fresh manifest.  *)
(* Mutation: the attempt keeps its agent.                                  *)
PassOnAgentKept(g, n, w, j) ==
    LET k == g.nodes[n].attempts IN
    [Release(g, n, LastAttempt(g, n).assignment) EXCEPT
        !.attempts[n][k] = [@ EXCEPT !.assignment = j, !.inputs = FreezeManifest(g, n)]]

PassOn(g, n, w, j) ==
    LET k == g.nodes[n].attempts IN
    [Release(g, n, LastAttempt(g, n).assignment) EXCEPT
        !.attempts[n][k] = [@ EXCEPT !.agent = w, !.assignment = j,
                                     !.inputs = FreezeManifest(g, n)]]

Notify(g, n, j) ==
    LET told == g.assignments[n][j].notices + 1 IN
    [g EXCEPT !.assignments[n][j] = [@ EXCEPT !.notices = told]]

(* Attempt k of n ends as `report` says, and so does the node.             *)
(* Mutation: the node keeps its outcome.                                   *)
RecordStatusOnly(g, n, k, report, producer) ==
    LET result == [status |-> report.status, outcome |-> report.outcome,
                   level |-> report.level, producer |-> producer]
    IN  [g EXCEPT
           !.attempts[n][k] = [@ EXCEPT !.state = report.status, !.result = result],
           !.nodes[n] = [@ EXCEPT !.status = report.status]]

RecordResult(g, n, k, report, producer) ==
    LET result == [status |-> report.status, outcome |-> report.outcome,
                   level |-> report.level, producer |-> producer]
    IN  [g EXCEPT
           !.attempts[n][k] = [@ EXCEPT !.state = report.status, !.result = result],
           !.nodes[n] = [@ EXCEPT !.status = report.status, !.outcome = report.outcome]]

(* settle_node_in: what `complete` and `fail` do to one node.  h is the    *)
(* assignment live_assignee found, 0 for none.                             *)
MaySettle(g, n, h, a) ==
    /\ h # 0 => g.assignments[n][h].agent = a
    /\ IF g.nodes[n].status = "Running"
       THEN g.nodes[n].attempts > 0 /\ LastAttempt(g, n).result = NoResult
       ELSE Claimable(g, n)

SettleNodeIn(g, n, h, a, report) ==
    LET opened == IF g.nodes[n].status = "Running" THEN g ELSE OpenAttempt(g, n, a, 0)
        k      == opened.nodes[n].attempts
    IN  FireFeedback(
            Release(RecordResult(opened, n, k, report, opened.attempts[n][k].agent), n, h),
            n)

-----------------------------------------------------------------------------
(* Bindings and fences.                                                    *)

(* Mutation: the binding names the attempt before.                         *)
BindingBefore(a, n, k, j) ==
    [agent |-> a, node |-> n, attempt |-> k - 1, assignment |-> j]

Binding(a, n, k, j) == [agent |-> a, node |-> n, attempt |-> k, assignment |-> j]

Bind(a, n, k, j) ==
    bindings' = {b \in bindings : b.agent # a} \cup {Binding(a, n, k, j)}

(* Mutation: a settlement that forgets the binding.                        *)
UnbindNothing(S) == UNCHANGED bindings

UnbindNodes(S) == bindings' = {b \in bindings : b.node \notin S}

(* swarm_activate_assignment: a new generation of the attempt's fence      *)
(* supersedes the one that is active.                                      *)
OfAttempt(n, k) ==
    {i \in Handoffs : fences[n][i] # NoFence /\ graph.assignments[n][i].attempt = k}

(* Mutation: generations start over with each hand-off.                    *)
IsFirstGeneration(n, k, gen) == gen = 1

IsNextGeneration(n, k, gen) ==
    /\ \A i \in OfAttempt(n, k) : fences[n][i].generation < gen
    /\ gen = 1 \/ \E i \in OfAttempt(n, k) : gen = fences[n][i].generation + 1

Activate(n, j, k) ==
    \E gen \in Handoffs :
       /\ IsNextGeneration(n, k, gen)
       /\ fences' = [fences EXCEPT ![n] = [i \in Handoffs |->
            IF i = j THEN [phase |-> "Active", generation |-> gen]
            ELSE IF i \in OfAttempt(n, k) /\ fences[n][i].phase = "Active"
                 THEN [fences[n][i] EXCEPT !.phase = "Superseded"]
                 ELSE fences[n][i]]]

PhaseOf(status) ==
    IF status \in {"Succeeded", "Cancelled", "Interrupted"} THEN status ELSE "Failed"

(* Mutation: a settlement that forgets the fence.                          *)
CloseNothing(f, n, j, phase) == f

Close(f, n, j, phase) ==
    IF j # 0 /\ f[n][j].phase = "Active" THEN [f EXCEPT ![n][j].phase = phase] ELSE f

-----------------------------------------------------------------------------
(* The operations.                                                         *)

Init ==
    /\ graph = [nodes |-> [n \in Nodes |->
                             [status |-> "Pending", outcome |-> "None", attempts |-> 0]],
                attempts |-> [n \in Nodes |-> [k \in Numbers |-> NoAttempt]],
                assignments |-> [n \in Nodes |-> [j \in Handoffs |-> NoAssignment]]]
    /\ bindings = {}
    /\ fences = [n \in Nodes |-> [j \in Handoffs |-> NoFence]]

(* `task start`: the caller works the node itself.                         *)
Start(a, n) ==
    /\ Authorized(a, n) /\ Claimable(graph, n)
    /\ graph' = OpenAttempt(graph, n, a, 0)
    /\ UNCHANGED <<bindings, fences>>

(* `delegate` of an unclaimed node, the driver's claim and the scheduler's:*)
(* all of them act as the owner, who is the assignee's parent.             *)
Assign(n, w) ==
    /\ ~AgentIsOccupied(w, n)
    /\ IsIndependentReviewer(graph, n, w)
    /\ Claimable(graph, n)
    /\ \E j \in FreeHandoff(graph, n) :
         LET k == graph.nodes[n].attempts + 1 IN
         /\ graph' = AddAssignment(OpenAttempt(graph, n, w, j), n, j, k, w)
         /\ Bind(w, n, k, j)
         /\ Activate(n, j, k)

(* `delegate` of a running node: its open attempt changes hands.           *)
Reassign(n, w) ==
    LET k   == graph.nodes[n].attempts
        cur == LastAttempt(graph, n)
        old == cur.assignment
    IN
    /\ ~AgentIsOccupied(w, n)
    /\ IsIndependentReviewer(graph, n, w)
    /\ graph.nodes[n].status = "Running" /\ k > 0
    /\ cur.result = NoResult /\ cur.state = "Running"
    /\ old # 0 /\ graph.assignments[n][old].live => graph.assignments[n][old].agent # w
    /\ \E j \in FreeHandoff(graph, n) :
         /\ graph' = AddAssignment(PassOn(graph, n, w, j), n, j, k, w)
         /\ bindings' = {b \in bindings : b.agent # w /\ b.node # n}
                          \cup {Binding(w, n, k, j)}
         /\ Activate(n, j, k)

(* A worker's final report, or its natural termination.                    *)
SettleAssignment(n, j, report) ==
    LET asg == graph.assignments[n][j]
        cur == graph.attempts[n][asg.attempt]
    IN
    /\ asg.live
    /\ cur.result = NoResult /\ cur.state = "Running"
    /\ graph' = Notify(
                  FireFeedback(
                    Release(RecordResult(graph, n, asg.attempt, report, asg.agent), n, j),
                    n),
                  n, j)
    /\ bindings' = {b \in bindings : ~(b.node = n /\ b.assignment = j)}
    /\ fences' = Close(fences, n, j, PhaseOf(report.status))

(* `task fail`.                                                            *)
Fail(a, n, report) ==
    /\ Authorized(a, n) /\ report.status = "Failed"
    /\ \E h \in LiveAssignee(graph, n) :
         /\ MaySettle(graph, n, h, a)
         /\ graph' = SettleNodeIn(graph, n, h, a, report)
         /\ UnbindNodes({n})
         /\ fences' = Close(fences, n, h, "Failed")

CloseAll(S) ==
    fences' = [n \in Nodes |-> [j \in Handoffs |->
        IF n \in S /\ j \in LiveAssignments(graph, n) /\ fences[n][j].phase = "Active"
        THEN [fences[n][j] EXCEPT !.phase = "Succeeded"] ELSE fences[n][j]]]

(* `task complete` of one node.                                            *)
Complete(a, n, report) ==
    /\ Authorized(a, n) /\ report.status = "Succeeded" /\ report.outcome = "Success"
    /\ \E h \in LiveAssignee(graph, n) :
         /\ MaySettle(graph, n, h, a)
         /\ graph' = SettleNodeIn(graph, n, h, a, report)
         /\ UnbindNodes({n})
         /\ CloseAll({n})

(* `task complete` of two nodes in one revision: the second is settled in  *)
(* the graph the first one, and the feedback it fired, left behind.        *)
CompleteBatch(a, m, n, report) ==
    /\ m # n /\ Authorized(a, m) /\ Authorized(a, n)
    /\ report.status = "Succeeded" /\ report.outcome = "Success"
    /\ \E h \in LiveAssignee(graph, m), i \in LiveAssignee(graph, n) :
         LET first == SettleNodeIn(graph, m, h, a, report) IN
         /\ MaySettle(graph, m, h, a) /\ MaySettle(first, n, i, a)
         /\ graph' = SettleNodeIn(first, n, i, a, report)
         /\ UnbindNodes({m, n})
         /\ CloseAll({m, n})

SetStatus(n, status, out) ==
    graph' = [graph EXCEPT !.nodes[n] = [@ EXCEPT !.status = status, !.outcome = out]]

Block(a, n) ==
    /\ Authorized(a, n) /\ graph.nodes[n].status \in BlockFrom
    /\ SetStatus(n, "Blocked", "Blocked")
    /\ UNCHANGED <<bindings, fences>>

Unblock(a, n) ==
    /\ Authorized(a, n) /\ graph.nodes[n].status = "Blocked"
    /\ SetStatus(n, "Pending", "None")
    /\ UNCHANGED <<bindings, fences>>

Retry(a, n) ==
    /\ Authorized(a, n)
    /\ graph.nodes[n].status \in {"Failed", "Interrupted", "Cancelled"}
    /\ HasAttemptsLeft(graph, n)
    /\ SetStatus(n, "Pending", "None")
    /\ UNCHANGED <<bindings, fences>>

CancelIdle(a, n) ==
    /\ Authorized(a, n) /\ graph.nodes[n].status \in {"Pending", "Blocked", "Failed"}
    /\ SetStatus(n, "Cancelled", "Cancelled")
    /\ UNCHANGED <<bindings, fences>>

(* Mutation: a cancel that marks the node only.                            *)
CancelNodeOnly(a, n) ==
    /\ Authorized(a, n) /\ graph.nodes[n].status = "Running"
    /\ SetStatus(n, "Cancelled", "Cancelled")
    /\ UNCHANGED <<bindings, fences>>

CancelRunning(a, n) ==
    LET k == graph.nodes[n].attempts
        cur == LastAttempt(graph, n)
        cancelled == [status |-> "Cancelled", outcome |-> "Cancelled", level |-> 0]
    IN
    /\ Authorized(a, n) /\ graph.nodes[n].status = "Running" /\ k > 0
    /\ graph' = Release(RecordResult(graph, n, k, cancelled, cur.agent), n, cur.assignment)
    /\ UnbindNodes({n})
    /\ fences' = Close(fences, n, cur.assignment, "Cancelled")

Cancel(a, n) == CancelIdle(a, n) \/ CancelRunning(a, n)

(* reconcile_interrupted, run when a session is loaded after a restart and *)
(* when a run is parked.  The candidate is installed without `validate`.   *)
Interrupted(n, k) == graph.attempts[n][k].state = "Running"

LeftBehind(n) ==
    {j \in Handoffs : \E k \in Numbers :
        /\ Interrupted(n, k) /\ graph.attempts[n][k].result = NoResult
        /\ graph.attempts[n][k].assignment = j}

InterruptedResult == [status |-> "Interrupted", outcome |-> "Interrupted", level |-> 0,
                      producer |-> Nobody]

Reconcile ==
    /\ \E n \in Nodes : \/ graph.nodes[n].status = "Running"
                        \/ \E k \in Numbers : Interrupted(n, k)
    /\ graph' = [nodes |-> [n \in Nodes |->
                    IF graph.nodes[n].status = "Running"
                    THEN [graph.nodes[n] EXCEPT !.status = "Interrupted",
                                                !.outcome = "Interrupted"]
                    ELSE graph.nodes[n]],
                 attempts |-> [n \in Nodes |-> [k \in Numbers |->
                    IF ~Interrupted(n, k) THEN graph.attempts[n][k]
                    ELSE [graph.attempts[n][k] EXCEPT
                            !.state = "Interrupted",
                            !.result = IF @ = NoResult /\ graph.attempts[n][k].assignment # 0
                                       THEN InterruptedResult ELSE @]]],
                 assignments |-> [n \in Nodes |-> [j \in Handoffs |->
                    IF j \in LeftBehind(n)
                    THEN [graph.assignments[n][j] EXCEPT !.live = FALSE, !.notices = @ + 1]
                    ELSE graph.assignments[n][j]]]]
    /\ bindings' = {}
    /\ fences' = [n \in Nodes |-> [j \in Handoffs |->
                    IF j \in LeftBehind(n) /\ fences[n][j].phase = "Active"
                    THEN [fences[n][j] EXCEPT !.phase = "Interrupted"]
                    ELSE fences[n][j]]]

-----------------------------------------------------------------------------
(* WorkState::validate and validate_swarm: bindings and live assignments   *)
(* are the same thing seen from two sides, an agent holds at most one, and *)
(* an active fence guards an unreleased assignment.                        *)
Valid ==
    /\ \A b \in bindings :
          LET asg == graph.assignments[b.node][b.assignment] IN
          asg.live /\ asg.agent = b.agent /\ asg.attempt = b.attempt
    /\ \A n \in Nodes, j \in Handoffs :
          LET asg == graph.assignments[n][j] IN
          asg.live => Binding(asg.agent, n, asg.attempt, j) \in bindings
    /\ \A b, c \in bindings : b.agent = c.agent => b = c
    /\ \A n \in Nodes, j \in Handoffs :
          fences[n][j].phase = "Active" => graph.assignments[n][j].live

Operation ==
    \/ \E a \in Agents, n \in Nodes :
          Start(a, n) \/ Block(a, n) \/ Unblock(a, n) \/ Retry(a, n) \/ Cancel(a, n)
    \/ \E n \in Nodes, w \in Workers : Assign(n, w) \/ Reassign(n, w)
    \/ \E n \in Nodes, j \in Handoffs, r \in Reports : SettleAssignment(n, j, r)
    \/ \E a \in Agents, n \in Nodes, r \in Reports : Fail(a, n, r) \/ Complete(a, n, r)
    \/ \E a \in Agents, m, n \in Nodes, r \in Reports : CompleteBatch(a, m, n, r)

(* mutate_work refuses a candidate that does not validate.                 *)
Next == (Operation /\ Valid') \/ Reconcile

Spec == Init /\ [][Next]_vars

(* The same operations without that last check.                            *)
UncheckedSpec == Init /\ [][Operation \/ Reconcile]_vars
-----------------------------------------------------------------------------
(* Types.                                                                  *)
NodeType    == [status: Statuses, outcome: Outcomes, attempts: 0..MaxNumber]
ResultType  == [status: Settlements \cup {"None"}, outcome: Outcomes, level: Levels,
                producer: Agents \cup {Nobody}]
AttemptType == [state: Settlements \cup {"None", "Running"}, agent: Agents \cup {Nobody},
                assignment: 0..MaxHandoffs, result: ResultType,
                inputs: SUBSET (Nodes \X Numbers)]
AssignmentType == [attempt: 0..MaxNumber, agent: Agents \cup {Nobody}, live: BOOLEAN,
                   notices: Nat]
GraphType   == [nodes: [Nodes -> NodeType],
                attempts: [Nodes -> [Numbers -> AttemptType]],
                assignments: [Nodes -> [Handoffs -> AssignmentType]]]
FenceType   == [phase: Phases \cup {"None"}, generation: Nat]
BindingType == [agent: Workers, node: Nodes, attempt: Numbers, assignment: Handoffs]

(* The shape of the state: every field of the graph, the bindings and the  *)
(* fences holds a value the code's types allow.                            *)
TypeOK ==
    /\ graph \in GraphType
    /\ bindings \subseteq BindingType
    /\ fences \in [Nodes -> [Handoffs -> FenceType]]

(* The properties below, down to BounceReachesConsumers, are about callers *)
(* that never block a running node; CancelLeavesNothing is what breaks     *)
(* first when they do.                                                     *)

RunningAttempts(n) == {k \in Numbers : graph.attempts[n][k].state = "Running"}

(* A node that runs has exactly one attempt running, its last, and a node  *)
(* that does not run has none: whatever is started, handed off, settled,   *)
(* bounced, cancelled, retried or interrupted.  This is what has_running   *)
(* and the scheduler's capacity count rely on.                             *)
ExclusiveAttempt ==
    \A n \in Nodes :
        RunningAttempts(n) = IF graph.nodes[n].status = "Running"
                             THEN {graph.nodes[n].attempts} ELSE {}

(* An unreleased assignment is the current one of an attempt that runs     *)
(* unsettled in its agent's name, and it is the one the fence guards: no   *)
(* live assignment outlives its attempt, and no fence outlives it.         *)
LiveAssignmentOwnsAttempt ==
    \A n \in Nodes, j \in Handoffs :
        LET asg == graph.assignments[n][j]
            att == graph.attempts[n][asg.attempt]
        IN  /\ asg.live <=> fences[n][j].phase = "Active"
            /\ asg.live => /\ asg.attempt \in Numbers
                           /\ att.state = "Running" /\ att.result = NoResult
                           /\ att.assignment = j /\ att.agent = asg.agent

(* A node that reads Succeeded or Failed got that from the result of its   *)
(* latest attempt, outcome included: what readiness decides from the       *)
(* status and what it decides from the result cannot contradict each other.*)
StatusAgreesWithVerdict ==
    \A n \in Nodes :
        graph.nodes[n].status \in {"Succeeded", "Failed"} =>
            /\ HasResult(graph, n)
            /\ LastAttempt(graph, n).result.status = graph.nodes[n].status
            /\ LastAttempt(graph, n).result.outcome = graph.nodes[n].outcome

(* Among the assignments an attempt went through, a later one has a higher *)
(* generation, and only the last can be active: a writer that kept its old *)
(* token after a hand-off is told apart (settle_assignment_fenced).        *)
LaterHandoffOutranks ==
    \A n \in Nodes, i, j \in Handoffs :
        /\ i < j /\ graph.assignments[n][j].attempt # 0
        /\ graph.assignments[n][i].attempt = graph.assignments[n][j].attempt
        => /\ fences[n][i].generation < fences[n][j].generation
           /\ fences[n][i].phase # "Active"

(* A result names as its producer the agent that held the attempt when it  *)
(* settled, and when the attempt was assigned, the holder of its last      *)
(* assignment: after a hand-off the previous holder can no longer answer.  *)
ProducerHeldTheAttempt ==
    \A n \in Nodes, k \in Numbers :
        LET att == graph.attempts[n][k] IN
        att.result.producer # Nobody =>
            /\ att.result.producer = att.agent
            /\ att.assignment # 0 =>
                 graph.assignments[n][att.assignment].agent = att.agent

(* The parent hears at most once of an assignment, only after it was       *)
(* released, and only with the result of an attempt that it still was the  *)
(* current assignment of.                                                  *)
NotifiedOnce ==
    \A n \in Nodes, j \in Handoffs :
        LET asg == graph.assignments[n][j]
            att == graph.attempts[n][asg.attempt]
        IN  asg.notices # 0 =>
                /\ asg.notices = 1 /\ ~asg.live
                /\ att.assignment = j /\ att.result # NoResult

(* History is immutable: once an attempt has its result, no later          *)
(* settlement, hand-off, cancellation, retry or restart touches it.        *)
ResultsAreFinal ==
    [][\A n \in Nodes, k \in Numbers :
          graph.attempts[n][k].result # NoResult =>
              graph'.attempts[n][k] = graph.attempts[n][k]]_vars

SettledNow ==
    {n \in Nodes : \E k \in Numbers : /\ graph.attempts[n][k].result = NoResult
                                      /\ graph'.attempts[n][k].result # NoResult}

(* When a settlement re-opens a node, no settled node is left standing on  *)
(* the result that was bounced: every consumer of it is open again, and    *)
(* the consumers of those.  (A batch settles its nodes one after the other *)
(* and may complete a node it re-opened; the property is about one.)       *)
BounceReachesConsumers ==
    [][Cardinality(SettledNow) = 1 =>
         \A m, c \in Nodes :
            /\ graph.nodes[m].status \in Bounceable
            /\ graph'.nodes[m].status = "Pending"
            /\ c \in Consumers(graph', LatestResult(graph', m))
            => graph'.nodes[c].status \notin Bounceable]_vars

(* The doc of `cancel`: "a cancelled node can never leave a stranded       *)
(* running attempt or an open assignment behind".                          *)
CancelLeavesNothing ==
    \A n \in Nodes : graph.nodes[n].status = "Cancelled" =>
        RunningAttempts(n) = {} /\ LiveAssignments(graph, n) = {}
=============================================================================
