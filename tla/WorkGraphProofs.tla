--------------------------- MODULE WorkGraphProofs ---------------------------
(***************************************************************************)
(* Proofs about WorkGraph.  The inductive invariant Inv has two parts:     *)
(* what a graph by itself satisfies (GraphInv, node by node) and what ties *)
(* the bindings and the fences to it (Linked).  A lemma per helper says    *)
(* what the helper changes; GraphInv is then followed through them, so     *)
(* that a batch is two uses of the lemma about one settlement.             *)
(* Three parts follow: safety and history, from Inv alone; hand-offs, from *)
(* a second invariant relative to it (Handed); and bounces, for which the  *)
(* rounds of StaleResults are shown to reach a fixed point.                *)
(***************************************************************************)
EXTENDS WorkGraph, TLAPS, NaturalsInduction, WellFoundedInduction,
        FiniteSetTheorems

(* ExclusiveAttempt and StatusAgreesWithVerdict of one node of a graph,    *)
(* and the parts that make them inductive: what runs has no result yet,    *)
(* what was never opened is blank, a live assignment and the attempt it is *)
(* for name each other.                                                    *)
Exclusive(g, n) ==
    \A k \in Numbers :
        g.attempts[n][k].state = "Running" <=>
            g.nodes[n].status = "Running" /\ k = g.nodes[n].attempts

RunningOpened(g, n) ==
    g.nodes[n].status = "Running" => g.nodes[n].attempts \in Numbers

RunningUnsettled(g, n) ==
    \A k \in Numbers :
        g.attempts[n][k].state = "Running" => g.attempts[n][k].result = NoResult

UnopenedBlank(g, n) ==
    \A k \in Numbers :
        k > g.nodes[n].attempts => g.attempts[n][k] = NoAttempt

LiveOwns(g, n) ==
    \A j \in Handoffs :
        g.assignments[n][j].live =>
            /\ g.assignments[n][j].attempt \in Numbers
            /\ g.attempts[n][g.assignments[n][j].attempt].state = "Running"
            /\ g.attempts[n][g.assignments[n][j].attempt].assignment = j
            /\ g.attempts[n][g.assignments[n][j].attempt].agent = g.assignments[n][j].agent

RunningHeld(g, n) ==
    \A k \in Numbers :
        g.attempts[n][k].state = "Running" /\ g.attempts[n][k].assignment # 0 =>
            /\ g.assignments[n][g.attempts[n][k].assignment].live
            /\ g.assignments[n][g.attempts[n][k].assignment].attempt = k

VerdictAgrees(g, n) ==
    g.nodes[n].status \in {"Succeeded", "Failed"} =>
        /\ g.nodes[n].attempts \in Numbers
        /\ LastAttempt(g, n).result # NoResult
        /\ LastAttempt(g, n).result.status = g.nodes[n].status
        /\ LastAttempt(g, n).result.outcome = g.nodes[n].outcome

NodeInv(g, n) ==
    /\ Exclusive(g, n) /\ RunningOpened(g, n) /\ RunningUnsettled(g, n)
    /\ UnopenedBlank(g, n) /\ LiveOwns(g, n) /\ RunningHeld(g, n)
    /\ VerdictAgrees(g, n)

GraphInv(g) == g \in GraphType /\ \A n \in Nodes : NodeInv(g, n)

(* ResultsAreFinal, from one graph to another.                             *)
Final(g, h) ==
    \A n \in Nodes, k \in Numbers :
        g.attempts[n][k].result # NoResult => h.attempts[n][k] = g.attempts[n][k]

(* h is g once attempt k of n has got the result r in the name of p.       *)
Recorded(g, h, n, k, r, p) ==
    /\ h \in GraphType
    /\ h.assignments = g.assignments
    /\ \A m \in Nodes : m # n => h.nodes[m] = g.nodes[m]
    /\ h.nodes[n].status = r.status /\ h.nodes[n].outcome = r.outcome
    /\ h.nodes[n].attempts = g.nodes[n].attempts
    /\ \A m \in Nodes, i \in Numbers :
         ~(m = n /\ i = k) => h.attempts[m][i] = g.attempts[m][i]
    /\ h.attempts[n][k].state = r.status
    /\ h.attempts[n][k].result = [status |-> r.status, outcome |-> r.outcome,
                                  level |-> r.level, producer |-> p]

(* The invariant and the results survive from g to h, and n alone lost the *)
(* assignments that were live on it.                                       *)
Ended(g, h, n) ==
    /\ GraphInv(h) /\ Final(g, h)
    /\ \A m \in Nodes, i \in Handoffs :
         /\ h.assignments[m][i].live <=> g.assignments[m][i].live /\ m # n
         /\ h.assignments[m][i].agent = g.assignments[m][i].agent
         /\ h.assignments[m][i].attempt = g.assignments[m][i].attempt

(* The invariant and the results survive from g to h, and assignment j to  *)
(* w, for attempt k, is the live one of n.                                 *)
HandedTo(g, h, n, w, j, k) ==
    /\ GraphInv(h) /\ Final(g, h) /\ k \in Numbers
    /\ \A m \in Nodes, i \in Handoffs :
         m # n => h.assignments[m][i] = g.assignments[m][i]
    /\ \A i \in Handoffs : h.assignments[n][i].live <=> i = j
    /\ h.assignments[n][j].agent = w /\ h.assignments[n][j].attempt = k

(* What a settlement may say of an attempt, and in whose name.             *)
ReportType == [status: Settlements, outcome: Outcomes, level: Levels]
Producers  == Agents \cup {Nobody}

(* What a node becomes without a result.                                   *)
SetAside == {"Pending", "Blocked", "Cancelled"}

-----------------------------------------------------------------------------
(* What the helpers do.                                                    *)

(* A frozen manifest holds references to results that exist.               *)
LEMMA ManifestType ==
    ASSUME NEW g \in GraphType, NEW n \in Nodes
    PROVE  FreezeManifest(g, n) \in SUBSET (Nodes \X Numbers)
<1>1. ASSUME NEW m \in Nodes PROVE LatestResult(g, m) \in SUBSET (Nodes \X Numbers)
  <2>1. g.nodes[m].attempts \in 0..MaxNumber
    BY DEF GraphType, NodeType
  <2>2. CASE HasResult(g, m)
    <3>1. g.nodes[m].attempts \in Numbers
      BY <2>1, <2>2, GraphAssumption DEF HasResult, Numbers
    <3> QED BY <2>2, <3>1 DEF LatestResult
  <2>3. CASE ~HasResult(g, m)
    BY <2>3 DEF LatestResult
  <2> QED BY <2>2, <2>3
<1>2. \A e \in Edges : e.from \in Nodes
  BY GraphAssumption DEF EdgeType
<1> QED BY <1>1, <1>2 DEF FreezeManifest

(* Opening an attempt touches one node and the next free attempt of it.    *)
LEMMA OpenEffect ==
    ASSUME NEW g \in GraphType, NEW n \in Nodes, g.nodes[n].attempts < MaxNumber,
           NEW a \in Agents, NEW j \in 0..MaxHandoffs
    PROVE  LET h == OpenAttempt(g, n, a, j)
               k == g.nodes[n].attempts + 1
           IN  /\ h \in GraphType /\ k \in Numbers
               /\ h.assignments = g.assignments
               /\ \A m \in Nodes : h.nodes[m] =
                    IF m = n THEN [status |-> "Running", outcome |-> "None", attempts |-> k]
                    ELSE g.nodes[m]
               /\ \A m \in Nodes, i \in Numbers : h.attempts[m][i] =
                    IF m = n /\ i = k
                    THEN [state |-> "Running", agent |-> a, assignment |-> j,
                          result |-> NoResult, inputs |-> FreezeManifest(g, n)]
                    ELSE g.attempts[m][i]
<1> DEFINE k == g.nodes[n].attempts + 1
           node == [status |-> "Running", outcome |-> "None", attempts |-> k]
           att == [state |-> "Running", agent |-> a, assignment |-> j,
                   result |-> NoResult, inputs |-> FreezeManifest(g, n)]
           h == OpenAttempt(g, n, a, j)
<1>1. k \in Numbers /\ k \in 0..MaxNumber
  BY GraphAssumption DEF GraphType, NodeType, Numbers
<1>2. node \in NodeType
  BY <1>1 DEF NodeType, Statuses, Outcomes
<1>3. att \in AttemptType
  BY ManifestType DEF AttemptType, NoResult, ResultType, Outcomes, Levels
<1>4. h = [g EXCEPT !.nodes[n] = node, !.attempts[n][k] = att]
  BY DEF OpenAttempt
<1> HIDE DEF h, node, att, k
<1>5. /\ h \in GraphType /\ h.assignments = g.assignments
      /\ \A m \in Nodes : h.nodes[m] = IF m = n THEN node ELSE g.nodes[m]
      /\ \A m \in Nodes, i \in Numbers :
            h.attempts[m][i] = IF m = n /\ i = k THEN att ELSE g.attempts[m][i]
  BY <1>1, <1>2, <1>3, <1>4 DEF GraphType
<1> QED BY <1>1, <1>5 DEF h, node, att, k

(* Recording a result touches one attempt and the verdict of its node.     *)
LEMMA RecordEffect ==
    ASSUME NEW g \in GraphType, NEW n \in Nodes, NEW k \in Numbers,
           NEW r \in ReportType,
           NEW p \in Producers
    PROVE  Recorded(g, RecordResult(g, n, k, r, p), n, k, r, p)
<1> DEFINE res == [status |-> r.status, outcome |-> r.outcome, level |-> r.level,
                   producer |-> p]
           att == [g.attempts[n][k] EXCEPT !.state = r.status, !.result = res]
           node == [g.nodes[n] EXCEPT !.status = r.status, !.outcome = r.outcome]
           h == RecordResult(g, n, k, r, p)
<1>1. res \in ResultType
  BY DEF ResultType, ReportType, Producers
<1>2. h = [g EXCEPT !.attempts[n][k] = att, !.nodes[n] = node]
  BY DEF RecordResult
<1>3. /\ r.status \in Statuses /\ r.status \in Settlements \cup {"None", "Running"}
      /\ r.outcome \in Outcomes
  BY DEF ReportType, Statuses
<1>4. att \in AttemptType /\ att.state = r.status /\ att.result = res
  <2> HIDE DEF res
  <2>1. g.attempts[n][k] \in AttemptType
    BY DEF GraphType
  <2> QED BY <1>1, <1>3, <2>1 DEF AttemptType
<1>5. /\ node \in NodeType /\ node.status = r.status /\ node.outcome = r.outcome
      /\ node.attempts = g.nodes[n].attempts
  <2>1. g.nodes[n] \in NodeType
    BY DEF GraphType
  <2> QED BY <1>3, <2>1 DEF NodeType
<1> HIDE DEF h, att, node, res
<1>6. /\ h \in GraphType /\ h.assignments = g.assignments
      /\ \A m \in Nodes : h.nodes[m] = IF m = n THEN node ELSE g.nodes[m]
      /\ \A m \in Nodes, i \in Numbers :
            h.attempts[m][i] = IF m = n /\ i = k THEN att ELSE g.attempts[m][i]
  BY <1>2, <1>4, <1>5 DEF GraphType
<1> QED BY <1>4, <1>5, <1>6 DEF Recorded, h, res

(* Releasing an assignment touches nothing else of the graph.              *)
LEMMA ReleaseEffect ==
    ASSUME NEW g \in GraphType, NEW n \in Nodes, NEW j \in 0..MaxHandoffs
    PROVE  LET h == Release(g, n, j) IN
           /\ h \in GraphType
           /\ h.nodes = g.nodes /\ h.attempts = g.attempts
           /\ \A m \in Nodes, i \in Handoffs : h.assignments[m][i] =
                IF m = n /\ i = j THEN [g.assignments[n][j] EXCEPT !.live = FALSE]
                ELSE g.assignments[m][i]
<1> DEFINE asg == [g.assignments[n][j] EXCEPT !.live = FALSE]
           h == Release(g, n, j)
<1>1. CASE j = 0
  BY <1>1 DEF Release, Handoffs
<1>2. CASE j # 0
  <2>1. j \in Handoffs
    BY <1>2, GraphAssumption DEF Handoffs
  <2>2. asg \in AssignmentType
    <3>1. g.assignments[n][j] \in AssignmentType
      BY <2>1 DEF GraphType
    <3> QED BY <3>1 DEF AssignmentType
  <2>3. h = [g EXCEPT !.assignments[n][j] = asg]
    BY <1>2 DEF Release
  <2> HIDE DEF h, asg
  <2>4. /\ h \in GraphType /\ h.nodes = g.nodes /\ h.attempts = g.attempts
        /\ \A m \in Nodes, i \in Handoffs : h.assignments[m][i] =
              IF m = n /\ i = j THEN asg ELSE g.assignments[m][i]
    BY <2>1, <2>2, <2>3 DEF GraphType
  <2> QED BY <2>4 DEF h, asg
<1> QED BY <1>1, <1>2

LEMMA ReleaseKeeps ==
    ASSUME NEW g \in GraphType, NEW n \in Nodes, NEW j \in 0..MaxHandoffs,
           NEW h, h = Release(g, n, j)
    PROVE  h \in GraphType /\ h.nodes = g.nodes /\ h.attempts = g.attempts
BY ReleaseEffect, ZenonT(40)

(* Adding one touches nothing else either.                                 *)
LEMMA AddEffect ==
    ASSUME NEW g \in GraphType, NEW n \in Nodes, NEW j \in Handoffs, NEW k \in Numbers,
           NEW a \in Agents
    PROVE  LET h == AddAssignment(g, n, j, k, a) IN
           /\ h \in GraphType
           /\ h.nodes = g.nodes /\ h.attempts = g.attempts
           /\ \A m \in Nodes, i \in Handoffs : h.assignments[m][i] =
                IF m = n /\ i = j
                THEN [attempt |-> k, agent |-> a, live |-> TRUE, notices |-> 0]
                ELSE g.assignments[m][i]
<1> DEFINE asg == [attempt |-> k, agent |-> a, live |-> TRUE, notices |-> 0]
           h == AddAssignment(g, n, j, k, a)
<1>1. asg \in AssignmentType
  BY GraphAssumption DEF AssignmentType, Numbers
<1>2. h = [g EXCEPT !.assignments[n][j] = asg]
  BY DEF AddAssignment
<1> HIDE DEF h, asg
<1>3. /\ h \in GraphType /\ h.nodes = g.nodes /\ h.attempts = g.attempts
      /\ \A m \in Nodes, i \in Handoffs : h.assignments[m][i] =
            IF m = n /\ i = j THEN asg ELSE g.assignments[m][i]
  BY <1>1, <1>2 DEF GraphType
<1> QED BY <1>3 DEF h, asg

(* A bounce moves settled nodes to Pending and touches nothing else.       *)
LEMMA FeedbackEffect ==
    ASSUME NEW g \in GraphType, NEW n \in Nodes
    PROVE  LET h == FireFeedback(g, n) IN
           /\ h \in GraphType
           /\ h.attempts = g.attempts /\ h.assignments = g.assignments
           /\ \A m \in Nodes :
                /\ h.nodes[m].attempts = g.nodes[m].attempts
                /\ \/ h.nodes[m] = g.nodes[m]
                   \/ g.nodes[m].status \in Bounceable /\ h.nodes[m].status = "Pending"
<1> DEFINE R == Reopened(g, n)
           bounced == [m \in Nodes |->
                         IF m \in R
                         THEN [g.nodes[m] EXCEPT !.status = "Pending", !.outcome = "None"]
                         ELSE g.nodes[m]]
           h == FireFeedback(g, n)
<1>1. \A m \in R : g.nodes[m].status \in Bounceable
  BY DEF Reopened, FeedbackTargets
<1>2. h = [g EXCEPT !.nodes = bounced]
  BY DEF FireFeedback
<1> HIDE DEF R, h
<1>3. \A m \in Nodes :
         /\ bounced[m] \in NodeType
         /\ bounced[m].attempts = g.nodes[m].attempts
         /\ bounced[m] = g.nodes[m] \/ (m \in R /\ bounced[m].status = "Pending")
  <2> SUFFICES ASSUME NEW m \in Nodes
               PROVE  /\ bounced[m] \in NodeType
                      /\ bounced[m].attempts = g.nodes[m].attempts
                      /\ bounced[m] = g.nodes[m] \/ (m \in R /\ bounced[m].status = "Pending")
    OBVIOUS
  <2>1. g.nodes[m] \in NodeType
    BY DEF GraphType
  <2>2. bounced[m] = IF m \in R
                     THEN [g.nodes[m] EXCEPT !.status = "Pending", !.outcome = "None"]
                     ELSE g.nodes[m]
    OBVIOUS
  <2>3. "Pending" \in Statuses /\ "None" \in Outcomes
    BY DEF Statuses, Outcomes
  <2> QED BY <2>1, <2>2, <2>3 DEF NodeType
<1>4. bounced \in [Nodes -> NodeType]
  BY <1>3
<1> HIDE DEF bounced
<1>5. /\ h \in GraphType /\ h.nodes = bounced
      /\ h.attempts = g.attempts /\ h.assignments = g.assignments
  BY <1>2, <1>4 DEF GraphType
<1> QED BY <1>1, <1>3, <1>5 DEF h

(* Telling the parent changes the count of notices and nothing else.       *)
LEMMA NotifyEffect ==
    ASSUME NEW g \in GraphType, NEW n \in Nodes, NEW j \in Handoffs
    PROVE  LET h == Notify(g, n, j) IN
           /\ h \in GraphType
           /\ h.nodes = g.nodes /\ h.attempts = g.attempts
           /\ \A m \in Nodes, i \in Handoffs :
                /\ h.assignments[m][i].live = g.assignments[m][i].live
                /\ h.assignments[m][i].agent = g.assignments[m][i].agent
                /\ h.assignments[m][i].attempt = g.assignments[m][i].attempt
<1> DEFINE told == g.assignments[n][j].notices + 1
           asg == [g.assignments[n][j] EXCEPT !.notices = told]
           h == Notify(g, n, j)
<1>1. g.assignments[n][j] \in AssignmentType
  BY DEF GraphType
<1>2. /\ asg \in AssignmentType
      /\ asg.live = g.assignments[n][j].live /\ asg.agent = g.assignments[n][j].agent
      /\ asg.attempt = g.assignments[n][j].attempt
  BY <1>1 DEF AssignmentType
<1>3. h = [g EXCEPT !.assignments[n][j] = asg]
  BY DEF Notify
<1> HIDE DEF h, asg
<1>4. /\ h \in GraphType /\ h.nodes = g.nodes /\ h.attempts = g.attempts
      /\ \A m \in Nodes, i \in Handoffs : h.assignments[m][i] =
            IF m = n /\ i = j THEN asg ELSE g.assignments[m][i]
  BY <1>2, <1>3 DEF GraphType
<1> QED BY <1>2, <1>4 DEF h

-----------------------------------------------------------------------------
(* GraphInv through the helpers.                                           *)

(* The invariant of one assignment and of one attempt.                     *)
LEMMA LiveOwnsOne ==
    ASSUME NEW g, NEW n, LiveOwns(g, n), NEW j \in Handoffs, g.assignments[n][j].live
    PROVE  /\ g.assignments[n][j].attempt \in Numbers
           /\ g.attempts[n][g.assignments[n][j].attempt].state = "Running"
           /\ g.attempts[n][g.assignments[n][j].attempt].assignment = j
           /\ g.attempts[n][g.assignments[n][j].attempt].agent = g.assignments[n][j].agent
BY Zenon DEF LiveOwns

LEMMA RunningHeldOne ==
    ASSUME NEW g, NEW n, RunningHeld(g, n), NEW k \in Numbers,
           g.attempts[n][k].state = "Running", g.attempts[n][k].assignment # 0
    PROVE  /\ g.assignments[n][g.attempts[n][k].assignment].live
           /\ g.assignments[n][g.attempts[n][k].assignment].attempt = k
BY Zenon DEF RunningHeld

(* A node whose part of the graph does not change keeps its invariant.     *)
LEMMA UntouchedNode ==
    ASSUME NEW g \in GraphType, NEW h \in GraphType, NEW n \in Nodes, NodeInv(g, n),
           h.nodes[n] = g.nodes[n],
           \A k \in Numbers : h.attempts[n][k] = g.attempts[n][k],
           \A j \in Handoffs : h.assignments[n][j] = g.assignments[n][j]
    PROVE  NodeInv(h, n)
<1>1. h.attempts[n] = g.attempts[n]
  BY DEF GraphType
<1>2. h.assignments[n] = g.assignments[n]
  BY DEF GraphType
<1>3. /\ Exclusive(h, n) /\ RunningOpened(h, n) /\ RunningUnsettled(h, n)
      /\ UnopenedBlank(h, n)
  BY DEF NodeInv, Exclusive, RunningOpened, RunningUnsettled, UnopenedBlank
<1>4. LiveOwns(h, n) /\ RunningHeld(h, n)
  <2>1. LiveOwns(g, n) /\ RunningHeld(g, n)
    BY DEF NodeInv
  <2>2. LiveOwns(h, n)
    <3> SUFFICES ASSUME NEW j \in Handoffs, h.assignments[n][j].live
                 PROVE  /\ h.assignments[n][j].attempt \in Numbers
                        /\ h.attempts[n][h.assignments[n][j].attempt].state = "Running"
                        /\ h.attempts[n][h.assignments[n][j].attempt].assignment = j
                        /\ h.attempts[n][h.assignments[n][j].attempt].agent
                             = h.assignments[n][j].agent
      BY DEF LiveOwns
    <3>1. /\ g.assignments[n][j].attempt \in Numbers
          /\ g.attempts[n][g.assignments[n][j].attempt].state = "Running"
          /\ g.attempts[n][g.assignments[n][j].attempt].assignment = j
          /\ g.attempts[n][g.assignments[n][j].attempt].agent = g.assignments[n][j].agent
      <4>1. g.assignments[n][j].live
        BY <1>2, Zenon
      <4> QED BY ONLY <2>1, <4>1, j \in Handoffs, Zenon DEF LiveOwns
    <3> QED BY ONLY <1>1, <1>2, <3>1
  <2>3. RunningHeld(h, n)
    <3> SUFFICES ASSUME NEW k \in Numbers, h.attempts[n][k].state = "Running",
                        h.attempts[n][k].assignment # 0
                 PROVE  /\ h.assignments[n][h.attempts[n][k].assignment].live
                        /\ h.assignments[n][h.attempts[n][k].assignment].attempt = k
      BY DEF RunningHeld
    <3>1. g.attempts[n][k].state = "Running" /\ g.attempts[n][k].assignment # 0
      BY <1>1
    <3>2. /\ g.assignments[n][g.attempts[n][k].assignment].live
          /\ g.assignments[n][g.attempts[n][k].assignment].attempt = k
      BY ONLY <2>1, <3>1, k \in Numbers, Zenon DEF RunningHeld
    <3> QED BY ONLY <1>1, <1>2, <3>2
  <2> QED BY <2>2, <2>3
<1>5. VerdictAgrees(h, n)
  BY <1>1 DEF NodeInv, VerdictAgrees, LastAttempt
<1> QED BY <1>3, <1>4, <1>5 DEF NodeInv

(* No assignment is live on a node that does not run.                      *)
LEMMA IdleNodeIsUnheld ==
    ASSUME NEW g, GraphInv(g), NEW n \in Nodes, g.nodes[n].status # "Running",
           NEW j \in Handoffs
    PROVE  ~g.assignments[n][j].live
BY DEF GraphInv, NodeInv, LiveOwns, Exclusive

(* The live assignment of a running node is the one its attempt names.     *)
LEMMA RunningNodeHolder ==
    ASSUME NEW g, GraphInv(g), NEW n \in Nodes, NEW j \in Handoffs,
           g.assignments[n][j].live
    PROVE  /\ g.nodes[n].status = "Running" /\ g.nodes[n].attempts \in Numbers
           /\ g.assignments[n][j].attempt = g.nodes[n].attempts
           /\ LastAttempt(g, n).assignment = j
           /\ LastAttempt(g, n).agent = g.assignments[n][j].agent
           /\ LastAttempt(g, n).result = NoResult
<1> DEFINE k == g.assignments[n][j].attempt
<1>1. LiveOwns(g, n) /\ Exclusive(g, n) /\ RunningUnsettled(g, n)
  BY DEF GraphInv, NodeInv
<1>2. /\ k \in Numbers /\ g.attempts[n][k].state = "Running"
      /\ g.attempts[n][k].assignment = j
      /\ g.attempts[n][k].agent = g.assignments[n][j].agent
  BY <1>1, Zenon DEF LiveOwns
<1> HIDE DEF k
<1>3. g.nodes[n].status = "Running" /\ k = g.nodes[n].attempts
  BY <1>1, <1>2, Zenon DEF Exclusive
<1>4. g.attempts[n][k].result = NoResult
  BY <1>1, <1>2, Zenon DEF RunningUnsettled
<1> QED BY <1>2, <1>3, <1>4, Zenon DEF LastAttempt, k

LEMMA FeedbackKeepsGraphInv ==
    ASSUME NEW g, GraphInv(g), NEW n \in Nodes
    PROVE  /\ GraphInv(FireFeedback(g, n)) /\ Final(g, FireFeedback(g, n))
           /\ FireFeedback(g, n).assignments = g.assignments
<1> DEFINE h == FireFeedback(g, n)
<1>1. /\ g \in GraphType /\ h \in GraphType
      /\ h.attempts = g.attempts /\ h.assignments = g.assignments
      /\ \A m \in Nodes :
           /\ h.nodes[m].attempts = g.nodes[m].attempts
           /\ \/ h.nodes[m] = g.nodes[m]
              \/ g.nodes[m].status \in Bounceable /\ h.nodes[m].status = "Pending"
  BY FeedbackEffect DEF GraphInv
<1> HIDE DEF h
<1>2. ASSUME NEW m \in Nodes PROVE NodeInv(h, m)
  <2>1. NodeInv(g, m)
    BY DEF GraphInv
  <2>2. CASE h.nodes[m] = g.nodes[m]
    BY <1>1, <2>1, <2>2, UntouchedNode
  <2>3. CASE g.nodes[m].status \in Bounceable /\ h.nodes[m].status = "Pending"
    <3>1. g.nodes[m].status # "Running" /\ h.nodes[m].status = "Pending"
      BY <2>3 DEF Bounceable
    <3>0. /\ h.attempts = g.attempts /\ h.assignments = g.assignments
          /\ h.nodes[m].attempts = g.nodes[m].attempts
      BY <1>1
    <3>2. Exclusive(h, m) /\ RunningOpened(h, m) /\ RunningUnsettled(h, m)
      BY <2>1, <3>0, <3>1 DEF NodeInv, Exclusive, RunningOpened, RunningUnsettled
    <3>3. UnopenedBlank(h, m) /\ VerdictAgrees(h, m)
      BY <2>1, <3>0, <3>1 DEF NodeInv, UnopenedBlank, VerdictAgrees
    <3>4. LiveOwns(h, m) /\ RunningHeld(h, m)
      BY ZenonT(60), <2>1, <3>0 DEF NodeInv, LiveOwns, RunningHeld
    <3> QED BY <3>2, <3>3, <3>4 DEF NodeInv
  <2> QED BY <1>1, <2>2, <2>3
<1>3. Final(g, h)
  BY <1>1 DEF Final
<1> QED BY <1>1, <1>2, <1>3 DEF GraphInv, h

(* A claimed node, idle before, runs its next attempt.                     *)
LEMMA ClaimableIsIdle ==
    ASSUME NEW g, GraphInv(g), NEW n \in Nodes, Claimable(g, n)
    PROVE  /\ g \in GraphType
           /\ g.nodes[n].attempts \in Nat /\ g.nodes[n].attempts < MaxNumber
           /\ \A j \in Handoffs : ~g.assignments[n][j].live
           /\ \A i \in Numbers : g.attempts[n][i].state # "Running"
           /\ g.attempts[n][g.nodes[n].attempts + 1] = NoAttempt
<1>1. g \in GraphType /\ g.nodes[n].status # "Running" /\ g.nodes[n].attempts < MaxNumber
  BY DEF GraphInv, Claimable
<1>2. g.nodes[n].attempts \in Nat
  BY <1>1, GraphAssumption DEF GraphType, NodeType
<1>3. g.nodes[n].attempts + 1 \in Numbers /\ g.nodes[n].attempts + 1 > g.nodes[n].attempts
  BY <1>1, <1>2, GraphAssumption DEF Numbers
<1>4. \A j \in Handoffs : ~g.assignments[n][j].live
  BY <1>1, IdleNodeIsUnheld
<1> QED
  BY <1>1, <1>2, <1>3, <1>4 DEF GraphInv, NodeInv, Exclusive, UnopenedBlank

(* Claimed for its caller, it runs an attempt nobody is assigned to.       *)
LEMMA OpenKeepsGraphInv ==
    ASSUME NEW g, GraphInv(g), NEW n \in Nodes, Claimable(g, n), NEW a \in Agents
    PROVE  LET h == OpenAttempt(g, n, a, 0)
           IN  /\ GraphInv(h) /\ Final(g, h) /\ h.assignments = g.assignments
               /\ h.nodes[n].status = "Running"
               /\ \A j \in Handoffs : ~g.assignments[n][j].live
<1> DEFINE h == OpenAttempt(g, n, a, 0)
           k == g.nodes[n].attempts + 1
           att == [state |-> "Running", agent |-> a, assignment |-> 0,
                   result |-> NoResult, inputs |-> FreezeManifest(g, n)]
           node == [status |-> "Running", outcome |-> "None", attempts |-> k]
<1>1. /\ g \in GraphType
      /\ g.nodes[n].attempts \in Nat /\ g.nodes[n].attempts < MaxNumber
      /\ \A j \in Handoffs : ~g.assignments[n][j].live
      /\ \A i \in Numbers : g.attempts[n][i].state # "Running"
      /\ g.attempts[n][k] = NoAttempt
  BY ClaimableIsIdle
<1>2. 0 \in 0..MaxHandoffs
  BY GraphAssumption
<1>3. /\ h \in GraphType /\ k \in Numbers
      /\ h.assignments = g.assignments
      /\ \A m \in Nodes : h.nodes[m] = IF m = n THEN node ELSE g.nodes[m]
      /\ \A m \in Nodes, i \in Numbers :
            h.attempts[m][i] = IF m = n /\ i = k THEN att ELSE g.attempts[m][i]
  BY <1>1, <1>2, OpenEffect
<1>4. /\ node.status = "Running" /\ node.attempts = k
      /\ att.state = "Running" /\ att.assignment = 0 /\ att.result = NoResult
  OBVIOUS
<1>5. \A i \in Numbers : i > k => i > g.nodes[n].attempts /\ i # k
  BY <1>1 DEF Numbers
<1> HIDE DEF h, k, att, node
<1>6. NodeInv(h, n)
  <2>1. NodeInv(g, n)
    BY DEF GraphInv
  <2>2. Exclusive(h, n) /\ RunningOpened(h, n) /\ RunningUnsettled(h, n)
    BY <1>1, <1>3, <1>4 DEF Exclusive, RunningOpened, RunningUnsettled
  <2>3. UnopenedBlank(h, n)
    BY <1>3, <1>4, <1>5, <2>1 DEF NodeInv, UnopenedBlank
  <2>4. LiveOwns(h, n) /\ RunningHeld(h, n) /\ VerdictAgrees(h, n)
    BY <1>1, <1>3, <1>4 DEF LiveOwns, RunningHeld, VerdictAgrees
  <2> QED BY <2>2, <2>3, <2>4 DEF NodeInv
<1>7. ASSUME NEW m \in Nodes, m # n PROVE NodeInv(h, m)
  BY <1>1, <1>3, <1>7, UntouchedNode DEF GraphInv
<1>8. Final(g, h)
  BY <1>1, <1>3 DEF Final, NoAttempt
<1> QED BY <1>1, <1>3, <1>4, <1>6, <1>7, <1>8 DEF GraphInv, h

(* Claimed for a worker, it runs an attempt of a live assignment.          *)
LEMMA AssignKeepsGraphInv ==
    ASSUME NEW g, GraphInv(g), NEW n \in Nodes, Claimable(g, n), NEW w \in Agents,
           NEW j \in Handoffs
    PROVE  LET k == g.nodes[n].attempts + 1
               h == AddAssignment(OpenAttempt(g, n, w, j), n, j, k, w)
           IN  /\ GraphInv(h) /\ Final(g, h) /\ k \in Numbers
               /\ \A m \in Nodes, i \in Handoffs : h.assignments[m][i] =
                    IF m = n /\ i = j
                    THEN [attempt |-> k, agent |-> w, live |-> TRUE, notices |-> 0]
                    ELSE g.assignments[m][i]
<1> DEFINE o == OpenAttempt(g, n, w, j)
           k == g.nodes[n].attempts + 1
           h == AddAssignment(o, n, j, k, w)
           att == [state |-> "Running", agent |-> w, assignment |-> j,
                   result |-> NoResult, inputs |-> FreezeManifest(g, n)]
           node == [status |-> "Running", outcome |-> "None", attempts |-> k]
           asg == [attempt |-> k, agent |-> w, live |-> TRUE, notices |-> 0]
<1>1. /\ g \in GraphType
      /\ g.nodes[n].attempts \in Nat /\ g.nodes[n].attempts < MaxNumber
      /\ \A i \in Handoffs : ~g.assignments[n][i].live
      /\ \A i \in Numbers : g.attempts[n][i].state # "Running"
      /\ g.attempts[n][k] = NoAttempt
  BY ClaimableIsIdle
<1>2. j \in 0..MaxHandoffs /\ j # 0
  BY GraphAssumption DEF Handoffs
<1>3. /\ o \in GraphType /\ k \in Numbers
      /\ o.assignments = g.assignments
      /\ \A m \in Nodes : o.nodes[m] = IF m = n THEN node ELSE g.nodes[m]
      /\ \A m \in Nodes, i \in Numbers :
            o.attempts[m][i] = IF m = n /\ i = k THEN att ELSE g.attempts[m][i]
  BY <1>1, <1>2, OpenEffect
<1>4. /\ node.status = "Running" /\ node.attempts = k
      /\ att.state = "Running" /\ att.assignment = j /\ att.result = NoResult
      /\ att.agent = w
      /\ asg.attempt = k /\ asg.agent = w /\ asg.live
  OBVIOUS
<1>5. \A i \in Numbers : i > k => i > g.nodes[n].attempts /\ i # k
  BY <1>1 DEF Numbers
<1> HIDE DEF o, k, att, node, asg
<1>6. /\ h \in GraphType /\ h.nodes = o.nodes /\ h.attempts = o.attempts
      /\ \A m \in Nodes, i \in Handoffs :
            h.assignments[m][i] = IF m = n /\ i = j THEN asg ELSE o.assignments[m][i]
  BY <1>3, AddEffect DEF asg
<1> HIDE DEF h
<1>7. NodeInv(h, n)
  <2>1. NodeInv(g, n)
    BY DEF GraphInv
  <2>2. Exclusive(h, n) /\ RunningOpened(h, n) /\ RunningUnsettled(h, n)
    BY <1>1, <1>3, <1>4, <1>6 DEF Exclusive, RunningOpened, RunningUnsettled
  <2>3. UnopenedBlank(h, n)
    BY <1>3, <1>4, <1>5, <1>6, <2>1 DEF NodeInv, UnopenedBlank
  <2>4. LiveOwns(h, n)
    <3> SUFFICES ASSUME NEW i \in Handoffs, h.assignments[n][i].live
                 PROVE  LET x == h.assignments[n][i].attempt
                        IN  /\ x \in Numbers /\ h.attempts[n][x].state = "Running"
                            /\ h.attempts[n][x].assignment = i
                            /\ h.attempts[n][x].agent = h.assignments[n][i].agent
      BY Zenon DEF LiveOwns
    <3> QED BY <1>1, <1>3, <1>4, <1>6
  <2>5. RunningHeld(h, n)
    BY <1>1, <1>3, <1>4, <1>6 DEF RunningHeld
  <2>6. VerdictAgrees(h, n)
    BY <1>3, <1>4, <1>6 DEF VerdictAgrees
  <2> QED BY <2>2, <2>3, <2>4, <2>5, <2>6 DEF NodeInv
<1>8. ASSUME NEW m \in Nodes, m # n PROVE NodeInv(h, m)
  BY <1>1, <1>3, <1>6, <1>8, UntouchedNode DEF GraphInv
<1>9. Final(g, h)
  BY <1>1, <1>3, <1>6 DEF Final, NoAttempt
<1>10. \A m \in Nodes, i \in Handoffs :
         h.assignments[m][i] = IF m = n /\ i = j THEN asg ELSE g.assignments[m][i]
  BY <1>3, <1>6
<1>11. GraphInv(h)
  BY <1>6, <1>7, <1>8 DEF GraphInv
<1> QED BY <1>3, <1>9, <1>10, <1>11 DEF h, o, k, asg

(* A running node ends: its attempt gets the result, and the assignment    *)
(* that held it, if there was one, is released.                            *)
LEMMA EndKeepsGraphInv ==
    ASSUME NEW g, GraphInv(g), NEW n \in Nodes, g.nodes[n].status = "Running",
           NEW r \in ReportType,
           NEW p \in Producers, NEW j \in 0..MaxHandoffs,
           \A i \in Handoffs : g.assignments[n][i].live => i = j
    PROVE  Ended(g, Release(RecordResult(g, n, g.nodes[n].attempts, r, p), n, j), n)
<1> DEFINE k == g.nodes[n].attempts
           f == RecordResult(g, n, k, r, p)
           h == Release(f, n, j)
           res == [status |-> r.status, outcome |-> r.outcome, level |-> r.level,
                   producer |-> p]
           asg == [g.assignments[n][j] EXCEPT !.live = FALSE]
<1>1. /\ g \in GraphType /\ NodeInv(g, n) /\ k \in Numbers
      /\ g.attempts[n][k].state = "Running" /\ g.attempts[n][k].result = NoResult
      /\ \A i \in Numbers : g.attempts[n][i].state = "Running" => i = k
  <2>1. /\ g \in GraphType /\ NodeInv(g, n) /\ Exclusive(g, n)
        /\ RunningOpened(g, n) /\ RunningUnsettled(g, n)
    BY DEF GraphInv, NodeInv
  <2> QED BY <2>1 DEF RunningOpened, Exclusive, RunningUnsettled
<1>2. /\ f \in GraphType
      /\ f.assignments = g.assignments
      /\ \A m \in Nodes : m # n => f.nodes[m] = g.nodes[m]
      /\ f.nodes[n].status = r.status /\ f.nodes[n].outcome = r.outcome
      /\ f.nodes[n].attempts = k
      /\ \A m \in Nodes, i \in Numbers :
            ~(m = n /\ i = k) => f.attempts[m][i] = g.attempts[m][i]
      /\ f.attempts[n][k].state = r.status
      /\ f.attempts[n][k].result = res
  <2>1. Recorded(g, f, n, k, r, p)
    BY <1>1, RecordEffect, Zenon
  <2> HIDE DEF f, h, k
  <2> QED BY <2>1, Zenon DEF Recorded, k
<1>3. /\ r.status # "Running" /\ res # NoResult
      /\ res.status = r.status /\ res.outcome = r.outcome
  BY DEF ReportType, Settlements, NoResult
<1> HIDE DEF f, res, k
<1>4. /\ h \in GraphType /\ h.nodes = f.nodes /\ h.attempts = f.attempts
      /\ \A m \in Nodes, i \in Handoffs : h.assignments[m][i] =
            IF m = n /\ i = j THEN [f.assignments[n][j] EXCEPT !.live = FALSE]
            ELSE f.assignments[m][i]
  BY <1>2, ReleaseEffect
<1>5. \A m \in Nodes, i \in Handoffs :
         /\ h.assignments[m][i].live <=> g.assignments[m][i].live /\ m # n
         /\ h.assignments[m][i].agent = g.assignments[m][i].agent
         /\ h.assignments[m][i].attempt = g.assignments[m][i].attempt
         /\ m # n => h.assignments[m][i] = g.assignments[m][i]
  <2> SUFFICES ASSUME NEW m \in Nodes, NEW i \in Handoffs
               PROVE  /\ h.assignments[m][i].live <=> g.assignments[m][i].live /\ m # n
                      /\ h.assignments[m][i].agent = g.assignments[m][i].agent
                      /\ h.assignments[m][i].attempt = g.assignments[m][i].attempt
                      /\ m # n => h.assignments[m][i] = g.assignments[m][i]
    OBVIOUS
  <2>1. CASE m = n /\ i = j
    <3>1. g.assignments[n][j] \in AssignmentType
      BY <1>1, <2>1 DEF GraphType
    <3>2. h.assignments[m][i] = asg
      BY <1>2, <1>4, <2>1
    <3> QED BY <2>1, <3>1, <3>2 DEF AssignmentType
  <2>2. CASE ~(m = n /\ i = j)
    <3>1. h.assignments[m][i] = g.assignments[m][i]
      BY <1>2, <1>4, <2>2
    <3> QED BY <2>2, <3>1
  <2> QED BY <2>1, <2>2
<1> HIDE DEF h, asg
<1>6. NodeInv(h, n)
  <2>1. Exclusive(h, n) /\ RunningOpened(h, n)
    BY <1>1, <1>2, <1>3, <1>4 DEF Exclusive, RunningOpened
  <2>2. RunningUnsettled(h, n) /\ RunningHeld(h, n)
    <3>1. \A i \in Numbers : h.attempts[n][i].state # "Running"
      BY <1>1, <1>2, <1>3, <1>4
    <3> QED BY <3>1 DEF RunningUnsettled, RunningHeld
  <2>3. UnopenedBlank(h, n)
    <3>1. \A i \in Numbers : i > k => i # k
      BY <1>1 DEF Numbers
    <3>2. UnopenedBlank(g, n)
      BY <1>1 DEF NodeInv
    <3>3. /\ h.nodes[n].attempts = k
          /\ \A i \in Numbers : i # k => h.attempts[n][i] = g.attempts[n][i]
      BY <1>2, <1>4
    <3> QED BY <3>1, <3>2, <3>3 DEF UnopenedBlank, k
  <2>4. LiveOwns(h, n)
    BY <1>5 DEF LiveOwns
  <2>5. VerdictAgrees(h, n)
    BY <1>1, <1>2, <1>3, <1>4 DEF VerdictAgrees, LastAttempt
  <2> QED BY <2>1, <2>2, <2>3, <2>4, <2>5 DEF NodeInv
<1>7. ASSUME NEW m \in Nodes, m # n PROVE NodeInv(h, m)
  BY <1>1, <1>2, <1>4, <1>5, <1>7, UntouchedNode DEF GraphInv
<1>8. Final(g, h)
  BY <1>1, <1>2, <1>4 DEF Final
<1>9. GraphInv(h)
  BY <1>4, <1>6, <1>7, Zenon DEF GraphInv
<1>10. Ended(g, h, n)
  BY <1>5, <1>8, <1>9, Zenon DEF Ended
<1> QED BY <1>10 DEF h, f, k

LEMMA FinalIsTransitive ==
    ASSUME NEW f, NEW g, NEW h, Final(f, g), Final(g, h)
    PROVE  Final(f, h)
BY DEF Final

(* `complete` and `fail` of one node keep the invariant, whether they end  *)
(* the attempt that runs or open one of their own and end that.            *)
LEMMA SettleNodeKeepsGraphInv ==
    ASSUME NEW g, GraphInv(g), NEW n \in Nodes, NEW h \in 0..MaxHandoffs, NEW a \in Agents,
           NEW r \in ReportType, MaySettle(g, n, h, a),
           \A i \in Handoffs : g.assignments[n][i].live => i = h
    PROVE  LET s == SettleNodeIn(g, n, h, a, r)
           IN  /\ GraphInv(s) /\ Final(g, s)
               /\ \A m \in Nodes, i \in Handoffs :
                    /\ s.assignments[m][i].live <=> g.assignments[m][i].live /\ m # n
                    /\ s.assignments[m][i].agent = g.assignments[m][i].agent
                    /\ s.assignments[m][i].attempt = g.assignments[m][i].attempt
<1> DEFINE o == IF g.nodes[n].status = "Running" THEN g ELSE OpenAttempt(g, n, a, 0)
           k == o.nodes[n].attempts
           p == o.attempts[n][k].agent
           e == Release(RecordResult(o, n, k, r, p), n, h)
           s == FireFeedback(e, n)
<1>1. /\ GraphInv(o) /\ Final(g, o) /\ o.assignments = g.assignments
      /\ o.nodes[n].status = "Running"
      /\ \A i \in Handoffs : o.assignments[n][i].live => i = h
  <2>1. CASE g.nodes[n].status = "Running"
    BY <2>1 DEF Final
  <2>2. CASE g.nodes[n].status # "Running"
    <3>1. Claimable(g, n)
      BY <2>2 DEF MaySettle
    <3> QED BY <2>2, <3>1, OpenKeepsGraphInv
  <2> QED BY <2>1, <2>2
<1> HIDE DEF o
<1>2. k \in Numbers /\ p \in Producers
  <2>1. k \in Numbers
    BY <1>1 DEF GraphInv, NodeInv, RunningOpened
  <2>2. o.attempts[n][k] \in AttemptType
    BY <1>1, <2>1 DEF GraphInv, GraphType
  <2> QED BY <2>1, <2>2 DEF AttemptType, Producers
<1> HIDE DEF p
<1>3. /\ GraphInv(e) /\ Final(o, e)
      /\ \A m \in Nodes, i \in Handoffs :
           /\ e.assignments[m][i].live <=> o.assignments[m][i].live /\ m # n
           /\ e.assignments[m][i].agent = o.assignments[m][i].agent
           /\ e.assignments[m][i].attempt = o.assignments[m][i].attempt
  <2>1. Ended(o, e, n)
    BY <1>1, <1>2, EndKeepsGraphInv, Zenon
  <2> HIDE DEF e
  <2> QED BY <2>1, Zenon DEF Ended
<1> HIDE DEF e
<1>4. GraphInv(s) /\ Final(e, s) /\ s.assignments = e.assignments
  BY <1>3, FeedbackKeepsGraphInv
<1>5. Final(g, s)
  BY <1>1, <1>3, <1>4, FinalIsTransitive
<1>6. s = SettleNodeIn(g, n, h, a, r)
  BY DEF s, e, p, o, SettleNodeIn
<1> HIDE DEF s
<1> QED BY <1>1, <1>3, <1>4, <1>5, <1>6

(* A hand-off: the open attempt leaves the assignment it had, if any, for  *)
(* a new one, with a fresh manifest.                                       *)
LEMMA HandOffKeepsGraphInv ==
    ASSUME NEW g, GraphInv(g), NEW n \in Nodes, g.nodes[n].status = "Running",
           NEW w \in Agents, NEW j \in Handoffs, g.assignments[n][j] = NoAssignment
    PROVE  LET k == g.nodes[n].attempts
           IN  HandedTo(g, AddAssignment(PassOn(g, n, w, j), n, j, k, w), n, w, j, k)
<1> DEFINE k     == g.nodes[n].attempts
           old   == LastAttempt(g, n).assignment
           freed == Release(g, n, old)
           att   == [freed.attempts[n][k] EXCEPT !.agent = w, !.assignment = j,
                                                 !.inputs = FreezeManifest(g, n)]
           asg   == [attempt |-> k, agent |-> w, live |-> TRUE, notices |-> 0]
           given == PassOn(g, n, w, j)
           h     == AddAssignment(given, n, j, k, w)
<1>0. given = [freed EXCEPT !.attempts[n][k] = att]
  BY DEF PassOn
<1>1. /\ g \in GraphType /\ NodeInv(g, n) /\ k \in Numbers
      /\ g.attempts[n][k].state = "Running" /\ g.attempts[n][k].result = NoResult
      /\ \A i \in Numbers : g.attempts[n][i].state = "Running" => i = k
  <2>1. /\ g \in GraphType /\ NodeInv(g, n) /\ Exclusive(g, n)
        /\ RunningOpened(g, n) /\ RunningUnsettled(g, n)
    BY DEF GraphInv, NodeInv
  <2> QED BY <2>1 DEF RunningOpened, Exclusive, RunningUnsettled
<1>2. /\ g.attempts[n][k] \in AttemptType /\ old \in 0..MaxHandoffs
      /\ old = g.attempts[n][k].assignment
  BY <1>1 DEF GraphType, AttemptType, LastAttempt
<1>3. \A i \in Handoffs : g.assignments[n][i].live => i = old
  BY RunningNodeHolder
<1>4. ~g.assignments[n][j].live
  BY DEF NoAssignment
<1> HIDE DEF old
<1>5. /\ freed \in GraphType /\ freed.nodes = g.nodes /\ freed.attempts = g.attempts
      /\ \A m \in Nodes, i \in Handoffs : freed.assignments[m][i] =
           IF m = n /\ i = old THEN [g.assignments[n][old] EXCEPT !.live = FALSE]
           ELSE g.assignments[m][i]
  <2>1. g \in GraphType /\ old \in 0..MaxHandoffs
    BY <1>1, <1>2
  <2> QED BY <2>1, ReleaseEffect
<1>6. \A i \in Handoffs : ~freed.assignments[n][i].live
  <2> SUFFICES ASSUME NEW i \in Handoffs PROVE ~freed.assignments[n][i].live
    OBVIOUS
  <2>1. CASE i = old
    <3>1. g.assignments[n][i] \in AssignmentType
      BY <1>1 DEF GraphType
    <3> QED BY <1>5, <2>1, <3>1 DEF AssignmentType
  <2>2. CASE i # old
    BY <1>3, <1>5, <2>2
  <2> QED BY <2>1, <2>2
<1> HIDE DEF freed, k
<1>7. /\ att \in AttemptType /\ att.state = "Running" /\ att.result = NoResult
      /\ att.agent = w /\ att.assignment = j
  <2>1. freed.attempts[n][k] \in AttemptType /\ j \in 0..MaxHandoffs
    <3>1. freed.attempts[n][k] \in AttemptType
      BY <1>2, <1>5, Zenon DEF k
    <3>2. j \in 0..MaxHandoffs
      BY GraphAssumption DEF Handoffs
    <3> QED BY <3>1, <3>2
  <2>2. FreezeManifest(g, n) \in SUBSET (Nodes \X Numbers)
    BY <1>1, ManifestType
  <2> QED BY <1>1, <1>5, <2>1, <2>2 DEF AttemptType
<1> HIDE DEF att, given
<1>8. /\ given \in GraphType /\ given.nodes = g.nodes
      /\ given.assignments = freed.assignments
      /\ \A m \in Nodes, i \in Numbers :
           given.attempts[m][i] = IF m = n /\ i = k THEN att ELSE g.attempts[m][i]
  BY <1>0, <1>1, <1>5, <1>7 DEF GraphType
<1>9. /\ h \in GraphType /\ h.nodes = given.nodes /\ h.attempts = given.attempts
      /\ \A m \in Nodes, i \in Handoffs : h.assignments[m][i] =
           IF m = n /\ i = j THEN asg ELSE given.assignments[m][i]
  BY <1>1, <1>8, AddEffect
<1>10. asg.live /\ asg.agent = w /\ asg.attempt = k
  OBVIOUS
<1> HIDE DEF h, asg
<1>11. /\ \A m \in Nodes, i \in Handoffs :
            m # n => h.assignments[m][i] = g.assignments[m][i]
       /\ \A i \in Handoffs : h.assignments[n][i].live <=> i = j
       /\ h.assignments[n][j].agent = w /\ h.assignments[n][j].attempt = k
  BY <1>5, <1>6, <1>8, <1>9, <1>10
<1>12. NodeInv(h, n)
  <2>1. Exclusive(h, n) /\ RunningOpened(h, n) /\ RunningUnsettled(h, n)
    BY <1>1, <1>7, <1>8, <1>9
       DEF NodeInv, Exclusive, RunningOpened, RunningUnsettled
  <2>2. UnopenedBlank(h, n)
    <3>1. \A i \in Numbers : i > k => i # k
      BY <1>1 DEF Numbers
    <3> QED BY <1>1, <1>8, <1>9, <3>1 DEF NodeInv, UnopenedBlank, k
  <2>3. LiveOwns(h, n) /\ RunningHeld(h, n)
    <3>1. /\ h.attempts[n][k] = att
          /\ \A i \in Numbers : h.attempts[n][i].state = "Running" => i = k
      BY <1>1, <1>8, <1>9
    <3>2. LiveOwns(h, n)
      <4> SUFFICES ASSUME NEW i \in Handoffs, h.assignments[n][i].live
                   PROVE  /\ h.assignments[n][i].attempt = k /\ i = j
                          /\ h.assignments[n][i].agent = w
        BY <1>1, <1>7, <3>1, Zenon DEF LiveOwns
      <4> QED BY <1>11
    <3>3. RunningHeld(h, n)
      BY <1>7, <1>11, <3>1, Zenon DEF RunningHeld
    <3> QED BY <3>2, <3>3
  <2>4. VerdictAgrees(h, n)
    BY <1>8, <1>9 DEF VerdictAgrees
  <2> QED BY <2>1, <2>2, <2>3, <2>4 DEF NodeInv
<1>13. ASSUME NEW m \in Nodes, m # n PROVE NodeInv(h, m)
  BY <1>1, <1>8, <1>9, <1>11, <1>13, UntouchedNode DEF GraphInv
<1>14. Final(g, h)
  BY <1>1, <1>8, <1>9 DEF Final
<1>15. GraphInv(h)
  BY <1>9, <1>12, <1>13 DEF GraphInv
<1>16. HandedTo(g, h, n, w, j, k)
  BY <1>1, <1>11, <1>14, <1>15, Zenon DEF HandedTo
<1> QED BY <1>16 DEF h, given, k

(* After a restart nothing runs and nothing is held.                       *)
LEMMA ReconcileKeepsGraphInv ==
    ASSUME GraphInv(graph), Reconcile
    PROVE  /\ GraphInv(graph') /\ Final(graph, graph')
           /\ \A n \in Nodes, j \in Handoffs : ~graph'.assignments[n][j].live
<1> DEFINE h == graph'
           node(n) == IF graph.nodes[n].status = "Running"
                      THEN [graph.nodes[n] EXCEPT !.status = "Interrupted",
                                                  !.outcome = "Interrupted"]
                      ELSE graph.nodes[n]
           res(n, k) == IF graph.attempts[n][k].result = NoResult
                           /\ graph.attempts[n][k].assignment # 0
                        THEN InterruptedResult ELSE graph.attempts[n][k].result
           att(n, k) == IF ~Interrupted(n, k) THEN graph.attempts[n][k]
                        ELSE [graph.attempts[n][k] EXCEPT !.state = "Interrupted",
                                                          !.result = res(n, k)]
           told(n, j) == graph.assignments[n][j].notices + 1
           asg(n, j) == IF j \in LeftBehind(n)
                        THEN [graph.assignments[n][j] EXCEPT !.live = FALSE,
                                                             !.notices = told(n, j)]
                        ELSE graph.assignments[n][j]
<1>1. graph' = [nodes |-> [n \in Nodes |-> node(n)],
                attempts |-> [n \in Nodes |-> [k \in Numbers |-> att(n, k)]],
                assignments |-> [n \in Nodes |-> [j \in Handoffs |-> asg(n, j)]]]
  BY DEF Reconcile
<1>2. ASSUME NEW n \in Nodes
      PROVE  /\ node(n) \in NodeType /\ node(n).status # "Running"
             /\ node(n).attempts = graph.nodes[n].attempts
             /\ node(n).status \in {"Succeeded", "Failed"} => node(n) = graph.nodes[n]
  <2>1. graph.nodes[n] \in NodeType
    BY DEF GraphInv, GraphType
  <2> QED BY <2>1 DEF NodeType, Statuses, Settlements, Outcomes
<1>3. ASSUME NEW n \in Nodes, NEW k \in Numbers
      PROVE  /\ att(n, k) \in AttemptType /\ att(n, k).state # "Running"
             /\ graph.attempts[n][k].state # "Running" => att(n, k) = graph.attempts[n][k]
  <2>1. graph.attempts[n][k] \in AttemptType
    BY DEF GraphInv, GraphType
  <2>2. res(n, k) \in ResultType
    <3>1. InterruptedResult \in ResultType
      BY DEF InterruptedResult, ResultType, Settlements, Outcomes, Levels
    <3> QED BY <2>1, <3>1 DEF AttemptType
  <2> HIDE DEF res
  <2>3. "Interrupted" \in Settlements
    BY DEF Settlements
  <2> QED BY <2>1, <2>2, <2>3 DEF AttemptType, Interrupted
<1>4. ASSUME NEW n \in Nodes, NEW j \in Handoffs
      PROVE  asg(n, j) \in AssignmentType /\ ~asg(n, j).live
  <2>1. graph.assignments[n][j] \in AssignmentType
    BY DEF GraphInv, GraphType
  <2>2. graph.assignments[n][j].live => j \in LeftBehind(n)
    BY DEF GraphInv, NodeInv, LiveOwns, RunningUnsettled, LeftBehind, Interrupted
  <2>3. told(n, j) \in Nat
    BY <2>1 DEF AssignmentType
  <2> HIDE DEF told
  <2> QED BY <2>1, <2>2, <2>3 DEF AssignmentType
<1> HIDE DEF node, res, att, told, asg
<1>5. /\ h \in GraphType
      /\ \A n \in Nodes : h.nodes[n] = node(n)
      /\ \A n \in Nodes, k \in Numbers : h.attempts[n][k] = att(n, k)
      /\ \A n \in Nodes, j \in Handoffs : h.assignments[n][j] = asg(n, j)
  BY <1>1, <1>2, <1>3, <1>4 DEF GraphType
<1> HIDE DEF h
<1>6. ASSUME NEW n \in Nodes PROVE NodeInv(h, n)
  <2>1. NodeInv(graph, n)
    BY DEF GraphInv
  <2>2. Exclusive(h, n) /\ RunningOpened(h, n) /\ RunningUnsettled(h, n)
    BY <1>2, <1>3, <1>5 DEF Exclusive, RunningOpened, RunningUnsettled
  <2>3. /\ h.nodes[n].attempts = graph.nodes[n].attempts
        /\ \A k \in Numbers :
             graph.attempts[n][k].state # "Running" => h.attempts[n][k] = graph.attempts[n][k]
    BY <1>2, <1>3, <1>5
  <2>4. UnopenedBlank(h, n)
    <3> SUFFICES ASSUME NEW k \in Numbers, k > h.nodes[n].attempts
                 PROVE  h.attempts[n][k] = NoAttempt
      BY DEF UnopenedBlank
    <3>1. k > graph.nodes[n].attempts
      BY <2>3
    <3>2. graph.attempts[n][k] = NoAttempt
      BY <2>1, <3>1 DEF NodeInv, UnopenedBlank
    <3>3. NoAttempt.state # "Running"
      BY DEF NoAttempt
    <3> QED BY <2>3, <3>2, <3>3
  <2>5. LiveOwns(h, n) /\ RunningHeld(h, n)
    BY <1>3, <1>4, <1>5 DEF LiveOwns, RunningHeld
  <2>6. VerdictAgrees(h, n)
    <3> SUFFICES ASSUME h.nodes[n].status \in {"Succeeded", "Failed"}
                 PROVE  /\ h.nodes[n].attempts \in Numbers
                        /\ LastAttempt(h, n).result # NoResult
                        /\ LastAttempt(h, n).result.status = h.nodes[n].status
                        /\ LastAttempt(h, n).result.outcome = h.nodes[n].outcome
      BY DEF VerdictAgrees
    <3>1. h.nodes[n] = graph.nodes[n]
      BY <1>2, <1>5
    <3>2. /\ graph.nodes[n].status # "Running"
          /\ graph.nodes[n].status \in {"Succeeded", "Failed"}
      BY <3>1
    <3>3. /\ graph.nodes[n].attempts \in Numbers
          /\ graph.attempts[n][graph.nodes[n].attempts].state # "Running"
      BY <2>1, <3>2 DEF NodeInv, VerdictAgrees, Exclusive
    <3>4. LastAttempt(h, n) = LastAttempt(graph, n)
      BY <2>3, <3>3 DEF LastAttempt
    <3> QED BY <2>1, <3>1, <3>2, <3>3, <3>4 DEF NodeInv, VerdictAgrees
  <2> QED BY <2>2, <2>4, <2>5, <2>6 DEF NodeInv
<1>7. Final(graph, h)
  BY <1>3, <1>5 DEF GraphInv, NodeInv, RunningUnsettled, Final
<1> QED BY <1>4, <1>5, <1>6, <1>7 DEF GraphInv, h
-----------------------------------------------------------------------------
(* Bindings and fences.                                                    *)

(* The bindings are the live assignments, one per agent, and the fences    *)
(* that are active are those of the live assignments.                      *)
Linked(g, b, f) ==
    /\ b \subseteq BindingType
    /\ f \in [Nodes -> [Handoffs -> FenceType]]
    /\ \A n \in Nodes, j \in Handoffs :
          g.assignments[n][j].live <=> f[n][j].phase = "Active"
    /\ \A x \in b :
          /\ g.assignments[x.node][x.assignment].live
          /\ g.assignments[x.node][x.assignment].agent = x.agent
          /\ g.assignments[x.node][x.assignment].attempt = x.attempt
    /\ \A n \in Nodes, j \in Handoffs :
          g.assignments[n][j].live =>
             Binding(g.assignments[n][j].agent, n, g.assignments[n][j].attempt, j) \in b
    /\ \A x, y \in b : x.agent = y.agent => x = y

Inv == GraphInv(graph) /\ Linked(graph, bindings, fences)

LEMMA BindingFields ==
    ASSUME NEW a, NEW n, NEW k, NEW j
    PROVE  /\ Binding(a, n, k, j).agent = a /\ Binding(a, n, k, j).node = n
           /\ Binding(a, n, k, j).attempt = k /\ Binding(a, n, k, j).assignment = j
BY DEF Binding

LEMMA SameHolders ==
    ASSUME NEW g, NEW b, NEW f, Linked(g, b, f), NEW h, h.assignments = g.assignments
    PROVE  Linked(h, b, f)
BY DEF Linked

(* The nodes of S are let go of: their bindings are dropped and their      *)
(* active fences closed.                                                   *)
LEMMA LetGo ==
    ASSUME Linked(graph, bindings, fences), NEW S \in SUBSET Nodes,
           \A m \in Nodes, i \in Handoffs :
              /\ graph'.assignments[m][i].live <=> graph.assignments[m][i].live /\ m \notin S
              /\ graph'.assignments[m][i].agent = graph.assignments[m][i].agent
              /\ graph'.assignments[m][i].attempt = graph.assignments[m][i].attempt,
           UnbindNodes(S),
           fences' \in [Nodes -> [Handoffs -> FenceType]],
           \A m \in Nodes, i \in Handoffs :
              fences'[m][i].phase = "Active" <=> fences[m][i].phase = "Active" /\ m \notin S
    PROVE  Linked(graph', bindings', fences')
<1> DEFINE g == graph
           b == bindings
           f == fences
           h == graph'
           d == fences'
           c == bindings'
<1>1. /\ c = {x \in b : x.node \notin S}
      /\ c \subseteq BindingType /\ c \subseteq b
  BY DEF Linked, UnbindNodes
<1>2. \A n \in Nodes, j \in Handoffs :
         h.assignments[n][j].live <=> d[n][j].phase = "Active"
  BY DEF Linked
<1>3. ASSUME NEW x \in c
      PROVE  /\ h.assignments[x.node][x.assignment].live
             /\ h.assignments[x.node][x.assignment].agent = x.agent
             /\ h.assignments[x.node][x.assignment].attempt = x.attempt
  <2>1. x \in b /\ x.node \in Nodes /\ x.assignment \in Handoffs /\ x.node \notin S
    BY <1>1 DEF BindingType
  <2>2. /\ g.assignments[x.node][x.assignment].live
        /\ g.assignments[x.node][x.assignment].agent = x.agent
        /\ g.assignments[x.node][x.assignment].attempt = x.attempt
    BY <2>1, Zenon DEF Linked
  <2> QED BY <2>1, <2>2, Zenon
<1>4. ASSUME NEW n \in Nodes, NEW j \in Handoffs, h.assignments[n][j].live
      PROVE  Binding(h.assignments[n][j].agent, n, h.assignments[n][j].attempt, j) \in c
  <2>1. /\ g.assignments[n][j].live /\ n \notin S
        /\ h.assignments[n][j].agent = g.assignments[n][j].agent
        /\ h.assignments[n][j].attempt = g.assignments[n][j].attempt
    BY <1>4
  <2>2. Binding(g.assignments[n][j].agent, n, g.assignments[n][j].attempt, j) \in b
    BY <2>1 DEF Linked
  <2> QED BY <1>1, <2>1, <2>2, BindingFields
<1>5. \A x, y \in c : x.agent = y.agent => x = y
  BY <1>1 DEF Linked
<1>6. d \in [Nodes -> [Handoffs -> FenceType]]
  OBVIOUS
<1> HIDE DEF g, b, f, h, d, c
<1>7. Linked(h, c, d)
  BY <1>1, <1>2, <1>3, <1>4, <1>5, <1>6 DEF Linked
<1> QED BY <1>7 DEF h, c, d

(* Node n goes to w under assignment j of its attempt k, whoever had it.   *)
LEMMA HandOver ==
    ASSUME Linked(graph, bindings, fences),
           NEW n \in Nodes, NEW w \in Workers, NEW k \in Numbers, NEW j \in Handoffs,
           \A x \in bindings : x.agent = w => x.node = n,
           \A m \in Nodes, i \in Handoffs :
              m # n => graph'.assignments[m][i] = graph.assignments[m][i],
           \A i \in Handoffs : graph'.assignments[n][i].live <=> i = j,
           graph'.assignments[n][j].agent = w, graph'.assignments[n][j].attempt = k,
           bindings' = {x \in bindings : x.agent # w /\ x.node # n}
                         \cup {Binding(w, n, k, j)},
           fences' \in [Nodes -> [Handoffs -> FenceType]],
           \A m \in Nodes : m # n => fences'[m] = fences[m],
           \A i \in Handoffs : fences'[n][i].phase = "Active" <=> i = j
    PROVE  Linked(graph', bindings', fences')
<1> DEFINE g == graph
           b == bindings
           f == fences
           h == graph'
           d == fences'
           kept == {x \in b : x.agent # w /\ x.node # n}
           new == Binding(w, n, k, j)
           c == kept \cup {new}
<1>1. /\ new \in BindingType
      /\ new.agent = w /\ new.node = n /\ new.attempt = k /\ new.assignment = j
  BY DEF Binding, BindingType
<1>2. /\ \A x \in kept : x \in BindingType /\ x \in b /\ x.agent # w /\ x.node # n
      /\ \A x \in BindingType : x.node \in Nodes /\ x.assignment \in Handoffs
  BY DEF Linked, BindingType
<1>3. c \subseteq BindingType
  BY <1>1, <1>2
<1>4. ASSUME NEW m \in Nodes, NEW i \in Handoffs
      PROVE  h.assignments[m][i].live <=> d[m][i].phase = "Active"
  <2>1. CASE m = n
    BY <2>1
  <2>2. CASE m # n
    <3>1. h.assignments[m][i] = g.assignments[m][i] /\ d[m] = f[m]
      BY <2>2
    <3> QED BY <3>1 DEF Linked
  <2> QED BY <2>1, <2>2
<1>5. ASSUME NEW m \in Nodes, NEW i \in Handoffs, h.assignments[m][i].live
      PROVE  Binding(h.assignments[m][i].agent, m, h.assignments[m][i].attempt, i) \in c
  <2>1. CASE m = n
    BY <1>5, <2>1
  <2>2. CASE m # n
    <3>1. h.assignments[m][i] = g.assignments[m][i]
      BY <2>2
    <3>2. Binding(h.assignments[m][i].agent, m, h.assignments[m][i].attempt, i) \in b
      BY <1>5, <3>1 DEF Linked
    <3> QED BY <2>2, <3>2, BindingFields
  <2> QED BY <2>1, <2>2
<1> HIDE DEF kept, new
<1>6. ASSUME NEW x \in c
      PROVE  /\ h.assignments[x.node][x.assignment].live
             /\ h.assignments[x.node][x.assignment].agent = x.agent
             /\ h.assignments[x.node][x.assignment].attempt = x.attempt
  <2>1. CASE x = new
    BY <1>1, <2>1
  <2>2. CASE x \in kept
    <3>1. x \in b /\ x.node \in Nodes /\ x.assignment \in Handoffs /\ x.node # n
      BY <1>2, <2>2
    <3>2. h.assignments[x.node][x.assignment] = g.assignments[x.node][x.assignment]
      BY <3>1
    <3>3. /\ g.assignments[x.node][x.assignment].live
          /\ g.assignments[x.node][x.assignment].agent = x.agent
          /\ g.assignments[x.node][x.assignment].attempt = x.attempt
      BY <3>1 DEF Linked
    <3> HIDE DEF g, h
    <3> QED BY <3>2, <3>3
  <2>3. x = new \/ x \in kept
    OBVIOUS
  <2> HIDE DEF c
  <2> QED BY <2>1, <2>2, <2>3
<1>7. \A x, y \in c : x.agent = y.agent => x = y
  BY <1>1, <1>2 DEF Linked
<1> HIDE DEF c
<1>8. bindings' = c /\ d \in [Nodes -> [Handoffs -> FenceType]]
  BY DEF c, kept, new, b
<1> HIDE DEF g, b, f, h, d
<1>9. Linked(h, c, d)
  BY <1>3, <1>4, <1>5, <1>6, <1>7, <1>8 DEF Linked
<1> QED BY <1>8, <1>9 DEF h, d

(* Closing the fence of a node's holder leaves none of the node's active.  *)
LEMMA CloseEffect ==
    ASSUME NEW f \in [Nodes -> [Handoffs -> FenceType]], NEW n \in Nodes,
           NEW j \in 0..MaxHandoffs, NEW phase \in Phases, phase # "Active",
           \A i \in Handoffs : f[n][i].phase = "Active" => i = j
    PROVE  /\ Close(f, n, j, phase) \in [Nodes -> [Handoffs -> FenceType]]
           /\ \A m \in Nodes, i \in Handoffs :
                Close(f, n, j, phase)[m][i].phase = "Active" <=>
                    f[m][i].phase = "Active" /\ m \notin {n}
<1> DEFINE d == Close(f, n, j, phase)
<1>1. CASE j # 0 /\ f[n][j].phase = "Active"
  <2> DEFINE closed == [f[n][j] EXCEPT !.phase = phase]
  <2>1. j \in Handoffs
    BY <1>1, GraphAssumption DEF Handoffs
  <2>2. closed \in FenceType /\ closed.phase = phase
    <3>1. f[n][j] \in FenceType
      BY <2>1
    <3> QED BY <3>1 DEF FenceType
  <2>3. d = [f EXCEPT ![n][j] = closed]
    BY <1>1 DEF Close
  <2> HIDE DEF closed, d
  <2>4. d \in [Nodes -> [Handoffs -> FenceType]]
    BY <2>1, <2>2, <2>3
  <2>5. \A m \in Nodes, i \in Handoffs :
           d[m][i] = IF m = n /\ i = j THEN closed ELSE f[m][i]
    BY <2>1, <2>3
  <2> QED BY <2>2, <2>4, <2>5 DEF d
<1>2. CASE ~(j # 0 /\ f[n][j].phase = "Active")
  <2>1. d = f
    BY <1>2 DEF Close
  <2>2. \A i \in Handoffs : f[n][i].phase # "Active"
    BY <1>2, GraphAssumption DEF Handoffs
  <2> QED BY <2>1, <2>2
<1> QED BY <1>1, <1>2

(* The new fence of an attempt is the only active one of its node.         *)
LEMMA ActivateEffect ==
    ASSUME Linked(graph, bindings, fences), NEW n \in Nodes, NEW j \in Handoffs,
           NEW k \in Numbers, Activate(n, j, k),
           \A i \in Handoffs :
              graph.assignments[n][i].live => graph.assignments[n][i].attempt = k
    PROVE  /\ fences' \in [Nodes -> [Handoffs -> FenceType]]
           /\ \A m \in Nodes : m # n => fences'[m] = fences[m]
           /\ \A i \in Handoffs : fences'[n][i].phase = "Active" <=> i = j
<1> DEFINE row(gen) == [i \in Handoffs |->
                          IF i = j THEN [phase |-> "Active", generation |-> gen]
                          ELSE IF i \in OfAttempt(n, k) /\ fences[n][i].phase = "Active"
                               THEN [fences[n][i] EXCEPT !.phase = "Superseded"]
                               ELSE fences[n][i]]
<1>1. PICK gen \in Handoffs : fences' = [fences EXCEPT ![n] = row(gen)]
  BY DEF Activate
<1>2. fences \in [Nodes -> [Handoffs -> FenceType]]
  BY DEF Linked
<1>3. ASSUME NEW i \in Handoffs
      PROVE  row(gen)[i] \in FenceType /\ (row(gen)[i].phase = "Active" <=> i = j)
  <2>1. fences[n][i] \in FenceType /\ gen \in Nat
    BY <1>2, GraphAssumption DEF Handoffs
  <2>2. fences[n][i].phase = "Active" => i \in OfAttempt(n, k)
    BY DEF Linked, OfAttempt, NoFence
  <2>3. CASE i = j
    BY <2>1, <2>3 DEF FenceType, Phases
  <2>4. CASE i # j /\ fences[n][i].phase = "Active"
    BY <2>1, <2>2, <2>4 DEF FenceType, Phases
  <2>5. CASE i # j /\ fences[n][i].phase # "Active"
    BY <2>1, <2>5
  <2> QED BY <2>3, <2>4, <2>5
<1>4. row(gen) \in [Handoffs -> FenceType]
  BY <1>3
<1> HIDE DEF row
<1> QED BY <1>1, <1>2, <1>3, <1>4
-----------------------------------------------------------------------------
(* The actions.                                                            *)

(* An invariant graph and the bindings and fences that follow it, in the   *)
(* next state; every result stands.                                        *)
Kept == Inv' /\ Final(graph, graph')

LEMMA ReportIsReportType ==
    ASSUME NEW r \in Reports
    PROVE  r \in ReportType
BY ReportAssumption DEF ReportType

(* The assignment `complete` and `fail` find is the only live one.         *)
LEMMA OnlyHolder ==
    ASSUME Inv, NEW n \in Nodes, NEW h \in LiveAssignee(graph, n)
    PROVE  /\ h \in 0..MaxHandoffs
           /\ \A i \in Handoffs : graph.assignments[n][i].live => i = h
           /\ \A i \in Handoffs : fences[n][i].phase = "Active" => i = h
<1>1. \A i \in Handoffs : graph.assignments[n][i].live => i = h
  <2>1. CASE LiveAssignments(graph, n) = {}
    BY <2>1 DEF LiveAssignments
  <2>2. CASE LiveAssignments(graph, n) # {}
    <3>1. h \in Handoffs /\ graph.assignments[n][h].live
      BY <2>2 DEF LiveAssignee, LiveAssignments
    <3> QED BY <3>1, RunningNodeHolder DEF Inv
  <2> QED BY <2>1, <2>2
<1>2. h \in 0..MaxHandoffs
  BY GraphAssumption DEF LiveAssignee, LiveAssignments, Handoffs
<1> QED BY <1>1, <1>2 DEF Inv, Linked

LEMMA InitInv == Init => Inv
<1> SUFFICES ASSUME Init PROVE Inv
  OBVIOUS
<1>1. /\ \A n \in Nodes : graph.nodes[n] =
           [status |-> "Pending", outcome |-> "None", attempts |-> 0]
      /\ \A n \in Nodes, k \in Numbers : graph.attempts[n][k] = NoAttempt
      /\ \A n \in Nodes, j \in Handoffs : graph.assignments[n][j] = NoAssignment
      /\ \A n \in Nodes, j \in Handoffs : fences[n][j] = NoFence
  BY DEF Init
<1>2. graph \in GraphType
  <2>1. [status |-> "Pending", outcome |-> "None", attempts |-> 0] \in NodeType
    BY GraphAssumption DEF NodeType, Statuses, Outcomes
  <2>2. NoAttempt \in AttemptType
    BY GraphAssumption DEF NoAttempt, NoResult, AttemptType, ResultType, Outcomes, Levels
  <2>3. NoAssignment \in AssignmentType
    BY GraphAssumption DEF NoAssignment, AssignmentType
  <2> QED BY <2>1, <2>2, <2>3 DEF Init, GraphType
<1>3. fences \in [Nodes -> [Handoffs -> FenceType]]
  <2>1. NoFence \in FenceType
    BY DEF NoFence, FenceType
  <2> QED BY <2>1 DEF Init
<1>4. /\ NoAttempt.state = "None" /\ ~NoAssignment.live /\ NoFence.phase = "None"
  BY DEF NoAttempt, NoAssignment, NoFence
<1>5. ASSUME NEW n \in Nodes PROVE NodeInv(graph, n)
  <2>1. Exclusive(graph, n) /\ RunningOpened(graph, n) /\ RunningUnsettled(graph, n)
    BY <1>1, <1>4 DEF Exclusive, RunningOpened, RunningUnsettled
  <2>2. UnopenedBlank(graph, n) /\ LiveOwns(graph, n)
    BY <1>1, <1>4 DEF UnopenedBlank, LiveOwns
  <2>3. RunningHeld(graph, n) /\ VerdictAgrees(graph, n)
    <3>1. RunningHeld(graph, n)
      BY <1>1, <1>4 DEF RunningHeld
    <3>2. VerdictAgrees(graph, n)
      BY <1>1 DEF VerdictAgrees
    <3> QED BY <3>1, <3>2
  <2> QED BY <2>1, <2>2, <2>3 DEF NodeInv
<1>6. Linked(graph, bindings, fences)
  BY <1>1, <1>3, <1>4 DEF Linked, Init
<1> QED BY <1>2, <1>5, <1>6 DEF Inv, GraphInv

LEMMA StartKeeps ==
    ASSUME Inv, NEW a \in Agents, NEW n \in Nodes, Start(a, n)
    PROVE  Kept
<1>1. /\ GraphInv(graph') /\ Final(graph, graph')
      /\ graph'.assignments = graph.assignments
  BY OpenKeepsGraphInv DEF Inv, Start
<1>2. Linked(graph', bindings, fences)
  BY <1>1, SameHolders DEF Inv
<1> QED BY <1>1, <1>2 DEF Kept, Inv, Start

(* Nothing is disturbed when an idle node is set aside or made pending.    *)
LEMMA SetStatusKeeps ==
    ASSUME Inv, NEW n \in Nodes, graph.nodes[n].status # "Running",
           NEW status \in SetAside, NEW out \in Outcomes,
           SetStatus(n, status, out), UNCHANGED <<bindings, fences>>
    PROVE  Kept
<1> DEFINE g == graph
           h == graph'
           node == [g.nodes[n] EXCEPT !.status = status, !.outcome = out]
<1>1. g \in GraphType /\ g.nodes[n] \in NodeType /\ NodeInv(g, n)
  BY DEF Inv, GraphInv, GraphType
<1>2. /\ node \in NodeType /\ node.status = status /\ node.attempts = g.nodes[n].attempts
  BY <1>1 DEF NodeType, Statuses, Settlements, SetAside
<1>3. h = [g EXCEPT !.nodes[n] = node]
  BY DEF SetStatus
<1> HIDE DEF node, g, h
<1>4. /\ h \in GraphType /\ h.attempts = g.attempts /\ h.assignments = g.assignments
      /\ \A m \in Nodes : h.nodes[m] = IF m = n THEN node ELSE g.nodes[m]
  BY <1>1, <1>2, <1>3 DEF GraphType
<1>5. NodeInv(h, n)
  <2>1. h.nodes[n].status # "Running" /\ h.nodes[n].status \notin {"Succeeded", "Failed"}
    BY <1>2, <1>4 DEF SetAside
  <2>2. Exclusive(h, n) /\ RunningOpened(h, n) /\ RunningUnsettled(h, n)
    <3>1. h.attempts = g.attempts /\ g.nodes[n].status # "Running"
      BY <1>4 DEF g
    <3> QED BY <1>1, <2>1, <3>1 DEF NodeInv, Exclusive, RunningOpened, RunningUnsettled
  <2>3. UnopenedBlank(h, n) /\ VerdictAgrees(h, n)
    BY <1>1, <1>2, <1>4, <2>1 DEF NodeInv, UnopenedBlank, VerdictAgrees
  <2>4. LiveOwns(h, n) /\ RunningHeld(h, n)
    <3>1. h.attempts = g.attempts /\ h.assignments = g.assignments
      BY <1>4
    <3> QED BY ZenonT(60), <1>1, <3>1 DEF NodeInv, LiveOwns, RunningHeld
  <2> QED BY <2>2, <2>3, <2>4 DEF NodeInv
<1>6. ASSUME NEW m \in Nodes, m # n PROVE NodeInv(h, m)
  BY <1>1, <1>4, <1>6, UntouchedNode DEF Inv, GraphInv, g
<1>7. Final(g, h)
  BY <1>4 DEF Final
<1>8. Linked(graph', bindings, fences)
  BY <1>4, SameHolders DEF Inv, g, h
<1> QED BY <1>4, <1>5, <1>6, <1>7, <1>8 DEF Kept, Inv, GraphInv, g, h

LEMMA AssignKeeps ==
    ASSUME Inv, NEW n \in Nodes, NEW w \in Workers, Assign(n, w)
    PROVE  Kept
<1> DEFINE k == graph.nodes[n].attempts + 1
<1>1. PICK j \in FreeHandoff(graph, n) :
         /\ graph' = AddAssignment(OpenAttempt(graph, n, w, j), n, j, k, w)
         /\ Bind(w, n, k, j)
         /\ Activate(n, j, k)
  BY DEF Assign
<1>2. j \in Handoffs /\ w \in Agents /\ Claimable(graph, n) /\ ~AgentIsOccupied(w, n)
  BY DEF FreeHandoff, Workers, Assign
<1>3. \A i \in Handoffs : ~graph.assignments[n][i].live
  BY <1>2, ClaimableIsIdle DEF Inv
<1>4. /\ GraphInv(graph') /\ Final(graph, graph') /\ k \in Numbers
      /\ \A m \in Nodes, i \in Handoffs : graph'.assignments[m][i] =
           IF m = n /\ i = j THEN [attempt |-> k, agent |-> w, live |-> TRUE, notices |-> 0]
           ELSE graph.assignments[m][i]
  BY <1>1, <1>2, AssignKeepsGraphInv DEF Inv
<1> HIDE DEF k
<1>5. /\ fences' \in [Nodes -> [Handoffs -> FenceType]]
      /\ \A m \in Nodes : m # n => fences'[m] = fences[m]
      /\ \A i \in Handoffs : fences'[n][i].phase = "Active" <=> i = j
  BY <1>1, <1>2, <1>3, <1>4, ActivateEffect DEF Inv
<1>6. \A x \in bindings : x.node # n
  BY <1>3, SMTT(30) DEF Inv, Linked, BindingType
<1>7. \A x \in bindings : x.agent = w => x.node = n
  BY <1>2 DEF AgentIsOccupied
<1>8. bindings' = {x \in bindings : x.agent # w /\ x.node # n} \cup {Binding(w, n, k, j)}
  BY <1>1, <1>6 DEF Bind
<1>9. /\ \A m \in Nodes, i \in Handoffs :
           m # n => graph'.assignments[m][i] = graph.assignments[m][i]
      /\ \A i \in Handoffs : graph'.assignments[n][i].live <=> i = j
      /\ graph'.assignments[n][j].agent = w /\ graph'.assignments[n][j].attempt = k
  BY <1>2, <1>3, <1>4
<1>10. Linked(graph', bindings', fences')
  BY <1>2, <1>4, <1>5, <1>7, <1>8, <1>9, HandOver DEF Inv
<1> QED BY <1>4, <1>10 DEF Kept, Inv
LEMMA ReassignKeeps ==
    ASSUME Inv, NEW n \in Nodes, NEW w \in Workers, Reassign(n, w)
    PROVE  Kept
<1> DEFINE k == graph.nodes[n].attempts
<1>1. PICK j \in FreeHandoff(graph, n) :
         /\ graph' = AddAssignment(PassOn(graph, n, w, j), n, j, k, w)
         /\ bindings' = {b \in bindings : b.agent # w /\ b.node # n}
                          \cup {Binding(w, n, k, j)}
         /\ Activate(n, j, k)
  BY DEF Reassign, PassOn
<1>2. /\ j \in Handoffs /\ graph.assignments[n][j] = NoAssignment /\ w \in Agents
      /\ graph.nodes[n].status = "Running" /\ ~AgentIsOccupied(w, n)
  BY DEF FreeHandoff, Workers, Reassign
<1>3. /\ GraphInv(graph') /\ Final(graph, graph') /\ k \in Numbers
      /\ \A m \in Nodes, i \in Handoffs :
           m # n => graph'.assignments[m][i] = graph.assignments[m][i]
      /\ \A i \in Handoffs : graph'.assignments[n][i].live <=> i = j
      /\ graph'.assignments[n][j].agent = w /\ graph'.assignments[n][j].attempt = k
  <2>1. GraphInv(graph)
    BY DEF Inv
  <2>2. HandedTo(graph, graph', n, w, j, k)
    BY <1>1, <1>2, <2>1, HandOffKeepsGraphInv, Zenon
  <2> HIDE DEF k
  <2> QED BY <2>2, Zenon DEF HandedTo
<1>4. \A i \in Handoffs :
         graph.assignments[n][i].live => graph.assignments[n][i].attempt = k
  BY RunningNodeHolder DEF Inv
<1> HIDE DEF k
<1>5. /\ fences' \in [Nodes -> [Handoffs -> FenceType]]
      /\ \A m \in Nodes : m # n => fences'[m] = fences[m]
      /\ \A i \in Handoffs : fences'[n][i].phase = "Active" <=> i = j
  BY <1>1, <1>2, <1>3, <1>4, ActivateEffect DEF Inv
<1>6. \A x \in bindings : x.agent = w => x.node = n
  BY <1>2 DEF AgentIsOccupied
<1>7. Linked(graph', bindings', fences')
  BY <1>1, <1>2, <1>3, <1>5, <1>6, HandOver DEF Inv
<1> QED BY <1>3, <1>7 DEF Kept, Inv

LEMMA NotifyKeepsGraphInv ==
    ASSUME NEW g, GraphInv(g), NEW n \in Nodes, NEW j \in Handoffs
    PROVE  GraphInv(Notify(g, n, j)) /\ Final(g, Notify(g, n, j))
<1> DEFINE h == Notify(g, n, j)
<1>1. /\ h \in GraphType
      /\ h.nodes = g.nodes /\ h.attempts = g.attempts
      /\ \A m \in Nodes, i \in Handoffs :
           /\ h.assignments[m][i].live = g.assignments[m][i].live
           /\ h.assignments[m][i].agent = g.assignments[m][i].agent
           /\ h.assignments[m][i].attempt = g.assignments[m][i].attempt
  BY NotifyEffect DEF GraphInv
<1> HIDE DEF h
<1>2. ASSUME NEW m \in Nodes PROVE NodeInv(h, m)
  <2>1. NodeInv(g, m)
    BY DEF GraphInv
  <2>2. Exclusive(h, m) /\ RunningOpened(h, m) /\ RunningUnsettled(h, m)
    <3>1. Exclusive(h, m)
      BY <1>1, <2>1 DEF NodeInv, Exclusive
    <3>2. RunningOpened(h, m)
      BY <1>1, <2>1 DEF NodeInv, RunningOpened
    <3>3. RunningUnsettled(h, m)
      BY <1>1, <2>1 DEF NodeInv, RunningUnsettled
    <3> QED BY <3>1, <3>2, <3>3
  <2>3. UnopenedBlank(h, m) /\ VerdictAgrees(h, m)
    BY <1>1, <2>1 DEF NodeInv, UnopenedBlank, VerdictAgrees, LastAttempt
  <2>4. LiveOwns(h, m)
    <3> SUFFICES ASSUME NEW i \in Handoffs, h.assignments[m][i].live
                 PROVE  LET k == h.assignments[m][i].attempt
                        IN  /\ k \in Numbers /\ h.attempts[m][k].state = "Running"
                            /\ h.attempts[m][k].assignment = i
                            /\ h.attempts[m][k].agent = h.assignments[m][i].agent
      BY Zenon DEF LiveOwns
    <3>1. /\ g.assignments[m][i].live
          /\ h.assignments[m][i].agent = g.assignments[m][i].agent
          /\ h.assignments[m][i].attempt = g.assignments[m][i].attempt
      BY <1>1, Zenon
    <3>2. LiveOwns(g, m)
      BY <2>1 DEF NodeInv
    <3>3. LET k == g.assignments[m][i].attempt
          IN  /\ k \in Numbers /\ g.attempts[m][k].state = "Running"
              /\ g.attempts[m][k].assignment = i
              /\ g.attempts[m][k].agent = g.assignments[m][i].agent
      BY <3>1, <3>2, Zenon DEF LiveOwns
    <3> QED BY <1>1, <3>1, <3>3, Zenon
  <2>5. RunningHeld(h, m)
    <3> SUFFICES ASSUME NEW k \in Numbers, h.attempts[m][k].state = "Running",
                        h.attempts[m][k].assignment # 0
                 PROVE  /\ h.assignments[m][h.attempts[m][k].assignment].live
                        /\ h.assignments[m][h.attempts[m][k].assignment].attempt = k
      BY Zenon DEF RunningHeld
    <3> DEFINE i == g.attempts[m][k].assignment
    <3>1. h.attempts[m][k] = g.attempts[m][k]
      BY <1>1, Zenon
    <3>2. i \in Handoffs
      <4>1. g.attempts[m][k] \in AttemptType
        BY DEF GraphInv, GraphType
      <4>2. g.attempts[m][k].assignment \in 0..MaxHandoffs
        BY <4>1 DEF AttemptType
      <4> QED BY <3>1, <4>2, GraphAssumption DEF Handoffs
    <3>3. /\ g.assignments[m][i].live
          /\ g.assignments[m][i].attempt = k
      <4>1. RunningHeld(g, m)
        BY <2>1 DEF NodeInv
      <4>2. g.attempts[m][k].state = "Running" /\ g.attempts[m][k].assignment # 0
        BY <3>1, Zenon
      <4> QED BY ONLY <4>1, <4>2, k \in Numbers, Zenon DEF RunningHeld
    <3> HIDE DEF i
    <3>4. /\ h.assignments[m][i].live = g.assignments[m][i].live
          /\ h.assignments[m][i].attempt = g.assignments[m][i].attempt
      BY ONLY <1>1, <3>2, Zenon
    <3> QED BY <3>1, <3>3, <3>4, Zenon DEF i
  <2> QED BY <2>2, <2>3, <2>4, <2>5 DEF NodeInv
<1>3. Final(g, h)
  BY <1>1 DEF Final
<1> QED BY <1>1, <1>2, <1>3 DEF GraphInv, h

LEMMA SettleAssignmentKeeps ==
    ASSUME Inv, NEW n \in Nodes, NEW j \in Handoffs, NEW r \in Reports,
           SettleAssignment(n, j, r)
    PROVE  Kept
<1> DEFINE k == graph.nodes[n].attempts
           p == graph.assignments[n][j].agent
           e == Release(RecordResult(graph, n, k, r, p), n, j)
           f == FireFeedback(e, n)
<1>1. /\ graph.assignments[n][j].live /\ graph.nodes[n].status = "Running"
      /\ graph.assignments[n][j].attempt = k
      /\ \A i \in Handoffs : graph.assignments[n][i].live => i = j
  <2>1. GraphInv(graph) /\ graph.assignments[n][j].live
    BY DEF SettleAssignment, Inv
  <2>2. graph.nodes[n].status = "Running" /\ graph.assignments[n][j].attempt = k
    BY <2>1, RunningNodeHolder
  <2>3. ASSUME NEW i \in Handoffs, graph.assignments[n][i].live PROVE i = j
    <3>1. LastAttempt(graph, n).assignment = i
      BY <2>1, <2>3, RunningNodeHolder
    <3>2. LastAttempt(graph, n).assignment = j
      BY <2>1, RunningNodeHolder
    <3> QED BY <3>1, <3>2
  <2> QED BY <2>1, <2>2, <2>3
<1>2. /\ graph' = Notify(f, n, j)
      /\ bindings' = {b \in bindings : ~(b.node = n /\ b.assignment = j)}
      /\ fences' = Close(fences, n, j, PhaseOf(r.status))
  BY <1>1 DEF SettleAssignment
<1>3. /\ r \in ReportType /\ p \in Producers /\ j \in 0..MaxHandoffs
      /\ PhaseOf(r.status) \in Phases /\ PhaseOf(r.status) # "Active"
  <2>1. r \in ReportType
    BY ReportIsReportType
  <2>2. graph.assignments[n][j] \in AssignmentType
    BY DEF Inv, GraphInv, GraphType
  <2> QED BY <2>1, <2>2, GraphAssumption
          DEF AssignmentType, Producers, PhaseOf, Phases, Handoffs
<1> HIDE DEF p
<1>4. /\ GraphInv(e) /\ Final(graph, e)
      /\ \A m \in Nodes, i \in Handoffs :
           /\ e.assignments[m][i].live <=> graph.assignments[m][i].live /\ m # n
           /\ e.assignments[m][i].agent = graph.assignments[m][i].agent
           /\ e.assignments[m][i].attempt = graph.assignments[m][i].attempt
  <2>1. GraphInv(graph)
    BY DEF Inv
  <2>2. /\ graph.nodes[n].status = "Running"
        /\ \A i \in Handoffs : graph.assignments[n][i].live => i = j
    BY <1>1
  <2>3. r \in ReportType /\ p \in Producers /\ j \in 0..MaxHandoffs
    BY <1>3
  <2>4. Ended(graph, e, n)
    BY <2>1, <2>2, <2>3, EndKeepsGraphInv, Zenon
  <2> HIDE DEF e
  <2> QED BY <2>4, Zenon DEF Ended
<1> HIDE DEF k, e
<1>5. GraphInv(f) /\ Final(e, f) /\ f.assignments = e.assignments
  BY <1>4, FeedbackKeepsGraphInv
<1> HIDE DEF f
<1>6. GraphInv(graph') /\ Final(f, graph')
  BY <1>2, <1>5, NotifyKeepsGraphInv
<1>7. Final(graph, graph')
  BY <1>4, <1>5, <1>6, FinalIsTransitive
<1>8. \A m \in Nodes, i \in Handoffs :
        /\ graph'.assignments[m][i].live <=> graph.assignments[m][i].live /\ m \notin {n}
        /\ graph'.assignments[m][i].agent = graph.assignments[m][i].agent
        /\ graph'.assignments[m][i].attempt = graph.assignments[m][i].attempt
  <2>1. f \in GraphType
    BY <1>5 DEF GraphInv
  <2>2. \A m \in Nodes, i \in Handoffs :
          /\ graph'.assignments[m][i].live = f.assignments[m][i].live
          /\ graph'.assignments[m][i].agent = f.assignments[m][i].agent
          /\ graph'.assignments[m][i].attempt = f.assignments[m][i].attempt
    BY <1>2, <2>1, NotifyEffect
  <2> QED BY <1>4, <1>5, <2>2
<1>9. UnbindNodes({n})
  <2>1. \A b \in bindings : b.node = n => b.assignment = j
    BY <1>1 DEF Inv, Linked, BindingType
  <2> QED BY <1>2, <2>1 DEF UnbindNodes
<1>10. /\ fences' \in [Nodes -> [Handoffs -> FenceType]]
       /\ \A m \in Nodes, i \in Handoffs :
            fences'[m][i].phase = "Active" <=> fences[m][i].phase = "Active" /\ m \notin {n}
  <2>1. \A i \in Handoffs : fences[n][i].phase = "Active" => i = j
    BY <1>1 DEF Inv, Linked
  <2>2. fences \in [Nodes -> [Handoffs -> FenceType]]
    BY DEF Inv, Linked
  <2> QED BY <1>2, <1>3, <2>1, <2>2, CloseEffect
<1>11. Linked(graph', bindings', fences')
  BY <1>8, <1>9, <1>10, LetGo DEF Inv
<1> QED BY <1>6, <1>7, <1>11 DEF Kept, Inv
LEMMA FailKeeps ==
    ASSUME Inv, NEW a \in Agents, NEW n \in Nodes, NEW r \in Reports, Fail(a, n, r)
    PROVE  Kept
<1>1. PICK h \in LiveAssignee(graph, n) :
         /\ MaySettle(graph, n, h, a)
         /\ graph' = SettleNodeIn(graph, n, h, a, r)
         /\ UnbindNodes({n})
         /\ fences' = Close(fences, n, h, "Failed")
  BY DEF Fail
<1>2. /\ h \in 0..MaxHandoffs
      /\ \A i \in Handoffs : graph.assignments[n][i].live => i = h
      /\ \A i \in Handoffs : fences[n][i].phase = "Active" => i = h
  BY OnlyHolder
<1>3. /\ GraphInv(graph') /\ Final(graph, graph')
      /\ \A m \in Nodes, i \in Handoffs :
           /\ graph'.assignments[m][i].live <=> graph.assignments[m][i].live /\ m \notin {n}
           /\ graph'.assignments[m][i].agent = graph.assignments[m][i].agent
           /\ graph'.assignments[m][i].attempt = graph.assignments[m][i].attempt
  <2>1. r \in ReportType
    BY ReportIsReportType
  <2> QED BY <1>1, <1>2, <2>1, SettleNodeKeepsGraphInv DEF Inv
<1>4. /\ fences' \in [Nodes -> [Handoffs -> FenceType]]
      /\ \A m \in Nodes, i \in Handoffs :
           fences'[m][i].phase = "Active" <=> fences[m][i].phase = "Active" /\ m \notin {n}
  <2>1. /\ fences \in [Nodes -> [Handoffs -> FenceType]] /\ "Failed" \in Phases
        /\ \A i \in Handoffs : fences[n][i].phase = "Active" => i = h
        /\ h \in 0..MaxHandoffs
    BY <1>2 DEF Inv, Linked, Phases
  <2>2. fences' = Close(fences, n, h, "Failed")
    BY <1>1
  <2> QED BY <2>1, <2>2, CloseEffect
<1>5. Linked(graph', bindings', fences')
  BY <1>1, <1>3, <1>4, LetGo DEF Inv
<1> QED BY <1>3, <1>5 DEF Kept, Inv

(* `complete` closes every active fence of the nodes it completes.         *)
LEMMA CloseAllEffect ==
    ASSUME Inv, NEW S \in SUBSET Nodes, CloseAll(S)
    PROVE  /\ fences' \in [Nodes -> [Handoffs -> FenceType]]
           /\ \A m \in Nodes, i \in Handoffs :
                fences'[m][i].phase = "Active" <=> fences[m][i].phase = "Active" /\ m \notin S
<1> DEFINE fence(n, j) ==
             IF n \in S /\ j \in LiveAssignments(graph, n) /\ fences[n][j].phase = "Active"
             THEN [fences[n][j] EXCEPT !.phase = "Succeeded"] ELSE fences[n][j]
<1>1. ASSUME NEW n \in Nodes, NEW j \in Handoffs
      PROVE  /\ fence(n, j) \in FenceType
             /\ fence(n, j).phase = "Active" <=> fences[n][j].phase = "Active" /\ n \notin S
  <2>1. fences[n][j] \in FenceType
    BY DEF Inv, Linked
  <2>2. j \in LiveAssignments(graph, n) <=> fences[n][j].phase = "Active"
    BY DEF Inv, Linked, LiveAssignments
  <2> QED BY <2>1, <2>2 DEF FenceType, Phases
<1>2. fences' = [n \in Nodes |-> [j \in Handoffs |-> fence(n, j)]]
  BY DEF CloseAll
<1> HIDE DEF fence
<1> QED BY <1>1, <1>2

LEMMA CompleteKeeps ==
    ASSUME Inv, NEW a \in Agents, NEW n \in Nodes, NEW r \in Reports, Complete(a, n, r)
    PROVE  Kept
<1>1. PICK h \in LiveAssignee(graph, n) :
         /\ MaySettle(graph, n, h, a)
         /\ graph' = SettleNodeIn(graph, n, h, a, r)
         /\ UnbindNodes({n})
         /\ CloseAll({n})
  BY DEF Complete
<1>2. /\ h \in 0..MaxHandoffs
      /\ \A i \in Handoffs : graph.assignments[n][i].live => i = h
  BY OnlyHolder
<1>3. /\ GraphInv(graph') /\ Final(graph, graph')
      /\ \A m \in Nodes, i \in Handoffs :
           /\ graph'.assignments[m][i].live <=> graph.assignments[m][i].live /\ m \notin {n}
           /\ graph'.assignments[m][i].agent = graph.assignments[m][i].agent
           /\ graph'.assignments[m][i].attempt = graph.assignments[m][i].attempt
  <2>1. r \in ReportType
    BY ReportIsReportType
  <2> QED BY <1>1, <1>2, <2>1, SettleNodeKeepsGraphInv DEF Inv
<1>4. Linked(graph', bindings', fences')
  BY <1>1, <1>3, CloseAllEffect, LetGo DEF Inv
<1> QED BY <1>3, <1>4 DEF Kept, Inv

LEMMA CompleteBatchKeeps ==
    ASSUME Inv, NEW a \in Agents, NEW m \in Nodes, NEW n \in Nodes, NEW r \in Reports,
           CompleteBatch(a, m, n, r)
    PROVE  Kept
<1>1. PICK h \in LiveAssignee(graph, m), i \in LiveAssignee(graph, n) :
         /\ MaySettle(graph, m, h, a)
         /\ MaySettle(SettleNodeIn(graph, m, h, a, r), n, i, a)
         /\ graph' = SettleNodeIn(SettleNodeIn(graph, m, h, a, r), n, i, a, r)
         /\ UnbindNodes({m, n})
         /\ CloseAll({m, n})
  BY DEF CompleteBatch
<1> DEFINE first == SettleNodeIn(graph, m, h, a, r)
<1>2. /\ h \in 0..MaxHandoffs
      /\ \A x \in Handoffs : graph.assignments[m][x].live => x = h
      /\ i \in 0..MaxHandoffs
      /\ \A x \in Handoffs : graph.assignments[n][x].live => x = i
  BY OnlyHolder
<1>3. r \in ReportType
  BY ReportIsReportType
<1>4. /\ GraphInv(first) /\ Final(graph, first)
      /\ \A y \in Nodes, x \in Handoffs :
           /\ first.assignments[y][x].live <=> graph.assignments[y][x].live /\ y # m
           /\ first.assignments[y][x].agent = graph.assignments[y][x].agent
           /\ first.assignments[y][x].attempt = graph.assignments[y][x].attempt
  BY <1>1, <1>2, <1>3, SettleNodeKeepsGraphInv DEF Inv
<1>5. MaySettle(first, n, i, a) /\ graph' = SettleNodeIn(first, n, i, a, r)
  BY <1>1
<1> HIDE DEF first
<1>6. /\ GraphInv(graph') /\ Final(first, graph')
      /\ \A y \in Nodes, x \in Handoffs :
           /\ graph'.assignments[y][x].live <=> first.assignments[y][x].live /\ y # n
           /\ graph'.assignments[y][x].agent = first.assignments[y][x].agent
           /\ graph'.assignments[y][x].attempt = first.assignments[y][x].attempt
  <2>1. \A x \in Handoffs : first.assignments[n][x].live => x = i
    BY <1>2, <1>4
  <2> QED BY <1>2, <1>3, <1>4, <1>5, <2>1, SettleNodeKeepsGraphInv
<1>7. Final(graph, graph')
  BY <1>4, <1>6, FinalIsTransitive
<1>8. \A y \in Nodes, x \in Handoffs :
        /\ graph'.assignments[y][x].live <=> graph.assignments[y][x].live /\ y \notin {m, n}
        /\ graph'.assignments[y][x].agent = graph.assignments[y][x].agent
        /\ graph'.assignments[y][x].attempt = graph.assignments[y][x].attempt
  BY <1>4, <1>6
<1>9. Linked(graph', bindings', fences')
  BY <1>1, <1>8, CloseAllEffect, LetGo DEF Inv
<1> QED BY <1>6, <1>7, <1>9 DEF Kept, Inv

LEMMA CancelRunningKeeps ==
    ASSUME Inv, NEW a \in Agents, NEW n \in Nodes, CancelRunning(a, n)
    PROVE  Kept
<1> DEFINE k == graph.nodes[n].attempts
           r == [status |-> "Cancelled", outcome |-> "Cancelled", level |-> 0]
           p == LastAttempt(graph, n).agent
           j == LastAttempt(graph, n).assignment
<1>1. /\ graph.nodes[n].status = "Running"
      /\ graph' = Release(RecordResult(graph, n, k, r, p), n, j)
      /\ UnbindNodes({n})
      /\ fences' = Close(fences, n, j, "Cancelled")
  BY DEF CancelRunning
<1>2. r \in ReportType
  BY DEF ReportType, Settlements, Outcomes, Levels
<1>3. p \in Producers /\ j \in 0..MaxHandoffs
  <2>1. LastAttempt(graph, n) \in AttemptType
    BY <1>1 DEF Inv, GraphInv, NodeInv, RunningOpened, GraphType, LastAttempt
  <2> QED BY <2>1 DEF AttemptType, Producers
<1>4. \A i \in Handoffs : graph.assignments[n][i].live => i = j
  BY RunningNodeHolder DEF Inv
<1> HIDE DEF r, p, j
<1>5. /\ GraphInv(graph') /\ Final(graph, graph')
      /\ \A m \in Nodes, i \in Handoffs :
           /\ graph'.assignments[m][i].live <=> graph.assignments[m][i].live /\ m \notin {n}
           /\ graph'.assignments[m][i].agent = graph.assignments[m][i].agent
           /\ graph'.assignments[m][i].attempt = graph.assignments[m][i].attempt
  <2>1. GraphInv(graph)
    BY DEF Inv
  <2>2. Ended(graph, graph', n)
    BY <1>1, <1>2, <1>3, <1>4, <2>1, EndKeepsGraphInv, Zenon
  <2> QED BY <2>2 DEF Ended
<1>6. /\ fences' \in [Nodes -> [Handoffs -> FenceType]]
      /\ \A m \in Nodes, i \in Handoffs :
           fences'[m][i].phase = "Active" <=> fences[m][i].phase = "Active" /\ m \notin {n}
  <2>1. /\ fences \in [Nodes -> [Handoffs -> FenceType]] /\ "Cancelled" \in Phases
        /\ \A i \in Handoffs : fences[n][i].phase = "Active" => i = j
    BY <1>4 DEF Inv, Linked, Phases
  <2>2. fences' = Close(fences, n, j, "Cancelled") /\ j \in 0..MaxHandoffs
    BY <1>1, <1>3
  <2> QED BY <2>1, <2>2, CloseEffect
<1>7. Linked(graph', bindings', fences')
  BY ZenonT(60), <1>1, <1>5, <1>6, LetGo DEF Inv
<1> QED BY <1>5, <1>7 DEF Kept, Inv

LEMMA ReconcileKeeps ==
    ASSUME Inv, Reconcile
    PROVE  Kept
<1>1. /\ GraphInv(graph') /\ Final(graph, graph')
      /\ \A n \in Nodes, j \in Handoffs : ~graph'.assignments[n][j].live
  BY ReconcileKeepsGraphInv DEF Inv
<1> DEFINE fence(n, j) == IF j \in LeftBehind(n) /\ fences[n][j].phase = "Active"
                          THEN [fences[n][j] EXCEPT !.phase = "Interrupted"]
                          ELSE fences[n][j]
<1>2. ASSUME NEW n \in Nodes, NEW j \in Handoffs
      PROVE  fence(n, j) \in FenceType /\ fence(n, j).phase # "Active"
  <2>1. fences[n][j] \in FenceType
    BY DEF Inv, Linked
  <2>2. fences[n][j].phase = "Active" => j \in LeftBehind(n)
    <3>1. fences[n][j].phase = "Active" => graph.assignments[n][j].live
      BY DEF Inv, Linked
    <3>2. NodeInv(graph, n)
      BY DEF Inv, GraphInv
    <3> QED BY <3>1, <3>2 DEF NodeInv, LiveOwns, RunningUnsettled, LeftBehind, Interrupted
  <2> QED BY <2>1, <2>2 DEF FenceType, Phases
<1>3. fences' = [n \in Nodes |-> [j \in Handoffs |-> fence(n, j)]]
  BY DEF Reconcile
<1>4. bindings' = {}
  BY DEF Reconcile
<1> HIDE DEF fence
<1>5. Linked(graph', bindings', fences')
  BY <1>1, <1>2, <1>3, <1>4 DEF Linked
<1> QED BY <1>1, <1>5 DEF Kept, Inv
-----------------------------------------------------------------------------
(* The theorems.  They are about callers that never block a running node,  *)
(* which is what CancelLeavesNothing is refuted with.                      *)

LEMMA OperationKeeps ==
    ASSUME "Running" \notin BlockFrom, Inv, Operation
    PROVE  Kept
<1>1. ASSUME NEW a \in Agents, NEW n \in Nodes,
             Start(a, n) \/ Block(a, n) \/ Unblock(a, n) \/ Retry(a, n) \/ Cancel(a, n)
      PROVE  Kept
  <2>1. CASE Start(a, n)
    BY <2>1, StartKeeps
  <2>2. CASE Block(a, n)
    <3>1. graph.nodes[n].status # "Running" /\ "Blocked" \in SetAside /\ "Blocked" \in Outcomes
      BY <2>2 DEF Block, SetAside, Outcomes
    <3> QED BY <2>2, <3>1, SetStatusKeeps DEF Block
  <2>3. CASE Unblock(a, n)
    <3>1. graph.nodes[n].status # "Running" /\ "Pending" \in SetAside /\ "None" \in Outcomes
      BY <2>3 DEF Unblock, SetAside, Outcomes
    <3> QED BY <2>3, <3>1, SetStatusKeeps DEF Unblock
  <2>4. CASE Retry(a, n)
    <3>1. graph.nodes[n].status # "Running" /\ "Pending" \in SetAside /\ "None" \in Outcomes
      BY <2>4 DEF Retry, SetAside, Outcomes
    <3> QED BY <2>4, <3>1, SetStatusKeeps DEF Retry
  <2>5. CASE CancelIdle(a, n)
    <3>1. /\ graph.nodes[n].status # "Running"
          /\ "Cancelled" \in SetAside /\ "Cancelled" \in Outcomes
      BY <2>5 DEF CancelIdle, SetAside, Outcomes
    <3> QED BY <2>5, <3>1, SetStatusKeeps DEF CancelIdle
  <2>6. CASE CancelRunning(a, n)
    BY <2>6, CancelRunningKeeps
  <2> QED BY <1>1, <2>1, <2>2, <2>3, <2>4, <2>5, <2>6 DEF Cancel
<1>2. ASSUME NEW n \in Nodes, NEW w \in Workers, Assign(n, w) \/ Reassign(n, w)
      PROVE  Kept
  BY <1>2, AssignKeeps, ReassignKeeps
<1>3. ASSUME NEW n \in Nodes, NEW j \in Handoffs, NEW r \in Reports, SettleAssignment(n, j, r)
      PROVE  Kept
  BY <1>3, SettleAssignmentKeeps
<1>4. ASSUME NEW a \in Agents, NEW n \in Nodes, NEW r \in Reports,
             Fail(a, n, r) \/ Complete(a, n, r)
      PROVE  Kept
  BY <1>4, FailKeeps, CompleteKeeps
<1>5. ASSUME NEW a \in Agents, NEW m \in Nodes, NEW n \in Nodes, NEW r \in Reports,
             CompleteBatch(a, m, n, r)
      PROVE  Kept
  BY <1>5, CompleteBatchKeeps
<1> QED BY <1>1, <1>2, <1>3, <1>4, <1>5 DEF Operation

LEMMA StutterKeeps ==
    ASSUME Inv, UNCHANGED vars
    PROVE  Kept
<1>1. graph' = graph /\ bindings' = bindings /\ fences' = fences
  BY DEF vars
<1>2. Inv'
  BY <1>1 DEF Inv
<1>3. Final(graph, graph')
  BY <1>1 DEF Final
<1> QED BY <1>2, <1>3 DEF Kept

(* Inv says everything the state properties say.                           *)
LEMMA InvImplies ==
    ASSUME Inv
    PROVE  /\ TypeOK /\ Valid /\ ExclusiveAttempt /\ LiveAssignmentOwnsAttempt
           /\ StatusAgreesWithVerdict
<1>1. TypeOK
  BY DEF Inv, GraphInv, Linked, TypeOK
<1>2. Valid
  BY DEF Inv, Linked, Valid
<1>3. \A n \in Nodes : NodeInv(graph, n)
  BY DEF Inv, GraphInv
<1>4. ExclusiveAttempt
  BY <1>3 DEF NodeInv, Exclusive, RunningOpened, ExclusiveAttempt, RunningAttempts
<1>5. LiveAssignmentOwnsAttempt
  <2>1. \A n \in Nodes, j \in Handoffs :
           graph.assignments[n][j].live <=> fences[n][j].phase = "Active"
    BY DEF Inv, Linked
  <2>2. \A n \in Nodes : LiveOwns(graph, n) /\ RunningUnsettled(graph, n)
    BY <1>3 DEF NodeInv
  <2> QED BY <2>1, <2>2 DEF LiveOwns, RunningUnsettled, LiveAssignmentOwnsAttempt
<1>6. StatusAgreesWithVerdict
  <2>1. ASSUME NEW n \in Nodes, graph.nodes[n].status \in {"Succeeded", "Failed"}
        PROVE  /\ HasResult(graph, n)
               /\ LastAttempt(graph, n).result.status = graph.nodes[n].status
               /\ LastAttempt(graph, n).result.outcome = graph.nodes[n].outcome
    <3>1. VerdictAgrees(graph, n)
      BY <1>3 DEF NodeInv
    <3>2. graph.nodes[n].attempts \in Numbers
      BY <2>1, <3>1 DEF VerdictAgrees
    <3>3. graph.nodes[n].attempts > 0
      BY <3>2 DEF Numbers
    <3> QED BY <2>1, <3>1, <3>3 DEF VerdictAgrees, HasResult
  <2> QED BY <2>1 DEF StatusAgreesWithVerdict
<1> QED BY <1>1, <1>2, <1>4, <1>5, <1>6

LEMMA UncheckedInv ==
    ASSUME "Running" \notin BlockFrom
    PROVE  UncheckedSpec => []Inv
<1>1. Inv /\ [Operation \/ Reconcile]_vars => Inv'
  BY OperationKeeps, ReconcileKeeps, StutterKeeps DEF Kept
<1> QED BY InitInv, <1>1, PTL DEF UncheckedSpec

(* The state properties hold of the operations by themselves, for every    *)
(* graph, every set of agents and every cap: `validate` never has to       *)
(* refuse what one of them did (Valid), a running node has exactly one     *)
(* running attempt (ExclusiveAttempt), a live assignment is the current    *)
(* one of a running attempt and has the active fence                       *)
(* (LiveAssignmentOwnsAttempt), and status and verdict agree.              *)
THEOREM Safety ==
    ASSUME "Running" \notin BlockFrom
    PROVE  UncheckedSpec => [](/\ TypeOK /\ Valid /\ ExclusiveAttempt
                               /\ LiveAssignmentOwnsAttempt /\ StatusAgreesWithVerdict)
<1>1. Inv => /\ TypeOK /\ Valid /\ ExclusiveAttempt
             /\ LiveAssignmentOwnsAttempt /\ StatusAgreesWithVerdict
  BY InvImplies
<1> QED BY <1>1, UncheckedInv, PTL

(* No operation and no restart changes an attempt that has its result.     *)
THEOREM History ==
    ASSUME "Running" \notin BlockFrom
    PROVE  UncheckedSpec => ResultsAreFinal
<1>1. Inv /\ [Operation \/ Reconcile]_vars =>
        [\A n \in Nodes, k \in Numbers :
           graph.attempts[n][k].result # NoResult =>
              graph'.attempts[n][k] = graph.attempts[n][k]]_vars
  BY OperationKeeps, ReconcileKeeps DEF Kept, Final
<1> QED BY <1>1, UncheckedInv, PTL DEF UncheckedSpec, ResultsAreFinal

(* What mutate_work installs, candidate validated, is a special case.      *)
THEOREM CheckedSafety ==
    ASSUME "Running" \notin BlockFrom
    PROVE  Spec => /\ [](TypeOK /\ Valid /\ ExclusiveAttempt)
                   /\ ResultsAreFinal
<1>1. Init /\ [][Next]_vars => UncheckedSpec
  <2>1. [Next]_vars => [Operation \/ Reconcile]_vars
    BY DEF Next
  <2> QED BY <2>1, PTL DEF UncheckedSpec
<1> QED BY <1>1, Safety, History, PTL DEF Spec

(* What mutate_work installs never leaves an assignment or its fence       *)
(* behind the attempt it was for.                                          *)
THEOREM CheckedAssignments ==
    ASSUME "Running" \notin BlockFrom
    PROVE  Spec => []LiveAssignmentOwnsAttempt
<1>1. Init /\ [][Next]_vars => UncheckedSpec
  <2>1. [Next]_vars => [Operation \/ Reconcile]_vars
    BY DEF Next
  <2> QED BY <2>1, PTL DEF UncheckedSpec
<1> QED BY <1>1, Safety, PTL DEF Spec

(* What mutate_work installs reads the same from a node's status and from  *)
(* its latest result.                                                      *)
THEOREM CheckedVerdicts ==
    ASSUME "Running" \notin BlockFrom
    PROVE  Spec => []StatusAgreesWithVerdict
<1>1. Init /\ [][Next]_vars => UncheckedSpec
  <2>1. [Next]_vars => [Operation \/ Reconcile]_vars
    BY DEF Next
  <2> QED BY <2>1, PTL DEF UncheckedSpec
<1> QED BY <1>1, Safety, PTL DEF Spec
-----------------------------------------------------------------------------
(* Hand-offs.  What the assignments of a node say about each other, about  *)
(* the attempts they were for and about their fences, relative to Inv.     *)

(* Assignments are made one after the other.                               *)
InOrder(g, n) ==
    \A i, j \in Handoffs :
        i < j /\ g.assignments[n][j].attempt # 0 => g.assignments[n][i].attempt # 0

(* One never made is nobody's, and one that was made is for an attempt     *)
(* that was opened.                                                        *)
MadeForOpened(g, n) ==
    \A j \in Handoffs :
        /\ g.assignments[n][j].attempt = 0 => g.assignments[n][j] = NoAssignment
        /\ g.assignments[n][j].attempt <= g.nodes[n].attempts

(* An attempt names the last assignment that was made for it.              *)
NamesLast(g, n) ==
    \A j \in Handoffs :
        g.assignments[n][j].attempt # 0 =>
            j <= g.attempts[n][g.assignments[n][j].attempt].assignment

(* It is held in the name of that assignment's agent.                      *)
NamesHolder(g, n) ==
    \A k \in Numbers :
        g.attempts[n][k].assignment # 0 =>
            /\ g.assignments[n][g.attempts[n][k].assignment].attempt = k
            /\ g.assignments[n][g.attempts[n][k].assignment].agent = g.attempts[n][k].agent

ProducedByHolder(g, n) ==
    \A k \in Numbers :
        g.attempts[n][k].result.producer \in {Nobody, g.attempts[n][k].agent}

(* NotifiedOnce of one node.                                               *)
ToldOnce(g, n) ==
    \A j \in Handoffs :
        g.assignments[n][j].notices # 0 =>
            /\ g.assignments[n][j].notices = 1
            /\ g.assignments[n][j].attempt # 0 /\ ~g.assignments[n][j].live
            /\ g.attempts[n][g.assignments[n][j].attempt].assignment = j
            /\ g.attempts[n][g.assignments[n][j].attempt].result # NoResult

HandoffInv(g, n) ==
    /\ InOrder(g, n) /\ MadeForOpened(g, n) /\ NamesLast(g, n)
    /\ NamesHolder(g, n) /\ ProducedByHolder(g, n)

(* An assignment has a fence, and its generation is higher than those of   *)
(* the assignments its attempt went through before.                        *)
Ranked(g, f, n) ==
    \A j \in Handoffs :
        g.assignments[n][j].attempt # 0 =>
            /\ f[n][j].phase # "None"
            /\ \A i \in Handoffs :
                  i < j /\ g.assignments[n][i].attempt = g.assignments[n][j].attempt =>
                     f[n][i].generation < f[n][j].generation

(* Handed is inductive relative to Inv.                                    *)
Handed == \A n \in Nodes : /\ HandoffInv(graph, n) /\ ToldOnce(graph, n)
                           /\ Ranked(graph, fences, n)

(* No hand-off between g and h: assignments are only released, and an      *)
(* attempt keeps its assignment, and its agent if it has one.              *)
SteadyNode(g, h, n) ==
    /\ g.nodes[n].attempts <= h.nodes[n].attempts
    /\ \A k \in Numbers :
         /\ h.attempts[n][k].assignment = g.attempts[n][k].assignment
         /\ \/ h.attempts[n][k].agent = g.attempts[n][k].agent
            \/ g.attempts[n][k].assignment = 0
         /\ \/ h.attempts[n][k].result.producer \in {Nobody, h.attempts[n][k].agent}
            \/ /\ h.attempts[n][k].agent = g.attempts[n][k].agent
               /\ h.attempts[n][k].result.producer = g.attempts[n][k].result.producer
    /\ \A j \in Handoffs :
         /\ h.assignments[n][j].attempt = g.assignments[n][j].attempt
         /\ h.assignments[n][j].agent = g.assignments[n][j].agent
         /\ ~g.assignments[n][j].live => h.assignments[n][j] = g.assignments[n][j]

Steady(g, h) == \A n \in Nodes : SteadyNode(g, h, n)

(* Nobody hears of an assignment between g and h.                          *)
Untold(g, h) ==
    \A n \in Nodes, j \in Handoffs :
        h.assignments[n][j].notices = g.assignments[n][j].notices

LEMMA SteadyIsTransitive ==
    ASSUME NEW f \in GraphType, NEW g \in GraphType, NEW h \in GraphType,
           Steady(f, g), Steady(g, h)
    PROVE  Steady(f, h)
<1> SUFFICES ASSUME NEW n \in Nodes PROVE SteadyNode(f, h, n)
  BY DEF Steady
<1>1. SteadyNode(f, g, n) /\ SteadyNode(g, h, n)
  BY DEF Steady
<1>2. f.nodes[n].attempts <= h.nodes[n].attempts
  <2>1. /\ f.nodes[n].attempts \in Nat /\ g.nodes[n].attempts \in Nat
        /\ h.nodes[n].attempts \in Nat
    BY GraphAssumption DEF GraphType, NodeType
  <2>2. /\ f.nodes[n].attempts <= g.nodes[n].attempts
        /\ g.nodes[n].attempts <= h.nodes[n].attempts
    BY <1>1 DEF SteadyNode
  <2> QED BY ONLY <2>1, <2>2
<1>3. ASSUME NEW k \in Numbers
      PROVE  /\ h.attempts[n][k].assignment = f.attempts[n][k].assignment
             /\ \/ h.attempts[n][k].agent = f.attempts[n][k].agent
                \/ f.attempts[n][k].assignment = 0
             /\ \/ h.attempts[n][k].result.producer \in {Nobody, h.attempts[n][k].agent}
                \/ /\ h.attempts[n][k].agent = f.attempts[n][k].agent
                   /\ h.attempts[n][k].result.producer = f.attempts[n][k].result.producer
  <2>1. /\ g.attempts[n][k].assignment = f.attempts[n][k].assignment
        /\ \/ g.attempts[n][k].agent = f.attempts[n][k].agent
           \/ f.attempts[n][k].assignment = 0
        /\ \/ g.attempts[n][k].result.producer \in {Nobody, g.attempts[n][k].agent}
           \/ /\ g.attempts[n][k].agent = f.attempts[n][k].agent
              /\ g.attempts[n][k].result.producer = f.attempts[n][k].result.producer
    BY <1>1, Zenon DEF SteadyNode
  <2>2. /\ h.attempts[n][k].assignment = g.attempts[n][k].assignment
        /\ \/ h.attempts[n][k].agent = g.attempts[n][k].agent
           \/ g.attempts[n][k].assignment = 0
        /\ \/ h.attempts[n][k].result.producer \in {Nobody, h.attempts[n][k].agent}
           \/ /\ h.attempts[n][k].agent = g.attempts[n][k].agent
              /\ h.attempts[n][k].result.producer = g.attempts[n][k].result.producer
    BY <1>1, Zenon DEF SteadyNode
  <2> QED BY ONLY <2>1, <2>2
<1>4. ASSUME NEW j \in Handoffs
      PROVE  /\ h.assignments[n][j].attempt = f.assignments[n][j].attempt
             /\ h.assignments[n][j].agent = f.assignments[n][j].agent
             /\ ~f.assignments[n][j].live => h.assignments[n][j] = f.assignments[n][j]
  <2>1. /\ g.assignments[n][j].attempt = f.assignments[n][j].attempt
        /\ g.assignments[n][j].agent = f.assignments[n][j].agent
        /\ ~f.assignments[n][j].live => g.assignments[n][j] = f.assignments[n][j]
    BY <1>1, Zenon DEF SteadyNode
  <2>2. /\ h.assignments[n][j].attempt = g.assignments[n][j].attempt
        /\ h.assignments[n][j].agent = g.assignments[n][j].agent
        /\ ~g.assignments[n][j].live => h.assignments[n][j] = g.assignments[n][j]
    BY <1>1, Zenon DEF SteadyNode
  <2> QED BY <2>1, <2>2
<1> QED BY ONLY <1>2, <1>3, <1>4, Zenon DEF SteadyNode

(* Without a hand-off, what the assignments say of each other stands.      *)
LEMMA SteadyKeepsHandoffs ==
    ASSUME NEW g \in GraphType, NEW h \in GraphType, NEW n \in Nodes, SteadyNode(g, h, n),
           HandoffInv(g, n)
    PROVE  HandoffInv(h, n)
<1>1. /\ InOrder(g, n) /\ MadeForOpened(g, n) /\ NamesLast(g, n)
      /\ NamesHolder(g, n) /\ ProducedByHolder(g, n)
  BY DEF HandoffInv
<1>2. \A j \in Handoffs :
         /\ h.assignments[n][j].attempt = g.assignments[n][j].attempt
         /\ h.assignments[n][j].agent = g.assignments[n][j].agent
         /\ ~g.assignments[n][j].live => h.assignments[n][j] = g.assignments[n][j]
  BY Zenon DEF SteadyNode
<1>3. \A k \in Numbers :
         /\ h.attempts[n][k].assignment = g.attempts[n][k].assignment
         /\ \/ h.attempts[n][k].agent = g.attempts[n][k].agent
            \/ g.attempts[n][k].assignment = 0
         /\ \/ h.attempts[n][k].result.producer \in {Nobody, h.attempts[n][k].agent}
            \/ /\ h.attempts[n][k].agent = g.attempts[n][k].agent
               /\ h.attempts[n][k].result.producer = g.attempts[n][k].result.producer
  BY Zenon DEF SteadyNode
<1>4. /\ \A j \in Handoffs : g.assignments[n][j].attempt \in 0..MaxNumber
      /\ \A k \in Numbers : g.attempts[n][k].assignment \in 0..MaxHandoffs
      /\ g.nodes[n].attempts \in Nat /\ h.nodes[n].attempts \in Nat
  <2>1. ASSUME NEW j \in Handoffs PROVE g.assignments[n][j].attempt \in 0..MaxNumber
    <3>1. g.assignments[n][j] \in AssignmentType
      BY DEF GraphType
    <3> QED BY <3>1 DEF AssignmentType
  <2>2. ASSUME NEW k \in Numbers PROVE g.attempts[n][k].assignment \in 0..MaxHandoffs
    <3>1. g.attempts[n][k] \in AttemptType
      BY DEF GraphType
    <3> QED BY <3>1 DEF AttemptType
  <2>3. g.nodes[n].attempts \in Nat /\ h.nodes[n].attempts \in Nat
    BY GraphAssumption DEF GraphType, NodeType
  <2> QED BY <2>1, <2>2, <2>3
<1>5. g.nodes[n].attempts <= h.nodes[n].attempts
  BY DEF SteadyNode
<1>6. InOrder(h, n)
  BY ONLY <1>1, <1>2 DEF InOrder
<1>7. MadeForOpened(h, n)
  <2> SUFFICES ASSUME NEW j \in Handoffs
               PROVE  /\ h.assignments[n][j].attempt = 0
                            => h.assignments[n][j] = NoAssignment
                      /\ h.assignments[n][j].attempt <= h.nodes[n].attempts
    BY DEF MadeForOpened
  <2>1. /\ g.assignments[n][j].attempt = 0 => g.assignments[n][j] = NoAssignment
        /\ g.assignments[n][j].attempt <= g.nodes[n].attempts
    BY <1>1 DEF MadeForOpened
  <2>2. h.assignments[n][j].attempt = 0 => h.assignments[n][j] = NoAssignment
    <3> SUFFICES ASSUME h.assignments[n][j].attempt = 0
                 PROVE  h.assignments[n][j] = NoAssignment
      OBVIOUS
    <3>1. g.assignments[n][j] = NoAssignment
      BY <1>2, <2>1
    <3>2. ~g.assignments[n][j].live
      BY <3>1 DEF NoAssignment
    <3> QED BY <1>2, <3>1, <3>2
  <2>3. h.assignments[n][j].attempt <= h.nodes[n].attempts
    <3>1. /\ h.assignments[n][j].attempt = g.assignments[n][j].attempt
          /\ g.assignments[n][j].attempt \in 0..MaxNumber
      BY <1>2, <1>4
    <3>2. MaxNumber \in Nat
      BY GraphAssumption
    <3> QED BY ONLY <3>1, <3>2, <2>1, <1>4, <1>5
  <2> QED BY <2>2, <2>3
<1>8. NamesLast(h, n)
  <2> SUFFICES ASSUME NEW j \in Handoffs, h.assignments[n][j].attempt # 0
               PROVE  j <= h.attempts[n][h.assignments[n][j].attempt].assignment
    BY DEF NamesLast
  <2>1. /\ g.assignments[n][j].attempt # 0
        /\ h.assignments[n][j].attempt = g.assignments[n][j].attempt
    BY <1>2
  <2>2. g.assignments[n][j].attempt \in Numbers
    BY <1>4, <2>1, GraphAssumption DEF Numbers
  <2>3. j <= g.attempts[n][g.assignments[n][j].attempt].assignment
    BY <1>1, <2>1 DEF NamesLast
  <2> QED BY <1>3, <2>1, <2>2, <2>3
<1>9. NamesHolder(h, n)
  <2> SUFFICES ASSUME NEW k \in Numbers, h.attempts[n][k].assignment # 0
               PROVE  /\ h.assignments[n][h.attempts[n][k].assignment].attempt = k
                      /\ h.assignments[n][h.attempts[n][k].assignment].agent
                           = h.attempts[n][k].agent
    BY DEF NamesHolder
  <2> DEFINE i == g.attempts[n][k].assignment
  <2>1. h.attempts[n][k].assignment = i /\ i # 0 /\ i \in 0..MaxHandoffs
    BY <1>3, <1>4
  <2>2. /\ g.assignments[n][i].attempt = k
        /\ g.assignments[n][i].agent = g.attempts[n][k].agent
    BY <1>1, <2>1 DEF NamesHolder
  <2>3. h.attempts[n][k].agent = g.attempts[n][k].agent
    BY <1>3, <2>1
  <2> HIDE DEF i
  <2>4. i \in Handoffs
    BY <2>1, GraphAssumption DEF Handoffs
  <2> QED BY <1>2, <2>1, <2>2, <2>3, <2>4
<1>10. ProducedByHolder(h, n)
  BY <1>1, <1>3 DEF ProducedByHolder
<1> QED BY <1>6, <1>7, <1>8, <1>9, <1>10 DEF HandoffInv

(* The notices that were sent stand: they were of assignments released by  *)
(* then, with results that are final.                                      *)
LEMMA SteadyKeepsNotices ==
    ASSUME NEW g \in GraphType, NEW h \in GraphType, NEW n \in Nodes, SteadyNode(g, h, n),
           Final(g, h), ToldOnce(g, n), NEW j \in Handoffs,
           g.assignments[n][j].notices # 0
    PROVE  /\ h.assignments[n][j].notices = 1
           /\ h.assignments[n][j].attempt # 0 /\ ~h.assignments[n][j].live
           /\ h.attempts[n][h.assignments[n][j].attempt].assignment = j
           /\ h.attempts[n][h.assignments[n][j].attempt].result # NoResult
<1> DEFINE k == g.assignments[n][j].attempt
<1>1. /\ g.assignments[n][j].notices = 1 /\ k # 0 /\ ~g.assignments[n][j].live
      /\ g.attempts[n][k].assignment = j
      /\ g.attempts[n][k].result # NoResult
  BY Zenon DEF ToldOnce
<1>2. h.assignments[n][j] = g.assignments[n][j]
  BY <1>1, Zenon DEF SteadyNode
<1>3. k \in Numbers
  <2>1. g.assignments[n][j] \in AssignmentType
    BY DEF GraphType
  <2> QED BY <1>1, <2>1, GraphAssumption DEF AssignmentType, Numbers
<1>4. h.attempts[n][k] = g.attempts[n][k]
  BY <1>1, <1>3 DEF Final
<1> QED BY <1>1, <1>2, <1>4, Zenon

LEMMA SteadyKeepsToldOnce ==
    ASSUME NEW g \in GraphType, NEW h \in GraphType, Steady(g, h), Untold(g, h),
           Final(g, h), NEW n \in Nodes, ToldOnce(g, n)
    PROVE  ToldOnce(h, n)
<1> SUFFICES ASSUME NEW j \in Handoffs, h.assignments[n][j].notices # 0
             PROVE  /\ h.assignments[n][j].notices = 1
                    /\ h.assignments[n][j].attempt # 0 /\ ~h.assignments[n][j].live
                    /\ h.attempts[n][h.assignments[n][j].attempt].assignment = j
                    /\ h.attempts[n][h.assignments[n][j].attempt].result # NoResult
  BY DEF ToldOnce
<1>1. g.assignments[n][j].notices # 0
  BY DEF Untold
<1>2. SteadyNode(g, h, n)
  BY DEF Steady
<1> QED BY <1>1, <1>2, SteadyKeepsNotices, ZenonT(40)

(* The fences keep their generations, whatever phase they move on to.      *)
LEMMA SteadyKeepsRanks ==
    ASSUME NEW g, NEW h, NEW f, NEW d, NEW n \in Nodes, SteadyNode(g, h, n), Ranked(g, f, n),
           \A i \in Handoffs : /\ d[n][i].generation = f[n][i].generation
                               /\ d[n][i].phase = "None" => f[n][i].phase = "None"
    PROVE  Ranked(h, d, n)
<1>1. \A i \in Handoffs : h.assignments[n][i].attempt = g.assignments[n][i].attempt
  BY DEF SteadyNode
<1> QED BY <1>1 DEF Ranked

LEMMA FeedbackIsSteady ==
    ASSUME NEW g \in GraphType, NEW n \in Nodes, NEW h, h = FireFeedback(g, n)
    PROVE  h \in GraphType /\ Steady(g, h) /\ Untold(g, h)
<1>1. /\ h \in GraphType
      /\ h.attempts = g.attempts /\ h.assignments = g.assignments
      /\ \A m \in Nodes : h.nodes[m].attempts = g.nodes[m].attempts
  BY FeedbackEffect
<1>2. \A m \in Nodes : g.nodes[m].attempts \in Nat
  BY GraphAssumption DEF GraphType, NodeType
<1>3. ASSUME NEW m \in Nodes PROVE SteadyNode(g, h, m)
  <2>1. g.nodes[m].attempts <= h.nodes[m].attempts
    BY <1>1, <1>2
  <2> QED BY ONLY <1>1, <2>1 DEF SteadyNode
<1> QED BY <1>1, <1>3 DEF Steady, Untold

LEMMA OpenIsSteady ==
    ASSUME NEW g, GraphInv(g), NEW n \in Nodes, Claimable(g, n), NEW a \in Agents,
           NEW h, h = OpenAttempt(g, n, a, 0)
    PROVE  Steady(g, h) /\ Untold(g, h)
<1> DEFINE k == g.nodes[n].attempts + 1
           att == [state |-> "Running", agent |-> a, assignment |-> 0,
                   result |-> NoResult, inputs |-> FreezeManifest(g, n)]
           node == [status |-> "Running", outcome |-> "None", attempts |-> k]
<1>1. /\ g \in GraphType
      /\ g.nodes[n].attempts \in Nat /\ g.nodes[n].attempts < MaxNumber
      /\ g.attempts[n][k] = NoAttempt
  BY ClaimableIsIdle
<1>2. 0 \in 0..MaxHandoffs
  BY GraphAssumption
<1>3. /\ h \in GraphType /\ k \in Numbers
      /\ h.assignments = g.assignments
      /\ \A m \in Nodes : h.nodes[m] = IF m = n THEN node ELSE g.nodes[m]
      /\ \A m \in Nodes, i \in Numbers :
            h.attempts[m][i] = IF m = n /\ i = k THEN att ELSE g.attempts[m][i]
  BY <1>1, <1>2, OpenEffect
<1>4. /\ att.assignment = 0 /\ att.result.producer = Nobody /\ node.attempts = k
      /\ g.attempts[n][k].assignment = 0
  BY <1>1 DEF NoResult, NoAttempt
<1>5. \A m \in Nodes : g.nodes[m].attempts \in Nat
  BY <1>1, GraphAssumption DEF GraphType, NodeType
<1>6. g.nodes[n].attempts <= k
  BY <1>1
<1> HIDE DEF k, att, node
<1>7. ASSUME NEW m \in Nodes PROVE SteadyNode(g, h, m)
  <2>1. g.nodes[m].attempts <= h.nodes[m].attempts
    <3>1. CASE m = n
      BY <1>3, <1>4, <1>6, <3>1
    <3>2. CASE m # n
      BY <1>3, <1>5, <3>2
    <3> QED BY <3>1, <3>2
  <2>2. ASSUME NEW i \in Numbers
        PROVE  /\ h.attempts[m][i].assignment = g.attempts[m][i].assignment
               /\ \/ h.attempts[m][i].agent = g.attempts[m][i].agent
                  \/ g.attempts[m][i].assignment = 0
               /\ \/ h.attempts[m][i].result.producer \in {Nobody, h.attempts[m][i].agent}
                  \/ /\ h.attempts[m][i].agent = g.attempts[m][i].agent
                     /\ h.attempts[m][i].result.producer = g.attempts[m][i].result.producer
    <3>1. CASE m = n /\ i = k
      BY <1>3, <1>4, <3>1
    <3>2. CASE ~(m = n /\ i = k)
      BY <1>3, <3>2
    <3> QED BY <3>1, <3>2
  <2> QED BY <1>3, <2>1, <2>2 DEF SteadyNode
<1> QED BY <1>3, <1>7 DEF Steady, Untold

(* What an attempt's end records, it records in its holder's name.         *)
LEMMA RecordIsSteady ==
    ASSUME NEW g \in GraphType, NEW n \in Nodes, NEW k \in Numbers, NEW r \in ReportType,
           NEW p \in Producers, p = g.attempts[n][k].agent,
           NEW h, h = RecordResult(g, n, k, r, p)
    PROVE  h \in GraphType /\ Steady(g, h) /\ Untold(g, h)
<1> DEFINE res == [status |-> r.status, outcome |-> r.outcome, level |-> r.level,
                   producer |-> p]
           att == [g.attempts[n][k] EXCEPT !.state = r.status, !.result = res]
           node == [g.nodes[n] EXCEPT !.status = r.status, !.outcome = r.outcome]
<1>1. Recorded(g, h, n, k, r, p)
  BY RecordEffect, Zenon
<1>2. h = [g EXCEPT !.attempts[n][k] = att, !.nodes[n] = node]
  BY DEF RecordResult
<1>3. /\ att.agent = p /\ att.assignment = g.attempts[n][k].assignment
      /\ att.result.producer = p
  <2>1. g.attempts[n][k] \in AttemptType
    BY DEF GraphType
  <2>2. res.producer = p
    OBVIOUS
  <2> HIDE DEF res
  <2> QED BY <2>1, <2>2 DEF AttemptType
<1> HIDE DEF att, node
<1>4. h.attempts[n][k] = att
  BY <1>2 DEF GraphType
<1>5. /\ h \in GraphType /\ h.assignments = g.assignments
      /\ \A m \in Nodes : h.nodes[m].attempts = g.nodes[m].attempts
      /\ \A m \in Nodes, i \in Numbers :
           ~(m = n /\ i = k) => h.attempts[m][i] = g.attempts[m][i]
  BY <1>1, Zenon DEF Recorded
<1>6. \A m \in Nodes : g.nodes[m].attempts \in Nat
  BY GraphAssumption DEF GraphType, NodeType
<1>7. ASSUME NEW m \in Nodes PROVE SteadyNode(g, h, m)
  <2>1. g.nodes[m].attempts <= h.nodes[m].attempts
    BY <1>5, <1>6
  <2>2. ASSUME NEW i \in Numbers
        PROVE  /\ h.attempts[m][i].assignment = g.attempts[m][i].assignment
               /\ \/ h.attempts[m][i].agent = g.attempts[m][i].agent
                  \/ g.attempts[m][i].assignment = 0
               /\ \/ h.attempts[m][i].result.producer \in {Nobody, h.attempts[m][i].agent}
                  \/ /\ h.attempts[m][i].agent = g.attempts[m][i].agent
                     /\ h.attempts[m][i].result.producer = g.attempts[m][i].result.producer
    <3>1. CASE m = n /\ i = k
      BY ONLY <1>3, <1>4, <3>1, p = g.attempts[n][k].agent
    <3>2. CASE ~(m = n /\ i = k)
      BY <1>5, <3>2
    <3> QED BY <3>1, <3>2
  <2> QED BY <1>5, <2>1, <2>2 DEF SteadyNode
<1> QED BY <1>5, <1>7 DEF Steady, Untold

LEMMA ReleaseIsSteady ==
    ASSUME NEW g \in GraphType, NEW n \in Nodes, NEW j \in 0..MaxHandoffs,
           NEW h, h = Release(g, n, j)
    PROVE  h \in GraphType /\ Steady(g, h) /\ Untold(g, h)
<1> DEFINE asg == [g.assignments[n][j] EXCEPT !.live = FALSE]
<1>1. /\ h \in GraphType
      /\ h.nodes = g.nodes /\ h.attempts = g.attempts
      /\ \A m \in Nodes, i \in Handoffs : h.assignments[m][i] =
           IF m = n /\ i = j THEN asg ELSE g.assignments[m][i]
  BY ReleaseEffect
<1>2. ASSUME j \in Handoffs
      PROVE  /\ asg.attempt = g.assignments[n][j].attempt
             /\ asg.agent = g.assignments[n][j].agent
             /\ asg.notices = g.assignments[n][j].notices
             /\ ~g.assignments[n][j].live => asg = g.assignments[n][j]
  <2>1. g.assignments[n][j] \in AssignmentType
    BY <1>2 DEF GraphType
  <2> QED BY <2>1 DEF AssignmentType
<1> HIDE DEF asg
<1>3. ASSUME NEW m \in Nodes, NEW i \in Handoffs
      PROVE  /\ h.assignments[m][i].attempt = g.assignments[m][i].attempt
             /\ h.assignments[m][i].agent = g.assignments[m][i].agent
             /\ h.assignments[m][i].notices = g.assignments[m][i].notices
             /\ ~g.assignments[m][i].live => h.assignments[m][i] = g.assignments[m][i]
  <2>1. CASE m = n /\ i = j
    BY <1>1, <1>2, <2>1
  <2>2. CASE ~(m = n /\ i = j)
    BY <1>1, <2>2
  <2> QED BY <2>1, <2>2
<1>4. \A m \in Nodes : g.nodes[m].attempts \in Nat
  BY GraphAssumption DEF GraphType, NodeType
<1>5. ASSUME NEW m \in Nodes PROVE SteadyNode(g, h, m)
  <2>1. g.nodes[m].attempts <= h.nodes[m].attempts
    BY <1>1, <1>4
  <2> QED BY <1>1, <1>3, <2>1 DEF SteadyNode
<1> QED BY <1>1, <1>3, <1>5 DEF Steady, Untold

LEMMA UntoldIsTransitive ==
    ASSUME NEW f, NEW g, NEW h, Untold(f, g), Untold(g, h)
    PROVE  Untold(f, h)
BY DEF Untold

(* `complete` and `fail` of one node, whether it ran or not.               *)
LEMMA SettleNodeIsSteady ==
    ASSUME NEW g, GraphInv(g), NEW n \in Nodes, NEW h \in 0..MaxHandoffs, NEW a \in Agents,
           NEW r \in ReportType, MaySettle(g, n, h, a),
           NEW s, s = SettleNodeIn(g, n, h, a, r)
    PROVE  s \in GraphType /\ Steady(g, s) /\ Untold(g, s)
<1> DEFINE o == IF g.nodes[n].status = "Running" THEN g ELSE OpenAttempt(g, n, a, 0)
           k == o.nodes[n].attempts
           p == o.attempts[n][k].agent
           f == RecordResult(o, n, k, r, p)
           e == Release(f, n, h)
<1>1. GraphInv(o) /\ o.nodes[n].status = "Running" /\ Steady(g, o) /\ Untold(g, o)
  <2>1. CASE g.nodes[n].status = "Running"
    <3>1. \A m \in Nodes : g.nodes[m].attempts \in Nat
      BY GraphAssumption DEF GraphInv, GraphType, NodeType
    <3>2. \A m \in Nodes : SteadyNode(g, g, m)
      BY <3>1 DEF SteadyNode
    <3> QED BY <2>1, <3>2 DEF Steady, Untold
  <2>2. CASE g.nodes[n].status # "Running"
    <3>1. Claimable(g, n)
      BY <2>2 DEF MaySettle
    <3>2. o = OpenAttempt(g, n, a, 0)
      BY <2>2
    <3>3. GraphInv(o) /\ o.nodes[n].status = "Running"
      BY <2>2, <3>1, OpenKeepsGraphInv
    <3> HIDE DEF o
    <3>4. Steady(g, o) /\ Untold(g, o)
      BY ONLY <3>1, <3>2, OpenIsSteady, GraphInv(g), n \in Nodes, a \in Agents
    <3> QED BY <3>3, <3>4
  <2> QED BY <2>1, <2>2
<1>2. s = FireFeedback(e, n)
  BY DEF SettleNodeIn
<1> HIDE DEF o
<1>3. k \in Numbers /\ p \in Producers /\ o \in GraphType
  <2>1. k \in Numbers
    BY <1>1 DEF GraphInv, NodeInv, RunningOpened
  <2>2. o.attempts[n][k] \in AttemptType
    BY <1>1, <2>1 DEF GraphInv, GraphType
  <2> QED BY <1>1, <2>1, <2>2 DEF AttemptType, Producers, GraphInv
<1>4. f \in GraphType /\ Steady(o, f) /\ Untold(o, f)
  <2>1. p = o.attempts[n][k].agent /\ f = RecordResult(o, n, k, r, p)
    OBVIOUS
  <2> HIDE DEF f, p, k
  <2> QED BY ONLY <1>3, <2>1, RecordIsSteady, n \in Nodes, r \in ReportType
<1>5. e = Release(f, n, h)
  OBVIOUS
<1> HIDE DEF f, e
<1>6. e \in GraphType /\ Steady(f, e) /\ Untold(f, e)
  BY <1>4, <1>5, ReleaseIsSteady
<1>7. s \in GraphType /\ Steady(e, s) /\ Untold(e, s)
  BY ONLY <1>2, <1>6, FeedbackIsSteady, n \in Nodes
<1>8. g \in GraphType
  BY DEF GraphInv
<1>9. Steady(g, f) /\ Steady(f, s)
  BY ONLY <1>1, <1>3, <1>4, <1>6, <1>7, <1>8, SteadyIsTransitive
<1>10. Steady(g, s)
  BY ONLY <1>4, <1>7, <1>8, <1>9, SteadyIsTransitive
<1>11. Untold(g, s)
  BY ONLY <1>1, <1>4, <1>6, <1>7, UntoldIsTransitive
<1> QED BY <1>7, <1>10, <1>11

-----------------------------------------------------------------------------
(* Handed through the actions.                                             *)

(* No generation changes, and a fence that was raised is not taken away.   *)
FencesStand ==
    \A n \in Nodes, i \in Handoffs :
        /\ fences'[n][i].generation = fences[n][i].generation
        /\ fences'[n][i].phase = "None" => fences[n][i].phase = "None"

LEMMA SteadyStepAndNotices ==
    ASSUME Inv, Inv', Handed, Steady(graph, graph'), FencesStand,
           \A n \in Nodes : ToldOnce(graph', n)
    PROVE  Handed'
<1> DEFINE g == graph
           h == graph'
           f == fences
           d == fences'
<1>1. g \in GraphType /\ h \in GraphType
  BY DEF Inv, GraphInv
<1>2. \A n \in Nodes : HandoffInv(g, n) /\ Ranked(g, f, n)
  BY DEF Handed
<1>3. Steady(g, h) /\ \A n \in Nodes : ToldOnce(h, n)
  OBVIOUS
<1>4. \A n \in Nodes, i \in Handoffs :
        /\ d[n][i].generation = f[n][i].generation
        /\ d[n][i].phase = "None" => f[n][i].phase = "None"
  BY DEF FencesStand
<1> HIDE DEF g, h, f, d
<1>5. ASSUME NEW n \in Nodes
      PROVE  HandoffInv(h, n) /\ ToldOnce(h, n) /\ Ranked(h, d, n)
  <2>1. SteadyNode(g, h, n)
    BY <1>3 DEF Steady
  <2>2. HandoffInv(h, n)
    BY <1>1, <1>2, <2>1, SteadyKeepsHandoffs
  <2>3. Ranked(h, d, n)
    BY <1>2, <1>4, <2>1, SteadyKeepsRanks
  <2> QED BY <1>3, <2>2, <2>3
<1> QED BY <1>5 DEF Handed, h, d

LEMMA SteadyStepKeepsHanded ==
    ASSUME Inv, Inv', Handed, Final(graph, graph'), Steady(graph, graph'),
           Untold(graph, graph'), FencesStand
    PROVE  Handed'
<1>1. graph \in GraphType /\ graph' \in GraphType
  BY DEF Inv, GraphInv
<1>2. \A n \in Nodes : ToldOnce(graph, n)
  BY DEF Handed
<1>3. \A n \in Nodes : ToldOnce(graph', n)
  BY <1>1, <1>2, SteadyKeepsToldOnce
<1> QED BY <1>3, SteadyStepAndNotices

LEMMA SameFencesStand ==
    ASSUME fences' = fences
    PROVE  FencesStand
BY DEF FencesStand

LEMMA CloseStands ==
    ASSUME Inv, NEW n \in Nodes, NEW j \in 0..MaxHandoffs, NEW phase \in Phases,
           fences' = Close(fences, n, j, phase)
    PROVE  FencesStand
<1>1. fences \in [Nodes -> [Handoffs -> FenceType]]
  BY DEF Inv, Linked
<1>2. CASE j # 0 /\ fences[n][j].phase = "Active"
  <2> DEFINE closed == [fences[n][j] EXCEPT !.phase = phase]
  <2>1. j \in Handoffs
    BY <1>2, GraphAssumption DEF Handoffs
  <2>2. /\ closed.phase = phase /\ closed.generation = fences[n][j].generation
        /\ phase # "None"
    <3>1. fences[n][j] \in FenceType
      BY <1>1, <2>1
    <3> QED BY <3>1 DEF FenceType, Phases
  <2>3. fences' = [fences EXCEPT ![n][j] = closed]
    BY <1>2 DEF Close
  <2> HIDE DEF closed
  <2>4. \A m \in Nodes, i \in Handoffs :
           fences'[m][i] = IF m = n /\ i = j THEN closed ELSE fences[m][i]
    BY <1>1, <2>1, <2>3
  <2> QED BY <2>2, <2>4 DEF FencesStand
<1>3. CASE ~(j # 0 /\ fences[n][j].phase = "Active")
  BY <1>3 DEF Close, FencesStand
<1> QED BY <1>2, <1>3

LEMMA CloseAllStands ==
    ASSUME Inv, NEW S \in SUBSET Nodes, CloseAll(S)
    PROVE  FencesStand
<1> DEFINE fence(n, j) ==
             IF n \in S /\ j \in LiveAssignments(graph, n) /\ fences[n][j].phase = "Active"
             THEN [fences[n][j] EXCEPT !.phase = "Succeeded"] ELSE fences[n][j]
<1>1. ASSUME NEW n \in Nodes, NEW j \in Handoffs
      PROVE  /\ fence(n, j).generation = fences[n][j].generation
             /\ fence(n, j).phase = "None" => fences[n][j].phase = "None"
  <2>1. fences[n][j] \in FenceType
    BY DEF Inv, Linked
  <2> QED BY <2>1 DEF FenceType
<1>2. fences' = [n \in Nodes |-> [j \in Handoffs |-> fence(n, j)]]
  BY DEF CloseAll
<1> HIDE DEF fence
<1> QED BY <1>1, <1>2 DEF FencesStand

LEMMA InitHanded == Init => Handed
<1> SUFFICES ASSUME Init PROVE Handed
  OBVIOUS
<1>1. /\ \A n \in Nodes : graph.nodes[n].attempts = 0
      /\ \A n \in Nodes, k \in Numbers : graph.attempts[n][k] = NoAttempt
      /\ \A n \in Nodes, j \in Handoffs : graph.assignments[n][j] = NoAssignment
  BY DEF Init
<1>2. /\ NoAttempt.assignment = 0 /\ NoAttempt.result.producer = Nobody
      /\ NoAssignment.attempt = 0 /\ NoAssignment.notices = 0
  BY DEF NoAttempt, NoResult, NoAssignment
<1>3. ASSUME NEW n \in Nodes
      PROVE  HandoffInv(graph, n) /\ ToldOnce(graph, n) /\ Ranked(graph, fences, n)
  <2>1. InOrder(graph, n) /\ NamesLast(graph, n)
    BY <1>1, <1>2 DEF InOrder, NamesLast
  <2>2. MadeForOpened(graph, n)
    BY <1>1, <1>2 DEF MadeForOpened
  <2>3. NamesHolder(graph, n) /\ ProducedByHolder(graph, n)
    BY <1>1, <1>2 DEF NamesHolder, ProducedByHolder
  <2>4. ToldOnce(graph, n) /\ Ranked(graph, fences, n)
    BY <1>1, <1>2 DEF ToldOnce, Ranked
  <2> QED BY <2>1, <2>2, <2>3, <2>4 DEF HandoffInv
<1> QED BY <1>3 DEF Handed

LEMMA StartKeepsHanded ==
    ASSUME Inv, Inv', Handed, Final(graph, graph'), NEW a \in Agents, NEW n \in Nodes,
           Start(a, n)
    PROVE  Handed'
<1>1. /\ GraphInv(graph) /\ Claimable(graph, n)
      /\ graph' = OpenAttempt(graph, n, a, 0) /\ fences' = fences
  BY DEF Inv, Start
<1>2. Steady(graph, graph') /\ Untold(graph, graph')
  BY ONLY <1>1, OpenIsSteady, n \in Nodes, a \in Agents
<1> QED BY <1>1, <1>2, SameFencesStand, SteadyStepKeepsHanded

LEMMA SetStatusKeepsHanded ==
    ASSUME Inv, Inv', Handed, Final(graph, graph'), NEW n \in Nodes, NEW status, NEW out,
           SetStatus(n, status, out), fences' = fences
    PROVE  Handed'
<1> DEFINE node == [graph.nodes[n] EXCEPT !.status = status, !.outcome = out]
<1>1. graph \in GraphType /\ graph.nodes[n] \in NodeType
  BY DEF Inv, GraphInv, GraphType
<1>2. node.attempts = graph.nodes[n].attempts
  BY <1>1 DEF NodeType
<1>3. graph' = [graph EXCEPT !.nodes[n] = node]
  BY DEF SetStatus
<1> HIDE DEF node
<1>4. /\ graph'.attempts = graph.attempts /\ graph'.assignments = graph.assignments
      /\ \A m \in Nodes : graph'.nodes[m].attempts = graph.nodes[m].attempts
  BY <1>1, <1>2, <1>3 DEF GraphType
<1>5. \A m \in Nodes : graph.nodes[m].attempts <= graph'.nodes[m].attempts
  <2>1. \A m \in Nodes : graph.nodes[m].attempts \in Nat
    BY <1>1, GraphAssumption DEF GraphType, NodeType
  <2> QED BY <1>4, <2>1
<1>6. Steady(graph, graph') /\ Untold(graph, graph')
  BY ONLY <1>4, <1>5 DEF Steady, SteadyNode, Untold
<1> QED BY <1>6, SameFencesStand, SteadyStepKeepsHanded

LEMMA FailKeepsHanded ==
    ASSUME Inv, Inv', Handed, Final(graph, graph'), NEW a \in Agents, NEW n \in Nodes,
           NEW r \in Reports, Fail(a, n, r)
    PROVE  Handed'
<1>1. PICK h \in LiveAssignee(graph, n) :
         /\ MaySettle(graph, n, h, a)
         /\ graph' = SettleNodeIn(graph, n, h, a, r)
         /\ fences' = Close(fences, n, h, "Failed")
  BY DEF Fail
<1>2. /\ h \in 0..MaxHandoffs /\ r \in ReportType /\ GraphInv(graph)
      /\ "Failed" \in Phases
  BY OnlyHolder, ReportIsReportType DEF Inv, Phases
<1>3. Steady(graph, graph') /\ Untold(graph, graph')
  BY ONLY <1>1, <1>2, SettleNodeIsSteady, n \in Nodes, a \in Agents
<1>4. FencesStand
  BY <1>1, <1>2, CloseStands
<1> QED BY <1>3, <1>4, SteadyStepKeepsHanded

LEMMA CompleteKeepsHanded ==
    ASSUME Inv, Inv', Handed, Final(graph, graph'), NEW a \in Agents, NEW n \in Nodes,
           NEW r \in Reports, Complete(a, n, r)
    PROVE  Handed'
<1>1. PICK h \in LiveAssignee(graph, n) :
         /\ MaySettle(graph, n, h, a)
         /\ graph' = SettleNodeIn(graph, n, h, a, r)
         /\ CloseAll({n})
  BY DEF Complete
<1>2. h \in 0..MaxHandoffs /\ r \in ReportType /\ GraphInv(graph)
  BY OnlyHolder, ReportIsReportType DEF Inv
<1>3. Steady(graph, graph') /\ Untold(graph, graph')
  BY ONLY <1>1, <1>2, SettleNodeIsSteady, n \in Nodes, a \in Agents
<1>4. FencesStand
  BY <1>1, CloseAllStands
<1> QED BY <1>3, <1>4, SteadyStepKeepsHanded

LEMMA CompleteBatchKeepsHanded ==
    ASSUME Inv, Inv', Handed, Final(graph, graph'), NEW a \in Agents, NEW m \in Nodes,
           NEW n \in Nodes, NEW r \in Reports, CompleteBatch(a, m, n, r)
    PROVE  Handed'
<1>1. PICK h \in LiveAssignee(graph, m), i \in LiveAssignee(graph, n) :
         /\ MaySettle(graph, m, h, a)
         /\ MaySettle(SettleNodeIn(graph, m, h, a, r), n, i, a)
         /\ graph' = SettleNodeIn(SettleNodeIn(graph, m, h, a, r), n, i, a, r)
         /\ CloseAll({m, n})
  BY DEF CompleteBatch
<1> DEFINE first == SettleNodeIn(graph, m, h, a, r)
<1>2. /\ h \in 0..MaxHandoffs /\ i \in 0..MaxHandoffs
      /\ \A x \in Handoffs : graph.assignments[m][x].live => x = h
      /\ r \in ReportType /\ GraphInv(graph) /\ graph \in GraphType
  BY OnlyHolder, ReportIsReportType DEF Inv, GraphInv
<1>3. GraphInv(first)
  BY <1>1, <1>2, SettleNodeKeepsGraphInv
<1>4. first = SettleNodeIn(graph, m, h, a, r)
  OBVIOUS
<1>5. MaySettle(first, n, i, a) /\ graph' = SettleNodeIn(first, n, i, a, r)
  BY <1>1
<1> HIDE DEF first
<1>6. first \in GraphType /\ Steady(graph, first) /\ Untold(graph, first)
  BY ONLY <1>1, <1>2, <1>4, SettleNodeIsSteady, m \in Nodes, a \in Agents
<1>7. graph' \in GraphType /\ Steady(first, graph') /\ Untold(first, graph')
  BY ONLY <1>2, <1>3, <1>5, SettleNodeIsSteady, n \in Nodes, a \in Agents
<1>8. Steady(graph, graph') /\ Untold(graph, graph')
  BY ONLY <1>2, <1>6, <1>7, SteadyIsTransitive, UntoldIsTransitive
<1>9. FencesStand
  BY <1>1, CloseAllStands
<1> QED BY <1>8, <1>9, SteadyStepKeepsHanded

LEMMA CancelRunningKeepsHanded ==
    ASSUME Inv, Inv', Handed, Final(graph, graph'), NEW a \in Agents, NEW n \in Nodes,
           CancelRunning(a, n)
    PROVE  Handed'
<1> DEFINE k == graph.nodes[n].attempts
           r == [status |-> "Cancelled", outcome |-> "Cancelled", level |-> 0]
           p == LastAttempt(graph, n).agent
           j == LastAttempt(graph, n).assignment
           f == RecordResult(graph, n, k, r, p)
<1>1. /\ graph.nodes[n].status = "Running"
      /\ graph' = Release(f, n, j)
      /\ fences' = Close(fences, n, j, "Cancelled")
  BY DEF CancelRunning
<1>2. r \in ReportType /\ "Cancelled" \in Phases
  BY DEF ReportType, Settlements, Outcomes, Levels, Phases
<1>3. /\ p \in Producers /\ j \in 0..MaxHandoffs /\ k \in Numbers
      /\ graph \in GraphType /\ p = graph.attempts[n][k].agent
  <2>1. LastAttempt(graph, n) \in AttemptType /\ k \in Numbers
    <3>1. k \in Numbers /\ graph \in GraphType
      BY <1>1 DEF Inv, GraphInv, NodeInv, RunningOpened
    <3> QED BY <3>1 DEF GraphType, LastAttempt
  <2> QED BY <2>1 DEF AttemptType, Producers, Inv, GraphInv, LastAttempt
<1>4. f = RecordResult(graph, n, k, r, p)
  OBVIOUS
<1> HIDE DEF k, r, p, j, f
<1>5. f \in GraphType /\ Steady(graph, f) /\ Untold(graph, f)
  BY ONLY <1>2, <1>3, <1>4, RecordIsSteady, n \in Nodes
<1>6. graph' \in GraphType /\ Steady(f, graph') /\ Untold(f, graph')
  BY ONLY <1>1, <1>3, <1>5, ReleaseIsSteady, n \in Nodes
<1>7. Steady(graph, graph') /\ Untold(graph, graph')
  BY ONLY <1>3, <1>5, <1>6, SteadyIsTransitive, UntoldIsTransitive
<1>8. FencesStand
  BY <1>1, <1>2, <1>3, CloseStands
<1> QED BY <1>7, <1>8, SteadyStepKeepsHanded

(* A release that is told to the parent: of the assignments whose count of *)
(* notices changes, each was live, is so no longer, and its attempt has a  *)
(* result.                                                                 *)
LEMMA NoticeIsFirst ==
    ASSUME NEW g \in GraphType, NEW h \in GraphType, NEW n \in Nodes, SteadyNode(g, h, n),
           Final(g, h), ToldOnce(g, n), RunningUnsettled(h, n), LiveOwns(h, n),
           LiveOwns(g, n),
           \A i \in Handoffs :
              \/ h.assignments[n][i].notices = g.assignments[n][i].notices
              \/ /\ g.assignments[n][i].live
                 /\ h.assignments[n][i].notices = g.assignments[n][i].notices + 1
                 /\ h.attempts[n][g.assignments[n][i].attempt].result # NoResult
    PROVE  ToldOnce(h, n)
<1> SUFFICES ASSUME NEW j \in Handoffs, h.assignments[n][j].notices # 0
             PROVE  /\ h.assignments[n][j].notices = 1
                    /\ h.assignments[n][j].attempt # 0 /\ ~h.assignments[n][j].live
                    /\ h.attempts[n][h.assignments[n][j].attempt].assignment = j
                    /\ h.attempts[n][h.assignments[n][j].attempt].result # NoResult
  BY DEF ToldOnce
<1>1. CASE g.assignments[n][j].notices # 0
  <2>1. /\ SteadyNode(g, h, n) /\ Final(g, h) /\ ToldOnce(g, n)
        /\ g \in GraphType /\ h \in GraphType /\ n \in Nodes /\ j \in Handoffs
    OBVIOUS
  <2> QED BY ONLY <1>1, <2>1, SteadyKeepsNotices, Zenon
<1>2. CASE g.assignments[n][j].notices = 0
  <2> DEFINE k == g.assignments[n][j].attempt
  <2>1. /\ g.assignments[n][j].live
        /\ h.assignments[n][j].notices = g.assignments[n][j].notices + 1
        /\ h.attempts[n][k].result # NoResult
    BY <1>2
  <2>2. h.assignments[n][j].attempt = k
    BY DEF SteadyNode
  <2>3. k \in Numbers /\ g.attempts[n][k].assignment = j
    BY <2>1, Zenon DEF LiveOwns
  <2>4. h.attempts[n][k].assignment = j
    BY <2>3 DEF SteadyNode
  <2>5. k # 0
    BY <2>3 DEF Numbers
  <2>6. ~h.assignments[n][j].live
    <3> SUFFICES ASSUME h.assignments[n][j].live PROVE FALSE
      OBVIOUS
    <3>1. h.attempts[n][k].state = "Running"
      <4>1. h.attempts[n][h.assignments[n][j].attempt].state = "Running"
        BY ONLY LiveOwns(h, n), h.assignments[n][j].live, j \in Handoffs, Zenon DEF LiveOwns
      <4> QED BY <2>2, <4>1, Zenon
    <3>2. RunningUnsettled(h, n)
      OBVIOUS
    <3>3. k \in Numbers /\ h.attempts[n][k].result # NoResult
      BY <2>1, <2>3, ZenonT(40)
    <3> HIDE DEF k
    <3> QED BY ONLY <3>1, <3>2, <3>3, Zenon DEF RunningUnsettled
  <2>7. h.assignments[n][j].notices = 1
    BY <1>2, <2>1
  <2> HIDE DEF k
  <2> QED BY <2>1, <2>2, <2>4, <2>5, <2>6, <2>7
<1> QED BY <1>1, <1>2

(* Telling the parent of assignment j touches nothing but its count.       *)
LEMMA NotifyCounts ==
    ASSUME NEW g \in GraphType, NEW n \in Nodes, NEW j \in Handoffs,
           NEW h, h = Notify(g, n, j)
    PROVE  /\ h \in GraphType /\ h.nodes = g.nodes /\ h.attempts = g.attempts
           /\ \A m \in Nodes, i \in Handoffs :
                ~(m = n /\ i = j) => h.assignments[m][i] = g.assignments[m][i]
           /\ h.assignments[n][j].attempt = g.assignments[n][j].attempt
           /\ h.assignments[n][j].agent = g.assignments[n][j].agent
           /\ h.assignments[n][j].notices = g.assignments[n][j].notices + 1
<1> DEFINE told == g.assignments[n][j].notices + 1
           asg == [g.assignments[n][j] EXCEPT !.notices = told]
<1>1. g.assignments[n][j] \in AssignmentType
  BY DEF GraphType
<1>2. h = [g EXCEPT !.assignments[n][j] = asg]
  BY DEF Notify
<1>3. asg.notices = told
  <2> HIDE DEF told
  <2> QED BY <1>1 DEF AssignmentType
<1> HIDE DEF asg, told
<1>4. \A m \in Nodes, i \in Handoffs : h.assignments[m][i] =
         IF m = n /\ i = j THEN asg ELSE g.assignments[m][i]
  BY <1>2 DEF GraphType
<1>5. /\ h \in GraphType
      /\ h.nodes = g.nodes /\ h.attempts = g.attempts
      /\ h.assignments[n][j].attempt = g.assignments[n][j].attempt
      /\ h.assignments[n][j].agent = g.assignments[n][j].agent
  BY NotifyEffect
<1> QED BY <1>3, <1>4, <1>5 DEF told

LEMMA SettleAssignmentKeepsHanded ==
    ASSUME Inv, Inv', Handed, Final(graph, graph'), NEW n \in Nodes, NEW j \in Handoffs,
           NEW r \in Reports, SettleAssignment(n, j, r)
    PROVE  Handed'
<1> DEFINE k == graph.assignments[n][j].attempt
           p == graph.assignments[n][j].agent
           d == RecordResult(graph, n, k, r, p)
           e == Release(d, n, j)
           f == FireFeedback(e, n)
           res == [status |-> r.status, outcome |-> r.outcome, level |-> r.level,
                   producer |-> p]
<1>1. /\ graph.assignments[n][j].live
      /\ graph' = Notify(f, n, j)
      /\ fences' = Close(fences, n, j, PhaseOf(r.status))
  BY DEF SettleAssignment
<1>2. /\ graph \in GraphType /\ graph' \in GraphType
      /\ LiveOwns(graph, n) /\ LiveOwns(graph', n) /\ RunningUnsettled(graph', n)
  BY DEF Inv, GraphInv, NodeInv
<1>3. k \in Numbers /\ p = graph.attempts[n][k].agent
  BY <1>1, <1>2, Zenon DEF LiveOwns
<1>4. /\ r \in ReportType /\ p \in Producers /\ j \in 0..MaxHandoffs
      /\ PhaseOf(r.status) \in Phases
  <2>1. r \in ReportType
    BY ReportIsReportType
  <2>2. graph.assignments[n][j] \in AssignmentType
    BY <1>2 DEF GraphType
  <2> QED BY <2>1, <2>2, GraphAssumption
          DEF AssignmentType, Producers, PhaseOf, Phases, Handoffs
<1>5. /\ d = RecordResult(graph, n, k, r, p) /\ e = Release(d, n, j)
      /\ f = FireFeedback(e, n)
  OBVIOUS
<1>6. res # NoResult
  BY <1>4 DEF ReportType, Settlements, NoResult
<1> HIDE DEF k, p, d, e, f
<1>7. d \in GraphType /\ Steady(graph, d) /\ Untold(graph, d)
  BY ONLY <1>2, <1>3, <1>4, <1>5, RecordIsSteady, n \in Nodes
<1>8. d.attempts[n][k].result = res
  <2>1. Recorded(graph, d, n, k, r, p)
    BY ONLY <1>2, <1>3, <1>4, <1>5, RecordEffect, n \in Nodes
  <2> QED BY ONLY <2>1 DEF Recorded, res
<1> HIDE DEF res
<1>9. e \in GraphType /\ Steady(d, e) /\ Untold(d, e) /\ e.attempts = d.attempts
  <2>1. e \in GraphType /\ Steady(d, e) /\ Untold(d, e)
    BY ONLY <1>4, <1>5, <1>7, ReleaseIsSteady, n \in Nodes
  <2>2. e.attempts = d.attempts
    BY ONLY <1>4, <1>5, <1>7, ReleaseKeeps, n \in Nodes
  <2> QED BY <2>1, <2>2
<1>10. f \in GraphType /\ Steady(e, f) /\ Untold(e, f) /\ f.attempts = e.attempts
  <2>1. f \in GraphType /\ Steady(e, f) /\ Untold(e, f)
    BY ONLY <1>5, <1>9, FeedbackIsSteady, n \in Nodes
  <2>2. f.attempts = e.attempts
    BY ONLY <1>5, <1>9, FeedbackEffect, n \in Nodes
  <2> QED BY <2>1, <2>2
<1>11. Steady(graph, f) /\ Untold(graph, f)
  <2>1. Steady(graph, e) /\ Untold(graph, e)
    BY ONLY <1>2, <1>7, <1>9, SteadyIsTransitive, UntoldIsTransitive
  <2> QED BY ONLY <1>2, <1>9, <1>10, <2>1, SteadyIsTransitive, UntoldIsTransitive
<1>12. /\ graph'.nodes = f.nodes /\ graph'.attempts = f.attempts
       /\ \A m \in Nodes, i \in Handoffs :
            ~(m = n /\ i = j) => graph'.assignments[m][i] = f.assignments[m][i]
       /\ graph'.assignments[n][j].attempt = f.assignments[n][j].attempt
       /\ graph'.assignments[n][j].agent = f.assignments[n][j].agent
       /\ graph'.assignments[n][j].notices = f.assignments[n][j].notices + 1
  BY ONLY <1>1, <1>10, NotifyCounts, n \in Nodes, j \in Handoffs, SMTT(30)
<1>13. Steady(graph, graph')
  <2> SUFFICES ASSUME NEW m \in Nodes PROVE SteadyNode(graph, graph', m)
    BY DEF Steady
  <2>1. SteadyNode(graph, f, m)
    BY <1>11 DEF Steady
  <2>2. ASSUME NEW i \in Handoffs
        PROVE  /\ graph'.assignments[m][i].attempt = graph.assignments[m][i].attempt
               /\ graph'.assignments[m][i].agent = graph.assignments[m][i].agent
               /\ ~graph.assignments[m][i].live
                    => graph'.assignments[m][i] = graph.assignments[m][i]
    <3>1. /\ f.assignments[m][i].attempt = graph.assignments[m][i].attempt
          /\ f.assignments[m][i].agent = graph.assignments[m][i].agent
          /\ ~graph.assignments[m][i].live => f.assignments[m][i] = graph.assignments[m][i]
      BY <2>1, Zenon DEF SteadyNode
    <3>2. CASE m = n /\ i = j
      BY ONLY <1>1, <1>12, <3>1, <3>2
    <3>3. CASE ~(m = n /\ i = j)
      BY ONLY <1>12, <3>1, <3>3, m \in Nodes, i \in Handoffs
    <3> QED BY <3>2, <3>3
  <2> QED BY ONLY <1>12, <2>1, <2>2 DEF SteadyNode
<1>14. ASSUME NEW m \in Nodes PROVE ToldOnce(graph', m)
  <2>1. /\ SteadyNode(graph, graph', m) /\ ToldOnce(graph, m)
        /\ LiveOwns(graph, m) /\ LiveOwns(graph', m) /\ RunningUnsettled(graph', m)
    BY <1>13 DEF Steady, Handed, Inv, GraphInv, NodeInv
  <2>2. ASSUME NEW i \in Handoffs
        PROVE  \/ graph'.assignments[m][i].notices = graph.assignments[m][i].notices
               \/ /\ graph.assignments[m][i].live
                  /\ graph'.assignments[m][i].notices = graph.assignments[m][i].notices + 1
                  /\ graph'.attempts[m][graph.assignments[m][i].attempt].result # NoResult
    <3>1. f.assignments[m][i].notices = graph.assignments[m][i].notices
      BY <1>11 DEF Untold
    <3>2. CASE m = n /\ i = j
      <4>1. graph'.attempts[n][k].result # NoResult
        BY ONLY <1>6, <1>8, <1>9, <1>10, <1>12
      <4> QED BY ONLY <1>1, <1>12, <3>1, <3>2, <4>1 DEF k
    <3>3. CASE ~(m = n /\ i = j)
      BY ONLY <1>12, <3>1, <3>3, m \in Nodes, i \in Handoffs
    <3> QED BY <3>2, <3>3
  <2>3. Final(graph, graph')
    OBVIOUS
  <2> QED BY ONLY <1>2, <2>1, <2>2, <2>3, NoticeIsFirst, m \in Nodes
<1>15. FencesStand
  BY <1>1, <1>4, CloseStands
<1> QED BY <1>13, <1>14, <1>15, SteadyStepAndNotices

LEMMA ReconcileKeepsHanded ==
    ASSUME Inv, Inv', Handed, Final(graph, graph'), Reconcile
    PROVE  Handed'
<1> DEFINE att(n, k) == IF ~Interrupted(n, k) THEN graph.attempts[n][k]
                        ELSE [graph.attempts[n][k] EXCEPT
                                !.state = "Interrupted",
                                !.result = IF @ = NoResult
                                              /\ graph.attempts[n][k].assignment # 0
                                           THEN InterruptedResult ELSE @]
           told(n, j) == graph.assignments[n][j].notices + 1
           asg(n, j) == IF j \in LeftBehind(n)
                        THEN [graph.assignments[n][j] EXCEPT !.live = FALSE,
                                                             !.notices = told(n, j)]
                        ELSE graph.assignments[n][j]
           fence(n, j) == IF j \in LeftBehind(n) /\ fences[n][j].phase = "Active"
                          THEN [fences[n][j] EXCEPT !.phase = "Interrupted"]
                          ELSE fences[n][j]
<1>1. /\ graph \in GraphType /\ graph' \in GraphType
      /\ \A n \in Nodes : NodeInv(graph, n) /\ NodeInv(graph', n)
  BY DEF Inv, GraphInv
<1>2. /\ \A n \in Nodes : graph'.nodes[n].attempts = graph.nodes[n].attempts
      /\ \A n \in Nodes, k \in Numbers : graph'.attempts[n][k] = att(n, k)
      /\ \A n \in Nodes, j \in Handoffs : graph'.assignments[n][j] = asg(n, j)
      /\ \A n \in Nodes, j \in Handoffs : fences'[n][j] = fence(n, j)
  <2>1. ASSUME NEW n \in Nodes PROVE graph'.nodes[n].attempts = graph.nodes[n].attempts
    <3>1. graph.nodes[n] \in NodeType
      BY <1>1 DEF GraphType
    <3>2. graph'.nodes[n] = IF graph.nodes[n].status = "Running"
                            THEN [graph.nodes[n] EXCEPT !.status = "Interrupted",
                                                        !.outcome = "Interrupted"]
                            ELSE graph.nodes[n]
      BY DEF Reconcile
    <3> QED BY <3>1, <3>2 DEF NodeType
  <2>2. \A n \in Nodes, k \in Numbers : graph'.attempts[n][k] = att(n, k)
    BY DEF Reconcile
  <2>3. \A n \in Nodes, j \in Handoffs : graph'.assignments[n][j] = asg(n, j)
    BY DEF Reconcile
  <2>4. \A n \in Nodes, j \in Handoffs : fences'[n][j] = fence(n, j)
    BY DEF Reconcile
  <2> QED BY <2>1, <2>2, <2>3, <2>4
<1>3. ASSUME NEW n \in Nodes, NEW k \in Numbers
      PROVE  /\ att(n, k).assignment = graph.attempts[n][k].assignment
             /\ att(n, k).agent = graph.attempts[n][k].agent
             /\ \/ att(n, k).result.producer = graph.attempts[n][k].result.producer
                \/ att(n, k).result.producer = Nobody
             /\ graph.attempts[n][k].state = "Running"
                  /\ graph.attempts[n][k].result = NoResult
                  /\ graph.attempts[n][k].assignment # 0
                  => att(n, k).result # NoResult
  <2> DEFINE res == IF graph.attempts[n][k].result = NoResult
                       /\ graph.attempts[n][k].assignment # 0
                    THEN InterruptedResult ELSE graph.attempts[n][k].result
  <2>1. graph.attempts[n][k] \in AttemptType
    BY <1>1 DEF GraphType
  <2>2. att(n, k) = IF ~Interrupted(n, k) THEN graph.attempts[n][k]
                    ELSE [graph.attempts[n][k] EXCEPT !.state = "Interrupted",
                                                      !.result = res]
    BY <2>1 DEF AttemptType
  <2>3. InterruptedResult.producer = Nobody /\ InterruptedResult # NoResult
    BY DEF InterruptedResult, NoResult
  <2>4. /\ res.producer = graph.attempts[n][k].result.producer \/ res.producer = Nobody
        /\ graph.attempts[n][k].result = NoResult /\ graph.attempts[n][k].assignment # 0
             => res # NoResult
    BY <2>3
  <2> HIDE DEF res, att
  <2>5. CASE Interrupted(n, k)
    <3>1. /\ att(n, k).assignment = graph.attempts[n][k].assignment
          /\ att(n, k).agent = graph.attempts[n][k].agent
          /\ att(n, k).result = res
      BY <2>1, <2>2, <2>5 DEF AttemptType
    <3> QED BY <2>4, <3>1
  <2>6. CASE ~Interrupted(n, k)
    <3>1. att(n, k) = graph.attempts[n][k] /\ graph.attempts[n][k].state # "Running"
      BY <2>2, <2>6 DEF Interrupted
    <3> QED BY <3>1
  <2> QED BY <2>5, <2>6
<1>4. ASSUME NEW n \in Nodes, NEW j \in LeftBehind(n)
      PROVE  /\ graph.assignments[n][j].live
             /\ graph.attempts[n][graph.assignments[n][j].attempt].state = "Running"
             /\ graph.attempts[n][graph.assignments[n][j].attempt].result = NoResult
             /\ graph.attempts[n][graph.assignments[n][j].attempt].assignment = j
             /\ graph.assignments[n][j].attempt \in Numbers /\ j # 0
  <2>1. PICK k \in Numbers : /\ graph.attempts[n][k].state = "Running"
                             /\ graph.attempts[n][k].result = NoResult
                             /\ graph.attempts[n][k].assignment = j
    BY DEF LeftBehind, Interrupted
  <2>2. j # 0 /\ j \in Handoffs
    BY DEF LeftBehind, Handoffs
  <2>3. graph.assignments[n][j].live /\ graph.assignments[n][j].attempt = k
    <3>1. RunningHeld(graph, n)
      BY <1>1 DEF NodeInv
    <3> QED BY <2>1, <2>2, <3>1, Zenon DEF RunningHeld
  <2> QED BY ONLY <2>1, <2>2, <2>3
<1>5. ASSUME NEW n \in Nodes, NEW j \in Handoffs
      PROVE  /\ asg(n, j).attempt = graph.assignments[n][j].attempt
             /\ asg(n, j).agent = graph.assignments[n][j].agent
             /\ j \notin LeftBehind(n) => asg(n, j) = graph.assignments[n][j]
             /\ j \in LeftBehind(n) => asg(n, j).notices = told(n, j)
  <2>1. graph.assignments[n][j] \in AssignmentType
    BY <1>1 DEF GraphType
  <2> HIDE DEF told
  <2> QED BY <2>1 DEF AssignmentType
<1>6. FencesStand
  <2>1. ASSUME NEW n \in Nodes, NEW j \in Handoffs
        PROVE  /\ fence(n, j).generation = fences[n][j].generation
               /\ fence(n, j).phase = "None" => fences[n][j].phase = "None"
    <3>1. fences[n][j] \in FenceType
      BY DEF Inv, Linked
    <3> QED BY <3>1 DEF FenceType
  <2>2. \A n \in Nodes, j \in Handoffs : fences'[n][j] = fence(n, j)
    BY <1>2
  <2> HIDE DEF fence
  <2> QED BY ONLY <2>1, <2>2 DEF FencesStand
<1> HIDE DEF att, asg, fence
<1>7. ASSUME NEW n \in Nodes PROVE SteadyNode(graph, graph', n)
  <2>1. graph.nodes[n].attempts <= graph'.nodes[n].attempts
    <3>1. graph.nodes[n].attempts \in Nat
      BY <1>1, GraphAssumption DEF GraphType, NodeType
    <3> QED BY <1>2, <3>1
  <2>2. ASSUME NEW k \in Numbers
        PROVE  /\ graph'.attempts[n][k].assignment = graph.attempts[n][k].assignment
               /\ graph'.attempts[n][k].agent = graph.attempts[n][k].agent
               /\ \/ graph'.attempts[n][k].result.producer = Nobody
                  \/ graph'.attempts[n][k].result.producer
                       = graph.attempts[n][k].result.producer
    BY <1>2, <1>3
  <2>3. ASSUME NEW j \in Handoffs
        PROVE  /\ graph'.assignments[n][j].attempt = graph.assignments[n][j].attempt
               /\ graph'.assignments[n][j].agent = graph.assignments[n][j].agent
               /\ ~graph.assignments[n][j].live
                    => graph'.assignments[n][j] = graph.assignments[n][j]
    BY <1>2, <1>4, <1>5
  <2> QED BY ONLY <2>1, <2>2, <2>3 DEF SteadyNode
<1>8. ASSUME NEW n \in Nodes PROVE ToldOnce(graph', n)
  <2>1. /\ ToldOnce(graph, n)
        /\ LiveOwns(graph, n) /\ LiveOwns(graph', n) /\ RunningUnsettled(graph', n)
    BY <1>1 DEF Handed, NodeInv
  <2>2. ASSUME NEW i \in Handoffs
        PROVE  \/ graph'.assignments[n][i].notices = graph.assignments[n][i].notices
               \/ /\ graph.assignments[n][i].live
                  /\ graph'.assignments[n][i].notices = graph.assignments[n][i].notices + 1
                  /\ graph'.attempts[n][graph.assignments[n][i].attempt].result # NoResult
    <3>1. CASE i \in LeftBehind(n)
      <4>1. /\ graph.assignments[n][i].live
            /\ graph.attempts[n][graph.assignments[n][i].attempt].state = "Running"
            /\ graph.attempts[n][graph.assignments[n][i].attempt].result = NoResult
            /\ graph.attempts[n][graph.assignments[n][i].attempt].assignment # 0
            /\ graph.assignments[n][i].attempt \in Numbers
        BY <1>4, <3>1
      <4>2. graph'.attempts[n][graph.assignments[n][i].attempt].result # NoResult
        BY <1>2, <1>3, <4>1
      <4>3. graph'.assignments[n][i].notices = graph.assignments[n][i].notices + 1
        BY <1>2, <1>5, <3>1
      <4> QED BY <4>1, <4>2, <4>3, ZenonT(40)
    <3>2. CASE i \notin LeftBehind(n)
      BY <1>2, <1>5, <3>2
    <3> QED BY <3>1, <3>2
  <2>3. Final(graph, graph')
    OBVIOUS
  <2> QED BY ONLY <1>1, <1>7, <2>1, <2>2, <2>3, NoticeIsFirst, n \in Nodes
<1>9. Steady(graph, graph')
  BY <1>7 DEF Steady
<1> QED BY <1>6, <1>8, <1>9, SteadyStepAndNotices

(* Attempt k of n goes to w under the free assignment j of n.              *)
GivenTo(g, h, n, w, j, k) ==
    /\ k \in Numbers /\ j \in Handoffs /\ w \in Agents
    /\ \A m \in Nodes : g.nodes[m].attempts <= h.nodes[m].attempts
    /\ k <= h.nodes[n].attempts
    /\ \A m \in Nodes, i \in Numbers :
         ~(m = n /\ i = k) => h.attempts[m][i] = g.attempts[m][i]
    /\ g.attempts[n][k].result = NoResult
    /\ h.attempts[n][k].assignment = j /\ h.attempts[n][k].agent = w
    /\ h.attempts[n][k].result = NoResult
    /\ \A m \in Nodes, i \in Handoffs :
         ~(m = n /\ i = j) =>
            /\ h.assignments[m][i].attempt = g.assignments[m][i].attempt
            /\ h.assignments[m][i].agent = g.assignments[m][i].agent
            /\ h.assignments[m][i].notices = g.assignments[m][i].notices
            /\ ~g.assignments[m][i].live => h.assignments[m][i] = g.assignments[m][i]
    /\ h.assignments[n][j] = [attempt |-> k, agent |-> w, live |-> TRUE, notices |-> 0]
    /\ j \in FreeHandoff(g, n)

(* The next assignment: none from it on was made, and all before it were.  *)
LEMMA NextHandoff ==
    ASSUME NEW g \in GraphType, NEW n \in Nodes, HandoffInv(g, n),
           NEW j \in FreeHandoff(g, n)
    PROVE  /\ g.assignments[n][j] = NoAssignment
           /\ \A i \in Handoffs : g.assignments[n][i].attempt # 0 <=> i < j
<1>1. /\ j \in Handoffs /\ g.assignments[n][j] = NoAssignment
      /\ \A i \in 1..(j-1) : g.assignments[n][i] # NoAssignment
  BY DEF FreeHandoff
<1>2. g.assignments[n][j].attempt = 0
  BY <1>1 DEF NoAssignment
<1>3. ASSUME NEW i \in Handoffs, g.assignments[n][i].attempt # 0 PROVE i < j
  <2>1. i \in Nat /\ j \in Nat
    BY <1>1 DEF Handoffs
  <2>2. i # j
    BY <1>2, <1>3
  <2>3. ~(j < i)
    BY <1>1, <1>2, <1>3 DEF HandoffInv, InOrder
  <2> QED BY ONLY <2>1, <2>2, <2>3
<1>4. ASSUME NEW i \in Handoffs, i < j PROVE g.assignments[n][i].attempt # 0
  <2>1. i \in 1..(j-1)
    BY <1>1, <1>4 DEF Handoffs
  <2> QED BY <1>1, <2>1 DEF HandoffInv, MadeForOpened
<1> QED BY <1>1, <1>3, <1>4

LEMMA GivenKeepsHandoffs ==
    ASSUME NEW g \in GraphType, NEW h \in GraphType, NEW n \in Nodes, NEW w, NEW j, NEW k,
           GivenTo(g, h, n, w, j, k), HandoffInv(g, n)
    PROVE  HandoffInv(h, n)
<1>1. /\ k \in Numbers /\ j \in Handoffs /\ j \in FreeHandoff(g, n)
      /\ k <= h.nodes[n].attempts
      /\ g.nodes[n].attempts <= h.nodes[n].attempts
      /\ h.attempts[n][k].assignment = j /\ h.attempts[n][k].agent = w
      /\ h.attempts[n][k].result = NoResult
      /\ h.assignments[n][j] = [attempt |-> k, agent |-> w, live |-> TRUE, notices |-> 0]
  BY Zenon DEF GivenTo
<1>2. /\ \A i \in Numbers : i # k => h.attempts[n][i] = g.attempts[n][i]
      /\ \A i \in Handoffs : i # j =>
            /\ h.assignments[n][i].attempt = g.assignments[n][i].attempt
            /\ h.assignments[n][i].agent = g.assignments[n][i].agent
            /\ ~g.assignments[n][i].live => h.assignments[n][i] = g.assignments[n][i]
  BY Zenon DEF GivenTo
<1>3. /\ InOrder(g, n) /\ MadeForOpened(g, n) /\ NamesLast(g, n)
      /\ NamesHolder(g, n) /\ ProducedByHolder(g, n)
  BY DEF HandoffInv
<1>4. /\ g.assignments[n][j] = NoAssignment
      /\ \A i \in Handoffs : g.assignments[n][i].attempt # 0 <=> i < j
  BY <1>1, NextHandoff
<1>5. /\ h.assignments[n][j].attempt = k /\ h.assignments[n][j].agent = w /\ k # 0
      /\ g.assignments[n][j].attempt = 0
  BY <1>1, <1>4 DEF NoAssignment, Numbers
<1>6. ASSUME NEW i \in Handoffs
      PROVE  /\ i \in Nat /\ j \in Nat
             /\ h.assignments[n][i].attempt # 0 <=> i <= j
  <2>1. i \in Nat /\ j \in Nat
    BY <1>1 DEF Handoffs
  <2>2. CASE i = j
    BY <1>5, <2>1, <2>2
  <2>3. CASE i # j
    BY <1>2, <1>4, <2>1, <2>3
  <2> QED BY <2>1, <2>2, <2>3
<1>7. InOrder(h, n)
  <2> SUFFICES ASSUME NEW i \in Handoffs, NEW l \in Handoffs, i < l,
                      h.assignments[n][l].attempt # 0
               PROVE  h.assignments[n][i].attempt # 0
    BY DEF InOrder
  <2>1. l <= j /\ i \in Nat /\ l \in Nat /\ j \in Nat
    BY <1>6
  <2>2. i <= j
    BY ONLY <2>1, i < l
  <2> QED BY <1>6, <2>2
<1>8. MadeForOpened(h, n)
  <2> SUFFICES ASSUME NEW i \in Handoffs
               PROVE  /\ h.assignments[n][i].attempt = 0
                            => h.assignments[n][i] = NoAssignment
                      /\ h.assignments[n][i].attempt <= h.nodes[n].attempts
    BY DEF MadeForOpened
  <2>1. CASE i = j
    BY <1>1, <1>5, <2>1
  <2>2. CASE i # j
    <3>1. /\ g.assignments[n][i].attempt = 0 => g.assignments[n][i] = NoAssignment
          /\ g.assignments[n][i].attempt <= g.nodes[n].attempts
      BY <1>3 DEF MadeForOpened
    <3>2. /\ g.assignments[n][i].attempt \in Nat
          /\ g.nodes[n].attempts \in Nat /\ h.nodes[n].attempts \in Nat
      <4>1. g.assignments[n][i] \in AssignmentType
        BY DEF GraphType
      <4> QED BY <4>1, GraphAssumption DEF AssignmentType, GraphType, NodeType
    <3>3. h.assignments[n][i].attempt = g.assignments[n][i].attempt
      BY <1>2, <2>2
    <3>4. h.assignments[n][i].attempt <= h.nodes[n].attempts
      BY ONLY <1>1, <3>1, <3>2, <3>3
    <3>5. NoAssignment.live = FALSE
      BY DEF NoAssignment
    <3> QED BY <1>2, <2>2, <3>1, <3>3, <3>4, <3>5
  <2> QED BY <2>1, <2>2
<1>9. NamesLast(h, n)
  <2> SUFFICES ASSUME NEW i \in Handoffs, h.assignments[n][i].attempt # 0
               PROVE  i <= h.attempts[n][h.assignments[n][i].attempt].assignment
    BY DEF NamesLast
  <2>1. i <= j /\ i \in Nat
    BY <1>6
  <2>2. CASE h.assignments[n][i].attempt = k
    BY <1>1, <2>1, <2>2
  <2>3. CASE h.assignments[n][i].attempt # k
    <3>1. i # j
      BY <1>5, <2>3
    <3>2. h.assignments[n][i].attempt = g.assignments[n][i].attempt
      BY <1>2, <3>1
    <3>3. i <= g.attempts[n][g.assignments[n][i].attempt].assignment
      BY <1>3, <3>2 DEF NamesLast
    <3>4. g.assignments[n][i].attempt \in Numbers
      <4>1. g.assignments[n][i] \in AssignmentType
        BY DEF GraphType
      <4> QED BY <3>2, <4>1, GraphAssumption DEF AssignmentType, Numbers
    <3> QED BY <1>2, <2>3, <3>2, <3>3, <3>4
  <2> QED BY <2>2, <2>3
<1>10. NamesHolder(h, n)
  <2> SUFFICES ASSUME NEW x \in Numbers, h.attempts[n][x].assignment # 0
               PROVE  /\ h.assignments[n][h.attempts[n][x].assignment].attempt = x
                      /\ h.assignments[n][h.attempts[n][x].assignment].agent
                           = h.attempts[n][x].agent
    BY DEF NamesHolder
  <2>1. CASE x = k
    BY <1>1, <1>5, <2>1
  <2>2. CASE x # k
    <3> DEFINE i == g.attempts[n][x].assignment
    <3>1. h.attempts[n][x] = g.attempts[n][x] /\ i # 0
      BY <1>2, <2>2
    <3>2. /\ g.assignments[n][i].attempt = x
          /\ g.assignments[n][i].agent = g.attempts[n][x].agent
      BY <1>3, <3>1 DEF NamesHolder
    <3>3. i \in Handoffs
      <4>1. g.attempts[n][x] \in AttemptType
        BY DEF GraphType
      <4> QED BY <3>1, <4>1, GraphAssumption DEF AttemptType, Handoffs
    <3> HIDE DEF i
    <3>4. i # j
      BY <1>5, <3>2 DEF Numbers
    <3>5. h.attempts[n][x].assignment = i
      BY <3>1 DEF i
    <3> QED BY <1>2, <3>1, <3>2, <3>3, <3>4, <3>5
  <2> QED BY <2>1, <2>2
<1>11. ProducedByHolder(h, n)
  <2>1. NoResult.producer = Nobody
    BY DEF NoResult
  <2> QED BY <1>1, <1>2, <1>3, <2>1 DEF ProducedByHolder
<1> QED BY <1>7, <1>8, <1>9, <1>10, <1>11 DEF HandoffInv

(* Notices that were sent are of attempts that ended.                      *)
LEMMA GivenKeepsToldOnce ==
    ASSUME NEW g \in GraphType, NEW h \in GraphType, NEW n \in Nodes, NEW w, NEW j, NEW k,
           GivenTo(g, h, n, w, j, k), NEW m \in Nodes, ToldOnce(g, m)
    PROVE  ToldOnce(h, m)
<1> SUFFICES ASSUME NEW i \in Handoffs, h.assignments[m][i].notices # 0
             PROVE  /\ h.assignments[m][i].notices = 1
                    /\ h.assignments[m][i].attempt # 0 /\ ~h.assignments[m][i].live
                    /\ h.attempts[m][h.assignments[m][i].attempt].assignment = i
                    /\ h.attempts[m][h.assignments[m][i].attempt].result # NoResult
  BY DEF ToldOnce
<1>1. ~(m = n /\ i = j)
  <2>1. h.assignments[n][j] = [attempt |-> k, agent |-> w, live |-> TRUE, notices |-> 0]
    BY DEF GivenTo
  <2>2. h.assignments[n][j].notices = 0
    BY ONLY <2>1
  <2> QED BY <2>2
<1>2. /\ h.assignments[m][i].notices = g.assignments[m][i].notices
      /\ ~g.assignments[m][i].live => h.assignments[m][i] = g.assignments[m][i]
  BY <1>1, Zenon DEF GivenTo
<1> DEFINE x == g.assignments[m][i].attempt
<1>3. /\ g.assignments[m][i].notices = 1 /\ x # 0 /\ ~g.assignments[m][i].live
      /\ g.attempts[m][x].assignment = i /\ g.attempts[m][x].result # NoResult
  BY <1>2, Zenon DEF ToldOnce
<1>4. x \in Numbers
  <2>1. g.assignments[m][i] \in AssignmentType
    BY DEF GraphType
  <2> QED BY <1>3, <2>1, GraphAssumption DEF AssignmentType, Numbers
<1>5. h.attempts[m][x] = g.attempts[m][x]
  <2>1. ~(m = n /\ x = k)
    BY <1>3, Zenon DEF GivenTo
  <2> QED BY <1>4, <2>1, Zenon DEF GivenTo
<1> QED BY ONLY <1>2, <1>3, <1>5

LEMMA OthersAreSteady ==
    ASSUME NEW g, NEW h, NEW n \in Nodes, NEW w, NEW j, NEW k, GivenTo(g, h, n, w, j, k),
           NEW m \in Nodes, m # n
    PROVE  SteadyNode(g, h, m)
<1>1. g.nodes[m].attempts <= h.nodes[m].attempts
  BY DEF GivenTo
<1>2. \A i \in Numbers : h.attempts[m][i] = g.attempts[m][i]
  BY Zenon DEF GivenTo
<1>3. \A i \in Handoffs :
        /\ h.assignments[m][i].attempt = g.assignments[m][i].attempt
        /\ h.assignments[m][i].agent = g.assignments[m][i].agent
        /\ ~g.assignments[m][i].live => h.assignments[m][i] = g.assignments[m][i]
  BY Zenon DEF GivenTo
<1> QED BY ONLY <1>1, <1>2, <1>3 DEF SteadyNode

(* The new fence outranks those of the attempt's earlier assignments.      *)
LEMMA ActivateRanks ==
    ASSUME Inv, Handed, NEW n \in Nodes, NEW j \in FreeHandoff(graph, n), NEW k \in Numbers,
           Activate(n, j, k)
    PROVE  /\ \A m \in Nodes : m # n => fences'[m] = fences[m]
           /\ \A i \in Handoffs : i # j =>
                /\ fences'[n][i].generation = fences[n][i].generation
                /\ fences'[n][i].phase = "None" => fences[n][i].phase = "None"
           /\ fences'[n][j].phase # "None"
           /\ \A i \in Handoffs :
                i # j /\ graph.assignments[n][i].attempt = k
                  => fences'[n][i].generation < fences'[n][j].generation
<1> DEFINE row(gen) == [i \in Handoffs |->
                          IF i = j THEN [phase |-> "Active", generation |-> gen]
                          ELSE IF i \in OfAttempt(n, k) /\ fences[n][i].phase = "Active"
                               THEN [fences[n][i] EXCEPT !.phase = "Superseded"]
                               ELSE fences[n][i]]
<1>1. PICK gen \in Handoffs : /\ IsNextGeneration(n, k, gen)
                              /\ fences' = [fences EXCEPT ![n] = row(gen)]
  BY DEF Activate
<1>2. fences \in [Nodes -> [Handoffs -> FenceType]] /\ j \in Handoffs
  BY DEF Inv, Linked, FreeHandoff
<1>3. \A i \in OfAttempt(n, k) : fences[n][i].generation < gen
  BY <1>1 DEF IsNextGeneration
<1>4. ASSUME NEW i \in Handoffs, i # j
      PROVE  /\ row(gen)[i].generation = fences[n][i].generation
             /\ row(gen)[i].phase = "None" => fences[n][i].phase = "None"
  <2>1. fences[n][i] \in FenceType
    BY <1>2
  <2> QED BY <1>4, <2>1 DEF FenceType
<1>5. row(gen)[j].phase = "Active" /\ row(gen)[j].generation = gen
  BY <1>2
<1>6. ASSUME NEW i \in Handoffs, graph.assignments[n][i].attempt = k
      PROVE  i \in OfAttempt(n, k)
  <2>1. k # 0
    BY DEF Numbers
  <2>2. fences[n][i].phase # "None"
    BY <1>6, <2>1 DEF Handed, Ranked
  <2>3. fences[n][i] # NoFence
    BY <2>2 DEF NoFence
  <2> QED BY <1>6, <2>3 DEF OfAttempt
<1> HIDE DEF row
<1>7. fences'[n] = row(gen) /\ \A m \in Nodes : m # n => fences'[m] = fences[m]
  BY <1>1, <1>2
<1>8. ASSUME NEW i \in Handoffs, i # j, graph.assignments[n][i].attempt = k
      PROVE  fences'[n][i].generation < fences'[n][j].generation
  BY <1>3, <1>4, <1>5, <1>6, <1>7, <1>8
<1> QED BY <1>4, <1>5, <1>7, <1>8

LEMMA GivenKeepsHanded ==
    ASSUME Inv, Inv', Handed, NEW n \in Nodes, NEW w, NEW j, NEW k,
           GivenTo(graph, graph', n, w, j, k), Activate(n, j, k)
    PROVE  Handed'
<1> DEFINE g == graph
           h == graph'
           f == fences
           d == fences'
<1>1. g \in GraphType /\ h \in GraphType
  BY DEF Inv, GraphInv
<1>2. \A m \in Nodes : HandoffInv(g, m) /\ ToldOnce(g, m) /\ Ranked(g, f, m)
  BY DEF Handed
<1>3. GivenTo(g, h, n, w, j, k)
  OBVIOUS
<1>4. k \in Numbers /\ j \in FreeHandoff(g, n) /\ j \in Handoffs
  BY <1>3, Zenon DEF GivenTo
<1>5. /\ \A m \in Nodes : m # n => d[m] = f[m]
      /\ \A i \in Handoffs : i # j =>
           /\ d[n][i].generation = f[n][i].generation
           /\ d[n][i].phase = "None" => f[n][i].phase = "None"
      /\ d[n][j].phase # "None"
      /\ \A i \in Handoffs : i # j /\ g.assignments[n][i].attempt = k
                               => d[n][i].generation < d[n][j].generation
  BY <1>4, ActivateRanks
<1> HIDE DEF g, h, f, d
<1>6. \A m \in Nodes : ToldOnce(h, m)
  BY ONLY <1>1, <1>2, <1>3, GivenKeepsToldOnce, n \in Nodes
<1>7. HandoffInv(h, n)
  BY ONLY <1>1, <1>2, <1>3, GivenKeepsHandoffs, n \in Nodes
<1>8. Ranked(h, d, n)
  <2>1. /\ h.assignments[n][j].attempt = k /\ k # 0
        /\ \A i \in Handoffs : i # j =>
             h.assignments[n][i].attempt = g.assignments[n][i].attempt
    <3>1. /\ h.assignments[n][j] = [attempt |-> k, agent |-> w, live |-> TRUE,
                                    notices |-> 0]
          /\ \A i \in Handoffs : i # j =>
               h.assignments[n][i].attempt = g.assignments[n][i].attempt
      BY <1>3, Zenon DEF GivenTo
    <3>2. h.assignments[n][j].attempt = k
      BY ONLY <3>1
    <3> QED BY <1>4, <3>1, <3>2 DEF Numbers
  <2>2. \A i \in Handoffs : g.assignments[n][i].attempt # 0 <=> i < j
    BY <1>1, <1>2, <1>4, NextHandoff
  <2>3. \A i \in Handoffs : i \in Nat
    BY DEF Handoffs
  <2> SUFFICES ASSUME NEW l \in Handoffs, h.assignments[n][l].attempt # 0
               PROVE  /\ d[n][l].phase # "None"
                      /\ \A i \in Handoffs :
                           i < l /\ h.assignments[n][i].attempt = h.assignments[n][l].attempt
                             => d[n][i].generation < d[n][l].generation
    BY DEF Ranked
  <2>4. CASE l = j
    <3>1. ASSUME NEW i \in Handoffs, i < l, h.assignments[n][i].attempt = k
          PROVE  d[n][i].generation < d[n][j].generation
      <4>1. i # j
        BY <1>4, <2>3, <2>4, <3>1
      <4> QED BY <1>5, <2>1, <3>1, <4>1
    <3> QED BY <1>5, <2>1, <2>4, <3>1
  <2>5. CASE l # j
    <3>1. g.assignments[n][l].attempt = h.assignments[n][l].attempt /\ l < j
      BY <2>1, <2>2, <2>5
    <3>2. /\ f[n][l].phase # "None"
          /\ \A i \in Handoffs :
               i < l /\ g.assignments[n][i].attempt = g.assignments[n][l].attempt =>
                 f[n][i].generation < f[n][l].generation
      BY <1>2, <3>1 DEF Ranked
    <3>3. ASSUME NEW i \in Handoffs, i < l,
                 h.assignments[n][i].attempt = h.assignments[n][l].attempt
          PROVE  d[n][i].generation < d[n][l].generation
      <4>1. i # j
        BY <1>4, <2>3, <3>1, <3>3
      <4>2. f[n][i].generation < f[n][l].generation
        BY <2>1, <3>1, <3>2, <3>3, <4>1
      <4> QED BY <1>5, <2>5, <4>1, <4>2
    <3> QED BY <1>5, <2>5, <3>2, <3>3
  <2> QED BY <2>4, <2>5
<1>9. ASSUME NEW m \in Nodes, m # n PROVE HandoffInv(h, m) /\ Ranked(h, d, m)
  <2>1. SteadyNode(g, h, m)
    BY ONLY <1>3, <1>9, OthersAreSteady, n \in Nodes
  <2>2. HandoffInv(h, m)
    BY ONLY <1>1, <1>2, <2>1, SteadyKeepsHandoffs, m \in Nodes
  <2>3. Ranked(h, d, m)
    BY <1>2, <1>5, <1>9, <2>1, SteadyKeepsRanks
  <2> QED BY <2>2, <2>3
<1>10. \A m \in Nodes : HandoffInv(h, m) /\ Ranked(h, d, m)
  BY <1>7, <1>8, <1>9
<1> QED BY <1>6, <1>10 DEF Handed, h, d

LEMMA AssignKeepsHanded ==
    ASSUME Inv, Inv', Handed, NEW n \in Nodes, NEW w \in Workers, Assign(n, w)
    PROVE  Handed'
<1> DEFINE k == graph.nodes[n].attempts + 1
           node == [status |-> "Running", outcome |-> "None", attempts |-> k]
<1>1. PICK j \in FreeHandoff(graph, n) :
         /\ graph' = AddAssignment(OpenAttempt(graph, n, w, j), n, j, k, w)
         /\ Activate(n, j, k)
  BY DEF Assign
<1> DEFINE o == OpenAttempt(graph, n, w, j)
           att == [state |-> "Running", agent |-> w, assignment |-> j,
                   result |-> NoResult, inputs |-> FreezeManifest(graph, n)]
<1>2. /\ j \in Handoffs /\ w \in Agents /\ Claimable(graph, n) /\ graph \in GraphType
      /\ j \in 0..MaxHandoffs /\ GraphInv(graph)
  BY GraphAssumption DEF FreeHandoff, Workers, Assign, Inv, GraphInv, Handoffs
<1>3. /\ graph.nodes[n].attempts \in Nat /\ graph.nodes[n].attempts < MaxNumber
      /\ graph.attempts[n][k] = NoAttempt
  BY <1>2, ClaimableIsIdle
<1>4. /\ o \in GraphType /\ k \in Numbers
      /\ o.assignments = graph.assignments
      /\ \A m \in Nodes : o.nodes[m] = IF m = n THEN node ELSE graph.nodes[m]
      /\ \A m \in Nodes, i \in Numbers :
            o.attempts[m][i] = IF m = n /\ i = k THEN att ELSE graph.attempts[m][i]
  BY <1>2, <1>3, OpenEffect
<1>5. /\ att.assignment = j /\ att.agent = w /\ att.result = NoResult
      /\ node.attempts = k
  OBVIOUS
<1>6. /\ k <= k /\ graph.nodes[n].attempts <= k
      /\ \A m \in Nodes : graph.nodes[m].attempts <= graph.nodes[m].attempts
  <2>1. \A m \in Nodes : graph.nodes[m].attempts \in Nat
    BY <1>2, GraphAssumption DEF GraphType, NodeType
  <2> QED BY <1>3, <2>1
<1>7. graph' = AddAssignment(o, n, j, k, w)
  BY <1>1
<1>8. graph.attempts[n][k].result = NoResult
  BY <1>3 DEF NoAttempt
<1> HIDE DEF o, att, node, k
<1>9. /\ graph'.nodes = o.nodes /\ graph'.attempts = o.attempts
      /\ \A m \in Nodes, i \in Handoffs : graph'.assignments[m][i] =
           IF m = n /\ i = j
           THEN [attempt |-> k, agent |-> w, live |-> TRUE, notices |-> 0]
           ELSE o.assignments[m][i]
  <2>1. o \in GraphType /\ j \in Handoffs /\ k \in Numbers /\ w \in Agents
    BY <1>2, <1>4
  <2> QED BY ONLY <1>7, <2>1, AddEffect, n \in Nodes
<1>10. \A m \in Nodes : graph.nodes[m].attempts <= graph'.nodes[m].attempts
  BY <1>4, <1>5, <1>6, <1>9
<1>11. k <= graph'.nodes[n].attempts
  BY <1>4, <1>5, <1>6, <1>9
<1>12. /\ \A m \in Nodes, i \in Numbers :
            ~(m = n /\ i = k) => graph'.attempts[m][i] = graph.attempts[m][i]
       /\ graph'.attempts[n][k] = att
  BY <1>4, <1>9
<1>13. /\ \A m \in Nodes, i \in Handoffs :
            ~(m = n /\ i = j) => graph'.assignments[m][i] = graph.assignments[m][i]
       /\ graph'.assignments[n][j] =
            [attempt |-> k, agent |-> w, live |-> TRUE, notices |-> 0]
  BY <1>2, <1>4, <1>9, ZenonT(40)
<1>14. GivenTo(graph, graph', n, w, j, k)
  BY ONLY <1>1, <1>2, <1>4, <1>5, <1>8, <1>10, <1>11, <1>12, <1>13, ZenonT(40) DEF GivenTo
<1> QED BY <1>1, <1>14, GivenKeepsHanded

LEMMA ReassignKeepsHanded ==
    ASSUME Inv, Inv', Handed, NEW n \in Nodes, NEW w \in Workers, Reassign(n, w)
    PROVE  Handed'
<1> DEFINE k == graph.nodes[n].attempts
           old == LastAttempt(graph, n).assignment
           freed == Release(graph, n, old)
<1>1. PICK j \in FreeHandoff(graph, n) :
         /\ graph' = AddAssignment(PassOn(graph, n, w, j), n, j, k, w)
         /\ Activate(n, j, k)
  BY DEF Reassign, PassOn
<1> DEFINE att == [freed.attempts[n][k] EXCEPT !.agent = w, !.assignment = j,
                                               !.inputs = FreezeManifest(graph, n)]
           given == PassOn(graph, n, w, j)
<1>2. /\ j \in Handoffs /\ w \in Agents /\ graph \in GraphType
      /\ graph.nodes[n].status = "Running" /\ GraphInv(graph)
      /\ LastAttempt(graph, n).result = NoResult
  BY DEF FreeHandoff, Workers, Reassign, Inv, GraphInv
<1>3. /\ k \in Numbers /\ graph.attempts[n][k].result = NoResult
      /\ graph.attempts[n][k] \in AttemptType
      /\ old = graph.attempts[n][k].assignment /\ old \in 0..MaxHandoffs
  <2>1. k \in Numbers
    BY <1>2 DEF GraphInv, NodeInv, RunningOpened
  <2>2. graph.attempts[n][k] \in AttemptType
    BY <1>2, <2>1 DEF GraphType
  <2> QED BY <1>2, <2>1, <2>2 DEF LastAttempt, AttemptType
<1>4. given = [freed EXCEPT !.attempts[n][k] = att]
  BY DEF PassOn
<1>5. graph' = AddAssignment(given, n, j, k, w)
  BY <1>1
<1>6. freed = Release(graph, n, old)
  OBVIOUS
<1> HIDE DEF freed, old
<1>7. /\ freed \in GraphType /\ Steady(graph, freed) /\ Untold(graph, freed)
      /\ freed.nodes = graph.nodes /\ freed.attempts = graph.attempts
  <2>1. freed \in GraphType /\ Steady(graph, freed) /\ Untold(graph, freed)
    BY ONLY <1>2, <1>3, <1>6, ReleaseIsSteady, n \in Nodes
  <2>2. freed.nodes = graph.nodes /\ freed.attempts = graph.attempts
    <3>1. graph \in GraphType /\ old \in 0..MaxHandoffs
      BY <1>2, <1>3
    <3> QED BY ONLY <1>6, <3>1, ReleaseKeeps, n \in Nodes
  <2> QED BY <2>1, <2>2
<1>8. /\ att \in AttemptType /\ att.agent = w /\ att.assignment = j
      /\ att.result = NoResult
  <2>1. freed.attempts[n][k] = graph.attempts[n][k]
    BY <1>7
  <2>2. j \in 0..MaxHandoffs
    BY <1>2, GraphAssumption DEF Handoffs
  <2>3. FreezeManifest(graph, n) \in SUBSET (Nodes \X Numbers)
    BY <1>2, ManifestType
  <2> HIDE DEF k
  <2> QED BY <1>2, <1>3, <2>1, <2>2, <2>3 DEF AttemptType
<1> HIDE DEF att, given
<1>9. /\ given \in GraphType /\ given.nodes = graph.nodes
      /\ given.assignments = freed.assignments
      /\ \A m \in Nodes, i \in Numbers :
           given.attempts[m][i] = IF m = n /\ i = k THEN att ELSE graph.attempts[m][i]
  <2> HIDE DEF k
  <2> QED BY <1>3, <1>4, <1>7, <1>8 DEF GraphType
<1>10. k <= k /\ \A m \in Nodes : graph.nodes[m].attempts <= graph.nodes[m].attempts
  <2>1. \A m \in Nodes : graph.nodes[m].attempts \in Nat
    BY <1>2, GraphAssumption DEF GraphType, NodeType
  <2> QED BY <2>1
<1>11. k = graph.nodes[n].attempts
  OBVIOUS
<1> HIDE DEF k
<1>12. /\ graph'.nodes = given.nodes /\ graph'.attempts = given.attempts
       /\ \A m \in Nodes, i \in Handoffs : graph'.assignments[m][i] =
            IF m = n /\ i = j
            THEN [attempt |-> k, agent |-> w, live |-> TRUE, notices |-> 0]
            ELSE given.assignments[m][i]
  BY ONLY <1>2, <1>3, <1>5, <1>9, AddEffect, n \in Nodes
<1>13. /\ \A m \in Nodes : graph.nodes[m].attempts <= graph'.nodes[m].attempts
       /\ k <= graph'.nodes[n].attempts
  BY <1>9, <1>10, <1>11, <1>12
<1>14. /\ \A m \in Nodes, i \in Numbers :
            ~(m = n /\ i = k) => graph'.attempts[m][i] = graph.attempts[m][i]
       /\ graph'.attempts[n][k] = att
  BY <1>3, <1>9, <1>12
<1>15. ASSUME NEW m \in Nodes, NEW i \in Handoffs, ~(m = n /\ i = j)
       PROVE  /\ graph'.assignments[m][i].attempt = graph.assignments[m][i].attempt
              /\ graph'.assignments[m][i].agent = graph.assignments[m][i].agent
              /\ graph'.assignments[m][i].notices = graph.assignments[m][i].notices
              /\ ~graph.assignments[m][i].live
                   => graph'.assignments[m][i] = graph.assignments[m][i]
  <2>1. graph'.assignments[m][i] = freed.assignments[m][i]
    BY ONLY <1>9, <1>12, <1>15, m \in Nodes, i \in Handoffs
  <2>2. SteadyNode(graph, freed, m)
    BY <1>7 DEF Steady
  <2>3. /\ freed.assignments[m][i].attempt = graph.assignments[m][i].attempt
        /\ freed.assignments[m][i].agent = graph.assignments[m][i].agent
        /\ ~graph.assignments[m][i].live
             => freed.assignments[m][i] = graph.assignments[m][i]
    BY <2>2, Zenon DEF SteadyNode
  <2>4. freed.assignments[m][i].notices = graph.assignments[m][i].notices
    BY <1>7 DEF Untold
  <2> QED BY ONLY <2>1, <2>3, <2>4
<1>16. graph'.assignments[n][j] =
         [attempt |-> k, agent |-> w, live |-> TRUE, notices |-> 0]
  BY <1>2, <1>12
<1>17. GivenTo(graph, graph', n, w, j, k)
  BY ONLY <1>1, <1>2, <1>3, <1>8, <1>13, <1>14, <1>15, <1>16 DEF GivenTo
<1> QED BY <1>1, <1>17, GivenKeepsHanded

LEMMA OperationKeepsHanded ==
    ASSUME "Running" \notin BlockFrom, Inv, Handed, Operation
    PROVE  Handed'
<1>0. Inv' /\ Final(graph, graph')
  BY OperationKeeps DEF Kept
<1>1. ASSUME NEW a \in Agents, NEW n \in Nodes,
             Start(a, n) \/ Block(a, n) \/ Unblock(a, n) \/ Retry(a, n) \/ Cancel(a, n)
      PROVE  Handed'
  <2>1. CASE Start(a, n)
    BY <1>0, <2>1, StartKeepsHanded
  <2>2. CASE Block(a, n)
    BY <1>0, <2>2, SetStatusKeepsHanded DEF Block
  <2>3. CASE Unblock(a, n)
    BY <1>0, <2>3, SetStatusKeepsHanded DEF Unblock
  <2>4. CASE Retry(a, n)
    BY <1>0, <2>4, SetStatusKeepsHanded DEF Retry
  <2>5. CASE CancelIdle(a, n)
    BY <1>0, <2>5, SetStatusKeepsHanded DEF CancelIdle
  <2>6. CASE CancelRunning(a, n)
    BY <1>0, <2>6, CancelRunningKeepsHanded
  <2> QED BY <1>1, <2>1, <2>2, <2>3, <2>4, <2>5, <2>6 DEF Cancel
<1>2. ASSUME NEW n \in Nodes, NEW w \in Workers, Assign(n, w) \/ Reassign(n, w)
      PROVE  Handed'
  BY <1>0, <1>2, AssignKeepsHanded, ReassignKeepsHanded
<1>3. ASSUME NEW n \in Nodes, NEW j \in Handoffs, NEW r \in Reports, SettleAssignment(n, j, r)
      PROVE  Handed'
  BY <1>0, <1>3, SettleAssignmentKeepsHanded
<1>4. ASSUME NEW a \in Agents, NEW n \in Nodes, NEW r \in Reports,
             Fail(a, n, r) \/ Complete(a, n, r)
      PROVE  Handed'
  BY <1>0, <1>4, FailKeepsHanded, CompleteKeepsHanded
<1>5. ASSUME NEW a \in Agents, NEW m \in Nodes, NEW n \in Nodes, NEW r \in Reports,
             CompleteBatch(a, m, n, r)
      PROVE  Handed'
  BY <1>0, <1>5, CompleteBatchKeepsHanded
<1> QED BY <1>1, <1>2, <1>3, <1>4, <1>5 DEF Operation

(* Handed says what the three properties of hand-offs say; that only the   *)
(* last assignment of an attempt can be live, it has from Inv.             *)
LEMMA HandedImplies ==
    ASSUME Inv, Handed
    PROVE  LaterHandoffOutranks /\ ProducerHeldTheAttempt /\ NotifiedOnce
<1>1. ASSUME NEW n \in Nodes
      PROVE  /\ NamesLast(graph, n) /\ NamesHolder(graph, n) /\ ProducedByHolder(graph, n)
             /\ ToldOnce(graph, n) /\ Ranked(graph, fences, n) /\ LiveOwns(graph, n)
  BY DEF Handed, HandoffInv, Inv, GraphInv, NodeInv
<1>2. LaterHandoffOutranks
  <2> SUFFICES ASSUME NEW n \in Nodes, NEW i \in Handoffs, NEW j \in Handoffs, i < j,
                      graph.assignments[n][j].attempt # 0,
                      graph.assignments[n][i].attempt = graph.assignments[n][j].attempt
               PROVE  /\ fences[n][i].generation < fences[n][j].generation
                      /\ fences[n][i].phase # "Active"
    BY DEF LaterHandoffOutranks
  <2>1. fences[n][i].generation < fences[n][j].generation
    BY <1>1 DEF Ranked
  <2>2. fences[n][i].phase # "Active"
    <3> SUFFICES ASSUME fences[n][i].phase = "Active" PROVE FALSE
      OBVIOUS
    <3> DEFINE k == graph.assignments[n][j].attempt
    <3>1. graph.assignments[n][i].live
      BY DEF Inv, Linked
    <3>2. graph.attempts[n][k].assignment = i
      <4>1. LiveOwns(graph, n)
        BY <1>1
      <4>2. graph.attempts[n][graph.assignments[n][i].attempt].assignment = i
        BY ONLY <3>1, <4>1, i \in Handoffs, Zenon DEF LiveOwns
      <4> QED BY <4>2, Zenon
    <3>3. j <= graph.attempts[n][k].assignment
      BY <1>1 DEF NamesLast
    <3>4. i \in Nat /\ j \in Nat
      BY DEF Handoffs
    <3> QED BY ONLY <3>2, <3>3, <3>4, i < j
  <2> QED BY <2>1, <2>2
<1>3. ProducerHeldTheAttempt
  BY <1>1 DEF ProducerHeldTheAttempt, ProducedByHolder, NamesHolder
<1>4. NotifiedOnce
  BY <1>1 DEF NotifiedOnce, ToldOnce
<1> QED BY <1>2, <1>3, <1>4

(* The properties of hand-offs hold of the operations by themselves too.   *)
(* The generations of an attempt's fences grow with its assignments and    *)
(* only the last of them can be active (LaterHandoffOutranks), a result is *)
(* in the name of who held the attempt when it ended                       *)
(* (ProducerHeldTheAttempt), and the parent hears at most once of an       *)
(* assignment and never before its attempt has a result (NotifiedOnce).    *)
THEOREM HandoffSafety ==
    ASSUME "Running" \notin BlockFrom
    PROVE  UncheckedSpec => [](/\ LaterHandoffOutranks /\ ProducerHeldTheAttempt
                               /\ NotifiedOnce)
<1>1. Inv /\ Handed /\ [Operation \/ Reconcile]_vars => Handed'
  <2> SUFFICES ASSUME Inv, Handed, [Operation \/ Reconcile]_vars PROVE Handed'
    OBVIOUS
  <2>1. CASE Operation
    BY <2>1, OperationKeepsHanded
  <2>2. CASE Reconcile
    BY <2>2, ReconcileKeeps, ReconcileKeepsHanded DEF Kept
  <2>3. CASE UNCHANGED vars
    BY <2>3 DEF vars, Handed
  <2> QED BY <2>1, <2>2, <2>3
<1>2. Inv /\ Handed => LaterHandoffOutranks /\ ProducerHeldTheAttempt /\ NotifiedOnce
  BY HandedImplies
<1> QED BY <1>1, <1>2, InitHanded, UncheckedInv, PTL DEF UncheckedSpec

LEMMA CheckedIsUnchecked == Spec => UncheckedSpec
<1>1. [Next]_vars => [Operation \/ Reconcile]_vars
  BY DEF Next
<1> QED BY <1>1, PTL DEF Spec, UncheckedSpec

(* What mutate_work installs always has the shape of its types.            *)
THEOREM CheckedTypes ==
    ASSUME "Running" \notin BlockFrom
    PROVE  Spec => []TypeOK
BY CheckedIsUnchecked, Safety, PTL

(* A writer that kept its old token after a hand-off is told apart by the  *)
(* generation, in everything mutate_work installs.                         *)
THEOREM CheckedRanks ==
    ASSUME "Running" \notin BlockFrom
    PROVE  Spec => []LaterHandoffOutranks
BY CheckedIsUnchecked, HandoffSafety, PTL

(* The previous holder of an attempt cannot answer for it any more.        *)
THEOREM CheckedProducers ==
    ASSUME "Running" \notin BlockFrom
    PROVE  Spec => []ProducerHeldTheAttempt
BY CheckedIsUnchecked, HandoffSafety, PTL

(* The parent hears at most once of every assignment.                      *)
THEOREM CheckedNotices ==
    ASSUME "Running" \notin BlockFrom
    PROVE  Spec => []NotifiedOnce
BY CheckedIsUnchecked, HandoffSafety, PTL

-----------------------------------------------------------------------------
(* Bounces.  StaleResults takes as many rounds as there are nodes; as each *)
(* node has one latest result at most, a round that is not the last one    *)
(* needed finds a further one, so that many rounds always suffice.         *)

Below == {m \in Nat \X Nat : m[1] < m[2]}

(* A set of numbers that is not empty has a least one.                     *)
LEMMA LeastNumber ==
    ASSUME NEW T \in SUBSET Nat, T # {}
    PROVE  \E n \in T : \A m \in T : n <= m
<1>1. IsWellFoundedOn(Below, Nat)
  BY NatLessThanWellFounded, Zenon DEF OpToRel, Below
<1>2. \E n \in T : \A m \in T : ~(<<m, n>> \in Below)
  BY <1>1, WFMin
<1>3. PICK n \in T : \A m \in T : ~(<<m, n>> \in Below)
  BY <1>2
<1>4. \A m \in T : ~(m < n)
  BY <1>3 DEF Below
<1> QED BY <1>3, <1>4

(* What a round adds to the results found stale, and what all rounds find. *)
Spread(g, X) == UNION {LatestResult(g, n) : n \in Consumers(g, X)}

Rounds(f, A, g) == [i \in 0..Cardinality(Nodes) |->
                      IF i = 0 THEN A ELSE f[i - 1] \cup Spread(g, f[i - 1])]

LatestResults(g, S) == UNION {LatestResult(g, n) : n \in S}

(* The rounds of StaleResults are well defined.                            *)
LEMMA RoundsExist ==
    ASSUME NEW A, NEW g
    PROVE  \E f : f = Rounds(f, A, g)
<1> DEFINE N == Cardinality(Nodes)
           rule(f, i) == IF i = 0 THEN A ELSE f[i - 1] \cup Spread(g, f[i - 1])
           F(n) == \E f : f = [i \in 0..n |-> rule(f, i)]
           T == {n \in 0..N : ~F(n)}
<1>0. N \in Nat
  BY GraphAssumption, FS_CardinalityType
<1>1. SUFFICES ASSUME T # {} PROVE FALSE
  <2>1. N \in 0..N
    BY <1>0
  <2>2. T = {} => F(N)
    <3> HIDE DEF F, N
    <3> QED BY <2>1
  <2> QED BY <2>2 DEF Rounds
<1> HIDE DEF N
<1>2. T \in SUBSET Nat
  BY <1>0
<1> HIDE DEF T
<1>3. PICK n \in T : \A m \in T : n <= m
  BY <1>1, <1>2, LeastNumber
<1>4. n \in 0..N /\ ~F(n) /\ N \in Nat
  BY <1>0, <1>3 DEF T
<1>5. CASE n = 0
  <2> DEFINE f == [i \in 0..0 |-> A]
  <2>1. \A i \in 0..0 : rule(f, i) = A
    OBVIOUS
  <2>2. f = [i \in 0..0 |-> rule(f, i)]
    BY <2>1
  <2> QED BY <1>4, <1>5, <2>2
<1>6. CASE n # 0
  <2>1. n - 1 \in 0..N /\ n - 1 \notin T
    BY <1>2, <1>3, <1>4, <1>6
  <2>2. F(n - 1)
    BY <2>1 DEF T
  <2>3. PICK f : f = [i \in 0..(n - 1) |-> rule(f, i)]
    BY <2>2
  <2> DEFINE h == [i \in 0..n |-> IF i = n THEN rule(f, n) ELSE f[i]]
  <2>4. n \in Nat /\ n - 1 \in Nat /\ n - 1 # n
    BY <1>4, <1>6
  <2>5. ASSUME NEW i \in 0..n PROVE h[i] = rule(h, i)
    <3>1. CASE i = n
      <4>1. h[i] = rule(f, n) /\ h[n - 1] = f[n - 1]
        BY <2>4, <3>1
      <4> QED BY <1>6, <3>1, <4>1
    <3>2. CASE i # n /\ i # 0
      <4>1. i \in 0..(n - 1) /\ i - 1 \in 0..n /\ i - 1 # n
        BY <2>4, <3>2
      <4>2. h[i] = f[i] /\ h[i - 1] = f[i - 1]
        BY <3>2, <4>1
      <4>3. f[i] = rule(f, i)
        BY <2>3, <4>1
      <4> QED BY <3>2, <4>2, <4>3
    <3>3. CASE i # n /\ i = 0
      <4>1. i \in 0..(n - 1)
        BY <2>4, <3>3
      <4>2. h[i] = f[i] /\ f[i] = rule(f, i)
        BY <2>3, <3>3, <4>1
      <4> QED BY <3>3, <4>2
    <3> QED BY <3>1, <3>2, <3>3
  <2> DEFINE h2 == [i \in 0..n |-> rule(h, i)]
  <2>6. h = h2
    <3>1. \A i \in 0..n : h[i] = h2[i]
      BY <2>5
    <3> QED BY <3>1
  <2> QED BY <1>4, <2>6
<1> QED BY <1>5, <1>6

LEMMA NodesAreFinite == IsFiniteSet(Nodes) /\ Cardinality(Nodes) \in Nat
BY GraphAssumption, FS_CardinalityType

(* The nodes have at most one latest result each.                          *)
LEMMA FewLatestResults ==
    ASSUME NEW g
    PROVE  /\ IsFiniteSet(LatestResults(g, Nodes))
           /\ Cardinality(LatestResults(g, Nodes)) <= Cardinality(Nodes)
<1> DEFINE L == {<<n, g.nodes[n].attempts>> : n \in Nodes}
           f == [n \in Nodes |-> <<n, g.nodes[n].attempts>>]
<1>1. IsFiniteSet(L) /\ Cardinality(L) <= Cardinality(Nodes)
  <2>1. f \in Surjection(Nodes, L)
    BY DEF Surjection
  <2> HIDE DEF L, f
  <2> QED BY <2>1, NodesAreFinite, FS_Surjection
<1>2. LatestResults(g, Nodes) \subseteq L
  BY DEF LatestResults, LatestResult
<1> HIDE DEF L
<1>3. /\ IsFiniteSet(LatestResults(g, Nodes))
      /\ Cardinality(LatestResults(g, Nodes)) <= Cardinality(L)
  BY <1>1, <1>2, FS_Subset
<1> QED BY <1>1, <1>3, NodesAreFinite, FS_CardinalityType

(* What StaleResults returns holds the first results, and the results of   *)
(* all who consumed any of it.                                             *)
LEMMA StaleIsClosed ==
    ASSUME NEW g, NEW R \in SUBSET Nodes
    PROVE  /\ LatestResults(g, R) \subseteq StaleResults(g, R)
           /\ Spread(g, StaleResults(g, R)) \subseteq StaleResults(g, R)
<1> DEFINE N == Cardinality(Nodes)
           A == LatestResults(g, R)
           L == LatestResults(g, Nodes)
           f == CHOOSE f : f = Rounds(f, A, g)
<1>1. N \in Nat /\ IsFiniteSet(L) /\ Cardinality(L) <= N
  BY NodesAreFinite, FewLatestResults
<1>2. f = Rounds(f, A, g)
  <2> HIDE DEF A
  <2>1. \E h : h = Rounds(h, A, g)
    BY RoundsExist
  <2> QED BY <2>1
<1>3. StaleResults(g, R) = f[N]
  BY DEF StaleResults, Rounds, LatestResults, Spread
<1> HIDE DEF f
<1>4. f[0] = A /\ \A i \in 1..N : f[i] = f[i - 1] \cup Spread(g, f[i - 1])
  <2> HIDE DEF A
  <2>1. \A i \in 0..N : f[i] = IF i = 0 THEN A ELSE f[i - 1] \cup Spread(g, f[i - 1])
    BY <1>2 DEF Rounds
  <2> HIDE DEF N
  <2>2. 0 \in 0..N /\ \A i \in 1..N : i \in 0..N /\ i # 0
    BY <1>1
  <2> QED BY <2>1, <2>2
<1>5. \A X : Spread(g, X) \subseteq L
  BY DEF Spread, LatestResults, Consumers
<1>6. A \subseteq L
  BY DEF LatestResults
<1> HIDE DEF A, L, N
<1> DEFINE Good(i) == /\ A \subseteq f[i] /\ f[i] \subseteq L
                      /\ Spread(g, f[i]) \subseteq f[i] \/ i <= Cardinality(f[i])
           T == {i \in 0..N : ~Good(i)}
<1>7. T = {}
  <2> SUFFICES ASSUME T # {} PROVE FALSE
    OBVIOUS
  <2>1. T \in SUBSET Nat
    BY <1>1
  <2> HIDE DEF T
  <2>2. PICK i \in T : \A j \in T : i <= j
    BY <2>1, LeastNumber
  <2>3. i \in 0..N /\ ~Good(i) /\ i \in Nat
    BY <2>1, <2>2 DEF T
  <2>4. CASE i = 0
    <3>1. IsFiniteSet(f[0])
      BY <1>1, <1>4, <1>6, FS_Subset
    <3>2. Cardinality(f[0]) \in Nat
      BY <3>1, FS_CardinalityType
    <3> QED BY <1>4, <1>6, <2>3, <2>4, <3>2
  <2>5. CASE i # 0
    <3>1. i - 1 \in 0..N /\ i - 1 \notin T /\ i \in 1..N /\ i - 1 \in Nat
      BY <1>1, <2>1, <2>2, <2>3, <2>5
    <3>2. Good(i - 1)
      BY <3>1 DEF T
    <3> DEFINE X == f[i - 1]
               Y == f[i]
    <3>3. Y = X \cup Spread(g, X) /\ X \subseteq L /\ A \subseteq X
      BY <1>4, <3>1, <3>2
    <3>4. Spread(g, X) \subseteq X \/ i - 1 <= Cardinality(X)
      BY <3>2
    <3>5. ~(A \subseteq Y /\ Y \subseteq L /\ (Spread(g, Y) \subseteq Y \/ i <= Cardinality(Y)))
      BY <2>3
    <3> HIDE DEF X, Y, Good
    <3>6. A \subseteq Y /\ Y \subseteq L
      BY <1>5, <3>3
    <3>7. CASE Spread(g, X) \subseteq X
      <4>1. Y = X
        BY <3>3, <3>7
      <4> QED BY <3>5, <3>6, <3>7, <4>1
    <3>8. CASE ~(Spread(g, X) \subseteq X)
      <4>1. IsFiniteSet(Y) /\ X \in SUBSET Y /\ X # Y
        BY <1>1, <3>3, <3>6, <3>8, FS_Subset
      <4>2. IsFiniteSet(X) /\ Cardinality(X) <= Cardinality(Y) /\ Cardinality(X) # Cardinality(Y)
        BY <4>1, FS_Subset
      <4>3. Cardinality(X) \in Nat /\ Cardinality(Y) \in Nat
        BY <4>1, <4>2, FS_CardinalityType
      <4>4. i <= Cardinality(Y)
        BY <2>3, <3>4, <3>8, <4>2, <4>3
      <4> QED BY <3>5, <3>6, <4>4
    <3> QED BY <3>7, <3>8
  <2> QED BY <2>4, <2>5
<1>8. Good(N)
  <2>1. N \in 0..N
    BY <1>1
  <2> QED BY <1>7, <2>1
<1> DEFINE Z == f[N]
<1>9. A \subseteq Z /\ Z \subseteq L /\ (Spread(g, Z) \subseteq Z \/ N <= Cardinality(Z))
  BY <1>8
<1> HIDE DEF Z, Good
<1>10. Spread(g, Z) \subseteq Z
  <2>1. CASE N <= Cardinality(Z)
    <3>1. Cardinality(Z) <= Cardinality(L) /\ IsFiniteSet(Z)
      BY <1>1, <1>9, FS_Subset
    <3>2. Cardinality(Z) \in Nat /\ Cardinality(L) \in Nat
      BY <1>1, <3>1, FS_CardinalityType
    <3>3. Cardinality(L) = Cardinality(Z)
      BY <1>1, <2>1, <3>1, <3>2
    <3>4. L = Z
      BY <1>1, <1>9, <3>3, FS_Subset
    <3> QED BY <1>5, <3>4
  <2> QED BY <1>9, <2>1
<1>11. A \subseteq StaleResults(g, R) /\ Spread(g, StaleResults(g, R)) \subseteq StaleResults(g, R)
  BY <1>3, <1>9, <1>10 DEF Z
<1> QED BY <1>11 DEF A

(* A bounce leaves no settled node standing on a result it bounced.        *)
LEMMA BounceReaches ==
    ASSUME NEW g \in GraphType, NEW n \in Nodes, NEW h, h = FireFeedback(g, n),
           NEW m \in Nodes, g.nodes[m].status # "Pending", h.nodes[m].status = "Pending",
           NEW c \in Nodes, c \in Consumers(h, LatestResult(h, m))
    PROVE  h.nodes[c].status \notin Bounceable
<1> DEFINE R == Reopened(g, n)
           targets == FeedbackTargets(g, n)
           stale == StaleResults(g, targets)
<1>1. /\ h.attempts = g.attempts
      /\ \A x \in Nodes : h.nodes[x].attempts = g.nodes[x].attempts
  BY FeedbackEffect
<1>2. \A x \in Nodes : /\ x \in R => h.nodes[x].status = "Pending"
                       /\ x \notin R => h.nodes[x] = g.nodes[x]
  <2> SUFFICES ASSUME NEW x \in Nodes
               PROVE  /\ x \in R => h.nodes[x].status = "Pending"
                      /\ x \notin R => h.nodes[x] = g.nodes[x]
    OBVIOUS
  <2>1. g.nodes[x] \in NodeType /\ DOMAIN g = {"nodes", "attempts", "assignments"}
    BY DEF GraphType
  <2>2. h.nodes[x] = IF x \in R
                     THEN [g.nodes[x] EXCEPT !.status = "Pending", !.outcome = "None"]
                     ELSE g.nodes[x]
    BY <2>1 DEF FireFeedback
  <2> HIDE DEF R
  <2> QED BY <2>1, <2>2 DEF NodeType
<1>3. R = targets \cup {x \in Consumers(g, stale) : g.nodes[x].status \in Bounceable}
  BY DEF Reopened
<1>4. targets \in SUBSET Nodes
  BY DEF FeedbackTargets
<1> HIDE DEF R, targets, stale
<1>5. LatestResults(g, targets) \subseteq stale /\ Spread(g, stale) \subseteq stale
  BY <1>4, StaleIsClosed DEF stale
<1>6. LatestResult(h, m) = LatestResult(g, m)
  BY <1>1 DEF LatestResult, HasResult, LastAttempt
<1>7. \A X : Consumers(h, X) = Consumers(g, X)
  BY <1>1 DEF Consumers
<1>8. m \in R
  BY <1>2
<1>9. LatestResult(g, m) \subseteq stale
  BY <1>3, <1>5, <1>8 DEF LatestResults, Spread
<1>10. c \in Consumers(g, stale)
  <2>1. c \in Consumers(g, LatestResult(g, m))
    BY <1>6, <1>7
  <2> QED BY ONLY <1>9, <2>1 DEF Consumers
<1>11. CASE g.nodes[c].status \in Bounceable
  BY <1>2, <1>3, <1>10, <1>11 DEF Bounceable
<1>12. CASE g.nodes[c].status \notin Bounceable
  BY <1>2, <1>12 DEF Bounceable
<1> QED BY <1>11, <1>12

(* BounceReachesConsumers, from one graph to another.                      *)
Reaches(g, h) ==
    \A m, c \in Nodes :
        /\ g.nodes[m].status \in Bounceable /\ h.nodes[m].status = "Pending"
        /\ c \in Consumers(h, LatestResult(h, m))
        => h.nodes[c].status \notin Bounceable

(* No node is bounced from g to h.                                         *)
Calm(g, h) == \A m \in Nodes : h.nodes[m].status = "Pending" => g.nodes[m].status = "Pending"

LEMMA CalmReaches ==
    ASSUME NEW g, NEW h, Calm(g, h)
    PROVE  Reaches(g, h)
BY DEF Calm, Reaches, Bounceable

(* The feedback of n's settlement reaches whom it must.                    *)
LEMMA FeedbackReaches ==
    ASSUME NEW g, NEW e \in GraphType, NEW n \in Nodes, e.nodes[n].status # "Pending",
           \A m \in Nodes : m # n => e.nodes[m] = g.nodes[m],
           NEW f, f = FireFeedback(e, n),
           NEW h, h.nodes = f.nodes, h.attempts = f.attempts
    PROVE  Reaches(g, h)
<1> SUFFICES ASSUME NEW m \in Nodes, NEW c \in Nodes,
                    g.nodes[m].status \in Bounceable, h.nodes[m].status = "Pending",
                    c \in Consumers(h, LatestResult(h, m))
             PROVE  h.nodes[c].status \notin Bounceable
  BY DEF Reaches
<1>1. e.nodes[m].status # "Pending"
  BY DEF Bounceable
<1>2. f.nodes[m].status = "Pending" /\ c \in Consumers(f, LatestResult(f, m))
  BY DEF Consumers, LatestResult, HasResult, LastAttempt
<1>3. f.nodes[c].status \notin Bounceable
  BY <1>1, <1>2, BounceReaches
<1> QED BY <1>3

(* What opening an attempt of n leaves alone.                              *)
LEMMA OpenTouches ==
    ASSUME NEW g \in GraphType, NEW n \in Nodes, g.nodes[n].attempts < MaxNumber,
           NEW a \in Agents, NEW j \in 0..MaxHandoffs
    PROVE  LET t == OpenAttempt(g, n, a, j)
           IN  /\ \A m \in Nodes : m # n => t.nodes[m] = g.nodes[m]
               /\ t.nodes[n].status = "Running"
               /\ t.nodes[n].attempts = g.nodes[n].attempts + 1
               /\ \A m \in Nodes, i \in Numbers : m # n => t.attempts[m][i] = g.attempts[m][i]
<1> DEFINE t == OpenAttempt(g, n, a, j)
           k == g.nodes[n].attempts + 1
           opened == [status |-> "Running", outcome |-> "None", attempts |-> k]
           att == [state |-> "Running", agent |-> a, assignment |-> j,
                   result |-> NoResult, inputs |-> FreezeManifest(g, n)]
<1>1. /\ \A m \in Nodes : t.nodes[m] = IF m = n THEN opened ELSE g.nodes[m]
      /\ \A m \in Nodes, i \in Numbers :
           t.attempts[m][i] = IF m = n /\ i = k THEN att ELSE g.attempts[m][i]
  BY OpenEffect
<1>2. opened.status = "Running" /\ opened.attempts = k
  OBVIOUS
<1> HIDE DEF t, opened, att
<1>3. t.nodes[n] = opened
  BY <1>1
<1>4. t.nodes[n].status = "Running" /\ t.nodes[n].attempts = k
  BY <1>2, <1>3
<1> QED BY <1>1, <1>4 DEF t

(* From g to h node n gets a result, and no attempt of another node moves. *)
SettledBy(g, h, n) ==
    /\ \E k \in Numbers : g.attempts[n][k].result = NoResult /\ h.attempts[n][k].result # NoResult
    /\ \A m \in Nodes, k \in Numbers : m # n => h.attempts[m][k] = g.attempts[m][k]

LEMMA SettleNodeReaches ==
    ASSUME NEW g, GraphInv(g), NEW n \in Nodes, NEW h \in 0..MaxHandoffs, NEW a \in Agents,
           NEW r \in ReportType, MaySettle(g, n, h, a),
           NEW s, s = SettleNodeIn(g, n, h, a, r)
    PROVE  Reaches(g, s) /\ SettledBy(g, s, n)
<1> DEFINE o == IF g.nodes[n].status = "Running" THEN g ELSE OpenAttempt(g, n, a, 0)
           k == o.nodes[n].attempts
           p == o.attempts[n][k].agent
           f == RecordResult(o, n, k, r, p)
           e == Release(f, n, h)
<1>1. /\ GraphInv(o) /\ o.nodes[n].status = "Running"
      /\ \A m \in Nodes : m # n => o.nodes[m] = g.nodes[m]
      /\ \A m \in Nodes, i \in Numbers : m # n => o.attempts[m][i] = g.attempts[m][i]
      /\ \A i \in Numbers : i = k => g.attempts[n][i].result = NoResult
  <2>1. CASE g.nodes[n].status = "Running"
    <3>1. o = g /\ LastAttempt(g, n).result = NoResult
      BY <2>1 DEF MaySettle
    <3> HIDE DEF o
    <3> QED BY <2>1, <3>1 DEF LastAttempt
  <2>2. CASE g.nodes[n].status # "Running"
    <3>1. Claimable(g, n)
      BY <2>2 DEF MaySettle
    <3>2. o = OpenAttempt(g, n, a, 0)
      BY <2>2
    <3>3. GraphInv(o) /\ o.nodes[n].status = "Running"
      BY <2>2, <3>1, OpenKeepsGraphInv
    <3>4. g \in GraphType /\ g.nodes[n].attempts < MaxNumber /\ 0 \in 0..MaxHandoffs
      BY <3>1, GraphAssumption DEF GraphInv, Claimable
    <3> DEFINE t == OpenAttempt(g, n, a, 0)
    <3>5. /\ \A m \in Nodes : m # n => t.nodes[m] = g.nodes[m]
          /\ \A m \in Nodes, i \in Numbers : m # n => t.attempts[m][i] = g.attempts[m][i]
          /\ t.nodes[n].attempts = g.nodes[n].attempts + 1
      BY <3>4, OpenTouches
    <3> HIDE DEF o, t
    <3>6. k > g.nodes[n].attempts
      <4>1. g.nodes[n].attempts \in Nat
        BY <3>4, GraphAssumption DEF GraphType, NodeType
      <4> QED BY <3>2, <3>5, <4>1 DEF t
    <3>7. \A i \in Numbers : i = k => g.attempts[n][i].result = NoResult
      BY <3>6 DEF GraphInv, NodeInv, UnopenedBlank, NoAttempt
    <3> QED BY <3>2, <3>3, <3>5, <3>7 DEF t
  <2> QED BY <2>1, <2>2
<1>2. s = FireFeedback(e, n)
  BY DEF SettleNodeIn
<1> HIDE DEF o
<1>3. k \in Numbers /\ p \in Producers /\ o \in GraphType
  <2>1. k \in Numbers
    BY <1>1 DEF GraphInv, NodeInv, RunningOpened
  <2>2. o.attempts[n][k] \in AttemptType
    BY <1>1, <2>1 DEF GraphInv, GraphType
  <2> QED BY <1>1, <2>1, <2>2 DEF AttemptType, Producers, GraphInv
<1>4. Recorded(o, f, n, k, r, p)
  <2>1. f = RecordResult(o, n, k, r, p)
    OBVIOUS
  <2> HIDE DEF f, p, k
  <2> QED BY ONLY <1>3, <2>1, RecordEffect, n \in Nodes, r \in ReportType
<1>5. e = Release(f, n, h)
  OBVIOUS
<1>6. r.status \in Settlements
  BY DEF ReportType
<1> HIDE DEF f, e, p, k
<1>7. /\ f \in GraphType /\ f.nodes[n].status = r.status
      /\ \A m \in Nodes : m # n => f.nodes[m] = o.nodes[m]
      /\ \A m \in Nodes, i \in Numbers : m # n => f.attempts[m][i] = o.attempts[m][i]
      /\ f.attempts[n][k].result # NoResult
  BY <1>4, <1>6 DEF Recorded, NoResult, Settlements
<1>8. e \in GraphType /\ e.nodes = f.nodes /\ e.attempts = f.attempts
  BY <1>5, <1>7, ReleaseKeeps
<1>9. s.attempts = e.attempts
  BY <1>2, <1>8, FeedbackEffect
<1>10. e.nodes[n].status # "Pending"
  BY <1>6, <1>7, <1>8 DEF Settlements
<1>11. Reaches(g, s)
  BY <1>1, <1>2, <1>7, <1>8, <1>10, FeedbackReaches
<1>12. SettledBy(g, s, n)
  BY <1>1, <1>3, <1>7, <1>8, <1>9 DEF SettledBy
<1> QED BY <1>11, <1>12

(* What a settlement of one node, or of a batch, reaches.                  *)
Reached == Cardinality(SettledNow) = 1 => Reaches(graph, graph')

LEMMA SetStatusReaches ==
    ASSUME Inv, NEW n \in Nodes, NEW status, NEW out, SetStatus(n, status, out)
    PROVE  Reached
<1>1. graph \in GraphType
  BY DEF Inv, GraphInv
<1>2. graph'.attempts = graph.attempts
  BY <1>1 DEF SetStatus, GraphType
<1>3. SettledNow = {}
  BY <1>2 DEF SettledNow
<1> QED BY <1>3, FS_EmptySet DEF Reached

LEMMA OpeningReaches ==
    ASSUME Inv, NEW n \in Nodes, Claimable(graph, n), NEW a \in Agents, NEW j \in 0..MaxHandoffs,
           graph'.nodes = OpenAttempt(graph, n, a, j).nodes
    PROVE  Reached
<1>1. graph \in GraphType /\ graph.nodes[n].attempts < MaxNumber
  BY DEF Inv, GraphInv, Claimable
<1> DEFINE h == OpenAttempt(graph, n, a, j)
<1>2. \A m \in Nodes : h.nodes[m].status = IF m = n THEN "Running" ELSE graph.nodes[m].status
  <2>1. /\ \A m \in Nodes : m # n => h.nodes[m] = graph.nodes[m]
        /\ h.nodes[n].status = "Running"
    BY <1>1, OpenTouches
  <2> HIDE DEF h
  <2> QED BY <2>1
<1> HIDE DEF h
<1>3. Calm(graph, graph')
  BY <1>2 DEF Calm, h
<1> QED BY <1>3, CalmReaches DEF Reached

LEMMA AssignReaches ==
    ASSUME Inv, NEW n \in Nodes, NEW w \in Workers, Assign(n, w)
    PROVE  Reached
<1>1. PICK j \in FreeHandoff(graph, n) :
         graph' = AddAssignment(OpenAttempt(graph, n, w, j), n, j,
                                graph.nodes[n].attempts + 1, w)
  BY DEF Assign
<1>2. Claimable(graph, n) /\ w \in Agents /\ j \in 0..MaxHandoffs
  BY GraphAssumption DEF Assign, Workers, FreeHandoff, Handoffs
<1> DEFINE o == OpenAttempt(graph, n, w, j)
<1>3. o \in GraphType
  <2>1. graph \in GraphType /\ graph.nodes[n].attempts < MaxNumber
    BY <1>2 DEF Inv, GraphInv, Claimable
  <2> QED BY <1>2, <2>1, OpenEffect
<1>4. graph' = AddAssignment(o, n, j, graph.nodes[n].attempts + 1, w)
  BY <1>1
<1> HIDE DEF o
<1>5. graph'.nodes = o.nodes
  BY <1>3, <1>4 DEF AddAssignment, GraphType
<1> QED BY <1>2, <1>5, OpeningReaches DEF o

LEMMA ReassignReaches ==
    ASSUME Inv, NEW n \in Nodes, NEW w \in Workers, Reassign(n, w)
    PROVE  Reached
<1> DEFINE i == LastAttempt(graph, n).assignment
           k == graph.nodes[n].attempts
<1>1. PICK j \in FreeHandoff(graph, n) :
         graph' = AddAssignment(PassOn(graph, n, w, j), n, j, k, w)
  BY DEF Reassign
<1>2. graph \in GraphType /\ DOMAIN graph = {"nodes", "attempts", "assignments"}
  BY DEF Inv, GraphInv, GraphType
<1> DEFINE x == Release(graph, n, i)
           y == PassOn(graph, n, w, j)
<1>3. x.nodes = graph.nodes /\ DOMAIN x = DOMAIN graph
  BY <1>2 DEF Release
<1>4. y.nodes = x.nodes /\ DOMAIN y = DOMAIN x
  <2> HIDE DEF x
  <2> QED BY <1>2, <1>3 DEF PassOn, x
<1> HIDE DEF y
<1>5. graph'.nodes = y.nodes
  BY <1>1, <1>2, <1>3, <1>4 DEF AddAssignment, y
<1>6. Calm(graph, graph')
  BY <1>3, <1>4, <1>5 DEF Calm
<1> QED BY <1>6, CalmReaches DEF Reached

LEMMA SettleAssignmentReaches ==
    ASSUME Inv, NEW n \in Nodes, NEW j \in Handoffs, NEW r \in Reports,
           SettleAssignment(n, j, r)
    PROVE  Reached
<1> DEFINE k == graph.assignments[n][j].attempt
           p == graph.assignments[n][j].agent
           f == RecordResult(graph, n, k, r, p)
           e == Release(f, n, j)
           d == FireFeedback(e, n)
<1>1. /\ graph' = Notify(d, n, j)
      /\ graph.assignments[n][j].live
  BY DEF SettleAssignment
<1>2. /\ graph \in GraphType /\ k \in Numbers /\ p \in Producers /\ r \in ReportType
      /\ j \in 0..MaxHandoffs
  <2>1. k \in Numbers
    BY <1>1 DEF Inv, GraphInv, NodeInv, LiveOwns
  <2>2. graph.assignments[n][j] \in AssignmentType
    BY DEF Inv, GraphInv, GraphType
  <2> QED BY <2>1, <2>2, ReportIsReportType, GraphAssumption
          DEF AssignmentType, Producers, Inv, GraphInv, Handoffs
<1>3. Recorded(graph, f, n, k, r, p)
  <2>1. f = RecordResult(graph, n, k, r, p)
    OBVIOUS
  <2> HIDE DEF f, p, k
  <2> QED BY ONLY <1>2, <2>1, RecordEffect, n \in Nodes
<1>4. e = Release(f, n, j) /\ d = FireFeedback(e, n)
  OBVIOUS
<1>5. r.status \in Settlements
  BY <1>2 DEF ReportType
<1> HIDE DEF f, e, d, p, k
<1>6. /\ f \in GraphType /\ f.nodes[n].status = r.status
      /\ \A m \in Nodes : m # n => f.nodes[m] = graph.nodes[m]
  BY <1>3, <1>5 DEF Recorded
<1>7. e \in GraphType /\ e.nodes = f.nodes
  BY <1>2, <1>4, <1>6, ReleaseKeeps
<1>8. e.nodes[n].status # "Pending" /\ \A m \in Nodes : m # n => e.nodes[m] = graph.nodes[m]
  BY <1>5, <1>6, <1>7 DEF Settlements
<1>9. d \in GraphType
  BY <1>4, <1>7, FeedbackEffect
<1>10. graph'.nodes = d.nodes /\ graph'.attempts = d.attempts
  BY <1>1, <1>9, NotifyEffect
<1>11. Reaches(graph, graph')
  BY <1>4, <1>7, <1>8, <1>10, FeedbackReaches
<1> QED BY <1>11 DEF Reached

LEMMA FailReaches ==
    ASSUME Inv, NEW a \in Agents, NEW n \in Nodes, NEW r \in Reports, Fail(a, n, r)
    PROVE  Reached
<1>1. PICK h \in LiveAssignee(graph, n) :
         MaySettle(graph, n, h, a) /\ graph' = SettleNodeIn(graph, n, h, a, r)
  BY DEF Fail
<1>2. GraphInv(graph) /\ h \in 0..MaxHandoffs /\ r \in ReportType
  BY OnlyHolder, ReportIsReportType DEF Inv
<1>3. Reaches(graph, graph')
  BY <1>1, <1>2, SettleNodeReaches
<1> QED BY <1>3 DEF Reached

LEMMA CompleteReaches ==
    ASSUME Inv, NEW a \in Agents, NEW n \in Nodes, NEW r \in Reports, Complete(a, n, r)
    PROVE  Reached
<1>1. PICK h \in LiveAssignee(graph, n) :
         MaySettle(graph, n, h, a) /\ graph' = SettleNodeIn(graph, n, h, a, r)
  BY DEF Complete
<1>2. GraphInv(graph) /\ h \in 0..MaxHandoffs /\ r \in ReportType
  BY OnlyHolder, ReportIsReportType DEF Inv
<1>3. Reaches(graph, graph')
  BY <1>1, <1>2, SettleNodeReaches
<1> QED BY <1>3 DEF Reached

(* A batch settles two nodes.                                              *)
LEMMA CompleteBatchReaches ==
    ASSUME Inv, NEW a \in Agents, NEW m \in Nodes, NEW n \in Nodes, NEW r \in Reports,
           CompleteBatch(a, m, n, r)
    PROVE  Reached
<1>1. PICK h \in LiveAssignee(graph, m), i \in LiveAssignee(graph, n) :
         LET first == SettleNodeIn(graph, m, h, a, r) IN
         /\ MaySettle(graph, m, h, a) /\ MaySettle(first, n, i, a)
         /\ graph' = SettleNodeIn(first, n, i, a, r)
  BY DEF CompleteBatch
<1> DEFINE s == SettleNodeIn(graph, m, h, a, r)
<1>2. /\ GraphInv(graph) /\ h \in 0..MaxHandoffs /\ i \in 0..MaxHandoffs /\ r \in ReportType
      /\ \A x \in Handoffs : graph.assignments[m][x].live => x = h
  BY OnlyHolder, ReportIsReportType DEF Inv
<1>3. /\ s = SettleNodeIn(graph, m, h, a, r) /\ graph' = SettleNodeIn(s, n, i, a, r)
      /\ MaySettle(graph, m, h, a) /\ MaySettle(s, n, i, a)
  BY <1>1
<1>4. GraphInv(s)
  BY <1>2, <1>3, SettleNodeKeepsGraphInv
<1> HIDE DEF s
<1>5. SettledBy(graph, s, m)
  BY <1>2, <1>3, SettleNodeReaches
<1>6. SettledBy(s, graph', n)
  BY <1>2, <1>3, <1>4, SettleNodeReaches
<1>7. m # n
  BY DEF CompleteBatch
<1>8. m \in SettledNow
  <2>1. PICK k \in Numbers :
          graph.attempts[m][k].result = NoResult /\ s.attempts[m][k].result # NoResult
    BY <1>5 DEF SettledBy
  <2>2. graph'.attempts[m][k] = s.attempts[m][k]
    BY <1>6, <1>7 DEF SettledBy
  <2> QED BY <2>1, <2>2 DEF SettledNow
<1>9. n \in SettledNow
  <2>1. PICK k \in Numbers :
          s.attempts[n][k].result = NoResult /\ graph'.attempts[n][k].result # NoResult
    BY <1>6 DEF SettledBy
  <2>2. s.attempts[n][k] = graph.attempts[n][k]
    BY <1>5, <1>7 DEF SettledBy
  <2> QED BY <2>1, <2>2 DEF SettledNow
<1>10. Cardinality(SettledNow) # 1
  <2>1. SettledNow \subseteq Nodes
    BY DEF SettledNow
  <2>2. IsFiniteSet(SettledNow)
    BY <2>1, NodesAreFinite, FS_Subset
  <2> HIDE DEF SettledNow
  <2>3. ASSUME Cardinality(SettledNow) = 1 PROVE FALSE
    <3>1. \E x : SettledNow = {x}
      BY <2>2, <2>3, FS_Singleton
    <3> QED BY <1>7, <1>8, <1>9, <3>1
  <2> QED BY <2>3
<1> QED BY <1>10 DEF Reached

LEMMA CancelRunningReaches ==
    ASSUME Inv, NEW a \in Agents, NEW n \in Nodes, CancelRunning(a, n)
    PROVE  Reached
<1> DEFINE k == graph.nodes[n].attempts
           cur == LastAttempt(graph, n)
           p == cur.agent
           i == cur.assignment
           r == [status |-> "Cancelled", outcome |-> "Cancelled", level |-> 0]
           f == RecordResult(graph, n, k, r, p)
<1>1. /\ graph' = Release(f, n, i)
      /\ graph.nodes[n].status = "Running"
  BY DEF CancelRunning
<1>2. graph \in GraphType /\ k \in Numbers
  BY <1>1 DEF Inv, GraphInv, NodeInv, RunningOpened
<1>3. cur \in AttemptType
  BY <1>2 DEF LastAttempt, GraphType
<1>4. p \in Producers /\ i \in 0..MaxHandoffs
  BY <1>3 DEF AttemptType, Producers
<1>5. r \in ReportType /\ r.status = "Cancelled"
  BY DEF ReportType, Settlements, Outcomes, Levels
<1>6. Recorded(graph, f, n, k, r, p)
  <2>1. f = RecordResult(graph, n, k, r, p)
    OBVIOUS
  <2> HIDE DEF f, p, k, r
  <2> QED BY ONLY <1>2, <1>4, <1>5, <2>1, RecordEffect, n \in Nodes
<1> HIDE DEF f, p, k, r, i, cur
<1>7. /\ f \in GraphType /\ f.nodes[n].status = "Cancelled"
      /\ \A m \in Nodes : m # n => f.nodes[m] = graph.nodes[m]
  BY <1>5, <1>6 DEF Recorded
<1>8. graph'.nodes = f.nodes
  BY <1>1, <1>4, <1>7, ReleaseKeeps
<1>9. Calm(graph, graph')
  BY <1>7, <1>8 DEF Calm
<1> QED BY <1>9, CalmReaches DEF Reached

LEMMA ReconcileReaches ==
    ASSUME Inv, Reconcile
    PROVE  Reached
<1>1. graph \in GraphType
  BY DEF Inv, GraphInv
<1>2. \A n \in Nodes : graph'.nodes[n] =
        IF graph.nodes[n].status = "Running"
        THEN [graph.nodes[n] EXCEPT !.status = "Interrupted", !.outcome = "Interrupted"]
        ELSE graph.nodes[n]
  BY DEF Reconcile
<1>3. \A n \in Nodes : graph.nodes[n] \in NodeType
  BY <1>1 DEF GraphType
<1>4. Calm(graph, graph')
  <2> SUFFICES ASSUME NEW n \in Nodes, graph'.nodes[n].status = "Pending"
               PROVE  graph.nodes[n].status = "Pending"
    BY DEF Calm
  <2>1. CASE graph.nodes[n].status = "Running"
    <3>1. graph'.nodes[n].status = "Interrupted"
      BY <1>2, <1>3, <2>1 DEF NodeType
    <3> QED BY <3>1
  <2>2. CASE graph.nodes[n].status # "Running"
    BY <1>2, <2>2
  <2> QED BY <2>1, <2>2
<1> QED BY <1>4, CalmReaches DEF Reached

LEMMA OperationReaches ==
    ASSUME Inv, Operation \/ Reconcile \/ UNCHANGED vars
    PROVE  Reached
<1>1. ASSUME NEW a \in Agents, NEW n \in Nodes, Start(a, n) PROVE Reached
  <2>1. /\ Claimable(graph, n) /\ graph'.nodes = OpenAttempt(graph, n, a, 0).nodes
        /\ 0 \in 0..MaxHandoffs
    BY <1>1, GraphAssumption DEF Start
  <2> QED BY <1>1, <2>1, OpeningReaches
<1>2. ASSUME NEW a \in Agents, NEW n \in Nodes,
             Block(a, n) \/ Unblock(a, n) \/ Retry(a, n) \/ CancelIdle(a, n)
      PROVE  Reached
  <2>1. \E status, out : SetStatus(n, status, out)
    BY <1>2 DEF Block, Unblock, Retry, CancelIdle
  <2> QED BY <1>2, <2>1, SetStatusReaches
<1>3. ASSUME NEW a \in Agents, NEW n \in Nodes, CancelRunning(a, n) PROVE Reached
  BY <1>3, CancelRunningReaches
<1>4. ASSUME NEW n \in Nodes, NEW w \in Workers, Assign(n, w) \/ Reassign(n, w)
      PROVE  Reached
  BY <1>4, AssignReaches, ReassignReaches
<1>5. ASSUME NEW n \in Nodes, NEW j \in Handoffs, NEW r \in Reports, SettleAssignment(n, j, r)
      PROVE  Reached
  BY <1>5, SettleAssignmentReaches
<1>6. ASSUME NEW a \in Agents, NEW n \in Nodes, NEW r \in Reports,
             Fail(a, n, r) \/ Complete(a, n, r)
      PROVE  Reached
  BY <1>6, FailReaches, CompleteReaches
<1>7. ASSUME NEW a \in Agents, NEW m \in Nodes, NEW n \in Nodes, NEW r \in Reports,
             CompleteBatch(a, m, n, r)
      PROVE  Reached
  BY <1>7, CompleteBatchReaches
<1>8. CASE Reconcile
  BY <1>8, ReconcileReaches
<1>9. CASE UNCHANGED vars
  <2>1. Calm(graph, graph')
    BY <1>9 DEF Calm, vars
  <2> QED BY <2>1, CalmReaches DEF Reached
<1> QED BY <1>1, <1>2, <1>3, <1>4, <1>5, <1>6, <1>7, <1>8, <1>9 DEF Operation, Cancel

(* A settlement that bounces a node leaves no settled node standing on the *)
(* bounced result: fire_feedback_edges finds all of its consumers, direct  *)
(* or through others, however many nodes and edges there are.              *)
THEOREM CheckedBounces ==
    ASSUME "Running" \notin BlockFrom
    PROVE  Spec => BounceReachesConsumers
<1>1. Inv /\ [Next]_vars => Reached
  BY OperationReaches DEF Next
<1>2. Reached =>
        (Cardinality(SettledNow) = 1 =>
           \A m, c \in Nodes :
              /\ graph.nodes[m].status \in Bounceable
              /\ graph'.nodes[m].status = "Pending"
              /\ c \in Consumers(graph', LatestResult(graph', m))
              => graph'.nodes[c].status \notin Bounceable)
  BY DEF Reached, Reaches
<1>3. Spec => []Inv
  BY UncheckedInv, CheckedIsUnchecked, PTL
<1> QED BY <1>1, <1>2, <1>3, PTL DEF Spec, BounceReachesConsumers
=============================================================================
