----------------------- MODULE GoalCoordinatorProofs -----------------------
(***************************************************************************)
(* What GoalCoordinator keeps invariant for any goals, agents, targets and *)
(* bounds, and that it implements AgentLeases.                             *)
(*                                                                         *)
(* Most operations take something away: runs end or are parked, slots are  *)
(* released, statuses move.  Vacating says what that means for the leases; *)
(* RunLeaves (a run leaves its slot) and UnslottedGoalsMove (goals without *)
(* a slot) when it keeps the invariant.  An operation is a chain of such   *)
(* changes, each an instance of Becomes; only Activate grants anything.    *)
(***************************************************************************)
EXTENDS GoalCoordinator, FiniteSetTheorems, SequenceTheorems, TLAPS

Fields == {"status", "live", "approved", "runs", "slots", "generations", "claims",
           "queue", "edges", "outbox", "epoch"}

Slot    == [goal: Goals, attempt: Nat, generation: Nat] \cup {NoSlot}
Settled == {"Satisfied", "Failed", "Cancelled"}
Edge    == [state: {"None", "Open"} \cup Settled, kind: DependencyKind]
Outbox  == SUBSET [kind: {"Dispatch", "Cancel"}, goal: Goals, attempt: Nat]

\* The type of an aggregate, but for the parts the argument does not depend on.
Record(x) == DOMAIN x = Fields /\ x = [f \in Fields |-> x[f]]

Typed(x) ==
  /\ Record(x)
  /\ x.status \in [Goals -> Statuses]
  /\ x.live \in SUBSET Goals
  /\ x.runs \in [Goals -> Seq(Run)]
  /\ x.slots \in [Agents -> Slot]
  /\ x.generations \in [Agents -> Nat]
  /\ x.claims \in [Agents -> Holders \cup {Nobody}]
  /\ x.edges \in [Goals \X Goals -> Edge]
  /\ x.outbox \in Outbox
  /\ x.epoch \in Nat

\* An agent's slot names the run that holds it, and every run that holds one.
SlotsAgree(x) ==
  /\ \A g \in Goals : \A k \in HolderOf(x, g) :
       x.slots[Target[g]] = [goal |-> g, attempt |-> k, generation |-> x.runs[g][k].generation]
  /\ \A a \in Agents : x.slots[a] # NoSlot =>
       /\ x.slots[a].attempt \in HolderOf(x, x.slots[a].goal) /\ Target[x.slots[a].goal] = a
       /\ x.slots[a].generation = x.generations[a]
       /\ x.claims[a] = Nobody

\* Only the newest run of a goal holds a slot, in the state the goal's status
\* tells; a waiting goal's newest run waits, for a verdict without a slot.
GoalAgrees(x, g) ==
  /\ HolderOf(x, g) \subseteq {Len(x.runs[g])}
  /\ x.status[g] \in {"Active", "Cancelling"} <=> HolderOf(x, g) # {}
  /\ \A k \in HolderOf(x, g) : x.status[g] = "Active" <=> x.runs[g][k].state = "Open"
  /\ x.status[g] = "Waiting" =>
       /\ Len(x.runs[g]) \in Attempts(x, g)
       /\ x.runs[g][Len(x.runs[g])].state = "Waiting"
       /\ x.runs[g][Len(x.runs[g])].wait = "verification" => x.slots[Target[g]] = NoSlot

OutboxAgrees(x) ==
  \A e \in x.outbox :
    /\ e.attempt \in Attempts(x, e.goal)
    /\ x.runs[e.goal][e.attempt].state = IF e.kind = "Dispatch" THEN "Open" ELSE "CancelRequested"

\* A goal that was enqueued and has not ended has its assignment.
InPlay(x) ==
  \A g \in Goals : (g \in x.live) <=> x.status[g] \notin Ended \cup {"Absent", "Proposed"}

NoCycle(x) ==
  \A S \in (SUBSET Goals) \ {{}} : \E p \in S : S \cap Children(x, p) = {}

Agrees(x) == /\ SlotsAgree(x) /\ (\A g \in Goals : GoalAgrees(x, g))
             /\ OutboxAgrees(x) /\ InPlay(x) /\ NoCycle(x)

IInv == Typed(c) /\ Agrees(c)

LeasesOf(x) ==
  [a \in Agents |-> UNION {{x.runs[g][k].generation : k \in HolderOf(x, g)}
                           : g \in {h \in Goals : Target[h] = a}}]

\* The agents in S lose their leases, and nothing else happens to any.
Lost(x, y, S) ==
  /\ LeasesOf(y) = [a \in Agents |-> IF a \in S THEN {} ELSE LeasesOf(x)[a]]
  /\ y.generations = x.generations /\ y.claims = x.claims

\* What has ended stays as it is.
Kept(x, y) ==
  \A g \in Goals :
    /\ x.status[g] \in Ended => y.status[g] = x.status[g]
    /\ \A k \in Attempts(x, g) :
         /\ k \in Attempts(y, g)
         /\ x.runs[g][k].state \in RunOver => y.runs[g][k] = x.runs[g][k]
    /\ \A h \in Goals : x.edges[<<g, h>>].state \in Settled => y.edges[<<g, h>>] = x.edges[<<g, h>>]

\* y is x but for the fields in F.
Only(x, y, F) == /\ Record(y)
                 /\ \A f \in Fields \ F : y[f] = x[f]

\* Edges get no other change than a verdict.
EdgesSettle(x, y) ==
  \A e \in Goals \X Goals : \/ y.edges[e] = x.edges[e]
                            \/ x.edges[e].state = "Open" /\ y.edges[e].state \in Settled

\* Run k of g becomes r and no other run changes.
RunBecomes(x, y, g, k, r) ==
  \A h \in Goals :
    /\ Attempts(y, h) = Attempts(x, h) /\ Len(y.runs[h]) = Len(x.runs[h])
    /\ \A j \in Attempts(x, h) : y.runs[h][j] = IF h = g /\ j = k THEN r ELSE x.runs[h][j]

\* Run k of g comes to be in the given state.
RunMoves(x, y, g, k, state) == \E r \in Run : r.state = state /\ RunBecomes(x, y, g, k, r)

\* x turns into y, which agrees, while the agents in S lose their leases.
Becomes(x, y, S) == Typed(y) /\ Agrees(y) /\ Lost(x, y, S) /\ Kept(x, y) /\ y.epoch = x.epoch

-----------------------------------------------------------------------------
(* What becomes of the parts.                                              *)

\* A change that costs no agent its lease may follow any other.
LEMMA Transitive ==
  ASSUME NEW x, NEW y, NEW z, NEW S \in SUBSET Agents, Becomes(x, y, S), Becomes(y, z, {})
  PROVE  Becomes(x, z, S)
<1>1. LeasesOf(z) = LeasesOf(y)
  <2>1. LeasesOf(z) = [a \in Agents |-> LeasesOf(y)[a]]
    BY DEF Becomes, Lost
  <2> QED BY <2>1 DEF LeasesOf
<1>2. Kept(x, z)
  <2> SUFFICES ASSUME NEW g \in Goals
               PROVE  /\ x.status[g] \in Ended => z.status[g] = x.status[g]
                      /\ \A k \in Attempts(x, g) :
                           /\ k \in Attempts(z, g)
                           /\ x.runs[g][k].state \in RunOver => z.runs[g][k] = x.runs[g][k]
                      /\ \A h \in Goals :
                           x.edges[<<g, h>>].state \in Settled => z.edges[<<g, h>>] = x.edges[<<g, h>>]
    BY DEF Kept
  <2>1. Kept(x, y) /\ Kept(y, z)
    BY DEF Becomes
  <2>2. x.status[g] \in Ended => z.status[g] = x.status[g]
    BY <2>1 DEF Kept
  <2>3. ASSUME NEW k \in Attempts(x, g)
        PROVE  /\ k \in Attempts(z, g)
               /\ x.runs[g][k].state \in RunOver => z.runs[g][k] = x.runs[g][k]
    <3>1. k \in Attempts(y, g) /\ (x.runs[g][k].state \in RunOver => y.runs[g][k] = x.runs[g][k])
      BY <2>1 DEF Kept
    <3> QED BY <2>1, <3>1 DEF Kept
  <2>4. ASSUME NEW h \in Goals, x.edges[<<g, h>>].state \in Settled
        PROVE  z.edges[<<g, h>>] = x.edges[<<g, h>>]
    <3>1. y.edges[<<g, h>>] = x.edges[<<g, h>>]
      BY <2>1, <2>4 DEF Kept
    <3> QED BY <2>1, <2>4, <3>1 DEF Kept
  <2> QED BY <2>2, <2>3, <2>4
<1> QED BY <1>1, <1>2 DEF Becomes, Lost

\* Fewer open edges wait in no new cycle.
LEMMA FewerEdges ==
  ASSUME NEW x, NEW y, NoCycle(x), EdgesSettle(x, y)
  PROVE  NoCycle(y)
<1>1. ASSUME NEW p \in Goals PROVE Children(y, p) \subseteq Children(x, p)
  <2> SUFFICES ASSUME NEW h \in Goals, y.edges[<<p, h>>].state = "Open"
               PROVE  x.edges[<<p, h>>].state = "Open"
    BY DEF Children
  <2> QED BY DEF EdgesSettle, Settled
<1> QED BY <1>1 DEF NoCycle

\* The slot of a run that holds one.
LEMMA SlotOf ==
  ASSUME NEW x, Agrees(x), NEW g \in Goals, NEW k \in HolderOf(x, g)
  PROVE  /\ x.slots[Target[g]].goal = g /\ x.slots[Target[g]].attempt = k
         /\ x.slots[Target[g]].generation = x.runs[g][k].generation
         /\ x.slots[Target[g]] # NoSlot
<1>1. x.slots[Target[g]]
        = [goal |-> g, attempt |-> k, generation |-> x.runs[g][k].generation]
  BY DEF Agrees, SlotsAgree
<1>2. /\ x.slots[Target[g]].goal = g /\ x.slots[Target[g]].attempt = k
      /\ x.slots[Target[g]].generation = x.runs[g][k].generation
  BY <1>1
<1>3. NoSlot.goal = Nobody
  BY DEF NoSlot
<1>4. g # Nobody
  BY CoordinatorAssumption
<1> QED BY <1>2, <1>3, <1>4

\* Slots fall free with the runs that held them.
LEMMA Vacating ==
  ASSUME NEW x, NEW y, NEW S \in SUBSET Agents, Typed(x), Agrees(x), Typed(y),
         y.slots = [a \in Agents |-> IF a \in S THEN NoSlot ELSE x.slots[a]],
         y.generations = x.generations, y.claims = x.claims,
         \A g \in Goals : HolderOf(y, g) = IF Target[g] \in S THEN {} ELSE HolderOf(x, g),
         \A g \in Goals : \A k \in HolderOf(y, g) :
            y.runs[g][k].generation = x.runs[g][k].generation
  PROVE  SlotsAgree(y) /\ Lost(x, y, S)
<1>1. SlotsAgree(y)
  <2>1. ASSUME NEW g \in Goals, NEW k \in HolderOf(y, g)
        PROVE  y.slots[Target[g]] = [goal |-> g, attempt |-> k,
                                     generation |-> y.runs[g][k].generation]
    <3>1. Target[g] \in Agents /\ Target[g] \notin S /\ k \in HolderOf(x, g)
      BY CoordinatorAssumption
    <3> QED BY <3>1 DEF Agrees, SlotsAgree
  <2>2. ASSUME NEW a \in Agents, y.slots[a] # NoSlot
        PROVE  /\ y.slots[a].attempt \in HolderOf(y, y.slots[a].goal)
               /\ Target[y.slots[a].goal] = a
               /\ y.slots[a].generation = y.generations[a]
               /\ y.claims[a] = Nobody
    <3>1. a \notin S /\ y.slots[a] = x.slots[a]
      BY <2>2
    <3>2. x.slots[a].goal \in Goals
      BY <2>2, <3>1 DEF Typed, Slot
    <3> QED BY <2>2, <3>1, <3>2 DEF Agrees, SlotsAgree
  <2> QED BY <2>1, <2>2 DEF SlotsAgree
<1>2. ASSUME NEW a \in Agents
      PROVE  LeasesOf(y)[a] = IF a \in S THEN {} ELSE LeasesOf(x)[a]
  <2>1. CASE a \in S
    BY <2>1 DEF LeasesOf
  <2>2. CASE a \notin S
    <3>1. \A g \in Goals : Target[g] = a =>
             {y.runs[g][k].generation : k \in HolderOf(y, g)}
               = {x.runs[g][k].generation : k \in HolderOf(x, g)}
      BY <2>2
    <3> QED BY <2>2, <3>1 DEF LeasesOf
  <2> QED BY <2>1, <2>2
<1>3. LeasesOf(y) = [a \in Agents |-> IF a \in S THEN {} ELSE LeasesOf(x)[a]]
  BY <1>2 DEF LeasesOf
<1> QED BY <1>1, <1>3 DEF Lost

\* A goal whose newest run, status and slot do not change agrees as before.
LEMMA SameGoal ==
  ASSUME NEW x, NEW y, NEW g \in Goals, GoalAgrees(x, g),
         Attempts(y, g) = Attempts(x, g), Len(y.runs[g]) = Len(x.runs[g]),
         \A k \in Attempts(x, g) : y.runs[g][k] = x.runs[g][k],
         y.status[g] = x.status[g],
         x.slots[Target[g]] = NoSlot => y.slots[Target[g]] = NoSlot
  PROVE  GoalAgrees(y, g)
<1>1. HolderOf(y, g) = HolderOf(x, g)
  BY DEF HolderOf
<1>2. \A k \in HolderOf(x, g) : k \in Attempts(x, g)
  BY DEF HolderOf
<1> QED BY <1>1, <1>2 DEF GoalAgrees

\* A run leaves its slot, ended or parked, and its goal's status follows.
LEMMA RunLeaves ==
  ASSUME NEW x, NEW y, NEW g \in Goals, NEW k \in HolderOf(x, g), NEW r \in Run,
         Typed(x), Agrees(x), Typed(y),
         y.slots = [x.slots EXCEPT ![Target[g]] = NoSlot],
         y.generations = x.generations, y.claims = x.claims, y.epoch = x.epoch,
         RunBecomes(x, y, g, k, r), r.state \notin Holding,
         \A h \in Goals : h # g => y.status[h] = x.status[h],
         y.status[g] \notin {"Active", "Cancelling"},
         y.status[g] = "Waiting" => r.state = "Waiting",
         y.outbox \subseteq x.outbox, \A e \in y.outbox : ~(e.goal = g /\ e.attempt = k),
         InPlay(y), EdgesSettle(x, y)
  PROVE  Becomes(x, y, {Target[g]})
<1> DEFINE a == Target[g]
<1>1. a \in Agents /\ k \in Attempts(x, g) /\ x.runs[g][k].state \in Holding
  BY CoordinatorAssumption DEF HolderOf
<1>2. x.slots[a].goal = g /\ x.slots[a].attempt = k
  BY SlotOf
<1>3. HolderOf(x, g) = {k} /\ k = Len(x.runs[g])
  BY DEF Agrees, GoalAgrees
<1>4. \A h \in Goals : HolderOf(y, h) = IF Target[h] = a THEN {} ELSE HolderOf(x, h)
  <2>1. HolderOf(y, g) = {}
    BY <1>3 DEF RunBecomes, HolderOf
  <2>2. ASSUME NEW h \in Goals, h # g PROVE HolderOf(y, h) = HolderOf(x, h)
    BY <2>2 DEF RunBecomes, HolderOf
  <2>3. ASSUME NEW h \in Goals, h # g, Target[h] = a, NEW j \in HolderOf(x, h) PROVE FALSE
    <3>1. x.slots[Target[h]].goal = h BY SlotOf
    <3> QED BY <1>2, <2>3, <3>1
  <2> QED BY <2>1, <2>2, <2>3
<1>5. SlotsAgree(y) /\ Lost(x, y, {a})
  <2>1. y.slots = [b \in Agents |-> IF b \in {a} THEN NoSlot ELSE x.slots[b]]
    BY <1>1 DEF Typed
  <2>2. \A h \in Goals : \A j \in HolderOf(y, h) : y.runs[h][j].generation = x.runs[h][j].generation
    BY <1>4 DEF RunBecomes, HolderOf
  <2> QED BY <1>1, <1>4, <2>1, <2>2, Vacating
<1>6. ASSUME NEW h \in Goals PROVE GoalAgrees(y, h)
  <2>1. CASE h = g
    <3>1. HolderOf(y, g) = {} /\ y.slots[a] = NoSlot
      BY <1>1, <1>4 DEF Typed
    <3>2. /\ Len(y.runs[g]) = k /\ k \in Attempts(y, g) /\ y.runs[g][k] = r
      BY <1>1, <1>3 DEF RunBecomes
    <3> QED BY <2>1, <3>1, <3>2 DEF GoalAgrees
  <2>2. CASE h # g
    <3>1. /\ Attempts(y, h) = Attempts(x, h) /\ Len(y.runs[h]) = Len(x.runs[h])
          /\ \A j \in Attempts(x, h) : y.runs[h][j] = x.runs[h][j]
      BY <2>2 DEF RunBecomes
    <3>2. x.slots[Target[h]] = NoSlot => y.slots[Target[h]] = NoSlot
      BY CoordinatorAssumption DEF Typed
    <3> QED BY <2>2, <3>1, <3>2, SameGoal DEF Agrees
  <2> QED BY <2>1, <2>2
<1>7. OutboxAgrees(y)
  <2> SUFFICES ASSUME NEW e \in y.outbox
               PROVE  /\ e.attempt \in Attempts(y, e.goal)
                      /\ y.runs[e.goal][e.attempt].state
                           = IF e.kind = "Dispatch" THEN "Open" ELSE "CancelRequested"
    BY DEF OutboxAgrees
  <2>1. /\ e \in x.outbox /\ e.goal \in Goals /\ e.attempt \in Attempts(x, e.goal)
        /\ x.runs[e.goal][e.attempt].state
                           = IF e.kind = "Dispatch" THEN "Open" ELSE "CancelRequested"
    BY DEF Typed, Outbox, Agrees, OutboxAgrees
  <2> QED BY <2>1 DEF RunBecomes
<1>8. Kept(x, y)
  <2>1. x.status[g] \notin Ended
    BY <1>3 DEF Agrees, GoalAgrees, Ended
  <2>2. \A h \in Goals : \A j \in Attempts(x, h) :
          j \in Attempts(y, h) /\ (x.runs[h][j].state \in RunOver => y.runs[h][j] = x.runs[h][j])
    BY <1>1 DEF RunBecomes, RunOver, Ended, Holding
  <2>3. \A h, j \in Goals : x.edges[<<h, j>>].state \in Settled => y.edges[<<h, j>>] = x.edges[<<h, j>>]
    BY DEF EdgesSettle, Settled
  <2> QED BY <2>1, <2>2, <2>3 DEF Kept
<1> QED BY <1>5, <1>6, <1>7, <1>8, FewerEdges DEF Becomes, Agrees

\* Goals without a slot change: their parked runs end, their status moves on.
LEMMA UnslottedGoalsMove ==
  ASSUME NEW x, NEW y, Typed(x), Agrees(x), Typed(y),
         y.slots = x.slots, y.generations = x.generations, y.claims = x.claims,
         y.epoch = x.epoch, y.outbox \subseteq x.outbox,
         \A g \in Goals :
            /\ Attempts(y, g) = Attempts(x, g) /\ Len(y.runs[g]) = Len(x.runs[g])
            /\ \/ /\ y.status[g] = x.status[g]
                  /\ \A j \in Attempts(x, g) : y.runs[g][j] = x.runs[g][j]
               \/ /\ x.status[g] \notin Ended \cup {"Active", "Cancelling"}
                  /\ y.status[g] \notin {"Active", "Cancelling", "Waiting"}
                  /\ \A j \in Attempts(x, g) :
                       \/ y.runs[g][j] = x.runs[g][j]
                       \/ /\ x.runs[g][j].state \notin RunOver
                          /\ y.runs[g][j].state \notin Holding,
         InPlay(y), NoCycle(y),
         \A e \in Goals \X Goals : x.edges[e].state \in Settled => y.edges[e] = x.edges[e]
  PROVE  Becomes(x, y, {})
<1> DEFINE same(g) == /\ y.status[g] = x.status[g]
                      /\ \A j \in Attempts(x, g) : y.runs[g][j] = x.runs[g][j]
<1>1. \A g \in Goals : Attempts(y, g) = Attempts(x, g) /\ Len(y.runs[g]) = Len(x.runs[g])
  OBVIOUS
<1>2. ASSUME NEW g \in Goals, ~same(g)
      PROVE  /\ x.status[g] \notin Ended \cup {"Active", "Cancelling"}
             /\ y.status[g] \notin {"Active", "Cancelling", "Waiting"}
             /\ \A j \in Attempts(x, g) :
                   \/ y.runs[g][j] = x.runs[g][j]
                   \/ /\ x.runs[g][j].state \notin RunOver
                      /\ y.runs[g][j].state \notin Holding
             /\ HolderOf(x, g) = {} /\ HolderOf(y, g) = {}
  <2>1. /\ x.status[g] \notin Ended \cup {"Active", "Cancelling"}
        /\ y.status[g] \notin {"Active", "Cancelling", "Waiting"}
        /\ \A j \in Attempts(x, g) :
                   \/ y.runs[g][j] = x.runs[g][j]
                   \/ /\ x.runs[g][j].state \notin RunOver
                      /\ y.runs[g][j].state \notin Holding
    BY <1>2
  <2>2. HolderOf(x, g) = {}
    BY <2>1 DEF Agrees, GoalAgrees
  <2>3. HolderOf(y, g) = {}
    BY <1>1, <2>1, <2>2 DEF HolderOf
  <2> QED BY <2>1, <2>2, <2>3
<1>3. ASSUME NEW g \in Goals, same(g) PROVE HolderOf(y, g) = HolderOf(x, g)
  BY <1>1, <1>3 DEF HolderOf
<1>4. SlotsAgree(y) /\ Lost(x, y, {})
  <2>1. y.slots = [a \in Agents |-> IF a \in {} THEN NoSlot ELSE x.slots[a]]
    BY DEF Typed
  <2>2. \A g \in Goals : HolderOf(y, g) = IF Target[g] \in {} THEN {} ELSE HolderOf(x, g)
    BY <1>2, <1>3
  <2>3. ASSUME NEW g \in Goals, NEW k \in HolderOf(y, g)
        PROVE  y.runs[g][k].generation = x.runs[g][k].generation
    <3>1. same(g) BY <1>2
    <3>2. k \in Attempts(x, g) BY <1>1 DEF HolderOf
    <3> QED BY <3>1, <3>2
  <2> HIDE DEF same
  <2> QED BY <2>1, <2>2, <2>3, Vacating
<1>5. ASSUME NEW g \in Goals PROVE GoalAgrees(y, g)
  <2>1. CASE same(g)
    BY <1>1, <2>1, SameGoal DEF Agrees
  <2>2. CASE ~same(g)
    BY <1>2, <2>2 DEF GoalAgrees
  <2> QED BY <2>1, <2>2
<1>6. OutboxAgrees(y)
  <2> SUFFICES ASSUME NEW e \in y.outbox
               PROVE  /\ e.attempt \in Attempts(y, e.goal)
                      /\ y.runs[e.goal][e.attempt].state
                           = IF e.kind = "Dispatch" THEN "Open" ELSE "CancelRequested"
    BY DEF OutboxAgrees
  <2>1. /\ e \in x.outbox /\ e.goal \in Goals /\ e.attempt \in Attempts(x, e.goal)
        /\ x.runs[e.goal][e.attempt].state
                           = IF e.kind = "Dispatch" THEN "Open" ELSE "CancelRequested"
    BY DEF Typed, Outbox, Agrees, OutboxAgrees
  <2>2. e.attempt \in HolderOf(x, e.goal)
    BY <2>1 DEF HolderOf, Holding
  <2>3. same(e.goal)
    BY <1>2, <2>1, <2>2
  <2> QED BY <1>1, <2>1, <2>3
<1>7. Kept(x, y)
  <2>1. ASSUME NEW g \in Goals
        PROVE  /\ x.status[g] \in Ended => y.status[g] = x.status[g]
               /\ \A k \in Attempts(x, g) :
                    /\ k \in Attempts(y, g)
                    /\ x.runs[g][k].state \in RunOver => y.runs[g][k] = x.runs[g][k]
    BY <1>1, <1>2
  <2> QED BY <2>1 DEF Kept
<1> QED BY <1>4, <1>5, <1>6, <1>7 DEF Becomes, Agrees

-----------------------------------------------------------------------------
(* The parts of the operations.                                            *)

\* A sequence of runs changed run by run.
LEMMA RunByRun ==
  ASSUME NEW s \in Seq(Run), NEW t, t = [j \in DOMAIN s |-> t[j]],
         \A j \in DOMAIN s : t[j] \in Run
  PROVE  t \in Seq(Run) /\ DOMAIN t = DOMAIN s /\ Len(t) = Len(s)
<1>1. Len(s) \in Nat /\ DOMAIN s = 1..Len(s)
  OBVIOUS
<1>2. t \in [1..Len(s) -> Run]
  BY <1>1
<1>3. t \in Seq(Run)
  BY <1>1, <1>2, SeqDef
<1>4. Len(t) = Len(s)
  BY <1>1, <1>2, <1>3
<1> QED BY <1>3, <1>4

\* One run of one goal is rewritten.
LEMMA OneRun ==
  ASSUME NEW x, NEW y, x.runs \in [Goals -> Seq(Run)], NEW g \in Goals,
         NEW k \in Attempts(x, g), NEW r \in Run,
         y.runs = [x.runs EXCEPT ![g] = [@ EXCEPT ![k] = r]]
  PROVE  y.runs \in [Goals -> Seq(Run)] /\ RunBecomes(x, y, g, k, r)
<1> DEFINE t == [x.runs[g] EXCEPT ![k] = r]
<1>1. x.runs[g] \in Seq(Run) /\ DOMAIN x.runs[g] = Attempts(x, g)
  BY DEF Attempts
<1>2. \A j \in DOMAIN x.runs[g] : x.runs[g][j] \in Run
  BY <1>1
<1>3. /\ t = [j \in DOMAIN x.runs[g] |-> t[j]]
      /\ \A j \in DOMAIN x.runs[g] : t[j] = IF j = k THEN r ELSE x.runs[g][j]
  BY <1>1
<1>4. t \in Seq(Run) /\ DOMAIN t = DOMAIN x.runs[g] /\ Len(t) = Len(x.runs[g])
  BY <1>1, <1>2, <1>3, RunByRun
<1>5. y.runs = [x.runs EXCEPT ![g] = t]
  OBVIOUS
<1> HIDE DEF t
<1>6. y.runs \in [Goals -> Seq(Run)] /\ y.runs[g] = t /\ \A h \in Goals : h # g => y.runs[h] = x.runs[h]
  BY <1>4, <1>5
<1> QED BY <1>1, <1>3, <1>4, <1>6 DEF RunBecomes, Attempts

\* A change of an aggregate leaves the other fields as they are.
LEMMA ReleaseSlotEffect ==
  ASSUME NEW x, Typed(x), NEW g \in Goals
  PROVE  /\ Typed(ReleaseSlot(x, g)) /\ Only(x, ReleaseSlot(x, g), {"slots"})
         /\ ReleaseSlot(x, g).slots = [x.slots EXCEPT ![Target[g]] = NoSlot]
<1> DEFINE y == ReleaseSlot(x, g)
<1>1. Only(x, y, {"slots"}) /\ y.slots = [x.slots EXCEPT ![Target[g]] = NoSlot]
  BY DEF ReleaseSlot, Typed, Record, Fields, Only
<1>2. y.slots \in [Agents -> Slot]
  BY <1>1, CoordinatorAssumption DEF Typed, Slot
<1> QED BY <1>1, <1>2 DEF Typed, Record, Fields, Only

\* What superseding one dispatch changes.
LEMMA SupersedeDispatchEffect ==
  ASSUME NEW x, Typed(x), NEW g \in Goals, NEW k
  PROVE  /\ Typed(SupersedeDispatch(x, g, k))
         /\ Only(x, SupersedeDispatch(x, g, k), {"outbox"})
         /\ SupersedeDispatch(x, g, k).outbox = x.outbox \ {Entry("Dispatch", g, k)}
<1> DEFINE y == SupersedeDispatch(x, g, k)
<1>1. Only(x, y, {"outbox"}) /\ y.outbox = x.outbox \ {Entry("Dispatch", g, k)}
  BY DEF SupersedeDispatch, Typed, Record, Fields, Only
<1>2. y.outbox \in Outbox
  BY <1>1 DEF Typed, Outbox
<1> QED BY <1>1, <1>2 DEF Typed, Record, Fields, Only

\* What superseding all entries of some goals changes.
LEMMA SupersedeGoalEffect ==
  ASSUME NEW x, Typed(x), NEW G
  PROVE  /\ Typed(SupersedeGoal(x, G)) /\ Only(x, SupersedeGoal(x, G), {"outbox"})
         /\ SupersedeGoal(x, G).outbox = {e \in x.outbox : e.goal \notin G}
<1> DEFINE y == SupersedeGoal(x, G)
<1>1. Only(x, y, {"outbox"}) /\ y.outbox = {e \in x.outbox : e.goal \notin G}
  BY DEF SupersedeGoal, Typed, Record, Fields, Only
<1>2. y.outbox \in Outbox
  BY <1>1 DEF Typed, Outbox
<1> QED BY <1>1, <1>2 DEF Typed, Record, Fields, Only

\* What ending a run changes.
LEMMA EndRunEffect ==
  ASSUME NEW x, Typed(x), NEW g \in Goals, NEW k \in Attempts(x, g),
         NEW state \in Holding \cup {"Waiting"} \cup RunOver,
         NEW outcome \in {"none", "approved", "other"}
  PROVE  LET y == EndRun(x, g, k, state, outcome)
         IN Typed(y) /\ Only(x, y, {"runs"}) /\ RunMoves(x, y, g, k, state)
<1> DEFINE y == EndRun(x, g, k, state, outcome)
           r == [x.runs[g][k] EXCEPT !.state = state, !.outcome = outcome]
<1>1. x.runs[g] \in Seq(Run) /\ x.runs[g][k] \in Run
  BY DEF Typed, Attempts
<1>2. r \in Run /\ r.state = state
  BY <1>1 DEF Run
<1>3. Only(x, y, {"runs"}) /\ y.runs = [x.runs EXCEPT ![g] = [@ EXCEPT ![k] = r]]
  BY <1>1 DEF EndRun, Typed, Record, Fields, Only, Run, Attempts
<1> HIDE DEF r, y
<1>4. y.runs \in [Goals -> Seq(Run)] /\ RunBecomes(x, y, g, k, r)
  BY <1>2, <1>3, OneRun DEF Typed
<1>5. Typed(y)
  BY <1>3, <1>4 DEF Typed, Record, Fields, Only
<1>6. RunMoves(x, y, g, k, state)
  BY <1>2, <1>4 DEF RunMoves
<1> QED BY <1>3, <1>5, <1>6 DEF y

\* What closing a goal changes.
LEMMA CloseEffect ==
  ASSUME NEW x, Typed(x), NEW g \in Goals, NEW status \in Statuses
  PROVE  /\ Typed(Close(x, g, status)) /\ Only(x, Close(x, g, status), {"status", "live"})
         /\ Close(x, g, status).status = [x.status EXCEPT ![g] = status]
         /\ Close(x, g, status).live = x.live \ {g}
<1> DEFINE y == Close(x, g, status)
<1>1. /\ Only(x, y, {"status", "live"})
      /\ y.status = [x.status EXCEPT ![g] = status] /\ y.live = x.live \ {g}
  BY DEF Close, Typed, Record, Fields, Only
<1>2. y.status \in [Goals -> Statuses] /\ y.live \in SUBSET Goals
  BY <1>1 DEF Typed
<1> QED BY <1>1, <1>2 DEF Typed, Record, Fields, Only

\* Settling edges gives open ones a verdict and changes nothing else.
LEMMA SettleEdgesEffect ==
  ASSUME NEW x, Typed(x), NEW E, NEW verdict \in Settled
  PROVE  LET y == SettleEdges(x, E, verdict)
         IN Typed(y) /\ Only(x, y, {"edges"}) /\ EdgesSettle(x, y)
<1> DEFINE y == SettleEdges(x, E, verdict)
           rule(e) == IF x.edges[e].state = "Open" /\ e \in E
                      THEN [x.edges[e] EXCEPT !.state = verdict] ELSE x.edges[e]
<1>1. Only(x, y, {"edges"}) /\ y.edges = [e \in Goals \X Goals |-> rule(e)]
  BY DEF SettleEdges, Typed, Record, Fields, Only
<1>2. ASSUME NEW e \in Goals \X Goals
      PROVE  /\ rule(e) \in Edge
             /\ \/ rule(e) = x.edges[e]
                \/ x.edges[e].state = "Open" /\ rule(e).state \in Settled
  <2>1. x.edges[e] \in Edge
    BY DEF Typed
  <2>2. [x.edges[e] EXCEPT !.state = verdict].state = verdict
    BY <2>1 DEF Edge
  <2>3. [x.edges[e] EXCEPT !.state = verdict] \in Edge
    BY <2>1 DEF Edge
  <2> QED BY <2>1, <2>2, <2>3
<1> HIDE DEF rule
<1>3. y.edges \in [Goals \X Goals -> Edge] /\ EdgesSettle(x, y)
  BY <1>1, <1>2 DEF EdgesSettle
<1> QED BY <1>1, <1>3 DEF Typed, Record, Fields, Only

\* What requeueing a goal changes.
LEMMA RequeueEffect ==
  ASSUME NEW x, Typed(x), NEW g \in Goals
  PROVE  /\ Typed(Requeue(x, g)) /\ Only(x, Requeue(x, g), {"status", "queue"})
         /\ Requeue(x, g).status = [x.status EXCEPT ![g] = "Queued"]
<1> DEFINE y == Requeue(x, g)
<1>1. Only(x, y, {"status", "queue"}) /\ y.status = [x.status EXCEPT ![g] = "Queued"]
  BY DEF Requeue, DropQueue, Typed, Record, Fields, Only
<1>2. y.status \in [Goals -> Statuses]
  BY <1>1 DEF Typed, Statuses
<1> QED BY <1>1, <1>2 DEF Typed, Record, Fields, Only

\* What requeueing several goals changes.
LEMMA RequeueAllEffect ==
  ASSUME NEW x, Typed(x), NEW order
  PROVE  /\ Typed(RequeueAll(x, order)) /\ Only(x, RequeueAll(x, order), {"status", "queue"})
         /\ RequeueAll(x, order).status
              = [g \in Goals |-> IF g \in Range(order) THEN "Queued" ELSE x.status[g]]
<1> DEFINE y == RequeueAll(x, order)
<1>1. /\ Only(x, y, {"status", "queue"})
      /\ y.status = [g \in Goals |-> IF g \in Range(order) THEN "Queued" ELSE x.status[g]]
  BY DEF RequeueAll, Typed, Record, Fields, Only
<1>2. y.status \in [Goals -> Statuses]
  BY <1>1 DEF Typed, Statuses
<1> QED BY <1>1, <1>2 DEF Typed, Record, Fields, Only

\* What parking a run changes.
LEMMA ParkEffect ==
  ASSUME NEW x, Typed(x), NEW g \in Goals, NEW k \in Attempts(x, g),
         NEW why \in WaitReason
  PROVE  LET y == [x EXCEPT !.runs[g][k].state = "Waiting", !.runs[g][k].wait = why]
             r == [x.runs[g][k] EXCEPT !.state = "Waiting", !.wait = why]
         IN /\ Typed(y) /\ Only(x, y, {"runs"})
            /\ r \in Run /\ r.state = "Waiting" /\ RunBecomes(x, y, g, k, r)
<1> DEFINE y == [x EXCEPT !.runs[g][k].state = "Waiting", !.runs[g][k].wait = why]
           r == [x.runs[g][k] EXCEPT !.state = "Waiting", !.wait = why]
<1>1. x.runs[g] \in Seq(Run) /\ x.runs[g][k] \in Run
  BY DEF Typed, Attempts
<1>2. r \in Run /\ r.state = "Waiting"
  BY <1>1 DEF Run
<1>3. Only(x, y, {"runs"}) /\ y.runs = [x.runs EXCEPT ![g] = [@ EXCEPT ![k] = r]]
  BY <1>1 DEF Typed, Record, Fields, Only, Run, Attempts
<1> HIDE DEF r, y
<1>4. y.runs \in [Goals -> Seq(Run)] /\ RunBecomes(x, y, g, k, r)
  BY <1>2, <1>3, OneRun DEF Typed
<1>5. Typed(y)
  BY <1>3, <1>4 DEF Typed, Record, Fields, Only
<1> QED BY <1>2, <1>3, <1>4, <1>5 DEF r, y

\* What moving a goal's status changes.
LEMMA StatusEffect ==
  ASSUME NEW x, Typed(x), NEW g \in Goals, NEW status \in Statuses
  PROVE  LET y == [x EXCEPT !.status[g] = status]
         IN /\ Typed(y) /\ Only(x, y, {"status"})
            /\ y.status = [x.status EXCEPT ![g] = status]
<1> DEFINE y == [x EXCEPT !.status[g] = status]
<1>1. Only(x, y, {"status"}) /\ y.status = [x.status EXCEPT ![g] = status]
  BY DEF Typed, Record, Fields, Only
<1>2. y.status \in [Goals -> Statuses]
  BY <1>1 DEF Typed
<1> QED BY <1>1, <1>2 DEF Typed, Record, Fields, Only

-----------------------------------------------------------------------------
(* The mutations.                                                          *)

\* A run that is Open holds its goal's slot, and the goal is Active.
LEMMA OpenHolds ==
  ASSUME NEW x, Typed(x), Agrees(x), NEW g \in Goals, NEW k \in Attempts(x, g),
         x.runs[g][k].state \in Holding
  PROVE  /\ k \in HolderOf(x, g) /\ k = Len(x.runs[g])
         /\ x.status[g] = IF x.runs[g][k].state = "Open" THEN "Active" ELSE "Cancelling"
<1>1. k \in HolderOf(x, g)
  BY DEF HolderOf
<1>2. /\ x.status[g] \in {"Active", "Cancelling"}
      /\ x.status[g] = "Active" <=> x.runs[g][k].state = "Open"
      /\ k = Len(x.runs[g])
  BY <1>1 DEF Agrees, GoalAgrees
<1> QED BY <1>1, <1>2

\* A run leaves its slot and its agent is not told to run it any more.
LEMMA DetachEffect ==
  ASSUME NEW x, Typed(x), Agrees(x), NEW g \in Goals, NEW k \in Attempts(x, g),
         x.runs[g][k].state = "Open"
  PROVE  LET y == SupersedeDispatch(ReleaseSlot(x, g), g, k)
         IN /\ Typed(y) /\ Only(x, y, {"slots", "outbox"})
            /\ y.slots = [x.slots EXCEPT ![Target[g]] = NoSlot]
            /\ y.outbox \subseteq x.outbox
            /\ \A e \in y.outbox : ~(e.goal = g /\ e.attempt = k)
<1> DEFINE z == ReleaseSlot(x, g)
           y == SupersedeDispatch(z, g, k)
<1>1. Typed(z) /\ Only(x, z, {"slots"}) /\ z.slots = [x.slots EXCEPT ![Target[g]] = NoSlot]
  BY ReleaseSlotEffect
<1> HIDE DEF z
<1>2. Typed(y) /\ Only(z, y, {"outbox"}) /\ y.outbox = z.outbox \ {Entry("Dispatch", g, k)}
  BY <1>1, SupersedeDispatchEffect
<1> HIDE DEF y
<1>3. /\ Only(x, y, {"slots", "outbox"})
      /\ y.slots = [x.slots EXCEPT ![Target[g]] = NoSlot]
      /\ y.outbox = x.outbox \ {Entry("Dispatch", g, k)}
  BY <1>1, <1>2 DEF Only, Record, Fields
<1>4. ASSUME NEW e \in y.outbox, e.goal = g, e.attempt = k PROVE FALSE
  <2>1. e \in x.outbox /\ e # Entry("Dispatch", g, k)
    BY <1>3
  <2>2. e.kind = "Cancel" => x.runs[g][k].state = "CancelRequested"
    BY <1>4, <2>1 DEF Agrees, OutboxAgrees
  <2>3. e \in [kind: {"Dispatch", "Cancel"}, goal: Goals, attempt: Nat]
    BY <2>1 DEF Typed, Outbox
  <2> QED BY <1>4, <2>1, <2>2, <2>3 DEF Entry
<1> QED BY <1>2, <1>3, <1>4 DEF y, z

\* A run that yields gives up its agent.
LEMMA YieldedBecomes ==
  ASSUME NEW x, Typed(x), Agrees(x), NEW g \in Goals, NEW k \in Attempts(x, g),
         x.runs[g][k].state = "Open",
         NEW why \in WaitReason
  PROVE  LET y == Yielded(x, g, k, why)
         IN /\ Becomes(x, y, {Target[g]})
            /\ y.edges = x.edges /\ y.status = [x.status EXCEPT ![g] = "Waiting"]
<1> DEFINE u == SupersedeDispatch(ReleaseSlot(x, g), g, k)
           v == [u EXCEPT !.runs[g][k].state = "Waiting", !.runs[g][k].wait = why]
           y == Yielded(x, g, k, why)
           r == [u.runs[g][k] EXCEPT !.state = "Waiting", !.wait = why]
<1>1. /\ Typed(u) /\ Only(x, u, {"slots", "outbox"})
      /\ u.slots = [x.slots EXCEPT ![Target[g]] = NoSlot]
      /\ u.outbox \subseteq x.outbox
      /\ \A e \in u.outbox : ~(e.goal = g /\ e.attempt = k)
  BY DetachEffect
<1>2. y = [v EXCEPT !.status[g] = "Waiting"]
  <2>1. y = [u EXCEPT !.runs[g][k].state = "Waiting", !.runs[g][k].wait = why,
                      !.status[g] = "Waiting"]
    BY DEF Yielded
  <2> HIDE DEF u, y
  <2> QED BY <1>1, <2>1 DEF Typed, Record, Fields
<1> HIDE DEF u, y
<1>3. u.runs = x.runs /\ k \in Attempts(u, g)
  BY <1>1 DEF Only, Record, Fields, Attempts
<1>4. /\ Typed(v) /\ Only(u, v, {"runs"})
      /\ r \in Run /\ r.state = "Waiting" /\ RunBecomes(u, v, g, k, r)
  BY <1>1, <1>3, ParkEffect
<1> HIDE DEF v, r
<1>5. Typed(y) /\ Only(v, y, {"status"}) /\ y.status = [v.status EXCEPT ![g] = "Waiting"]
  BY <1>2, <1>4, StatusEffect DEF Statuses
<1>6. /\ Only(x, y, {"slots", "outbox", "runs", "status"})
      /\ y.slots = u.slots /\ y.outbox = u.outbox
      /\ y.status = [x.status EXCEPT ![g] = "Waiting"]
      /\ y.runs = v.runs
  BY <1>1, <1>4, <1>5 DEF Only, Record, Fields
<1>7. RunBecomes(x, y, g, k, r)
  BY <1>3, <1>4, <1>6 DEF RunBecomes, Attempts
<1>8. k \in HolderOf(x, g) /\ x.status[g] = "Active"
  BY OpenHolds DEF Holding
<1>9. InPlay(y)
  <2>1. y.live = x.live
    BY <1>6 DEF Only, Record, Fields
  <2> QED BY <1>6, <1>8, <2>1 DEF InPlay, Agrees, Ended, Typed
<1>10. Becomes(x, y, {Target[g]})
  <2>1. /\ y.generations = x.generations /\ y.claims = x.claims /\ y.epoch = x.epoch
        /\ y.edges = x.edges
    BY <1>6 DEF Only, Record, Fields
  <2>2. /\ \A h \in Goals : h # g => y.status[h] = x.status[h]
        /\ y.status[g] = "Waiting"
    BY <1>6 DEF Typed
  <2>3. EdgesSettle(x, y)
    BY <2>1 DEF EdgesSettle
  <2>4. r \in Run /\ r.state = "Waiting" /\ r.state \notin Holding
    BY <1>4 DEF Holding
  <2>5. /\ y.slots = [x.slots EXCEPT ![Target[g]] = NoSlot]
        /\ y.outbox \subseteq x.outbox
        /\ \A e \in y.outbox : ~(e.goal = g /\ e.attempt = k)
    BY <1>1, <1>6
  <2>6. Typed(y) BY <1>5
  <2> QED BY <1>7, <1>8, <1>9, <2>1, <2>2, <2>3, <2>4, <2>5, <2>6, RunLeaves
<1> QED BY <1>6, <1>10 DEF y, Only, Record, Fields

\* Edges are settled: no goal notices.
LEMMA SettleEdgesBecomes ==
  ASSUME NEW x, Typed(x), Agrees(x), NEW E, NEW verdict \in Settled
  PROVE  Becomes(x, SettleEdges(x, E, verdict), {})
<1> DEFINE y == SettleEdges(x, E, verdict)
<1>1. Typed(y) /\ Only(x, y, {"edges"}) /\ EdgesSettle(x, y)
  BY SettleEdgesEffect
<1> HIDE DEF y
<1>2. /\ y.slots = x.slots /\ y.generations = x.generations /\ y.claims = x.claims
      /\ y.epoch = x.epoch /\ y.outbox = x.outbox /\ y.status = x.status
      /\ y.runs = x.runs /\ y.live = x.live
  BY <1>1 DEF Only, Record, Fields
<1>3. InPlay(y) /\ NoCycle(y)
  BY <1>1, <1>2, FewerEdges DEF Agrees, InPlay
<1>4. \A e \in Goals \X Goals : x.edges[e].state \in Settled => y.edges[e] = x.edges[e]
  BY <1>1 DEF EdgesSettle, Settled
<1>5. \A g \in Goals : /\ Attempts(y, g) = Attempts(x, g) /\ Len(y.runs[g]) = Len(x.runs[g])
                       /\ y.status[g] = x.status[g]
                       /\ \A j \in Attempts(x, g) : y.runs[g][j] = x.runs[g][j]
  BY <1>2 DEF Attempts
<1> QED BY <1>1, <1>2, <1>3, <1>4, <1>5, UnslottedGoalsMove DEF y

\* Waiting goals that are assigned are queued again.
LEMMA RequeueAllBecomes ==
  ASSUME NEW x, Typed(x), Agrees(x), NEW order,
         \A g \in Range(order) \cap Goals : x.status[g] = "Waiting" /\ g \in x.live
  PROVE  Becomes(x, RequeueAll(x, order), {})
<1> DEFINE y == RequeueAll(x, order)
<1>1. /\ Typed(y) /\ Only(x, y, {"status", "queue"})
      /\ y.status = [g \in Goals |-> IF g \in Range(order) THEN "Queued" ELSE x.status[g]]
  BY RequeueAllEffect
<1> HIDE DEF y
<1>2. /\ y.slots = x.slots /\ y.generations = x.generations /\ y.claims = x.claims
      /\ y.epoch = x.epoch /\ y.outbox = x.outbox /\ y.edges = x.edges
      /\ y.runs = x.runs /\ y.live = x.live
  BY <1>1 DEF Only, Record, Fields
<1>3. InPlay(y) /\ NoCycle(y)
  BY <1>1, <1>2 DEF Agrees, InPlay, Ended, NoCycle, Children
<1>4. \A g \in Goals :
        /\ Attempts(y, g) = Attempts(x, g) /\ Len(y.runs[g]) = Len(x.runs[g])
        /\ \/ y.status[g] = x.status[g]
           \/ /\ x.status[g] \notin Ended \cup {"Active", "Cancelling"}
              /\ y.status[g] \notin {"Active", "Cancelling", "Waiting"}
        /\ \A j \in Attempts(x, g) : y.runs[g][j] = x.runs[g][j]
  BY <1>1, <1>2 DEF Attempts, Ended
<1> QED BY <1>1, <1>2, <1>3, <1>4, UnslottedGoalsMove DEF y

\* A run of u ends and its goal is closed.
LEMMA RunCloses ==
  ASSUME NEW u, Typed(u), NEW g \in Goals, NEW k \in Attempts(u, g),
         NEW state \in RunOver, NEW outcome \in {"none", "approved", "other"},
         NEW status \in Statuses
  PROVE  LET y == Close(EndRun(u, g, k, state, outcome), g, status)
         IN /\ Typed(y) /\ Only(u, y, {"runs", "status", "live"})
            /\ y.status = [u.status EXCEPT ![g] = status] /\ y.live = u.live \ {g}
            /\ RunMoves(u, y, g, k, state)
<1> DEFINE v == EndRun(u, g, k, state, outcome)
           y == Close(v, g, status)
<1>1. Typed(v) /\ Only(u, v, {"runs"}) /\ RunMoves(u, v, g, k, state)
  BY EndRunEffect
<1> HIDE DEF v
<1>2. /\ Typed(y) /\ Only(v, y, {"status", "live"})
      /\ y.status = [v.status EXCEPT ![g] = status] /\ y.live = v.live \ {g}
  BY <1>1, CloseEffect
<1> HIDE DEF y
<1>3. /\ Only(u, y, {"runs", "status", "live"}) /\ y.runs = v.runs
      /\ v.status = u.status /\ v.live = u.live
  BY <1>1, <1>2 DEF Only, Record, Fields
<1>4. RunMoves(u, y, g, k, state)
  BY <1>1, <1>3 DEF RunMoves, RunBecomes, Attempts
<1> QED BY <1>1, <1>2, <1>3, <1>4 DEF y, v

\* A run that held its slot ends, and its goal with it.
LEMMA HolderCloses ==
  ASSUME NEW x, Typed(x), Agrees(x), NEW g \in Goals, NEW k \in HolderOf(x, g),
         NEW u, Typed(u), Only(x, u, {"slots", "outbox"}),
         u.slots = [x.slots EXCEPT ![Target[g]] = NoSlot], u.outbox \subseteq x.outbox,
         \A e \in u.outbox : ~(e.goal = g /\ e.attempt = k),
         NEW state \in RunOver, NEW outcome \in {"none", "approved", "other"},
         NEW status \in Ended
  PROVE  Becomes(x, Close(EndRun(u, g, k, state, outcome), g, status), {Target[g]})
<1> DEFINE y == Close(EndRun(u, g, k, state, outcome), g, status)
<1>1. /\ u.runs = x.runs /\ k \in Attempts(u, g)
      /\ u.status = x.status /\ u.live = x.live /\ status \in Statuses
  BY DEF Only, Record, Fields, Attempts, HolderOf, Statuses
<1>2. /\ Typed(y) /\ Only(u, y, {"runs", "status", "live"})
      /\ y.status = [u.status EXCEPT ![g] = status] /\ y.live = u.live \ {g}
      /\ RunMoves(u, y, g, k, state)
  BY <1>1, RunCloses
<1> HIDE DEF y
<1> PICK r \in Run : r.state = state /\ RunBecomes(u, y, g, k, r)
  BY <1>2 DEF RunMoves
<1>3. /\ y.slots = [x.slots EXCEPT ![Target[g]] = NoSlot]
      /\ y.outbox \subseteq x.outbox
      /\ \A e \in y.outbox : ~(e.goal = g /\ e.attempt = k)
      /\ y.generations = x.generations /\ y.claims = x.claims /\ y.epoch = x.epoch
      /\ y.edges = x.edges
  BY <1>2 DEF Only, Record, Fields
<1>4. /\ \A h \in Goals : h # g => y.status[h] = x.status[h]
      /\ y.status[g] = status
  BY <1>1, <1>2 DEF Typed
<1>5. status \notin {"Active", "Cancelling", "Waiting"} /\ r.state \notin Holding
  BY <1>2 DEF Ended, RunOver, Holding
<1>6. InPlay(y)
  BY <1>1, <1>2, <1>4 DEF InPlay, Agrees
<1>7. RunBecomes(x, y, g, k, r) /\ EdgesSettle(x, y)
  BY <1>1, <1>2, <1>3 DEF RunBecomes, Attempts, EdgesSettle
<1>8. Typed(y) /\ r \in Run BY <1>2
<1> QED BY <1>3, <1>4, <1>5, <1>6, <1>7, <1>8, RunLeaves DEF y

\* A parked run ends, and its goal with it.
LEMMA ParkedCloses ==
  ASSUME NEW x, Typed(x), Agrees(x), NEW g \in Goals, NEW k \in Attempts(x, g),
         x.runs[g][k].state = "Waiting",
         x.status[g] \notin Ended \cup {"Active", "Cancelling"},
         NEW state \in RunOver, NEW outcome \in {"none", "approved", "other"},
         NEW status \in Ended
  PROVE  Becomes(x, Close(EndRun(x, g, k, state, outcome), g, status), {})
<1> DEFINE y == Close(EndRun(x, g, k, state, outcome), g, status)
<1>1. /\ Typed(y) /\ Only(x, y, {"runs", "status", "live"})
      /\ y.status = [x.status EXCEPT ![g] = status] /\ y.live = x.live \ {g}
      /\ RunMoves(x, y, g, k, state)
  BY RunCloses DEF Statuses
<1> HIDE DEF y
<1> PICK r \in Run : r.state = state /\ RunBecomes(x, y, g, k, r)
  BY <1>1 DEF RunMoves
<1>2. /\ y.slots = x.slots /\ y.generations = x.generations /\ y.claims = x.claims
      /\ y.epoch = x.epoch /\ y.outbox = x.outbox /\ y.edges = x.edges
  BY <1>1 DEF Only, Record, Fields
<1>3. /\ \A h \in Goals : h # g => y.status[h] = x.status[h]
      /\ y.status[g] = status
  BY <1>1 DEF Typed
<1>4. InPlay(y) /\ NoCycle(y)
  BY <1>1, <1>2, <1>3 DEF InPlay, Agrees, NoCycle, Children
<1>5. \A h \in Goals :
        /\ Attempts(y, h) = Attempts(x, h) /\ Len(y.runs[h]) = Len(x.runs[h])
        /\ \A j \in Attempts(x, h) :
             y.runs[h][j] = IF h = g /\ j = k THEN r ELSE x.runs[h][j]
  BY <1>1 DEF RunBecomes
<1>6. /\ x.runs[g][k].state \notin RunOver /\ r.state \notin Holding
      /\ status \notin {"Active", "Cancelling", "Waiting"}
  BY <1>1 DEF RunOver, Ended, Holding
<1>7. \A h \in Goals :
        /\ Attempts(y, h) = Attempts(x, h) /\ Len(y.runs[h]) = Len(x.runs[h])
        /\ \/ /\ y.status[h] = x.status[h]
              /\ \A j \in Attempts(x, h) : y.runs[h][j] = x.runs[h][j]
           \/ /\ x.status[h] \notin Ended \cup {"Active", "Cancelling"}
              /\ y.status[h] \notin {"Active", "Cancelling", "Waiting"}
              /\ \A j \in Attempts(x, h) :
                   \/ y.runs[h][j] = x.runs[h][j]
                   \/ /\ x.runs[h][j].state \notin RunOver
                      /\ y.runs[h][j].state \notin Holding
  BY <1>3, <1>5, <1>6
<1> QED BY <1>1, <1>2, <1>4, <1>7, UnslottedGoalsMove DEF y
\* A run that is parked has no slot, and its goal is not executing.
LEMMA ParkedIsIdle ==
  ASSUME NEW x, Typed(x), Agrees(x), NEW g \in Goals, NEW k \in Attempts(x, g),
         k = Len(x.runs[g]), x.runs[g][k].state = "Waiting"
  PROVE  x.status[g] \notin {"Active", "Cancelling"}
<1>1. k \notin HolderOf(x, g)
  BY DEF HolderOf, Holding
<1> QED BY <1>1 DEF Agrees, GoalAgrees

\* The newest run of a goal is reported over, and the goal with it.
LEMMA CompletingCloses ==
  ASSUME NEW x, Typed(x), Agrees(x), NEW g \in Goals, NEW k \in Attempts(x, g),
         CanComplete(x, g, k), NEW status \in {"Succeeded", "Failed"},
         ValidMove(x.status[g], status), NEW outcome \in {"none", "approved", "other"}
  PROVE  \E S \in SUBSET Agents :
           Becomes(x, Close(EndRun(Detached(x, g, k), g, k, status, outcome), g, status), S)
<1>1. status \in RunOver /\ status \in Ended
  BY DEF RunOver, Ended
<1>2. CASE x.runs[g][k].state = "Open"
  <2> DEFINE u == SupersedeDispatch(ReleaseSlot(x, g), g, k)
  <2>1. /\ Typed(u) /\ Only(x, u, {"slots", "outbox"})
        /\ u.slots = [x.slots EXCEPT ![Target[g]] = NoSlot]
        /\ u.outbox \subseteq x.outbox
        /\ \A e \in u.outbox : ~(e.goal = g /\ e.attempt = k)
    BY <1>2, DetachEffect
  <2>2. Detached(x, g, k) = u
    BY <1>2 DEF Detached
  <2> HIDE DEF u
  <2>3. k \in HolderOf(x, g)
    BY <1>2 DEF HolderOf, Holding
  <2>4. Becomes(x, Close(EndRun(u, g, k, status, outcome), g, status), {Target[g]})
    BY <1>1, <2>1, <2>3, HolderCloses
  <2>5. {Target[g]} \in SUBSET Agents
    BY CoordinatorAssumption
  <2> QED BY <2>2, <2>4, <2>5
<1>3. CASE x.runs[g][k].state # "Open"
  <2>1. x.runs[g][k].state = "Waiting" /\ k = Len(x.runs[g])
    BY <1>3 DEF CanComplete
  <2>2. x.status[g] \notin Ended
    BY DEF ValidMove, Ended
  <2>3. x.status[g] \notin Ended \cup {"Active", "Cancelling"}
    BY <2>1, <2>2, ParkedIsIdle
  <2>4. Becomes(x, Close(EndRun(x, g, k, status, outcome), g, status), {})
    BY <1>1, <2>1, <2>3, ParkedCloses
  <2>5. Detached(x, g, k) = x
    BY <1>3 DEF Detached
  <2> QED BY <2>4, <2>5
<1> QED BY <1>2, <1>3

\* A reported success: the run ends, its goal closes, the woken parents queue.
LEMMA SuccessBecomes ==
  ASSUME Typed(c), Agrees(c), NEW g \in Goals, NEW k \in Attempts(c, g),
         NEW outcome \in {"approved", "other"}, CompleteSuccess(g, k, outcome)
  PROVE  \E S \in SUBSET Agents : Becomes(c, c', S)
<1> DEFINE ended == Close(EndRun(Detached(c, g, k), g, k, "Succeeded", outcome),
                          g, "Succeeded")
           P == SatisfiedBy(ended, g, outcome)
           told == SettleEdges(ended, P \X {g}, "Satisfied")
<1>1. /\ CanComplete(c, g, k) /\ ValidMove(c.status[g], "Succeeded")
      /\ \E order \in SetToSeqs(Woken(told, P)) : c' = RequeueAll(told, order)
  BY DEF CompleteSuccess, CanSucceed
<1> PICK order \in SetToSeqs(Woken(told, P)) : c' = RequeueAll(told, order)
  BY <1>1
<1>2. \E S \in SUBSET Agents : Becomes(c, ended, S)
  BY <1>1, CompletingCloses
<1> HIDE DEF ended
<1>3. Becomes(ended, told, {})
  BY <1>2, SettleEdgesBecomes DEF Becomes, Settled
<1>4. Range(order) \subseteq Woken(told, P)
  BY DEF SetToSeqs, Range
<1> HIDE DEF told, P
<1>5. \A h \in Range(order) \cap Goals : told.status[h] = "Waiting" /\ h \in told.live
  BY <1>4 DEF Woken
<1>6. Becomes(told, c', {})
  BY <1>3, <1>5, RequeueAllBecomes DEF Becomes
<1> QED BY <1>2, <1>3, <1>6, Transitive

\* Parents of a goal that failed are blocked.
LEMMA FailDependentsBecomes ==
  ASSUME NEW x, Typed(x), Agrees(x), NEW g \in Goals, CanFailDependents(x, g)
  PROVE  Becomes(x, FailDependents(x, g), {})
<1> DEFINE B == Blockable(x, g)
           y == [x EXCEPT !.status = [p \in Goals |-> IF p \in B THEN "Blocked" ELSE @[p]],
                          !.queue = Without(@, B)]
<1>1. /\ Only(x, y, {"status", "queue"})
      /\ y.status = [p \in Goals |-> IF p \in B THEN "Blocked" ELSE x.status[p]]
  BY DEF Typed, Record, Fields, Only
<1>2. FailDependents(x, g) = SettleEdges(y, Goals \X {g}, "Failed")
  BY DEF FailDependents
<1> HIDE DEF y
<1>3. \A p \in B : x.status[p] \in {"Queued", "Waiting"}
  <2>1. \A p \in B : /\ ValidMove(x.status[p], "Blocked") /\ x.status[p] \in Statuses
                     /\ x.status[p] \notin {"Active", "Proposed"}
    BY DEF CanFailDependents, Blockable, Parents, Typed
  <2> QED BY <2>1 DEF ValidMove, Statuses, Ended
<1> HIDE DEF B
<1>4. /\ y.slots = x.slots /\ y.generations = x.generations /\ y.claims = x.claims
      /\ y.epoch = x.epoch /\ y.outbox = x.outbox /\ y.edges = x.edges
      /\ y.runs = x.runs /\ y.live = x.live
  BY <1>1 DEF Only, Record, Fields
<1>5. Typed(y)
  <2>1. y.status \in [Goals -> Statuses]
    BY <1>1 DEF Typed, Statuses
  <2> QED BY <1>1, <1>4, <2>1 DEF Typed, Only
<1>6. InPlay(y) /\ NoCycle(y)
  BY <1>1, <1>3, <1>4 DEF Agrees, InPlay, Ended, NoCycle, Children
<1>7. \A h \in Goals :
        /\ Attempts(y, h) = Attempts(x, h) /\ Len(y.runs[h]) = Len(x.runs[h])
        /\ \/ y.status[h] = x.status[h]
           \/ /\ x.status[h] \notin Ended \cup {"Active", "Cancelling"}
              /\ y.status[h] \notin {"Active", "Cancelling", "Waiting"}
        /\ \A j \in Attempts(x, h) : y.runs[h][j] = x.runs[h][j]
  BY <1>1, <1>3, <1>4 DEF Attempts, Ended
<1>8. Becomes(x, y, {})
  BY <1>4, <1>5, <1>6, <1>7, UnslottedGoalsMove
<1>9. Becomes(y, FailDependents(x, g), {})
  BY <1>2, <1>8, SettleEdgesBecomes DEF Becomes, Settled
<1> QED BY <1>8, <1>9, Transitive
\* A run gives up its slot and its goal, still assigned, is queued again.
LEMMA HolderRequeued ==
  ASSUME NEW x, Typed(x), Agrees(x), NEW g \in Goals, NEW k \in HolderOf(x, g), g \in x.live,
         NEW u, Typed(u), Only(x, u, {"slots", "outbox"}),
         u.slots = [x.slots EXCEPT ![Target[g]] = NoSlot], u.outbox \subseteq x.outbox,
         \A e \in u.outbox : ~(e.goal = g /\ e.attempt = k),
         NEW v, Typed(v), Only(u, v, {"runs"}), NEW state \in RunOver \cup {"Waiting"},
         RunMoves(u, v, g, k, state)
  PROVE  Becomes(x, Requeue(v, g), {Target[g]})
<1> DEFINE y == Requeue(v, g)
<1>1. /\ Typed(y) /\ Only(v, y, {"status", "queue"})
      /\ y.status = [v.status EXCEPT ![g] = "Queued"]
  BY RequeueEffect
<1> HIDE DEF y
<1>2. /\ y.slots = [x.slots EXCEPT ![Target[g]] = NoSlot]
      /\ y.outbox \subseteq x.outbox
      /\ \A e \in y.outbox : ~(e.goal = g /\ e.attempt = k)
      /\ y.generations = x.generations /\ y.claims = x.claims /\ y.epoch = x.epoch
      /\ y.edges = x.edges /\ y.live = x.live /\ u.runs = x.runs /\ y.runs = v.runs
      /\ v.status = x.status
  BY <1>1 DEF Only, Record, Fields
<1>3. /\ \A h \in Goals : h # g => y.status[h] = x.status[h]
      /\ y.status[g] = "Queued"
  <2>1. y.status = [x.status EXCEPT ![g] = "Queued"]
    BY <1>1, <1>2
  <2>2. x.status \in [Goals -> Statuses]
    BY DEF Typed
  <2> QED BY <2>1, <2>2
<1> PICK r \in Run : r.state = state /\ RunBecomes(u, v, g, k, r)
  BY DEF RunMoves
<1>4. RunBecomes(x, y, g, k, r) /\ EdgesSettle(x, y)
  BY <1>2 DEF RunBecomes, Attempts, EdgesSettle
<1>5. InPlay(y)
  BY <1>2, <1>3 DEF InPlay, Agrees, Ended
<1>6. r.state \notin Holding /\ y.status[g] \notin {"Active", "Cancelling", "Waiting"}
  BY <1>3 DEF RunOver, Ended, Holding
<1>7. Typed(y) BY <1>1
<1> QED BY <1>2, <1>3, <1>4, <1>5, <1>6, <1>7, RunLeaves DEF y

\* A parked run ends and its goal, still assigned, is queued again.
LEMMA ParkedRequeued ==
  ASSUME NEW x, Typed(x), Agrees(x), NEW g \in Goals, NEW k \in Attempts(x, g), g \in x.live,
         x.runs[g][k].state = "Waiting", x.status[g] \notin {"Active", "Cancelling"},
         NEW state \in RunOver, NEW outcome \in {"none", "approved", "other"}
  PROVE  Becomes(x, Requeue(EndRun(x, g, k, state, outcome), g), {})
<1> DEFINE v == EndRun(x, g, k, state, outcome)
           y == Requeue(v, g)
<1>1. Typed(v) /\ Only(x, v, {"runs"}) /\ RunMoves(x, v, g, k, state)
  BY EndRunEffect
<1> HIDE DEF v
<1>2. /\ Typed(y) /\ Only(v, y, {"status", "queue"})
      /\ y.status = [v.status EXCEPT ![g] = "Queued"]
  BY <1>1, RequeueEffect
<1> HIDE DEF y
<1>3. /\ y.slots = x.slots /\ y.generations = x.generations /\ y.claims = x.claims
      /\ y.epoch = x.epoch /\ y.outbox = x.outbox /\ y.edges = x.edges
      /\ y.live = x.live /\ y.runs = v.runs /\ v.status = x.status
  BY <1>1, <1>2 DEF Only, Record, Fields
<1>4. /\ \A h \in Goals : h # g => y.status[h] = x.status[h]
      /\ y.status[g] = "Queued" /\ x.status[g] \notin Ended
  BY <1>2, <1>3 DEF Typed, Agrees, InPlay
<1> PICK r \in Run : r.state = state /\ RunBecomes(x, v, g, k, r)
  BY <1>1 DEF RunMoves
<1>5. \A h \in Goals :
        /\ Attempts(y, h) = Attempts(x, h) /\ Len(y.runs[h]) = Len(x.runs[h])
        /\ \A j \in Attempts(x, h) :
             y.runs[h][j] = IF h = g /\ j = k THEN r ELSE x.runs[h][j]
  BY <1>3 DEF RunBecomes, Attempts
<1>6. x.runs[g][k].state \notin RunOver /\ r.state \notin Holding
  BY DEF RunOver, Ended, Holding
<1>7. \A h \in Goals :
        /\ Attempts(y, h) = Attempts(x, h) /\ Len(y.runs[h]) = Len(x.runs[h])
        /\ \/ /\ y.status[h] = x.status[h]
              /\ \A j \in Attempts(x, h) : y.runs[h][j] = x.runs[h][j]
           \/ /\ x.status[h] \notin Ended \cup {"Active", "Cancelling"}
              /\ y.status[h] \notin {"Active", "Cancelling", "Waiting"}
              /\ \A j \in Attempts(x, h) :
                   \/ y.runs[h][j] = x.runs[h][j]
                   \/ /\ x.runs[h][j].state \notin RunOver
                      /\ y.runs[h][j].state \notin Holding
  BY <1>4, <1>5, <1>6
<1>8. InPlay(y) /\ NoCycle(y)
  BY <1>3, <1>4 DEF InPlay, Agrees, NoCycle, Children, Ended
<1> QED BY <1>2, <1>3, <1>7, <1>8, UnslottedGoalsMove DEF y, v

\* A reported failure: the goal is tried again, or closes and blocks its parents.
LEMMA FailureBecomes ==
  ASSUME Typed(c), Agrees(c), NEW g \in Goals, NEW k \in Attempts(c, g),
         NEW retry \in BOOLEAN, CompleteFailure(g, k, retry)
  PROVE  \E S \in SUBSET Agents : Becomes(c, c', S)
<1> DEFINE u == Detached(c, g, k)
           v == EndRun(u, g, k, "Failed", "other")
<1>1. /\ CanComplete(c, g, k) /\ g \in c.live
      /\ \/ c' = Requeue(v, g)
         \/ /\ ValidMove(c.status[g], "Failed")
            /\ CanFailDependents(v, g)
            /\ c' = FailDependents(Close(v, g, "Failed"), g)
  BY DEF CompleteFailure, CanFail, Failed
<1>2. CASE c' = Requeue(v, g)
  <2>1. CASE c.runs[g][k].state = "Open"
    <3>1. u = SupersedeDispatch(ReleaseSlot(c, g), g, k)
      BY <2>1 DEF Detached
    <3>2. /\ Typed(u) /\ Only(c, u, {"slots", "outbox"})
          /\ u.slots = [c.slots EXCEPT ![Target[g]] = NoSlot]
          /\ u.outbox \subseteq c.outbox
          /\ \A e \in u.outbox : ~(e.goal = g /\ e.attempt = k)
      BY <2>1, <3>1, DetachEffect
    <3> HIDE DEF u
    <3>3. k \in HolderOf(c, g) /\ u.runs = c.runs /\ k \in Attempts(u, g)
      BY <2>1, <3>2 DEF HolderOf, Holding, Only, Record, Fields, Attempts
    <3>4. /\ "Failed" \in RunOver /\ "Failed" \in Holding \cup {"Waiting"} \cup RunOver
          /\ "Failed" \in RunOver \cup {"Waiting"} /\ "other" \in {"none", "approved", "other"}
      BY DEF RunOver, Ended
    <3>5. Typed(v) /\ Only(u, v, {"runs"}) /\ RunMoves(u, v, g, k, "Failed")
      BY <3>2, <3>3, <3>4, EndRunEffect
    <3> HIDE DEF v
    <3>6. Becomes(c, Requeue(v, g), {Target[g]})
      BY <1>1, <3>2, <3>3, <3>4, <3>5, HolderRequeued
    <3> QED BY <1>2, <3>6, CoordinatorAssumption
  <2>2. CASE c.runs[g][k].state # "Open"
    <3>1. c.runs[g][k].state = "Waiting" /\ k = Len(c.runs[g]) /\ u = c
      BY <1>1, <2>2 DEF CanComplete, Detached
    <3>2. c.status[g] \notin {"Active", "Cancelling"}
      BY <3>1, ParkedIsIdle
    <3>3. "Failed" \in RunOver
      BY DEF RunOver, Ended
    <3>4. Becomes(c, c', {})
      BY <1>1, <1>2, <3>1, <3>2, <3>3, ParkedRequeued
    <3> QED BY <3>4
  <2> QED BY <2>1, <2>2
<1>3. CASE /\ ValidMove(c.status[g], "Failed")
           /\ CanFailDependents(v, g)
           /\ c' = FailDependents(Close(v, g, "Failed"), g)
  <2> DEFINE z == Close(v, g, "Failed")
  <2>1. \E S \in SUBSET Agents : Becomes(c, z, S)
    BY <1>1, <1>3, CompletingCloses
  <2>2. CanFailDependents(z, g)
    <3>1. k \in Attempts(u, g) /\ Typed(u)
      <4>1. CASE u = c
        BY <4>1
      <4>2. CASE u # c
        <5> DEFINE w == SupersedeDispatch(ReleaseSlot(c, g), g, k)
        <5>1. c.runs[g][k].state = "Open" /\ u = w
          BY <4>2 DEF Detached
        <5>2. Typed(w) /\ Only(c, w, {"slots", "outbox"})
          BY <5>1, DetachEffect
        <5> HIDE DEF w, u
        <5> QED BY <5>1, <5>2 DEF Only, Record, Fields, Attempts
      <4> QED BY <4>1, <4>2
    <3> HIDE DEF u
    <3>2. Typed(v)
      BY <3>1, EndRunEffect DEF RunOver, Ended
    <3> HIDE DEF v
    <3>3. /\ Only(v, z, {"status", "live"}) /\ z.status = [v.status EXCEPT ![g] = "Failed"]
      BY <3>2, CloseEffect DEF Statuses, Ended
    <3>4. /\ z.edges = v.edges /\ z.status[g] = "Failed"
          /\ \A p \in Goals : p # g => z.status[p] = v.status[p]
      BY <3>2, <3>3 DEF Only, Record, Fields, Typed
    <3> QED BY <1>3, <3>4 DEF CanFailDependents, Blockable, Parents, Ended
  <2> HIDE DEF z
  <2>3. Becomes(z, c', {})
    BY <1>3, <2>1, <2>2, FailDependentsBecomes DEF Becomes, z
  <2> QED BY <2>1, <2>3, Transitive
<1> QED BY <1>1, <1>2, <1>3
\* A rolled back activation gives up its agent and queues the goal again.
LEMMA RollbackBecomes ==
  ASSUME Typed(c), Agrees(c), NEW g \in Goals, NEW k \in Attempts(c, g), Rollback(g, k)
  PROVE  Becomes(c, c', {Target[g]})
<1> DEFINE u == SupersedeDispatch(ReleaseSlot(c, g), g, k)
           v == [u EXCEPT !.runs[g][k].state = "Waiting", !.runs[g][k].wait = "other"]
<1>1. c.runs[g][k].state = "Open" /\ g \in c.live /\ c' = Requeue(v, g)
  BY DEF Rollback, CanRollback, CanRequeue
<1>2. /\ Typed(u) /\ Only(c, u, {"slots", "outbox"})
      /\ u.slots = [c.slots EXCEPT ![Target[g]] = NoSlot]
      /\ u.outbox \subseteq c.outbox
      /\ \A e \in u.outbox : ~(e.goal = g /\ e.attempt = k)
  BY <1>1, DetachEffect
<1> HIDE DEF u
<1>3. k \in HolderOf(c, g) /\ k \in Attempts(u, g)
  BY <1>1, <1>2 DEF HolderOf, Holding, Only, Record, Fields, Attempts
<1>4. Typed(v) /\ Only(u, v, {"runs"}) /\ RunMoves(u, v, g, k, "Waiting")
  BY <1>2, <1>3, ParkEffect DEF RunMoves, WaitReason
<1> HIDE DEF v
<1>5. Becomes(c, Requeue(v, g), {Target[g]})
  BY <1>1, <1>2, <1>3, <1>4, HolderRequeued
<1> QED BY <1>1, <1>5

\* A settled cancellation gives up the agent and closes the goal.
LEMMA SettleCancelBecomes ==
  ASSUME Typed(c), Agrees(c), NEW g \in Goals, NEW k \in Attempts(c, g), SettleCancel(g, k)
  PROVE  Becomes(c, c', {Target[g]})
<1> DEFINE z == ReleaseSlot(c, g)
           u == SupersedeGoal(z, {g})
           ended == Close(EndRun(u, g, k, "Cancelled", "other"), g, "Cancelled")
<1>1. /\ c.runs[g][k].state = "CancelRequested" \/ c.status[g] = "Cancelling"
      /\ CanRelease(c, g, k)
      /\ c' = SettleEdges(ended, Goals \X {g}, "Cancelled")
  BY DEF SettleCancel, CancelDependents
<1>2. k \in HolderOf(c, g)
  <2>1. CASE c.runs[g][k].state = "CancelRequested"
    BY <2>1 DEF HolderOf, Holding
  <2>2. CASE c.status[g] = "Cancelling"
    <3> PICK j \in HolderOf(c, g) : TRUE
      BY <2>2 DEF Agrees, GoalAgrees
    <3>1. c.slots[Target[g]].attempt = j /\ c.slots[Target[g]] # NoSlot
      BY SlotOf
    <3>2. c.slots[Target[g]].attempt = k
      BY <1>1, <3>1 DEF CanRelease
    <3> QED BY <3>1, <3>2
  <2> QED BY <1>1, <2>1, <2>2
<1>3. Typed(z) /\ Only(c, z, {"slots"}) /\ z.slots = [c.slots EXCEPT ![Target[g]] = NoSlot]
  BY ReleaseSlotEffect
<1> HIDE DEF z
<1>4. Typed(u) /\ Only(z, u, {"outbox"}) /\ u.outbox = {e \in z.outbox : e.goal \notin {g}}
  BY <1>3, SupersedeGoalEffect
<1> HIDE DEF u
<1>5. /\ Only(c, u, {"slots", "outbox"})
      /\ u.slots = [c.slots EXCEPT ![Target[g]] = NoSlot]
      /\ u.outbox \subseteq c.outbox
      /\ \A e \in u.outbox : ~(e.goal = g /\ e.attempt = k)
  BY <1>3, <1>4 DEF Only, Record, Fields
<1>6. "Cancelled" \in RunOver /\ "Cancelled" \in Ended
  BY DEF RunOver, Ended
<1>7. Becomes(c, ended, {Target[g]})
  BY <1>2, <1>4, <1>5, <1>6, HolderCloses
<1> HIDE DEF ended
<1>8. Becomes(ended, c', {})
  BY <1>1, <1>7, SettleEdgesBecomes DEF Becomes, Settled
<1>9. {Target[g]} \in SUBSET Agents
  BY CoordinatorAssumption
<1> QED BY <1>7, <1>8, <1>9, Transitive

\* Edges from p to goals that do not wait for p close no cycle: the goals of a
\* cycle through a new edge to h that do not wait for p would be one already.
LEMMA NoNewCycle ==
  ASSUME NEW x, NoCycle(x), NEW y, NEW p \in Goals, NEW W,
         \A h \in W : ~WouldCycle(x, p, h),
         \A q, h \in Goals : y.edges[<<q, h>>].state = "Open" =>
            x.edges[<<q, h>>].state = "Open" \/ (q = p /\ h \in W)
  PROVE  NoCycle(y)
<1> SUFFICES ASSUME NEW S \in SUBSET Goals, S # {}, \A q \in S : S \cap Children(y, q) # {}
             PROVE  FALSE
  BY DEF NoCycle
<1>1. ASSUME NEW q \in S, q # p \/ W \cap S = {} PROVE S \cap Children(x, q) # {}
  <2> PICK h \in S : h \in Children(y, q)
    OBVIOUS
  <2>1. y.edges[<<q, h>>].state = "Open"
    BY DEF Children
  <2>2. x.edges[<<q, h>>].state = "Open"
    BY <1>1, <2>1
  <2> QED BY <2>2 DEF Children
<1>2. \E q \in S : S \cap Children(x, q) = {}
  BY DEF NoCycle
<1>3. p \in S /\ W \cap S # {}
  BY <1>1, <1>2
<1> PICK h \in S : h \in W
  BY <1>3
<1> PICK A \in SUBSET Goals : /\ p \in A /\ h \notin A
                              /\ \A g \in A : Parents(x, g) \subseteq A
  BY DEF WouldCycle
<1>4. ASSUME NEW q \in S \ A PROVE (S \ A) \cap Children(x, q) # {}
  <2> PICK i \in S : i \in Children(x, q)
    BY <1>1
  <2>1. i \notin A
    BY DEF Children, Parents
  <2> QED BY <2>1
<1>5. S \ A \in (SUBSET Goals) \ {{}}
  OBVIOUS
<1> QED BY <1>4, <1>5 DEF NoCycle
\* What adding an edge changes.
LEMMA AddEdgeEffect ==
  ASSUME NEW x, Typed(x), NEW p \in Goals, NEW h \in Goals,
         NEW kind \in DependencyKind
  PROVE  LET y == AddEdge(x, p, h, kind)
         IN /\ Typed(y) /\ Only(x, y, {"edges"})
            /\ \A e \in Goals \X Goals :
                 e # <<p, h>> \/ x.edges[e].state = "Open" => y.edges[e] = x.edges[e]
<1> DEFINE y == AddEdge(x, p, h, kind)
<1>1. CASE x.edges[<<p, h>>].state = "Open"
  <2>1. y = x
    BY <1>1 DEF AddEdge
  <2> QED BY <2>1 DEF Only, Typed
<1>2. CASE x.edges[<<p, h>>].state # "Open"
  <2> DEFINE e1 == [state |-> "Open", kind |-> kind]
  <2>1. y = [x EXCEPT !.edges = [@ EXCEPT ![<<p, h>>] = e1]]
    BY <1>2 DEF AddEdge
  <2>2. e1 \in Edge
    BY DEF Edge
  <2> HIDE DEF e1
  <2>3. Only(x, y, {"edges"}) /\ y.edges = [x.edges EXCEPT ![<<p, h>>] = e1]
    BY <2>1 DEF Typed, Record, Fields, Only
  <2> HIDE DEF y
  <2>4. y.edges \in [Goals \X Goals -> Edge]
    BY <2>2, <2>3 DEF Typed
  <2>5. Typed(y)
    BY <2>3, <2>4 DEF Typed, Record, Fields, Only
  <2>6. \A e \in Goals \X Goals :
          e # <<p, h>> \/ x.edges[e].state = "Open" => y.edges[e] = x.edges[e]
    BY <1>2, <2>3 DEF Typed
  <2> QED BY <2>3, <2>5, <2>6 DEF y
<1> QED BY <1>1, <1>2

\* An accepted dependency closes no circle.
LEMMA AddDependencyBecomes ==
  ASSUME Typed(c), Agrees(c), NEW p \in Goals, NEW h \in Goals, NEW kind \in Kinds,
         AddDependency(p, h, kind)
  PROVE  Becomes(c, c', {})
<1> DEFINE y == AddEdge(c, p, h, kind)
<1>1. /\ c.edges[<<p, h>>].state \in {"None", "Open"} /\ ~WouldCycle(c, p, h)
      /\ c' = y
  BY DEF AddDependency, CanAddEdge
<1>2. /\ Typed(y) /\ Only(c, y, {"edges"})
      /\ \A e \in Goals \X Goals :
           e # <<p, h>> \/ c.edges[e].state = "Open" => y.edges[e] = c.edges[e]
  <2>1. kind \in DependencyKind
    BY CoordinatorAssumption
  <2> QED BY <2>1, AddEdgeEffect
<1> HIDE DEF y
<1>3. /\ y.slots = c.slots /\ y.generations = c.generations /\ y.claims = c.claims
      /\ y.epoch = c.epoch /\ y.outbox = c.outbox /\ y.status = c.status
      /\ y.runs = c.runs /\ y.live = c.live
  BY <1>2 DEF Only, Record, Fields
<1>4. \A q, i \in Goals : y.edges[<<q, i>>].state = "Open" =>
        c.edges[<<q, i>>].state = "Open" \/ (q = p /\ i \in {h})
  BY <1>2
<1>5. InPlay(y) /\ NoCycle(y)
  <2>1. InPlay(y)
    BY <1>3 DEF Agrees, InPlay
  <2>2. NoCycle(c) /\ \A i \in {h} : ~WouldCycle(c, p, i)
    BY <1>1 DEF Agrees
  <2>3. NoCycle(y)
    BY <1>4, <2>2, NoNewCycle
  <2> QED BY <2>1, <2>3
<1>6. \A e \in Goals \X Goals : c.edges[e].state \in Settled => y.edges[e] = c.edges[e]
  BY <1>1, <1>2 DEF Settled
<1>7. \A g \in Goals : /\ Attempts(y, g) = Attempts(c, g) /\ Len(y.runs[g]) = Len(c.runs[g])
                       /\ y.status[g] = c.status[g]
                       /\ \A j \in Attempts(c, g) : y.runs[g][j] = c.runs[g][j]
  BY <1>3 DEF Attempts
<1>8. Becomes(c, y, {})
  BY <1>2, <1>3, <1>5, <1>6, <1>7, UnslottedGoalsMove
<1> QED BY <1>1, <1>8

\* A goal is enqueued, with edges to what it waits for.
LEMMA GoalIsQueued ==
  ASSUME NEW x, Typed(x), Agrees(x), NEW g \in Goals, x.status[g] \in {"Absent", "Proposed"},
         NEW y, Typed(y), Only(x, y, {"status", "live", "queue", "edges"}),
         y.status = [x.status EXCEPT ![g] = "Queued"], y.live = x.live \cup {g}, NoCycle(y),
         \A e \in Goals \X Goals : x.edges[e].state \in Settled => y.edges[e] = x.edges[e]
  PROVE  Becomes(x, y, {})
<1>1. /\ y.slots = x.slots /\ y.generations = x.generations /\ y.claims = x.claims
      /\ y.epoch = x.epoch /\ y.outbox = x.outbox /\ y.runs = x.runs
  BY DEF Only, Record, Fields
<1>2. /\ \A h \in Goals : h # g => y.status[h] = x.status[h]
      /\ y.status[g] = "Queued"
  BY DEF Typed
<1>3. InPlay(y)
  BY <1>2 DEF Agrees, InPlay, Ended
<1>4. \A h \in Goals :
        /\ Attempts(y, h) = Attempts(x, h) /\ Len(y.runs[h]) = Len(x.runs[h])
        /\ \/ y.status[h] = x.status[h]
           \/ /\ x.status[h] \notin Ended \cup {"Active", "Cancelling"}
              /\ y.status[h] \notin {"Active", "Cancelling", "Waiting"}
        /\ \A j \in Attempts(x, h) : y.runs[h][j] = x.runs[h][j]
  BY <1>1, <1>2 DEF Attempts, Ended
<1> QED BY <1>1, <1>3, <1>4, UnslottedGoalsMove

\* A goal enters the queue with the dependencies it was given.
LEMMA EnqueueBecomes ==
  ASSUME Typed(c), Agrees(c), NEW g \in Goals, NEW W \in SUBSET {h \in Goals : <<g, h>> \in Pairs},
         Enqueue(g, W)
  PROVE  Becomes(c, c', {})
<1> DEFINE wait(e) == IF e[1] = g /\ e[2] \in W
                      THEN AddEdge(c, g, e[2], "success").edges[e] ELSE c.edges[e]
<1>1. /\ c.status[g] \in {"Absent", "Proposed"}
      /\ \A h \in W : /\ c.edges[<<g, h>>].state \in {"None", "Open"}
                      /\ ~WouldCycle(c, g, h)
  BY DEF Enqueue, CanAddEdge
<1>2. /\ Only(c, c', {"status", "live", "queue", "edges"})
      /\ c'.status = [c.status EXCEPT ![g] = "Queued"] /\ c'.live = c.live \cup {g}
      /\ c'.edges = [e \in Goals \X Goals |-> wait(e)]
  <2>1. c' = [Enqueued(c, g) EXCEPT !.edges = [e \in Goals \X Goals |->
                 IF e[1] = g /\ e[2] \in W
                 THEN AddEdge(c, g, e[2], "success").edges[e] ELSE @[e]]]
    BY DEF Enqueue
  <2>2. Enqueued(c, g).edges = c.edges
    BY DEF Enqueued, Typed, Record, Fields
  <2> QED BY <2>1, <2>2 DEF Enqueued, Typed, Record, Fields, Only
<1>3. ASSUME NEW q \in Goals, NEW h \in Goals
      PROVE  /\ wait(<<q, h>>) \in Edge
             /\ \/ wait(<<q, h>>) = c.edges[<<q, h>>]
                \/ q = g /\ h \in W /\ c.edges[<<q, h>>].state = "None"
  <2>1. CASE q = g /\ h \in W
    <3> DEFINE z == AddEdge(c, g, h, "success")
    <3>1. Typed(z) /\ (c.edges[<<g, h>>].state = "Open" => z.edges[<<g, h>>] = c.edges[<<g, h>>])
      BY AddEdgeEffect DEF DependencyKind
    <3> HIDE DEF z
    <3>2. z.edges[<<g, h>>] \in Edge
      BY <3>1 DEF Typed
    <3> QED BY <1>1, <2>1, <3>1, <3>2 DEF z
  <2>2. CASE ~(q = g /\ h \in W)
    BY <2>2 DEF Typed
  <2> QED BY <2>1, <2>2
<1> HIDE DEF wait
<1>4. Typed(c')
  <2>1. c'.edges \in [Goals \X Goals -> Edge]
    BY <1>2, <1>3
  <2>2. c'.status \in [Goals -> Statuses] /\ c'.live \in SUBSET Goals
    BY <1>2 DEF Typed, Statuses
  <2> QED BY <1>2, <2>1, <2>2 DEF Typed, Only, Record, Fields
<1>5. \A q, h \in Goals : c'.edges[<<q, h>>].state = "Open" =>
        c.edges[<<q, h>>].state = "Open" \/ (q = g /\ h \in W)
  BY <1>2, <1>3
<1>6. NoCycle(c')
  <2>1. NoCycle(c) /\ \A h \in W : ~WouldCycle(c, g, h)
    BY <1>1 DEF Agrees
  <2> QED BY ONLY <1>5, <2>1, NoNewCycle, g \in Goals
<1>7. \A e \in Goals \X Goals : c.edges[e].state \in Settled => c'.edges[e] = c.edges[e]
  BY <1>2, <1>3 DEF Settled
<1> QED BY <1>1, <1>2, <1>4, <1>6, <1>7, GoalIsQueued
\* The parent's run is parked on the child it enqueues.
LEMMA EnqueueChildBecomes ==
  ASSUME Typed(c), Agrees(c), NEW h \in Goals, NEW p \in Goals, NEW k \in Attempts(c, p),
         EnqueueChild(h, p, k)
  PROVE  Becomes(c, c', {Target[p]})
<1> DEFINE z == Yielded(c, p, k, h)
           w == Enqueued(z, h)
           y == AddEdge(w, p, h, "success")
<1>1. /\ c.status[h] \in {"Absent", "Proposed"} /\ c.runs[p][k].state = "Open"
      /\ p # h /\ c.edges[<<p, h>>].state \in {"None", "Open"} /\ ~WouldCycle(c, p, h)
      /\ c' = y
  BY DEF EnqueueChild, CanYield, CanAddEdge
<1>2. /\ Becomes(c, z, {Target[p]})
      /\ z.edges = c.edges /\ z.status = [c.status EXCEPT ![p] = "Waiting"]
  <2>1. h \in WaitReason
    BY DEF WaitReason
  <2> QED BY <1>1, <2>1, YieldedBecomes
<1> HIDE DEF z
<1>3. /\ Only(z, w, {"status", "live", "queue"})
      /\ w.status = [z.status EXCEPT ![h] = "Queued"] /\ w.live = z.live \cup {h}
  BY <1>2 DEF Becomes, Enqueued, Typed, Record, Fields, Only
<1> HIDE DEF w
<1>4. Typed(w)
  <2>1. w.status \in [Goals -> Statuses] /\ w.live \in SUBSET Goals
    BY <1>2, <1>3 DEF Becomes, Typed, Statuses
  <2> QED BY <1>2, <1>3, <2>1 DEF Becomes, Typed, Record, Fields, Only
<1>5. /\ Typed(y) /\ Only(w, y, {"edges"})
      /\ \A e \in Goals \X Goals :
           e # <<p, h>> \/ w.edges[e].state = "Open" => y.edges[e] = w.edges[e]
  BY <1>4, AddEdgeEffect DEF DependencyKind
<1> HIDE DEF y
<1>6. /\ Only(z, y, {"status", "live", "queue", "edges"})
      /\ y.status = [z.status EXCEPT ![h] = "Queued"] /\ y.live = z.live \cup {h}
      /\ w.edges = z.edges
  BY <1>3, <1>5 DEF Only, Record, Fields
<1>7. z.status[h] \in {"Absent", "Proposed"}
  BY <1>1, <1>2 DEF Typed
<1>8. NoCycle(y)
  <2>1. NoCycle(z) /\ \A i \in {h} : ~WouldCycle(z, p, i)
    BY <1>1, <1>2 DEF Becomes, Agrees, WouldCycle, Parents
  <2>2. \A q, i \in Goals : y.edges[<<q, i>>].state = "Open" =>
          z.edges[<<q, i>>].state = "Open" \/ (q = p /\ i \in {h})
    BY <1>5, <1>6
  <2> QED BY <2>1, <2>2, NoNewCycle
<1>9. \A e \in Goals \X Goals : z.edges[e].state \in Settled => y.edges[e] = z.edges[e]
  BY <1>1, <1>2, <1>5, <1>6 DEF Settled
<1>10. Typed(z) /\ Agrees(z) /\ Typed(y)
  BY <1>2, <1>5 DEF Becomes
<1>11. Becomes(z, y, {})
  BY <1>6, <1>7, <1>8, <1>9, <1>10, GoalIsQueued
<1>12. {Target[p]} \in SUBSET Agents
  BY CoordinatorAssumption
<1> QED BY <1>1, <1>2, <1>11, <1>12, Transitive

\* A registered goal is only proposed.
LEMMA RegisterBecomes ==
  ASSUME Typed(c), Agrees(c), NEW g \in Goals, Register(g)
  PROVE  Becomes(c, c', {})
<1> DEFINE y == [c EXCEPT !.status[g] = "Proposed"]
<1>1. c.status[g] = "Absent" /\ c' = y
  BY DEF Register, Exists
<1>2. /\ Typed(y) /\ Only(c, y, {"status"})
      /\ y.status = [c.status EXCEPT ![g] = "Proposed"]
  BY StatusEffect DEF Statuses
<1> HIDE DEF y
<1>3. /\ y.slots = c.slots /\ y.generations = c.generations /\ y.claims = c.claims
      /\ y.epoch = c.epoch /\ y.outbox = c.outbox /\ y.runs = c.runs
      /\ y.live = c.live /\ y.edges = c.edges
  BY <1>2 DEF Only, Record, Fields
<1>4. /\ \A h \in Goals : h # g => y.status[h] = c.status[h]
      /\ y.status[g] = "Proposed"
  BY <1>2 DEF Typed
<1>5. InPlay(y) /\ NoCycle(y)
  BY <1>1, <1>3, <1>4 DEF Agrees, InPlay, Ended, NoCycle, Children
<1>6. \A h \in Goals :
        /\ Attempts(y, h) = Attempts(c, h) /\ Len(y.runs[h]) = Len(c.runs[h])
        /\ \/ y.status[h] = c.status[h]
           \/ /\ c.status[h] \notin Ended \cup {"Active", "Cancelling"}
              /\ y.status[h] \notin {"Active", "Cancelling", "Waiting"}
        /\ \A j \in Attempts(c, h) : y.runs[h][j] = c.runs[h][j]
  BY <1>1, <1>3, <1>4 DEF Attempts, Ended
<1>7. Becomes(c, y, {})
  BY <1>2, <1>3, <1>5, <1>6, UnslottedGoalsMove
<1> QED BY <1>1, <1>7

\* A gate opens, or an entry of the outbox is acknowledged.
LEMMA NothingBecomes ==
  ASSUME Typed(c), Agrees(c), NEW y, Only(c, y, {"approved", "outbox"}), y.outbox \subseteq c.outbox
  PROVE  Becomes(c, y, {})
<1>1. /\ y.slots = c.slots /\ y.generations = c.generations /\ y.claims = c.claims
      /\ y.epoch = c.epoch /\ y.status = c.status /\ y.runs = c.runs
      /\ y.live = c.live /\ y.edges = c.edges
  BY DEF Only, Record, Fields
<1>2. Typed(y) /\ InPlay(y) /\ NoCycle(y)
  <2>1. y.outbox \in Outbox
    BY DEF Typed, Outbox
  <2>2. InPlay(y)
    BY <1>1 DEF Agrees, InPlay
  <2>3. NoCycle(y)
    BY <1>1 DEF Agrees, NoCycle, Children
  <2>4. Typed(y)
    BY <1>1, <2>1 DEF Typed, Only
  <2> QED BY <2>2, <2>3, <2>4
<1>3. \A h \in Goals :
        /\ Attempts(y, h) = Attempts(c, h) /\ Len(y.runs[h]) = Len(c.runs[h])
        /\ y.status[h] = c.status[h]
        /\ \A j \in Attempts(c, h) : y.runs[h][j] = c.runs[h][j]
  BY <1>1 DEF Attempts
<1> QED BY <1>1, <1>2, <1>3, UnslottedGoalsMove
\* The runs of all goals changed run by run.
LEMMA EveryRun ==
  ASSUME NEW x, NEW y, x.runs \in [Goals -> Seq(Run)], y.runs = [g \in Goals |-> y.runs[g]],
         \A g \in Goals : /\ y.runs[g] = [k \in Attempts(x, g) |-> y.runs[g][k]]
                          /\ \A k \in Attempts(x, g) : y.runs[g][k] \in Run
  PROVE  /\ y.runs \in [Goals -> Seq(Run)]
         /\ \A g \in Goals : Attempts(y, g) = Attempts(x, g) /\ Len(y.runs[g]) = Len(x.runs[g])
<1>1. ASSUME NEW g \in Goals
      PROVE  /\ y.runs[g] \in Seq(Run)
             /\ Attempts(y, g) = Attempts(x, g) /\ Len(y.runs[g]) = Len(x.runs[g])
  <2>1. /\ x.runs[g] \in Seq(Run)
        /\ y.runs[g] = [k \in DOMAIN x.runs[g] |-> y.runs[g][k]]
        /\ \A k \in DOMAIN x.runs[g] : y.runs[g][k] \in Run
    BY DEF Attempts
  <2>2. y.runs[g] \in Seq(Run) /\ DOMAIN y.runs[g] = DOMAIN x.runs[g] /\ Len(y.runs[g]) = Len(x.runs[g])
    BY <2>1, RunByRun
  <2> QED BY <2>2 DEF Attempts
<1> QED BY <1>1

\* What fencing executing goals changes.
LEMMA FencedEffect ==
  ASSUME NEW x, Typed(x), NEW F \in SUBSET Goals
  PROVE  LET y == Fenced(x, F)
         IN /\ Typed(y) /\ Only(x, y, {"status", "runs", "outbox"})
            /\ y.status = [g \in Goals |-> IF g \in F THEN "Cancelling" ELSE x.status[g]]
            /\ \A g \in Goals :
                 /\ Attempts(y, g) = Attempts(x, g) /\ Len(y.runs[g]) = Len(x.runs[g])
                 /\ \A k \in Attempts(x, g) :
                      /\ y.runs[g][k].generation = x.runs[g][k].generation
                      /\ IF g \in F /\ x.runs[g][k].state = "Open"
                         THEN y.runs[g][k].state = "CancelRequested"
                         ELSE y.runs[g][k] = x.runs[g][k]
            /\ \A e \in y.outbox :
                 \/ e \in x.outbox /\ (e.kind # "Dispatch" \/ e.goal \notin F)
                 \/ /\ e.kind = "Cancel" /\ e.goal \in F /\ e.goal \in Goals
                    /\ e.attempt \in Attempts(x, e.goal)
                    /\ x.runs[e.goal][e.attempt].state = "Open"
<1> DEFINE y == Fenced(x, F)
           turned(r) == [r EXCEPT !.state = "CancelRequested", !.wait = "none"]
           asked == UNION {{Entry("Cancel", g, k) :
                        k \in {j \in Attempts(x, g) : x.runs[g][j].state = "Open"}} : g \in F}
<1>1. /\ Only(x, y, {"status", "runs", "outbox"})
      /\ y.status = [g \in Goals |-> IF g \in F THEN "Cancelling" ELSE x.status[g]]
      /\ y.runs = [g \in Goals |-> [k \in DOMAIN x.runs[g] |->
                     IF g \in F /\ x.runs[g][k].state = "Open"
                     THEN turned(x.runs[g][k]) ELSE x.runs[g][k]]]
      /\ y.outbox = {e \in x.outbox : e.kind # "Dispatch" \/ e.goal \notin F} \cup asked
  BY DEF Fenced, Typed, Record, Fields, Only
<1> HIDE DEF y, asked
<1>2. ASSUME NEW r \in Run
      PROVE turned(r) \in Run /\ turned(r).state = "CancelRequested" /\ turned(r).generation = r.generation
  BY DEF Run, Holding, WaitReason
<1> HIDE DEF turned
<1>3. \A g \in Goals : \A k \in Attempts(x, g) : x.runs[g][k] \in Run /\ k \in Nat
  BY DEF Typed, Attempts
<1>4. ASSUME NEW g \in Goals
      PROVE  /\ y.runs[g] = [k \in Attempts(x, g) |-> y.runs[g][k]]
             /\ \A k \in Attempts(x, g) :
                  y.runs[g][k] = IF g \in F /\ x.runs[g][k].state = "Open"
                                 THEN turned(x.runs[g][k]) ELSE x.runs[g][k]
  BY <1>1 DEF Attempts
<1>5. /\ y.runs \in [Goals -> Seq(Run)]
      /\ \A g \in Goals : Attempts(y, g) = Attempts(x, g) /\ Len(y.runs[g]) = Len(x.runs[g])
  <2>1. x.runs \in [Goals -> Seq(Run)]
    BY DEF Typed
  <2>2. \A g \in Goals : \A k \in Attempts(x, g) : y.runs[g][k] \in Run
    BY <1>2, <1>3, <1>4
  <2>3. y.runs = [g \in Goals |-> y.runs[g]]
    BY <1>1
  <2>4. \A g \in Goals : /\ y.runs[g] = [k \in Attempts(x, g) |-> y.runs[g][k]]
                         /\ \A k \in Attempts(x, g) : y.runs[g][k] \in Run
    BY <1>4, <2>2
  <2> QED BY <2>1, <2>3, <2>4, EveryRun
<1>6. ASSUME NEW e \in y.outbox
      PROVE  /\ e \in [kind: {"Dispatch", "Cancel"}, goal: Goals, attempt: Nat]
             /\ \/ e \in x.outbox /\ (e.kind # "Dispatch" \/ e.goal \notin F)
                \/ /\ e.kind = "Cancel" /\ e.goal \in F /\ e.goal \in Goals
                   /\ e.attempt \in Attempts(x, e.goal)
                   /\ x.runs[e.goal][e.attempt].state = "Open"
  <2>1. CASE e \in asked
    <3> PICK g \in F : \E k \in Attempts(x, g) :
               x.runs[g][k].state = "Open" /\ e = Entry("Cancel", g, k)
      BY <2>1 DEF asked
    <3> PICK k \in Attempts(x, g) :
               x.runs[g][k].state = "Open" /\ e = Entry("Cancel", g, k)
      OBVIOUS
    <3> QED BY <1>3 DEF Entry
  <2>2. CASE e \notin asked
    BY <1>1, <2>2 DEF Typed, Outbox
  <2> QED BY <2>1, <2>2
<1>7. Typed(y)
  <2>1. y.status \in [Goals -> Statuses]
    BY <1>1 DEF Typed, Statuses
  <2>2. y.outbox \in Outbox
    BY <1>6 DEF Outbox
  <2> QED BY <1>1, <1>5, <2>1, <2>2 DEF Typed, Only, Record, Fields
<1>8. \A g \in Goals : \A k \in Attempts(x, g) :
        /\ y.runs[g][k].generation = x.runs[g][k].generation
        /\ IF g \in F /\ x.runs[g][k].state = "Open"
           THEN y.runs[g][k].state = "CancelRequested" ELSE y.runs[g][k] = x.runs[g][k]
  <2> SUFFICES ASSUME NEW g \in Goals, NEW k \in Attempts(x, g)
               PROVE  /\ y.runs[g][k].generation = x.runs[g][k].generation
                      /\ IF g \in F /\ x.runs[g][k].state = "Open"
                         THEN y.runs[g][k].state = "CancelRequested"
                         ELSE y.runs[g][k] = x.runs[g][k]
    OBVIOUS
  <2>1. x.runs[g][k] \in Run
    BY <1>3
  <2>2. y.runs[g][k] = IF g \in F /\ x.runs[g][k].state = "Open"
                       THEN turned(x.runs[g][k]) ELSE x.runs[g][k]
    BY <1>4
  <2> QED BY <1>2, <2>1, <2>2
<1> QED BY <1>1, <1>5, <1>6, <1>7, <1>8 DEF y
\* Executing goals are told to stop: their runs keep their slots.
LEMMA FencedBecomes ==
  ASSUME NEW x, Typed(x), Agrees(x), NEW F \in SUBSET Goals, \A g \in F : x.status[g] = "Active"
  PROVE  /\ Becomes(x, Fenced(x, F), {})
         /\ \A g \in Goals \ F : Fenced(x, F).status[g] = x.status[g]
<1> DEFINE y == Fenced(x, F)
<1>1. /\ Typed(y) /\ Only(x, y, {"status", "runs", "outbox"})
      /\ y.status = [g \in Goals |-> IF g \in F THEN "Cancelling" ELSE x.status[g]]
      /\ \A g \in Goals :
           /\ Attempts(y, g) = Attempts(x, g) /\ Len(y.runs[g]) = Len(x.runs[g])
           /\ \A k \in Attempts(x, g) :
                /\ y.runs[g][k].generation = x.runs[g][k].generation
                /\ IF g \in F /\ x.runs[g][k].state = "Open"
                   THEN y.runs[g][k].state = "CancelRequested"
                   ELSE y.runs[g][k] = x.runs[g][k]
      /\ \A e \in y.outbox :
           \/ e \in x.outbox /\ (e.kind # "Dispatch" \/ e.goal \notin F)
           \/ /\ e.kind = "Cancel" /\ e.goal \in F /\ e.goal \in Goals
              /\ e.attempt \in Attempts(x, e.goal)
              /\ x.runs[e.goal][e.attempt].state = "Open"
  BY FencedEffect
<1> HIDE DEF y
<1>2. /\ y.slots = x.slots /\ y.generations = x.generations /\ y.claims = x.claims
      /\ y.epoch = x.epoch /\ y.live = x.live /\ y.edges = x.edges
  BY <1>1 DEF Only, Record, Fields
<1>3. \A g \in Goals : HolderOf(y, g) = HolderOf(x, g)
  <2> SUFFICES ASSUME NEW g \in Goals PROVE HolderOf(y, g) = HolderOf(x, g)
    OBVIOUS
  <2>1. \A k \in Attempts(x, g) :
          y.runs[g][k].state \in Holding <=> x.runs[g][k].state \in Holding
    BY <1>1 DEF Holding
  <2> QED BY <1>1, <2>1 DEF HolderOf
<1>4. SlotsAgree(y) /\ Lost(x, y, {})
  <2>1. y.slots = [a \in Agents |-> IF a \in {} THEN NoSlot ELSE x.slots[a]]
    BY <1>2 DEF Typed
  <2>2. \A g \in Goals : HolderOf(y, g) = IF Target[g] \in {} THEN {} ELSE HolderOf(x, g)
    BY <1>3
  <2>3. \A g \in Goals : \A k \in HolderOf(y, g) :
          y.runs[g][k].generation = x.runs[g][k].generation
    BY <1>1 DEF HolderOf
  <2>4. {} \in SUBSET Agents /\ Typed(y)
    BY <1>1
  <2> QED BY <1>2, <2>1, <2>2, <2>3, <2>4, Vacating
<1>5. ASSUME NEW g \in Goals PROVE GoalAgrees(y, g)
  <2>1. CASE g \in F
    <3>1. /\ x.status[g] = "Active" /\ y.status[g] = "Cancelling"
          /\ HolderOf(x, g) # {} /\ HolderOf(x, g) \subseteq {Len(x.runs[g])}
          /\ \A k \in HolderOf(x, g) : x.runs[g][k].state = "Open"
      BY <1>1, <2>1 DEF Agrees, GoalAgrees
    <3>2. \A k \in HolderOf(x, g) : y.runs[g][k].state = "CancelRequested"
      BY <1>1, <2>1, <3>1 DEF HolderOf
    <3>3. Len(y.runs[g]) = Len(x.runs[g])
      BY <1>1
    <3> QED BY <1>3, <3>1, <3>2, <3>3 DEF GoalAgrees
  <2>2. CASE g \notin F
    <3>1. /\ Attempts(y, g) = Attempts(x, g) /\ Len(y.runs[g]) = Len(x.runs[g])
          /\ \A k \in Attempts(x, g) : y.runs[g][k] = x.runs[g][k]
          /\ y.status[g] = x.status[g]
      BY <1>1, <2>2
    <3> QED BY <1>2, <3>1, SameGoal DEF Agrees
  <2> QED BY <2>1, <2>2
<1>6. OutboxAgrees(y)
  <2> SUFFICES ASSUME NEW e \in y.outbox
               PROVE  /\ e.attempt \in Attempts(y, e.goal)
                      /\ y.runs[e.goal][e.attempt].state
                           = IF e.kind = "Dispatch" THEN "Open" ELSE "CancelRequested"
    BY DEF OutboxAgrees
  <2>1. CASE e \in x.outbox /\ (e.kind # "Dispatch" \/ e.goal \notin F)
    <3>1. /\ e.goal \in Goals /\ e.attempt \in Attempts(x, e.goal)
          /\ x.runs[e.goal][e.attempt].state
               = IF e.kind = "Dispatch" THEN "Open" ELSE "CancelRequested"
      BY <2>1 DEF Typed, Outbox, Agrees, OutboxAgrees
    <3> QED BY <1>1, <2>1, <3>1
  <2>2. CASE /\ e.kind = "Cancel" /\ e.goal \in F /\ e.goal \in Goals
             /\ e.attempt \in Attempts(x, e.goal)
             /\ x.runs[e.goal][e.attempt].state = "Open"
    BY <1>1, <2>2
  <2> QED BY <1>1, <2>1, <2>2
<1>7. InPlay(y) /\ NoCycle(y)
  <2>1. InPlay(y)
    BY <1>1, <1>2 DEF Agrees, InPlay, Ended
  <2>2. NoCycle(y)
    BY <1>2 DEF Agrees, NoCycle, Children
  <2> QED BY <2>1, <2>2
<1>8. Kept(x, y)
  <2>1. ASSUME NEW g \in Goals
        PROVE  /\ x.status[g] \in Ended => y.status[g] = x.status[g]
               /\ \A k \in Attempts(x, g) :
                    /\ k \in Attempts(y, g)
                    /\ x.runs[g][k].state \in RunOver => y.runs[g][k] = x.runs[g][k]
    BY <1>1 DEF RunOver, Ended
  <2> QED BY <1>2, <2>1 DEF Kept
<1> QED BY <1>1, <1>2, <1>4, <1>5, <1>6, <1>7, <1>8 DEF Becomes, Agrees, y

\* Goals that do not execute are cancelled at once.
LEMMA DroppedBecomes ==
  ASSUME NEW x, Typed(x), Agrees(x), NEW D \in SUBSET Goals,
         \A g \in D : x.status[g] \notin Ended \cup {"Active", "Cancelling"}
  PROVE  Becomes(x, Dropped(x, D), {})
<1> DEFINE ended(r) == [r EXCEPT !.state = "Cancelled", !.outcome = "other"]
           y == [SupersedeGoal(x, D) EXCEPT
                  !.status = [g \in Goals |-> IF g \in D THEN "Cancelled" ELSE @[g]],
                  !.live   = @ \ D,
                  !.queue  = Without(@, D),
                  !.runs   = [g \in Goals |-> [k \in DOMAIN @[g] |->
                                IF g \in D /\ @[g][k].state \notin RunOver
                                THEN [@[g][k] EXCEPT !.state = "Cancelled", !.outcome = "other"]
                                ELSE @[g][k]]]]
<1>1. Dropped(x, D) = SettleEdges(y, Goals \X D, "Cancelled")
  BY DEF Dropped, CancelDependents
<1>2. /\ Only(x, y, {"status", "live", "queue", "runs", "outbox"})
      /\ y.status = [g \in Goals |-> IF g \in D THEN "Cancelled" ELSE x.status[g]]
      /\ y.live = x.live \ D
      /\ y.runs = [g \in Goals |-> [k \in DOMAIN x.runs[g] |->
                     IF g \in D /\ x.runs[g][k].state \notin RunOver
                     THEN ended(x.runs[g][k]) ELSE x.runs[g][k]]]
      /\ y.outbox \subseteq x.outbox
  BY DEF SupersedeGoal, Typed, Record, Fields, Only
<1> HIDE DEF y
<1>3. ASSUME NEW r \in Run PROVE ended(r) \in Run /\ ended(r).state = "Cancelled"
  BY DEF Run, RunOver, Ended
<1> HIDE DEF ended
<1>4. \A g \in Goals : \A k \in Attempts(x, g) : x.runs[g][k] \in Run
  BY DEF Typed, Attempts
<1>5. ASSUME NEW g \in Goals
      PROVE  /\ y.runs[g] = [k \in Attempts(x, g) |-> y.runs[g][k]]
             /\ \A k \in Attempts(x, g) :
                  y.runs[g][k] = IF g \in D /\ x.runs[g][k].state \notin RunOver
                                 THEN ended(x.runs[g][k]) ELSE x.runs[g][k]
  BY <1>2 DEF Attempts
<1>6. /\ y.runs \in [Goals -> Seq(Run)]
      /\ \A g \in Goals : Attempts(y, g) = Attempts(x, g) /\ Len(y.runs[g]) = Len(x.runs[g])
  <2>1. x.runs \in [Goals -> Seq(Run)]
    BY DEF Typed
  <2>2. ASSUME NEW g \in Goals, NEW k \in Attempts(x, g) PROVE y.runs[g][k] \in Run
    <3>1. x.runs[g][k] \in Run /\ ended(x.runs[g][k]) \in Run
      BY <1>3, <1>4
    <3>2. y.runs[g][k] \in {ended(x.runs[g][k]), x.runs[g][k]}
      BY <1>5
    <3> QED BY ONLY <3>1, <3>2
  <2>3. y.runs = [g \in Goals |-> y.runs[g]]
    BY <1>2
  <2>4. \A g \in Goals : /\ y.runs[g] = [k \in Attempts(x, g) |-> y.runs[g][k]]
                         /\ \A k \in Attempts(x, g) : y.runs[g][k] \in Run
    BY <1>5, <2>2
  <2> QED BY <2>1, <2>3, <2>4, EveryRun
<1>7. /\ y.slots = x.slots /\ y.generations = x.generations /\ y.claims = x.claims
      /\ y.epoch = x.epoch /\ y.edges = x.edges
  BY <1>2 DEF Only, Record, Fields
<1>8. Typed(y)
  <2>1. y.status \in [Goals -> Statuses] /\ y.live \in SUBSET Goals
    BY <1>2 DEF Typed, Statuses, Ended
  <2>2. y.outbox \in Outbox
    BY <1>2 DEF Typed, Outbox
  <2> QED BY <1>2, <1>6, <1>7, <2>1, <2>2 DEF Typed, Only
<1>9. ASSUME NEW g \in Goals
      PROVE  \/ /\ y.status[g] = x.status[g]
                /\ \A j \in Attempts(x, g) : y.runs[g][j] = x.runs[g][j]
             \/ /\ x.status[g] \notin Ended \cup {"Active", "Cancelling"}
                /\ y.status[g] \notin {"Active", "Cancelling", "Waiting"}
                /\ \A j \in Attempts(x, g) :
                     \/ y.runs[g][j] = x.runs[g][j]
                     \/ /\ x.runs[g][j].state \notin RunOver
                        /\ y.runs[g][j].state \notin Holding
  <2>1. CASE g \notin D
    BY <1>2, <1>5, <2>1
  <2>2. CASE g \in D
    <3>1. y.status[g] = "Cancelled"
      BY <1>2, <2>2
    <3>2. ASSUME NEW j \in Attempts(x, g), x.runs[g][j].state \notin RunOver
          PROVE  y.runs[g][j].state \notin Holding
      BY <1>3, <1>4, <1>5, <2>2, <3>2 DEF Holding
    <3> QED BY <1>5, <2>2, <3>1, <3>2
  <2> QED BY <2>1, <2>2
<1>10. InPlay(y) /\ NoCycle(y)
  <2>1. InPlay(y)
    BY <1>2 DEF Agrees, InPlay, Ended
  <2>2. NoCycle(y)
    BY <1>7 DEF Agrees, NoCycle, Children
  <2> QED BY <2>1, <2>2
<1>11. Becomes(x, y, {})
  BY <1>2, <1>6, <1>7, <1>8, <1>9, <1>10, UnslottedGoalsMove
<1>12. Becomes(y, Dropped(x, D), {})
  BY <1>1, <1>11, SettleEdgesBecomes DEF Becomes, Settled
<1> QED BY <1>11, <1>12, Transitive

\* A cascade fences what executes and drops what does not.
LEMMA CancelAllBecomes ==
  ASSUME NEW x, Typed(x), Agrees(x), NEW S \in SUBSET Goals, \A g \in S : x.status[g] \notin Ended
  PROVE  Becomes(x, CancelAll(x, S), {})
<1> DEFINE F == {g \in S : x.status[g] = "Active"}
           D == {g \in S : x.status[g] \notin {"Active", "Cancelling"}}
           y == Fenced(x, F)
<1>1. /\ F \in SUBSET Goals /\ D \in SUBSET Goals /\ D \cap F = {}
      /\ \A g \in F : x.status[g] = "Active"
      /\ \A g \in D : x.status[g] \notin Ended \cup {"Active", "Cancelling"}
      /\ CancelAll(x, S) = Dropped(y, D)
  BY DEF CancelAll
<1> HIDE DEF F, D
<1>2. Becomes(x, y, {}) /\ \A g \in Goals \ F : y.status[g] = x.status[g]
  BY <1>1, FencedBecomes
<1> HIDE DEF y
<1>3. \A g \in D : y.status[g] \notin Ended \cup {"Active", "Cancelling"}
  BY <1>1, <1>2
<1>4. Becomes(y, Dropped(y, D), {})
  BY <1>1, <1>2, <1>3, DroppedBecomes DEF Becomes
<1> QED BY <1>1, <1>2, <1>4, Transitive

\* Cancellation takes no slot, under any policy for the children.
LEMMA CancelBecomes ==
  ASSUME Typed(c), Agrees(c), NEW g \in Goals, NEW policy, Cancel(g, policy)
  PROVE  Becomes(c, c', {})
<1>1. CASE c' = CancelAll(c, CancelSet(c, g))
  <2>1. /\ CancelSet(c, g) \in SUBSET Goals
        /\ \A h \in CancelSet(c, g) : c.status[h] \notin Ended
    BY DEF CancelSet
  <2> QED BY <1>1, <2>1, CancelAllBecomes
<1>2. CASE c' = CancelAll(SettleEdges(c, {g} \X Goals, "Cancelled"), {g})
  <2> DEFINE y == SettleEdges(c, {g} \X Goals, "Cancelled")
  <2>1. Becomes(c, y, {})
    BY SettleEdgesBecomes DEF Settled
  <2>2. y.status = c.status
    BY DEF SettleEdges, Typed, Record, Fields
  <2> HIDE DEF y
  <2>3. c.status[g] \notin Ended
    BY DEF Cancel
  <2>4. Becomes(y, CancelAll(y, {g}), {})
    BY <2>1, <2>2, <2>3, CancelAllBecomes DEF Becomes
  <2>5. c' = CancelAll(y, {g})
    BY <1>2 DEF y
  <2> QED BY <2>1, <2>4, <2>5, Transitive
<1>3. CASE c' = CancelAll(c, {g})
  <2>1. c.status[g] \notin Ended
    BY DEF Cancel
  <2> QED BY <1>3, <2>1, CancelAllBecomes
<1> QED BY <1>1, <1>2, <1>3 DEF Cancel
\* A sequence of the elements of a finite set, each once, has them all.
LEMMA OrderHasAll ==
  ASSUME NEW S, IsFiniteSet(S), NEW order \in SetToSeqs(S)
  PROVE  Range(order) = S
<1> DEFINE D == 1..Cardinality(S)
<1>1. Cardinality(S) \in Nat /\ ExistsBijection(D, S)
  BY FS_CardinalityType
<1>2. IsFiniteSet(D) /\ Cardinality(D) = Cardinality(S)
  BY <1>1, FS_Interval
<1>3. order \in [D -> S] /\ \A i, j \in D : i # j => order[i] # order[j]
  BY DEF SetToSeqs
<1> HIDE DEF D
<1>4. order \in Injection(D, S)
  BY <1>3 DEF Injection, IsInjective
<1>5. order \in Surjection(D, S)
  BY <1>2, <1>4, FS_Injection
<1> QED BY <1>3, <1>5 DEF Surjection, Range

\* The goals in G lose their slots, which are those of the agents in S: the
\* goals in dying are cancelled, the others blocked or queued again.
LEMMA SlotsTaken ==
  ASSUME NEW x, Typed(x), Agrees(x), NEW S \in SUBSET Agents, NEW G \in SUBSET Goals,
         NEW dying \in SUBSET G,
         \A a \in Agents : x.slots[a].goal \in G <=> a \in S,
         \A g \in G : Target[g] \in S /\ HolderOf(x, g) # {},
         \A g \in G : g \in dying <=> x.status[g] = "Cancelling",
         \A g \in Goals \ G : Target[g] \in S => HolderOf(x, g) = {},
         NEW y, Typed(y),
         y.slots = [a \in Agents |-> IF a \in S THEN NoSlot ELSE x.slots[a]],
         y.live = x.live \ dying,
         \A g \in Goals :
            /\ Attempts(y, g) = Attempts(x, g) /\ Len(y.runs[g]) = Len(x.runs[g])
            /\ \A k \in Attempts(x, g) :
                 IF g \in G /\ x.runs[g][k].state \in Holding
                 THEN y.runs[g][k].state = "Interrupted" ELSE y.runs[g][k] = x.runs[g][k],
         y.outbox = {e \in x.outbox : e.goal \notin G \/ (e.kind = "Cancel" /\ e.goal \notin dying)},
         y.generations = x.generations, y.claims = x.claims,
         y.epoch = x.epoch, y.edges = x.edges,
         \A g \in dying : y.status[g] = "Cancelled",
         \A g \in G \ dying : y.status[g] \in {"Queued", "Blocked"},
         \A g \in Goals \ G : y.status[g] = x.status[g]
  PROVE  Becomes(x, y, S)
<1>5. ASSUME NEW g \in Goals
      PROVE  /\ g \in G => /\ HolderOf(x, g) # {}
                           /\ x.status[g] \in {"Active", "Cancelling"}
             /\ g \in G => Target[g] \in S
             /\ g \notin G /\ Target[g] \in S => HolderOf(x, g) = {}
  BY DEF Agrees, GoalAgrees
<1>10. \A g \in G \ dying : x.status[g] = "Active"
  BY <1>5
<1>14. \A g \in Goals : Attempts(y, g) = Attempts(x, g) /\ Len(y.runs[g]) = Len(x.runs[g])
  OBVIOUS
<1>15. /\ \A g \in Goals \ G : /\ y.status[g] = x.status[g] /\ (g \in y.live <=> g \in x.live)
                               /\ \A k \in Attempts(x, g) : y.runs[g][k] = x.runs[g][k]
       /\ \A g \in dying : y.status[g] = "Cancelled" /\ g \notin y.live
       /\ \A g \in G \ dying : y.status[g] \in {"Queued", "Blocked"} /\ (g \in y.live <=> g \in x.live)
  OBVIOUS
<1>16. \A g \in G : \A k \in Attempts(x, g) :
         IF x.runs[g][k].state \in Holding THEN y.runs[g][k].state = "Interrupted"
         ELSE y.runs[g][k] = x.runs[g][k]
  OBVIOUS
<1>18. \A g \in Goals : HolderOf(y, g) = IF Target[g] \in S THEN {} ELSE HolderOf(x, g)
  <2> SUFFICES ASSUME NEW g \in Goals
               PROVE  HolderOf(y, g) = IF Target[g] \in S THEN {} ELSE HolderOf(x, g)
    OBVIOUS
  <2>1. CASE g \in G
    <3>1. Target[g] \in S
      BY <1>5, <2>1
    <3>2. \A k \in Attempts(x, g) : y.runs[g][k].state \notin Holding
      BY <1>16, <2>1 DEF Holding
    <3> QED BY <1>14, <3>1, <3>2 DEF HolderOf
  <2>2. CASE g \notin G
    <3>1. HolderOf(y, g) = HolderOf(x, g)
      BY <1>14, <1>15, <2>2 DEF HolderOf
    <3> QED BY <1>5, <2>2, <3>1
  <2> QED BY <2>1, <2>2
<1>19. SlotsAgree(y) /\ Lost(x, y, S)
  <2>2. \A g \in Goals : \A k \in HolderOf(y, g) :
          y.runs[g][k].generation = x.runs[g][k].generation
    <3> SUFFICES ASSUME NEW g \in Goals, NEW k \in HolderOf(y, g)
                 PROVE  y.runs[g][k].generation = x.runs[g][k].generation
      OBVIOUS
    <3>1. g \notin G /\ k \in Attempts(x, g)
      BY <1>5, <1>14, <1>18 DEF HolderOf
    <3> QED BY <1>15, <3>1
  <2> QED BY <1>18, <2>2, Vacating
<1>20. ASSUME NEW g \in Goals PROVE GoalAgrees(y, g)
  <2>1. CASE g \in G
    <3>1. HolderOf(y, g) = {}
      BY <1>5, <1>18, <2>1
    <3>2. y.status[g] \notin {"Active", "Cancelling", "Waiting"}
      BY <1>15, <2>1
    <3> QED BY <3>1, <3>2 DEF GoalAgrees
  <2>2. CASE g \notin G
    <3>1. /\ Attempts(y, g) = Attempts(x, g) /\ Len(y.runs[g]) = Len(x.runs[g])
          /\ \A k \in Attempts(x, g) : y.runs[g][k] = x.runs[g][k]
          /\ y.status[g] = x.status[g]
      BY <1>14, <1>15, <2>2
    <3>2. x.slots[Target[g]] = NoSlot => y.slots[Target[g]] = NoSlot
      BY CoordinatorAssumption
    <3> QED BY <3>1, <3>2, SameGoal DEF Agrees
  <2> QED BY <2>1, <2>2
<1>21. OutboxAgrees(y)
  <2> SUFFICES ASSUME NEW e \in y.outbox
               PROVE  /\ e.attempt \in Attempts(y, e.goal)
                      /\ y.runs[e.goal][e.attempt].state
                           = IF e.kind = "Dispatch" THEN "Open" ELSE "CancelRequested"
    BY DEF OutboxAgrees
  <2>1. /\ e \in x.outbox /\ e.goal \in Goals /\ e.attempt \in Attempts(x, e.goal)
        /\ x.runs[e.goal][e.attempt].state
             = IF e.kind = "Dispatch" THEN "Open" ELSE "CancelRequested"
        /\ e.goal \notin G \/ (e.kind = "Cancel" /\ e.goal \notin dying)
    BY DEF Typed, Outbox, Agrees, OutboxAgrees
  <2>2. e.goal \notin G
    <3> SUFFICES ASSUME e.goal \in G PROVE FALSE
      OBVIOUS
    <3>1. x.status[e.goal] = "Active" /\ x.runs[e.goal][e.attempt].state = "CancelRequested"
      BY <1>10, <2>1
    <3>2. e.attempt \in HolderOf(x, e.goal)
      BY <2>1, <3>1 DEF HolderOf, Holding
    <3> QED BY <2>1, <3>1, <3>2 DEF Agrees, GoalAgrees
  <2> QED BY <1>14, <1>15, <2>1, <2>2
<1>22. InPlay(y) /\ NoCycle(y)
  <2>1. ASSUME NEW g \in Goals
        PROVE  (g \in y.live) <=> y.status[g] \notin Ended \cup {"Absent", "Proposed"}
    <3>1. (g \in x.live) <=> x.status[g] \notin Ended \cup {"Absent", "Proposed"}
      BY DEF Agrees, InPlay
    <3>2. CASE g \notin G
      BY <1>15, <3>1, <3>2
    <3>3. CASE g \in dying
      BY <1>15, <3>3 DEF Ended
    <3>4. CASE g \in G \ dying
      BY <1>10, <1>15, <3>1, <3>4 DEF Ended
    <3> QED BY <3>2, <3>3, <3>4
  <2>2. NoCycle(y)
    BY DEF Agrees, NoCycle, Children
  <2> QED BY <2>1, <2>2 DEF InPlay
<1>23. Kept(x, y)
  <2>1. ASSUME NEW g \in Goals
        PROVE  /\ x.status[g] \in Ended => y.status[g] = x.status[g]
               /\ \A k \in Attempts(x, g) :
                    /\ k \in Attempts(y, g)
                    /\ x.runs[g][k].state \in RunOver => y.runs[g][k] = x.runs[g][k]
    <3>1. \A k \in Attempts(x, g) :
            /\ k \in Attempts(y, g)
            /\ x.runs[g][k].state \in RunOver => y.runs[g][k] = x.runs[g][k]
      BY <1>14, <1>15, <1>16 DEF RunOver, Ended, Holding
    <3>2. x.status[g] \in Ended => y.status[g] = x.status[g]
      BY <1>5, <1>15 DEF Ended
    <3> QED BY <3>1, <3>2
  <2> QED BY <2>1 DEF Kept
<1> QED BY <1>19, <1>20, <1>21, <1>22, <1>23 DEF Becomes, Agrees

\* The slots of the agents in A are taken from the runs that hold them.
LEMMA InterruptedBecomes ==
  ASSUME NEW x, Typed(x), Agrees(x), NEW A \in SUBSET Agents,
         NEW y \in Interrupted(x, SlotGoals(x, A))
  PROVE  Becomes(x, y, {a \in A : x.slots[a] # NoSlot})
<1> DEFINE G == SlotGoals(x, A)
           stopped(r) == [r EXCEPT !.state = "Interrupted", !.outcome = "other"]
           S == {a \in A : x.slots[a] # NoSlot}
           dying == {g \in G : x.status[g] = "Cancelling"}
           again == (G \ dying) \cap RetrySafe
           over  == [x EXCEPT
             !.slots  = [a \in Agents |-> IF @[a].goal \in G THEN NoSlot ELSE @[a]],
             !.runs   = [g \in Goals |-> [k \in DOMAIN @[g] |->
                           IF g \in G /\ @[g][k].state \in Holding
                           THEN [@[g][k] EXCEPT !.state = "Interrupted", !.outcome = "other"]
                           ELSE @[g][k]]],
             !.status = [g \in Goals |-> IF g \in dying THEN "Cancelled"
                                         ELSE IF g \in G \ again THEN "Blocked" ELSE @[g]],
             !.live   = @ \ dying,
             !.outbox = {e \in @ : \/ e.goal \notin G
                                   \/ e.kind = "Cancel" /\ e.goal \notin dying}]
<1>0. PICK order \in SetToSeqs(again) : y = RequeueAll(over, order)
  BY DEF Interrupted
<1>1. /\ Record(over)
      /\ over.status = [g \in Goals |-> IF g \in dying THEN "Cancelled"
                                        ELSE IF g \in G \ again THEN "Blocked" ELSE x.status[g]]
      /\ over.slots = [a \in Agents |-> IF x.slots[a].goal \in G THEN NoSlot ELSE x.slots[a]]
      /\ over.live = x.live \ dying
      /\ over.runs = [g \in Goals |-> [k \in Attempts(x, g) |->
                        IF g \in G /\ x.runs[g][k].state \in Holding
                        THEN stopped(x.runs[g][k]) ELSE x.runs[g][k]]]
      /\ over.outbox = {e \in x.outbox : \/ e.goal \notin G
                                         \/ e.kind = "Cancel" /\ e.goal \notin dying}
      /\ over.generations = x.generations /\ over.claims = x.claims
      /\ over.epoch = x.epoch /\ over.edges = x.edges
  BY DEF Typed, Record, Fields, Attempts
<1> HIDE DEF over, stopped
<1>2. G \subseteq Goals
  BY DEF SlotGoals, Typed, Slot
<1>3. Range(order) = again
  <2>1. IsFiniteSet(again)
    BY <1>2, CoordinatorAssumption, FS_Subset
  <2> HIDE DEF again
  <2> QED BY <1>0, <2>1, OrderHasAll
<1>4. /\ Record(y)
      /\ y.slots = over.slots /\ y.live = over.live /\ y.runs = over.runs
      /\ y.outbox = over.outbox /\ y.generations = x.generations /\ y.claims = x.claims
      /\ y.epoch = x.epoch /\ y.edges = x.edges
      /\ y.status = [g \in Goals |-> IF g \in again THEN "Queued" ELSE over.status[g]]
  BY <1>0, <1>1, <1>3 DEF RequeueAll, Record, Fields
<1>5. ASSUME NEW g \in Goals
      PROVE  /\ g \in G <=> Target[g] \in S /\ x.slots[Target[g]].goal = g
             /\ g \in G => /\ HolderOf(x, g) # {}
                           /\ x.status[g] \in {"Active", "Cancelling"}
             /\ g \notin G /\ Target[g] \in S => HolderOf(x, g) = {}
  <2>1. ASSUME g \in G
        PROVE  Target[g] \in S /\ x.slots[Target[g]].goal = g /\ HolderOf(x, g) # {}
    <3> PICK a \in S : x.slots[a].goal = g
      BY <2>1 DEF SlotGoals
    <3>1. Target[g] = a /\ x.slots[a].attempt \in HolderOf(x, g)
      BY DEF Agrees, SlotsAgree
    <3> QED BY <3>1
  <2>2. ASSUME Target[g] \in S, x.slots[Target[g]].goal = g PROVE g \in G
    BY <2>2 DEF SlotGoals
  <2>3. ASSUME HolderOf(x, g) # {} PROVE x.slots[Target[g]].goal = g
    BY <2>3, SlotOf
  <2>4. HolderOf(x, g) # {} => x.status[g] \in {"Active", "Cancelling"}
    BY DEF Agrees, GoalAgrees
  <2> QED BY <2>1, <2>2, <2>3, <2>4
<1>6. \A a \in Agents : x.slots[a].goal \in G <=> a \in S
  <2> SUFFICES ASSUME NEW a \in Agents PROVE x.slots[a].goal \in G <=> a \in S
    OBVIOUS
  <2>1. ASSUME a \in S PROVE x.slots[a].goal \in G
    BY <2>1 DEF SlotGoals
  <2>2. ASSUME x.slots[a].goal \in G PROVE a \in S
    <3>1. x.slots[a] # NoSlot
      BY <1>2, <2>2, CoordinatorAssumption DEF NoSlot
    <3>2. Target[x.slots[a].goal] = a
      BY <3>1 DEF Agrees, SlotsAgree
    <3>3. Target[x.slots[a].goal] \in S
      BY <1>2, <1>5, <2>2
    <3> QED BY <3>2, <3>3
  <2> QED BY <2>1, <2>2
<1>7. S \in SUBSET Agents
  OBVIOUS
<1>8. dying \subseteq G /\ again \subseteq G /\ dying \cap again = {}
  OBVIOUS
<1>9. \A g \in dying : x.status[g] = "Cancelling"
  OBVIOUS
<1>10. ASSUME NEW g \in Goals
       PROVE  /\ g \in dying => y.status[g] = "Cancelled"
              /\ g \in G \ dying => y.status[g] \in {"Queued", "Blocked"}
              /\ g \notin G => y.status[g] = x.status[g]
  BY <1>1, <1>4, <1>8
<1>11. y.slots = [a \in Agents |-> IF a \in S THEN NoSlot ELSE x.slots[a]]
  BY <1>1, <1>4, <1>6
<1>12. y.live = x.live \ dying /\ y.runs = over.runs
       /\ y.outbox = {e \in x.outbox : e.goal \notin G \/ (e.kind = "Cancel" /\ e.goal \notin dying)}
       /\ y.generations = x.generations /\ y.claims = x.claims
       /\ y.epoch = x.epoch /\ y.edges = x.edges
  BY <1>1, <1>4
<1>13. y.status \in [Goals -> Statuses]
  BY <1>1, <1>4 DEF Typed, Statuses, Ended
<1>14. \A g \in G : g \in dying <=> x.status[g] = "Cancelling"
  OBVIOUS
<1> HIDE DEF G, S, dying, again
<1>15. ASSUME NEW r \in Run
       PROVE  stopped(r) \in Run /\ stopped(r).state = "Interrupted"
  BY DEF Run, RunOver, stopped
<1>16. \A g \in Goals : \A k \in Attempts(x, g) : x.runs[g][k] \in Run
  BY DEF Typed, Attempts
<1>17. ASSUME NEW g \in Goals
       PROVE  /\ y.runs[g] = [k \in Attempts(x, g) |-> y.runs[g][k]]
              /\ \A k \in Attempts(x, g) :
                   y.runs[g][k] = IF g \in G /\ x.runs[g][k].state \in Holding
                                  THEN stopped(x.runs[g][k]) ELSE x.runs[g][k]
  BY <1>1, <1>12
<1>18. /\ y.runs \in [Goals -> Seq(Run)]
       /\ \A g \in Goals : Attempts(y, g) = Attempts(x, g) /\ Len(y.runs[g]) = Len(x.runs[g])
  <2>1. x.runs \in [Goals -> Seq(Run)]
    BY DEF Typed
  <2>2. ASSUME NEW g \in Goals, NEW k \in Attempts(x, g) PROVE y.runs[g][k] \in Run
    <3>1. x.runs[g][k] \in Run /\ stopped(x.runs[g][k]) \in Run
      BY <1>15, <1>16
    <3>2. y.runs[g][k] \in {stopped(x.runs[g][k]), x.runs[g][k]}
      BY <1>17
    <3> QED BY ONLY <3>1, <3>2
  <2>3. y.runs = [g \in Goals |-> y.runs[g]]
    BY <1>1, <1>12
  <2>4. \A g \in Goals : /\ y.runs[g] = [k \in Attempts(x, g) |-> y.runs[g][k]]
                         /\ \A k \in Attempts(x, g) : y.runs[g][k] \in Run
    BY <1>17, <2>2
  <2> QED BY <2>1, <2>3, <2>4, EveryRun
<1>19. ASSUME NEW g \in Goals, NEW k \in Attempts(x, g)
       PROVE  IF g \in G /\ x.runs[g][k].state \in Holding
              THEN y.runs[g][k].state = "Interrupted" ELSE y.runs[g][k] = x.runs[g][k]
  <2>1. x.runs[g][k] \in Run
    BY <1>16
  <2> QED BY <1>15, <1>17, <2>1
<1>20. Typed(y)
  <2>1. y.slots \in [Agents -> Slot]
    BY <1>11 DEF Typed, Slot
  <2>2. y.live \in SUBSET Goals /\ y.outbox \in Outbox
    BY <1>12 DEF Typed, Outbox
  <2> QED BY <1>4, <1>12, <1>13, <1>18, <2>1, <2>2 DEF Typed
<1>21. Becomes(x, y, S)
  <2>1. G \in SUBSET Goals /\ dying \in SUBSET G
    BY <1>2, <1>8
  <2>2. /\ \A g \in G : Target[g] \in S /\ HolderOf(x, g) # {}
        /\ \A g \in Goals \ G : Target[g] \in S => HolderOf(x, g) = {}
    BY <1>5, <2>1
  <2>3. /\ \A g \in dying : y.status[g] = "Cancelled"
        /\ \A g \in G \ dying : y.status[g] \in {"Queued", "Blocked"}
        /\ \A g \in Goals \ G : y.status[g] = x.status[g]
    BY <1>10, <2>1
  <2>4. \A g \in Goals :
            /\ Attempts(y, g) = Attempts(x, g) /\ Len(y.runs[g]) = Len(x.runs[g])
            /\ \A k \in Attempts(x, g) :
                 IF g \in G /\ x.runs[g][k].state \in Holding
                 THEN y.runs[g][k].state = "Interrupted" ELSE y.runs[g][k] = x.runs[g][k]
    BY <1>18, <1>19
  <2> QED BY <1>6, <1>7, <1>11, <1>12, <1>14, <1>20, <2>1, <2>2, <2>3, <2>4, SlotsTaken
<1> QED BY <1>21 DEF S
\* An agent whose slot is free has no run.
LEMMA FreeAgent ==
  ASSUME NEW x, Agrees(x), NEW a \in Agents, x.slots[a] = NoSlot
  PROVE  /\ \A g \in Goals : Target[g] = a => HolderOf(x, g) = {}
         /\ LeasesOf(x)[a] = {}
<1>1. \A g \in Goals : Target[g] = a => HolderOf(x, g) = {}
  BY SlotOf
<1>2. \A g \in {h \in Goals : Target[h] = a} : {x.runs[g][k].generation : k \in HolderOf(x, g)} = {}
  BY <1>1
<1> QED BY <1>1, <1>2 DEF LeasesOf

\* x turns into y, which agrees, while agent a gets a lease under a new token.
Grants(x, y, a) ==
  /\ Typed(y) /\ Agrees(y) /\ Kept(x, y) /\ y.epoch = x.epoch /\ y.claims = x.claims
  /\ x.claims[a] = Nobody /\ LeasesOf(x)[a] = {}
  /\ y.generations = [x.generations EXCEPT ![a] = @ + 1]
  /\ LeasesOf(y) = [LeasesOf(x) EXCEPT ![a] = {x.generations[a] + 1}]

\* What an activation changes.
LEMMA ActivatedEffect ==
  ASSUME NEW x, Typed(x), NEW g \in Goals
  PROVE  LET y   == Activated(x, g)
             a   == Target[g]
             gen == x.generations[a] + 1
             k   == Len(x.runs[g]) + 1
         IN /\ Typed(y) /\ y.live = x.live /\ y.claims = x.claims
            /\ y.edges = x.edges /\ y.epoch = x.epoch
            /\ y.status = [x.status EXCEPT ![g] = "Active"]
            /\ y.generations = [x.generations EXCEPT ![a] = @ + 1]
            /\ y.slots = [x.slots EXCEPT ![a] = [goal |-> g, attempt |-> k, generation |-> gen]]
            /\ y.outbox = x.outbox \cup {Entry("Dispatch", g, k)}
            /\ \A h \in Goals \ {g} : y.runs[h] = x.runs[h]
            /\ Attempts(y, g) = Attempts(x, g) \cup {k} /\ Len(y.runs[g]) = k /\ k \notin Attempts(x, g)
            /\ \A j \in Attempts(x, g) : y.runs[g][j] = x.runs[g][j]
            /\ y.runs[g][k].state = "Open" /\ y.runs[g][k].generation = gen
<1> DEFINE y   == Activated(x, g)
           a   == Target[g]
           gen == x.generations[a] + 1
           k   == Len(x.runs[g]) + 1
           r   == [state |-> "Open", generation |-> gen, outcome |-> "none", wait |-> "none"]
           s   == [goal |-> g, attempt |-> k, generation |-> gen]
<1>1. /\ Record(y) /\ y.live = x.live /\ y.claims = x.claims
      /\ y.edges = x.edges /\ y.epoch = x.epoch
      /\ y.status = [x.status EXCEPT ![g] = "Active"]
      /\ y.generations = [x.generations EXCEPT ![a] = gen]
      /\ y.slots = [x.slots EXCEPT ![a] = s]
      /\ y.outbox = x.outbox \cup {Entry("Dispatch", g, k)}
      /\ y.runs = [x.runs EXCEPT ![g] = Append(@, r)]
  <2> DEFINE z == DropQueue(x, g)
  <2>1. /\ Record(z) /\ z.live = x.live /\ z.claims = x.claims
        /\ z.edges = x.edges /\ z.epoch = x.epoch /\ z.status = x.status
        /\ z.generations = x.generations /\ z.slots = x.slots
        /\ z.outbox = x.outbox /\ z.runs = x.runs
    BY DEF DropQueue, Typed, Record, Fields
  <2> QED BY <2>1, ZenonT(40) DEF Activated, Record, Fields
<1> HIDE DEF y
<1>2. /\ a \in Agents /\ gen \in Nat /\ x.runs \in [Goals -> Seq(Run)] /\ x.runs[g] \in Seq(Run)
      /\ Len(x.runs[g]) \in Nat /\ k \in Nat
  BY CoordinatorAssumption DEF Typed
<1>3. r \in Run /\ r.state = "Open" /\ r.generation = gen
  BY <1>2 DEF Run, Holding, WaitReason
<1>4. s \in Slot
  BY <1>2 DEF Slot
<1> HIDE DEF r, s
<1>5. /\ Append(x.runs[g], r) \in Seq(Run) /\ Len(Append(x.runs[g], r)) = k
      /\ DOMAIN Append(x.runs[g], r) = DOMAIN x.runs[g] \cup {k} /\ k \notin DOMAIN x.runs[g]
      /\ \A j \in DOMAIN x.runs[g] : Append(x.runs[g], r)[j] = x.runs[g][j]
      /\ Append(x.runs[g], r)[k] = r
  <2>1. DOMAIN x.runs[g] = 1..Len(x.runs[g]) /\ DOMAIN Append(x.runs[g], r) = 1..k
    BY <1>2, <1>3
  <2> QED BY <1>2, <1>3, <2>1
<1>6. /\ y.runs \in [Goals -> Seq(Run)] /\ y.runs[g] = Append(x.runs[g], r)
      /\ \A h \in Goals \ {g} : y.runs[h] = x.runs[h]
  BY <1>1, <1>2, <1>5
<1>7. Typed(y)
  <2>1. y.status \in [Goals -> Statuses] /\ y.generations \in [Agents -> Nat]
    BY <1>1, <1>2 DEF Typed, Statuses
  <2>2. y.slots \in [Agents -> Slot]
    BY <1>1, <1>4 DEF Typed
  <2>3. y.outbox \in Outbox
    BY <1>1, <1>2 DEF Typed, Outbox, Entry
  <2> QED BY <1>1, <1>6, <2>1, <2>2, <2>3 DEF Typed
<1>8. /\ Attempts(y, g) = Attempts(x, g) \cup {k} /\ Len(y.runs[g]) = k /\ k \notin Attempts(x, g)
      /\ \A j \in Attempts(x, g) : y.runs[g][j] = x.runs[g][j]
      /\ y.runs[g][k].state = "Open" /\ y.runs[g][k].generation = gen
  BY <1>3, <1>5, <1>6 DEF Attempts
<1> QED BY <1>1, <1>6, <1>7, <1>8 DEF y, s

\* An activation leases a free agent under a new token.
LEMMA ActivateGrants ==
  ASSUME NEW x, Typed(x), Agrees(x), NEW g \in Goals, CanActivate(x, g)
  PROVE  Grants(x, Activated(x, g), Target[g])
<1> DEFINE y   == Activated(x, g)
           a   == Target[g]
           gen == x.generations[a] + 1
           k   == Len(x.runs[g]) + 1
<1>1. /\ Typed(y) /\ y.live = x.live /\ y.claims = x.claims
      /\ y.edges = x.edges /\ y.epoch = x.epoch
      /\ y.status = [x.status EXCEPT ![g] = "Active"]
      /\ y.generations = [x.generations EXCEPT ![a] = @ + 1]
      /\ y.slots = [x.slots EXCEPT ![a] = [goal |-> g, attempt |-> k, generation |-> gen]]
      /\ y.outbox = x.outbox \cup {Entry("Dispatch", g, k)}
      /\ \A h \in Goals \ {g} : y.runs[h] = x.runs[h]
      /\ Attempts(y, g) = Attempts(x, g) \cup {k} /\ Len(y.runs[g]) = k /\ k \notin Attempts(x, g)
      /\ \A j \in Attempts(x, g) : y.runs[g][j] = x.runs[g][j]
      /\ y.runs[g][k].state = "Open" /\ y.runs[g][k].generation = gen
  BY ActivatedEffect
<1> HIDE DEF y
<1>2. /\ a \in Agents /\ g \in x.live /\ x.slots[a] = NoSlot /\ x.claims[a] = Nobody
      /\ ~VerificationHold(x, a) /\ x.status[g] \in {"Queued", "Waiting", "Blocked"}
  BY CoordinatorAssumption DEF CanActivate, Idle
<1>3. /\ \A h \in Goals : Target[h] = a => HolderOf(x, h) = {}
      /\ LeasesOf(x)[a] = {}
  BY <1>2, FreeAgent
<1>4. /\ HolderOf(y, g) = {k}
      /\ \A h \in Goals \ {g} : HolderOf(y, h) = HolderOf(x, h)
  <2>1. \A h \in Goals \ {g} : HolderOf(y, h) = HolderOf(x, h)
    BY <1>1 DEF HolderOf, Attempts
  <2>2. HolderOf(x, g) = {}
    BY <1>3
  <2> QED BY <1>1, <2>1, <2>2 DEF HolderOf, Holding
<1>5. /\ y.slots[a] = [goal |-> g, attempt |-> k, generation |-> gen]
      /\ \A b \in Agents \ {a} : y.slots[b] = x.slots[b] /\ y.generations[b] = x.generations[b]
      /\ y.generations[a] = gen
      /\ y.status[g] = "Active" /\ \A h \in Goals \ {g} : y.status[h] = x.status[h]
  BY <1>1, <1>2 DEF Typed
<1>6. SlotsAgree(y)
  <2>1. ASSUME NEW h \in Goals, NEW j \in HolderOf(y, h)
        PROVE  y.slots[Target[h]] = [goal |-> h, attempt |-> j, generation |-> y.runs[h][j].generation]
    <3>1. CASE h = g
      BY <1>1, <1>4, <1>5, <3>1
    <3>2. CASE h # g
      <4>1. j \in HolderOf(x, h) /\ Target[h] \in Agents \ {a} /\ y.runs[h] = x.runs[h]
        BY <1>1, <1>3, <1>4, <3>2, CoordinatorAssumption
      <4> QED BY <1>5, <4>1 DEF Agrees, SlotsAgree
    <3> QED BY <3>1, <3>2
  <2>2. ASSUME NEW b \in Agents, y.slots[b] # NoSlot
        PROVE  /\ y.slots[b].attempt \in HolderOf(y, y.slots[b].goal)
               /\ Target[y.slots[b].goal] = b
               /\ y.slots[b].generation = y.generations[b]
               /\ y.claims[b] = Nobody
    <3>1. CASE b = a
      BY <1>1, <1>2, <1>4, <1>5, <3>1
    <3>2. CASE b # a
      <4>1. y.slots[b] = x.slots[b] /\ y.generations[b] = x.generations[b]
        BY <1>5, <3>2
      <4>2. x.slots[b].goal \in Goals
        BY <2>2, <4>1 DEF Typed, Slot
      <4>3. /\ x.slots[b].attempt \in HolderOf(x, x.slots[b].goal)
            /\ Target[x.slots[b].goal] = b
            /\ x.slots[b].generation = x.generations[b]
            /\ x.claims[b] = Nobody
        BY <2>2, <4>1 DEF Agrees, SlotsAgree
      <4> QED BY <1>1, <1>4, <3>2, <4>1, <4>2, <4>3
    <3> QED BY <3>1, <3>2
  <2> QED BY <2>1, <2>2 DEF SlotsAgree
<1>7. ASSUME NEW h \in Goals PROVE GoalAgrees(y, h)
  <2>1. CASE h = g
    BY <1>1, <1>4, <1>5, <2>1 DEF GoalAgrees
  <2>2. CASE h # g
    <3>1. GoalAgrees(x, h)
      BY DEF Agrees
    <3>2. /\ HolderOf(y, h) = HolderOf(x, h) /\ y.runs[h] = x.runs[h] /\ y.status[h] = x.status[h]
          /\ Attempts(y, h) = Attempts(x, h) /\ Target[h] \in Agents
      BY <1>1, <1>4, <1>5, <2>2, CoordinatorAssumption DEF Attempts
    <3>3. ASSUME x.status[h] = "Waiting", x.runs[h][Len(x.runs[h])].wait = "verification"
          PROVE  Target[h] # a
      BY <1>2, <3>1, <3>3 DEF GoalAgrees, VerificationHold
    <3> QED BY <1>5, <3>1, <3>2, <3>3 DEF GoalAgrees
  <2> QED BY <2>1, <2>2
<1>8. OutboxAgrees(y)
  <2> SUFFICES ASSUME NEW e \in y.outbox
               PROVE  /\ e.attempt \in Attempts(y, e.goal)
                      /\ y.runs[e.goal][e.attempt].state
                           = IF e.kind = "Dispatch" THEN "Open" ELSE "CancelRequested"
    BY DEF OutboxAgrees
  <2>1. CASE e = Entry("Dispatch", g, k)
    BY <1>1, <2>1 DEF Entry
  <2>2. CASE e \in x.outbox
    <3>1. /\ e.goal \in Goals /\ e.attempt \in Attempts(x, e.goal)
          /\ x.runs[e.goal][e.attempt].state
               = IF e.kind = "Dispatch" THEN "Open" ELSE "CancelRequested"
      BY <2>2 DEF Typed, Outbox, Agrees, OutboxAgrees
    <3>2. CASE e.goal = g
      BY <1>1, <3>1, <3>2
    <3>3. CASE e.goal # g
      <4>1. y.runs[e.goal] = x.runs[e.goal]
        BY <1>1, <3>1, <3>3
      <4> QED BY <3>1, <4>1 DEF Attempts
    <3> QED BY <3>2, <3>3
  <2> QED BY <1>1, <2>1, <2>2
<1>9. InPlay(y) /\ NoCycle(y)
  <2>1. InPlay(y)
    BY <1>1, <1>2, <1>5 DEF Agrees, InPlay, Ended
  <2>2. NoCycle(y)
    BY <1>1 DEF Agrees, NoCycle, Children
  <2> QED BY <2>1, <2>2
<1>10. Kept(x, y)
  <2>1. ASSUME NEW h \in Goals
        PROVE  /\ x.status[h] \in Ended => y.status[h] = x.status[h]
               /\ \A j \in Attempts(x, h) :
                    /\ j \in Attempts(y, h)
                    /\ x.runs[h][j].state \in RunOver => y.runs[h][j] = x.runs[h][j]
    <3>1. x.status[h] \in Ended => y.status[h] = x.status[h]
      BY <1>2, <1>5 DEF Ended
    <3>2. CASE h = g
      BY <1>1, <3>1, <3>2
    <3>3. CASE h # g
      BY <1>1, <3>1, <3>3 DEF Attempts
    <3> QED BY <3>2, <3>3
  <2> QED BY <1>1, <2>1 DEF Kept
<1>11. LeasesOf(y) = [LeasesOf(x) EXCEPT ![a] = {gen}]
  <2>1. LeasesOf(y)[a] = {gen}
    <3>1. /\ g \in {h \in Goals : Target[h] = a}
          /\ {y.runs[g][j].generation : j \in HolderOf(y, g)} = {gen}
      <4>1. HolderOf(y, g) = {k} /\ y.runs[g][k].generation = gen
        BY <1>1, <1>4
      <4> HIDE DEF k, gen
      <4> QED BY <4>1
    <3>2. \A h \in {i \in Goals : Target[i] = a} :
            h # g => {y.runs[h][j].generation : j \in HolderOf(y, h)} = {}
      BY <1>3, <1>4
    <3>3. LeasesOf(y)[a] = UNION {{y.runs[h][j].generation : j \in HolderOf(y, h)}
                                  : h \in {i \in Goals : Target[i] = a}}
      BY <1>2 DEF LeasesOf
    <3> DEFINE T(h) == {y.runs[h][j].generation : j \in HolderOf(y, h)}
               G    == {i \in Goals : Target[i] = a}
    <3>4. /\ g \in G /\ T(g) = {gen} /\ LeasesOf(y)[a] = UNION {T(h) : h \in G}
          /\ \A h \in G : h # g => T(h) = {}
      BY <3>1, <3>2, <3>3
    <3> HIDE DEF T, G, a, gen
    <3> QED BY <3>4
  <2>2. ASSUME NEW b \in Agents, b # a PROVE LeasesOf(y)[b] = LeasesOf(x)[b]
    <3>1. \A h \in {i \in Goals : Target[i] = b} :
            HolderOf(y, h) = HolderOf(x, h) /\ y.runs[h] = x.runs[h]
      BY <1>1, <1>4, <2>2
    <3> QED BY <3>1 DEF LeasesOf
  <2>3. /\ LeasesOf(x) = [b \in Agents |-> LeasesOf(x)[b]]
        /\ LeasesOf(y) = [b \in Agents |-> LeasesOf(y)[b]]
    BY DEF LeasesOf
  <2> QED BY <1>2, <2>1, <2>2, <2>3
<1> QED BY <1>1, <1>2, <1>3, <1>6, <1>7, <1>8, <1>9, <1>10, <1>11 DEF Grants, Agrees, y

-----------------------------------------------------------------------------
(* The steps that leave goals and runs alone.                              *)

\* Claims and the epoch have no part in what else agrees.
LEMMA SameWork ==
  ASSUME NEW x, NEW y, Agrees(x),
         y.slots = x.slots, y.generations = x.generations, y.status = x.status,
         y.runs = x.runs, y.live = x.live, y.edges = x.edges, y.outbox = x.outbox,
         \A a \in Agents : y.slots[a] # NoSlot => y.claims[a] = Nobody
  PROVE  Agrees(y) /\ Kept(x, y) /\ LeasesOf(y) = LeasesOf(x)
<1>1. \A g \in Goals : HolderOf(y, g) = HolderOf(x, g) /\ Attempts(y, g) = Attempts(x, g)
  BY DEF HolderOf, Attempts
<1>2. SlotsAgree(y)
  <2>1. ASSUME NEW a \in Agents, y.slots[a] # NoSlot
        PROVE  /\ y.slots[a].attempt \in HolderOf(y, y.slots[a].goal)
               /\ Target[y.slots[a].goal] = a
               /\ y.slots[a].generation = y.generations[a]
               /\ y.claims[a] = Nobody
    <3>1. /\ x.slots[a].attempt \in HolderOf(x, x.slots[a].goal)
          /\ Target[x.slots[a].goal] = a
          /\ x.slots[a].generation = x.generations[a]
      BY <2>1 DEF Agrees, SlotsAgree
    <3> QED BY <2>1, <3>1 DEF HolderOf, Attempts
  <2>2. \A g \in Goals : \A k \in HolderOf(y, g) :
          y.slots[Target[g]] = [goal |-> g, attempt |-> k, generation |-> y.runs[g][k].generation]
    BY <1>1 DEF Agrees, SlotsAgree
  <2> QED BY <2>1, <2>2 DEF SlotsAgree
<1>3. \A g \in Goals : GoalAgrees(y, g)
  BY <1>1 DEF Agrees, GoalAgrees
<1>4. OutboxAgrees(y)
  BY DEF Agrees, OutboxAgrees, Attempts
<1>5. InPlay(y) /\ NoCycle(y)
  BY DEF Agrees, InPlay, NoCycle, Children
<1>6. Kept(x, y)
  BY <1>1 DEF Kept
<1>7. LeasesOf(y) = LeasesOf(x)
  BY DEF LeasesOf, HolderOf, Attempts
<1> QED BY <1>2, <1>3, <1>4, <1>5, <1>6, <1>7 DEF Agrees

\* x turns into y, which agrees, while no lease changes but claims may.
Claims(x, y) ==
  /\ Typed(y) /\ Agrees(y) /\ Kept(x, y) /\ y.epoch = x.epoch
  /\ y.generations = x.generations /\ LeasesOf(y) = LeasesOf(x)

\* A claim made of a free agent, or given up.
LEMMA ClaimsMove ==
  ASSUME Typed(c), Agrees(c), NEW a \in Agents, NEW v \in Holders \cup {Nobody},
         c.slots[a] = NoSlot \/ v = Nobody
  PROVE  LET y == [c EXCEPT !.claims[a] = v]
         IN Claims(c, y) /\ y.claims = [c.claims EXCEPT ![a] = v]
<1> DEFINE y == [c EXCEPT !.claims[a] = v]
<1>1. /\ Record(y) /\ y.claims = [c.claims EXCEPT ![a] = v] /\ y.epoch = c.epoch
      /\ y.slots = c.slots /\ y.generations = c.generations /\ y.status = c.status
      /\ y.runs = c.runs /\ y.live = c.live /\ y.edges = c.edges /\ y.outbox = c.outbox
  BY DEF Typed, Record, Fields
<1> HIDE DEF y
<1>2. Typed(y)
  BY <1>1 DEF Typed
<1>3. \A b \in Agents : y.slots[b] # NoSlot => y.claims[b] = Nobody
  BY <1>1 DEF Typed, Agrees, SlotsAgree
<1>4. Claims(c, y)
  BY <1>1, <1>2, <1>3, SameWork DEF Claims
<1> QED BY <1>1, <1>4 DEF y

\* A restart fences every run of the old daemon and numbers the new one.
LEMMA ReconcileMoves ==
  ASSUME Typed(c), Agrees(c), Reconcile
  PROVE  /\ Typed(c') /\ Agrees(c') /\ Kept(c, c') /\ c'.epoch = c.epoch + 1
         /\ LeasesOf(c') = [a \in Agents |-> {}]
         /\ c'.generations = c.generations /\ c'.claims = c.claims
<1> DEFINE S == {a \in Agents : c.slots[a] # NoSlot}
<1>1. PICK x \in Interrupted(c, SlotGoals(c, Agents)) : c' = [x EXCEPT !.epoch = @ + 1]
  BY DEF Reconcile
<1>2. Becomes(c, x, S)
  BY InterruptedBecomes
<1>3. /\ Typed(x) /\ Agrees(x) /\ Kept(c, x) /\ x.epoch = c.epoch
      /\ x.generations = c.generations /\ x.claims = c.claims
      /\ LeasesOf(x) = [a \in Agents |-> IF a \in S THEN {} ELSE LeasesOf(c)[a]]
  BY <1>2 DEF Becomes, Lost
<1> DEFINE y == [x EXCEPT !.epoch = @ + 1]
<1>4. /\ Record(y) /\ y.claims = x.claims /\ y.epoch = x.epoch + 1
      /\ y.slots = x.slots /\ y.generations = x.generations /\ y.status = x.status
      /\ y.runs = x.runs /\ y.live = x.live /\ y.edges = x.edges /\ y.outbox = x.outbox
  BY <1>3 DEF Typed, Record, Fields
<1>5. c' = y
  BY <1>1
<1> HIDE DEF y
<1>6. Typed(y)
  BY <1>3, <1>4 DEF Typed
<1>7. Agrees(y) /\ Kept(x, y) /\ LeasesOf(y) = LeasesOf(x)
  <2>1. \A a \in Agents : y.slots[a] # NoSlot => y.claims[a] = Nobody
    BY <1>3, <1>4 DEF Agrees, SlotsAgree
  <2> QED BY <1>3, <1>4, <2>1, SameWork
<1>8. Kept(c, y)
  <2>1. y.status = x.status /\ y.runs = x.runs /\ y.edges = x.edges
    BY <1>4
  <2> QED BY <1>3, <2>1 DEF Kept, Attempts
<1>9. LeasesOf(y) = [a \in Agents |-> {}]
  <2>1. \A a \in Agents : a \notin S => LeasesOf(c)[a] = {}
    BY FreeAgent
  <2> HIDE DEF S
  <2> QED BY <1>3, <1>7, <2>1
<1> QED BY <1>3, <1>4, <1>5, <1>6, <1>7, <1>8, <1>9

-----------------------------------------------------------------------------
(* Every step, and the abstract step it is.                                *)

Claimants(x) == {a \in Agents : x.claims[a] # Nobody}

\* What a step does to the slots: the abstract step of AgentLeases.
StepKind(x, y) ==
  \/ \E S \in SUBSET Agents : Becomes(x, y, S)
  \/ \E a \in Agents : Grants(x, y, a)
  \/ \E a \in Agents, h \in Holders :
       /\ x.slots[a] = NoSlot /\ x.claims[a] = Nobody
       /\ Claims(x, y) /\ y.claims = [x.claims EXCEPT ![a] = h]
  \/ \E a \in Agents :
       /\ x.claims[a] # Nobody
       /\ Claims(x, y) /\ y.claims = [x.claims EXCEPT ![a] = Nobody]
  \/ /\ Typed(y) /\ Agrees(y) /\ Kept(x, y) /\ y.epoch = x.epoch + 1
     /\ LeasesOf(y) = [a \in Agents |-> {}]
     /\ y.generations = x.generations /\ y.claims = x.claims

\* Every operation on a run at most revokes leases.
LEMMA RunStepKind ==
  ASSUME Typed(c), Agrees(c), NEW g \in Goals, RunStep(g)
  PROVE  StepKind(c, c')
<1>1. PICK k \in Attempts(c, g) :
         \/ Yield(g, k) \/ SubmitCandidate(g, k)
         \/ \E h \in Goals : EnqueueChild(h, g, k)
         \/ \E outcome \in {"approved", "other"} : CompleteSuccess(g, k, outcome)
         \/ \E retry \in BOOLEAN : CompleteFailure(g, k, retry)
         \/ Rollback(g, k) \/ SettleCancel(g, k)
  BY DEF RunStep
<1>2. Target[g] \in Agents
  BY CoordinatorAssumption
<1> SUFFICES \E S \in SUBSET Agents : Becomes(c, c', S)
  BY DEF StepKind
<1>3. CASE Yield(g, k)
  <2>1. c.runs[g][k].state = "Open" /\ c' = Yielded(c, g, k, "other")
    BY <1>3 DEF Yield, CanYield
  <2>2. Becomes(c, Yielded(c, g, k, "other"), {Target[g]})
    BY <2>1, YieldedBecomes DEF WaitReason
  <2> QED BY <1>2, <2>1, <2>2
<1>4. CASE SubmitCandidate(g, k)
  <2>1. c.runs[g][k].state = "Open" /\ c' = Yielded(c, g, k, "verification")
    BY <1>4 DEF SubmitCandidate, CanYield
  <2>2. Becomes(c, Yielded(c, g, k, "verification"), {Target[g]})
    BY <2>1, YieldedBecomes DEF WaitReason
  <2> QED BY <1>2, <2>1, <2>2
<1>5. CASE \E h \in Goals : EnqueueChild(h, g, k)
  BY <1>2, <1>5, EnqueueChildBecomes
<1>6. CASE \E outcome \in {"approved", "other"} : CompleteSuccess(g, k, outcome)
  BY <1>6, SuccessBecomes
<1>7. CASE \E retry \in BOOLEAN : CompleteFailure(g, k, retry)
  BY <1>7, FailureBecomes
<1>8. CASE Rollback(g, k)
  BY <1>2, <1>8, RollbackBecomes
<1>9. CASE SettleCancel(g, k)
  BY <1>2, <1>9, SettleCancelBecomes
<1> QED BY <1>1, <1>3, <1>4, <1>5, <1>6, <1>7, <1>8, <1>9

\* Every activation grants one.
LEMMA ActivateKind ==
  ASSUME Typed(c), Agrees(c), NEW g \in Goals, Activate(g)
  PROVE  StepKind(c, c')
<1>1. Target[g] \in Agents
  BY CoordinatorAssumption
<1>2. CanActivate(c, g) /\ c' = Activated(c, g)
  BY DEF Activate
<1>3. Grants(c, Activated(c, g), Target[g])
  BY <1>2, ActivateGrants
<1> QED BY <1>1, <1>2, <1>3 DEF StepKind

\* Every operation on a goal is an abstract step.
LEMMA GoalStepKind ==
  ASSUME Typed(c), Agrees(c), NEW g \in Goals, GoalStep(g)
  PROVE  StepKind(c, c')
<1>1. CASE Register(g)
  BY <1>1, RegisterBecomes DEF StepKind
<1>2. CASE \E W \in SUBSET {h \in Goals : <<g, h>> \in Pairs} : Enqueue(g, W)
  BY <1>2, EnqueueBecomes DEF StepKind
<1>3. CASE Activate(g)
  BY <1>3, ActivateKind
<1>4. CASE \E policy \in {"Cancel", "Detach", "Wait"} : Cancel(g, policy)
  BY <1>4, CancelBecomes DEF StepKind
<1>5. CASE Approve(g)
  <2> DEFINE y == [c EXCEPT !.approved = @ \cup {g}]
  <2>1. Only(c, y, {"approved", "outbox"}) /\ y.outbox = c.outbox
    BY DEF Only, Typed, Record, Fields
  <2>2. c' = y
    BY <1>5 DEF Approve
  <2> HIDE DEF y
  <2>3. Becomes(c, y, {})
    BY <2>1, NothingBecomes
  <2> QED BY <2>2, <2>3 DEF StepKind
<1>6. CASE \E h \in Goals, kind \in Kinds : AddDependency(g, h, kind)
  BY <1>6, AddDependencyBecomes DEF StepKind
<1> QED BY <1>1, <1>2, <1>3, <1>4, <1>5, <1>6 DEF GoalStep

\* Every step is an abstract step.
LEMMA NextKind ==
  ASSUME IInv, Next
  PROVE  StepKind(c, c')
<1>1. Typed(c) /\ Agrees(c)
  BY DEF IInv
<1>2. CASE \E g \in Goals : GoalStep(g) \/ RunStep(g)
  BY <1>1, <1>2, GoalStepKind, RunStepKind
<1>3. CASE \E a \in Agents : ActivateNext(a)
  <2>1. PICK g : Activate(g)
    BY <1>3 DEF ActivateNext
  <2>2. CanActivate(c, g)
    BY <2>1 DEF Activate
  <2>3. g \in Goals
    BY <1>1, <2>2 DEF CanActivate, Typed
  <2> QED BY <1>1, <2>1, <2>3, ActivateKind
<1>4. CASE \E a \in Agents, h \in Holders : ClaimOccupancy(a, h)
  <2>1. PICK a \in Agents, h \in Holders : ClaimOccupancy(a, h)
    BY <1>4
  <2>2. /\ c.slots[a] = NoSlot /\ c.claims[a] = Nobody
        /\ c' = [c EXCEPT !.claims[a] = h]
    BY <2>1 DEF ClaimOccupancy, Idle
  <2> DEFINE y == [c EXCEPT !.claims[a] = h]
  <2>3. Claims(c, y) /\ y.claims = [c.claims EXCEPT ![a] = h]
    BY <1>1, <2>2, ClaimsMove
  <2>4. c' = y
    BY <2>2
  <2> HIDE DEF y
  <2>5. c.slots[a] = NoSlot /\ c.claims[a] = Nobody
    BY <2>2
  <2> QED BY <2>3, <2>4, <2>5 DEF StepKind
<1>5. CASE \E a \in Agents, h \in Holders : ReleaseClaim(a, h)
  <2>1. PICK a \in Agents, h \in Holders : ReleaseClaim(a, h)
    BY <1>5
  <2>2. c.claims[a] = h /\ h # Nobody /\ c' = [c EXCEPT !.claims[a] = Nobody]
    BY <2>1, CoordinatorAssumption DEF ReleaseClaim
  <2> DEFINE y == [c EXCEPT !.claims[a] = Nobody]
  <2>3. Claims(c, y) /\ y.claims = [c.claims EXCEPT ![a] = Nobody]
    BY <1>1, ClaimsMove
  <2>4. c' = y /\ c.claims[a] # Nobody
    BY <2>2
  <2> HIDE DEF y
  <2> QED BY <2>3, <2>4 DEF StepKind
<1>6. CASE \E A \in SUBSET Agents : FenceExpired(A)
  <2>1. PICK A \in SUBSET Agents : FenceExpired(A)
    BY <1>6
  <2>2. Becomes(c, c', {a \in A : c.slots[a] # NoSlot})
    BY <1>1, <2>1, InterruptedBecomes DEF FenceExpired
  <2> QED BY <2>2 DEF StepKind
<1>7. CASE Reconcile
  BY <1>1, <1>7, ReconcileMoves DEF StepKind
<1>8. CASE \E e \in c.outbox : AcknowledgeOutbox(e)
  <2>1. PICK e \in c.outbox : AcknowledgeOutbox(e)
    BY <1>8
  <2> DEFINE y == [c EXCEPT !.outbox = @ \ {e}]
  <2>2. Only(c, y, {"approved", "outbox"}) /\ y.outbox \subseteq c.outbox
    BY <1>1 DEF Only, Typed, Record, Fields
  <2>3. c' = y
    BY <2>1 DEF AcknowledgeOutbox
  <2> HIDE DEF y
  <2>4. Becomes(c, y, {})
    BY <1>1, <2>2, NothingBecomes
  <2> QED BY <2>3, <2>4 DEF StepKind
<1> QED BY <1>2, <1>3, <1>4, <1>5, <1>6, <1>7, <1>8 DEF Next

\* Every step is a step of AgentLeases.
LEMMA LeasesMove ==
  ASSUME Typed(c), Agrees(c), StepKind(c, c')
  PROVE  [Leases!Next]_(Leases!vars)
<1>1. /\ c.claims \in [Agents -> Holders \cup {Nobody}] /\ c.generations \in [Agents -> Nat]
  BY DEF Typed
<1>2. CASE \E S \in SUBSET Agents : Becomes(c, c', S)
  <2>1. PICK S \in SUBSET Agents : Becomes(c, c', S)
    BY <1>2
  <2>2. Leases!Revoke(S)
    BY <2>1 DEF Leases!Revoke, Becomes, Lost, LeasesOf
  <2> QED BY <2>2 DEF Leases!Next
<1>3. CASE \E a \in Agents : Grants(c, c', a)
  <2>1. PICK a \in Agents : Grants(c, c', a)
    BY <1>3
  <2>2. Leases!Grant(a)
    BY <2>1 DEF Leases!Grant, Leases!Free, Grants, LeasesOf
  <2> QED BY <2>2 DEF Leases!Next
<1>4. CASE \E a \in Agents, h \in Holders :
             /\ c.slots[a] = NoSlot /\ c.claims[a] = Nobody
             /\ Claims(c, c') /\ c'.claims = [c.claims EXCEPT ![a] = h]
  <2>1. PICK a \in Agents, h \in Holders :
             /\ c.slots[a] = NoSlot /\ c.claims[a] = Nobody
             /\ Claims(c, c') /\ c'.claims = [c.claims EXCEPT ![a] = h]
    BY <1>4
  <2>2. LeasesOf(c)[a] = {}
    BY <2>1, FreeAgent
  <2>3. Claimants(c') = Claimants(c) \cup {a}
    BY <1>1, <2>1, CoordinatorAssumption DEF Claimants
  <2>4. Leases!Reserve(a)
    BY <2>1, <2>2, <2>3 DEF Leases!Reserve, Leases!Free, Claims, Claimants, LeasesOf
  <2> QED BY <2>4 DEF Leases!Next
<1>5. CASE \E a \in Agents :
             /\ c.claims[a] # Nobody
             /\ Claims(c, c') /\ c'.claims = [c.claims EXCEPT ![a] = Nobody]
  <2>1. PICK a \in Agents :
             /\ c.claims[a] # Nobody
             /\ Claims(c, c') /\ c'.claims = [c.claims EXCEPT ![a] = Nobody]
    BY <1>5
  <2>2. Claimants(c') = Claimants(c) \ {a}
    BY <1>1, <2>1 DEF Claimants
  <2>3. Leases!Unreserve(a)
    BY <2>1, <2>2 DEF Leases!Unreserve, Claims, Claimants, LeasesOf
  <2> QED BY <2>3 DEF Leases!Next
<1>6. CASE /\ Typed(c') /\ Agrees(c') /\ Kept(c, c') /\ c'.epoch = c.epoch + 1
           /\ LeasesOf(c') = [a \in Agents |-> {}]
           /\ c'.generations = c.generations /\ c'.claims = c.claims
  <2>1. Leases!Restart
    BY <1>6 DEF Leases!Restart, LeasesOf
  <2> QED BY <2>1 DEF Leases!Next
<1> QED BY <1>2, <1>3, <1>4, <1>5, <1>6 DEF StepKind

\* The initial aggregate agrees and holds no lease.
LEMMA InitAgrees ==
  ASSUME Init
  PROVE  IInv /\ Leases!Init
<1>1. /\ c.status = [g \in Goals |-> "Absent"] /\ c.live = {}
      /\ c.runs = [g \in Goals |-> <<>>] /\ c.slots = [a \in Agents |-> NoSlot]
      /\ c.generations = [a \in Agents |-> 0] /\ c.claims = [a \in Agents |-> Nobody]
      /\ c.edges = [e \in Goals \X Goals |-> NoEdge] /\ c.outbox = {} /\ c.epoch = 0
  BY DEF Init
<1>2. Record(c)
  BY DEF Init, Record, Fields
<1>3. Typed(c)
  <2>1. NoEdge \in Edge /\ NoSlot \in Slot /\ "Absent" \in Statuses /\ <<>> \in Seq(Run)
    BY DEF NoEdge, Edge, Slot, Statuses, DependencyKind
  <2> QED BY <1>1, <1>2, <2>1 DEF Typed, Outbox
<1>4. \A g \in Goals : Attempts(c, g) = {} /\ HolderOf(c, g) = {}
  BY <1>1 DEF Attempts, HolderOf
<1>5. \A p \in Goals : Children(c, p) = {}
  BY <1>1 DEF Children, NoEdge
<1>6. SlotsAgree(c) /\ OutboxAgrees(c)
  BY <1>1, <1>4 DEF SlotsAgree, OutboxAgrees
<1>7. \A g \in Goals : GoalAgrees(c, g)
  BY <1>1, <1>4 DEF GoalAgrees
<1>8. InPlay(c) /\ NoCycle(c)
  BY <1>1, <1>5 DEF InPlay, NoCycle
<1>9. Leases!Init
  <2>1. LeasesOf(c) = [a \in Agents |-> {}]
    BY <1>4 DEF LeasesOf
  <2>2. Claimants(c) = {}
    BY <1>1 DEF Claimants
  <2> QED BY <1>1, <2>1, <2>2 DEF Leases!Init, LeasesOf, Claimants
<1> QED BY <1>3, <1>6, <1>7, <1>8, <1>9 DEF IInv, Agrees

\* The invariant is inductive, and each step is one of AgentLeases.
LEMMA StepAgrees ==
  ASSUME IInv, [Next]_c
  PROVE  IInv' /\ [Leases!Next]_(Leases!vars) /\ (Kept(c, c') \/ UNCHANGED c)
<1>1. CASE Next
  <2>1. StepKind(c, c')
    BY <1>1, NextKind
  <2>2. Typed(c') /\ Agrees(c') /\ Kept(c, c')
    BY <2>1 DEF StepKind, Becomes, Grants, Claims
  <2>3. [Leases!Next]_(Leases!vars)
    BY <2>1, LeasesMove DEF IInv
  <2> QED BY <2>2, <2>3 DEF IInv
<1>2. CASE UNCHANGED c
  <2>1. IInv'
    BY <1>2 DEF IInv
  <2>2. UNCHANGED Leases!vars
    BY <1>2 DEF Leases!vars, HolderOf, Attempts
  <2> QED BY <1>2, <2>1, <2>2
<1> QED BY <1>1, <1>2

-----------------------------------------------------------------------------
(* The theorems.                                                           *)

\* The invariant holds in every history.
LEMMA AlwaysAgrees == Spec => []IInv
<1>1. Init => IInv
  BY InitAgrees
<1>2. IInv /\ [Next]_c => IInv'
  BY StepAgrees
<1> QED BY <1>1, <1>2, PTL DEF Spec

(* Whatever clients, agents, sweeps and restarts do to the coordinator, the *)
(* runs it lets execute are leases of exclusive, fenced agent slots.        *)
THEOREM CoordinatorImplementsLeases == Spec => ImplementsLeases
<1>1. Init => Leases!Init
  BY InitAgrees
<1>2. IInv /\ [Next]_c => [Leases!Next]_(Leases!vars)
  BY StepAgrees
<1> QED BY <1>1, <1>2, AlwaysAgrees, PTL DEF Spec, ImplementsLeases, Leases!Spec

(* In every history, slots and runs agree, with the generation an agent     *)
(* counts and with its claim.                                               *)
THEOREM CheckedSlots == Spec => []SlotsMatchRuns
<1>1. IInv => SlotsMatchRuns
  BY DEF IInv, Agrees, SlotsAgree, SlotsMatchRuns
<1> QED BY <1>1, AlwaysAgrees, PTL

(* In every history, a goal is active or cancelling exactly while a run of  *)
(* it, and one only, holds a slot in that state.                            *)
THEOREM CheckedStatuses == Spec => []StatusMatchesRuns
<1>1. IInv => StatusMatchesRuns
  <2> SUFFICES ASSUME IInv, NEW g \in Goals
               PROVE  LET held == {c.runs[g][k].state : k \in HolderOf(c, g)}
                      IN CASE c.status[g] = "Active"     -> held = {"Open"}
                           [] c.status[g] = "Cancelling" -> held = {"CancelRequested"}
                           [] OTHER                      -> held = {}
    BY DEF StatusMatchesRuns
  <2>1. GoalAgrees(c, g)
    BY DEF IInv, Agrees
  <2>2. \A k \in HolderOf(c, g) : c.runs[g][k].state \in {"Open", "CancelRequested"}
    BY DEF HolderOf, Holding
  <2> QED BY <2>1, <2>2 DEF GoalAgrees
<1> QED BY <1>1, AlwaysAgrees, PTL

(* In every history, the goals in play are those with a live assignment.    *)
THEOREM CheckedAssignments == Spec => []GoalsInPlay
<1>1. IInv => GoalsInPlay
  BY DEF IInv, Agrees, InPlay, GoalsInPlay
<1> QED BY <1>1, AlwaysAgrees, PTL

(* However callers add dependencies while goals end and are retried, no     *)
(* goals wait for one another in a circle.                                  *)
THEOREM NoCircularWait == Spec => []Acyclic
<1>1. IInv => Acyclic
  BY DEF IInv, Agrees, NoCycle, Acyclic
<1> QED BY <1>1, AlwaysAgrees, PTL

(* In every history, the pending outbox asks for nothing out of date.       *)
THEOREM CheckedOutbox == Spec => []OutboxIsCurrent
<1>1. IInv => OutboxIsCurrent
  <2> SUFFICES ASSUME IInv, NEW e \in c.outbox
               PROVE  /\ e.kind = "Dispatch" => c.runs[e.goal][e.attempt].state = "Open"
                      /\ e.kind = "Cancel"   => c.runs[e.goal][e.attempt].state = "CancelRequested"
    BY DEF OutboxIsCurrent
  <2> QED BY DEF IInv, Agrees, OutboxAgrees
<1> QED BY <1>1, AlwaysAgrees, PTL

(* In every history, the agent of a goal that waits for a verdict is idle.  *)
THEOREM CheckedVerification == Spec => []VerificationIsExclusive
<1>1. IInv => VerificationIsExclusive
  BY DEF IInv, Agrees, GoalAgrees, VerificationIsExclusive
<1> QED BY <1>1, AlwaysAgrees, PTL

(* No step rewrites what has ended: a goal's, a run's or an edge's verdict. *)
THEOREM CheckedHistory == Spec => HistoryIsKept
<1> DEFINE Keeps ==
      \A g \in Goals :
        /\ c.status[g] \in Ended => c'.status[g] = c.status[g]
        /\ \A k \in Attempts(c, g) :
             /\ k \in Attempts(c', g)
             /\ c.runs[g][k].state \in RunOver => c'.runs[g][k] = c.runs[g][k]
        /\ \A h \in Goals : c.edges[<<g, h>>].state \in {"Satisfied", "Failed", "Cancelled"}
                              => c'.edges[<<g, h>>] = c.edges[<<g, h>>]
<1>1. IInv /\ [Next]_c => [Keeps]_c
  <2>1. Kept(c, c') => Keeps
    BY DEF Kept, Settled
  <2> QED BY <2>1, StepAgrees
<1> QED BY <1>1, AlwaysAgrees, PTL DEF Spec, HistoryIsKept
=============================================================================
