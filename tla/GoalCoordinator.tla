-------------------------- MODULE GoalCoordinator --------------------------
(***************************************************************************)
(* The durable goal coordinator of the daemon,                              *)
(* crates/core/src/coordinator/coordinator.rs, with the goal lifecycle of   *)
(* crates/core/src/goal.rs.  The state is the aggregate c; one action is    *)
(* one public mutation, which the code applies to a clone that replaces the *)
(* aggregate only when the operation returned Ok and validate accepted it.  *)
(* A refused operation is a stutter.  validate is not a guard here: it is   *)
(* the invariant Consistent, so a run shows that it has nothing to refuse   *)
(* (FailDependents names the one exception).                                *)
(*                                                                          *)
(* Abstractions.  Attempt k of goal g is the run with attempt = k; a goal   *)
(* is assigned once, to Target[g].  Every caller passes the revision it has *)
(* just read.  Clocks are gone: any slot may be the one that expired, no    *)
(* deadline passes, and aging may promote an entry of a lower class past a  *)
(* newer one of a higher class but not past an older one.  Whether the      *)
(* checks of a goal are satisfied when somebody reports its success is any. *)
(* The outbox is its pending entries: a superseded entry and an             *)
(* acknowledged one are never read again, and milestones are never read at  *)
(* all.  Budgets, depth and descendant limits, idempotent replay, messages  *)
(* and heartbeats (timestamps) are left out.  Of two goals at most one edge *)
(* is recorded in each direction.                                           *)
(***************************************************************************)
EXTENDS Naturals, Sequences, FiniteSets, SequencesExt

CONSTANTS
    Goals, Agents, Holders,
    Target,         \* the agent each goal is assigned to
    Class,          \* priority class of each goal, 0 the most urgent
    RetrySafe,      \* goals enqueued as retry safe
    NeedsApproval,  \* goals with approval.required
    MaxAttempts,    \* max_attempts of each goal's assignment
    Pairs,          \* the <<parent, child>> between which edges are added
    Kinds,          \* the kinds of edge a caller adds
    MaxEpoch        \* bound: daemon lifetimes

Nobody == "nobody"

WaitReason     == {"none", "verification", "other"} \cup Goals
DependencyKind == {"success", "terminal", "approved"}

ASSUME CoordinatorAssumption ==
  /\ Target \in [Goals -> Agents] /\ IsFiniteSet(Goals)
  /\ Nobody \notin Goals \cup Holders
  /\ Goals \cap {"none", "verification", "other"} = {}   \* a goal is no other reason
  /\ Kinds \subseteq DependencyKind
  /\ MaxAttempts \in [Goals -> Nat] /\ MaxEpoch \in Nat

VARIABLE c

Ended    == {"Succeeded", "Failed", "Cancelled"}                \* GoalStatus::terminal
Statuses == Ended \cup {"Absent", "Proposed", "Queued", "Active", "Waiting",
                        "Blocked", "Cancelling"}
Holding  == {"Open", "CancelRequested"}                \* GoalRunState::holds_slot
RunOver  == Ended \cup {"Interrupted"}
Run      == [state: Holding \cup {"Waiting"} \cup RunOver, generation: Nat,
             outcome: {"none", "approved", "other"}, wait: WaitReason]
NoEdge   == [state |-> "None", kind |-> "success"]
NoSlot   == [goal |-> Nobody, attempt |-> 0, generation |-> 0]

TypeOK ==
  /\ c.status \in [Goals -> Statuses]
  /\ \A g \in Goals : c.runs[g] \in Seq(Run) /\ Len(c.runs[g]) <= MaxAttempts[g]
  /\ c.slots \in [Agents -> [goal: Goals, attempt: Nat,
                             generation: Nat] \cup {NoSlot}]
  /\ c.generations \in [Agents -> Nat]
  /\ c.claims \in [Agents -> Holders \cup {Nobody}]
  /\ c.queue \in Seq(Goals)
  /\ c.edges \in [Goals \X Goals ->
                    [state: {"None", "Open", "Satisfied", "Failed", "Cancelled"},
                     kind: DependencyKind]]
  /\ c.outbox \subseteq [kind: {"Dispatch", "Cancel"}, goal: Goals, attempt: Nat]
  /\ c.live \subseteq Goals /\ c.approved \subseteq Goals
  /\ c.epoch \in 0..MaxEpoch

Init == c = [status      |-> [g \in Goals |-> "Absent"],
             live        |-> {},      \* goals with a live assignment
             approved    |-> {},
             runs        |-> [g \in Goals |-> <<>>],
             slots       |-> [a \in Agents |-> NoSlot],
             generations |-> [a \in Agents |-> 0],
             claims      |-> [a \in Agents |-> Nobody],
             queue       |-> <<>>,    \* in the order of enqueue_seq
             edges       |-> [e \in Goals \X Goals |-> NoEdge],
             outbox      |-> {},      \* the pending entries
             epoch       |-> 0]

-----------------------------------------------------------------------------
(* Parts of the operations, on an aggregate x.                             *)

ValidMove(from, to) ==
  to \in CASE from = "Proposed"   -> {"Queued", "Active", "Waiting", "Cancelled", "Blocked"}
           [] from = "Queued"     -> {"Active", "Waiting", "Blocked", "Cancelled"}
           [] from = "Active"     -> (Statuses \ {"Absent", "Proposed", "Active"})
           [] from = "Waiting"    -> {"Active", "Blocked", "Cancelled", "Succeeded",
                                      "Failed", "Queued"}
           [] from = "Blocked"    -> {"Active", "Cancelled", "Failed", "Queued"}
           [] from = "Cancelling" -> {"Cancelled"}
           [] OTHER               -> {}

Exists(x, g)  == x.status[g] # "Absent"
Parents(x, g) == {p \in Goals : x.edges[<<p, g>>].state = "Open"}
Children(x, g) == {h \in Goals : x.edges[<<g, h>>].state = "Open"}
Attempts(x, g) == DOMAIN x.runs[g]

\* Mutant: admission forgets the external executors.
RunsNothing(x, a) == x.slots[a] = NoSlot

\* admit: the agent runs no goal and no external executor claimed it.
Idle(x, a) == x.slots[a] = NoSlot /\ x.claims[a] = Nobody

\* Mutant: the budget is checked as if this attempt were not yet to come.
HasAttemptsLeftAfter(x, g) == Len(x.runs[g]) <= MaxAttempts[g]

HasAttemptsLeft(x, g) == Len(x.runs[g]) < MaxAttempts[g]

\* Mutant: an agent whose slot was released is taken for free.
SlotIsTaken(x, a) == x.slots[a] # NoSlot

VerificationHold(x, a) ==
  \E g \in Goals : /\ Target[g] = a /\ x.status[g] = "Waiting"
                   /\ \E k \in Attempts(x, g) : /\ x.runs[g][k].state = "Waiting"
                                                /\ x.runs[g][k].wait = "verification"

\* What an edge that is still open asks of its child.
Met(x, h, kind) ==
  LET over == {k \in Attempts(x, h) : x.runs[h][k].state \in RunOver}
  IN \/ kind = "terminal" /\ x.status[h] \in Ended
     \/ kind = "success"  /\ x.status[h] = "Succeeded"
     \/ kind = "approved" /\ \E k \in over : /\ \A j \in over : j <= k
                                            /\ x.runs[h][k].outcome = "approved"

DependenciesReady(x, g) ==
  \A h \in Goals : LET e == x.edges[<<g, h>>]
                   IN \/ e.state \in {"None", "Satisfied"}
                      \/ e.state = "Open" /\ Met(x, h, e.kind)

Entry(kind, g, k) == [kind |-> kind, goal |-> g, attempt |-> k]

\* Mutant: what was asked for a run stays pending when the run ends.
SupersedeNothing(x, g, k) == x

SupersedeDispatch(x, g, k) == [x EXCEPT !.outbox = @ \ {Entry("Dispatch", g, k)}]

SupersedeGoal(x, G) == [x EXCEPT !.outbox = {e \in @ : e.goal \notin G}]

\* release_slot tolerates a missing slot and refuses another run's.
CanRelease(x, g, k) ==
  x.slots[Target[g]] \in
    {NoSlot, [goal |-> g, attempt |-> k, generation |-> x.runs[g][k].generation]}

ReleaseSlot(x, g) == [x EXCEPT !.slots[Target[g]] = NoSlot]

\* The queue q without the goals in S, in its order.
Without(q, S) ==
  LET kept[i \in 0..Len(q)] == IF i = 0 THEN <<>>
                               ELSE IF q[i] \in S THEN kept[i - 1]
                               ELSE Append(kept[i - 1], q[i])
  IN kept[Len(q)]

DropQueue(x, g) == [x EXCEPT !.queue = Without(@, {g})]

CanRequeue(x, g) ==
  g \in x.live /\ (x.status[g] = "Queued" \/ ValidMove(x.status[g], "Queued"))

Requeue(x, g) ==
  [DropQueue(x, g) EXCEPT !.status[g] = "Queued", !.queue = Append(@, g)]

\* The order in which one operation requeues several goals follows their ids.
RequeueAll(x, order) == [x EXCEPT
  !.status = [g \in Goals |-> IF g \in Range(order) THEN "Queued" ELSE @[g]],
  !.queue  = Without(@, Range(order)) \o order]

EndRun(x, g, k, state, outcome) ==
  [x EXCEPT !.runs[g][k].state = state, !.runs[g][k].outcome = outcome]

\* transition to a terminal status with release_assignment.
Close(x, g, status) == [x EXCEPT !.status[g] = status, !.live = @ \ {g}]

\* Mutant: an edge that already has its verdict is settled again.
SettleEdgesAgain(x, E, state) ==
  [x EXCEPT !.edges = [e \in Goals \X Goals |->
     IF @[e].state # "None" /\ e \in E
     THEN [@[e] EXCEPT !.state = state] ELSE @[e]]]

SettleEdges(x, E, state) ==
  [x EXCEPT !.edges = [e \in Goals \X Goals |->
     IF @[e].state = "Open" /\ e \in E
     THEN [@[e] EXCEPT !.state = state] ELSE @[e]]]

CancelDependents(x, S) == SettleEdges(x, Goals \X S, "Cancelled")

\* Mutant: only a goal that waits for itself is refused.
WaitsForItself(x, parent, child) == parent = child

\* would_cycle: child already waits, along open edges, on parent; it is not so
\* when some set has parent, all who wait for its members, and not child.
WouldCycle(x, parent, child) ==
  ~\E A \in SUBSET Goals : /\ parent \in A /\ child \notin A
                           /\ \A g \in A : Parents(x, g) \subseteq A

\* add_edge returns the edge that is already open, whatever its kind.
AddEdge(x, p, h, kind) ==
  IF x.edges[<<p, h>>].state = "Open" THEN x
  ELSE [x EXCEPT !.edges[<<p, h>>] = [state |-> "Open", kind |-> kind]]

CanAddEdge(x, p, h) == /\ <<p, h>> \in Pairs /\ p # h
                       /\ x.edges[<<p, h>>].state \in {"None", "Open"}
                       /\ ~WouldCycle(x, p, h)

-----------------------------------------------------------------------------
(* The mutations.                                                          *)

Register(g) == /\ ~Exists(c, g)
               /\ c' = [c EXCEPT !.status[g] = "Proposed"]

Enqueued(x, g) == [x EXCEPT !.status[g] = "Queued", !.live = @ \cup {g},
                            !.queue = Append(@, g)]

\* enqueue with wait_for: the new goal waits on each member of W.
Enqueue(g, W) ==
  /\ c.status[g] \in {"Absent", "Proposed"}
  /\ \A h \in W : Exists(c, h) /\ CanAddEdge(c, g, h)
  /\ c' = [Enqueued(c, g) EXCEPT
             !.edges = [e \in Goals \X Goals |->
                          IF e[1] = g /\ e[2] \in W
                          THEN AddEdge(c, g, e[2], "success").edges[e] ELSE @[e]]]

CanYield(x, g, k) == /\ x.runs[g][k].state = "Open"
                     /\ CanRelease(x, g, k)
                     /\ ValidMove(x.status[g], "Waiting")

Yielded(x, g, k, why) ==
  [SupersedeDispatch(ReleaseSlot(x, g), g, k) EXCEPT
     !.runs[g][k].state = "Waiting", !.runs[g][k].wait = why, !.status[g] = "Waiting"]

Yield(g, k) == /\ CanYield(c, g, k)
               /\ c' = Yielded(c, g, k, "other")

\* The candidate's evidence is linked to the goal and the run waits for a verdict.
SubmitCandidate(g, k) == /\ c.runs[g][k].state \in Holding
                         /\ CanYield(c, g, k)
                         /\ c' = Yielded(c, g, k, "verification")

\* enqueue with parent_yields: one step parks the parent's run p, k on the child.
EnqueueChild(h, p, k) ==
  /\ c.status[h] \in {"Absent", "Proposed"}
  /\ p \in c.live /\ c.runs[p][k].state \in Holding
  /\ CanYield(c, p, k)
  /\ CanAddEdge(c, p, h)
  /\ c' = AddEdge(Enqueued(Yielded(c, p, k, h), h), p, h, "success")

CanActivate(x, g) ==
  /\ g \in x.live
  /\ Idle(x, Target[g]) /\ ~VerificationHold(x, Target[g])
  /\ DependenciesReady(x, g)
  /\ x.status[g] \in {"Queued", "Waiting", "Blocked"}
  /\ g \in Range(x.queue)
  /\ HasAttemptsLeft(x, g)
  /\ g \in NeedsApproval => g \in x.approved

Activated(x, g) ==
  LET agent == Target[g]
      gen == x.generations[agent] + 1
      k   == Len(x.runs[g]) + 1
      r   == [state |-> "Open", generation |-> gen,
              outcome |-> "none", wait |-> "none"]
  IN [DropQueue(x, g) EXCEPT
        !.generations[agent] = gen,
        !.runs[g] = Append(@, r),
        !.slots[agent] = [goal |-> g, attempt |-> k, generation |-> gen],
        !.status[g] = "Active",
        !.outbox = @ \cup {Entry("Dispatch", g, k)}]

Activate(g) == /\ CanActivate(c, g)
               /\ c' = Activated(c, g)

\* What select_next may return for agent a: an eligible entry that no older
\* entry of the same or a more urgent class precedes.
Selected(x, a) ==
  LET at(g)    == CHOOSE i \in DOMAIN x.queue : x.queue[i] = g
      eligible == {g \in Range(x.queue) : /\ Target[g] = a
                                          /\ DependenciesReady(x, g)
                                          /\ x.status[g] \in {"Queued", "Waiting"}}
  IN {g \in eligible : ~\E f \in eligible : at(f) < at(g) /\ Class[f] <= Class[g]}

\* Ok(None) when the agent is busy, held or has nothing eligible, and an error
\* when the selected goal cannot be activated.
ActivateNext(a) == \E g \in Selected(c, a) : Activate(g)

\* Mutant: whoever holds a run that has not ended may complete the goal.
CanCompleteAny(x, g, k) ==
  \/ x.runs[g][k].state = "Open" /\ CanRelease(x, g, k)
  \/ x.runs[g][k].state = "Waiting"

\* complete: the run is the goal's newest attempt and still owns what it ends.
CanComplete(x, g, k) ==
  /\ k = Len(x.runs[g])
  /\ \/ /\ x.runs[g][k].state = "Open"
        /\ CanRelease(x, g, k) /\ x.slots[Target[g]] # NoSlot
     \/ x.runs[g][k].state = "Waiting"

Detached(x, g, k) == IF x.runs[g][k].state = "Open"
                     THEN SupersedeDispatch(ReleaseSlot(x, g), g, k) ELSE x

\* propagate_success: which open edges into g the run's outcome satisfies, and
\* which waiting parents have nothing left to wait for.
SatisfiedBy(x, g, outcome) ==
  {p \in Parents(x, g) : x.edges[<<p, g>>].kind = "approved" => outcome = "approved"}

\* Mutant: an edge counts as satisfied only once it is marked so.
WokenWhenMarked(x, P) ==
  {p \in P : /\ x.status[p] = "Waiting" /\ p \in x.live
             /\ \A h \in Goals : x.edges[<<p, h>>].state \in {"None", "Satisfied"}}

Woken(x, P) == {p \in P : /\ x.status[p] = "Waiting" /\ p \in x.live
                          /\ DependenciesReady(x, p)}

CanSucceed(x, g, k) == CanComplete(x, g, k) /\ ValidMove(x.status[g], "Succeeded")

CompleteSuccess(g, k, outcome) ==
  /\ CanSucceed(c, g, k)
  /\ LET ended == Close(EndRun(Detached(c, g, k), g, k, "Succeeded", outcome),
                        g, "Succeeded")
         P == SatisfiedBy(ended, g, outcome)
         told == SettleEdges(ended, P \X {g}, "Satisfied")
     IN \E order \in SetToSeqs(Woken(told, P)) : c' = RequeueAll(told, order)

\* fail_dependents.  A parent that cannot be blocked makes the whole report
\* fail; a Proposed one does so through validate, which wants an assignment of
\* a Blocked goal.
Blockable(x, g) == {p \in Parents(x, g) : x.status[p] \notin Ended \cup {"Active"}}

CanFailDependents(x, g) ==
  \A p \in Blockable(x, g) : /\ ValidMove(x.status[p], "Blocked")
                             /\ x.status[p] # "Proposed"

FailDependents(x, g) ==
  LET B == Blockable(x, g)
  IN SettleEdges([x EXCEPT !.status = [p \in Goals |-> IF p \in B THEN "Blocked" ELSE @[p]],
                           !.queue = Without(@, B)],
                 Goals \X {g}, "Failed")

Failed(x, g, k) == EndRun(Detached(x, g, k), g, k, "Failed", "other")

\* A failure that asks for a retry gets one from a goal that can have it.
Retries(x, g, retry) == retry /\ g \in RetrySafe /\ HasAttemptsLeft(x, g)

CanFail(x, g, k, retry) ==
  /\ CanComplete(x, g, k) /\ g \in x.live
  /\ IF Retries(x, g, retry) THEN CanRequeue(Failed(x, g, k), g)
     ELSE ValidMove(x.status[g], "Failed") /\ CanFailDependents(Failed(x, g, k), g)

CompleteFailure(g, k, retry) ==
  /\ CanFail(c, g, k, retry)
  /\ c' = IF Retries(c, g, retry) THEN Requeue(Failed(c, g, k), g)
          ELSE FailDependents(Close(Failed(c, g, k), g, "Failed"), g)

\* rollback_activation: the runtime could not hand the run to its agent.
CanRollback(x, g, k) ==
  x.runs[g][k].state = "Open" /\ CanRelease(x, g, k) /\ CanRequeue(x, g)

Rollback(g, k) ==
  /\ CanRollback(c, g, k)
  /\ c' = Requeue([SupersedeDispatch(ReleaseSlot(c, g), g, k) EXCEPT
                     !.runs[g][k].state = "Waiting", !.runs[g][k].wait = "other"], g)

\* cascade Cancel reaches every live goal along open edges of live goals.
CancelSet(x, g) ==
  LET live == {h \in Goals : x.status[h] \notin Ended}
      cascades == {S \in SUBSET live :
                     g \in S /\ \A h \in S : Children(x, h) \cap live \subseteq S}
  IN {h \in live : \A S \in cascades : h \in S}

\* An executing goal is only fenced: its agent is told and the slot stays taken.
Fenced(x, F) == [x EXCEPT
  !.status = [g \in Goals |-> IF g \in F THEN "Cancelling" ELSE @[g]],
  !.runs   = [g \in Goals |-> [k \in DOMAIN @[g] |->
                IF g \in F /\ @[g][k].state = "Open"
                THEN [@[g][k] EXCEPT !.state = "CancelRequested", !.wait = "none"]
                ELSE @[g][k]]],
  !.outbox = {e \in @ : e.kind # "Dispatch" \/ e.goal \notin F}
             \cup UNION {{Entry("Cancel", g, k) :
                           k \in {j \in Attempts(x, g) : x.runs[g][j].state = "Open"}}
                          : g \in F}]

\* A goal that holds no slot is cancelled at once, with all its parked runs.
Dropped(x, D) == CancelDependents([SupersedeGoal(x, D) EXCEPT
  !.status = [g \in Goals |-> IF g \in D THEN "Cancelled" ELSE @[g]],
  !.live   = @ \ D,
  !.queue  = Without(@, D),
  !.runs   = [g \in Goals |-> [k \in DOMAIN @[g] |->
                IF g \in D /\ @[g][k].state \notin RunOver
                THEN [@[g][k] EXCEPT !.state = "Cancelled", !.outcome = "other"]
                ELSE @[g][k]]]], D)

CancelAll(x, S) ==
  Dropped(Fenced(x, {g \in S : x.status[g] = "Active"}),
          {g \in S : x.status[g] \notin {"Active", "Cancelling"}})

Cancel(g, policy) ==
  /\ Exists(c, g) /\ c.status[g] \notin Ended
  /\ \/ policy = "Cancel" /\ c' = CancelAll(c, CancelSet(c, g))
     \/ /\ policy = "Detach"
        /\ c' = CancelAll(SettleEdges(c, {g} \X Goals, "Cancelled"), {g})
     \/ /\ policy = "Wait"
        /\ \A h \in Children(c, g) : c.status[h] \in Ended
        /\ c' = CancelAll(c, {g})

SettleCancel(g, k) ==
  /\ c.runs[g][k].state = "CancelRequested" \/ c.status[g] = "Cancelling"
  /\ CanRelease(c, g, k)
  /\ ValidMove(c.status[g], "Cancelled")
  /\ LET over == EndRun(SupersedeGoal(ReleaseSlot(c, g), {g}), g, k, "Cancelled", "other")
     IN c' = CancelDependents(Close(over, g, "Cancelled"), {g})

\* interrupt_runs of the slot-holding runs of the goals in G.
Interrupted(x, G) ==
  LET dying == {g \in G : x.status[g] = "Cancelling"}
      again == (G \ dying) \cap RetrySafe
      over  == [x EXCEPT
        !.slots  = [a \in Agents |-> IF @[a].goal \in G THEN NoSlot ELSE @[a]],
        !.runs   = [g \in Goals |-> [k \in DOMAIN @[g] |->
                      IF g \in G /\ @[g][k].state \in Holding
                      THEN [@[g][k] EXCEPT !.state = "Interrupted", !.outcome = "other"]
                      ELSE @[g][k]]],
        !.status = [g \in Goals |-> IF g \in dying THEN "Cancelled"
                                    ELSE IF g \in G \ again THEN "Blocked" ELSE @[g]],
        !.live   = @ \ dying,
        !.outbox = {e \in @ : \/ e.goal \notin G
                              \/ e.kind = "Cancel" /\ e.goal \notin dying}]
  IN {RequeueAll(over, order) : order \in SetToSeqs(again)}

SlotGoals(x, A) == {x.slots[a].goal : a \in {b \in A : x.slots[b] # NoSlot}}

\* fence_expired: the claims of the agents in A have run out.
FenceExpired(A) == /\ SlotGoals(c, A) # {}
                   /\ c' \in Interrupted(c, SlotGoals(c, A))

\* CoordinatorStore::load after a restart: reconcile fences every run of the
\* old daemon.  No CancelRequested run is left for it to settle.
Reconcile == /\ c.epoch < MaxEpoch
             /\ \E x \in Interrupted(c, SlotGoals(c, Agents)) :
                  c' = [x EXCEPT !.epoch = @ + 1]

AddDependency(p, h, kind) == /\ Exists(c, p) /\ Exists(c, h)
                             /\ CanAddEdge(c, p, h)
                             /\ c' = AddEdge(c, p, h, kind)

\* apply_goal_transition: of the local transitions, the one that opens a gate.
Approve(g) == /\ g \in NeedsApproval
              /\ Exists(c, g) /\ c.status[g] \notin Ended
              /\ c' = [c EXCEPT !.approved = @ \cup {g}]

ClaimOccupancy(a, h) == /\ Idle(c, a)
                        /\ c' = [c EXCEPT !.claims[a] = h]

ReleaseClaim(a, h) == /\ c.claims[a] = h
                      /\ c' = [c EXCEPT !.claims[a] = Nobody]

AcknowledgeOutbox(e) == c' = [c EXCEPT !.outbox = @ \ {e}]

\* The fenced operations name a run and its generation; any run the goal ever
\* had may be named, at any time.
RunStep(g) == \E k \in Attempts(c, g) :
  \/ Yield(g, k)
  \/ SubmitCandidate(g, k)
  \/ \E h \in Goals : EnqueueChild(h, g, k)
  \/ \E outcome \in {"approved", "other"} : CompleteSuccess(g, k, outcome)
  \/ \E retry \in BOOLEAN : CompleteFailure(g, k, retry)
  \/ Rollback(g, k)
  \/ SettleCancel(g, k)

GoalStep(g) ==
  \/ Register(g)
  \/ \E W \in SUBSET {h \in Goals : <<g, h>> \in Pairs} : Enqueue(g, W)
  \/ Activate(g)
  \/ \E policy \in {"Cancel", "Detach", "Wait"} : Cancel(g, policy)
  \/ Approve(g)
  \/ \E h \in Goals, kind \in Kinds : AddDependency(g, h, kind)

Next == \/ \E g \in Goals : GoalStep(g) \/ RunStep(g)
        \/ \E a \in Agents : ActivateNext(a)
        \/ \E a \in Agents, h \in Holders : ClaimOccupancy(a, h) \/ ReleaseClaim(a, h)
        \/ \E A \in SUBSET Agents : FenceExpired(A)
        \/ Reconcile
        \/ \E e \in c.outbox : AcknowledgeOutbox(e)

Spec == Init /\ [][Next]_c

-----------------------------------------------------------------------------
(* validate_coordinator, one conjunct per record kind.                     *)

HolderOf(x, g) == {k \in Attempts(x, g) : x.runs[g][k].state \in Holding}

SlotsMatchRuns ==
  /\ \A g \in Goals : \A k \in HolderOf(c, g) :
       c.slots[Target[g]] = [goal |-> g, attempt |-> k,
                             generation |-> c.runs[g][k].generation]
  /\ \A a \in Agents : c.slots[a] # NoSlot =>
       LET s == c.slots[a]
       IN /\ s.attempt \in HolderOf(c, s.goal) /\ Target[s.goal] = a
          /\ s.generation = c.generations[a]
          /\ c.claims[a] = Nobody

StatusMatchesRuns ==
  \A g \in Goals : LET held == {c.runs[g][k].state : k \in HolderOf(c, g)}
                   IN CASE c.status[g] = "Active"     -> held = {"Open"}
                        [] c.status[g] = "Cancelling" -> held = {"CancelRequested"}
                        [] OTHER                      -> held = {}

QueueMatchesStatus ==
  /\ \A i, j \in DOMAIN c.queue : c.queue[i] = c.queue[j] => i = j
  /\ \A g \in Range(c.queue) : /\ c.status[g] \in {"Queued", "Waiting", "Blocked"}
                               /\ g \in c.live
  /\ \A g \in Goals : c.status[g] = "Queued" => g \in Range(c.queue)

GoalsInPlay == \A g \in Goals :
  (g \in c.live) <=> c.status[g] \notin Ended \cup {"Absent", "Proposed"}

Acyclic == \A S \in (SUBSET Goals) \ {{}} :
             \E p \in S : S \cap Children(c, p) = {}

(* Whatever sequence of operations a daemon, its clients, its agents and    *)
(* its restarts apply, validate_coordinator finds nothing to refuse: slots, *)
(* runs, goal statuses, queue, assignments and open edges agree.            *)
Consistent == /\ SlotsMatchRuns /\ StatusMatchesRuns
              /\ QueueMatchesStatus /\ GoalsInPlay /\ Acyclic

(* A dispatcher that replays the pending outbox never starts a run that has *)
(* lost its slot and never stops one nobody is stopping: a pending dispatch *)
(* is of an open run, a pending cancel of one being cancelled.              *)
OutboxIsCurrent ==
  \A e \in c.outbox :
    /\ e.kind = "Dispatch" => c.runs[e.goal][e.attempt].state = "Open"
    /\ e.kind = "Cancel"   => c.runs[e.goal][e.attempt].state = "CancelRequested"

(* While a goal waits for the verdict on its candidate, its agent executes  *)
(* nothing else, whichever way the goal came to wait and whoever activates. *)
VerificationIsExclusive ==
  \A g \in Goals :
    c.status[g] = "Waiting" /\ c.runs[g][Len(c.runs[g])].wait = "verification"
      => c.slots[Target[g]] = NoSlot

(* No lost wakeup: a goal parked on a child is queued again by the time its *)
(* last dependency is met, however success, failure, retries and parking of *)
(* its children interleaved with its own parking.                           *)
NoLostWakeup ==
  \A g \in Goals :
    c.status[g] = "Waiting" /\ c.runs[g][Len(c.runs[g])].wait \in Goals
      => ~DependenciesReady(c, g)

(* History is immutable: a terminal goal keeps its status, a finished run   *)
(* its outcome, a settled edge its verdict; attempts are never forgotten.   *)
HistoryIsKept ==
  [][\A g \in Goals :
       /\ c.status[g] \in Ended => c'.status[g] = c.status[g]
       /\ \A k \in Attempts(c, g) :
            /\ k \in Attempts(c', g)
            /\ c.runs[g][k].state \in RunOver => c'.runs[g][k] = c.runs[g][k]
       /\ \A h \in Goals : c.edges[<<g, h>>].state \in {"Satisfied", "Failed", "Cancelled"}
                             => c'.edges[<<g, h>>] = c.edges[<<g, h>>]]_c

(* The runs that execute are the leases of an exclusive, fenced slot: the   *)
(* coordinator implements AgentLeases.                                      *)
Leases == INSTANCE AgentLeases WITH
  leases   <- [a \in Agents |-> UNION {{c.runs[g][k].generation : k \in HolderOf(c, g)}
                                       : g \in {h \in Goals : Target[h] = a}}],
  issued   <- c.generations,
  reserved <- {a \in Agents : c.claims[a] # Nobody},
  era      <- c.epoch

ImplementsLeases == Leases!Spec
=============================================================================
