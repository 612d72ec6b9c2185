--------------------------------- MODULE Swarm ---------------------------------
(***************************************************************************)
(* Swarm coordination of one work graph: crates/core/src/work/swarm.rs with *)
(* the task tool modes that call it.  The agents assigned to a graph claim  *)
(* the files they work on, ask each other for coordination, and hand claims *)
(* over; everything an assignment has open ends with the assignment.        *)
(*                                                                         *)
(* An action is one operation in one mutate_work transaction.  The session  *)
(* holds lock_swarm_edits around those the task tool makes, but not around  *)
(* the activation and the closing of an assignment.                         *)
(*                                                                         *)
(* Abstractions.  A claim names the set of files its paths contain and one  *)
(* access, for a registration has one.  An assignment id is unique, so the  *)
(* generation in its token tells nothing more.  The graph keeps its owner,  *)
(* who alone sets the policy.  Idempotent repetitions change nothing.       *)
(* Of what is over (an assignment, a claim, a request, a transfer) only that *)
(* it is over is kept, for nothing reads the rest.                          *)
(* Milestones, incidents, other graphs, the text of messages and the outbox *)
(* are left out; SessionDelivery models the delivery of the outbox.         *)
(***************************************************************************)
EXTENDS Naturals

CONSTANTS
    Agents,
    Assignments,             \* numbers
    AttemptOf,               \* the attempt each assignment is made on
    Files,
    Resources,               \* what may be claimed
    Editors,                 \* who may hold lock_swarm_edits through an edit
    MaxClaims, MaxRequests, MaxTransfers   \* bounds

Nobody == "nobody"
None   == 0
Free   == "free"

Claims    == 1..MaxClaims
Requests  == 1..MaxRequests
Transfers == 1..MaxTransfers

Access       == {"inspect", "mutate"}
ResourceType == [files: SUBSET Files, access: Access]

ASSUME SwarmAssumption ==
    /\ Nobody \notin Agents /\ Assignments \subseteq Nat \ {None} /\ Free \notin Editors
    /\ Resources \subseteq ResourceType
    /\ MaxClaims \in Nat /\ MaxRequests \in Nat /\ MaxTransfers \in Nat

VARIABLES policy,
          fences,     \* assignment_fences: the agent and the phase
          claims,     \* resource_claims
          requests,   \* coordination_requests
          transfers,  \* ownership_transfers
          editing     \* who holds lock_swarm_edits

swarm == <<policy, fences, claims, requests, transfers, editing>>

NoResource == [files |-> {}, access |-> "inspect"]
ClaimOf(phase) == [phase |-> phase, owner |-> None, resource |-> NoResource]
RequestOf(phase) == [phase |-> phase, requester |-> None, pending |-> {},
                     bound |-> [x \in Agents |-> None]]
TransferOf(phase) == [phase |-> phase, claim |-> 0, from |-> None, to |-> None]
FenceOf(phase) == [phase |-> phase, agent |-> Nobody]

FenceType    == [agent: Agents \cup {Nobody},
                 phase: {"None", "Active", "Settled", "Superseded"}]
ClaimType    == [phase: {"None", "Held", "Released"},
                 owner: Assignments \cup {None}, resource: ResourceType]
RequestType  == [phase: {"None", "Open", "Settled", "Cancelled"},
                 requester: Assignments \cup {None},
                 pending: SUBSET Agents,   \* the peers that owe an answer
                 bound: [Agents -> Assignments \cup {None}]]
TransferType == [phase: {"None", "Requested", "Applied", "Rejected", "Cancelled"},
                 claim: Claims \cup {0},
                 from: Assignments \cup {None}, to: Assignments \cup {None}]

TypeOK == /\ policy \in {"Disabled", "Advisory", "Protective"}
          /\ fences \in [Assignments -> FenceType]
          /\ claims \in [Claims -> ClaimType]
          /\ requests \in [Requests -> RequestType]
          /\ transfers \in [Transfers -> TransferType]
          /\ editing \in Editors \cup {Free}

Init == /\ policy = "Disabled"
        /\ fences = [a \in Assignments |-> FenceOf("None")]
        /\ claims = [c \in Claims |-> ClaimOf("None")]
        /\ requests = [q \in Requests |-> RequestOf("None")]
        /\ transfers = [t \in Transfers |-> TransferOf("None")]
        /\ editing = Free

-----------------------------------------------------------------------------

Active(a)   == fences[a].phase = "Active"
Held(c)     == claims[c].phase = "Held"
Bindings(x) == {a \in Assignments : Active(a) /\ fences[a].agent = x}

Conflict(r, s) == /\ "mutate" \in {r.access, s.access}
                  /\ r.files \cap s.files # {}

\* The held claims in cs of other assignments than a that r conflicts with.
Collisions(cs, a, r) ==
  {c \in Claims : cs[c].phase = "Held" /\ cs[c].owner # a /\ Conflict(r, cs[c].resource)}

\* What validate_swarm checks of the claims in cs under the policy p.
NoCollision(cs, p) ==
  p = "Protective" =>
    \A c \in Claims : cs[c].phase = "Held" => Collisions(cs, cs[c].owner, cs[c].resource) = {}

\* An id that is not used yet: the next one, for the order is immaterial.
NextOf(S, items, i) == i \in S /\ \A j \in S : items[j].phase = "None" <=> j >= i

-----------------------------------------------------------------------------
(* Assignments come and go: swarm_activate_assignment and                  *)
(* swarm_close_assignment, called by the transitions of the graph.         *)

\* The parties of q whose answer nobody will give once a is closed.  A party
\* that was not bound to an assignment is known by its agent.
Leaves(q, a) ==
  {x \in q.pending : \/ q.bound[x] = a
                     \/ q.bound[x] = None /\ x = fences[a].agent}

\* The last party that answers or leaves settles the request.
Without(q, S) == IF q.pending \subseteq S THEN RequestOf("Settled")
                 ELSE [q EXCEPT !.pending = @ \ S]

\* Mutant: the requests of the assignment that is closed stay open.
PartiesClosed(q, a) == IF q.phase # "Open" THEN q ELSE Without(q, Leaves(q, a))

RequestClosed(q, a) ==
  IF q.phase # "Open" THEN q
  ELSE IF q.requester = a THEN RequestOf("Cancelled") ELSE Without(q, Leaves(q, a))

ClosesOpen(a) ==
  /\ claims' = [c \in Claims |-> IF Held(c) /\ claims[c].owner = a
                                 THEN ClaimOf("Released") ELSE claims[c]]
  /\ requests' = [q \in Requests |-> RequestClosed(requests[q], a)]
  /\ transfers' = [t \in Transfers |->
                     IF transfers[t].phase = "Requested"
                        /\ a \in {transfers[t].from, transfers[t].to}
                     THEN TransferOf("Cancelled") ELSE transfers[t]]

Close(a) == /\ Active(a)
            /\ fences' = [fences EXCEPT ![a] = FenceOf("Settled")]
            /\ ClosesOpen(a)
            /\ UNCHANGED <<policy, editing>>

\* The live assignment of the attempt that an activation of a takes over.
Prior(a) == {b \in Assignments : Active(b) /\ AttemptOf[b] = AttemptOf[a]}

\* A claim of a node, or the hand-over of a running attempt to another agent.
\* An agent has one assignment at a time, and a settled attempt gets no other.
\* The ids of an attempt's assignments are taken in order.
Activate(a, x) ==
  /\ fences[a].phase = "None" /\ Bindings(x) = {}
  /\ \A b \in Assignments : AttemptOf[b] = AttemptOf[a] =>
        /\ fences[b].phase # "Settled"
        /\ b < a => fences[b].phase # "None"
  /\ LET opened == [agent |-> x, phase |-> "Active"] IN
     \/ /\ Prior(a) = {}
        /\ fences' = [fences EXCEPT ![a] = opened]
        /\ UNCHANGED <<claims, requests, transfers>>
     \/ \E b \in Prior(a) :
          /\ fences' = [fences EXCEPT ![a] = opened, ![b] = FenceOf("Superseded")]
          /\ ClosesOpen(b)
  /\ UNCHANGED <<policy, editing>>

-----------------------------------------------------------------------------
(* The modes of the task tool, each under lock_swarm_edits.                *)

\* Mutant: the claims made so far are not looked at.
SetAnyPolicy(p) ==
  /\ editing = Free /\ policy # p
  /\ policy' = p
  /\ UNCHANGED <<fences, claims, requests, transfers, editing>>

\* Protective is refused while claims of different assignments conflict.
SetPolicy(p) ==
  /\ editing = Free /\ policy # p /\ NoCollision(claims, p)
  /\ policy' = p
  /\ UNCHANGED <<fences, claims, requests, transfers, editing>>

\* Advisory registers a claim in spite of a conflict and records an incident.
Register(x, c, r) ==
  /\ editing = Free /\ policy # "Disabled" /\ NextOf(Claims, claims, c)
  /\ \E a \in Bindings(x) :
       /\ policy = "Protective" => Collisions(claims, a, r) = {}
       /\ claims' = [claims EXCEPT ![c] = [phase |-> "Held", owner |-> a, resource |-> r]]
  /\ UNCHANGED <<policy, fences, requests, transfers, editing>>

Release(x, c) ==
  /\ editing = Free /\ Held(c) /\ claims[c].owner \in Bindings(x)
  /\ claims' = [claims EXCEPT ![c] = ClaimOf("Released")]
  /\ UNCHANGED <<policy, fences, requests, transfers, editing>>

\* bind_coordination_parties: a peer is bound to the assignment it has.  One
\* that has none is refused only under the protective policy.
BindingOf(x) == IF Bindings(x) = {} THEN {None} ELSE Bindings(x)

Request(x, q, peers) ==
  /\ editing = Free /\ NextOf(Requests, requests, q) /\ peers # {} /\ x \notin peers
  /\ policy = "Protective" => \A y \in peers : Bindings(y) # {}
  /\ \E a \in Bindings(x), bound \in [Agents -> Assignments \cup {None}] :
       /\ \A y \in Agents : bound[y] \in (IF y \in peers THEN BindingOf(y) ELSE {None})
       /\ requests' = [requests EXCEPT ![q] =
             [phase |-> "Open", requester |-> a, pending |-> peers, bound |-> bound]]
  /\ UNCHANGED <<policy, fences, claims, transfers, editing>>

\* settle_coordination_peer, by an agent that has an assignment in the graph.
Respond(x, q) ==
  /\ editing = Free /\ Bindings(x) # {}
  /\ requests[q].phase = "Open" /\ x \in requests[q].pending
  /\ requests[q].bound[x] \in Bindings(x) \cup {None}
  /\ requests' = [requests EXCEPT ![q] = Without(@, {x})]
  /\ UNCHANGED <<policy, fences, claims, transfers, editing>>

RequestTransfer(x, t, c, b) ==
  /\ editing = Free /\ NextOf(Transfers, transfers, t)
  /\ Held(c) /\ claims[c].owner \in Bindings(x) /\ Active(b)
  /\ transfers' = [transfers EXCEPT ![t] = [phase |-> "Requested", claim |-> c,
                                            from |-> claims[c].owner, to |-> b]]
  /\ UNCHANGED <<policy, fences, claims, requests, editing>>

\* What decide_ownership_transfer demands of both answers.
CanDecide(x, t) ==
  /\ editing = Free /\ transfers[t].phase = "Requested"
  /\ Active(transfers[t].from) /\ transfers[t].to \in Bindings(x)

Reject(x, t) ==
  /\ CanDecide(x, t)
  /\ transfers' = [transfers EXCEPT ![t] = TransferOf("Rejected")]
  /\ UNCHANGED <<policy, fences, claims, requests, editing>>

\* The claim is released and registered anew for the target.  The source may
\* hold another claim on the same files, which validate_swarm then refuses.
Moved(t, c) ==
  [claims EXCEPT ![transfers[t].claim] = ClaimOf("Released"),
                 ![c] = [phase |-> "Held", owner |-> transfers[t].to,
                         resource |-> claims[transfers[t].claim].resource]]

Approve(x, t, c) ==
  /\ CanDecide(x, t) /\ Held(transfers[t].claim) /\ NextOf(Claims, claims, c)
  /\ NoCollision(Moved(t, c), policy)
  /\ claims' = Moved(t, c)
  /\ transfers' = [transfers EXCEPT ![t] = TransferOf("Applied")]
  /\ UNCHANGED <<policy, fences, requests, editing>>

AgentStep(x) ==
  \/ \E a \in Assignments : Activate(a, x)
  \/ \E c \in Claims : Release(x, c) \/ \E r \in Resources : Register(x, c, r)
  \/ \E q \in Requests : Respond(x, q) \/ \E S \in SUBSET Agents : Request(x, q, S)
  \/ \E t \in Transfers :
       \/ Reject(x, t)
       \/ \E c \in Claims : \/ Approve(x, t, c)
                            \/ \E b \in Assignments : RequestTransfer(x, t, c, b)

SwarmNext == \/ \E x \in Agents : AgentStep(x)
             \/ \E a \in Assignments : Close(a)
             \/ \E p \in {"Disabled", "Advisory", "Protective"} : SetPolicy(p)

-----------------------------------------------------------------------------

\* The state passes validate_swarm: no operation is refused for what an earlier
\* one, or the end of an assignment, left behind.
ValidSwarm ==
  /\ \A c \in Claims : Held(c) => claims[c].owner \in Assignments /\ Active(claims[c].owner)
  /\ NoCollision(claims, policy)
  /\ \A q \in Requests : requests[q].phase = "Open" <=> requests[q].pending # {}

\* Whoever waits for an answer and whoever still owes one is there: a request
\* is open only while its requester and each peer it was bound to have the
\* assignment of that time, and a hand-over waits only between live ones.
NothingOutlives ==
  /\ \A q \in Requests : requests[q].phase = "Open" =>
       /\ requests[q].requester \in Assignments /\ Active(requests[q].requester)
       /\ \A x \in requests[q].pending : requests[q].bound[x] # None =>
            Active(requests[q].bound[x]) /\ fences[requests[q].bound[x]].agent = x
  /\ \A t \in Transfers : transfers[t].phase = "Requested" =>
       /\ transfers[t].claim \in Claims
       /\ transfers[t].from \in Assignments /\ transfers[t].to \in Assignments
       /\ Active(transfers[t].from) /\ Active(transfers[t].to)
=============================================================================
