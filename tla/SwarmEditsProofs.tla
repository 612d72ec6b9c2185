--------------------------- MODULE SwarmEditsProofs ---------------------------
(***************************************************************************)
(* What SwarmEdits keeps invariant, for any agents, files, editors and      *)
(* bounds.  The argument has two halves.  The swarm's half is inductive by  *)
(* itself: what is open belongs to live assignments, so the closing of one  *)
(* finds all there is to close.  The edits' half adds who holds what: files *)
(* reserved at the authority are nobody else's, and an editor of the graph  *)
(* that changes files holds the lock, under which claims only end.          *)
(***************************************************************************)
EXTENDS SwarmEdits, TLAPS

SwarmInv == TypeOK /\ ValidSwarm /\ NothingOutlives

-----------------------------------------------------------------------------
(* Claims.                                                                 *)

\* Conflict is symmetric.
LEMMA ConflictSymmetric ==
  ASSUME NEW r, NEW s, Conflict(r, s)
  PROVE  Conflict(s, r)
BY DEF Conflict

\* Claims that are only dropped bring no collision.
LEMMA FewerClaims ==
  ASSUME NEW cs, NEW ds, NEW p, NoCollision(cs, p),
         \A c \in Claims : ds[c].phase = "Held" => ds[c] = cs[c]
  PROVE  NoCollision(ds, p)
BY DEF NoCollision, Collisions

\* A claim that collides with none brings no collision.
LEMMA OneMoreClaim ==
  ASSUME NEW p, NEW c \in Claims, NEW a \in Assignments, NEW r \in ResourceType,
         claims \in [Claims -> ClaimType],
         NoCollision(claims, p), p = "Protective" => Collisions(claims, a, r) = {}
  PROVE  NoCollision([claims EXCEPT ![c] = [phase |-> "Held", owner |-> a, resource |-> r]], p)
<1> DEFINE new == [phase |-> "Held", owner |-> a, resource |-> r]
           ds  == [claims EXCEPT ![c] = new]
<1> SUFFICES ASSUME p = "Protective",
                    NEW i \in Claims, NEW j \in Claims,
                    ds[i].phase = "Held", ds[j].phase = "Held", ds[j].owner # ds[i].owner,
                    Conflict(ds[i].resource, ds[j].resource)
             PROVE  FALSE
  BY DEF NoCollision, Collisions
<1>1. ds[c] = new /\ \A k \in Claims : k # c => ds[k] = claims[k]
  OBVIOUS
<1>2. CASE i = c
  BY <1>1, <1>2 DEF Collisions
<1>3. CASE j = c
  <2>1. Conflict(r, claims[i].resource) BY <1>1, <1>3, ConflictSymmetric
  <2> QED BY <1>1, <1>3, <2>1 DEF Collisions
<1>4. CASE i # c /\ j # c
  BY <1>1, <1>4 DEF NoCollision, Collisions
<1> QED BY <1>2, <1>3, <1>4

-----------------------------------------------------------------------------
(* Requests.                                                               *)

\* A party that answers or leaves: the request stays as it is but for the
\* parties, or is settled.
LEMMA WithoutKeeps ==
  ASSUME NEW q \in RequestType, NEW S, q.phase = "Open"
  PROVE  /\ Without(q, S) \in RequestType
         /\ Without(q, S).phase = "Open" <=> Without(q, S).pending # {}
         /\ Without(q, S).phase = "Open" =>
              /\ Without(q, S).requester = q.requester
              /\ Without(q, S).bound = q.bound
              /\ Without(q, S).pending = q.pending \ S
<1>1. CASE q.pending \subseteq S
  BY <1>1 DEF Without, RequestOf, RequestType
<1>2. CASE ~(q.pending \subseteq S)
  <2>1. Without(q, S) = [q EXCEPT !.pending = q.pending \ S]
    BY <1>2 DEF Without
  <2>2. q.pending \ S # {} /\ q.pending \ S \in SUBSET Agents
    BY <1>2 DEF RequestType
  <2> QED BY <2>1, <2>2 DEF RequestType
<1> QED BY <1>1, <1>2

\* The closing of an assignment leaves open no request it made, and none that
\* waits for it.
LEMMA RequestClosedKeeps ==
  ASSUME NEW q \in RequestType, NEW a, q.phase = "Open" <=> q.pending # {}
  PROVE  LET d == RequestClosed(q, a) IN
         /\ d \in RequestType
         /\ d.phase = "Open" <=> d.pending # {}
         /\ d.phase = "Open" =>
              /\ q.phase = "Open" /\ d.requester = q.requester /\ d.bound = q.bound
              /\ d.pending \subseteq q.pending /\ d.requester # a
              /\ \A x \in d.pending : d.bound[x] # a
<1>1. CASE q.phase # "Open"
  BY <1>1 DEF RequestClosed
<1>2. CASE q.phase = "Open" /\ q.requester = a
  BY <1>2 DEF RequestClosed, RequestOf, RequestType
<1>3. CASE q.phase = "Open" /\ q.requester # a
  <2>1. RequestClosed(q, a) = Without(q, Leaves(q, a))
    BY <1>3 DEF RequestClosed
  <2> DEFINE d == Without(q, Leaves(q, a))
  <2>2. /\ d \in RequestType
        /\ d.phase = "Open" <=> d.pending # {}
        /\ d.phase = "Open" => /\ d.requester = q.requester /\ d.bound = q.bound
                              /\ d.pending = q.pending \ Leaves(q, a)
    BY <1>3, WithoutKeeps
  <2>3. \A x \in q.pending \ Leaves(q, a) : q.bound[x] # a
    BY DEF Leaves
  <2> HIDE DEF d
  <2> QED BY <1>3, <2>1, <2>2, <2>3 DEF d
<1> QED BY <1>1, <1>2, <1>3

-----------------------------------------------------------------------------
(* Assignments: what ends with one, and what does not.                     *)

\* What ClosesOpen leaves behind, whatever becomes of the fences.
LEMMA ClosesOpenKeeps ==
  ASSUME SwarmInv, NEW a \in Assignments, ClosesOpen(a)
  PROVE  /\ claims' \in [Claims -> ClaimType]
         /\ requests' \in [Requests -> RequestType]
         /\ transfers' \in [Transfers -> TransferType]
         /\ \A c \in Claims : claims'[c].phase = "Held" =>
              claims'[c] = claims[c] /\ claims[c].owner # a
         /\ \A q \in Requests : requests'[q].phase = "Open" <=> requests'[q].pending # {}
         /\ \A q \in Requests : requests'[q].phase = "Open" =>
              /\ requests[q].phase = "Open" /\ requests'[q].requester = requests[q].requester
              /\ requests'[q].bound = requests[q].bound
              /\ requests'[q].pending \subseteq requests[q].pending
              /\ requests'[q].requester # a
              /\ \A x \in requests'[q].pending : requests'[q].bound[x] # a
         /\ \A t \in Transfers : transfers'[t].phase = "Requested" =>
              /\ transfers'[t] = transfers[t]
              /\ a \notin {transfers[t].from, transfers[t].to}
<1> USE DEF SwarmInv, TypeOK
<1>1. /\ claims' \in [Claims -> ClaimType]
      /\ \A c \in Claims : claims'[c].phase = "Held" =>
           claims'[c] = claims[c] /\ claims[c].owner # a
  <2>1. ClaimOf("Released") \in ClaimType /\ ClaimOf("Released").phase # "Held"
    BY DEF ClaimOf, ClaimType, NoResource, ResourceType, Access
  <2> QED BY <2>1 DEF ClosesOpen, Held
<1>2. /\ transfers' \in [Transfers -> TransferType]
      /\ \A t \in Transfers : transfers'[t].phase = "Requested" =>
           transfers'[t] = transfers[t] /\ a \notin {transfers[t].from, transfers[t].to}
  <2>1. TransferOf("Cancelled") \in TransferType
        /\ TransferOf("Cancelled").phase # "Requested"
    BY DEF TransferOf, TransferType
  <2> QED BY <2>1 DEF ClosesOpen
<1>3. \A q \in Requests : /\ requests'[q] = RequestClosed(requests[q], a)
                          /\ requests[q] \in RequestType
                          /\ requests[q].phase = "Open" <=> requests[q].pending # {}
  BY DEF ClosesOpen, ValidSwarm
<1>4. requests' \in [Requests -> RequestType]
  <2>1. \A q \in Requests : RequestClosed(requests[q], a) \in RequestType
    BY <1>3, RequestClosedKeeps
  <2> QED BY <2>1 DEF ClosesOpen
<1> HIDE DEF SwarmInv, TypeOK
<1>5. ASSUME NEW q \in Requests
      PROVE  /\ requests'[q].phase = "Open" <=> requests'[q].pending # {}
             /\ requests'[q].phase = "Open" =>
                  /\ requests[q].phase = "Open"
                  /\ requests'[q].requester = requests[q].requester
                  /\ requests'[q].bound = requests[q].bound
                  /\ requests'[q].pending \subseteq requests[q].pending
                  /\ requests'[q].requester # a
                  /\ \A x \in requests'[q].pending : requests'[q].bound[x] # a
  BY <1>3, RequestClosedKeeps
<1> QED BY <1>1, <1>2, <1>4, <1>5

\* Whatever else becomes of the fences, as long as the others that are live
\* stay as they are, ending an assignment keeps the invariant.
LEMMA EndingKeeps ==
  ASSUME SwarmInv, NEW a \in Assignments, ClosesOpen(a), UNCHANGED <<policy, editing>>,
         fences' \in [Assignments -> FenceType],
         \A b \in Assignments \ {a} : Active(b) => fences'[b] = fences[b]
  PROVE  SwarmInv'
<1>1. ClosesOpen(a) /\ UNCHANGED <<policy, editing>>
  OBVIOUS
<1>2. TypeOK'
  BY <1>1, ClosesOpenKeeps DEF SwarmInv, TypeOK
<1>3. \A b \in Assignments \ {a} : Active(b) => fences'[b] = fences[b]
  OBVIOUS
<1>4. ValidSwarm'
  <2>1. NoCollision(claims, policy)' BY <1>1, ClosesOpenKeeps, FewerClaims DEF SwarmInv, ValidSwarm
  <2>2. \A c \in Claims : Held(c)' => claims'[c].owner \in Assignments /\ fences'[claims'[c].owner].phase = "Active"
    BY <1>1, <1>3, ClosesOpenKeeps DEF SwarmInv, ValidSwarm, Held, Active
  <2> QED BY <1>1, <2>1, <2>2, ClosesOpenKeeps DEF ValidSwarm, Active, Held
<1>5. NothingOutlives'
  <2>1. ASSUME NEW q \in Requests, requests'[q].phase = "Open"
        PROVE  /\ requests'[q].requester \in Assignments /\ fences'[requests'[q].requester].phase = "Active"
               /\ \A x \in requests'[q].pending : requests'[q].bound[x] # None =>
                    fences'[requests'[q].bound[x]].phase = "Active" /\ fences'[requests'[q].bound[x]].agent = x
    <3>1. \A x \in requests'[q].pending : /\ requests'[q].bound[x] \in Assignments \cup {None}
                                          /\ x \in requests[q].pending
      BY <1>1, <1>2, <2>1, ClosesOpenKeeps DEF TypeOK, RequestType
    <3> QED BY <1>1, <1>3, <2>1, <3>1, ClosesOpenKeeps DEF SwarmInv, NothingOutlives, Active
  <2>2. ASSUME NEW t \in Transfers, transfers'[t].phase = "Requested"
        PROVE  /\ transfers'[t].claim \in Claims
               /\ transfers'[t].from \in Assignments /\ transfers'[t].to \in Assignments
               /\ fences'[transfers'[t].from].phase = "Active" /\ fences'[transfers'[t].to].phase = "Active"
    BY <1>1, <1>3, <2>2, ClosesOpenKeeps DEF SwarmInv, NothingOutlives, Active
  <2> QED BY <2>1, <2>2 DEF NothingOutlives, Active
<1> QED BY <1>2, <1>4, <1>5 DEF SwarmInv

LEMMA CloseKeeps ==
  ASSUME SwarmInv, NEW a \in Assignments, Close(a)
  PROVE  SwarmInv'
<1>1. fences' \in [Assignments -> FenceType]
  BY DEF Close, SwarmInv, TypeOK, FenceOf, FenceType
<1>2. \A b \in Assignments \ {a} : fences'[b] = fences[b]
  BY DEF Close, SwarmInv, TypeOK
<1> QED BY <1>1, <1>2, EndingKeeps DEF Close

LEMMA ActivateKeeps ==
  ASSUME SwarmInv, NEW a \in Assignments, NEW x \in Agents, Activate(a, x)
  PROVE  SwarmInv'
<1> DEFINE opened == [agent |-> x, phase |-> "Active"]
<1>1. opened \in FenceType /\ FenceOf("Superseded") \in FenceType
  BY DEF FenceType, FenceOf
<1>2. CASE fences' = [fences EXCEPT ![a] = opened] /\ UNCHANGED <<claims, requests, transfers>>
  <2>1. fences' \in [Assignments -> FenceType]
    BY <1>1, <1>2 DEF SwarmInv, TypeOK
  <2>2. \A b \in Assignments : Active(b) => fences'[b] = fences[b]
    BY <1>2 DEF SwarmInv, TypeOK, Activate, Active
  <2>3. TypeOK' BY <1>2, <2>1 DEF SwarmInv, TypeOK, Activate
  <2>4. ValidSwarm'
    BY <1>2, <2>2 DEF SwarmInv, ValidSwarm, Activate, Held, Active, NoCollision, Collisions
  <2>5. NothingOutlives'
    <3>1. ASSUME NEW q \in Requests, requests[q].phase = "Open"
          PROVE  /\ requests[q].requester \in Assignments
                 /\ fences'[requests[q].requester].phase = "Active"
                 /\ \A y \in requests[q].pending : requests[q].bound[y] # None =>
                      /\ fences'[requests[q].bound[y]].phase = "Active"
                      /\ fences'[requests[q].bound[y]].agent = y
      <4>1. \A y \in requests[q].pending : requests[q].bound[y] \in Assignments \cup {None}
        BY DEF SwarmInv, TypeOK, RequestType
      <4> QED BY <2>2, <3>1, <4>1 DEF SwarmInv, NothingOutlives, Active
    <3> QED BY <1>2, <2>2, <3>1 DEF SwarmInv, NothingOutlives, Active
  <2> QED BY <2>3, <2>4, <2>5 DEF SwarmInv
<1>3. ASSUME NEW b \in Prior(a), ClosesOpen(b),
             fences' = [fences EXCEPT ![a] = opened, ![b] = FenceOf("Superseded")]
      PROVE  SwarmInv'
  <2>1. b \in Assignments BY DEF Prior
  <2>2. fences' \in [Assignments -> FenceType]
    BY <1>1, <1>3, <2>1 DEF SwarmInv, TypeOK
  <2>3. \A d \in Assignments \ {b} : Active(d) => fences'[d] = fences[d]
    BY <1>3, <2>1 DEF SwarmInv, TypeOK, Activate, Active
  <2> QED BY <1>3, <2>1, <2>2, <2>3, EndingKeeps DEF Activate
<1> QED BY <1>2, <1>3 DEF Activate

-----------------------------------------------------------------------------
(* The modes of the task tool.                                             *)

\* An operation that only changes claims keeps the invariant if the claims that
\* are held are of live assignments and do not collide.
LEMMA ClaimStepKeeps ==
  ASSUME SwarmInv, UNCHANGED <<policy, fences, requests, transfers, editing>>,
         claims' \in [Claims -> ClaimType],
         NoCollision(claims', policy),
         \A c \in Claims : claims'[c].phase = "Held" =>
            claims'[c].owner \in Assignments /\ Active(claims'[c].owner)
  PROVE  SwarmInv'
BY DEF SwarmInv, TypeOK, ValidSwarm, NothingOutlives, Held, Active, NoCollision, Collisions

LEMMA RegisterKeeps ==
  ASSUME SwarmInv, NEW x \in Agents, NEW c \in Claims, NEW r \in Resources, Register(x, c, r)
  PROVE  SwarmInv'
<1>1. PICK a \in Bindings(x) :
        /\ policy = "Protective" => Collisions(claims, a, r) = {}
        /\ claims' = [claims EXCEPT ![c] = [phase |-> "Held", owner |-> a, resource |-> r]]
  BY DEF Register
<1>2. a \in Assignments /\ Active(a) /\ r \in ResourceType
  BY SwarmAssumption DEF Bindings
<1>3. claims' \in [Claims -> ClaimType]
  BY <1>1, <1>2 DEF SwarmInv, TypeOK, ClaimType
<1>4. NoCollision(claims', policy)
  BY <1>1, <1>2, OneMoreClaim DEF SwarmInv, TypeOK, ValidSwarm
<1>5. \A d \in Claims : claims'[d].phase = "Held" =>
         claims'[d].owner \in Assignments /\ Active(claims'[d].owner)
  BY <1>1, <1>2 DEF SwarmInv, TypeOK, ValidSwarm, Held
<1> QED BY <1>3, <1>4, <1>5, ClaimStepKeeps DEF Register

LEMMA ReleaseKeeps ==
  ASSUME SwarmInv, NEW x \in Agents, NEW c \in Claims, Release(x, c)
  PROVE  SwarmInv'
<1>1. ClaimOf("Released") \in ClaimType /\ ClaimOf("Released").phase # "Held"
  BY DEF ClaimOf, ClaimType, NoResource, ResourceType, Access
<1>2. /\ claims' \in [Claims -> ClaimType]
      /\ \A d \in Claims : claims'[d].phase = "Held" => claims'[d] = claims[d]
  BY <1>1 DEF Release, SwarmInv, TypeOK
<1>3. NoCollision(claims', policy)
  BY <1>2, FewerClaims DEF SwarmInv, ValidSwarm
<1> QED BY <1>2, <1>3, ClaimStepKeeps DEF Release, SwarmInv, ValidSwarm, Held

LEMMA SetPolicyKeeps ==
  ASSUME SwarmInv, NEW p \in {"Disabled", "Advisory", "Protective"}, SetPolicy(p)
  PROVE  SwarmInv'
BY DEF SetPolicy, SwarmInv, TypeOK, ValidSwarm, NothingOutlives, Held, Active,
       NoCollision, Collisions

\* An operation that only changes one request keeps the invariant if that one,
\* when open, waits between live assignments.
LEMMA RequestStepKeeps ==
  ASSUME SwarmInv, UNCHANGED <<policy, fences, claims, transfers, editing>>,
         NEW q \in Requests, NEW new \in RequestType,
         requests' = [requests EXCEPT ![q] = new],
         new.phase = "Open" <=> new.pending # {},
         new.phase = "Open" =>
           /\ new.requester \in Assignments /\ Active(new.requester)
           /\ \A x \in new.pending : new.bound[x] # None =>
                Active(new.bound[x]) /\ fences[new.bound[x]].agent = x
  PROVE  SwarmInv'
<1>1. requests' \in [Requests -> RequestType]
  BY DEF SwarmInv, TypeOK
<1>2. TypeOK' BY <1>1 DEF SwarmInv, TypeOK
<1>3. \A r \in Requests : requests'[r] = IF r = q THEN new ELSE requests[r]
  BY DEF SwarmInv, TypeOK
<1>4. ValidSwarm'
  BY <1>3 DEF SwarmInv, ValidSwarm, Held, Active, NoCollision, Collisions
<1>5. NothingOutlives'
  BY <1>3 DEF SwarmInv, NothingOutlives, Active
<1> QED BY <1>2, <1>4, <1>5 DEF SwarmInv

LEMMA RequestKeeps ==
  ASSUME SwarmInv, NEW x \in Agents, NEW q \in Requests, NEW peers \in SUBSET Agents,
         Request(x, q, peers)
  PROVE  SwarmInv'
<1>1. PICK a \in Bindings(x), bound \in [Agents -> Assignments \cup {None}] :
        /\ \A y \in Agents : bound[y] \in (IF y \in peers THEN BindingOf(y) ELSE {None})
        /\ requests' = [requests EXCEPT ![q] =
              [phase |-> "Open", requester |-> a, pending |-> peers, bound |-> bound]]
  BY DEF Request
<1> DEFINE new == [phase |-> "Open", requester |-> a, pending |-> peers, bound |-> bound]
<1>2. a \in Assignments /\ Active(a) BY DEF Bindings
<1>3. new \in RequestType BY <1>2 DEF RequestType
<1>4. \A y \in peers : bound[y] # None => Active(bound[y]) /\ fences[bound[y]].agent = y
  BY <1>1 DEF BindingOf, Bindings
<1>5. peers # {} /\ UNCHANGED <<policy, fences, claims, transfers, editing>>
  BY DEF Request
<1>6. requests' = [requests EXCEPT ![q] = new] BY <1>1
<1>7. /\ new.phase = "Open" /\ new.requester = a /\ new.pending = peers /\ new.bound = bound
  OBVIOUS
<1> HIDE DEF new
<1> QED BY <1>2, <1>3, <1>4, <1>5, <1>6, <1>7, RequestStepKeeps

LEMMA RespondKeeps ==
  ASSUME SwarmInv, NEW x \in Agents, NEW q \in Requests, Respond(x, q)
  PROVE  SwarmInv'
<1> DEFINE new == Without(requests[q], {x})
<1>1. requests[q] \in RequestType /\ requests[q].phase = "Open"
  BY DEF SwarmInv, TypeOK, Respond
<1>2. /\ new \in RequestType
      /\ new.phase = "Open" <=> new.pending # {}
      /\ new.phase = "Open" => /\ new.requester = requests[q].requester
                              /\ new.bound = requests[q].bound
                              /\ new.pending \subseteq requests[q].pending
  <2> DEFINE r == requests[q]
  <2>1. r \in RequestType /\ r.phase = "Open" BY <1>1
  <2> HIDE DEF r
  <2>2. /\ Without(r, {x}) \in RequestType
        /\ Without(r, {x}).phase = "Open" <=> Without(r, {x}).pending # {}
        /\ Without(r, {x}).phase = "Open" =>
             /\ Without(r, {x}).requester = r.requester /\ Without(r, {x}).bound = r.bound
             /\ Without(r, {x}).pending = r.pending \ {x}
    BY <2>1, WithoutKeeps
  <2> QED BY <2>2 DEF r
<1>3. requests' = [requests EXCEPT ![q] = new]
  BY DEF Respond
<1>4. UNCHANGED <<policy, fences, claims, transfers, editing>> BY DEF Respond
<1> HIDE DEF new
<1>5. new.phase = "Open" =>
        /\ new.requester \in Assignments /\ Active(new.requester)
        /\ \A y \in new.pending : new.bound[y] # None =>
             Active(new.bound[y]) /\ fences[new.bound[y]].agent = y
  BY <1>1, <1>2 DEF SwarmInv, NothingOutlives
<1> QED BY <1>2, <1>3, <1>4, <1>5, RequestStepKeeps

\* What becomes of transfers does not touch the rest.
LEMMA TransferStepKeeps ==
  ASSUME SwarmInv, UNCHANGED <<policy, fences, requests, editing>>,
         NEW t \in Transfers, NEW new \in TransferType,
         transfers' = [transfers EXCEPT ![t] = new],
         new.phase = "Requested" =>
           /\ new.claim \in Claims /\ new.from \in Assignments /\ new.to \in Assignments
           /\ Active(new.from) /\ Active(new.to),
         claims' \in [Claims -> ClaimType],
         NoCollision(claims', policy),
         \A c \in Claims : claims'[c].phase = "Held" =>
            claims'[c].owner \in Assignments /\ Active(claims'[c].owner)
  PROVE  SwarmInv'
<1>1. \A u \in Transfers : transfers'[u] = IF u = t THEN new ELSE transfers[u]
  BY DEF SwarmInv, TypeOK
<1>2. TypeOK' BY DEF SwarmInv, TypeOK
<1>3. ValidSwarm' BY DEF SwarmInv, ValidSwarm, Held, Active, NoCollision, Collisions
<1>4. NothingOutlives' BY <1>1 DEF SwarmInv, NothingOutlives, Active
<1> QED BY <1>2, <1>3, <1>4 DEF SwarmInv

LEMMA RequestTransferKeeps ==
  ASSUME SwarmInv, NEW x \in Agents, NEW t \in Transfers, NEW c \in Claims,
         NEW b \in Assignments, RequestTransfer(x, t, c, b)
  PROVE  SwarmInv'
<1> DEFINE new == [phase |-> "Requested", claim |-> c, from |-> claims[c].owner, to |-> b]
<1>1. claims[c].owner \in Assignments /\ Active(claims[c].owner) /\ Active(b)
  BY DEF RequestTransfer, Bindings
<1>2. new \in TransferType BY <1>1 DEF TransferType
<1>3. transfers' = [transfers EXCEPT ![t] = new] BY DEF RequestTransfer
<1>4. UNCHANGED <<policy, fences, claims, requests, editing>> BY DEF RequestTransfer
<1>5. new.phase = "Requested" /\ new.claim = c
      /\ new.from = claims[c].owner /\ new.to = b
  OBVIOUS
<1> HIDE DEF new
<1>6. /\ claims' \in [Claims -> ClaimType] /\ NoCollision(claims', policy)
      /\ \A d \in Claims : claims'[d].phase = "Held" =>
           claims'[d].owner \in Assignments /\ Active(claims'[d].owner)
  BY <1>4 DEF SwarmInv, TypeOK, ValidSwarm, Held
<1> QED BY <1>1, <1>2, <1>3, <1>4, <1>5, <1>6, TransferStepKeeps

LEMMA RejectKeeps ==
  ASSUME SwarmInv, NEW x \in Agents, NEW t \in Transfers, Reject(x, t)
  PROVE  SwarmInv'
<1>1. TransferOf("Rejected") \in TransferType /\ TransferOf("Rejected").phase # "Requested"
  BY DEF TransferOf, TransferType
<1>2. /\ UNCHANGED <<policy, fences, claims, requests, editing>>
      /\ transfers' = [transfers EXCEPT ![t] = TransferOf("Rejected")]
  BY DEF Reject
<1>3. /\ claims' \in [Claims -> ClaimType] /\ NoCollision(claims', policy)
      /\ \A d \in Claims : claims'[d].phase = "Held" =>
           claims'[d].owner \in Assignments /\ Active(claims'[d].owner)
  BY <1>2 DEF SwarmInv, TypeOK, ValidSwarm, Held
<1> QED BY <1>1, <1>2, <1>3, TransferStepKeeps

LEMMA ApproveKeeps ==
  ASSUME SwarmInv, NEW x \in Agents, NEW t \in Transfers, NEW c \in Claims, Approve(x, t, c)
  PROVE  SwarmInv'
<1> DEFINE old == transfers[t].claim
<1>1. TransferOf("Applied") \in TransferType /\ TransferOf("Applied").phase # "Requested"
  BY DEF TransferOf, TransferType
<1>2. /\ UNCHANGED <<policy, fences, requests, editing>>
      /\ transfers' = [transfers EXCEPT ![t] = TransferOf("Applied")]
      /\ claims' = Moved(t, c) /\ NoCollision(Moved(t, c), policy)
  BY DEF Approve
<1>3. transfers[t].to \in Assignments /\ Active(transfers[t].to)
  BY DEF Approve, CanDecide, Bindings
<1>4. ClaimOf("Released") \in ClaimType /\ ClaimOf("Released").phase # "Held"
  BY DEF ClaimOf, ClaimType, NoResource, ResourceType, Access
<1>5. old \in Claims
  BY DEF SwarmInv, NothingOutlives, Approve, CanDecide
<1>6. claims[old].resource \in ResourceType
  BY <1>5 DEF SwarmInv, TypeOK, ClaimType
<1>7. [phase |-> "Held", owner |-> transfers[t].to, resource |-> claims[old].resource] \in ClaimType
  BY <1>3, <1>6 DEF ClaimType
<1>8. claims' \in [Claims -> ClaimType]
  BY <1>2, <1>4, <1>7 DEF Moved, SwarmInv, TypeOK
<1>9. \A d \in Claims : claims'[d].phase = "Held" =>
        claims'[d].owner \in Assignments /\ Active(claims'[d].owner)
  BY <1>2, <1>3, <1>4, <1>5 DEF Moved, SwarmInv, TypeOK, ValidSwarm, Held
<1> QED BY <1>1, <1>2, <1>8, <1>9, TransferStepKeeps

\* No operation on the swarm breaks its half of the invariant.
LEMMA SwarmStepKeeps ==
  ASSUME SwarmInv, SwarmNext
  PROVE  SwarmInv'
<1>1. ASSUME NEW x \in Agents, AgentStep(x) PROVE SwarmInv'
  BY <1>1, ActivateKeeps, ReleaseKeeps, RegisterKeeps, RespondKeeps, RequestKeeps,
     RejectKeeps, ApproveKeeps, RequestTransferKeeps DEF AgentStep
<1> QED BY <1>1, CloseKeeps, SetPolicyKeeps DEF SwarmNext

-----------------------------------------------------------------------------
(* Edits.                                                                  *)

\* Files reserved at the authority are reserved by one editor.
Reserved ==
  \A e, o \in Editors : e # o /\ edits[e].stage \in Holding /\ edits[o].stage \in Holding =>
     edits[e].paths \cap edits[o].paths = {}

\* An editor of the graph that changes files holds the lock of the session.
LockHeld == \A e \in Editors : edits[e].stage \in Changing /\ Inside(e) => editing = e

\* Nothing is written before the check.
NothingDone == \A e \in Editors : edits[e].stage \notin Changing => edits[e].done = {}

IInv == /\ SwarmInv /\ EditsTypeOK
        /\ Reserved /\ LockHeld /\ NothingDone
        /\ NoForeignWrite /\ NoLostUpdate

LEMMA InitHolds == EditsInit => IInv
<1> SUFFICES ASSUME EditsInit PROVE IInv
  OBVIOUS
<1> USE DEF EditsInit, Init
<1>1. /\ ClaimOf("None") \in ClaimType /\ ClaimOf("None").phase = "None"
      /\ RequestOf("None") \in RequestType /\ RequestOf("None").phase = "None"
      /\ RequestOf("None").pending = {}
      /\ TransferOf("None") \in TransferType /\ TransferOf("None").phase = "None"
      /\ FenceOf("None") \in FenceType
  BY DEF ClaimOf, ClaimType, NoResource, ResourceType, Access, RequestOf, RequestType,
         TransferOf, TransferType, FenceOf, FenceType
<1>2. TypeOK BY <1>1 DEF TypeOK
<1>3. ValidSwarm BY <1>1 DEF ValidSwarm, Held, NoCollision
<1>4. NothingOutlives BY <1>1 DEF NothingOutlives
<1>5. Idle \in EditType /\ Idle.stage = "idle" /\ Idle.done = {}
  BY DEF Idle, EditType, Stages, Unread
<1>6. EditsTypeOK BY <1>5 DEF EditsTypeOK, Unread
<1>7. Reserved /\ LockHeld /\ NothingDone /\ NoForeignWrite /\ NoLostUpdate
  BY <1>5 DEF Reserved, LockHeld, NothingDone, NoForeignWrite, NoLostUpdate, Holding, Changing
<1> QED BY <1>2, <1>3, <1>4, <1>6, <1>7 DEF IInv, SwarmInv

\* Only the lock of the session is of concern to an edit in the swarm's state.
LEMMA SwarmUntouched ==
  ASSUME SwarmInv, UNCHANGED <<policy, fences, claims, requests, transfers>>,
         editing' \in Editors \cup {Free}
  PROVE  SwarmInv' /\ \A e \in Editors : Bindings(AgentOf[e])' = Bindings(AgentOf[e])
BY DEF SwarmInv, TypeOK, ValidSwarm, NothingOutlives, Held, Active, NoCollision, Collisions,
       Bindings

\* While an edit has the lock claims only end: no operation on the swarm makes a
\* claim foreign to it, nor the policy protective.
LEMMA LockedClaimsOnlyEnd ==
  ASSUME SwarmInv, SwarmNext, editing # Free, NEW e \in Editors,
         edits' = edits
  PROVE  policy' = policy /\ editing' = editing /\ ForeignClaims(e)' \subseteq ForeignClaims(e)
<1> SUFFICES /\ policy' = policy /\ editing' = editing
             /\ \A c \in Claims : claims'[c].phase = "Held" =>
                  /\ claims'[c] = claims[c]
                  /\ claims[c].owner \in Bindings(AgentOf[e]) =>
                       claims[c].owner \in Bindings(AgentOf[e])'
  BY DEF ForeignClaims, Held
<1>1. ASSUME NEW a \in Assignments, Close(a)
      PROVE  /\ policy' = policy /\ editing' = editing
             /\ \A c \in Claims : claims'[c].phase = "Held" =>
                  /\ claims'[c] = claims[c]
                  /\ claims[c].owner \in Bindings(AgentOf[e]) =>
                       claims[c].owner \in Bindings(AgentOf[e])'
  <2>1. ClosesOpen(a) /\ policy' = policy /\ editing' = editing
        /\ \A b \in Assignments \ {a} : fences'[b] = fences[b]
    BY <1>1 DEF Close, SwarmInv, TypeOK
  <2> QED BY <2>1, ClosesOpenKeeps DEF Bindings, Active
<1>2. ASSUME NEW a \in Assignments, NEW x \in Agents, Activate(a, x)
      PROVE  /\ policy' = policy /\ editing' = editing
             /\ \A c \in Claims : claims'[c].phase = "Held" =>
                  /\ claims'[c] = claims[c]
                  /\ claims[c].owner \in Bindings(AgentOf[e]) =>
                       claims[c].owner \in Bindings(AgentOf[e])'
  <2> DEFINE opened == [agent |-> x, phase |-> "Active"]
  <2>1. fences[a].phase = "None" /\ policy' = policy /\ editing' = editing
    BY <1>2 DEF Activate
  <2>2. CASE fences' = [fences EXCEPT ![a] = opened] /\ UNCHANGED <<claims, requests, transfers>>
    BY <2>1, <2>2 DEF Bindings, Active, SwarmInv, TypeOK
  <2>3. ASSUME NEW b \in Prior(a), ClosesOpen(b),
               fences' = [fences EXCEPT ![a] = opened, ![b] = FenceOf("Superseded")]
        PROVE  \A c \in Claims : claims'[c].phase = "Held" =>
                  /\ claims'[c] = claims[c]
                  /\ claims[c].owner \in Bindings(AgentOf[e]) =>
                       claims[c].owner \in Bindings(AgentOf[e])'
    <3>1. b \in Assignments BY DEF Prior
    <3>2. \A d \in Assignments \ {b} : Active(d) => fences'[d] = fences[d]
      BY <2>1, <2>3, <3>1 DEF SwarmInv, TypeOK, Active
    <3>3. \A c \in Claims : claims'[c].phase = "Held" => claims'[c] = claims[c] /\ claims[c].owner # b
      BY <2>3, <3>1, ClosesOpenKeeps
    <3>4. \A d \in Assignments \ {b} :
             d \in Bindings(AgentOf[e]) => d \in Bindings(AgentOf[e])'
      BY <3>2 DEF Bindings, Active
    <3>5. Bindings(AgentOf[e]) \subseteq Assignments BY DEF Bindings
    <3> QED BY <3>3, <3>4, <3>5
  <2> QED BY <1>2, <2>1, <2>2, <2>3 DEF Activate
<1> QED BY <1>1, <1>2, ZenonT(40) DEF SwarmNext, AgentStep, Register, Release, Request, Respond,
           RequestTransfer, Reject, Approve, CanDecide, SetPolicy

LEMMA SwarmNextKeeps ==
  ASSUME IInv, SwarmNext, UNCHANGED editing_vars
  PROVE  IInv'
<1> USE DEF IInv, editing_vars
<1>1. SwarmInv' BY SwarmStepKeeps
<1>2. \A e \in Editors : edits[e].stage \in Changing /\ Inside(e) =>
        editing # Free /\ editing' = editing /\ policy' = policy
        /\ ForeignClaims(e)' \subseteq ForeignClaims(e)
  BY LockedClaimsOnlyEnd, SwarmAssumption DEF LockHeld
<1>3. LockHeld' BY <1>2 DEF LockHeld, Inside
<1>4. NoForeignWrite' BY <1>2 DEF NoForeignWrite, Inside
<1>5. EditsTypeOK' /\ Reserved' /\ NothingDone' /\ NoLostUpdate'
  BY DEF EditsTypeOK, Reserved, NothingDone, NoLostUpdate
<1> QED BY <1>1, <1>3, <1>4, <1>5

\* An edit that ends keeps the invariant, whatever it did to files it reserved.
LEMMA EndsKeeps ==
  ASSUME IInv, NEW e \in Editors, Ends(e), content' \in [Files -> Nat],
         generation' \in [Files -> Nat], sequence' \in Nat,
         used' \in [edits: Nat, outside: Nat, faults: Nat, version: Nat],
         \A f \in Files : content'[f] # content[f] =>
            edits[e].stage \in Changing /\ f \in edits[e].paths
  PROVE  IInv'
<1> USE DEF IInv
<1>1. Idle \in EditType /\ Idle.stage = "idle" /\ Idle.done = {}
  BY DEF Idle, EditType, Stages, Unread
<1>2. /\ edits' \in [Editors -> EditType]
      /\ edits'[e] = Idle
      /\ \A o \in Editors \ {e} :
           \/ edits'[o] = edits[o]
           \/ /\ edits[o].stage = "parked" /\ edits'[o] = [edits[o] EXCEPT !.stage = "acquire"]
  <2>1. \A o \in Editors : edits'[o] =
          IF o = e THEN Idle
          ELSE IF edits[o].stage = "parked" /\ edits[e].stage \in Holding
               THEN [edits[o] EXCEPT !.stage = "acquire"] ELSE edits[o]
    BY DEF Ends, At
  <2>2. \A o \in Editors : /\ edits[o] \in EditType
                           /\ [edits[o] EXCEPT !.stage = "acquire"] \in EditType
    <3>1. "acquire" \in Stages BY DEF Stages
    <3>2. \A o \in Editors : edits[o] \in EditType BY DEF EditsTypeOK
    <3>3. \A r \in EditType : [r EXCEPT !.stage = "acquire"] \in EditType
      BY <3>1 DEF EditType
    <3> QED BY <3>2, <3>3
  <2>3. \A o \in Editors : edits'[o] \in EditType
    BY <1>1, <2>1, <2>2
  <2>4. edits' \in [Editors -> EditType]
    BY <2>3 DEF Ends
  <2> QED BY <2>1, <2>4
<1>3. \A o \in Editors : edits'[o].stage \in Holding =>
        o # e /\ edits'[o] = edits[o] /\ edits[o].stage \in Holding
  BY <1>1, <1>2 DEF Holding, EditsTypeOK, EditType
<1>4. \A o \in Editors : edits'[o].stage \in Changing =>
        /\ o # e /\ edits'[o] = edits[o] /\ edits[o].stage \in Changing
        /\ edits[o].stage \in Holding
  BY <1>3 DEF Holding, Changing
<1>5. Reserved' BY <1>3 DEF Reserved
<1>6. UNCHANGED <<policy, fences, claims, requests, transfers>>
      /\ editing' \in Editors \cup {Free}
      /\ \A o \in Editors : o # e /\ editing = o => editing' = o
  BY DEF Ends, SwarmInv, TypeOK
<1>7. SwarmInv' /\ \A o \in Editors : Bindings(AgentOf[o])' = Bindings(AgentOf[o])
  BY <1>6, SwarmUntouched
<1>8. LockHeld' BY <1>4, <1>6 DEF LockHeld, Inside
<1>9. NothingDone'
  <2> SUFFICES ASSUME NEW o \in Editors, edits'[o].stage \notin Changing
               PROVE  edits'[o].done = {}
    BY DEF NothingDone
  <2>1. CASE o = e BY <1>1, <1>2, <2>1
  <2>2. CASE edits'[o] = edits[o] BY <2>2 DEF NothingDone
  <2>3. CASE edits[o].stage = "parked" /\ edits'[o] = [edits[o] EXCEPT !.stage = "acquire"]
    <3>1. edits[o] \in EditType BY DEF EditsTypeOK
    <3>2. edits'[o].done = edits[o].done BY <2>3, <3>1 DEF EditType
    <3> QED BY <2>3, <3>2 DEF NothingDone, Changing
  <2> QED BY <1>2, <2>1, <2>2, <2>3
<1>10. NoForeignWrite'
  <2>1. \A o \in Editors : edits'[o] = edits[o] => ForeignClaims(o)' = ForeignClaims(o)
    BY <1>6, <1>7 DEF ForeignClaims, Held
  <2> QED BY <1>4, <1>6, <2>1 DEF NoForeignWrite, Inside
<1>11. NoLostUpdate'
  <2> SUFFICES ASSUME NEW o \in Editors, edits'[o].stage \in Changing,
                      NEW f \in edits'[o].paths \ edits'[o].disturbed
               PROVE  content'[f] = IF f \in edits'[o].done THEN edits'[o].new
                                    ELSE edits'[o].base[f]
    BY DEF NoLostUpdate
  <2>1. o # e /\ edits'[o] = edits[o] /\ edits[o].stage \in Changing
        /\ edits[o].stage \in Holding
    BY <1>4
  <2>2. f \in Files BY <2>1 DEF EditsTypeOK, EditType
  <2>3. content'[f] = content[f]
    BY <2>1, <2>2 DEF Reserved, Holding, Changing
  <2> QED BY <2>1, <2>3 DEF NoLostUpdate
<1>12. EditsTypeOK' BY <1>2 DEF EditsTypeOK
<1> QED BY <1>5, <1>7, <1>8, <1>9, <1>10, <1>11, <1>12

\* An edit that goes on without files reserved keeps the invariant.
LEMMA WaitingKeeps ==
  ASSUME IInv, NEW e \in Editors, NEW new \in EditType, edits' = [edits EXCEPT ![e] = new],
         new.stage \notin Holding, edits[e].stage \notin Holding, new.done = {},
         used' \in [edits: Nat, outside: Nat, faults: Nat, version: Nat],
         UNCHANGED <<swarm, content, generation, sequence>>
  PROVE  IInv'
<1> USE DEF IInv, swarm
<1>1. \A o \in Editors : edits'[o] = IF o = e THEN new ELSE edits[o]
  BY DEF EditsTypeOK
<1>2. \A o \in Editors : edits'[o].stage \in Holding \/ edits'[o].stage \in Changing =>
        edits'[o] = edits[o]
  BY <1>1 DEF Holding, Changing
<1>3. SwarmInv' /\ \A o \in Editors : Bindings(AgentOf[o])' = Bindings(AgentOf[o])
  BY SwarmUntouched DEF SwarmInv, TypeOK
<1>4. EditsTypeOK' BY DEF EditsTypeOK
<1>5. Reserved' BY <1>2 DEF Reserved
<1>6. LockHeld' BY <1>2 DEF LockHeld, Inside
<1>7. NothingDone' BY <1>1 DEF NothingDone
<1>8. NoForeignWrite'
  <2>1. \A o \in Editors : edits'[o] = edits[o] => ForeignClaims(o)' = ForeignClaims(o)
    BY <1>3 DEF ForeignClaims, Held
  <2> QED BY <1>2, <2>1 DEF NoForeignWrite, Inside
<1>9. NoLostUpdate' BY <1>2 DEF NoLostUpdate
<1> QED BY <1>3, <1>4, <1>5, <1>6, <1>7, <1>8, <1>9

LEMMA PrepareKeeps ==
  ASSUME IInv, NEW e \in Editors, NEW paths \in SUBSET Files, Prepare(e, paths)
  PROVE  IInv'
<1> DEFINE new == [Idle EXCEPT !.stage = "snapshot", !.paths = paths, !.begin = sequence]
<1>1. new \in EditType /\ new.stage = "snapshot" /\ new.done = {}
  BY DEF Idle, EditType, Stages, Unread, IInv, EditsTypeOK
<1>2. used' \in [edits: Nat, outside: Nat, faults: Nat, version: Nat]
  BY DEF Prepare, IInv, EditsTypeOK
<1>3. edits[e].stage = "idle" /\ edits' = [edits EXCEPT ![e] = new]
      /\ UNCHANGED <<swarm, content, generation, sequence>>
  BY DEF Prepare, At
<1> HIDE DEF new
<1> QED BY <1>1, <1>2, <1>3, WaitingKeeps DEF Holding

LEMMA SnapshotKeeps ==
  ASSUME IInv, NEW e \in Editors, Snapshot(e)
  PROVE  IInv'
<1> DEFINE new == [edits[e] EXCEPT !.stage = "capture", !.snap = content]
<1>1. edits[e] \in EditType /\ edits[e].stage = "snapshot" /\ edits[e].done = {}
  BY DEF IInv, EditsTypeOK, NothingDone, Snapshot, At, Changing
<1>2. new \in EditType /\ new.stage = "capture" /\ new.done = {}
  BY <1>1 DEF EditType, Stages, IInv, EditsTypeOK
<1>3. edits' = [edits EXCEPT ![e] = new]
      /\ UNCHANGED <<swarm, content, generation, sequence, used>>
  BY DEF Snapshot, IInv, EditsTypeOK
<1> HIDE DEF new
<1> QED BY <1>1, <1>2, <1>3, WaitingKeeps DEF Holding, IInv, EditsTypeOK

LEMMA CaptureKeeps ==
  ASSUME IInv, NEW e \in Editors, Capture(e)
  PROVE  IInv'
<1> DEFINE new == [edits[e] EXCEPT !.stage = "acquire", !.base = content]
<1>1. edits[e] \in EditType /\ edits[e].stage = "capture" /\ edits[e].done = {}
  BY DEF IInv, EditsTypeOK, NothingDone, Capture, At, Changing
<1>2. new \in EditType /\ new.stage = "acquire" /\ new.done = {}
  BY <1>1 DEF EditType, Stages, IInv, EditsTypeOK
<1>3. edits' = [edits EXCEPT ![e] = new]
      /\ UNCHANGED <<swarm, content, generation, sequence, used>>
  BY DEF Capture, IInv, EditsTypeOK
<1> HIDE DEF new
<1> QED BY <1>1, <1>2, <1>3, WaitingKeeps DEF Holding, IInv, EditsTypeOK

LEMMA AcquireKeeps ==
  ASSUME IInv, NEW e \in Editors, Acquire(e)
  PROVE  IInv'
<1>1. edits[e] \in EditType /\ edits[e].stage = "acquire" /\ edits[e].done = {}
  BY DEF IInv, EditsTypeOK, NothingDone, Acquire, At, Changing
<1>2. UNCHANGED <<content, generation, sequence, used>>
  BY DEF Acquire
<1>3. CASE Ends(e)
  BY <1>2, <1>3, EndsKeeps DEF IInv, EditsTypeOK
<1>4. CASE Goes(e, "parked") /\ UNCHANGED swarm
  <2> DEFINE new == [edits[e] EXCEPT !.stage = "parked"]
  <2>1. new \in EditType /\ new.stage = "parked" /\ new.done = {}
    BY <1>1 DEF EditType, Stages
  <2>2. edits' = [edits EXCEPT ![e] = new]
    BY <1>4 DEF Goes, IInv, EditsTypeOK
  <2> HIDE DEF new
  <2> QED BY <1>1, <1>2, <1>4, <2>1, <2>2, WaitingKeeps DEF Holding, IInv, EditsTypeOK
<1>5. CASE ~Taken(e) /\ Goes(e, "check") /\ UNCHANGED swarm
  <2> USE DEF IInv
  <2>1. /\ edits' \in [Editors -> EditType]
        /\ edits'[e] = [edits[e] EXCEPT !.stage = "check"]
        /\ \A o \in Editors \ {e} : edits'[o] = edits[o]
    BY <1>1, <1>5 DEF Goes, EditsTypeOK, EditType, Stages
  <2>2. edits'[e].stage = "check" /\ edits'[e].paths = edits[e].paths /\ edits'[e].done = {}
    BY <1>1, <2>1 DEF EditType
  <2>3. Reserved'
    BY <1>5, <2>1, <2>2 DEF Reserved, Taken
  <2>4. \A o \in Editors : edits'[o].stage \in Changing => o # e /\ edits'[o] = edits[o]
    BY <2>1, <2>2 DEF Changing
  <2>5. UNCHANGED <<policy, fences, claims, requests, transfers, editing>>
    BY <1>5 DEF swarm
  <2>6. SwarmInv' /\ \A o \in Editors : Bindings(AgentOf[o])' = Bindings(AgentOf[o])
    BY <2>5, SwarmUntouched DEF SwarmInv, TypeOK
  <2>7. EditsTypeOK' BY <1>2, <2>1 DEF EditsTypeOK
  <2>8. LockHeld' BY <2>4, <2>5 DEF LockHeld, Inside
  <2>9. NothingDone' BY <2>1, <2>2 DEF NothingDone
  <2>10. NoForeignWrite'
    <3>1. \A o \in Editors : edits'[o] = edits[o] => ForeignClaims(o)' = ForeignClaims(o)
      BY <2>5, <2>6 DEF ForeignClaims, Held
    <3> QED BY <2>4, <2>5, <3>1 DEF NoForeignWrite, Inside
  <2>11. NoLostUpdate' BY <1>2, <2>4 DEF NoLostUpdate
  <2> QED BY <2>3, <2>6, <2>7, <2>8, <2>9, <2>10, <2>11
<1> QED BY <1>3, <1>4, <1>5 DEF Acquire

\* A step that leaves the swarm's state alone but for the lock, and reserves
\* nothing, keeps what does not depend on how far an edit has got.
LEMMA ReservedStays ==
  ASSUME IInv, edits' \in [Editors -> EditType],
         \A e \in Editors : /\ edits'[e].paths = edits[e].paths
                            /\ edits'[e].stage \in Holding => edits[e].stage \in Holding,
         UNCHANGED <<policy, fences, claims, requests, transfers, generation, sequence>>,
         editing' \in Editors \cup {Free}, content' \in [Files -> Nat],
         used' \in [edits: Nat, outside: Nat, faults: Nat, version: Nat]
  PROVE  /\ SwarmInv' /\ EditsTypeOK' /\ Reserved'
         /\ \A e \in Editors : ForeignClaims(e)' = ForeignClaims(e)
<1> USE DEF IInv
<1>1. SwarmInv' /\ \A e \in Editors : Bindings(AgentOf[e])' = Bindings(AgentOf[e])
  BY SwarmUntouched
<1>2. EditsTypeOK' BY DEF EditsTypeOK
<1>3. Reserved' BY DEF Reserved
<1>4. \A e \in Editors : ForeignClaims(e)' = ForeignClaims(e)
  BY <1>1 DEF ForeignClaims, Held
<1> QED BY <1>1, <1>2, <1>3, <1>4

LEMMA CheckKeeps ==
  ASSUME IInv, NEW e \in Editors, Check(e)
  PROVE  IInv'
<1> USE DEF IInv
<1>1. edits[e] \in EditType /\ edits[e].stage = "check" /\ edits[e].done = {}
  BY DEF EditsTypeOK, NothingDone, Check, At, Changing
<1>2. UNCHANGED <<content, generation, sequence>>
  BY DEF Check
<1>3. CASE Ends(e) /\ UNCHANGED used
  BY <1>2, <1>3, EndsKeeps DEF EditsTypeOK
<1>4. CASE /\ ~Refused(e)
           /\ editing' = IF Inside(e) THEN e ELSE editing
           /\ used' = [used EXCEPT !.version = @ + 1]
           /\ edits' = [edits EXCEPT ![e].stage = "write", ![e].new = used.version + 1]
           /\ UNCHANGED <<policy, fences, claims, requests, transfers>>
  <2> DEFINE new == [edits[e] EXCEPT !.stage = "write", !.new = used.version + 1]
  <2>1. used.version + 1 \in Nat
        /\ used' \in [edits: Nat, outside: Nat, faults: Nat, version: Nat]
    BY <1>4 DEF EditsTypeOK
  <2>2. /\ new \in EditType /\ new.stage = "write" /\ new.done = {}
        /\ new.paths = edits[e].paths /\ new.base = edits[e].base
    BY <1>1, <2>1 DEF EditType, Stages
  <2>3. edits' = [edits EXCEPT ![e] = new]
    BY <1>4 DEF EditsTypeOK
  <2> HIDE DEF new
  <2>4. /\ edits' \in [Editors -> EditType] /\ edits'[e] = new
        /\ \A o \in Editors \ {e} : edits'[o] = edits[o]
    BY <2>2, <2>3 DEF EditsTypeOK
  <2>5. editing' \in Editors \cup {Free}
    BY <1>4 DEF SwarmInv, TypeOK
  <2>6. /\ SwarmInv' /\ EditsTypeOK' /\ Reserved'
        /\ \A o \in Editors : ForeignClaims(o)' = ForeignClaims(o)
    <3>1. \A o \in Editors : /\ edits'[o].paths = edits[o].paths
                             /\ edits'[o].stage \in Holding => edits[o].stage \in Holding
      BY <1>1, <2>2, <2>4 DEF Holding
    <3>2. content' \in [Files -> Nat] BY <1>2 DEF EditsTypeOK
    <3> QED BY <1>2, <1>4, <2>1, <2>4, <2>5, <3>1, <3>2, ReservedStays
  <2>7. LockHeld'
    <3> SUFFICES ASSUME NEW o \in Editors, edits'[o].stage \in Changing, Inside(o)
                 PROVE  editing' = o
      BY DEF LockHeld, Inside
    <3>1. CASE o = e BY <1>4, <3>1
    <3>2. CASE o # e
      <4>1. editing = o BY <2>4, <3>2 DEF LockHeld
      <4>2. ~Inside(e) BY <4>1, SwarmAssumption DEF Check
      <4> QED BY <1>4, <4>1, <4>2
    <3> QED BY <3>1, <3>2
  <2>8. NothingDone' BY <2>2, <2>4 DEF NothingDone, Changing
  <2>9. NoForeignWrite'
    <3> SUFFICES ASSUME NEW o \in Editors, edits'[o].stage \in Changing, Inside(o),
                        policy = "Protective"
                 PROVE  ForeignClaims(o) = {}
      BY <1>4, <2>6 DEF NoForeignWrite, Inside
    <3>1. CASE o = e BY <1>4, <3>1 DEF Refused
    <3>2. CASE o # e BY <2>4, <3>2 DEF NoForeignWrite
    <3> QED BY <3>1, <3>2
  <2>10. NoLostUpdate'
    <3> SUFFICES ASSUME NEW o \in Editors, edits'[o].stage \in Changing,
                        NEW f \in edits'[o].paths \ edits'[o].disturbed
                 PROVE  content[f] = IF f \in edits'[o].done THEN edits'[o].new
                                     ELSE edits'[o].base[f]
      BY <1>2 DEF NoLostUpdate
    <3>1. CASE o = e BY <1>4, <2>2, <2>4, <3>1, ZenonT(40) DEF Refused
    <3>2. CASE o # e BY <2>4, <3>2 DEF NoLostUpdate
    <3> QED BY <3>1, <3>2
  <2> QED BY <2>6, <2>7, <2>8, <2>9, <2>10
<1> QED BY <1>3, <1>4 DEF Check

LEMMA CancelKeeps ==
  ASSUME IInv, NEW e \in Editors, Cancel(e)
  PROVE  IInv'
BY EndsKeeps DEF IInv, Cancel, EditsTypeOK

LEMMA RollBackKeeps ==
  ASSUME IInv, NEW e \in Editors, edits[e].stage \in Changing, RollBack(e)
  PROVE  IInv'
<1>1. edits[e].snap \in [Files -> Nat]
  BY DEF IInv, EditsTypeOK, EditType
<1>2. /\ content' \in [Files -> Nat]
      /\ \A f \in Files : content'[f] # content[f] => f \in edits[e].paths
  BY <1>1 DEF RollBack, IInv, EditsTypeOK
<1>3. /\ used' \in [edits: Nat, outside: Nat, faults: Nat, version: Nat]
      /\ generation' \in [Files -> Nat] /\ sequence' \in Nat
  BY DEF RollBack, IInv, EditsTypeOK
<1> QED BY <1>2, <1>3, EndsKeeps DEF RollBack

LEMMA WriteKeeps ==
  ASSUME IInv, NEW e \in Editors, Write(e)
  PROVE  IInv'
<1> USE DEF IInv
<1>1. edits[e] \in EditType /\ edits[e].stage = "write"
  BY DEF EditsTypeOK, Write, At
<1>2. CASE RollBack(e)
  BY <1>1, <1>2, RollBackKeeps DEF Changing
<1>3. ASSUME NEW f \in edits[e].paths \ edits[e].done,
             content' = [content EXCEPT ![f] = edits[e].new],
             edits' = [edits EXCEPT ![e].done = edits[e].done \cup {f},
                            ![e].stage = IF edits[e].done \cup {f} = edits[e].paths
                                         THEN "finish" ELSE @],
             UNCHANGED <<swarm, generation, sequence, used>>
      PROVE  IInv'
  <2> DEFINE stage == IF edits[e].done \cup {f} = edits[e].paths THEN "finish" ELSE "write"
             new == [edits[e] EXCEPT !.done = edits[e].done \cup {f}, !.stage = stage]
  <2>1. f \in Files BY <1>1 DEF EditType
  <2>2. /\ new \in EditType /\ new.stage \in Changing /\ new.done = edits[e].done \cup {f}
        /\ new.paths = edits[e].paths /\ new.base = edits[e].base
        /\ new.new = edits[e].new /\ new.disturbed = edits[e].disturbed
    BY <1>1, <2>1 DEF EditType, Stages, Changing
  <2>3. edits' = [edits EXCEPT ![e] = new]
    BY <1>1, <1>3 DEF EditsTypeOK
  <2> HIDE DEF new
  <2>4. /\ edits' \in [Editors -> EditType] /\ edits'[e] = new
        /\ \A o \in Editors \ {e} : edits'[o] = edits[o]
    BY <2>2, <2>3 DEF EditsTypeOK
  <2>5. /\ content' \in [Files -> Nat] /\ content'[f] = edits[e].new
        /\ \A h \in Files \ {f} : content'[h] = content[h]
    BY <1>1, <1>3, <2>1 DEF EditsTypeOK, EditType
  <2>6. edits[e].stage \in Holding /\ edits[e].stage \in Changing
    BY <1>1 DEF Holding, Changing
  <2>7. UNCHANGED <<policy, fences, claims, requests, transfers, editing, generation,
                    sequence, used>>
    BY <1>3 DEF swarm
  <2>8. /\ SwarmInv' /\ EditsTypeOK' /\ Reserved'
        /\ \A o \in Editors : ForeignClaims(o)' = ForeignClaims(o)
    <3>1. \A o \in Editors : /\ edits'[o].paths = edits[o].paths
                             /\ edits'[o].stage \in Holding => edits[o].stage \in Holding
      BY <2>2, <2>4, <2>6
    <3>2. /\ editing' \in Editors \cup {Free}
          /\ used' \in [edits: Nat, outside: Nat, faults: Nat, version: Nat]
      BY <2>7 DEF SwarmInv, TypeOK, EditsTypeOK
    <3> QED BY <2>4, <2>5, <2>7, <3>1, <3>2, ReservedStays
  <2>9. \A o \in Editors : edits'[o].stage \in Changing => edits[o].stage \in Changing
    BY <2>4, <2>6
  <2>10. LockHeld' BY <2>7, <2>9 DEF LockHeld, Inside
  <2>11. NothingDone' BY <2>2, <2>4 DEF NothingDone
  <2>12. NoForeignWrite' BY <2>7, <2>8, <2>9 DEF NoForeignWrite, Inside
  <2>13. NoLostUpdate'
    <3> SUFFICES ASSUME NEW o \in Editors, edits'[o].stage \in Changing,
                        NEW h \in edits'[o].paths \ edits'[o].disturbed
                 PROVE  content'[h] = IF h \in edits'[o].done THEN edits'[o].new
                                      ELSE edits'[o].base[h]
      BY DEF NoLostUpdate
    <3>1. h \in Files BY <2>4 DEF EditType
    <3>2. CASE o = e
      <4>1. content[h] = IF h \in edits[e].done THEN edits[e].new ELSE edits[e].base[h]
        BY <2>2, <2>4, <2>6, <3>2 DEF NoLostUpdate
      <4> QED BY <2>2, <2>4, <2>5, <3>1, <3>2, <4>1
    <3>3. CASE o # e
      <4>1. edits[o].stage \in Holding BY <2>9 DEF Holding, Changing
      <4>2. edits[o].paths \cap edits[e].paths = {} BY <2>6, <3>3, <4>1 DEF Reserved
      <4>3. h # f /\ content'[h] = content[h] BY <2>4, <2>5, <3>1, <3>3, <4>2
      <4> QED BY <2>4, <2>9, <3>3, <4>3 DEF NoLostUpdate
    <3> QED BY <3>2, <3>3
  <2> QED BY <2>8, <2>10, <2>11, <2>12, <2>13
<1> QED BY <1>2, <1>3 DEF Write

LEMMA FinishKeeps ==
  ASSUME IInv, NEW e \in Editors, Finish(e)
  PROVE  IInv'
<1>1. CASE RollBack(e)
  BY <1>1, RollBackKeeps DEF Finish, At, Changing
<1>2. CASE /\ sequence' = sequence + 1
           /\ generation' = [f \in Files |-> IF f \in edits[e].paths THEN sequence + 1
                                             ELSE generation[f]]
           /\ Ends(e)
           /\ UNCHANGED <<content, used>>
  <2>1. sequence' \in Nat /\ generation' \in [Files -> Nat]
    BY <1>2 DEF IInv, EditsTypeOK
  <2> QED BY <1>2, <2>1, EndsKeeps DEF IInv, EditsTypeOK
<1> QED BY <1>1, <1>2 DEF Finish

LEMMA OutsideKeeps ==
  ASSUME IInv, NEW f \in Files, Outside(f)
  PROVE  IInv'
<1> USE DEF IInv
<1>1. UNCHANGED <<policy, fences, claims, requests, transfers, editing, generation, sequence>>
  BY DEF Outside, swarm
<1>2. /\ used' \in [edits: Nat, outside: Nat, faults: Nat, version: Nat]
      /\ content' \in [Files -> Nat]
      /\ \A h \in Files \ {f} : content'[h] = content[h]
  <2>1. used.outside + 1 \in Nat /\ used.version + 1 \in Nat
    BY DEF EditsTypeOK
  <2>2. used' \in [edits: Nat, outside: Nat, faults: Nat, version: Nat]
    BY <2>1 DEF Outside, EditsTypeOK
  <2>3. content' = [content EXCEPT ![f] = used.version + 1]
    BY DEF Outside
  <2> QED BY <2>1, <2>2, <2>3 DEF EditsTypeOK
<1>3. ASSUME NEW e \in Editors
      PROVE  /\ edits'[e] \in EditType
             /\ edits'[e].stage = edits[e].stage /\ edits'[e].paths = edits[e].paths
             /\ edits'[e].done = edits[e].done /\ edits'[e].new = edits[e].new
             /\ edits'[e].base = edits[e].base
             /\ edits[e].stage \in Changing =>
                  edits'[e].disturbed = edits[e].disturbed \cup {f}
  BY DEF Outside, EditsTypeOK, EditType
<1>4. edits' \in [Editors -> EditType]
  BY <1>3 DEF Outside
<1>5. /\ SwarmInv' /\ EditsTypeOK' /\ Reserved'
      /\ \A e \in Editors : ForeignClaims(e)' = ForeignClaims(e)
  <2>1. editing' \in Editors \cup {Free} BY <1>1 DEF SwarmInv, TypeOK
  <2> QED BY <1>1, <1>2, <1>3, <1>4, <2>1, ReservedStays
<1>6. LockHeld' BY <1>1, <1>3 DEF LockHeld, Inside
<1>7. NothingDone' BY <1>3 DEF NothingDone
<1>8. NoForeignWrite' BY <1>1, <1>3, <1>5 DEF NoForeignWrite, Inside
<1>9. NoLostUpdate'
  <2> SUFFICES ASSUME NEW e \in Editors, edits'[e].stage \in Changing,
                      NEW h \in edits'[e].paths \ edits'[e].disturbed
               PROVE  content'[h] = IF h \in edits'[e].done THEN edits'[e].new
                                    ELSE edits'[e].base[h]
    BY DEF NoLostUpdate
  <2>1. h \in Files /\ h # f BY <1>3 DEF EditType
  <2> QED BY <1>2, <1>3, <2>1 DEF NoLostUpdate
<1> QED BY <1>5, <1>6, <1>7, <1>8, <1>9

LEMMA StepHolds == IInv /\ [Next]_vars => IInv'
<1> SUFFICES ASSUME IInv, [Next]_vars PROVE IInv'
  OBVIOUS
<1>1. CASE SwarmNext /\ UNCHANGED editing_vars
  BY <1>1, SwarmNextKeeps
<1>2. ASSUME NEW e \in Editors, EditStep(e) \/ Cancel(e) PROVE IInv'
  BY <1>2, SnapshotKeeps, CaptureKeeps, AcquireKeeps, CheckKeeps, WriteKeeps, FinishKeeps,
     CancelKeeps DEF EditStep
<1>3. ASSUME NEW e \in Editors, NEW paths \in SUBSET Files, Prepare(e, paths) PROVE IInv'
  BY <1>3, PrepareKeeps
<1>4. ASSUME NEW f \in Files, Outside(f) PROVE IInv'
  BY <1>4, OutsideKeeps
<1>5. CASE UNCHANGED vars
  BY <1>5 DEF vars, swarm, editing_vars, IInv, SwarmInv, TypeOK, ValidSwarm, NothingOutlives,
     Held, Active, NoCollision, Collisions, EditsTypeOK, Reserved, LockHeld, NothingDone,
     NoForeignWrite, NoLostUpdate, ForeignClaims, Bindings, Inside
<1> QED BY <1>1, <1>2, <1>3, <1>4, <1>5 DEF Next

\* Every reachable state satisfies the inductive invariant.
THEOREM Inductive == Spec => []IInv
BY InitHolds, StepHolds, PTL DEF Spec

\* No operation on the swarm is refused for what another, or the end of an
\* assignment, left behind (validate_swarm).
THEOREM SwarmIsValid == Spec => [](TypeOK /\ ValidSwarm)
BY Inductive, PTL DEF IInv, SwarmInv

\* Nothing open outlives the assignments it needs (swarm_close_assignment).
THEOREM NothingIsOrphaned == Spec => []NothingOutlives
BY Inductive, PTL DEF IInv, SwarmInv

\* Under the protective policy the edit tool never writes what another
\* assignment has claimed (validate_swarm_edit, lock_swarm_edits).
THEOREM ClaimsAreRespected == Spec => [](EditsTypeOK /\ NoForeignWrite)
BY Inductive, PTL DEF IInv

\* The edits of all editors of the daemon are serial on each file: none is lost
\* to another (SharedEditLease, the comparison in apply_patch).
THEOREM EditsAreSerial == Spec => []NoLostUpdate
BY Inductive, PTL DEF IInv

-----------------------------------------------------------------------------

\* What an edit that fails leaves behind (rollback_files).
THEOREM FailuresAreUndone == Spec => FailedEditIsUndone
<1> DEFINE Undone ==
      \A e \in Editors : edits[e].stage \in Changing /\ edits'[e].stage = "idle"
                         /\ sequence' = sequence =>
        \A f \in edits[e].paths \ edits[e].disturbed :
          edits[e].snap[f] = edits[e].base[f] => content'[f] = edits[e].base[f]
<1>1. IInv /\ [Next]_vars => [Undone]_vars
  <2> SUFFICES ASSUME IInv, Next, NEW e \in Editors, edits[e].stage \in Changing,
                      edits'[e].stage = "idle", sequence' = sequence,
                      NEW f \in edits[e].paths, edits[e].snap[f] = edits[e].base[f]
               PROVE  content'[f] = edits[e].base[f]
    BY DEF vars
  <2> USE DEF IInv
  <2>1. edits[e] \in EditType /\ f \in Files /\ sequence \in Nat
    BY DEF EditsTypeOK, EditType
  <2>2. RollBack(e) => content'[f] = edits[e].base[f]
    BY <2>1 DEF RollBack
  <2>3. edits'[e] # edits[e]
    BY DEF Changing
  <2>4. CASE SwarmNext /\ UNCHANGED editing_vars
    BY <2>3, <2>4 DEF editing_vars
  <2>5. ASSUME NEW o \in Editors, NEW paths \in SUBSET Files, Prepare(o, paths) PROVE FALSE
    BY <2>3, <2>5 DEF Prepare, At, Changing, EditsTypeOK
  <2>6. ASSUME NEW h \in Files, Outside(h) PROVE FALSE
    BY <2>1, <2>6 DEF Outside, EditType, Changing
  <2>7. ASSUME NEW o \in Editors \ {e}, EditStep(o) \/ Cancel(o) PROVE FALSE
    <3>1. Ends(o) => FALSE
      BY <2>3 DEF Ends, At, Changing
    <3> QED BY <2>3, <2>7, <3>1 DEF EditStep, Cancel, Snapshot, Capture, Acquire, Check, Write,
          Finish, RollBack, Goes, EditsTypeOK
  <2>8. CASE EditStep(e) \/ Cancel(e)
    <3>1. CASE edits[e].stage = "write"
      <4>1. Write(e) BY <2>8, <3>1 DEF EditStep, Cancel, Snapshot, Capture, Acquire, Check, Finish, At
      <4>2. ASSUME NEW h \in edits[e].paths \ edits[e].done,
                   edits' = [edits EXCEPT ![e].done = edits[e].done \cup {h},
                                  ![e].stage = IF edits[e].done \cup {h} = edits[e].paths
                                               THEN "finish" ELSE @]
            PROVE  FALSE
        <5>1. edits'[e].stage \in {"write", "finish"}
          BY <2>1, <3>1, <4>2 DEF EditsTypeOK, EditType
        <5> QED BY <5>1
      <4> QED BY <2>2, <4>1, <4>2 DEF Write
    <3>2. CASE edits[e].stage = "finish"
      <4>1. Finish(e) BY <2>8, <3>2 DEF EditStep, Cancel, Snapshot, Capture, Acquire, Check, Write, At
      <4> QED BY <2>1, <2>2, <4>1 DEF Finish
    <3> QED BY <3>1, <3>2 DEF Changing
  <2> QED BY <2>4, <2>5, <2>6, <2>7, <2>8 DEF Next
<1> QED BY <1>1, Inductive, PTL DEF Spec, FailedEditIsUndone
=============================================================================
