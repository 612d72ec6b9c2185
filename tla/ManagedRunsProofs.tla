-------------------------- MODULE ManagedRunsProofs --------------------------
(***************************************************************************)
(* Proofs about ManagedRuns.  Three invariants, each on top of the first:  *)
(*   Shape     the types, where a driver may hold what, and what a call    *)
(*             that works on a run knows about the driver: for every       *)
(*             constant;                                                   *)
(*   RunShape  what the record of a run says about its call, its handle    *)
(*             and its driver: when the session has one managed run;       *)
(*   Careful   no attempt is left behind by a driver that concludes: when  *)
(*             owners leave a run alone that winds down and no bounce      *)
(*             re-opens an agent's node whose attempts may be spent.       *)
(* On top of Shape, for any number of runs: that the records of the runs   *)
(* live as RunLife says, and that drivers and children keep to the limits  *)
(* of a run.                                                               *)
(***************************************************************************)
EXTENDS ManagedRuns, FiniteSetTheorems, TLAPS

Places    == {"None", "Top", "Claiming", "Spawned", "Waiting", "Concluding", "Finishing",
              "Finished"}
NodeRec   == [status: Statuses, used: Nat, held: BOOLEAN]
RunRec    == [status: RunStatuses, generation: 0..MaxGeneration]
DriverRec == [at: Places, todo: SUBSET Nodes, next: SUBSET Nodes, wave: SUBSET Nodes,
              launched: 0..MaxLaunched, cancelled: BOOLEAN,
              conclusion: Conclusions \cup {"None"}]

-----------------------------------------------------------------------------
(* The inductive invariants.                                               *)

(* Whoever holds a node is running it.                                     *)
HeldRuns == \A n \in Nodes : nodes[n].held => nodes[n].status = "Running"

(* What a driver holds where: the queue of a wave while it claims, the     *)
(* node it spawned a child for, and the children of the wave.              *)
DriverShape ==
    \A g \in Graphs :
        /\ driver[g].at \notin {"Claiming", "Spawned", "Waiting"} => driver[g].wave = {}
        /\ driver[g].at \notin {"Claiming", "Spawned"} => driver[g].todo = {}
        /\ driver[g].at # "Spawned" => driver[g].next = {}
        /\ driver[g].at = "Spawned" => driver[g].launched < MaxLaunched
        /\ driver[g].todo \cap driver[g].next = {}
        /\ driver[g].todo \cup driver[g].next \subseteq NodesOf(g) \ Manual

(* A driver that is not in the registry is being joined by a park, and a   *)
(* call that is about to start a driver, or joined one, finds none.        *)
CallShape ==
    \A g \in Graphs :
        /\ IsLive(g) => g \in handle \/ call[g] = "Joining"
        /\ call[g] \in {"Launching", "Resuming", "RegisteringLaunch", "RegisteringResume",
                        "Reconciled"} => ~IsLive(g)
        /\ call[g] = "Resuming" => run[g].generation < MaxGeneration

Shape == TypeOK /\ HeldRuns /\ DriverShape /\ CallShape

(* The session has no other managed run.                                   *)
OneRun == \A g, h \in Graphs : g = h

(* What the status of a run's record means.                                *)
RunShape ==
    \A g \in Graphs :
        /\ run[g].status = "Running" =>
              \/ HasLiveRun(g) /\ driver[g].at # "Finishing"
              \/ call[g] \in {"RegisteringLaunch", "RegisteringResume"}
        /\ run[g].status = "Parking" => call[g] \in {"Parking", "Joining"}
        /\ run[g].status = "Parked" =>
              /\ g \notin handle /\ ~IsLive(g)
              /\ call[g] \in {"Idle", "Launching", "Resuming", "Reconciled"}
              /\ \A n \in NodesOf(g) : ~nodes[n].held
        /\ call[g] \in {"RegisteringLaunch", "RegisteringResume"} =>
              run[g].status = "Running" /\ g \notin handle
        /\ call[g] = "Parking" => run[g].status = "Parking" /\ g \in handle
        /\ call[g] = "Joining" => run[g].status = "Parking" /\ g \notin handle
        /\ call[g] \in {"Resuming", "Reconciled"} => run[g].status = "Parked"
        /\ call[g] = "Launching" => run[g].status \notin {"Running", "Parking"}

(* No feedback edge re-opens, with the consumers of its target, an agent's *)
(* node that has a cap on its attempts.                                    *)
NoCapIsReopened ==
    \A e \in Bounces : \A n \in Dependents(Nodes, {e.to}) \ Manual : Cap[n] = 0

(* A pending node of an agent can be claimed.                              *)
PendingMayRun ==
    \A n \in Nodes \ Manual : nodes[n].status = "Pending" => HasAttemptsLeft(n)

(* A cancelled graph whose driver has not stopped has nothing left to run. *)
IsStopped(g) ==
    \/ call[g] = "Signalling"
    \/ driver[g].cancelled /\ IsLive(g) /\ call[g] # "Joining"

StoppedIsEmpty ==
    \A g \in Graphs : IsStopped(g) => \A n \in NodesOf(g) : ~IsCancellable(n)

(* What the driver is about to claim stays claimable until a cancellation. *)
QueuedIsPending ==
    \A g \in Graphs : \A n \in driver[g].todo \cup driver[g].next :
        \/ driver[g].cancelled \/ call[g] = "Signalling"
        \/ nodes[n].status = "Pending"

Careful == PendingMayRun /\ StoppedIsEmpty /\ QueuedIsPending /\ NothingStranded

-----------------------------------------------------------------------------
(* Records and functions of records.                                       *)

(* The type invariant, with the names of the types.                        *)
LEMMA Typed ==
    TypeOK <=> /\ nodes \in [Nodes -> NodeRec] /\ graph \in [Graphs -> GraphStatuses]
               /\ handle \subseteq Graphs /\ run \in [Graphs -> RunRec]
               /\ driver \in [Graphs -> DriverRec] /\ call \in [Graphs -> Calls]
BY DEF TypeOK, NodeRec, RunRec, DriverRec, Places

(* The same of the next state.                                             *)
LEMMA TypedNext ==
    TypeOK' <=> /\ nodes' \in [Nodes -> NodeRec] /\ graph' \in [Graphs -> GraphStatuses]
                /\ handle' \subseteq Graphs /\ run' \in [Graphs -> RunRec]
                /\ driver' \in [Graphs -> DriverRec] /\ call' \in [Graphs -> Calls]
BY DEF TypeOK, NodeRec, RunRec, DriverRec, Places

(* The fields of a driver.                                                 *)
LEMMA DriverFields ==
    ASSUME NEW r \in DriverRec
    PROVE  /\ r.at \in Places /\ r.todo \in SUBSET Nodes /\ r.next \in SUBSET Nodes
           /\ r.wave \in SUBSET Nodes /\ r.launched \in 0..MaxLaunched
           /\ r.cancelled \in BOOLEAN /\ r.conclusion \in Conclusions \cup {"None"}
BY DEF DriverRec

(* A function that is changed at one place.                                *)
LEMMA Updated ==
    ASSUME NEW D, NEW R, NEW f \in [D -> R], NEW g \in D, NEW r \in R,
           NEW h, h = [f EXCEPT ![g] = r]
    PROVE  /\ h \in [D -> R] /\ h[g] = r
           /\ \A x \in D \ {g} : h[x] = f[x]
OBVIOUS

(* The driver of g has these fields next, and no other driver changes.     *)
Becomes(g, at, todo, next, wave, launched, cancelled, conclusion) ==
    /\ driver' \in [Graphs -> DriverRec]
    /\ driver'[g].at = at /\ driver'[g].todo = todo /\ driver'[g].next = next
    /\ driver'[g].wave = wave /\ driver'[g].launched = launched
    /\ driver'[g].cancelled = cancelled /\ driver'[g].conclusion = conclusion
    /\ \A h \in Graphs \ {g} : driver'[h] = driver[h]

(* A driver that is replaced by a record.                                  *)
LEMMA Replaced ==
    ASSUME driver \in [Graphs -> DriverRec], NEW g \in Graphs, NEW r \in DriverRec,
           driver' = [driver EXCEPT ![g] = r]
    PROVE  Becomes(g, r.at, r.todo, r.next, r.wave, r.launched, r.cancelled, r.conclusion)
<1>1. /\ driver' \in [Graphs -> DriverRec] /\ driver'[g] = r
      /\ \A x \in Graphs \ {g} : driver'[x] = driver[x]
  BY Updated
<1>2. QED
  BY <1>1 DEF Becomes

-----------------------------------------------------------------------------
(* The updates of one driver: what each leaves alone.                      *)

(* It drops what it works on.                                              *)
LEMMA Concludes ==
    ASSUME driver \in [Graphs -> DriverRec], NEW g \in Graphs, NEW x \in DriverRec,
           x = driver[g], NEW c \in Conclusions,
           driver' = [driver EXCEPT ![g] = [@ EXCEPT !.at = "Concluding", !.todo = {},
                                               !.next = {}, !.wave = {}, !.conclusion = c]]
    PROVE  Becomes(g, "Concluding", {}, {}, {}, x.launched, x.cancelled, c)
<1> DEFINE k == [x EXCEPT !.at = "Concluding", !.todo = {}, !.next = {}, !.wave = {},
                          !.conclusion = c]
<1>1. driver' = [driver EXCEPT ![g] = k]
  BY Zenon
<1>2. /\ k \in DriverRec
      /\ <<g, k.at, k.todo, k.next, k.wave, k.launched, k.cancelled, k.conclusion>>
           = <<g, "Concluding", {}, {}, {}, x.launched, x.cancelled, c>>
  BY ONLY x \in DriverRec, c \in Conclusions
     DEF DriverRec, Places
<1> HIDE DEF k
<1>3. Becomes(g, k.at, k.todo, k.next, k.wave, k.launched, k.cancelled, k.conclusion)
  BY <1>1, <1>2, Replaced
<1>4. QED
  BY <1>2, <1>3, Zenon

(* It goes on to another place.                                            *)
LEMMA Moves ==
    ASSUME driver \in [Graphs -> DriverRec], NEW g \in Graphs, NEW x \in DriverRec,
           x = driver[g], NEW a \in Places,
           driver' = [driver EXCEPT ![g].at = a]
    PROVE  Becomes(g, a, x.todo, x.next, x.wave, x.launched, x.cancelled, x.conclusion)
<1> DEFINE k == [x EXCEPT !.at = a]
<1>1. driver' = [driver EXCEPT ![g] = k]
  BY Zenon
<1>2. /\ k \in DriverRec
      /\ <<g, k.at, k.todo, k.next, k.wave, k.launched, k.cancelled, k.conclusion>>
           = <<g, a, x.todo, x.next, x.wave, x.launched, x.cancelled, x.conclusion>>
  BY ONLY x \in DriverRec, a \in Places
     DEF DriverRec, Places
<1> HIDE DEF k
<1>3. Becomes(g, k.at, k.todo, k.next, k.wave, k.launched, k.cancelled, k.conclusion)
  BY <1>1, <1>2, Replaced
<1>4. QED
  BY <1>2, <1>3, Zenon

(* It is told to stop.                                                     *)
LEMMA Signalled ==
    ASSUME driver \in [Graphs -> DriverRec], NEW g \in Graphs, NEW x \in DriverRec,
           x = driver[g],
           driver' = [driver EXCEPT ![g].cancelled = TRUE]
    PROVE  Becomes(g, x.at, x.todo, x.next, x.wave, x.launched, TRUE, x.conclusion)
<1> DEFINE k == [x EXCEPT !.cancelled = TRUE]
<1>1. driver' = [driver EXCEPT ![g] = k]
  BY Zenon
<1>2. /\ k \in DriverRec
      /\ <<g, k.at, k.todo, k.next, k.wave, k.launched, k.cancelled, k.conclusion>>
           = <<g, x.at, x.todo, x.next, x.wave, x.launched, TRUE, x.conclusion>>
  BY ONLY x \in DriverRec
     DEF DriverRec, Places
<1> HIDE DEF k
<1>3. Becomes(g, k.at, k.todo, k.next, k.wave, k.launched, k.cancelled, k.conclusion)
  BY <1>1, <1>2, Replaced
<1>4. QED
  BY <1>2, <1>3, Zenon

(* It queues the nodes of a wave.                                          *)
LEMMA TakesWave ==
    ASSUME driver \in [Graphs -> DriverRec], NEW g \in Graphs, NEW x \in DriverRec,
           x = driver[g], NEW W \in SUBSET Nodes,
           driver' = [driver EXCEPT ![g] = [@ EXCEPT !.at = "Claiming", !.todo = W]]
    PROVE  Becomes(g, "Claiming", W, x.next, x.wave, x.launched, x.cancelled, x.conclusion)
<1> DEFINE k == [x EXCEPT !.at = "Claiming", !.todo = W]
<1>1. driver' = [driver EXCEPT ![g] = k]
  BY Zenon
<1>2. /\ k \in DriverRec
      /\ <<g, k.at, k.todo, k.next, k.wave, k.launched, k.cancelled, k.conclusion>>
           = <<g, "Claiming", W, x.next, x.wave, x.launched, x.cancelled, x.conclusion>>
  BY ONLY x \in DriverRec, W \in SUBSET Nodes
     DEF DriverRec, Places
<1> HIDE DEF k
<1>3. Becomes(g, k.at, k.todo, k.next, k.wave, k.launched, k.cancelled, k.conclusion)
  BY <1>1, <1>2, Replaced
<1>4. QED
  BY <1>2, <1>3, Zenon

(* It takes a node from its queue.                                         *)
LEMMA TakesNode ==
    ASSUME driver \in [Graphs -> DriverRec], NEW g \in Graphs, NEW x \in DriverRec,
           x = driver[g], NEW N \in SUBSET Nodes,
           driver' = [driver EXCEPT ![g].at = "Spawned", ![g].next = N, ![g].todo = @ \ N]
    PROVE  Becomes(g, "Spawned", x.todo \ N, N, x.wave, x.launched, x.cancelled, x.conclusion)
<1> DEFINE k == [x EXCEPT !.at = "Spawned", !.next = N, !.todo = @ \ N]
<1>1. driver' = [driver EXCEPT ![g] = k]
  BY Zenon
<1>2. /\ k \in DriverRec
      /\ <<g, k.at, k.todo, k.next, k.wave, k.launched, k.cancelled, k.conclusion>>
           = <<g, "Spawned", x.todo \ N, N, x.wave, x.launched, x.cancelled, x.conclusion>>
  BY ONLY x \in DriverRec, N \in SUBSET Nodes
     DEF DriverRec, Places
<1> HIDE DEF k
<1>3. Becomes(g, k.at, k.todo, k.next, k.wave, k.launched, k.cancelled, k.conclusion)
  BY <1>1, <1>2, Replaced
<1>4. QED
  BY <1>2, <1>3, Zenon

(* It skips a node of its queue.                                           *)
LEMMA SkipsNode ==
    ASSUME driver \in [Graphs -> DriverRec], NEW g \in Graphs, NEW x \in DriverRec,
           x = driver[g], NEW N \in SUBSET Nodes,
           driver' = [driver EXCEPT ![g].todo = @ \ N]
    PROVE  Becomes(g, x.at, x.todo \ N, x.next, x.wave, x.launched, x.cancelled, x.conclusion)
<1> DEFINE k == [x EXCEPT !.todo = @ \ N]
<1>1. driver' = [driver EXCEPT ![g] = k]
  BY Zenon
<1>2. /\ k \in DriverRec
      /\ <<g, k.at, k.todo, k.next, k.wave, k.launched, k.cancelled, k.conclusion>>
           = <<g, x.at, x.todo \ N, x.next, x.wave, x.launched, x.cancelled, x.conclusion>>
  BY ONLY x \in DriverRec, N \in SUBSET Nodes
     DEF DriverRec, Places
<1> HIDE DEF k
<1>3. Becomes(g, k.at, k.todo, k.next, k.wave, k.launched, k.cancelled, k.conclusion)
  BY <1>1, <1>2, Replaced
<1>4. QED
  BY <1>2, <1>3, Zenon

(* A node joins the wave.                                                  *)
LEMMA AddsNode ==
    ASSUME driver \in [Graphs -> DriverRec], NEW g \in Graphs, NEW x \in DriverRec,
           x = driver[g], NEW N \in SUBSET Nodes, x.launched + 1 \in 0..MaxLaunched,
           driver' = [driver EXCEPT ![g].at = "Claiming", ![g].next = {}, ![g].wave = @ \cup N,
                                     ![g].launched = @ + 1]
    PROVE  Becomes(g, "Claiming", x.todo, {}, x.wave \cup N, x.launched + 1, x.cancelled,
                   x.conclusion)
<1> DEFINE k == [x EXCEPT !.at = "Claiming", !.next = {}, !.wave = @ \cup N,
                          !.launched = @ + 1]
<1>1. driver' = [driver EXCEPT ![g] = k]
  BY Zenon
<1>2. /\ k \in DriverRec
      /\ <<g, k.at, k.todo, k.next, k.wave, k.launched, k.cancelled, k.conclusion>>
           = <<g, "Claiming", x.todo, {}, x.wave \cup N, x.launched + 1, x.cancelled,
                   x.conclusion>>
  BY ONLY x \in DriverRec, N \in SUBSET Nodes, x.launched + 1 \in 0..MaxLaunched
     DEF DriverRec, Places
<1> HIDE DEF k
<1>3. Becomes(g, k.at, k.todo, k.next, k.wave, k.launched, k.cancelled, k.conclusion)
  BY <1>1, <1>2, Replaced
<1>4. QED
  BY <1>2, <1>3, Zenon

(* It gives up the node it took.                                           *)
LEMMA DropsNode ==
    ASSUME driver \in [Graphs -> DriverRec], NEW g \in Graphs, NEW x \in DriverRec,
           x = driver[g],
           driver' = [driver EXCEPT ![g] = [@ EXCEPT !.at = "Claiming", !.next = {}]]
    PROVE  Becomes(g, "Claiming", x.todo, {}, x.wave, x.launched, x.cancelled, x.conclusion)
<1> DEFINE k == [x EXCEPT !.at = "Claiming", !.next = {}]
<1>1. driver' = [driver EXCEPT ![g] = k]
  BY Zenon
<1>2. /\ k \in DriverRec
      /\ <<g, k.at, k.todo, k.next, k.wave, k.launched, k.cancelled, k.conclusion>>
           = <<g, "Claiming", x.todo, {}, x.wave, x.launched, x.cancelled, x.conclusion>>
  BY ONLY x \in DriverRec
     DEF DriverRec, Places
<1> HIDE DEF k
<1>3. Becomes(g, k.at, k.todo, k.next, k.wave, k.launched, k.cancelled, k.conclusion)
  BY <1>1, <1>2, Replaced
<1>4. QED
  BY <1>2, <1>3, Zenon

(* It waits for its wave.                                                  *)
LEMMA WaitsForWave ==
    ASSUME driver \in [Graphs -> DriverRec], NEW g \in Graphs, NEW x \in DriverRec,
           x = driver[g],
           driver' = [driver EXCEPT ![g] = [@ EXCEPT !.at = "Waiting", !.todo = {}]]
    PROVE  Becomes(g, "Waiting", {}, x.next, x.wave, x.launched, x.cancelled, x.conclusion)
<1> DEFINE k == [x EXCEPT !.at = "Waiting", !.todo = {}]
<1>1. driver' = [driver EXCEPT ![g] = k]
  BY Zenon
<1>2. /\ k \in DriverRec
      /\ <<g, k.at, k.todo, k.next, k.wave, k.launched, k.cancelled, k.conclusion>>
           = <<g, "Waiting", {}, x.next, x.wave, x.launched, x.cancelled, x.conclusion>>
  BY ONLY x \in DriverRec
     DEF DriverRec, Places
<1> HIDE DEF k
<1>3. Becomes(g, k.at, k.todo, k.next, k.wave, k.launched, k.cancelled, k.conclusion)
  BY <1>1, <1>2, Replaced
<1>4. QED
  BY <1>2, <1>3, Zenon

(* A child leaves the wave.                                                *)
LEMMA LosesChild ==
    ASSUME driver \in [Graphs -> DriverRec], NEW g \in Graphs, NEW x \in DriverRec,
           x = driver[g], NEW N \in SUBSET Nodes,
           driver' = [driver EXCEPT ![g].wave = @ \ N]
    PROVE  Becomes(g, x.at, x.todo, x.next, x.wave \ N, x.launched, x.cancelled, x.conclusion)
<1> DEFINE k == [x EXCEPT !.wave = @ \ N]
<1>1. driver' = [driver EXCEPT ![g] = k]
  BY Zenon
<1>2. /\ k \in DriverRec
      /\ <<g, k.at, k.todo, k.next, k.wave, k.launched, k.cancelled, k.conclusion>>
           = <<g, x.at, x.todo, x.next, x.wave \ N, x.launched, x.cancelled, x.conclusion>>
  BY ONLY x \in DriverRec, N \in SUBSET Nodes
     DEF DriverRec, Places
<1> HIDE DEF k
<1>3. Becomes(g, k.at, k.todo, k.next, k.wave, k.launched, k.cancelled, k.conclusion)
  BY <1>1, <1>2, Replaced
<1>4. QED
  BY <1>2, <1>3, Zenon

-----------------------------------------------------------------------------
(* Changes that leave a part of the invariants alone.                      *)

(* The graphs of the nodes.                                                *)
LEMMA NodesAreOfGraphs ==
    /\ GraphOf \in [Nodes -> Graphs] /\ Manual \subseteq Nodes
    /\ \A n \in Nodes : GraphOf[n] \in Graphs /\ n \in NodesOf(GraphOf[n])
BY RunAssumption DEF NodesOf

(* While no driver appears, calls and registry know what they knew.        *)
LEMMA CallShapeStays ==
    ASSUME CallShape, UNCHANGED <<handle, call>>,
           \A h \in Graphs : run'[h].generation = run[h].generation,
           \A h \in Graphs : IsLive(h)' => IsLive(h)
    PROVE  CallShape'
BY DEF CallShape

(* Nor do the records of the runs, unless a driver's at rest or moves on   *)
(* to its end.                                                             *)
LEMMA RunShapeStays ==
    ASSUME RunShape, UNCHANGED <<run, handle, call>>,
           \A h \in Graphs : IsLive(h)' <=> IsLive(h),
           \A h \in Graphs : driver'[h].at = "Finishing" => driver[h].at = "Finishing",
           \A h \in Graphs : \A n \in NodesOf(h) : nodes'[n].held => nodes[n].held \/ IsLive(h)
    PROVE  RunShape'
BY DEF RunShape, HasLiveRun

(* A graph that was emptied stays empty while no node of it is re-opened   *)
(* and no other driver is told to stop.                                    *)
LEMMA StoppedStays ==
    ASSUME StoppedIsEmpty,
           \A h \in Graphs : IsStopped(h)' => IsStopped(h),
           \A h \in Graphs : IsStopped(h) =>
              \A n \in NodesOf(h) : IsCancellable(n)' => IsCancellable(n)
    PROVE  StoppedIsEmpty'
BY DEF StoppedIsEmpty

(* What waits in a queue still waits while the nodes of queues do not      *)
(* change and nothing is queued.                                           *)
LEMMA QueuesStay ==
    ASSUME QueuedIsPending,
           \A h \in Graphs : driver'[h].cancelled = driver[h].cancelled,
           \A h \in Graphs : call[h] = "Signalling" => call'[h] = "Signalling",
           \A h \in Graphs : driver'[h].todo \cup driver'[h].next
                                \subseteq driver[h].todo \cup driver[h].next,
           \A h \in Graphs : \A n \in driver[h].todo \cup driver[h].next :
              nodes[n].status = "Pending" => nodes'[n].status = "Pending"
    PROVE  QueuedIsPending'
BY DEF QueuedIsPending

(* Held nodes are with their drivers while nobody leaves and nothing else  *)
(* is held.                                                                *)
LEMMA HeldStays ==
    ASSUME NothingStranded,
           \A n \in Nodes : nodes'[n].held => nodes[n].held /\ nodes'[n].status = "Running",
           \A h \in Graphs : call[h] = "Joining" => call'[h] = "Joining",
           \A h \in Graphs : \A n \in Nodes :
              /\ n \in driver[h].wave /\ nodes'[n].held
              /\ driver[h].at \in {"Claiming", "Spawned", "Waiting"}
              => n \in driver'[h].wave /\ driver'[h].at \in {"Claiming", "Spawned", "Waiting"}
    PROVE  NothingStranded'
BY NodesAreOfGraphs DEF NothingStranded

(* Nodes that stay as they are.                                            *)
LEMMA NodesStay ==
    ASSUME UNCHANGED nodes
    PROVE  /\ HeldRuns => HeldRuns'
           /\ PendingMayRun => PendingMayRun'
           /\ \A n \in Nodes : /\ IsCancellable(n)' <=> IsCancellable(n)
                               /\ nodes'[n].held <=> nodes[n].held
                               /\ nodes'[n].status = nodes[n].status
BY DEF HeldRuns, PendingMayRun, HasAttemptsLeft, IsCancellable

(* Drivers that stay as they are.                                          *)
LEMMA DriversStay ==
    ASSUME UNCHANGED driver
    PROVE  /\ DriverShape => DriverShape'
           /\ \A h \in Graphs : IsLive(h)' <=> IsLive(h)
BY DEF DriverShape, IsLive

(* The record of a run gets another status.                                *)
LEMMA RunGets ==
    ASSUME run \in [Graphs -> RunRec], NEW g \in Graphs, NEW v \in RunStatuses,
           run' = [run EXCEPT ![g].status = v]
    PROVE  /\ run' \in [Graphs -> RunRec]
           /\ run'[g].status = v /\ run'[g].generation = run[g].generation
           /\ \A h \in Graphs \ {g} : run'[h] = run[h]
<1> DEFINE r == [run[g] EXCEPT !.status = v]
<1>1. run' = [run EXCEPT ![g] = r]
  BY Zenon
<1>2. run[g] \in RunRec
  OBVIOUS
<1>3. r \in RunRec /\ r.status = v /\ r.generation = run[g].generation
  BY ONLY <1>2, v \in RunStatuses DEF RunRec
<1> HIDE DEF r
<1>4. QED
  BY <1>1, <1>3, Updated

(* A call goes on.                                                         *)
LEMMA CallGets ==
    ASSUME call \in [Graphs -> Calls], NEW g \in Graphs, NEW a \in Calls, Calling(g, a)
    PROVE  /\ call' \in [Graphs -> Calls] /\ call'[g] = a
           /\ \A h \in Graphs \ {g} : call'[h] = call[h]
BY DEF Calling

-----------------------------------------------------------------------------
(* The steps of a driver.                                                  *)

(* A conclusion is one of the three.                                       *)
LEMMA ConcludeEffect ==
    ASSUME Shape, NEW g \in Graphs, NEW c \in Conclusions, Conclude(g, c),
           UNCHANGED <<nodes, graph, run, handle, call>>
    PROVE  /\ TypeOK'
           /\ Becomes(g, "Concluding", {}, {}, {}, driver[g].launched, driver[g].cancelled, c)
<1>1. driver \in [Graphs -> DriverRec] /\ driver[g] \in DriverRec
  BY Typed DEF Shape
<1>2. Becomes(g, "Concluding", {}, {}, {}, driver[g].launched, driver[g].cancelled, c)
  BY <1>1, Concludes DEF Conclude
<1>3. TypeOK'
  BY <1>2, Typed, TypedNext DEF Becomes, Shape
<1>4. QED
  BY <1>2, <1>3

(* A driver that concludes keeps the shape of everything, and the empty    *)
(* graphs and the queues of the others.                                    *)
LEMMA ConcludeKeeps ==
    ASSUME Shape, NEW g \in Graphs, IsLive(g), driver[g].at # "Finishing",
           NEW c \in Conclusions, Conclude(g, c),
           UNCHANGED <<nodes, graph, run, handle, call>>
    PROVE  /\ Shape' /\ (RunShape => RunShape')
           /\ Careful /\ (\A n \in NodesOf(g) : nodes[n].held => call[g] = "Joining")
              => Careful'
<1>1. /\ TypeOK'
      /\ Becomes(g, "Concluding", {}, {}, {}, driver[g].launched, driver[g].cancelled, c)
  BY ConcludeEffect
<1>2. \A h \in Graphs : IsLive(h)' <=> IsLive(h)
  BY <1>1 DEF IsLive, Becomes
<1>3. DriverShape'
  BY <1>1 DEF DriverShape, Shape, Becomes
<1>4. CallShape'
  BY <1>2, CallShapeStays DEF Shape
<1>5. Shape'
  BY <1>1, <1>3, <1>4, NodesStay DEF Shape
<1>6. ASSUME RunShape PROVE RunShape'
  <2>1. \A h \in Graphs : driver'[h].at = "Finishing" => driver[h].at = "Finishing"
    BY <1>1 DEF Becomes
  <2>2. QED
    BY <1>2, <1>6, <2>1, RunShapeStays
<1>7. ASSUME Careful, \A n \in NodesOf(g) : nodes[n].held => call[g] = "Joining"
      PROVE  Careful'
  <2>1. \A h \in Graphs : IsStopped(h)' => IsStopped(h)
    BY <1>1, <1>2 DEF IsStopped, Becomes
  <2>2. StoppedIsEmpty'
    BY <1>7, <2>1, NodesStay, StoppedStays DEF Careful, NodesOf
  <2>3. QueuedIsPending'
    BY <1>1, <1>7 DEF Careful, QueuedIsPending, Becomes
  <2>4. NothingStranded'
    BY <1>1, <1>7, NodesAreOfGraphs DEF Careful, NothingStranded, Becomes, NodesOf
  <2>5. QED
    BY <1>7, <2>2, <2>3, <2>4, NodesStay DEF Careful
<1>8. QED
  BY <1>5, <1>6, <1>7

(* The driver concludes at the head of its loop, where it holds nothing.   *)
LEMMA DriverStopsKeeps ==
    ASSUME Shape, NEW g \in Graphs, DriverStops(g)
    PROVE  Shape' /\ (RunShape => RunShape') /\ (Careful => Careful')
<1> DEFINE c == IF IsStopping(g) THEN "Cancelled" ELSE "Settled"
<1>1. /\ c \in Conclusions /\ IsLive(g) /\ driver[g].at # "Finishing" /\ Conclude(g, c)
      /\ UNCHANGED <<nodes, graph, run, handle, call>>
  BY DEF DriverStops, Conclusions, IsLive
<1>2. Careful => \A n \in NodesOf(g) : nodes[n].held => call[g] = "Joining"
  BY DEF Careful, NothingStranded, NodesOf, DriverStops, Shape, DriverShape
<1> HIDE DEF c
<1>3. QED
  BY <1>1, <1>2, ConcludeKeeps

(* So it does when it finds nothing to start and nothing in flight.        *)
LEMMA DriverFindsNothingKeeps ==
    ASSUME Shape, NEW g \in Graphs, DriverFindsNothing(g)
    PROVE  Shape' /\ (RunShape => RunShape') /\ (Careful => Careful')
<1> DEFINE c == IF \A n \in NodesOf(g) : nodes[n].status \in {"Succeeded", "Cancelled"}
                THEN "Settled" ELSE "Stalled"
<1>1. /\ c \in Conclusions /\ IsLive(g) /\ driver[g].at # "Finishing" /\ Conclude(g, c)
      /\ UNCHANGED <<nodes, graph, run, handle, call>>
  BY DEF DriverFindsNothing, Conclusions, IsLive
<1>2. Careful => \A n \in NodesOf(g) : nodes[n].held => call[g] = "Joining"
  BY DEF Careful, NothingStranded, NodesOf, DriverFindsNothing, Shape, DriverShape
<1> HIDE DEF c
<1>3. QED
  BY <1>1, <1>2, ConcludeKeeps

(* A driver that was told to stop holds nothing, or a park is joining it.  *)
LEMMA StoppedHoldsNothing ==
    ASSUME Shape, Careful, NEW g \in Graphs, IsLive(g),
           driver[g].cancelled \/ call[g] = "Signalling"
    PROVE  \A n \in NodesOf(g) : nodes[n].held => call[g] = "Joining"
<1>1. CASE call[g] = "Joining"
  BY <1>1
<1>2. CASE call[g] # "Joining"
  <2>1. IsStopped(g)
    BY <1>2 DEF IsStopped
  <2>2. \A n \in NodesOf(g) : ~IsCancellable(n)
    BY <2>1 DEF Careful, StoppedIsEmpty
  <2>3. QED
    BY <2>2 DEF Shape, HeldRuns, IsCancellable, NodesOf
<1>3. QED
  BY <1>1, <1>2

(* A wave that the token interrupts: its children were cancelled before,   *)
(* or the park that interrupts it comes for them.                          *)
LEMMA DriverIsCancelledKeeps ==
    ASSUME Shape, NEW g \in Graphs, DriverIsCancelled(g)
    PROVE  Shape' /\ (RunShape => RunShape') /\ (Careful => Careful')
<1>1. /\ "Cancelled" \in Conclusions /\ IsLive(g) /\ driver[g].at # "Finishing"
      /\ Conclude(g, "Cancelled") /\ UNCHANGED <<nodes, graph, run, handle, call>>
  BY DEF DriverIsCancelled, Conclusions, IsLive
<1>2. Careful => \A n \in NodesOf(g) : nodes[n].held => call[g] = "Joining"
  BY <1>1, StoppedHoldsNothing DEF DriverIsCancelled
<1>3. QED
  BY <1>1, <1>2, ConcludeKeeps

(* A wave is of pending nodes, and none of them is the owner's own.        *)
LEMMA DriverStartsWaveKeeps ==
    ASSUME Shape, NEW g \in Graphs, DriverStartsWave(g)
    PROVE  Shape' /\ (RunShape => RunShape') /\ (Careful => Careful')
<1>1. driver \in [Graphs -> DriverRec] /\ driver[g] \in DriverRec
  BY Typed DEF Shape
<1>2. PICK W \in SUBSET Launchable(g) :
        driver' = [driver EXCEPT ![g] = [@ EXCEPT !.at = "Claiming", !.todo = W]]
  BY DEF DriverStartsWave
<1>3. /\ W \subseteq NodesOf(g) \ Manual /\ W \in SUBSET Nodes
      /\ \A n \in W : nodes[n].status = "Pending"
  BY <1>2 DEF Launchable, IsReadyIn, IsReady, Status, NodesOf
<1>4. /\ driver[g].at = "Top" /\ driver[g].cancelled # TRUE
      /\ UNCHANGED <<nodes, graph, run, handle, call>>
  BY DEF DriverStartsWave
<1>5. Becomes(g, "Claiming", W, driver[g].next, driver[g].wave, driver[g].launched,
              driver[g].cancelled, driver[g].conclusion)
  BY <1>1, <1>2, <1>3, TakesWave
<1>6. TypeOK'
  BY <1>4, <1>5, Typed, TypedNext DEF Becomes, Shape
<1>7. \A h \in Graphs : IsLive(h)' <=> IsLive(h)
  BY <1>4, <1>5 DEF IsLive, Becomes
<1>8. DriverShape'
  BY <1>3, <1>4, <1>5 DEF DriverShape, Shape, Becomes
<1>9. CallShape'
  BY <1>4, <1>7, CallShapeStays DEF Shape
<1>10. Shape'
  BY <1>4, <1>6, <1>8, <1>9, NodesStay DEF Shape
<1>11. ASSUME RunShape PROVE RunShape'
  <2>1. \A h \in Graphs : driver'[h].at = "Finishing" => driver[h].at = "Finishing"
    BY <1>5 DEF Becomes
  <2>2. QED
    BY <1>4, <1>7, <1>11, <2>1, RunShapeStays
<1>12. ASSUME Careful PROVE Careful'
  <2>1. \A h \in Graphs : IsStopped(h)' => IsStopped(h)
    BY <1>4, <1>5, <1>7 DEF IsStopped, Becomes
  <2>2. StoppedIsEmpty'
    BY <1>4, <1>12, <2>1, NodesStay, StoppedStays DEF Careful, NodesOf
  <2>3. QueuedIsPending'
    BY <1>3, <1>4, <1>5, <1>12 DEF Careful, QueuedIsPending, Becomes, Shape, DriverShape
  <2>4. NothingStranded'
    BY <1>4, <1>5, <1>12, NodesAreOfGraphs
       DEF Careful, NothingStranded, Becomes, Shape, DriverShape
  <2>5. QED
    BY <1>4, <1>12, <2>2, <2>3, <2>4, NodesStay DEF Careful
<1>13. QED
  BY <1>10, <1>11, <1>12

(* A driver that goes on with less in its queue, or with a smaller wave of *)
(* children that hold nothing, and is neither started nor told to stop.    *)
LEMMA DriverGoesOn ==
    ASSUME Shape, NEW g \in Graphs, TypeOK', DriverShape',
           UNCHANGED <<nodes, graph, run, handle, call>>,
           IsLive(g), IsLive(g)', driver'[g].at # "Finishing",
           \A h \in Graphs \ {g} : driver'[h] = driver[h],
           driver'[g].cancelled = driver[g].cancelled,
           driver'[g].todo \cup driver'[g].next \subseteq driver[g].todo \cup driver[g].next,
           \A n \in driver[g].wave : nodes[n].held => n \in driver'[g].wave
    PROVE  Shape' /\ (RunShape => RunShape') /\ (Careful => Careful')
<1>1. \A h \in Graphs : IsLive(h)' <=> IsLive(h)
  BY DEF IsLive
<1>2. CallShape'
  BY <1>1, CallShapeStays DEF Shape
<1>3. Shape'
  BY <1>2, NodesStay DEF Shape
<1>4. ASSUME RunShape PROVE RunShape'
  BY <1>1, <1>4, RunShapeStays
<1>5. ASSUME Careful PROVE Careful'
  <2>1. \A h \in Graphs : IsStopped(h)' => IsStopped(h)
    BY <1>1 DEF IsStopped
  <2>2. StoppedIsEmpty'
    BY <1>5, <2>1, NodesStay, StoppedStays DEF Careful, NodesOf
  <2>3. QueuedIsPending'
    BY <1>5, QueuesStay DEF Careful
  <2>4. \A h \in Graphs : \A n \in Nodes :
           n \in driver[h].wave /\ nodes[n].held => n \in driver'[h].wave
    OBVIOUS
  <2>5. \A n \in Nodes : nodes[n].held => n \in NodesOf(GraphOf[n])
    BY NodesAreOfGraphs
  <2>6. \A h \in Graphs : driver'[h].wave # {}
           => driver'[h].at \in {"Claiming", "Spawned", "Waiting"}
    BY DEF DriverShape
  <2>7. NothingStranded'
    BY <1>5, <2>4, <2>6, NodesAreOfGraphs DEF Careful, NothingStranded
  <2>8. QED
    BY <1>5, <2>2, <2>3, <2>7, NodesStay DEF Careful
<1>6. QED
  BY <1>3, <1>4, <1>5

(* A child is spawned for a node, or the spawn fails and it is skipped.    *)
LEMMA DriverSpawnsKeeps ==
    ASSUME Shape, NEW g \in Graphs, NEW n \in Nodes, DriverSpawns(g, n)
    PROVE  Shape' /\ (RunShape => RunShape') /\ (Careful => Careful')
<1>1. driver \in [Graphs -> DriverRec] /\ driver[g] \in DriverRec /\ {n} \in SUBSET Nodes
  BY Typed DEF Shape
<1>2. /\ driver[g].at = "Claiming" /\ n \in driver[g].todo
      /\ driver[g].launched < MaxLaunched
      /\ UNCHANGED <<nodes, graph, run, handle, call>>
  BY DEF DriverSpawns
<1>3. driver[g].next = {}
  BY <1>2 DEF Shape, DriverShape
<1>4. CASE driver' = [driver EXCEPT ![g].at = "Spawned", ![g].next = {n},
                                    ![g].todo = @ \ {n}]
  <2>1. Becomes(g, "Spawned", driver[g].todo \ {n}, {n}, driver[g].wave, driver[g].launched,
                driver[g].cancelled, driver[g].conclusion)
    BY <1>1, <1>4, TakesNode
  <2>2. TypeOK'
    BY <1>2, <2>1, Typed, TypedNext DEF Becomes, Shape
  <2>3. DriverShape'
    BY <1>2, <1>3, <2>1 DEF DriverShape, Shape, Becomes
  <2>4. IsLive(g) /\ IsLive(g)'
    BY <1>2, <2>1 DEF IsLive, Becomes
  <2>5. QED
    BY <1>2, <1>3, <2>1, <2>2, <2>3, <2>4, DriverGoesOn DEF Becomes
<1>5. CASE driver' = [driver EXCEPT ![g].todo = @ \ {n}]
  <2>1. Becomes(g, "Claiming", driver[g].todo \ {n}, driver[g].next, driver[g].wave,
                driver[g].launched, driver[g].cancelled, driver[g].conclusion)
    BY <1>1, <1>2, <1>5, SkipsNode
  <2>2. TypeOK'
    BY <1>2, <2>1, Typed, TypedNext DEF Becomes, Shape
  <2>3. DriverShape'
    BY <1>2, <1>3, <2>1 DEF DriverShape, Shape, Becomes
  <2>4. IsLive(g) /\ IsLive(g)'
    BY <1>2, <2>1 DEF IsLive, Becomes
  <2>5. QED
    BY <1>2, <1>3, <2>1, <2>2, <2>3, <2>4, DriverGoesOn DEF Becomes
<1>6. QED
  BY <1>4, <1>5 DEF DriverSpawns

(* A refused claim is skipped, or ends the run: then nothing else is held, *)
(* for what waits in a queue stays claimable until a cancellation.         *)
LEMMA DriverIsRefusedKeeps ==
    ASSUME Shape, NEW g \in Graphs, NEW n \in Nodes, DriverIsRefused(g, n)
    PROVE  Shape' /\ (RunShape => RunShape') /\ (Careful => Careful')
<1>1. driver \in [Graphs -> DriverRec] /\ driver[g] \in DriverRec
  BY Typed DEF Shape
<1>2. /\ driver[g].at = "Spawned" /\ driver[g].next = {n} /\ ~IsClaimable(n)
      /\ UNCHANGED <<nodes, graph, run, handle, call>>
  BY DEF DriverIsRefused
<1>3. CASE Conclude(g, "Cancelled")
  <2>1. "Cancelled" \in Conclusions /\ IsLive(g) /\ driver[g].at # "Finishing"
    BY <1>2 DEF Conclusions, IsLive
  <2>2. ASSUME Careful
        PROVE  \A m \in NodesOf(g) : nodes[m].held => call[g] = "Joining"
    <3>1. n \in Nodes \ Manual
      BY <1>2 DEF Shape, DriverShape
    <3>2. nodes[n].status # "Pending"
      BY <1>2, <2>2, <3>1 DEF Careful, PendingMayRun, IsClaimable
    <3>3. driver[g].cancelled \/ call[g] = "Signalling"
      BY <1>2, <2>2, <3>2 DEF Careful, QueuedIsPending
    <3>4. QED
      BY <2>1, <2>2, <3>3, StoppedHoldsNothing
  <2>3. QED
    BY <1>2, <1>3, <2>1, <2>2, ConcludeKeeps
<1>4. CASE driver' = [driver EXCEPT ![g] = [@ EXCEPT !.at = "Claiming", !.next = {}]]
  <2>1. Becomes(g, "Claiming", driver[g].todo, {}, driver[g].wave, driver[g].launched,
                driver[g].cancelled, driver[g].conclusion)
    BY <1>1, <1>4, DropsNode
  <2>2. TypeOK'
    BY <1>2, <2>1, Typed, TypedNext DEF Becomes, Shape
  <2>3. DriverShape'
    BY <1>2, <2>1 DEF DriverShape, Shape, Becomes
  <2>4. IsLive(g) /\ IsLive(g)'
    BY <1>2, <2>1 DEF IsLive, Becomes
  <2>5. QED
    BY <1>2, <2>1, <2>2, <2>3, <2>4, DriverGoesOn DEF Becomes
<1>5. QED
  BY <1>3, <1>4 DEF DriverIsRefused

(* The driver waits for the wave it claimed, or concludes without one.     *)
LEMMA DriverEndsClaimingKeeps ==
    ASSUME Shape, NEW g \in Graphs, DriverEndsClaiming(g)
    PROVE  Shape' /\ (RunShape => RunShape') /\ (Careful => Careful')
<1>1. driver \in [Graphs -> DriverRec] /\ driver[g] \in DriverRec
  BY Typed DEF Shape
<1>2. driver[g].at = "Claiming" /\ UNCHANGED <<nodes, graph, run, handle, call>>
  BY DEF DriverEndsClaiming
<1>3. IsLive(g)
  BY <1>2 DEF IsLive
<1>4. CASE driver[g].wave # {}
  <2>1. driver' = [driver EXCEPT ![g] = [@ EXCEPT !.at = "Waiting", !.todo = {}]]
    BY <1>4 DEF DriverEndsClaiming
  <2>2. Becomes(g, "Waiting", {}, driver[g].next, driver[g].wave, driver[g].launched,
                driver[g].cancelled, driver[g].conclusion)
    BY <1>1, <2>1, WaitsForWave
  <2>3. TypeOK'
    BY <1>2, <2>2, Typed, TypedNext DEF Becomes, Shape
  <2>4. DriverShape'
    BY <1>2, <2>2 DEF DriverShape, Shape, Becomes
  <2>5. IsLive(g)'
    BY <2>2 DEF IsLive, Becomes
  <2>6. QED
    BY <1>2, <1>3, <2>2, <2>3, <2>4, <2>5, DriverGoesOn DEF Becomes
<1>5. CASE driver[g].wave = {}
  <2> DEFINE c == IF IsStopping(g) THEN "Cancelled" ELSE "Stalled"
  <2>1. c \in Conclusions /\ Conclude(g, c) /\ driver[g].at # "Finishing"
    BY <1>2, <1>5 DEF DriverEndsClaiming, Conclusions
  <2>2. Careful => \A n \in NodesOf(g) : nodes[n].held => call[g] = "Joining"
    BY <1>5 DEF Careful, NothingStranded, NodesOf
  <2> HIDE DEF c
  <2>3. QED
    BY <1>2, <1>3, <2>1, <2>2, ConcludeKeeps
<1>6. QED
  BY <1>4, <1>5

(* A child that holds nothing any more leaves the wave.                    *)
LEMMA ChildLeavesKeeps ==
    ASSUME Shape, NEW g \in Graphs, NEW n \in Nodes, ChildLeaves(g, n)
    PROVE  Shape' /\ (RunShape => RunShape') /\ (Careful => Careful')
<1>1. driver \in [Graphs -> DriverRec] /\ driver[g] \in DriverRec /\ {n} \in SUBSET Nodes
  BY Typed DEF Shape
<1>2. /\ driver[g].at = "Waiting" /\ ~nodes[n].held
      /\ driver' = [driver EXCEPT ![g].wave = @ \ {n}]
      /\ UNCHANGED <<nodes, graph, run, handle, call>>
  BY DEF ChildLeaves
<1>3. Becomes(g, "Waiting", driver[g].todo, driver[g].next, driver[g].wave \ {n},
              driver[g].launched, driver[g].cancelled, driver[g].conclusion)
  BY <1>1, <1>2, LosesChild
<1>4. TypeOK'
  BY <1>2, <1>3, Typed, TypedNext DEF Becomes, Shape
<1>5. DriverShape'
  BY <1>2, <1>3 DEF DriverShape, Shape, Becomes
<1>6. IsLive(g) /\ IsLive(g)'
  BY <1>2, <1>3 DEF IsLive, Becomes
<1>7. QED
  BY <1>2, <1>3, <1>4, <1>5, <1>6, DriverGoesOn DEF Becomes

(* The driver goes back to the head of its loop when its wave is empty.    *)
LEMMA DriverEndsWaveKeeps ==
    ASSUME Shape, NEW g \in Graphs, DriverEndsWave(g)
    PROVE  Shape' /\ (RunShape => RunShape') /\ (Careful => Careful')
<1>1. driver \in [Graphs -> DriverRec] /\ driver[g] \in DriverRec /\ "Top" \in Places
  BY Typed DEF Shape, Places
<1>2. /\ driver[g].at = "Waiting" /\ driver[g].wave = {} /\ MoveTo(g, "Top")
      /\ UNCHANGED <<nodes, graph, run, handle, call>>
  BY DEF DriverEndsWave
<1>3. Becomes(g, "Top", driver[g].todo, driver[g].next, driver[g].wave,
              driver[g].launched, driver[g].cancelled, driver[g].conclusion)
  BY <1>1, <1>2, Moves DEF MoveTo
<1>4. TypeOK'
  BY <1>2, <1>3, Typed, TypedNext DEF Becomes, Shape
<1>5. DriverShape'
  BY <1>2, <1>3 DEF DriverShape, Shape, Becomes
<1>6. IsLive(g) /\ IsLive(g)'
  BY <1>2, <1>3 DEF IsLive, Becomes
<1>7. QED
  BY <1>2, <1>3, <1>4, <1>5, <1>6, DriverGoesOn DEF Becomes

(* The conclusion is recorded unless a fence was written before it.        *)
LEMMA DriverRecordsKeeps ==
    ASSUME Shape, NEW g \in Graphs, DriverRecords(g)
    PROVE  Shape' /\ (RunShape => RunShape') /\ (Careful => Careful')
<1>1. /\ driver \in [Graphs -> DriverRec] /\ driver[g] \in DriverRec
      /\ "Finishing" \in Places /\ run \in [Graphs -> RunRec] /\ run[g].status \in RunStatuses
  BY Typed DEF Shape, Places, RunRec
<1>2. /\ driver[g].at = "Concluding" /\ MoveTo(g, "Finishing")
      /\ UNCHANGED <<nodes, graph, handle, call>>
  BY DEF DriverRecords
<1>3. Becomes(g, "Finishing", driver[g].todo, driver[g].next, driver[g].wave,
              driver[g].launched, driver[g].cancelled, driver[g].conclusion)
  BY <1>1, <1>2, Moves DEF MoveTo
<1> DEFINE v == IF run[g].status = "Running" THEN driver[g].conclusion ELSE run[g].status
<1>4. v \in RunStatuses /\ v # "Running"
  BY <1>1, DriverFields DEF RunStatuses, Conclusions
<1>5. v = run[g].status \/ v \in Conclusions \cup {"None"}
  BY <1>1, DriverFields
<1>6. run' = [run EXCEPT ![g].status = v]
  BY DEF DriverRecords, RecordConclusion
<1> HIDE DEF v
<1>7. /\ run' \in [Graphs -> RunRec]
      /\ run'[g].status = v /\ run'[g].generation = run[g].generation
      /\ \A h \in Graphs \ {g} : run'[h] = run[h]
  BY <1>1, <1>4, <1>6, RunGets
<1>8. TypeOK'
  BY <1>2, <1>3, <1>7, Typed, TypedNext DEF Becomes, Shape
<1>9. DriverShape'
  BY <1>2, <1>3 DEF DriverShape, Shape, Becomes
<1>10. \A h \in Graphs : IsLive(h)' <=> IsLive(h)
  BY <1>2, <1>3 DEF IsLive, Becomes
<1>11. CallShape'
  BY <1>2, <1>7, <1>10, CallShapeStays DEF Shape
<1>12. Shape'
  BY <1>2, <1>8, <1>9, <1>11, NodesStay DEF Shape
<1>13. ASSUME RunShape PROVE RunShape'
  <2>1. call[g] \notin {"RegisteringLaunch", "RegisteringResume", "Resuming", "Reconciled",
                        "Launching"}
    BY <1>2 DEF Shape, CallShape, IsLive
  <2>2. v \in Conclusions \cup {"None"} => call[g] \notin {"Parking", "Joining"}
    BY <1>5, <1>6, <1>13, <1>7 DEF RunShape, v, Conclusions
  <2>3. QED
    BY <1>2, <1>3, <1>4, <1>5, <1>7, <1>10, <1>13, <2>1, <2>2
       DEF RunShape, Becomes, HasLiveRun, Conclusions
<1>14. ASSUME Careful PROVE Careful'
  <2>1. \A h \in Graphs : IsStopped(h)' => IsStopped(h)
    BY <1>2, <1>3, <1>10 DEF IsStopped, Becomes
  <2>2. StoppedIsEmpty'
    BY <1>2, <1>14, <2>1, NodesStay, StoppedStays DEF Careful, NodesOf
  <2>3. QueuedIsPending'
    BY <1>2, <1>3, <1>14 DEF Careful, QueuedIsPending, Becomes
  <2>4. NothingStranded'
    BY <1>2, <1>3, <1>14, NodesAreOfGraphs DEF Careful, NothingStranded, Becomes
  <2>5. QED
    BY <1>2, <1>14, <2>2, <2>3, <2>4, NodesStay DEF Careful
<1>15. QED
  BY <1>12, <1>13, <1>14

(* The driver's task ends, after its conclusion was written.               *)
LEMMA DriverFinishesKeeps ==
    ASSUME Shape, NEW g \in Graphs, DriverFinishes(g)
    PROVE  Shape' /\ (RunShape => RunShape') /\ (Careful => Careful')
<1>1. /\ driver \in [Graphs -> DriverRec] /\ driver[g] \in DriverRec
      /\ "Finished" \in Places
  BY Typed DEF Shape, Places
<1>2. /\ driver[g].at = "Finishing" /\ MoveTo(g, "Finished")
      /\ UNCHANGED <<nodes, graph, run, handle, call>>
  BY DEF DriverFinishes
<1>3. Becomes(g, "Finished", driver[g].todo, driver[g].next, driver[g].wave,
              driver[g].launched, driver[g].cancelled, driver[g].conclusion)
  BY <1>1, <1>2, Moves DEF MoveTo
<1>4. TypeOK'
  BY <1>2, <1>3, Typed, TypedNext DEF Becomes, Shape
<1>5. DriverShape'
  BY <1>2, <1>3 DEF DriverShape, Shape, Becomes
<1>6. \A h \in Graphs : IsLive(h)' => IsLive(h)
  BY <1>2, <1>3 DEF IsLive, Becomes
<1>7. CallShape'
  BY <1>2, <1>6, CallShapeStays DEF Shape
<1>8. Shape'
  BY <1>2, <1>4, <1>5, <1>7, NodesStay DEF Shape
<1>9. ASSUME RunShape PROVE RunShape'
  <2>1. call[g] \notin {"RegisteringLaunch", "RegisteringResume"}
    BY <1>2 DEF Shape, CallShape, IsLive
  <2>2. run[g].status # "Running"
    BY <1>2, <1>9, <2>1 DEF RunShape
  <2>3. \A h \in Graphs \ {g} : IsLive(h)' <=> IsLive(h)
    BY <1>3 DEF IsLive, Becomes
  <2>4. QED
    BY <1>2, <1>3, <1>6, <1>9, <2>2, <2>3 DEF RunShape, Becomes, HasLiveRun
<1>10. ASSUME Careful PROVE Careful'
  <2>1. \A h \in Graphs : IsStopped(h)' => IsStopped(h)
    BY <1>2, <1>3, <1>6 DEF IsStopped, Becomes
  <2>2. StoppedIsEmpty'
    BY <1>2, <1>10, <2>1, NodesStay, StoppedStays DEF Careful, NodesOf
  <2>3. QueuedIsPending'
    BY <1>2, <1>3, <1>10 DEF Careful, QueuedIsPending, Becomes
  <2>4. NothingStranded'
    BY <1>2, <1>3, <1>10, NodesAreOfGraphs DEF Careful, NothingStranded, Becomes
  <2>5. QED
    BY <1>2, <1>10, <2>2, <2>3, <2>4, NodesStay DEF Careful
<1>11. QED
  BY <1>8, <1>9, <1>10

-----------------------------------------------------------------------------
(* Nodes.                                                                  *)

(* A node that is replaced by a record.                                    *)
LEMMA NodeGets ==
    ASSUME nodes \in [Nodes -> NodeRec], NEW n \in Nodes, NEW s \in Statuses,
           NEW u \in Nat, NEW b \in BOOLEAN,
           nodes' = [nodes EXCEPT ![n] = [status |-> s, used |-> u, held |-> b]]
    PROVE  /\ nodes' \in [Nodes -> NodeRec]
           /\ nodes'[n].status = s /\ nodes'[n].used = u /\ nodes'[n].held = b
           /\ \A m \in Nodes \ {n} : nodes'[m] = nodes[m]
<1> DEFINE r == [status |-> s, used |-> u, held |-> b]
<1>1. r \in NodeRec
  BY DEF NodeRec
<1>2. r.status = s /\ r.used = u /\ r.held = b
  OBVIOUS
<1>3. nodes' = [nodes EXCEPT ![n] = r]
  OBVIOUS
<1> HIDE DEF r
<1>4. nodes' \in [Nodes -> NodeRec] /\ nodes'[n] = r
      /\ \A m \in Nodes \ {n} : nodes'[m] = nodes[m]
  BY <1>1, <1>3, Updated
<1>5. QED
  BY <1>2, <1>4, Zenon

(* The fields of a node.                                                   *)
LEMMA NodeFields ==
    ASSUME nodes \in [Nodes -> NodeRec], NEW n \in Nodes
    PROVE  /\ nodes[n] \in NodeRec /\ nodes[n].status \in Statuses
           /\ nodes[n].used \in Nat /\ nodes[n].held \in BOOLEAN
BY DEF NodeRec

(* A claim opens a natural number of attempts.                             *)
LEMMA OpenedIsNat ==
    ASSUME nodes \in [Nodes -> NodeRec], NEW n \in Nodes
    PROVE  Opened(n) \in Nat
<1>1. nodes[n].used \in Nat
  BY NodeFields
<1>2. QED
  BY <1>1 DEF Opened

(* The node joins the wave in the step that claims it.                     *)
LEMMA DriverClaimsKeeps ==
    ASSUME Shape, NEW g \in Graphs, NEW n \in Nodes, DriverClaims(g, n)
    PROVE  Shape' /\ (RunShape => RunShape') /\ (Careful => Careful')
<1>1. /\ driver \in [Graphs -> DriverRec] /\ driver[g] \in DriverRec /\ {n} \in SUBSET Nodes
      /\ nodes \in [Nodes -> NodeRec]
  BY Typed DEF Shape
<1>2. /\ driver[g].at = "Spawned" /\ driver[g].next = {n} /\ IsClaimable(n)
      /\ nodes' = [nodes EXCEPT ![n] = [status |-> "Running", used |-> Opened(n),
                                        held |-> TRUE]]
      /\ driver' = [driver EXCEPT ![g].at = "Claiming", ![g].next = {},
                                  ![g].wave = @ \cup {n}, ![g].launched = @ + 1]
      /\ UNCHANGED <<graph, run, handle, call>>
  BY DEF DriverClaims
<1>3. driver[g].launched + 1 \in 0..MaxLaunched
  <2>1. driver[g].launched < MaxLaunched
    BY <1>2 DEF Shape, DriverShape
  <2>2. driver[g].launched \in 0..MaxLaunched
    BY <1>1, DriverFields
  <2>3. QED
    BY <2>1, <2>2, RunAssumption
<1>4. Becomes(g, "Claiming", driver[g].todo, {}, driver[g].wave \cup {n},
              driver[g].launched + 1, driver[g].cancelled, driver[g].conclusion)
  BY <1>1, <1>2, <1>3, AddsNode
<1>5. /\ nodes' \in [Nodes -> NodeRec]
      /\ nodes'[n].status = "Running" /\ nodes'[n].held = TRUE
      /\ \A m \in Nodes \ {n} : nodes'[m] = nodes[m]
  BY <1>1, <1>2, OpenedIsNat, NodeGets DEF Statuses
<1>6. n \in NodesOf(g) \ Manual /\ n \notin driver[g].todo
  BY <1>2 DEF Shape, DriverShape
<1>7. TypeOK'
  BY <1>2, <1>4, <1>5, Typed, TypedNext DEF Becomes, Shape
<1>8. DriverShape'
  BY <1>2, <1>4, <1>6 DEF DriverShape, Shape, Becomes
<1>9. \A h \in Graphs : IsLive(h)' <=> IsLive(h)
  BY <1>2, <1>4 DEF IsLive, Becomes
<1>10. CallShape'
  BY <1>2, <1>9, CallShapeStays DEF Shape
<1>11. Shape'
  BY <1>5, <1>7, <1>8, <1>10 DEF Shape, HeldRuns
<1>12. ASSUME RunShape PROVE RunShape'
  <2>1. \A h \in Graphs : driver'[h].at = "Finishing" => driver[h].at = "Finishing"
    BY <1>4 DEF Becomes
  <2>2. IsLive(g)
    BY <1>2 DEF IsLive
  <2>3. \A h \in Graphs : \A m \in NodesOf(h) : nodes'[m].held => nodes[m].held \/ IsLive(h)
    BY <1>5, <1>6, <2>2 DEF NodesOf
  <2>4. QED
    BY <1>2, <1>9, <1>12, <2>1, <2>3, RunShapeStays
<1>13. ASSUME Careful PROVE Careful'
  <2>1. PendingMayRun'
    BY <1>5, <1>13 DEF Careful, PendingMayRun, HasAttemptsLeft
  <2>2. \A h \in Graphs : IsStopped(h)' => IsStopped(h)
    BY <1>2, <1>4, <1>9 DEF IsStopped, Becomes
  <2>3. \A m \in Nodes : IsCancellable(m)' => IsCancellable(m)
    BY <1>2, <1>5 DEF IsCancellable, IsClaimable
  <2>4. StoppedIsEmpty'
    BY <1>13, <2>2, <2>3, StoppedStays DEF Careful, NodesOf
  <2>5. \A h \in Graphs : \A m \in driver'[h].todo \cup driver'[h].next :
           m \in (driver[h].todo \cup driver[h].next) \ {n}
    BY <1>4, <1>6 DEF Becomes, Shape, DriverShape, NodesOf
  <2>6. QueuedIsPending'
    <3>1. \A h \in Graphs : driver'[h].cancelled = driver[h].cancelled
      BY <1>4 DEF Becomes
    <3>2. \A h \in Graphs : driver[h].todo \cup driver[h].next \subseteq Nodes
      BY DEF Shape, DriverShape, NodesOf
    <3>3. UNCHANGED call
      BY <1>2
    <3>4. \A h \in Graphs : \A m \in driver'[h].todo \cup driver'[h].next :
             nodes'[m] = nodes[m] /\ m \in driver[h].todo \cup driver[h].next
      BY <1>5, <2>5, <3>2
    <3>5. QueuedIsPending
      BY <1>13 DEF Careful
    <3>6. QED
      BY ONLY <3>1, <3>3, <3>4, <3>5 DEF QueuedIsPending
  <2>7. NothingStranded'
    <3>1. GraphOf[n] = g
      BY <1>6 DEF NodesOf
    <3>2. QED
      BY <1>2, <1>4, <1>5, <1>13, <3>1, NodesAreOfGraphs
         DEF Careful, NothingStranded, Becomes
  <2>8. QED
    BY <2>1, <2>4, <2>6, <2>7 DEF Careful
<1>14. QED
  BY <1>11, <1>12, <1>13

(* The record of a node that is re-opened, cancelled or interrupted.       *)
LEMMA StatusRecord ==
    ASSUME NEW x \in NodeRec, NEW s \in Statuses, NEW y, y = [x EXCEPT !.status = s]
    PROVE  y \in NodeRec /\ y.status = s /\ y.used = x.used /\ y.held = x.held
BY ONLY x \in NodeRec, s \in Statuses, y = [x EXCEPT !.status = s] DEF NodeRec

(* The record of a run that is parked.                                     *)
LEMMA RunRecord ==
    ASSUME NEW x \in RunRec, NEW s \in RunStatuses, NEW y, y = [x EXCEPT !.status = s]
    PROVE  y \in RunRec /\ y.status = s /\ y.generation = x.generation
BY ONLY x \in RunRec, s \in RunStatuses, y = [x EXCEPT !.status = s] DEF RunRec

(* A bounce stays in its graph: so do the consumers it re-opens.           *)
LEMMA DependentsOfGraph ==
    ASSUME NEW h, NEW settled \in SUBSET Nodes, NEW S \in SUBSET NodesOf(h)
    PROVE  Dependents(settled, S) \subseteq NodesOf(h)
<1>1. IsClosed(NodesOf(h))
  BY RunAssumption, ReadinessAssumption DEF IsClosed, NodesOf, DependencyType
<1>2. NodesOf(h) \in SUBSET Nodes
  BY DEF NodesOf
<1>3. QED
  BY <1>1, <1>2 DEF Dependents

(* A node that depends on one of a set of nodes depends on one of them.    *)
LEMMA DependentsOfOne ==
    ASSUME NEW settled \in SUBSET Nodes, NEW S \in SUBSET Nodes,
           NEW n \in Dependents(settled, S)
    PROVE  \E t \in S : n \in Dependents(Nodes, {t})
<1> SUFFICES ASSUME \A t \in S : n \notin Dependents(Nodes, {t})
             PROVE  FALSE
  OBVIOUS
<1> DEFINE Avoids(t, T) == {t} \subseteq T /\ IsClosed(T) /\ n \notin T
           A(t) == CHOOSE T \in SUBSET Nodes : Avoids(t, T)
           U == UNION {A(t) : t \in S}
<1>1. n \in Nodes /\ n \notin S
  BY DEF Dependents
<1>2. \A t \in S : \E T \in SUBSET Nodes : Avoids(t, T)
  BY <1>1 DEF Dependents
<1>3. \A t \in S : A(t) \in SUBSET Nodes /\ Avoids(t, A(t))
  BY <1>2
<1>4. U \in SUBSET Nodes /\ S \subseteq U /\ n \notin U
  BY <1>3
<1>5. IsClosed(U)
  <2>1. SUFFICES ASSUME NEW e \in Dependencies, e.from \in U
                 PROVE  e.to \in U
    BY DEF IsClosed
  <2>2. PICK t \in S : e.from \in A(t)
    BY <2>1
  <2>3. e.to \in A(t)
    BY <1>3, <2>2 DEF IsClosed
  <2>4. QED
    BY <2>3
<1>6. QED
  BY <1>4, <1>5 DEF Dependents

(* A node ends; others of its graph that had ended are re-opened with it.  *)
LEMMA SettleEffect ==
    ASSUME TypeOK, NEW n \in Nodes, NEW status \in {"Succeeded", "Failed"}, NEW used \in Nat,
           Settle(n, status, used)
    PROVE  /\ nodes' \in [Nodes -> NodeRec]
           /\ nodes'[n].status \in {status, "Pending"}
           /\ nodes'[n].used = used /\ nodes'[n].held = FALSE
           /\ \A m \in Nodes \ {n} :
                 \/ nodes'[m] = nodes[m]
                 \/ /\ GraphOf[m] = GraphOf[n] /\ nodes[m].status \in Bounceable
                    /\ nodes'[m].status = "Pending"
                    /\ nodes'[m].used = nodes[m].used /\ nodes'[m].held = nodes[m].held
           /\ NoCapIsReopened => \A m \in Nodes \ Manual :
                 \/ m # n /\ (nodes'[m] = nodes[m] \/ HasAttemptsLeft(m))
                 \/ nodes'[m].status # "Pending"
                 \/ Cap[m] = 0
<1> DEFINE settled == {m \in Nodes : nodes[m].status \in Bounceable} \cup {n}
           targets == {t \in settled \ {n} : /\ HasAttemptsLeft(t)
                                             /\ \E e \in Bounces : e.from = n /\ e.to = t
                                                                   /\ e.on = status}
           ended   == [status |-> status, used |-> used, held |-> FALSE]
           Now(m)  == IF m = n THEN ended ELSE nodes[m]
<1>1. PICK S \in SUBSET Dependents(settled, targets) :
        nodes' = [m \in Nodes |-> IF m \in targets \cup S
                                  THEN [Now(m) EXCEPT !.status = "Pending"] ELSE Now(m)]
  BY DEF Settle
<1>2. nodes \in [Nodes -> NodeRec] /\ \A m \in Nodes : nodes[m] \in NodeRec
  BY Typed
<1>3. ended \in NodeRec
  BY DEF NodeRec, Statuses
<1>4. /\ ended.status = status /\ ended.used = used /\ ended.held = FALSE
  OBVIOUS
<1>5. settled \in SUBSET Nodes /\ targets \subseteq settled
  OBVIOUS
<1>6. S \subseteq settled /\ targets \cup S \subseteq NodesOf(GraphOf[n])
  <2>1. targets \in SUBSET NodesOf(GraphOf[n])
    BY RunAssumption DEF NodesOf
  <2>2. Dependents(settled, targets) \subseteq settled
    BY DEF Dependents
  <2>3. QED
    BY <1>5, <2>1, <2>2, DependentsOfGraph
<1>7. \A m \in Nodes : Now(m) \in NodeRec
  BY <1>2, <1>3
<1>8. \A m \in Nodes :
         IF m \in targets \cup S
         THEN /\ nodes'[m] \in NodeRec /\ nodes'[m].status = "Pending"
              /\ nodes'[m].used = Now(m).used /\ nodes'[m].held = Now(m).held
         ELSE nodes'[m] = Now(m)
  <2>1. SUFFICES ASSUME NEW m \in Nodes, m \in targets \cup S
                 PROVE  /\ nodes'[m] \in NodeRec /\ nodes'[m].status = "Pending"
                        /\ nodes'[m].used = Now(m).used /\ nodes'[m].held = Now(m).held
    BY <1>1
  <2>2. nodes'[m] = [Now(m) EXCEPT !.status = "Pending"]
    BY <1>1, <2>1
  <2>3. Now(m) \in NodeRec /\ "Pending" \in Statuses
    BY <1>7 DEF Statuses
  <2> HIDE DEF Now
  <2>4. QED
    BY ONLY <2>2, <2>3, StatusRecord
<1>9. \A m \in Nodes : nodes'[m] \in NodeRec
  BY <1>7, <1>8
<1>10. nodes' \in [Nodes -> NodeRec]
  BY <1>1, <1>9
<1>11. \A m \in targets : m # n /\ HasAttemptsLeft(m)
  OBVIOUS
<1>12. NoCapIsReopened => \A m \in S \ Manual : Cap[m] = 0
  <2>1. SUFFICES ASSUME NoCapIsReopened, NEW m \in S, m \notin Manual
                 PROVE  Cap[m] = 0
    OBVIOUS
  <2>2. m \in Dependents(settled, targets) /\ targets \in SUBSET Nodes
    BY <1>5
  <2>3. PICK t \in targets : m \in Dependents(Nodes, {t})
    BY <1>5, <2>2, DependentsOfOne
  <2>4. PICK e \in Bounces : e.to = t
    OBVIOUS
  <2>5. QED
    BY <2>1, <2>3, <2>4 DEF NoCapIsReopened
<1> DEFINE R == targets \cup S
<1>14. \A m \in Nodes \ {n} : m \in R => nodes[m].status \in Bounceable
                                         /\ GraphOf[m] = GraphOf[n]
  BY <1>5, <1>6 DEF NodesOf
<1>15. /\ \A m \in Nodes \ {n} : m \notin R => nodes'[m] = nodes[m]
       /\ \A m \in Nodes \ {n} : m \in R => /\ nodes'[m].status = "Pending"
                                            /\ nodes'[m].used = nodes[m].used
                                            /\ nodes'[m].held = nodes[m].held
  BY <1>8
<1>16. /\ nodes'[n].status \in {status, "Pending"}
       /\ nodes'[n].used = used /\ nodes'[n].held = FALSE
       /\ n \notin R => nodes'[n].status = status
  BY <1>4, <1>8
<1>17. status # "Pending"
  OBVIOUS
<1>18. \A m \in R : m \in targets \/ m \in S
  OBVIOUS
<1> HIDE DEF R, targets, settled, ended, Now
<1>19. \A m \in Nodes \ {n} :
          \/ nodes'[m] = nodes[m]
          \/ /\ GraphOf[m] = GraphOf[n] /\ nodes[m].status \in Bounceable
             /\ nodes'[m].status = "Pending"
             /\ nodes'[m].used = nodes[m].used /\ nodes'[m].held = nodes[m].held
  BY ONLY <1>14, <1>15, Zenon
<1>20. NoCapIsReopened => \A m \in Nodes \ Manual :
          \/ m # n /\ (nodes'[m] = nodes[m] \/ HasAttemptsLeft(m))
          \/ nodes'[m].status # "Pending"
          \/ Cap[m] = 0
  <2>1. SUFFICES ASSUME NoCapIsReopened, NEW m \in Nodes, m \notin Manual
                 PROVE  \/ m # n /\ (nodes'[m] = nodes[m] \/ HasAttemptsLeft(m))
                        \/ nodes'[m].status # "Pending"
                        \/ Cap[m] = 0
    OBVIOUS
  <2>2. CASE m \in targets
    BY <1>11, <2>2
  <2>3. CASE m \in S
    BY <1>12, <2>1, <2>3
  <2>4. CASE m \notin R
    BY <1>15, <1>16, <1>17, <2>4
  <2>5. QED
    BY <1>18, <2>2, <2>3, <2>4
<1>21. QED
  BY <1>10, <1>16, <1>19, <1>20

-----------------------------------------------------------------------------
(* Steps that change nothing but nodes.                                    *)

(* The owners leave a graph alone whose run winds down, and what a bounce  *)
(* re-opens can be claimed.                                                *)
Prudent == ~RetryStopping /\ NoCapIsReopened

(* Nodes change, and nobody holds one who did not hold it before.          *)
LEMMA NodesChange ==
    ASSUME Shape, nodes' \in [Nodes -> NodeRec],
           UNCHANGED <<graph, run, handle, driver, call>>,
           \A m \in Nodes : nodes'[m].held => nodes[m].held /\ nodes'[m].status = "Running"
    PROVE  /\ Shape' /\ (RunShape => RunShape')
           /\ /\ Careful /\ PendingMayRun'
              /\ \A h \in Graphs : IsStopped(h) =>
                    \A m \in NodesOf(h) : IsCancellable(m)' => IsCancellable(m)
              /\ \A m \in Nodes \ Manual :
                    nodes[m].status = "Pending" => nodes'[m].status = "Pending"
              => Careful'
<1>1. TypeOK'
  BY Typed, TypedNext DEF Shape
<1>2. DriverShape' /\ \A h \in Graphs : IsLive(h)' <=> IsLive(h)
  BY DriversStay DEF Shape
<1>3. CallShape'
  BY <1>2, CallShapeStays DEF Shape
<1>4. Shape'
  BY <1>1, <1>2, <1>3 DEF Shape, HeldRuns
<1>5. ASSUME RunShape PROVE RunShape'
  BY <1>2, <1>5, RunShapeStays DEF NodesOf
<1>6. ASSUME Careful, PendingMayRun',
             \A h \in Graphs : IsStopped(h) =>
                \A m \in NodesOf(h) : IsCancellable(m)' => IsCancellable(m),
             \A m \in Nodes \ Manual :
                nodes[m].status = "Pending" => nodes'[m].status = "Pending"
      PROVE  Careful'
  <2>1. \A h \in Graphs : IsStopped(h)' => IsStopped(h)
    BY <1>2 DEF IsStopped
  <2>2. StoppedIsEmpty'
    BY <1>6, <2>1, StoppedStays DEF Careful
  <2>3. \A h \in Graphs : driver[h].todo \cup driver[h].next \subseteq Nodes \ Manual
    BY DEF Shape, DriverShape, NodesOf
  <2>4. QueuedIsPending'
    BY <1>6, <2>3, QueuesStay DEF Careful
  <2>5. NothingStranded'
    BY <1>6, HeldStays DEF Careful
  <2>6. QED
    BY <1>6, <2>2, <2>4, <2>5 DEF Careful
<1>7. QED
  BY <1>4, <1>5, <1>6

(* A running or claimable node ends: its graph is not one that was emptied.*)
LEMMA SettleKeeps ==
    ASSUME Shape, NEW n \in Nodes, NEW status \in {"Succeeded", "Failed"}, NEW used \in Nat,
           Settle(n, status, used), UNCHANGED <<graph, run, handle, driver, call>>,
           IsCancellable(n), n \in Manual \/ nodes[n].status # "Pending"
    PROVE  Shape' /\ (RunShape => RunShape') /\ (Prudent /\ Careful => Careful')
<1>1. /\ nodes' \in [Nodes -> NodeRec]
      /\ nodes'[n].status \in {status, "Pending"}
      /\ nodes'[n].used = used /\ nodes'[n].held = FALSE
      /\ \A m \in Nodes \ {n} :
            \/ nodes'[m] = nodes[m]
            \/ /\ GraphOf[m] = GraphOf[n] /\ nodes[m].status \in Bounceable
               /\ nodes'[m].status = "Pending"
               /\ nodes'[m].used = nodes[m].used /\ nodes'[m].held = nodes[m].held
      /\ NoCapIsReopened => \A m \in Nodes \ Manual :
            \/ m # n /\ (nodes'[m] = nodes[m] \/ HasAttemptsLeft(m))
            \/ nodes'[m].status # "Pending"
            \/ Cap[m] = 0
  BY SettleEffect DEF Shape
<1>2. \A m \in Nodes : nodes'[m].held => nodes[m].held /\ nodes'[m].status = "Running"
  BY <1>1 DEF Shape, HeldRuns, Bounceable
<1>3. ASSUME Prudent, Careful PROVE PendingMayRun'
  BY <1>1, <1>3 DEF Prudent, Careful, PendingMayRun, HasAttemptsLeft
<1>4. ASSUME Careful, NEW h \in Graphs, IsStopped(h), NEW m \in NodesOf(h), IsCancellable(m)'
      PROVE  IsCancellable(m)
  <2>1. GraphOf[n] # h
    BY <1>4 DEF Careful, StoppedIsEmpty, NodesOf
  <2>2. nodes'[m] = nodes[m]
    BY <1>1, <2>1 DEF NodesOf
  <2>3. QED
    BY <1>4, <2>2 DEF IsCancellable
<1>5. \A m \in Nodes \ Manual :
         nodes[m].status = "Pending" => nodes'[m].status = "Pending"
  BY <1>1 DEF Bounceable
<1>6. QED
  BY <1>1, <1>2, <1>3, <1>4, <1>5, NodesChange

(* A child reports on the node that it holds.                              *)
LEMMA ChildReportsKeeps ==
    ASSUME Shape, NEW g \in Graphs, NEW n \in Nodes, ChildReports(g, n)
    PROVE  Shape' /\ (RunShape => RunShape') /\ (Prudent /\ Careful => Careful')
<1>1. nodes[n].status = "Running" /\ nodes[n].used \in Nat
  BY Typed, NodeFields DEF ChildReports, Shape, HeldRuns
<1>2. IsCancellable(n)
  BY <1>1 DEF IsCancellable
<1>3. PICK status \in {"Succeeded", "Failed"} : Settle(n, status, nodes[n].used)
  BY DEF ChildReports
<1>4. UNCHANGED <<graph, run, handle, driver, call>>
  BY DEF ChildReports
<1>5. QED
  BY <1>1, <1>2, <1>3, <1>4, SettleKeeps

(* The owner ends a manual node that it started, or at once.               *)
LEMMA OwnerSettlesKeeps ==
    ASSUME Shape, NEW g \in Graphs, NEW n \in Nodes, OwnerSettles(g, n)
    PROVE  Shape' /\ (RunShape => RunShape') /\ (Prudent /\ Careful => Careful')
<1>1. n \in Manual /\ UNCHANGED <<graph, run, handle, driver, call>>
  BY DEF OwnerSettles
<1>2. PICK status \in {"Succeeded", "Failed"} :
        \/ nodes[n].status = "Running" /\ Settle(n, status, nodes[n].used)
        \/ IsClaimable(n) /\ Settle(n, status, Opened(n))
  BY DEF OwnerSettles
<1>3. nodes[n].used \in Nat /\ Opened(n) \in Nat
  BY Typed, NodeFields, OpenedIsNat DEF Shape
<1>4. IsCancellable(n)
  BY <1>2 DEF IsCancellable, IsClaimable
<1>5. QED
  BY <1>1, <1>2, <1>3, <1>4, SettleKeeps

(* The owner starts a manual node.                                         *)
LEMMA OwnerStartsKeeps ==
    ASSUME Shape, NEW g \in Graphs, NEW n \in Nodes, OwnerStarts(g, n)
    PROVE  Shape' /\ (RunShape => RunShape') /\ (Careful => Careful')
<1>1. /\ n \in NodesOf(g) /\ n \in Manual /\ IsClaimable(n)
      /\ nodes' = [nodes EXCEPT ![n] = [status |-> "Running", used |-> Opened(n),
                                        held |-> FALSE]]
      /\ UNCHANGED <<graph, run, handle, driver, call>>
  BY DEF OwnerStarts
<1>2. nodes \in [Nodes -> NodeRec]
  BY Typed DEF Shape
<1>3. /\ nodes' \in [Nodes -> NodeRec]
      /\ nodes'[n].status = "Running" /\ nodes'[n].held = FALSE
      /\ \A m \in Nodes \ {n} : nodes'[m] = nodes[m]
  BY <1>1, <1>2, OpenedIsNat, NodeGets DEF Statuses
<1>4. \A m \in Nodes : nodes'[m].held => nodes[m].held /\ nodes'[m].status = "Running"
  BY <1>3 DEF Shape, HeldRuns
<1>5. ASSUME Careful PROVE PendingMayRun'
  BY <1>3, <1>5 DEF Careful, PendingMayRun, HasAttemptsLeft
<1>6. \A m \in Nodes : IsCancellable(m)' => IsCancellable(m)
  BY <1>1, <1>3 DEF IsCancellable, IsClaimable
<1>7. \A m \in Nodes \ Manual :
         nodes[m].status = "Pending" => nodes'[m].status = "Pending"
  BY <1>1, <1>3
<1>8. \A h \in Graphs : NodesOf(h) \subseteq Nodes
  BY DEF NodesOf
<1>9. QED
  BY <1>1, <1>3, <1>4, <1>5, <1>6, <1>7, <1>8, NodesChange

(* The owner gives a node another chance, not while its run winds down.    *)
LEMMA OwnerRetriesKeeps ==
    ASSUME Shape, NEW g \in Graphs, NEW n \in Nodes, OwnerRetries(g, n)
    PROVE  Shape' /\ (RunShape => RunShape') /\ (Prudent /\ Careful => Careful')
<1>1. /\ call[g] = "Idle" /\ n \in NodesOf(g) /\ HasAttemptsLeft(n)
      /\ nodes[n].status \in {"Failed", "Interrupted", "Cancelled"}
      /\ RetryStopping \/ ~(driver[g].cancelled /\ IsLive(g))
      /\ UNCHANGED <<graph, run, handle, driver, call>>
  BY DEF OwnerRetries
<1>2. nodes \in [Nodes -> NodeRec] /\ nodes[n] \in NodeRec /\ "Pending" \in Statuses
  BY Typed DEF Shape, Statuses
<1> DEFINE r == [nodes[n] EXCEPT !.status = "Pending"]
<1>3. nodes' = [nodes EXCEPT ![n] = r]
  BY Zenon DEF OwnerRetries
<1>4. r \in NodeRec /\ r.status = "Pending" /\ r.used = nodes[n].used
      /\ r.held = nodes[n].held
  BY ONLY <1>2, StatusRecord
<1> HIDE DEF r
<1>5. /\ nodes' \in [Nodes -> NodeRec] /\ nodes'[n] = r
      /\ \A m \in Nodes \ {n} : nodes'[m] = nodes[m]
  BY <1>2, <1>3, <1>4, Updated
<1>6. \A m \in Nodes : nodes'[m].held => nodes[m].held /\ nodes'[m].status = "Running"
  BY <1>1, <1>4, <1>5 DEF Shape, HeldRuns
<1>7. ASSUME Careful PROVE PendingMayRun'
  BY <1>1, <1>4, <1>5, <1>7 DEF Careful, PendingMayRun, HasAttemptsLeft
<1>8. ASSUME Prudent, NEW h \in Graphs, IsStopped(h), NEW m \in NodesOf(h), IsCancellable(m)'
      PROVE  IsCancellable(m)
  <2>1. h # g
    BY <1>1, <1>8 DEF Prudent, IsStopped
  <2>2. nodes'[m] = nodes[m]
    BY <1>1, <1>5, <2>1 DEF NodesOf
  <2>3. QED
    BY <1>8, <2>2 DEF IsCancellable
<1>9. \A m \in Nodes \ Manual :
         nodes[m].status = "Pending" => nodes'[m].status = "Pending"
  BY <1>4, <1>5
<1>10. QED
  BY <1>1, <1>5, <1>6, <1>7, <1>8, <1>9, NodesChange

-----------------------------------------------------------------------------
(* The owner's calls.                                                      *)

(* A call about g goes on, with what it does to the record and the handle  *)
(* of its run; no node and no driver changes.                              *)
LEMMA CallMoves ==
    ASSUME Shape, NEW g \in Graphs, NEW a \in Calls, Calling(g, a),
           UNCHANGED <<nodes, graph, driver>>,
           run' \in [Graphs -> RunRec], handle' \subseteq Graphs,
           \A h \in Graphs \ {g} : run'[h] = run[h] /\ (h \in handle' <=> h \in handle),
           IsLive(g) => g \in handle' \/ a = "Joining",
           a \in {"Launching", "Resuming", "RegisteringLaunch", "RegisteringResume",
                  "Reconciled"} => ~IsLive(g),
           a = "Resuming" => run'[g].generation < MaxGeneration,
           call[g] \notin {"Joining", "Signalling"}, a # "Signalling"
    PROVE  Shape' /\ (Careful => Careful')
<1>1. /\ call' \in [Graphs -> Calls] /\ call'[g] = a
      /\ \A h \in Graphs \ {g} : call'[h] = call[h]
  BY Typed, CallGets DEF Shape
<1>2. TypeOK'
  BY <1>1, Typed, TypedNext DEF Shape
<1>3. DriverShape' /\ \A h \in Graphs : IsLive(h)' <=> IsLive(h)
  BY DriversStay DEF Shape
<1>4. CallShape'
  BY <1>1, <1>3 DEF Shape, CallShape
<1>5. Shape'
  BY <1>2, <1>3, <1>4, NodesStay DEF Shape
<1>6. ASSUME Careful PROVE Careful'
  <2>1. \A h \in Graphs : IsStopped(h)' => IsStopped(h)
    BY <1>1, <1>3 DEF IsStopped
  <2>2. StoppedIsEmpty'
    BY <1>6, <2>1, NodesStay, StoppedStays DEF Careful, NodesOf
  <2>3. QueuedIsPending'
    BY <1>1, <1>6 DEF Careful, QueuedIsPending
  <2>4. NothingStranded'
    BY <1>1, <1>6, NodesAreOfGraphs DEF Careful, NothingStranded
  <2>5. QED
    BY <1>6, <2>2, <2>3, <2>4, NodesStay DEF Careful
<1>7. QED
  BY <1>5, <1>6

(* A launch begins: no driver of the graph is alive.                       *)
LEMMA LaunchKeeps ==
    ASSUME Shape, NEW g \in Graphs, Launch(g)
    PROVE  Shape' /\ (RunShape => RunShape') /\ (Careful => Careful')
<1>1. /\ call[g] = "Idle" /\ ~HasLiveRun(g) /\ Calling(g, "Launching")
      /\ UNCHANGED <<nodes, graph, run, handle, driver>>
  BY DEF Launch
<1>2. ~IsLive(g)
  BY <1>1 DEF Shape, CallShape, HasLiveRun
<1>3. /\ "Launching" \in Calls /\ run \in [Graphs -> RunRec] /\ handle \subseteq Graphs
      /\ call \in [Graphs -> Calls]
  BY Typed DEF Shape, Calls
<1>4. Shape' /\ (Careful => Careful')
  BY <1>1, <1>2, <1>3, CallMoves
<1>5. ASSUME RunShape PROVE RunShape'
  <2>1. call'[g] = "Launching" /\ \A h \in Graphs \ {g} : call'[h] = call[h]
    BY <1>1, <1>3, CallGets
  <2>2. \A h \in Graphs : IsLive(h)' <=> IsLive(h)
    BY <1>1, DriversStay
  <2>3. QED
    BY <1>1, <1>2, <1>5, <2>1, <2>2 DEF RunShape, HasLiveRun
<1>6. QED
  BY <1>4, <1>5

(* A launch is refused, or writes a record that has no handle yet.         *)
LEMMA LaunchCommitsKeeps ==
    ASSUME Shape, NEW g \in Graphs, LaunchCommits(g)
    PROVE  Shape' /\ (RunShape => RunShape') /\ (Careful => Careful')
<1>1. call[g] = "Launching" /\ UNCHANGED <<nodes, graph, driver>>
  BY DEF LaunchCommits
<1>2. ~IsLive(g)
  BY <1>1 DEF Shape, CallShape
<1>3. /\ {"Idle", "RegisteringLaunch"} \subseteq Calls /\ run \in [Graphs -> RunRec]
      /\ handle \subseteq Graphs /\ call \in [Graphs -> Calls]
  BY Typed DEF Shape, Calls
<1>4. \A h \in Graphs : IsLive(h)' <=> IsLive(h)
  BY <1>1, DriversStay
<1>5. CASE run[g].status \in {"Running", "Parked"}
  <2>1. Calling(g, "Idle") /\ UNCHANGED <<run, handle>>
    BY <1>5 DEF LaunchCommits
  <2>2. Shape' /\ (Careful => Careful')
    BY <1>1, <1>2, <1>3, <2>1, CallMoves
  <2>3. ASSUME RunShape PROVE RunShape'
    <3>1. call'[g] = "Idle" /\ \A h \in Graphs \ {g} : call'[h] = call[h]
      BY <1>3, <2>1, CallGets
    <3>2. QED
      BY <1>1, <1>2, <1>4, <2>1, <2>3, <3>1 DEF RunShape, HasLiveRun
  <2>4. QED
    BY <2>2, <2>3
<1>6. CASE run[g].status \notin {"Running", "Parked"}
  <2>1. /\ run' = [run EXCEPT ![g] = [status |-> "Running", generation |-> 0]]
        /\ handle' = handle \ {g} /\ Calling(g, "RegisteringLaunch")
    BY <1>6 DEF LaunchCommits
  <2>2. /\ run' \in [Graphs -> RunRec] /\ run'[g].status = "Running"
        /\ \A h \in Graphs \ {g} : run'[h] = run[h]
    BY <1>3, <2>1, RunAssumption DEF RunRec, RunStatuses
  <2>3. Shape' /\ (Careful => Careful')
    <3>1. handle' \subseteq Graphs /\ \A h \in Graphs \ {g} : h \in handle' <=> h \in handle
      BY <1>3, <2>1
    <3>2. QED
      BY <1>1, <1>2, <1>3, <2>1, <2>2, <3>1, CallMoves
  <2>4. ASSUME RunShape PROVE RunShape'
    <3>1. call'[g] = "RegisteringLaunch" /\ \A h \in Graphs \ {g} : call'[h] = call[h]
      BY <1>3, <2>1, CallGets
    <3>2. handle' = handle \ {g}
      BY <2>1
    <3>3. QED
      BY <1>1, <1>2, <1>4, <2>2, <2>4, <3>1, <3>2 DEF RunShape, HasLiveRun
  <2>5. QED
    BY <2>3, <2>4
<1>7. QED
  BY <1>5, <1>6

(* A resume of a parked run begins.                                        *)
LEMMA ResumeKeeps ==
    ASSUME Shape, NEW g \in Graphs, Resume(g)
    PROVE  Shape' /\ (RunShape => RunShape') /\ (Careful => Careful')
<1>1. /\ call[g] = "Idle" /\ run[g].status = "Parked" /\ ~HasLiveRun(g)
      /\ run[g].generation < MaxGeneration /\ Calling(g, "Resuming")
      /\ UNCHANGED <<nodes, graph, run, handle, driver>>
  BY DEF Resume
<1>2. ~IsLive(g)
  BY <1>1 DEF Shape, CallShape, HasLiveRun
<1>3. /\ "Resuming" \in Calls /\ run \in [Graphs -> RunRec] /\ handle \subseteq Graphs
      /\ call \in [Graphs -> Calls]
  BY Typed DEF Shape, Calls
<1>4. Shape' /\ (Careful => Careful')
  BY <1>1, <1>2, <1>3, CallMoves
<1>5. ASSUME RunShape PROVE RunShape'
  <2>1. call'[g] = "Resuming" /\ \A h \in Graphs \ {g} : call'[h] = call[h]
    BY <1>1, <1>3, CallGets
  <2>2. \A h \in Graphs : IsLive(h)' <=> IsLive(h)
    BY <1>1, DriversStay
  <2>3. QED
    BY <1>1, <1>2, <1>5, <2>1, <2>2 DEF RunShape, HasLiveRun
<1>6. QED
  BY <1>4, <1>5

(* A park begins: the fence is written while the driver may still work.    *)
LEMMA ParkKeeps ==
    ASSUME Shape, NEW g \in Graphs, Park(g)
    PROVE  Shape' /\ (RunShape => RunShape') /\ (Careful => Careful')
<1>1. /\ call[g] = "Idle" /\ run[g].status = "Running" /\ Calling(g, "Parking")
      /\ run' = [run EXCEPT ![g].status = "Parking"]
      /\ UNCHANGED <<nodes, graph, handle, driver>>
  BY DEF Park
<1>2. /\ "Parking" \in Calls /\ run \in [Graphs -> RunRec] /\ handle \subseteq Graphs
      /\ call \in [Graphs -> Calls] /\ "Parking" \in RunStatuses
  BY Typed DEF Shape, Calls, RunStatuses
<1>3. /\ run' \in [Graphs -> RunRec]
      /\ run'[g].status = "Parking" /\ \A h \in Graphs \ {g} : run'[h] = run[h]
  BY <1>1, <1>2, RunGets
<1>4. IsLive(g) => g \in handle
  BY <1>1 DEF Shape, CallShape
<1>5. Shape' /\ (Careful => Careful')
  <2>1. Calling(g, "Parking") /\ UNCHANGED <<nodes, graph, driver>> /\ handle' = handle
    BY <1>1
  <2>2. QED
    BY <1>1, <1>2, <1>3, <1>4, <2>1, CallMoves
<1>6. ASSUME RunShape PROVE RunShape'
  <2>1. call'[g] = "Parking" /\ \A h \in Graphs \ {g} : call'[h] = call[h]
    BY <1>1, <1>2, CallGets
  <2>2. \A h \in Graphs : IsLive(h)' <=> IsLive(h)
    BY <1>1, DriversStay
  <2>3. UNCHANGED <<nodes, handle, driver>> /\ call[g] = "Idle" /\ run[g].status = "Running"
    BY <1>1
  <2>4. QED
    BY <1>3, <1>6, <2>1, <2>2, <2>3 DEF RunShape, HasLiveRun
<1>7. QED
  BY <1>5, <1>6

(* A cancellation of a live run begins.                                    *)
LEMMA CancelKeeps ==
    ASSUME Shape, NEW g \in Graphs, Cancel(g)
    PROVE  Shape' /\ (RunShape => RunShape') /\ (Careful => Careful')
<1>1. /\ call[g] = "Idle" /\ HasLiveRun(g) /\ Calling(g, "Cancelling")
      /\ UNCHANGED <<nodes, graph, run, handle, driver>>
  BY DEF Cancel
<1>2. g \in handle /\ IsLive(g)
  BY <1>1 DEF HasLiveRun
<1>3. /\ "Cancelling" \in Calls /\ run \in [Graphs -> RunRec] /\ handle \subseteq Graphs
      /\ call \in [Graphs -> Calls]
  BY Typed DEF Shape, Calls
<1>4. Shape' /\ (Careful => Careful')
  BY <1>1, <1>2, <1>3, CallMoves
<1>5. ASSUME RunShape PROVE RunShape'
  <2>1. call'[g] = "Cancelling" /\ \A h \in Graphs \ {g} : call'[h] = call[h]
    BY <1>1, <1>3, CallGets
  <2>2. \A h \in Graphs : IsLive(h)' <=> IsLive(h)
    BY <1>1, DriversStay
  <2>3. QED
    BY <1>1, <1>2, <1>5, <2>1, <2>2 DEF RunShape, HasLiveRun
<1>6. QED
  BY <1>4, <1>5

(* The handle of a finished run is collected.                              *)
LEMMA CollectKeeps ==
    ASSUME Shape, NEW g \in Graphs, Collect(g)
    PROVE  Shape' /\ (RunShape => RunShape') /\ (Careful => Careful')
<1>1. /\ call[g] = "Idle" /\ driver[g].at = "Finished" /\ handle' = handle \ {g}
      /\ UNCHANGED <<nodes, graph, run, driver, call>>
  BY DEF Collect
<1>2. ~IsLive(g)
  BY <1>1 DEF IsLive
<1>3. DriverShape' /\ \A h \in Graphs : IsLive(h)' <=> IsLive(h)
  BY <1>1, DriversStay DEF Shape
<1>4. TypeOK'
  BY <1>1, Typed, TypedNext DEF Shape
<1>5. CallShape'
  BY <1>1, <1>2, <1>3 DEF Shape, CallShape
<1>6. Shape'
  BY <1>1, <1>3, <1>4, <1>5, NodesStay DEF Shape
<1>7. ASSUME RunShape PROVE RunShape'
  BY <1>1, <1>2, <1>3, <1>7 DEF RunShape, HasLiveRun
<1>8. ASSUME Careful PROVE Careful'
  <2>1. \A h \in Graphs : IsStopped(h)' <=> IsStopped(h)
    BY <1>1, <1>3 DEF IsStopped
  <2>2. StoppedIsEmpty'
    BY <1>1, <1>8, <2>1, NodesStay, StoppedStays DEF Careful, NodesOf
  <2>3. QueuedIsPending' /\ NothingStranded'
    BY <1>1, <1>8 DEF Careful, QueuedIsPending, NothingStranded
  <2>4. QED
    BY <1>1, <1>8, <2>2, <2>3, NodesStay DEF Careful
<1>9. QED
  BY <1>6, <1>7, <1>8

(* A graph is closed: nothing else changes.                                *)
LEMMA OwnerClosesKeeps ==
    ASSUME Shape, NEW g \in Graphs, OwnerCloses(g)
    PROVE  Shape' /\ (RunShape => RunShape') /\ (Careful => Careful')
<1>1. UNCHANGED <<nodes, run, handle, driver, call>>
  BY DEF OwnerCloses
<1>2. graph' \in [Graphs -> GraphStatuses]
  BY Typed DEF OwnerCloses, Shape, GraphStatuses
<1>3. DriverShape' /\ \A h \in Graphs : IsLive(h)' <=> IsLive(h)
  BY <1>1, DriversStay DEF Shape
<1>4. TypeOK'
  BY <1>1, <1>2, Typed, TypedNext DEF Shape
<1>5. CallShape'
  BY <1>1, <1>3, CallShapeStays DEF Shape
<1>6. Shape'
  BY <1>1, <1>3, <1>4, <1>5, NodesStay DEF Shape
<1>7. ASSUME RunShape PROVE RunShape'
  BY <1>1, <1>3, <1>7 DEF RunShape, HasLiveRun
<1>8. ASSUME Careful PROVE Careful'
  <2>1. \A h \in Graphs : IsStopped(h)' <=> IsStopped(h)
    BY <1>1, <1>3 DEF IsStopped
  <2>2. StoppedIsEmpty'
    BY <1>1, <1>8, <2>1, NodesStay, StoppedStays DEF Careful, NodesOf
  <2>3. QueuedIsPending' /\ NothingStranded'
    BY <1>1, <1>8 DEF Careful, QueuedIsPending, NothingStranded
  <2>4. QED
    BY <1>1, <1>8, <2>2, <2>3, NodesStay DEF Careful
<1>9. QED
  BY <1>6, <1>7, <1>8

(* A park returns: the record already reads Parked.                        *)
LEMMA ParkReturnsKeeps ==
    ASSUME Shape, NEW g \in Graphs, ParkReturns(g)
    PROVE  Shape' /\ (RunShape => RunShape') /\ (Careful => Careful')
<1>1. /\ call[g] = "Reconciled" /\ Calling(g, "Idle")
      /\ run' = [run EXCEPT ![g].status = "Parked"]
      /\ UNCHANGED <<nodes, graph, handle, driver>>
  BY DEF ParkReturns
<1>2. /\ "Idle" \in Calls /\ run \in [Graphs -> RunRec] /\ handle \subseteq Graphs
      /\ call \in [Graphs -> Calls] /\ "Parked" \in RunStatuses
  BY Typed DEF Shape, Calls, RunStatuses
<1>3. /\ run' \in [Graphs -> RunRec]
      /\ run'[g].status = "Parked" /\ \A h \in Graphs \ {g} : run'[h] = run[h]
  BY <1>1, <1>2, RunGets
<1>4. ~IsLive(g)
  BY <1>1 DEF Shape, CallShape
<1>5. /\ UNCHANGED <<nodes, graph, driver>> /\ handle' = handle /\ Calling(g, "Idle")
      /\ call[g] = "Reconciled"
  BY <1>1
<1>6. Shape' /\ (Careful => Careful')
  BY <1>2, <1>3, <1>4, <1>5, CallMoves
<1>7. ASSUME RunShape PROVE RunShape'
  <2>1. call'[g] = "Idle" /\ \A h \in Graphs \ {g} : call'[h] = call[h]
    BY <1>2, <1>5, CallGets
  <2>2. \A h \in Graphs : IsLive(h)' <=> IsLive(h)
    BY <1>5, DriversStay
  <2>3. QED
    BY <1>3, <1>4, <1>5, <1>7, <2>1, <2>2 DEF RunShape, HasLiveRun
<1>8. QED
  BY <1>6, <1>7

(* The driver of a call's run is told to stop.                             *)
LEMMA SignalEffect ==
    ASSUME TypeOK, NEW g \in Graphs, Signal(g)
    PROVE  /\ Becomes(g, driver[g].at, driver[g].todo, driver[g].next, driver[g].wave,
                      driver[g].launched, TRUE, driver[g].conclusion)
           /\ \A h \in Graphs : IsLive(h)' <=> IsLive(h)
           /\ DriverShape => DriverShape'
<1>1. driver \in [Graphs -> DriverRec] /\ driver[g] \in DriverRec
  BY Typed
<1>2. Becomes(g, driver[g].at, driver[g].todo, driver[g].next, driver[g].wave,
              driver[g].launched, TRUE, driver[g].conclusion)
  BY <1>1, Signalled DEF Signal
<1>3. \A h \in Graphs : IsLive(h)' <=> IsLive(h)
  BY <1>2 DEF IsLive, Becomes
<1>4. DriverShape => DriverShape'
  BY <1>2 DEF DriverShape, Becomes
<1>5. QED
  BY <1>2, <1>3, <1>4

(* A park takes the handle and tells the driver to stop.                   *)
LEMMA ParkCancelsKeeps ==
    ASSUME Shape, NEW g \in Graphs, ParkCancels(g)
    PROVE  Shape' /\ (RunShape => RunShape') /\ (Careful => Careful')
<1>1. call[g] = "Parking" /\ UNCHANGED <<nodes, graph, run>>
  BY DEF ParkCancels
<1>2. /\ {"Idle", "Joining"} \subseteq Calls /\ run \in [Graphs -> RunRec]
      /\ handle \subseteq Graphs /\ call \in [Graphs -> Calls]
  BY Typed DEF Shape, Calls
<1>3. CASE g \in handle
  <2>1. handle' = handle \ {g} /\ Signal(g) /\ Calling(g, "Joining")
    BY <1>3 DEF ParkCancels
  <2>2. call' \in [Graphs -> Calls] /\ call'[g] = "Joining"
        /\ \A h \in Graphs \ {g} : call'[h] = call[h]
    BY <1>2, <2>1, CallGets
  <2>3. /\ Becomes(g, driver[g].at, driver[g].todo, driver[g].next, driver[g].wave,
                   driver[g].launched, TRUE, driver[g].conclusion)
        /\ \A h \in Graphs : IsLive(h)' <=> IsLive(h)
        /\ DriverShape'
    BY <2>1, SignalEffect DEF Shape
  <2>4. handle' = handle \ {g}
    BY <2>1
  <2>5. TypeOK'
    BY <1>1, <2>2, <2>3, <2>4, Typed, TypedNext DEF Shape, Becomes
  <2>6. CallShape'
    BY <1>1, <2>2, <2>3, <2>4 DEF Shape, CallShape
  <2>7. Shape'
    BY <1>1, <2>3, <2>5, <2>6, NodesStay DEF Shape
  <2>8. ASSUME RunShape PROVE RunShape'
    BY <1>1, <2>2, <2>3, <2>4, <2>8 DEF RunShape, HasLiveRun, Becomes
  <2>9. ASSUME Careful PROVE Careful'
    <3>1. \A h \in Graphs : IsStopped(h)' => IsStopped(h)
      BY <1>1, <2>2, <2>3 DEF IsStopped, Becomes
    <3>2. StoppedIsEmpty'
      BY <1>1, <2>9, <3>1, NodesStay, StoppedStays DEF Careful, NodesOf
    <3>3. QueuedIsPending'
      BY <1>1, <2>2, <2>3, <2>9 DEF Careful, QueuedIsPending, Becomes
    <3>4. NothingStranded'
      BY <1>1, <2>2, <2>3, <2>9, NodesAreOfGraphs DEF Careful, NothingStranded, Becomes
    <3>5. QED
      BY <1>1, <2>9, <3>2, <3>3, <3>4, NodesStay DEF Careful
  <2>10. QED
    BY <2>7, <2>8, <2>9
<1>4. CASE g \notin handle
  <2>1. Calling(g, "Idle") /\ UNCHANGED <<handle, driver>>
    BY <1>4 DEF ParkCancels
  <2>2. ~IsLive(g)
    BY <1>1, <1>4 DEF Shape, CallShape
  <2>3. Shape' /\ (Careful => Careful')
    BY <1>1, <1>2, <2>1, <2>2, CallMoves
  <2>4. ASSUME RunShape PROVE RunShape'
    BY <1>1, <1>4, <2>4 DEF RunShape
  <2>5. QED
    BY <2>3, <2>4
<1>5. QED
  BY <1>3, <1>4

(* The cancellation reaches the driver after every node was closed.        *)
LEMMA CancelSignalsKeeps ==
    ASSUME Shape, NEW g \in Graphs, CancelSignals(g)
    PROVE  Shape' /\ (RunShape => RunShape') /\ (Careful => Careful')
<1>1. /\ call[g] = "Signalling" /\ Signal(g) /\ Calling(g, "Idle")
      /\ UNCHANGED <<nodes, graph, run, handle>>
  BY DEF CancelSignals
<1>2. "Idle" \in Calls /\ call \in [Graphs -> Calls]
  BY Typed DEF Shape, Calls
<1>3. call' \in [Graphs -> Calls] /\ call'[g] = "Idle"
      /\ \A h \in Graphs \ {g} : call'[h] = call[h]
  BY <1>1, <1>2, CallGets
<1>4. /\ Becomes(g, driver[g].at, driver[g].todo, driver[g].next, driver[g].wave,
                 driver[g].launched, TRUE, driver[g].conclusion)
      /\ \A h \in Graphs : IsLive(h)' <=> IsLive(h)
      /\ DriverShape'
  BY <1>1, SignalEffect DEF Shape
<1>5. call[g] = "Signalling" /\ UNCHANGED <<nodes, graph, run, handle>>
  BY <1>1
<1>6. TypeOK'
  BY <1>3, <1>4, <1>5, Typed, TypedNext DEF Shape, Becomes
<1>7. CallShape'
  BY <1>3, <1>4, <1>5 DEF Shape, CallShape
<1>8. Shape'
  BY <1>4, <1>5, <1>6, <1>7, NodesStay DEF Shape
<1>9. ASSUME RunShape PROVE RunShape'
  BY <1>3, <1>4, <1>5, <1>9 DEF RunShape, HasLiveRun, Becomes
<1>10. ASSUME Careful PROVE Careful'
  <2>1. \A h \in Graphs : IsStopped(h)' => IsStopped(h)
    BY <1>3, <1>4, <1>5 DEF IsStopped, Becomes
  <2>2. StoppedIsEmpty'
    BY <1>5, <1>10, <2>1, NodesStay, StoppedStays DEF Careful, NodesOf
  <2>3. QueuedIsPending'
    BY <1>3, <1>4, <1>5, <1>10 DEF Careful, QueuedIsPending, Becomes
  <2>4. NothingStranded'
    BY <1>3, <1>4, <1>5, <1>10, NodesAreOfGraphs DEF Careful, NothingStranded, Becomes
  <2>5. QED
    BY <1>5, <1>10, <2>2, <2>3, <2>4, NodesStay DEF Careful
<1>11. QED
  BY <1>8, <1>9, <1>10

(* The record of a graph without a driver, and of a driver that starts.    *)
LEMMA NoDriverFields ==
    /\ NoDriver \in DriverRec /\ NoDriver.at = "None" /\ NoDriver.todo = {}
    /\ NoDriver.next = {} /\ NoDriver.wave = {} /\ NoDriver.cancelled = FALSE
<1>1. 0 \in 0..MaxLaunched
  BY RunAssumption
<1>2. /\ FALSE \in BOOLEAN /\ "None" \in Places /\ "None" \in Conclusions \cup {"None"}
      /\ {} \in SUBSET Nodes
  BY DEF Places
<1>3. NoDriver \in DriverRec
  BY ONLY <1>1, <1>2 DEF NoDriver, DriverRec
<1>4. QED
  BY <1>3 DEF NoDriver

(* The record of a driver that starts.                                     *)
LEMMA PlaceRecord ==
    ASSUME NEW x \in DriverRec, NEW a \in Places, NEW y, y = [x EXCEPT !.at = a]
    PROVE  /\ y \in DriverRec /\ y.at = a /\ y.todo = x.todo /\ y.next = x.next
           /\ y.wave = x.wave /\ y.cancelled = x.cancelled
BY ONLY x \in DriverRec, a \in Places, y = [x EXCEPT !.at = a] DEF DriverRec

(* A new driver starts, unless the run has a handle already.               *)
LEMMA RegisterKeeps ==
    ASSUME Shape, NEW g \in Graphs, Register(g)
    PROVE  Shape' /\ (RunShape => RunShape') /\ (Careful => Careful')
<1>1. /\ call[g] \in {"RegisteringLaunch", "RegisteringResume"} /\ Calling(g, "Idle")
      /\ UNCHANGED <<nodes, graph, run>>
  BY DEF Register
<1>2. /\ "Idle" \in Calls /\ run \in [Graphs -> RunRec] /\ handle \subseteq Graphs
      /\ call \in [Graphs -> Calls] /\ driver \in [Graphs -> DriverRec]
  BY Typed DEF Shape, Calls
<1>3. ~IsLive(g)
  BY <1>1 DEF Shape, CallShape
<1>4. CASE g \in handle
  <2>1. UNCHANGED <<handle, driver>>
    BY <1>4 DEF Register
  <2>2. Shape' /\ (Careful => Careful')
    BY <1>1, <1>2, <1>3, <2>1, CallMoves
  <2>3. ASSUME RunShape PROVE RunShape'
    BY <1>1, <1>4, <2>3 DEF RunShape
  <2>4. QED
    BY <2>2, <2>3
<1>5. CASE g \notin handle
  <2> DEFINE r == [NoDriver EXCEPT !.at = "Top"]
  <2>1. handle' = handle \cup {g} /\ driver' = [driver EXCEPT ![g] = r]
    BY <1>5 DEF Register
  <2>2. r = [NoDriver EXCEPT !.at = "Top"]
    OBVIOUS
  <2> HIDE DEF r
  <2>3. /\ r \in DriverRec /\ r.at = "Top" /\ r.todo = {} /\ r.next = {} /\ r.wave = {}
        /\ r.cancelled = FALSE
    <3>1. "Top" \in Places
      BY DEF Places
    <3>2. /\ r \in DriverRec /\ r.at = "Top" /\ r.todo = NoDriver.todo
          /\ r.next = NoDriver.next /\ r.wave = NoDriver.wave
          /\ r.cancelled = NoDriver.cancelled
      BY ONLY <2>2, <3>1, NoDriverFields, PlaceRecord
    <3>3. QED
      BY <3>2, NoDriverFields
  <2>4. Becomes(g, r.at, r.todo, r.next, r.wave, r.launched, r.cancelled, r.conclusion)
    BY <1>2, <2>1, <2>3, Replaced
  <2>5. call' \in [Graphs -> Calls] /\ call'[g] = "Idle"
        /\ \A h \in Graphs \ {g} : call'[h] = call[h]
    BY <1>1, <1>2, CallGets
  <2>6. handle' = handle \cup {g}
    BY <2>1
  <2>7. TypeOK'
    BY <1>1, <2>4, <2>5, <2>6, Typed, TypedNext DEF Shape, Becomes
  <2>8. DriverShape'
    BY <2>3, <2>4 DEF Shape, DriverShape, Becomes
  <2>9. \A h \in Graphs \ {g} : IsLive(h)' <=> IsLive(h)
    BY <2>4 DEF IsLive, Becomes
  <2>10. CallShape'
    BY <1>1, <2>5, <2>6, <2>9 DEF Shape, CallShape
  <2>11. Shape'
    BY <1>1, <2>7, <2>8, <2>10, NodesStay DEF Shape
  <2>12. driver'[g].at = "Top" /\ IsLive(g)'
    BY <2>3, <2>4 DEF Becomes, IsLive
  <2>13. ASSUME RunShape PROVE RunShape'
    <3>1. \A h \in Graphs \ {g} : driver'[h] = driver[h]
      BY <2>4 DEF Becomes
    <3>2. QED
      BY <1>1, <2>5, <2>6, <2>9, <2>12, <2>13, <3>1 DEF RunShape, HasLiveRun
  <2>14. ASSUME Careful PROVE Careful'
    <3>1. /\ \A h \in Graphs \ {g} : driver'[h] = driver[h]
          /\ driver'[g].todo = {} /\ driver'[g].next = {} /\ ~driver'[g].cancelled
      BY <2>3, <2>4 DEF Becomes
    <3>2. \A h \in Graphs : IsStopped(h)' => IsStopped(h)
      BY <2>5, <2>9, <3>1 DEF IsStopped
    <3>3. StoppedIsEmpty'
      BY <1>1, <2>14, <3>2, NodesStay, StoppedStays DEF Careful, NodesOf
    <3>4. QueuedIsPending'
      BY <1>1, <2>5, <2>14, <3>1 DEF Careful, QueuedIsPending
    <3>5. driver[g].wave = {}
      BY <1>3 DEF Shape, DriverShape, IsLive
    <3>6. NothingStranded'
      BY <1>1, <2>5, <2>14, <3>1, <3>5, NodesAreOfGraphs DEF Careful, NothingStranded
    <3>7. QED
      BY <1>1, <2>14, <3>3, <3>4, <3>6, NodesStay DEF Careful
  <2>15. QED
    BY <2>11, <2>13, <2>14
<1>6. QED
  BY <1>4, <1>5

(* Every open node of the graph is closed before the token is set.         *)
LEMMA CancelCommitsKeeps ==
    ASSUME Shape, NEW g \in Graphs, CancelCommits(g)
    PROVE  Shape' /\ (RunShape => RunShape') /\ (Careful => Careful')
<1>1. /\ call[g] = "Cancelling" /\ Calling(g, "Signalling")
      /\ UNCHANGED <<run, handle, driver>>
  BY DEF CancelCommits
<1>2. /\ "Signalling" \in Calls /\ call \in [Graphs -> Calls] /\ nodes \in [Nodes -> NodeRec]
  BY Typed DEF Shape, Calls
<1>3. call' \in [Graphs -> Calls] /\ call'[g] = "Signalling"
      /\ \A h \in Graphs \ {g} : call'[h] = call[h]
  BY <1>1, <1>2, CallGets
<1>4. graph' \in [Graphs -> GraphStatuses]
  BY Typed DEF CancelCommits, Shape, GraphStatuses
<1>5. \A m \in Nodes :
         IF m \in NodesOf(g) /\ IsCancellable(m)
         THEN /\ nodes'[m] \in NodeRec /\ nodes'[m].status = "Cancelled"
              /\ nodes'[m].used = nodes[m].used /\ nodes'[m].held = FALSE
         ELSE nodes'[m] = nodes[m]
  <2>1. SUFFICES ASSUME NEW m \in Nodes, m \in NodesOf(g) /\ IsCancellable(m)
                 PROVE  /\ nodes'[m] \in NodeRec /\ nodes'[m].status = "Cancelled"
                        /\ nodes'[m].used = nodes[m].used /\ nodes'[m].held = FALSE
    BY DEF CancelCommits
  <2>2. nodes'[m] = [nodes[m] EXCEPT !.status = "Cancelled", !.held = FALSE]
    BY <2>1 DEF CancelCommits
  <2>3. nodes[m] \in NodeRec /\ "Cancelled" \in Statuses
    BY <1>2 DEF Statuses
  <2>4. QED
    BY ONLY <2>2, <2>3 DEF NodeRec
<1>6. nodes' \in [Nodes -> NodeRec]
  BY <1>2, <1>5 DEF CancelCommits
<1>7. TypeOK'
  BY <1>1, <1>3, <1>4, <1>6, Typed, TypedNext DEF Shape
<1>8. DriverShape' /\ \A h \in Graphs : IsLive(h)' <=> IsLive(h)
  BY <1>1, DriversStay DEF Shape
<1>9. CallShape'
  BY <1>1, <1>3, <1>8 DEF Shape, CallShape
<1>10. \A m \in Nodes : nodes'[m].held => nodes[m].held /\ nodes'[m].status = "Running"
  BY <1>5 DEF Shape, HeldRuns
<1>11. Shape'
  BY <1>7, <1>8, <1>9, <1>10 DEF Shape, HeldRuns
<1>12. ASSUME RunShape PROVE RunShape'
  BY <1>1, <1>3, <1>8, <1>10, <1>12 DEF RunShape, HasLiveRun, NodesOf
<1>13. ASSUME Careful PROVE Careful'
  <2>1. PendingMayRun'
    BY <1>5, <1>13 DEF Careful, PendingMayRun, HasAttemptsLeft
  <2>2. \A m \in NodesOf(g) : ~IsCancellable(m)'
    BY <1>5 DEF IsCancellable, NodesOf
  <2>3. \A h \in Graphs \ {g} : \A m \in NodesOf(h) : nodes'[m] = nodes[m]
    BY <1>5 DEF NodesOf
  <2>4. \A h \in Graphs \ {g} : IsStopped(h)' => IsStopped(h)
    BY <1>1, <1>3, <1>8 DEF IsStopped
  <2>5. StoppedIsEmpty'
    BY <1>13, <2>2, <2>3, <2>4 DEF Careful, StoppedIsEmpty, IsCancellable
  <2>6. \A h \in Graphs : driver[h].todo \cup driver[h].next \subseteq NodesOf(h)
    BY DEF Shape, DriverShape
  <2>7. QueuedIsPending'
    BY <1>1, <1>3, <1>13, <2>3, <2>6 DEF Careful, QueuedIsPending
  <2>8. NothingStranded'
    BY <1>1, <1>3, <1>10, <1>13, NodesAreOfGraphs DEF Careful, NothingStranded
  <2>9. QED
    BY <2>1, <2>5, <2>7, <2>8 DEF Careful
<1>14. QED
  BY <1>11, <1>12, <1>13

(* A resume gives every interrupted node another chance and commits to a   *)
(* new driver, or is refused.                                              *)
LEMMA ResumeCommitsKeeps ==
    ASSUME Shape, NEW g \in Graphs, ResumeCommits(g)
    PROVE  Shape' /\ (RunShape => RunShape') /\ (Careful => Careful')
<1> DEFINE interrupted == {n \in NodesOf(g) : nodes[n].status = "Interrupted"}
<1>1. call[g] = "Resuming" /\ UNCHANGED <<graph, handle, driver>>
  BY DEF ResumeCommits
<1>2. /\ {"Idle", "RegisteringResume"} \subseteq Calls /\ call \in [Graphs -> Calls]
      /\ nodes \in [Nodes -> NodeRec] /\ run \in [Graphs -> RunRec] /\ handle \subseteq Graphs
      /\ run[g] \in RunRec
  BY Typed DEF Shape, Calls
<1>3. ~IsLive(g) /\ run[g].generation < MaxGeneration
  BY <1>1 DEF Shape, CallShape
<1>4. CASE ~\A n \in interrupted : HasAttemptsLeft(n)
  <2>1. Calling(g, "Idle") /\ UNCHANGED <<nodes, run>>
    BY <1>4 DEF ResumeCommits
  <2>2. Shape' /\ (Careful => Careful')
    BY <1>1, <1>2, <1>3, <2>1, CallMoves
  <2>3. ASSUME RunShape PROVE RunShape'
    <3>1. call'[g] = "Idle" /\ \A h \in Graphs \ {g} : call'[h] = call[h]
      BY <1>2, <2>1, CallGets
    <3>2. \A h \in Graphs : IsLive(h)' <=> IsLive(h)
      BY <1>1, DriversStay
    <3>3. QED
      BY <1>1, <2>1, <2>3, <3>1, <3>2 DEF RunShape, HasLiveRun
  <2>4. QED
    BY <2>2, <2>3
<1>5. CASE \A n \in interrupted : HasAttemptsLeft(n)
  <2>1. /\ nodes' = [n \in Nodes |-> IF n \in interrupted
                      THEN [nodes[n] EXCEPT !.status = "Pending"] ELSE nodes[n]]
        /\ run' = [run EXCEPT ![g] = [status |-> "Running", generation |-> @.generation + 1]]
        /\ Calling(g, "RegisteringResume")
    BY <1>5 DEF ResumeCommits
  <2>2. \A m \in Nodes :
           IF m \in interrupted
           THEN /\ nodes'[m] \in NodeRec /\ nodes'[m].status = "Pending"
                /\ nodes'[m].used = nodes[m].used /\ nodes'[m].held = nodes[m].held
           ELSE nodes'[m] = nodes[m]
    <3>1. SUFFICES ASSUME NEW m \in Nodes, m \in interrupted
                   PROVE  /\ nodes'[m] \in NodeRec /\ nodes'[m].status = "Pending"
                          /\ nodes'[m].used = nodes[m].used /\ nodes'[m].held = nodes[m].held
      BY <2>1
    <3>2. nodes'[m] = [nodes[m] EXCEPT !.status = "Pending"]
      BY <2>1, <3>1
    <3>3. nodes[m] \in NodeRec /\ "Pending" \in Statuses
      BY <1>2 DEF Statuses
    <3>4. QED
      BY ONLY <3>2, <3>3, StatusRecord
  <2>3. nodes' \in [Nodes -> NodeRec]
    BY <1>2, <2>1, <2>2
  <2> DEFINE r == [status |-> "Running", generation |-> run[g].generation + 1]
  <2>4. r \in RunRec /\ r.status = "Running"
    <3>1. run[g].generation \in 0..MaxGeneration
      BY <1>2 DEF RunRec
    <3>2. QED
      BY <1>3, <3>1, RunAssumption DEF RunRec, RunStatuses
  <2>5. run' = [run EXCEPT ![g] = r]
    BY <2>1
  <2> HIDE DEF r
  <2>6. /\ run' \in [Graphs -> RunRec] /\ run'[g].status = "Running"
        /\ \A h \in Graphs \ {g} : run'[h] = run[h]
    <3>1. run' \in [Graphs -> RunRec] /\ run'[g] = r /\ \A h \in Graphs \ {g} : run'[h] = run[h]
      BY <1>2, <2>4, <2>5, Updated
    <3>2. QED
      BY <2>4, <3>1
  <2>7. /\ call' \in [Graphs -> Calls] /\ call'[g] = "RegisteringResume"
        /\ \A h \in Graphs \ {g} : call'[h] = call[h]
    BY <1>2, <2>1, CallGets
  <2>8. TypeOK'
    BY <1>1, <2>3, <2>6, <2>7, Typed, TypedNext DEF Shape
  <2>9. DriverShape' /\ \A h \in Graphs : IsLive(h)' <=> IsLive(h)
    BY <1>1, DriversStay DEF Shape
  <2>10. CallShape'
    BY <1>1, <1>3, <2>6, <2>7, <2>9 DEF Shape, CallShape
  <2>11. \A m \in Nodes : nodes'[m].held => nodes[m].held /\ nodes'[m].status = "Running"
    BY <2>2 DEF Shape, HeldRuns
  <2>12. Shape'
    BY <2>8, <2>9, <2>10, <2>11 DEF Shape, HeldRuns
  <2>13. ASSUME RunShape PROVE RunShape'
    <3>1. \A h \in Graphs \ {g} : driver'[h] = driver[h]
      BY <1>1
    <3>2. QED
      BY <1>1, <1>3, <2>6, <2>7, <2>9, <2>11, <2>13, <3>1 DEF RunShape, HasLiveRun, NodesOf
  <2>14. ASSUME Careful PROVE Careful'
    <3>1. PendingMayRun'
      BY <1>5, <2>2, <2>14 DEF Careful, PendingMayRun, HasAttemptsLeft
    <3>2. \A h \in Graphs : IsStopped(h)' => IsStopped(h) /\ h # g
      BY <1>1, <1>3, <2>7, <2>9 DEF IsStopped
    <3>3. \A h \in Graphs \ {g} : \A m \in NodesOf(h) : nodes'[m] = nodes[m]
      BY <2>2 DEF NodesOf
    <3>4. StoppedIsEmpty'
      BY <2>14, <3>2, <3>3 DEF Careful, StoppedIsEmpty, IsCancellable
    <3>5. \A h \in Graphs : driver[h].todo \cup driver[h].next \subseteq Nodes
      BY DEF Shape, DriverShape, NodesOf
    <3>6. \A m \in Nodes : nodes[m].status = "Pending" => nodes'[m].status = "Pending"
      BY <2>2
    <3>7. QueuedIsPending'
      BY <1>1, <2>7, <2>14, <3>5, <3>6 DEF Careful, QueuedIsPending
    <3>8. NothingStranded'
      BY <1>1, <2>7, <2>11, <2>14, NodesAreOfGraphs DEF Careful, NothingStranded
    <3>9. QED
      BY <3>1, <3>4, <3>7, <3>8 DEF Careful
  <2>15. QED
    BY <2>12, <2>13, <2>14
<1>6. QED
  BY <1>4, <1>5

-----------------------------------------------------------------------------
(* Reconciliation.                                                         *)

(* What ran is interrupted, so that nobody holds a node, and a record that *)
(* promised a driver reads Parked.                                         *)
LEMMA ReconcileEffect ==
    ASSUME TypeOK, HeldRuns, Reconcile
    PROVE  /\ nodes' \in [Nodes -> NodeRec] /\ run' \in [Graphs -> RunRec]
           /\ \A m \in Nodes :
                 /\ ~nodes'[m].held /\ nodes'[m].used = nodes[m].used
                 /\ \/ nodes'[m].status = nodes[m].status
                    \/ nodes'[m].status = "Interrupted" /\ nodes[m].status = "Running"
           /\ \A h \in Graphs :
                 /\ run'[h].generation = run[h].generation
                 /\ run'[h].status = IF run[h].status \in {"Running", "Parking"}
                                     THEN "Parked" ELSE run[h].status
<1>1. nodes \in [Nodes -> NodeRec] /\ run \in [Graphs -> RunRec]
  BY Typed
<1>2. \A m \in Nodes : nodes'[m] =
         IF nodes[m].status = "Running"
         THEN [nodes[m] EXCEPT !.status = "Interrupted", !.held = FALSE] ELSE nodes[m]
  BY DEF Reconcile
<1>3. \A h \in Graphs : run'[h] =
         IF run[h].status \in {"Running", "Parking"}
         THEN [run[h] EXCEPT !.status = "Parked"] ELSE run[h]
  BY DEF Reconcile
<1>4. ASSUME NEW m \in Nodes
      PROVE  /\ nodes'[m] \in NodeRec
             /\ ~nodes'[m].held /\ nodes'[m].used = nodes[m].used
             /\ \/ nodes'[m].status = nodes[m].status
                \/ nodes'[m].status = "Interrupted" /\ nodes[m].status = "Running"
  <2>1. nodes[m] \in NodeRec /\ "Interrupted" \in Statuses
    BY <1>1 DEF Statuses
  <2>2. CASE nodes[m].status = "Running"
    <3>1. nodes'[m] = [nodes[m] EXCEPT !.status = "Interrupted", !.held = FALSE]
      BY <1>2, <2>2
    <3>2. /\ nodes'[m] \in NodeRec /\ nodes'[m].status = "Interrupted"
          /\ nodes'[m].used = nodes[m].used /\ nodes'[m].held = FALSE
      BY ONLY <2>1, <3>1 DEF NodeRec
    <3>3. QED
      BY <2>2, <3>2
  <2>3. CASE nodes[m].status # "Running"
    BY <1>2, <2>1, <2>3 DEF HeldRuns
  <2>4. QED
    BY <2>2, <2>3
<1>5. ASSUME NEW h \in Graphs
      PROVE  /\ run'[h] \in RunRec /\ run'[h].generation = run[h].generation
             /\ run'[h].status = IF run[h].status \in {"Running", "Parking"}
                                 THEN "Parked" ELSE run[h].status
  <2>1. run[h] \in RunRec /\ "Parked" \in RunStatuses
    BY <1>1 DEF RunStatuses
  <2>2. CASE run[h].status \in {"Running", "Parking"}
    <3>1. run'[h] = [run[h] EXCEPT !.status = "Parked"]
      BY <1>3, <2>2
    <3>2. /\ run'[h] \in RunRec /\ run'[h].status = "Parked"
          /\ run'[h].generation = run[h].generation
      BY ONLY <2>1, <3>1, RunRecord
    <3>3. QED
      BY <2>2, <3>2
  <2>3. CASE run[h].status \notin {"Running", "Parking"}
    BY <1>3, <2>1, <2>3
  <2>4. QED
    BY <2>2, <2>3
<1>6. nodes' \in [Nodes -> NodeRec] /\ run' \in [Graphs -> RunRec]
  BY <1>4, <1>5 DEF Reconcile
<1>7. QED
  BY <1>4, <1>5, <1>6

(* A park that joined the driver of the only run reconciles.  When another *)
(* run is at work its record reads Parked as well: RunShape needs OneRun.  *)
LEMMA ParkReconcilesKeeps ==
    ASSUME Shape, NEW g \in Graphs, ParkReconciles(g)
    PROVE  Shape' /\ (OneRun /\ RunShape => RunShape') /\ (Careful => Careful')
<1>1. /\ call[g] = "Joining" /\ ~IsLive(g) /\ Calling(g, "Reconciled")
      /\ UNCHANGED <<graph, handle, driver>>
  BY DEF ParkReconciles, HasJoined
<1>2. "Reconciled" \in Calls /\ call \in [Graphs -> Calls]
  BY Typed DEF Shape, Calls
<1>3. /\ call' \in [Graphs -> Calls] /\ call'[g] = "Reconciled"
      /\ \A h \in Graphs \ {g} : call'[h] = call[h]
  BY <1>1, <1>2, CallGets
<1>4. /\ nodes' \in [Nodes -> NodeRec] /\ run' \in [Graphs -> RunRec]
      /\ \A m \in Nodes :
            /\ ~nodes'[m].held /\ nodes'[m].used = nodes[m].used
            /\ \/ nodes'[m].status = nodes[m].status
               \/ nodes'[m].status = "Interrupted" /\ nodes[m].status = "Running"
      /\ \A h \in Graphs :
            /\ run'[h].generation = run[h].generation
            /\ run'[h].status = IF run[h].status \in {"Running", "Parking"}
                                THEN "Parked" ELSE run[h].status
  BY ReconcileEffect DEF ParkReconciles, Shape
<1>5. TypeOK'
  BY <1>1, <1>3, <1>4, Typed, TypedNext DEF Shape
<1>6. DriverShape' /\ \A h \in Graphs : IsLive(h)' <=> IsLive(h)
  BY <1>1, DriversStay DEF Shape
<1>7. CallShape'
  BY <1>1, <1>3, <1>4, <1>6 DEF Shape, CallShape
<1>8. Shape'
  BY <1>4, <1>5, <1>6, <1>7 DEF Shape, HeldRuns
<1>9. ASSUME OneRun, RunShape PROVE RunShape'
  BY <1>1, <1>3, <1>4, <1>6, <1>9 DEF OneRun, RunShape, HasLiveRun, NodesOf
<1>10. ASSUME Careful PROVE Careful'
  <2>1. PendingMayRun'
    BY <1>4, <1>10 DEF Careful, PendingMayRun, HasAttemptsLeft
  <2>2. \A h \in Graphs : IsStopped(h)' => IsStopped(h)
    BY <1>1, <1>3, <1>6 DEF IsStopped
  <2>3. \A m \in Nodes : IsCancellable(m)' => IsCancellable(m)
    BY <1>4 DEF IsCancellable
  <2>4. StoppedIsEmpty'
    BY <1>10, <2>2, <2>3, StoppedStays DEF Careful, NodesOf
  <2>5. \A h \in Graphs : driver[h].todo \cup driver[h].next \subseteq Nodes
    BY DEF Shape, DriverShape, NodesOf
  <2>6. QueuedIsPending'
    BY <1>1, <1>3, <1>4, <1>10, <2>5 DEF Careful, QueuedIsPending
  <2>7. NothingStranded'
    BY <1>4 DEF NothingStranded
  <2>8. QED
    BY <2>1, <2>4, <2>6, <2>7 DEF Careful
<1>11. QED
  BY <1>8, <1>9, <1>10

(* After a restart no driver is there that a record could promise.         *)
LEMMA RestartKeeps ==
    ASSUME Shape, Restart
    PROVE  Shape' /\ (RunShape => RunShape') /\ (Careful => Careful')
<1>1. /\ handle' = {} /\ UNCHANGED graph
      /\ driver' = [g \in Graphs |-> NoDriver] /\ call' = [g \in Graphs |-> "Idle"]
  BY DEF Restart
<1>2. /\ nodes' \in [Nodes -> NodeRec] /\ run' \in [Graphs -> RunRec]
      /\ \A m \in Nodes :
            /\ ~nodes'[m].held /\ nodes'[m].used = nodes[m].used
            /\ \/ nodes'[m].status = nodes[m].status
               \/ nodes'[m].status = "Interrupted" /\ nodes[m].status = "Running"
      /\ \A h \in Graphs :
            /\ run'[h].generation = run[h].generation
            /\ run'[h].status = IF run[h].status \in {"Running", "Parking"}
                                THEN "Parked" ELSE run[h].status
  BY ReconcileEffect DEF Restart, Shape
<1>3. /\ NoDriver \in DriverRec /\ NoDriver.at = "None" /\ NoDriver.todo = {}
      /\ NoDriver.next = {} /\ NoDriver.wave = {}
  BY NoDriverFields
<1>4. driver' \in [Graphs -> DriverRec] /\ \A h \in Graphs : driver'[h] = NoDriver
  BY <1>1, <1>3
<1>5. call' \in [Graphs -> Calls] /\ \A h \in Graphs : call'[h] = "Idle"
  BY <1>1 DEF Calls
<1>6. TypeOK'
  BY <1>1, <1>2, <1>4, <1>5, Typed, TypedNext DEF Shape
<1>7. DriverShape' /\ \A h \in Graphs : ~IsLive(h)'
  BY <1>3, <1>4 DEF DriverShape, IsLive
<1>8. CallShape'
  BY <1>5, <1>7 DEF CallShape
<1>9. Shape'
  BY <1>2, <1>6, <1>7, <1>8 DEF Shape, HeldRuns
<1>10. RunShape'
  BY <1>1, <1>2, <1>5, <1>7 DEF RunShape, NodesOf
<1>11. ASSUME Careful PROVE Careful'
  <2>1. PendingMayRun'
    BY <1>2, <1>11 DEF Careful, PendingMayRun, HasAttemptsLeft
  <2>2. StoppedIsEmpty'
    BY <1>5, <1>7 DEF StoppedIsEmpty, IsStopped
  <2>3. QueuedIsPending' /\ NothingStranded'
    BY <1>2, <1>3, <1>4 DEF QueuedIsPending, NothingStranded
  <2>4. QED
    BY <2>1, <2>2, <2>3 DEF Careful
<1>12. QED
  BY <1>9, <1>10, <1>11

-----------------------------------------------------------------------------
(* The theorems.                                                           *)

(* Every run starts from states that satisfy the three invariants.         *)
LEMMA InitEstablishes ==
    ASSUME Init
    PROVE  Shape /\ RunShape /\ Careful
<1>1. /\ \A n \in Nodes : /\ nodes[n].status = "Pending" /\ nodes[n].used = 0
                          /\ nodes[n].held = FALSE
      /\ graph = [g \in Graphs |-> "Active"] /\ handle = {}
      /\ \A g \in Graphs : run[g].status = "None" /\ driver[g] = NoDriver /\ call[g] = "Idle"
  BY DEF Init
<1>2. \A g \in Graphs : ~IsLive(g)
  BY <1>1, NoDriverFields DEF IsLive
<1>3. TypeOK
  <2>1. nodes \in [Nodes -> NodeRec]
    BY DEF Init, NodeRec, Statuses
  <2>2. run \in [Graphs -> RunRec]
    <3>1. [status |-> "None", generation |-> 0] \in RunRec
      BY RunAssumption DEF RunRec, RunStatuses
    <3>2. QED
      BY <3>1 DEF Init
  <2>3. driver \in [Graphs -> DriverRec]
    BY NoDriverFields DEF Init
  <2>4. graph \in [Graphs -> GraphStatuses] /\ call \in [Graphs -> Calls] /\ handle = {}
    BY DEF Init, GraphStatuses, Calls
  <2>5. QED
    BY <2>1, <2>2, <2>3, <2>4, Typed
<1>4. Shape
  BY <1>1, <1>2, <1>3, NoDriverFields DEF Shape, HeldRuns, DriverShape, CallShape
<1>5. RunShape
  BY <1>1, <1>2 DEF RunShape
<1>6. PendingMayRun
  BY <1>1, RunAssumption DEF PendingMayRun, HasAttemptsLeft
<1>7. StoppedIsEmpty
  BY <1>1, <1>2 DEF StoppedIsEmpty, IsStopped
<1>8. QueuedIsPending /\ NothingStranded
  BY <1>1, NoDriverFields DEF QueuedIsPending, NothingStranded
<1>9. QED
  BY <1>4, <1>5, <1>6, <1>7, <1>8 DEF Careful

(* A step that changes nothing keeps them.                                 *)
LEMMA StutterKeeps ==
    ASSUME Shape, UNCHANGED vars
    PROVE  Shape' /\ (RunShape => RunShape') /\ (Careful => Careful')
<1>1. UNCHANGED <<nodes, graph, run, handle, driver, call>>
  BY DEF vars
<1>2. DriverShape' /\ \A h \in Graphs : IsLive(h)' <=> IsLive(h)
  BY <1>1, DriversStay DEF Shape
<1>3. TypeOK' /\ CallShape'
  BY <1>1, <1>2, Typed, TypedNext, CallShapeStays DEF Shape
<1>4. ASSUME RunShape PROVE RunShape'
  BY <1>1, <1>2, <1>4 DEF RunShape, HasLiveRun
<1>5. ASSUME Careful PROVE Careful'
  <2>1. \A h \in Graphs : IsStopped(h)' <=> IsStopped(h)
    BY <1>1, <1>2 DEF IsStopped
  <2>2. StoppedIsEmpty'
    BY <1>1, <1>5, <2>1, NodesStay, StoppedStays DEF Careful, NodesOf
  <2>3. QueuedIsPending' /\ NothingStranded'
    BY <1>1, <1>5 DEF Careful, QueuedIsPending, NothingStranded
  <2>4. QED
    BY <1>1, <1>5, <2>2, <2>3, NodesStay DEF Careful
<1>6. QED
  BY <1>1, <1>2, <1>3, <1>4, <1>5, NodesStay DEF Shape

(* Every step keeps the three invariants, the second of them when there is *)
(* one run and the third when owners are prudent.                          *)
LEMMA NextKeeps ==
    ASSUME Shape, [Next]_vars
    PROVE  Shape' /\ (OneRun /\ RunShape => RunShape') /\ (Prudent /\ Careful => Careful')
<1>1. ASSUME NEW g \in Graphs, DriverStep(g)
      PROVE  Shape' /\ (OneRun /\ RunShape => RunShape') /\ (Prudent /\ Careful => Careful')
  BY <1>1, DriverStopsKeeps, DriverStartsWaveKeeps, DriverFindsNothingKeeps,
     DriverIsCancelledKeeps, DriverSpawnsKeeps, DriverClaimsKeeps, DriverIsRefusedKeeps,
     DriverEndsClaimingKeeps, DriverEndsWaveKeeps, DriverRecordsKeeps, DriverFinishesKeeps
     DEF DriverStep
<1>2. ASSUME NEW g \in Graphs, ChildStep(g)
      PROVE  Shape' /\ (OneRun /\ RunShape => RunShape') /\ (Prudent /\ Careful => Careful')
  BY <1>2, ChildReportsKeeps, ChildLeavesKeeps DEF ChildStep
<1>3. ASSUME NEW g \in Graphs, CallStep(g)
      PROVE  Shape' /\ (OneRun /\ RunShape => RunShape') /\ (Prudent /\ Careful => Careful')
  BY <1>3, LaunchCommitsKeeps, ResumeCommitsKeeps, RegisterKeeps, ParkCancelsKeeps,
     ParkReconcilesKeeps, ParkReturnsKeeps, CancelCommitsKeeps, CancelSignalsKeeps
     DEF CallStep
<1>4. ASSUME NEW g \in Graphs, OwnerStep(g)
      PROVE  Shape' /\ (OneRun /\ RunShape => RunShape') /\ (Prudent /\ Careful => Careful')
  BY <1>4, OwnerClosesKeeps, LaunchKeeps, ResumeKeeps, ParkKeeps, CancelKeeps, CollectKeeps,
     OwnerStartsKeeps, OwnerSettlesKeeps, OwnerRetriesKeeps
     DEF OwnerStep
<1>5. CASE Restart
  BY <1>5, RestartKeeps
<1>6. CASE UNCHANGED vars
  BY <1>6, StutterKeeps
<1>7. QED
  BY <1>1, <1>2, <1>3, <1>4, <1>5, <1>6 DEF Next

(* The shape holds of every session, whatever its graphs and its owners:   *)
(* what a driver holds at each place, and what a call that works on a run  *)
(* knows about its driver.                                                 *)
THEOREM ShapeHolds == Spec => []Shape
<1>1. Init => Shape
  BY InitEstablishes
<1>2. Shape /\ [Next]_vars => Shape'
  BY NextKeeps
<1>3. QED
  BY <1>1, <1>2, PTL DEF Spec

(* Types: among them that a run never launches more attempts than its      *)
(* budget (RunLimits.max_attempts_total).                                  *)
THEOREM TypesHold == Spec => []TypeOK
<1>1. Shape => TypeOK
  BY DEF Shape
<1>2. QED
  BY <1>1, ShapeHolds, PTL

(* A driver never concludes with an attempt that its children hold, unless *)
(* a park is about to interrupt it: the comment in cancel_run, for every   *)
(* set of graphs whose owners do not retry nodes of a run that winds down  *)
(* and whose bounces re-open no agent's node that has a cap.               *)
THEOREM ConclusionsStrandNobody == Prudent => (Spec => []NothingStranded)
<1> SUFFICES ASSUME Prudent PROVE Spec => []NothingStranded
  OBVIOUS
<1>1. Init => Careful
  BY InitEstablishes
<1>2. Shape /\ Careful /\ [Next]_vars => Careful'
  BY NextKeeps
<1>3. Careful => NothingStranded
  BY DEF Careful
<1>4. QED
  BY <1>1, <1>2, <1>3, ShapeHolds, PTL DEF Spec

(* From the commit of cancel_run until its driver is at rest no node of    *)
(* the graph is pending, running, failed or blocked: the driver finds      *)
(* nothing to claim, and no child of it holds anything.                    *)
THEOREM CancelledRunsAreEmpty == Prudent => (Spec => []StoppedIsEmpty)
<1> SUFFICES ASSUME Prudent PROVE Spec => []StoppedIsEmpty
  OBVIOUS
<1>1. Init => Careful
  BY InitEstablishes
<1>2. Shape /\ Careful /\ [Next]_vars => Careful'
  BY NextKeeps
<1>3. Careful => StoppedIsEmpty
  BY DEF Careful
<1>4. QED
  BY <1>1, <1>2, <1>3, ShapeHolds, PTL DEF Spec

(* What the record of a run says about its driver, its handle and its call *)
(* holds of a session with one managed run.                                *)
THEOREM RunShapeHolds == OneRun => (Spec => []RunShape)
<1> SUFFICES ASSUME OneRun PROVE Spec => []RunShape
  OBVIOUS
<1>1. Init => RunShape
  BY InitEstablishes
<1>2. Shape /\ RunShape /\ [Next]_vars => RunShape'
  BY NextKeeps
<1>3. QED
  BY <1>1, <1>2, ShapeHolds, PTL DEF Spec

(* A record that reads Running has a driver that will conclude it, or a    *)
(* call that is about to register one: launch and resume cannot be locked  *)
(* out of the graph by a record that nobody serves.                        *)
THEOREM RunningRecordsAreServed == OneRun => (Spec => []RunningHasDriver)
<1> SUFFICES ASSUME OneRun PROVE Spec => []RunningHasDriver
  OBVIOUS
<1>1. RunShape => RunningHasDriver
  BY DEF RunShape, RunningHasDriver
<1>2. QED
  BY <1>1, RunShapeHolds, PTL

(* A run that reads Parked is at rest: no driver and no held attempt.      *)
THEOREM ParkedRunsAreQuiet == OneRun => (Spec => []ParkedMeansQuiet)
<1> SUFFICES ASSUME OneRun PROVE Spec => []ParkedMeansQuiet
  OBVIOUS
<1>1. RunShape => ParkedMeansQuiet
  BY DEF RunShape, ParkedMeansQuiet
<1>2. QED
  BY <1>1, RunShapeHolds, PTL

(* No step takes a record from Parking anywhere but to Parked.             *)
LEMMA FenceStep ==
    ASSUME Shape, RunShape, [Next]_vars, NEW g \in Graphs, run[g].status = "Parking"
    PROVE  run'[g].status \in {"Parking", "Parked"}
<1>1. run \in [Graphs -> RunRec]
  BY Typed DEF Shape
<1>2. call[g] \in {"Parking", "Joining"}
  BY DEF RunShape
<1>3. ASSUME NEW h \in Graphs, DriverRecords(h) PROVE run'[g].status = "Parking"
  <2>1. CASE h = g
    <3>1. run' = [run EXCEPT ![g].status = "Parking"]
      BY <1>3, <2>1 DEF DriverRecords, RecordConclusion
    <3>2. QED
      BY <1>1, <3>1, RunGets DEF RunStatuses
  <2>2. CASE h # g
    BY <1>1, <1>3, <2>2 DEF DriverRecords, RecordConclusion
  <2>3. QED
    BY <2>1, <2>2
<1>4. ASSUME NEW h \in Graphs, LaunchCommits(h) \/ ResumeCommits(h) PROVE run'[g] = run[g]
  <2>1. h # g
    BY <1>2, <1>4 DEF LaunchCommits, ResumeCommits
  <2>2. CASE run' = run
    BY <2>2
  <2>3. CASE run' = [run EXCEPT ![h] = [status |-> "Running", generation |-> 0]]
    BY <1>1, <2>1, <2>3
  <2>4. CASE run' = [run EXCEPT ![h] = [status |-> "Running",
                                        generation |-> @.generation + 1]]
    BY <1>1, <2>1, <2>4
  <2>5. QED
    BY <1>4, <2>2, <2>3, <2>4 DEF LaunchCommits, ResumeCommits
<1>5. ASSUME NEW h \in Graphs, Park(h) PROVE run'[g] = run[g]
  <2>1. h # g
    BY <1>2, <1>5 DEF Park
  <2>2. QED
    BY <1>1, <1>5, <2>1 DEF Park
<1>6. ASSUME NEW h \in Graphs, ParkReturns(h) PROVE run'[g] = run[g]
  <2>1. h # g
    BY <1>2, <1>6 DEF ParkReturns
  <2>2. QED
    BY <1>1, <1>6, <2>1 DEF ParkReturns
<1>7. ASSUME Reconcile PROVE run'[g].status = "Parked"
  BY <1>7, ReconcileEffect DEF Shape
<1>8. CASE UNCHANGED run
  BY <1>8
<1>9. ASSUME NEW h \in Graphs, DriverStep(h) PROVE run'[g].status \in {"Parking", "Parked"}
  BY <1>3, <1>8, <1>9
     DEF DriverStep, DriverStops, DriverStartsWave, DriverFindsNothing, DriverIsCancelled,
         DriverSpawns, DriverClaims, DriverIsRefused, DriverEndsClaiming, DriverEndsWave,
         DriverFinishes
<1>10. ASSUME NEW h \in Graphs, ChildStep(h) PROVE run'[g].status \in {"Parking", "Parked"}
  BY <1>8, <1>10 DEF ChildStep, ChildReports, ChildLeaves
<1>11. ASSUME NEW h \in Graphs, CallStep(h) PROVE run'[g].status \in {"Parking", "Parked"}
  BY <1>4, <1>6, <1>7, <1>8, <1>11
     DEF CallStep, Register, ParkCancels, ParkReconciles, CancelCommits, CancelSignals
<1>12. ASSUME NEW h \in Graphs, OwnerStep(h) PROVE run'[g].status \in {"Parking", "Parked"}
  BY <1>5, <1>8, <1>12
     DEF OwnerStep, OwnerCloses, Launch, Resume, Cancel, Collect, OwnerStarts, OwnerSettles,
         OwnerRetries
<1>13. QED
  BY <1>7, <1>8, <1>9, <1>10, <1>11, <1>12 DEF Next, Restart, vars

(* The fence of park_run wins over the driver's conclusion, a launch and a *)
(* resume.                                                                 *)
THEOREM FencesWin == OneRun => (Spec => FenceWins)
<1> SUFFICES ASSUME OneRun PROVE Spec => FenceWins
  OBVIOUS
<1>1. Shape /\ RunShape /\ [Next]_vars =>
        [\A g \in Graphs : run[g].status = "Parking"
                              => run'[g].status \in {"Parking", "Parked"}]_vars
  BY FenceStep
<1>2. QED
  BY <1>1, ShapeHolds, RunShapeHolds, PTL DEF Spec, FenceWins

-----------------------------------------------------------------------------
(* What every step of a driver and of its wave has in common.              *)

(* The nodes a driver has in hand: queued, spawned for, or being worked on.*)
InHand(g) == driver[g].todo \cup driver[g].next \cup driver[g].wave

(* The loop of a driver.                                                   *)
Looping == {"Top", "Claiming", "Spawned", "Waiting"}

(* A driver that works goes on along its places, spawns only untold, and   *)
(* takes nodes in hand only when it has none, within its limit.            *)
Works(g) ==
    /\ \A h \in Graphs \ {g} : driver'[h] = driver[h]
    /\ driver'[g].cancelled = driver[g].cancelled
    /\ driver[g].at \notin {"None", "Finished"} /\ driver'[g].at # "None"
    /\ driver'[g].at = "Concluding" => driver'[g].conclusion \in Conclusions
    /\ driver'[g].at = "Finishing" <=> driver[g].at = "Concluding"
    /\ driver'[g].at = "Finished" <=> driver[g].at = "Finishing"
    /\ driver'[g].at = "Spawned" => driver[g].at = "Claiming" /\ ~driver[g].cancelled
    /\ driver'[g].launched = driver[g].launched \/ driver[g].at = "Spawned"
    /\ \/ InHand(g)' \subseteq InHand(g)
       \/ InHand(g) = {} /\ Cardinality(InHand(g)') <= MaxConcurrent
    /\ driver'[g].at \in Looping =>
          /\ driver[g].at \in Looping
          /\ \A n \in driver[g].wave : nodes[n].held => n \in driver'[g].wave

(* A conclusion lets go of everything.                                     *)
LEMMA ConcludingWorks ==
    ASSUME Shape, NEW g \in Graphs, NEW c \in Conclusions, Conclude(g, c),
           driver[g].at \in Looping
    PROVE  Works(g)
<1>1. driver \in [Graphs -> DriverRec] /\ driver[g] \in DriverRec
  BY Typed DEF Shape
<1>2. Becomes(g, "Concluding", {}, {}, {}, driver[g].launched, driver[g].cancelled, c)
  BY <1>1, Concludes DEF Conclude
<1>3. QED
  BY <1>2 DEF Works, Becomes, InHand, Looping

(* The head of the loop concludes a run that is to stop.                   *)
LEMMA DriverStopsWorks ==
    ASSUME Shape, NEW g \in Graphs, DriverStops(g)
    PROVE  Works(g)
<1> DEFINE c == IF IsStopping(g) THEN "Cancelled" ELSE "Settled"
<1>1. c \in Conclusions /\ Conclude(g, c) /\ driver[g].at \in Looping
  BY DEF DriverStops, Conclusions, Looping
<1> HIDE DEF c
<1>2. QED
  BY <1>1, ConcludingWorks

(* The head of the loop concludes a run that has nothing left to run.      *)
LEMMA DriverFindsNothingWorks ==
    ASSUME Shape, NEW g \in Graphs, DriverFindsNothing(g)
    PROVE  Works(g)
<1> DEFINE c == IF \A n \in NodesOf(g) : nodes[n].status \in {"Succeeded", "Cancelled"}
                THEN "Settled" ELSE "Stalled"
<1>1. c \in Conclusions /\ Conclude(g, c) /\ driver[g].at \in Looping
  BY DEF DriverFindsNothing, Conclusions, Looping
<1> HIDE DEF c
<1>2. QED
  BY <1>1, ConcludingWorks

(* The token ends a spawn or the wave that is awaited.                     *)
LEMMA DriverIsCancelledWorks ==
    ASSUME Shape, NEW g \in Graphs, DriverIsCancelled(g)
    PROVE  Works(g)
<1>1. "Cancelled" \in Conclusions /\ Conclude(g, "Cancelled") /\ driver[g].at \in Looping
  BY DEF DriverIsCancelled, Conclusions, Looping
<1>2. QED
  BY <1>1, ConcludingWorks

(* A wave is taken with empty hands, and within the limit.                 *)
LEMMA DriverStartsWaveWorks ==
    ASSUME Shape, NEW g \in Graphs, DriverStartsWave(g)
    PROVE  Works(g)
<1>1. driver \in [Graphs -> DriverRec] /\ driver[g] \in DriverRec /\ driver[g].at = "Top"
  BY Typed DEF Shape, DriverStartsWave
<1>2. PICK W \in SUBSET Launchable(g) :
        /\ Cardinality(W) <= MaxConcurrent
        /\ driver' = [driver EXCEPT ![g] = [@ EXCEPT !.at = "Claiming", !.todo = W]]
  BY DEF DriverStartsWave
<1>3. W \in SUBSET Nodes
  BY <1>2 DEF Launchable, IsReadyIn, NodesOf
<1>4. Becomes(g, "Claiming", W, driver[g].next, driver[g].wave, driver[g].launched,
              driver[g].cancelled, driver[g].conclusion)
  BY <1>1, <1>2, <1>3, TakesWave
<1>5. driver[g].todo = {} /\ driver[g].next = {} /\ driver[g].wave = {}
  BY <1>1 DEF Shape, DriverShape
<1>6. InHand(g) = {} /\ InHand(g)' = W
  BY <1>4, <1>5 DEF InHand, Becomes
<1>7. QED
  BY <1>1, <1>2, <1>4, <1>6 DEF Works, Becomes, Looping

(* A spawn takes a node off the queue of the wave.                         *)
LEMMA DriverSpawnsWorks ==
    ASSUME Shape, NEW g \in Graphs, NEW n \in Nodes, DriverSpawns(g, n)
    PROVE  Works(g)
<1>1. driver \in [Graphs -> DriverRec] /\ driver[g] \in DriverRec /\ {n} \in SUBSET Nodes
  BY Typed DEF Shape
<1>2. driver[g].at = "Claiming" /\ n \in driver[g].todo /\ ~driver[g].cancelled
  BY DEF DriverSpawns
<1>3. driver[g].next = {}
  BY <1>2 DEF Shape, DriverShape
<1>4. CASE driver' = [driver EXCEPT ![g].at = "Spawned", ![g].next = {n},
                                    ![g].todo = @ \ {n}]
  <2>1. Becomes(g, "Spawned", driver[g].todo \ {n}, {n}, driver[g].wave, driver[g].launched,
                driver[g].cancelled, driver[g].conclusion)
    BY <1>1, <1>4, TakesNode
  <2>2. QED
    BY <1>2, <1>3, <2>1 DEF Works, Becomes, InHand, Looping
<1>5. CASE driver' = [driver EXCEPT ![g].todo = @ \ {n}]
  <2>1. Becomes(g, "Claiming", driver[g].todo \ {n}, driver[g].next, driver[g].wave,
                driver[g].launched, driver[g].cancelled, driver[g].conclusion)
    BY <1>1, <1>2, <1>5, SkipsNode
  <2>2. QED
    BY <1>2, <1>3, <2>1 DEF Works, Becomes, InHand, Looping
<1>6. QED
  BY <1>4, <1>5 DEF DriverSpawns

(* A claim moves the spawned node to the children, and touches no other    *)
(* node.                                                                   *)
LEMMA DriverClaimsWorks ==
    ASSUME Shape, NEW g \in Graphs, NEW n \in Nodes, DriverClaims(g, n)
    PROVE  /\ Works(g) /\ n \in driver'[g].wave
           /\ \A m \in Nodes \ {n} : nodes'[m] = nodes[m]
<1>1. /\ driver \in [Graphs -> DriverRec] /\ driver[g] \in DriverRec /\ {n} \in SUBSET Nodes
      /\ nodes \in [Nodes -> NodeRec]
  BY Typed DEF Shape
<1>2. /\ driver[g].at = "Spawned" /\ driver[g].next = {n}
      /\ nodes' = [nodes EXCEPT ![n] = [status |-> "Running", used |-> Opened(n),
                                        held |-> TRUE]]
      /\ driver' = [driver EXCEPT ![g].at = "Claiming", ![g].next = {},
                                  ![g].wave = @ \cup {n}, ![g].launched = @ + 1]
  BY DEF DriverClaims
<1>3. driver[g].launched + 1 \in 0..MaxLaunched
  <2>1. driver[g].launched < MaxLaunched
    BY <1>2 DEF Shape, DriverShape
  <2>2. driver[g].launched \in 0..MaxLaunched
    BY <1>1, DriverFields
  <2>3. QED
    BY <2>1, <2>2, RunAssumption
<1>4. Becomes(g, "Claiming", driver[g].todo, {}, driver[g].wave \cup {n},
              driver[g].launched + 1, driver[g].cancelled, driver[g].conclusion)
  BY <1>1, <1>2, <1>3, AddsNode
<1>5. Works(g) /\ n \in driver'[g].wave
  BY <1>2, <1>4 DEF Works, Becomes, InHand, Looping
<1>6. \A m \in Nodes \ {n} : nodes'[m] = nodes[m]
  BY <1>1, <1>2, OpenedIsNat, NodeGets DEF Statuses
<1>7. QED
  BY <1>5, <1>6

(* A refused claim drops its node, or concludes.                           *)
LEMMA DriverIsRefusedWorks ==
    ASSUME Shape, NEW g \in Graphs, NEW n \in Nodes, DriverIsRefused(g, n)
    PROVE  Works(g)
<1>1. driver \in [Graphs -> DriverRec] /\ driver[g] \in DriverRec /\ driver[g].at = "Spawned"
  BY Typed DEF Shape, DriverIsRefused
<1>2. CASE Conclude(g, "Cancelled")
  BY <1>1, <1>2, ConcludingWorks DEF Conclusions, Looping
<1>3. CASE driver' = [driver EXCEPT ![g] = [@ EXCEPT !.at = "Claiming", !.next = {}]]
  <2>1. Becomes(g, "Claiming", driver[g].todo, {}, driver[g].wave, driver[g].launched,
                driver[g].cancelled, driver[g].conclusion)
    BY <1>1, <1>3, DropsNode
  <2>2. QED
    BY <1>1, <2>1 DEF Works, Becomes, InHand, Looping
<1>4. QED
  BY <1>2, <1>3 DEF DriverIsRefused

(* A wave that claimed something is awaited, one that did not concludes.   *)
LEMMA DriverEndsClaimingWorks ==
    ASSUME Shape, NEW g \in Graphs, DriverEndsClaiming(g)
    PROVE  Works(g)
<1>1. driver \in [Graphs -> DriverRec] /\ driver[g] \in DriverRec /\ driver[g].at = "Claiming"
  BY Typed DEF Shape, DriverEndsClaiming
<1>2. CASE driver[g].wave # {}
  <2>1. driver' = [driver EXCEPT ![g] = [@ EXCEPT !.at = "Waiting", !.todo = {}]]
    BY <1>2 DEF DriverEndsClaiming
  <2>2. Becomes(g, "Waiting", {}, driver[g].next, driver[g].wave, driver[g].launched,
                driver[g].cancelled, driver[g].conclusion)
    BY <1>1, <2>1, WaitsForWave
  <2>3. QED
    BY <1>1, <2>2 DEF Works, Becomes, InHand, Looping
<1>3. CASE driver[g].wave = {}
  <2> DEFINE c == IF IsStopping(g) THEN "Cancelled" ELSE "Stalled"
  <2>1. c \in Conclusions /\ Conclude(g, c) /\ driver[g].at \in Looping
    BY <1>1, <1>3 DEF DriverEndsClaiming, Conclusions, Looping
  <2> HIDE DEF c
  <2>2. QED
    BY <2>1, ConcludingWorks
<1>4. QED
  BY <1>2, <1>3

(* A child leaves its wave when it holds nothing.                          *)
LEMMA ChildLeavesWorks ==
    ASSUME Shape, NEW g \in Graphs, NEW n \in Nodes, ChildLeaves(g, n)
    PROVE  Works(g)
<1>1. driver \in [Graphs -> DriverRec] /\ driver[g] \in DriverRec /\ {n} \in SUBSET Nodes
  BY Typed DEF Shape
<1>2. /\ driver[g].at = "Waiting" /\ ~nodes[n].held
      /\ driver' = [driver EXCEPT ![g].wave = @ \ {n}]
  BY DEF ChildLeaves
<1>3. Becomes(g, "Waiting", driver[g].todo, driver[g].next, driver[g].wave \ {n},
              driver[g].launched, driver[g].cancelled, driver[g].conclusion)
  BY <1>1, <1>2, LosesChild
<1>4. QED
  BY <1>2, <1>3 DEF Works, Becomes, InHand, Looping

(* A driver that moves to its next place.                                  *)
LEMMA MovingWorks ==
    ASSUME Shape, NEW g \in Graphs, NEW a \in Places, MoveTo(g, a),
           \/ a = "Top" /\ driver[g].at = "Waiting"
           \/ a = "Finishing" /\ driver[g].at = "Concluding"
           \/ a = "Finished" /\ driver[g].at = "Finishing"
    PROVE  Works(g)
<1>1. driver \in [Graphs -> DriverRec] /\ driver[g] \in DriverRec
  BY Typed DEF Shape
<1>2. Becomes(g, a, driver[g].todo, driver[g].next, driver[g].wave,
              driver[g].launched, driver[g].cancelled, driver[g].conclusion)
  BY <1>1, Moves DEF MoveTo
<1>3. QED
  BY <1>2 DEF Works, Becomes, InHand, Looping

(* So every step of a driver is the work of one.                           *)
LEMMA DriverStepWorks ==
    ASSUME Shape, NEW g \in Graphs, DriverStep(g)
    PROVE  Works(g)
<1>1. ASSUME DriverEndsWave(g) \/ DriverRecords(g) \/ DriverFinishes(g) PROVE Works(g)
  BY <1>1, MovingWorks DEF DriverEndsWave, DriverRecords, DriverFinishes, Places
<1>2. QED
  BY <1>1, DriverStopsWorks, DriverStartsWaveWorks, DriverFindsNothingWorks,
     DriverIsCancelledWorks, DriverSpawnsWorks, DriverClaimsWorks, DriverIsRefusedWorks,
     DriverEndsClaimingWorks
     DEF DriverStep

-----------------------------------------------------------------------------
(* The life of the records, for any number of runs.                        *)

Working == {g \in Graphs : IsLive(g)}

Life == INSTANCE RunLife WITH record <- run, working <- Working

(* What a call that works on a run knows of its record: a park that has    *)
(* not returned finds its fence, or what a reconciliation made of it.      *)
CallAgrees(a, s) ==
    /\ a \in {"Parking", "Joining"} => s \in {"Parking", "Parked"}
    /\ a \in {"Resuming", "Reconciled"} => s = "Parked"
    /\ a \in {"RegisteringLaunch", "RegisteringResume"} => s \in {"Running", "Parked"}

(* A driver that concludes knows how, and ends after the record knows.     *)
DriverAgrees(d, s) ==
    /\ d.at = "Concluding" => d.conclusion \in Conclusions
    /\ d.at = "Finishing" => s # "Running"

LifeShape ==
    \A g \in Graphs :
        CallAgrees(call[g], run[g].status) /\ DriverAgrees(driver[g], run[g].status)

LifeGoesOn == LifeShape' /\ (Life!Next \/ UNCHANGED Life!vars)

(* Nothing that the records tell apart happens.                            *)
LEMMA LifeRests ==
    ASSUME UNCHANGED run, \A h \in Graphs : IsLive(h)' <=> IsLive(h)
    PROVE  UNCHANGED Life!vars
<1>1. Working' = Working
  BY DEF Working
<1>2. QED
  BY <1>1 DEF Life!vars

(* A driver that is still in its loop.                                     *)
LEMMA LoopingRests ==
    ASSUME LifeShape, NEW g \in Graphs, Works(g), driver[g].at \in Looping,
           UNCHANGED <<run, call>>
    PROVE  LifeGoesOn
<1>1. \A h \in Graphs : IsLive(h)' <=> IsLive(h)
  BY DEF Works, IsLive, Looping
<1>2. LifeShape'
  BY DEF LifeShape, CallAgrees, DriverAgrees, Works, Looping
<1>3. QED
  BY <1>1, <1>2, LifeRests DEF LifeGoesOn

(* A call that goes on while the records and the drivers stay, but for a   *)
(* token.                                                                  *)
LEMMA CallRests ==
    ASSUME Shape, LifeShape, NEW g \in Graphs, NEW a \in Calls, Calling(g, a),
           CallAgrees(a, run[g].status), UNCHANGED run,
           \A h \in Graphs : /\ driver'[h].at = driver[h].at
                             /\ driver'[h].conclusion = driver[h].conclusion
    PROVE  LifeGoesOn
<1>1. \A h \in Graphs : IsLive(h)' <=> IsLive(h)
  BY DEF IsLive
<1>2. call \in [Graphs -> Calls]
  BY Typed DEF Shape
<1>3. call'[g] = a /\ \A h \in Graphs \ {g} : call'[h] = call[h]
  BY <1>2, CallGets
<1>4. LifeShape'
  BY <1>3 DEF LifeShape, DriverAgrees
<1>5. QED
  BY <1>1, <1>4, LifeRests DEF LifeGoesOn

(* Steps that touch nodes and graphs only.                                 *)
LEMMA NodesRest ==
    ASSUME LifeShape, UNCHANGED <<run, driver, call>>
    PROVE  LifeGoesOn
<1>1. \A h \in Graphs : IsLive(h)' <=> IsLive(h)
  BY DEF IsLive
<1>2. LifeShape'
  BY DEF LifeShape
<1>3. QED
  BY <1>1, <1>2, LifeRests DEF LifeGoesOn

(* A record whose status is written again is the record it was.            *)
LEMMA SameStatus ==
    ASSUME run \in [Graphs -> RunRec], NEW g \in Graphs, NEW v, v = run[g].status,
           run' = [run EXCEPT ![g].status = v]
    PROVE  run' = run
<1> DEFINE r == [run[g] EXCEPT !.status = v]
<1>1. run' = [run EXCEPT ![g] = r]
  BY Zenon
<1>2. run[g] \in RunRec
  OBVIOUS
<1>3. r = run[g]
  BY ONLY <1>2, v = run[g].status DEF RunRec
<1> HIDE DEF r
<1>4. QED
  BY <1>1, <1>3

(* The driver concludes its record unless it was fenced or reconciled.     *)
LEMMA RecordsGoOn ==
    ASSUME Shape, LifeShape, NEW g \in Graphs, DriverRecords(g)
    PROVE  LifeGoesOn
<1>1. /\ run \in [Graphs -> RunRec] /\ run[g].status \in RunStatuses
      /\ driver[g].at = "Concluding" /\ UNCHANGED call
  BY Typed DEF Shape, RunRec, DriverRecords
<1>2. Works(g)
  BY DriverStepWorks DEF DriverStep
<1>3. driver[g].conclusion \in Conclusions
  BY <1>1 DEF LifeShape, DriverAgrees
<1>4. \A h \in Graphs : IsLive(h)' <=> IsLive(h)
  BY <1>1, <1>2 DEF Works, IsLive
<1>5. CASE run[g].status = "Running"
  <2>1. run' = [run EXCEPT ![g].status = driver[g].conclusion]
    BY <1>5 DEF DriverRecords, RecordConclusion
  <2>2. run'[g].status = driver[g].conclusion /\ \A h \in Graphs \ {g} : run'[h] = run[h]
    BY <1>1, <1>3, <2>1, RunGets DEF RunStatuses
  <2>3. call[g] \notin {"Parking", "Joining", "Resuming", "Reconciled", "RegisteringLaunch",
                        "RegisteringResume"}
    BY <1>1, <1>5 DEF LifeShape, CallAgrees, Shape, CallShape, IsLive
  <2>4. LifeShape'
    <3>1. CallAgrees(call'[g], run'[g].status)
      BY <1>1, <2>3 DEF CallAgrees
    <3>2. DriverAgrees(driver'[g], run'[g].status)
      BY <1>1, <1>2, <1>3, <2>2 DEF DriverAgrees, Works, Conclusions
    <3>3. \A h \in Graphs \ {g} : /\ CallAgrees(call'[h], run'[h].status)
                                  /\ DriverAgrees(driver'[h], run'[h].status)
      BY <1>1, <1>2, <2>2 DEF LifeShape, Works
    <3>4. QED
      BY <3>1, <3>2, <3>3 DEF LifeShape
  <2>5. g \in Working /\ Working' = Working
    BY <1>1, <1>4 DEF Working, IsLive
  <2>6. Life!Conclude(g)
    BY <1>3, <1>5, <2>1, <2>5 DEF Life!Conclude
  <2>7. QED
    BY <2>4, <2>6 DEF LifeGoesOn, Life!Next
<1>6. CASE run[g].status # "Running"
  <2>1. run' = [run EXCEPT ![g].status = run[g].status]
    BY <1>6 DEF DriverRecords, RecordConclusion
  <2>2. run' = run
    BY <1>1, <2>1, SameStatus
  <2>3. LifeShape'
    BY <1>1, <1>2, <1>6, <2>2 DEF LifeShape, DriverAgrees, Works
  <2>4. QED
    BY <1>4, <2>2, <2>3, LifeRests DEF LifeGoesOn
<1>7. QED
  BY <1>5, <1>6

(* The driver's task ends.                                                 *)
LEMMA FinishesGoOn ==
    ASSUME Shape, LifeShape, NEW g \in Graphs, DriverFinishes(g)
    PROVE  LifeGoesOn
<1>1. driver[g].at = "Finishing" /\ UNCHANGED <<run, call>>
  BY DEF DriverFinishes
<1>2. Works(g)
  BY DriverStepWorks DEF DriverStep
<1>3. g \in Working /\ run[g].status # "Running"
  BY <1>1 DEF Working, IsLive, LifeShape, DriverAgrees
<1>4. Working' = Working \ {g}
  BY <1>1, <1>2 DEF Working, IsLive, Works
<1>5. Life!Stop(g)
  BY <1>1, <1>3, <1>4 DEF Life!Stop
<1>6. LifeShape'
  BY <1>1, <1>2 DEF LifeShape, DriverAgrees, Works
<1>7. QED
  BY <1>5, <1>6 DEF LifeGoesOn, Life!Next

(* Every step of a driver lets the records live on.                        *)
LEMMA DriverStepGoesOn ==
    ASSUME Shape, LifeShape, NEW g \in Graphs, DriverStep(g)
    PROVE  LifeGoesOn
<1>1. Works(g)
  BY DriverStepWorks
<1>2. CASE DriverRecords(g)
  BY <1>2, RecordsGoOn
<1>3. CASE DriverFinishes(g)
  BY <1>3, FinishesGoOn
<1>4. CASE ~DriverRecords(g) /\ ~DriverFinishes(g)
  <2>1. driver[g].at \in Looping /\ UNCHANGED <<run, call>>
    BY <1>4 DEF DriverStep, DriverStops, DriverStartsWave, DriverFindsNothing,
                DriverIsCancelled, DriverSpawns, DriverClaims, DriverIsRefused,
                DriverEndsClaiming, DriverEndsWave, Looping
  <2>2. QED
    BY <1>1, <2>1, LoopingRests
<1>5. QED
  BY <1>2, <1>3, <1>4

(* So does every step of a child.                                          *)
LEMMA ChildStepGoesOn ==
    ASSUME Shape, LifeShape, NEW g \in Graphs, ChildStep(g)
    PROVE  LifeGoesOn
<1>1. ASSUME NEW n \in Nodes, ChildReports(g, n) PROVE LifeGoesOn
  BY <1>1, NodesRest DEF ChildReports
<1>2. ASSUME NEW n \in Nodes, ChildLeaves(g, n) PROVE LifeGoesOn
  <2>1. driver[g].at \in Looping /\ UNCHANGED <<run, call>>
    BY <1>2 DEF ChildLeaves, Looping
  <2>2. QED
    BY <1>2, <2>1, ChildLeavesWorks, LoopingRests
<1>3. QED
  BY <1>1, <1>2 DEF ChildStep

-----------------------------------------------------------------------------
(* A record that is opened: by a launch, or again by a resume.             *)
LEMMA OpeningGoesOn ==
    ASSUME Shape, LifeShape, NEW g \in Graphs, ~IsLive(g), NEW r \in RunRec,
           r.status = "Running", run' = [run EXCEPT ![g] = r], UNCHANGED driver,
           NEW a \in {"RegisteringLaunch", "RegisteringResume"}, Calling(g, a)
    PROVE  LifeShape' /\ Working' = Working /\ g \notin Working
<1>1. run \in [Graphs -> RunRec] /\ call \in [Graphs -> Calls] /\ a \in Calls
  BY Typed DEF Shape, Calls
<1>2. run'[g] = r /\ \A h \in Graphs \ {g} : run'[h] = run[h]
  BY <1>1, Updated
<1>3. call'[g] = a /\ \A h \in Graphs \ {g} : call'[h] = call[h]
  BY <1>1, CallGets
<1>4. CallAgrees(call'[g], run'[g].status)
  BY <1>2, <1>3 DEF CallAgrees
<1>5. DriverAgrees(driver'[g], run'[g].status)
  BY DEF DriverAgrees, IsLive, LifeShape
<1>6. LifeShape'
  BY <1>2, <1>3, <1>4, <1>5 DEF LifeShape
<1>7. Working' = Working /\ g \notin Working
  BY DEF Working, IsLive
<1>8. QED
  BY <1>6, <1>7

(* A launch opens a record, or finds the graph's run open and returns.     *)
LEMMA LaunchCommitsGoesOn ==
    ASSUME Shape, LifeShape, NEW g \in Graphs, LaunchCommits(g)
    PROVE  LifeGoesOn
<1>1. call[g] = "Launching" /\ ~IsLive(g) /\ UNCHANGED driver
  BY DEF LaunchCommits, Shape, CallShape
<1>2. CASE run[g].status \in {"Running", "Parked"}
  <2>1. Calling(g, "Idle") /\ UNCHANGED run
    BY <1>2 DEF LaunchCommits
  <2>2. "Idle" \in Calls /\ CallAgrees("Idle", run[g].status)
    BY DEF Calls, CallAgrees
  <2>3. QED
    BY <1>1, <2>1, <2>2, CallRests
<1>3. CASE run[g].status \notin {"Running", "Parked"}
  <2> DEFINE r == [status |-> "Running", generation |-> 0]
  <2>1. run' = [run EXCEPT ![g] = r] /\ Calling(g, "RegisteringLaunch")
    BY <1>3 DEF LaunchCommits
  <2>2. r \in RunRec /\ r.status = "Running"
    BY RunAssumption DEF RunRec, RunStatuses
  <2>3. LifeShape' /\ Working' = Working /\ g \notin Working
    <3> HIDE DEF r
    <3>1. QED
      BY <1>1, <2>1, <2>2, OpeningGoesOn
  <2>4. Life!Launch(g)
    BY <1>3, <2>1, <2>3 DEF Life!Launch
  <2>5. QED
    BY <2>3, <2>4 DEF LifeGoesOn, Life!Next
<1>4. QED
  BY <1>2, <1>3

(* A resume goes on with a parked record, or is refused by a spent node.   *)
LEMMA ResumeCommitsGoesOn ==
    ASSUME Shape, LifeShape, NEW g \in Graphs, ResumeCommits(g)
    PROVE  LifeGoesOn
<1>1. /\ call[g] = "Resuming" /\ ~IsLive(g) /\ UNCHANGED driver /\ run[g].status = "Parked"
      /\ run[g].generation < MaxGeneration /\ run \in [Graphs -> RunRec]
  BY Typed DEF ResumeCommits, Shape, CallShape, LifeShape, CallAgrees
<1>2. CASE Calling(g, "Idle") /\ UNCHANGED run
  <2>1. "Idle" \in Calls /\ CallAgrees("Idle", run[g].status)
    BY DEF Calls, CallAgrees
  <2>2. QED
    BY <1>1, <1>2, <2>1, CallRests
<1>3. CASE /\ run' = [run EXCEPT ![g] = [status |-> "Running", generation |-> @.generation + 1]]
           /\ Calling(g, "RegisteringResume")
  <2> DEFINE r == [status |-> "Running", generation |-> run[g].generation + 1]
  <2>1. run' = [run EXCEPT ![g] = r]
    BY <1>3
  <2>2. r \in RunRec /\ r.status = "Running"
    <3>1. run[g].generation \in 0..MaxGeneration
      BY <1>1 DEF RunRec
    <3>2. run[g].generation + 1 \in 0..MaxGeneration
      BY <1>1, <3>1, RunAssumption
    <3>3. QED
      BY <3>2 DEF RunRec, RunStatuses
  <2>3. LifeShape' /\ Working' = Working /\ g \notin Working
    <3> HIDE DEF r
    <3>1. QED
      BY <1>1, <1>3, <2>1, <2>2, OpeningGoesOn
  <2>4. Life!Resume(g)
    BY <1>1, <2>1, <2>3 DEF Life!Resume
  <2>5. QED
    BY <2>3, <2>4 DEF LifeGoesOn, Life!Next
<1>4. QED
  BY <1>2, <1>3 DEF ResumeCommits

(* A driver starts, unless an earlier one left its handle.                 *)
LEMMA RegisterGoesOn ==
    ASSUME Shape, LifeShape, NEW g \in Graphs, Register(g)
    PROVE  LifeGoesOn
<1>1. /\ call[g] \in {"RegisteringLaunch", "RegisteringResume"} /\ Calling(g, "Idle")
      /\ UNCHANGED run /\ ~IsLive(g)
  BY DEF Register, Shape, CallShape
<1>2. "Idle" \in Calls /\ CallAgrees("Idle", run[g].status)
  BY DEF Calls, CallAgrees
<1>3. CASE g \in handle
  BY <1>1, <1>2, <1>3, CallRests DEF Register
<1>4. CASE g \notin handle
  <2>1. driver \in [Graphs -> DriverRec] /\ call \in [Graphs -> Calls]
    BY Typed DEF Shape
  <2> DEFINE r == [NoDriver EXCEPT !.at = "Top"]
  <2>2. driver' = [driver EXCEPT ![g] = r]
    BY <1>4 DEF Register
  <2>3. r.at = "Top"
    BY DEF NoDriver
  <2> HIDE DEF r
  <2>4. driver'[g].at = "Top" /\ \A h \in Graphs \ {g} : driver'[h] = driver[h]
    BY <2>1, <2>2, <2>3
  <2>5. call'[g] = "Idle" /\ \A h \in Graphs \ {g} : call'[h] = call[h]
    BY <1>1, <1>2, <2>1, CallGets
  <2>6. LifeShape'
    <3>1. CallAgrees(call'[g], run'[g].status) /\ DriverAgrees(driver'[g], run'[g].status)
      BY <1>1, <1>2, <2>4, <2>5 DEF DriverAgrees
    <3>2. QED
      BY <1>1, <2>4, <2>5, <3>1 DEF LifeShape
  <2>7. g \notin Working /\ Working' = Working \cup {g}
    BY <1>1, <2>4 DEF Working, IsLive
  <2>8. run[g].status \in {"Running", "Parked"}
    BY <1>1 DEF LifeShape, CallAgrees
  <2>9. Life!Start(g)
    BY <1>1, <2>7, <2>8 DEF Life!Start
  <2>10. QED
    BY <2>6, <2>9 DEF LifeGoesOn, Life!Next
<1>5. QED
  BY <1>3, <1>4

(* The fence of a park.                                                    *)
LEMMA ParkGoesOn ==
    ASSUME Shape, LifeShape, NEW g \in Graphs, Park(g)
    PROVE  LifeGoesOn
<1>1. /\ run[g].status = "Running" /\ run' = [run EXCEPT ![g].status = "Parking"]
      /\ Calling(g, "Parking") /\ UNCHANGED driver
  BY DEF Park
<1>2. run \in [Graphs -> RunRec] /\ call \in [Graphs -> Calls] /\ "Parking" \in Calls
  BY Typed DEF Shape, Calls
<1>3. run'[g].status = "Parking" /\ \A h \in Graphs \ {g} : run'[h] = run[h]
  BY <1>1, <1>2, RunGets DEF RunStatuses
<1>4. call'[g] = "Parking" /\ \A h \in Graphs \ {g} : call'[h] = call[h]
  BY <1>1, <1>2, CallGets
<1>5. CallAgrees(call'[g], run'[g].status)
  BY <1>3, <1>4 DEF CallAgrees
<1>6. DriverAgrees(driver'[g], run'[g].status)
  BY <1>1, <1>3 DEF DriverAgrees, LifeShape
<1>7. LifeShape'
  BY <1>1, <1>3, <1>4, <1>5, <1>6 DEF LifeShape
<1>8. Working' = Working
  BY <1>1 DEF Working, IsLive
<1>9. Life!Fence(g)
  BY <1>1, <1>8 DEF Life!Fence
<1>10. QED
  BY <1>7, <1>9 DEF LifeGoesOn, Life!Next

(* The token of a run's driver changes nothing that its record tells.      *)
LEMMA SignalRests ==
    ASSUME Shape, NEW g \in Graphs, Signal(g)
    PROVE  \A h \in Graphs : /\ driver'[h].at = driver[h].at
                             /\ driver'[h].conclusion = driver[h].conclusion
<1>1. Becomes(g, driver[g].at, driver[g].todo, driver[g].next, driver[g].wave,
              driver[g].launched, TRUE, driver[g].conclusion)
  BY SignalEffect DEF Shape
<1>2. QED
  BY <1>1 DEF Becomes

(* A park tells the driver to stop, and leaves the record to its fence.    *)
LEMMA ParkCancelsGoesOn ==
    ASSUME Shape, LifeShape, NEW g \in Graphs, ParkCancels(g)
    PROVE  LifeGoesOn
<1>1. call[g] = "Parking" /\ UNCHANGED run
  BY DEF ParkCancels
<1>2. /\ CallAgrees("Joining", run[g].status) /\ CallAgrees("Idle", run[g].status)
      /\ {"Joining", "Idle"} \subseteq Calls
  BY <1>1 DEF LifeShape, CallAgrees, Calls
<1>3. CASE g \in handle
  BY <1>1, <1>2, <1>3, SignalRests, CallRests DEF ParkCancels
<1>4. CASE g \notin handle
  BY <1>1, <1>2, <1>4, CallRests DEF ParkCancels
<1>5. QED
  BY <1>3, <1>4

(* A reconciliation writes every record of the session.                    *)
LEMMA ReconcileLives ==
    ASSUME Shape, Reconcile, Working' \in {Working, {}}
    PROVE  Life!Reconcile
BY DEF Reconcile, Life!Reconcile, Life!Reconciled

(* A park reconciles the session: the records of other runs, whose drivers *)
(* may work on, read Parked as well.                                       *)
LEMMA ParkReconcilesGoesOn ==
    ASSUME Shape, LifeShape, NEW g \in Graphs, ParkReconciles(g)
    PROVE  LifeGoesOn
<1>1. call[g] = "Joining" /\ Reconcile /\ Calling(g, "Reconciled") /\ UNCHANGED driver
  BY DEF ParkReconciles
<1>2. call \in [Graphs -> Calls] /\ "Reconciled" \in Calls
  BY Typed DEF Shape, Calls
<1>3. call'[g] = "Reconciled" /\ \A h \in Graphs \ {g} : call'[h] = call[h]
  BY <1>1, <1>2, CallGets
<1>4. \A h \in Graphs : run'[h].status = IF run[h].status \in {"Running", "Parking"}
                                         THEN "Parked" ELSE run[h].status
  BY <1>1, ReconcileEffect DEF Shape
<1>5. \A h \in Graphs \ {g} : CallAgrees(call'[h], run'[h].status)
  BY <1>3, <1>4 DEF LifeShape, CallAgrees
<1>6. CallAgrees(call'[g], run'[g].status)
  BY <1>1, <1>3, <1>4 DEF LifeShape, CallAgrees
<1>7. \A h \in Graphs : DriverAgrees(driver'[h], run'[h].status)
  BY <1>1, <1>4 DEF LifeShape, DriverAgrees
<1>8. LifeShape'
  BY <1>5, <1>6, <1>7 DEF LifeShape
<1>9. Working' = Working
  BY <1>1 DEF Working, IsLive
<1>10. QED
  BY <1>1, <1>8, <1>9, ReconcileLives DEF LifeGoesOn, Life!Next

(* What a park writes last is what the reconciliation wrote.               *)
LEMMA ParkReturnsGoesOn ==
    ASSUME Shape, LifeShape, NEW g \in Graphs, ParkReturns(g)
    PROVE  LifeGoesOn
<1>1. /\ call[g] = "Reconciled" /\ run' = [run EXCEPT ![g].status = "Parked"]
      /\ Calling(g, "Idle") /\ UNCHANGED driver
  BY DEF ParkReturns
<1>2. run[g].status = "Parked" /\ run \in [Graphs -> RunRec]
  BY <1>1, Typed DEF LifeShape, CallAgrees, Shape
<1>3. run' = run
  BY <1>1, <1>2, SameStatus
<1>4. "Idle" \in Calls /\ CallAgrees("Idle", run[g].status)
  BY DEF Calls, CallAgrees
<1>5. QED
  BY <1>1, <1>3, <1>4, CallRests

(* A cancellation leaves the record to the driver's conclusion.            *)
LEMMA CancelGoesOn ==
    ASSUME Shape, LifeShape, NEW g \in Graphs, CancelCommits(g) \/ CancelSignals(g)
    PROVE  LifeGoesOn
<1>1. /\ CallAgrees("Signalling", run[g].status) /\ CallAgrees("Idle", run[g].status)
      /\ {"Signalling", "Idle"} \subseteq Calls
  BY DEF CallAgrees, Calls
<1>2. CASE CancelCommits(g)
  BY <1>1, <1>2, CallRests DEF CancelCommits
<1>3. CASE CancelSignals(g)
  BY <1>1, <1>3, SignalRests, CallRests DEF CancelSignals
<1>4. QED
  BY <1>2, <1>3

(* Of what an owner does, only a park writes a record at once.             *)
LEMMA OwnerStepGoesOn ==
    ASSUME Shape, LifeShape, NEW g \in Graphs, OwnerStep(g)
    PROVE  LifeGoesOn
<1>1. CASE Park(g)
  BY <1>1, ParkGoesOn
<1>2. CASE Launch(g) \/ Cancel(g)
  <2>1. /\ CallAgrees("Launching", run[g].status) /\ CallAgrees("Cancelling", run[g].status)
        /\ {"Launching", "Cancelling"} \subseteq Calls
    BY DEF CallAgrees, Calls
  <2>2. QED
    BY <1>2, <2>1, CallRests DEF Launch, Cancel
<1>3. CASE Resume(g)
  <2>1. CallAgrees("Resuming", run[g].status) /\ "Resuming" \in Calls
    BY <1>3 DEF CallAgrees, Calls, Resume
  <2>2. QED
    BY <1>3, <2>1, CallRests DEF Resume
<1>4. CASE UNCHANGED <<run, driver, call>>
  BY <1>4, NodesRest
<1>5. QED
  BY <1>1, <1>2, <1>3, <1>4
     DEF OwnerStep, OwnerCloses, Collect, OwnerStarts, OwnerSettles, OwnerRetries

(* After a restart no driver works.                                        *)
LEMMA RestartGoesOn ==
    ASSUME Shape, LifeShape, Restart
    PROVE  LifeGoesOn
<1>1. /\ Reconcile /\ driver' = [g \in Graphs |-> NoDriver]
      /\ call' = [g \in Graphs |-> "Idle"]
  BY DEF Restart
<1>2. \A g \in Graphs : driver'[g].at = "None" /\ call'[g] = "Idle"
  BY <1>1, NoDriverFields
<1>3. LifeShape'
  BY <1>2 DEF LifeShape, CallAgrees, DriverAgrees
<1>4. Working' = {}
  BY <1>2 DEF Working, IsLive
<1>5. QED
  BY <1>1, <1>3, <1>4, ReconcileLives DEF LifeGoesOn, Life!Next

(* Every step is one of the life of the records, or shows nothing of it.   *)
LEMMA NextGoesOn ==
    ASSUME Shape, LifeShape, [Next]_vars
    PROVE  LifeGoesOn
<1>1. ASSUME NEW g \in Graphs, CallStep(g) PROVE LifeGoesOn
  BY <1>1, LaunchCommitsGoesOn, ResumeCommitsGoesOn, RegisterGoesOn, ParkCancelsGoesOn,
     ParkReconcilesGoesOn, ParkReturnsGoesOn, CancelGoesOn DEF CallStep
<1>2. CASE UNCHANGED vars
  BY <1>2, NodesRest DEF vars
<1>3. QED
  BY <1>1, <1>2, DriverStepGoesOn, ChildStepGoesOn, OwnerStepGoesOn, RestartGoesOn DEF Next

(* A session starts without a record and without a driver.                 *)
LEMMA InitAgrees ==
    ASSUME Init
    PROVE  LifeShape /\ Life!Init
<1>1. \A g \in Graphs : driver[g] = NoDriver /\ call[g] = "Idle"
  BY DEF Init
<1>2. LifeShape
  BY <1>1, NoDriverFields DEF LifeShape, CallAgrees, DriverAgrees
<1>3. Working = {}
  BY <1>1, NoDriverFields DEF Working, IsLive
<1>4. QED
  BY <1>2, <1>3 DEF Init, Life!Init

(* The managed runs of a session implement RunLife: a record is opened by  *)
(* a launch or a resume only while no driver works on its graph, a driver  *)
(* starts for no record that was concluded, only the driver at work        *)
(* concludes, and only what still reads Running, and it leaves no record   *)
(* Running behind.  For every number of runs of the session, whose parks   *)
(* reconcile each other's records.                                         *)
THEOREM RunsKeepTheirLife == Spec => Life!Spec
<1>1. Init => LifeShape /\ Life!Init
  BY InitAgrees
<1>2. Shape /\ LifeShape /\ [Next]_vars => LifeShape' /\ [Life!Next]_(Life!vars)
  BY NextGoesOn DEF LifeGoesOn
<1>3. QED
  BY <1>1, <1>2, ShapeHolds, PTL DEF Spec, Life!Spec

-----------------------------------------------------------------------------
(* A conclusion that a record of a run carries stands: no late driver, no  *)
(* park, no reconciliation and no restart replaces it, only the next       *)
(* launch, which finds no driver at work on the graph.  For every number   *)
(* of runs.                                                                *)
THEOREM ConclusionsStand ==
    Spec => [][\A g \in Graphs : run[g].status \in Conclusions =>
                 \/ run'[g] = run[g]
                 \/ ~IsLive(g) /\ run'[g] = [status |-> "Running", generation |-> 0]]_vars
<1> DEFINE Stands(g) ==
      run[g].status \in Conclusions =>
         \/ run'[g] = run[g]
         \/ ~IsLive(g) /\ run'[g] = [status |-> "Running", generation |-> 0]
<1>1. ASSUME Shape, Life!Next \/ UNCHANGED Life!vars, NEW g \in Graphs PROVE Stands(g)
  <2>1. run \in [Graphs -> RunRec] /\ Conclusions = {"Settled", "Stalled", "Cancelled"}
    BY <1>1, Typed DEF Shape, Conclusions
  <2>2. ASSUME NEW h \in Graphs, Life!Launch(h) PROVE Stands(g)
    <3>1. ~IsLive(h)
      BY <2>2 DEF Life!Launch, Working
    <3>2. QED
      BY <2>1, <2>2, <3>1 DEF Life!Launch
  <2>3. ASSUME NEW h \in Graphs, Life!Resume(h) \/ Life!Conclude(h) \/ Life!Fence(h)
        PROVE  Stands(g)
    <3>1. CASE h # g
      BY <2>1, <2>3, <3>1 DEF Life!Resume, Life!Conclude, Life!Fence
    <3>2. CASE h = g
      BY <2>1, <2>3, <3>2 DEF Life!Resume, Life!Conclude, Life!Fence
    <3>3. QED
      BY <3>1, <3>2
  <2>4. CASE UNCHANGED run
    BY <2>4
  <2>5. CASE Life!Reconcile
    BY <2>1, <2>5 DEF Life!Reconcile, Life!Reconciled
  <2>6. QED
    BY <1>1, <2>2, <2>3, <2>4, <2>5 DEF Life!Next, Life!Start, Life!Stop, Life!vars
<1>2. Init => LifeShape
  BY InitAgrees
<1>3. Shape /\ LifeShape /\ [Next]_vars
         => LifeShape' /\ [\A g \in Graphs : Stands(g)]_vars
  BY <1>1, NextGoesOn DEF LifeGoesOn
<1>4. QED
  BY <1>2, <1>3, ShapeHolds, PTL DEF Spec

-----------------------------------------------------------------------------
(* What a driver has in hand, and what its children hold.                  *)

(* The calls that do not touch a driver, but for its token.                *)
SameHands(g) ==
    /\ driver'[g].at = driver[g].at /\ driver'[g].launched = driver[g].launched
    /\ driver[g].cancelled => driver'[g].cancelled
    /\ InHand(g)' = InHand(g) /\ driver'[g].wave = driver[g].wave

(* A driver's record is new, or as after a restart.                        *)
Fresh(g) ==
    driver'[g].at \in {"None", "Top"} /\ InHand(g)' = {} /\ driver'[g].wave = {}

(* A token takes nothing out of a driver's hands.                          *)
LEMMA SignalSame ==
    ASSUME Shape, NEW g \in Graphs, Signal(g)
    PROVE  \A h \in Graphs : SameHands(h)
<1>1. Becomes(g, driver[g].at, driver[g].todo, driver[g].next, driver[g].wave,
              driver[g].launched, TRUE, driver[g].conclusion)
  BY SignalEffect DEF Shape
<1>2. QED
  BY <1>1 DEF Becomes, SameHands, InHand

(* Nor does a step that leaves the drivers alone.                          *)
LEMMA UnchangedSame ==
    ASSUME UNCHANGED driver
    PROVE  \A h \in Graphs : SameHands(h)
BY DEF SameHands, InHand

(* A new driver has empty hands, and replaces one that is at rest and that *)
(* no park waits for.                                                      *)
LEMMA RegisterHands ==
    ASSUME Shape, NEW g \in Graphs, Register(g)
    PROVE  \A h \in Graphs :
              SameHands(h) \/ (Fresh(h) /\ h = g /\ ~IsLive(h) /\ call[h] # "Joining")
<1>1. ~IsLive(g) /\ call[g] # "Joining"
  BY DEF Register, Shape, CallShape
<1>2. CASE g \in handle
  BY <1>2, UnchangedSame DEF Register
<1>3. CASE g \notin handle
  <2>1. driver \in [Graphs -> DriverRec]
    BY Typed DEF Shape
  <2> DEFINE r == [NoDriver EXCEPT !.at = "Top"]
  <2>2. driver' = [driver EXCEPT ![g] = r]
    BY <1>3 DEF Register
  <2>3. r.at = "Top" /\ r.todo = {} /\ r.next = {} /\ r.wave = {}
    BY DEF NoDriver
  <2> HIDE DEF r
  <2>4. driver'[g] = r /\ \A h \in Graphs \ {g} : driver'[h] = driver[h]
    BY <2>1, <2>2
  <2>5. Fresh(g)
    BY <2>3, <2>4 DEF Fresh, InHand
  <2>6. QED
    BY <1>1, <2>4, <2>5 DEF SameHands, InHand
<1>4. QED
  BY <1>2, <1>3

(* A restart leaves no driver.                                             *)
LEMMA RestartHands ==
    ASSUME Restart
    PROVE  \A h \in Graphs : Fresh(h) /\ ~IsLive(h)'
<1>1. \A h \in Graphs : driver'[h] = NoDriver
  BY DEF Restart
<1>2. QED
  BY <1>1, NoDriverFields DEF Fresh, InHand, IsLive

(* Every step, seen from one driver.                                       *)
LEMMA NextHands ==
    ASSUME Shape, [Next]_vars, NEW g \in Graphs
    PROVE  \/ Works(g) \/ SameHands(g)
           \/ Fresh(g) /\ (~IsLive(g)' \/ (~IsLive(g) /\ call[g] # "Joining"))
<1>1. ASSUME NEW h \in Graphs, Works(h) PROVE Works(g) \/ SameHands(g)
  <2>1. CASE h = g
    BY <1>1, <2>1
  <2>2. CASE h # g
    BY <1>1, <2>2 DEF Works, SameHands, InHand
  <2>3. QED
    BY <2>1, <2>2
<1>2. ASSUME NEW h \in Graphs, DriverStep(h) PROVE Works(g) \/ SameHands(g)
  BY <1>1, <1>2, DriverStepWorks
<1>3. ASSUME NEW h \in Graphs, ChildStep(h) PROVE Works(g) \/ SameHands(g)
  <2>1. ASSUME NEW n \in Nodes, ChildReports(h, n) PROVE SameHands(g)
    BY <2>1, UnchangedSame DEF ChildReports
  <2>2. ASSUME NEW n \in Nodes, ChildLeaves(h, n) PROVE Works(h)
    BY <2>2, ChildLeavesWorks
  <2>3. QED
    BY <1>1, <1>3, <2>1, <2>2 DEF ChildStep
<1>4. ASSUME NEW h \in Graphs, OwnerStep(h) PROVE SameHands(g)
  <2>1. UNCHANGED driver
    BY <1>4 DEF OwnerStep, OwnerCloses, Launch, Resume, Park, Cancel, Collect, OwnerStarts,
                OwnerSettles, OwnerRetries
  <2>2. QED
    BY <2>1, UnchangedSame
<1>5. ASSUME NEW h \in Graphs, CallStep(h), ~Register(h) PROVE SameHands(g)
  BY <1>5, SignalSame, UnchangedSame
     DEF CallStep, LaunchCommits, ResumeCommits, ParkCancels, ParkReconciles, ParkReturns,
         CancelCommits, CancelSignals
<1>6. ASSUME NEW h \in Graphs, Register(h)
      PROVE  SameHands(g) \/ (Fresh(g) /\ ~IsLive(g) /\ call[g] # "Joining")
  BY <1>6, RegisterHands
<1>7. CASE Restart
  BY <1>7, RestartHands
<1>8. CASE UNCHANGED vars
  BY <1>8, UnchangedSame DEF vars
<1>9. QED
  BY <1>2, <1>3, <1>4, <1>5, <1>6, <1>7, <1>8 DEF Next

(* A driver that was told to stop stays so, spawns for no further node and *)
(* launches at most the child that it had already spawned: the token is    *)
(* looked at before every spawn (the select of the claiming loop).         *)
THEOREM TokensStopSpawning ==
    Spec => [][\A g \in Graphs : driver[g].cancelled /\ IsLive(g) /\ IsLive(g)' =>
                 /\ driver'[g].cancelled
                 /\ driver'[g].at = "Spawned" => driver[g].at = "Spawned"
                 /\ driver'[g].launched # driver[g].launched => driver[g].at = "Spawned"]_vars
<1> DEFINE Heeded(g) ==
      driver[g].cancelled /\ IsLive(g) /\ IsLive(g)' =>
         /\ driver'[g].cancelled
         /\ driver'[g].at = "Spawned" => driver[g].at = "Spawned"
         /\ driver'[g].launched # driver[g].launched => driver[g].at = "Spawned"
<1>1. ASSUME Shape, [Next]_vars, NEW g \in Graphs PROVE Heeded(g)
  <2>1. CASE Works(g)
    BY <2>1 DEF Works
  <2>2. CASE SameHands(g)
    BY <2>2 DEF SameHands
  <2>3. QED
    BY <1>1, <2>1, <2>2, NextHands
<1>2. Shape /\ [Next]_vars => [\A g \in Graphs : Heeded(g)]_vars
  BY <1>1
<1>3. QED
  BY <1>2, ShapeHolds, PTL DEF Spec

-----------------------------------------------------------------------------
(* The limits of a run: RunLimits.max_concurrent.                          *)

(* Sets of nodes of bounded size.                                          *)
LEMMA SmallerIsWithin ==
    ASSUME NEW B \in SUBSET Nodes, Cardinality(B) <= MaxConcurrent, NEW A \in SUBSET B
    PROVE  Cardinality(A) <= MaxConcurrent
<1>1. IsFiniteSet(Nodes) /\ MaxConcurrent \in Nat
  BY ReadinessAssumption, RunAssumption
<1>2. IsFiniteSet(B)
  BY <1>1, FS_Subset
<1>3. IsFiniteSet(A) /\ Cardinality(A) <= Cardinality(B)
  BY <1>2, FS_Subset
<1>4. Cardinality(A) \in Nat /\ Cardinality(B) \in Nat
  BY <1>2, <1>3, FS_CardinalityType
<1>5. QED
  BY <1>1, <1>3, <1>4

(* Empty hands are within the limit.                                       *)
LEMMA NothingIsWithin == Cardinality({}) <= MaxConcurrent
BY FS_EmptySet, RunAssumption

(* No driver has more in hand than its limit.                              *)
InHandBounded == \A g \in Graphs : Cardinality(InHand(g)) <= MaxConcurrent

(* Every step keeps what a driver has in hand within its limit: it takes a *)
(* wave with empty hands only.                                             *)
LEMMA NextKeepsWithin ==
    ASSUME Shape, [Next]_vars, InHandBounded, NEW g \in Graphs
    PROVE  Cardinality(InHand(g)') <= MaxConcurrent
<1>1. InHand(g) \in SUBSET Nodes
  BY Typed, DriverFields DEF Shape, InHand
<1>2. Cardinality(InHand(g)) <= MaxConcurrent
  BY DEF InHandBounded
<1>3. ASSUME InHand(g)' \subseteq InHand(g) PROVE Cardinality(InHand(g)') <= MaxConcurrent
  BY <1>1, <1>2, <1>3, SmallerIsWithin
<1>4. CASE Works(g)
  BY <1>3, <1>4 DEF Works
<1>5. CASE SameHands(g)
  BY <1>3, <1>5 DEF SameHands
<1>6. CASE Fresh(g)
  BY <1>6, NothingIsWithin DEF Fresh
<1>7. QED
  BY <1>4, <1>5, <1>6, NextHands

(* What a driver has queued, spawned for and waits for in a wave never     *)
(* exceeds RunLimits.max_concurrent, whatever is bounced, cancelled,       *)
(* parked or retried meanwhile.                                            *)
THEOREM DriversKeepWithinLimits == Spec => []InHandBounded
<1>1. Init => InHandBounded
  <2>1. SUFFICES ASSUME Init, NEW g \in Graphs PROVE InHand(g) = {}
    BY NothingIsWithin DEF InHandBounded
  <2>2. driver[g] = NoDriver
    BY <2>1 DEF Init
  <2>3. QED
    BY <2>2, NoDriverFields DEF InHand
<1>2. Shape /\ InHandBounded /\ [Next]_vars => InHandBounded'
  <2>1. SUFFICES ASSUME Shape, InHandBounded, [Next]_vars, NEW g \in Graphs
                 PROVE  Cardinality(InHand(g)') <= MaxConcurrent
    BY DEF InHandBounded
  <2>2. QED
    BY <2>1, NextKeepsWithin
<1>3. QED
  BY <1>1, <1>2, ShapeHolds, PTL DEF Spec

(* Only the claim of a driver puts a child on a node.                      *)
HeldShrinks == \A m \in Nodes : nodes'[m].held => nodes[m].held

(* A settlement, with its bounces, puts no child on a node.                *)
LEMMA SettlesHoldNothing ==
    ASSUME Shape, NEW n \in Nodes, NEW status \in {"Succeeded", "Failed"}, NEW used \in Nat,
           Settle(n, status, used)
    PROVE  HeldShrinks
<1>1. nodes'[n].held = FALSE /\ \A m \in Nodes \ {n} : nodes'[m].held = nodes[m].held
  BY SettleEffect DEF Shape
<1>2. QED
  BY <1>1 DEF HeldShrinks

(* Nothing an owner does puts a child on a node.                           *)
LEMMA OwnerStepsHoldNothing ==
    ASSUME Shape, NEW g \in Graphs, OwnerStep(g)
    PROVE  HeldShrinks
<1>1. nodes \in [Nodes -> NodeRec]
  BY Typed DEF Shape
<1>2. CASE UNCHANGED nodes
  BY <1>2 DEF HeldShrinks
<1>3. ASSUME NEW n \in Nodes, OwnerStarts(g, n) PROVE HeldShrinks
  <2>1. nodes' = [nodes EXCEPT ![n] = [status |-> "Running", used |-> Opened(n),
                                       held |-> FALSE]]
    BY <1>3 DEF OwnerStarts
  <2>2. nodes'[n].held = FALSE /\ \A m \in Nodes \ {n} : nodes'[m] = nodes[m]
    BY <1>1, <2>1, OpenedIsNat, NodeGets DEF Statuses
  <2>3. QED
    BY <2>2 DEF HeldShrinks
<1>4. ASSUME NEW n \in Nodes, OwnerSettles(g, n) PROVE HeldShrinks
  <2>1. PICK status \in {"Succeeded", "Failed"} :
          Settle(n, status, nodes[n].used) \/ Settle(n, status, Opened(n))
    BY <1>4 DEF OwnerSettles
  <2>2. nodes[n].used \in Nat /\ Opened(n) \in Nat
    BY <1>1, NodeFields, OpenedIsNat
  <2>3. QED
    BY <2>1, <2>2, SettlesHoldNothing
<1>5. ASSUME NEW n \in Nodes, OwnerRetries(g, n) PROVE HeldShrinks
  <2> DEFINE r == [nodes[n] EXCEPT !.status = "Pending"]
  <2>1. nodes' = [nodes EXCEPT ![n] = r]
    BY <1>5, Zenon DEF OwnerRetries
  <2>2. nodes[n] \in NodeRec /\ "Pending" \in Statuses
    BY <1>1 DEF Statuses
  <2>3. r \in NodeRec /\ r.held = nodes[n].held
    BY ONLY <2>2, StatusRecord
  <2> HIDE DEF r
  <2>4. nodes'[n] = r /\ \A m \in Nodes \ {n} : nodes'[m] = nodes[m]
    BY <1>1, <2>1, <2>3, Updated
  <2>5. QED
    BY <2>3, <2>4 DEF HeldShrinks
<1>6. QED
  BY <1>2, <1>3, <1>4, <1>5
     DEF OwnerStep, OwnerCloses, Launch, Resume, Park, Cancel, Collect

(* No commit of a call puts a child on a node.                             *)
LEMMA CallStepsHoldNothing ==
    ASSUME Shape, NEW g \in Graphs, CallStep(g)
    PROVE  HeldShrinks
<1>1. nodes \in [Nodes -> NodeRec] /\ {"Pending", "Cancelled"} \subseteq Statuses
  BY Typed DEF Shape, Statuses
<1>2. CASE UNCHANGED nodes
  BY <1>2 DEF HeldShrinks
<1>3. CASE Reconcile
  BY <1>3, ReconcileEffect DEF Shape, HeldShrinks
<1>4. CASE CancelCommits(g)
  <2>1. SUFFICES ASSUME NEW m \in Nodes, nodes'[m].held PROVE nodes[m].held
    BY DEF HeldShrinks
  <2>2. CASE m \in NodesOf(g) /\ IsCancellable(m)
    <3>1. nodes'[m] = [nodes[m] EXCEPT !.status = "Cancelled", !.held = FALSE]
      BY <1>4, <2>2 DEF CancelCommits
    <3>2. nodes[m] \in NodeRec
      BY <1>1
    <3>3. nodes'[m].held = FALSE
      BY ONLY <3>1, <3>2 DEF NodeRec
    <3>4. QED
      BY <2>1, <3>3
  <2>3. CASE ~(m \in NodesOf(g) /\ IsCancellable(m))
    <3>1. nodes'[m] = nodes[m]
      BY <1>4, <2>3 DEF CancelCommits
    <3>2. QED
      BY <2>1, <3>1
  <2>4. QED
    BY <2>2, <2>3
<1>5. CASE ResumeCommits(g)
  <2>1. SUFFICES ASSUME NEW m \in Nodes PROVE nodes'[m].held => nodes[m].held
    BY DEF HeldShrinks
  <2>2. \/ nodes'[m] = nodes[m]
        \/ nodes'[m] = [nodes[m] EXCEPT !.status = "Pending"]
    BY <1>5 DEF ResumeCommits
  <2>3. nodes[m] \in NodeRec
    BY <1>1
  <2>4. QED
    BY <1>1, <2>2, <2>3, StatusRecord
<1>6. CASE ParkReconciles(g)
  BY <1>3, <1>6 DEF ParkReconciles
<1>7. CASE LaunchCommits(g) \/ Register(g) \/ ParkCancels(g) \/ ParkReturns(g) \/ CancelSignals(g)
  <2>1. UNCHANGED nodes
    BY <1>7 DEF LaunchCommits, Register, ParkCancels, ParkReturns, CancelSignals
  <2>2. QED
    BY <1>2, <2>1
<1>8. QED
  BY <1>4, <1>5, <1>6, <1>7 DEF CallStep

(* A claim of a driver is the only step that does.                         *)
LEMMA OnlyClaimsHold ==
    ASSUME Shape, [Next]_vars
    PROVE  HeldShrinks \/ \E g \in Graphs : \E n \in Nodes : DriverClaims(g, n)
<1>1. ASSUME UNCHANGED nodes PROVE HeldShrinks
  BY <1>1 DEF HeldShrinks
<1>2. ASSUME NEW g \in Graphs, DriverStep(g)
      PROVE  HeldShrinks \/ \E n \in Nodes : DriverClaims(g, n)
  <2>1. CASE \E n \in Nodes : DriverSpawns(g, n) \/ DriverIsRefused(g, n)
    <3>1. UNCHANGED nodes
      BY <2>1 DEF DriverSpawns, DriverIsRefused
    <3>2. QED
      BY <1>1, <3>1
  <2>2. CASE ~\E n \in Nodes : DriverSpawns(g, n) \/ DriverClaims(g, n) \/ DriverIsRefused(g, n)
    <3>1. UNCHANGED nodes
      BY <1>2, <2>2
         DEF DriverStep, DriverStops, DriverStartsWave, DriverFindsNothing, DriverIsCancelled,
             DriverEndsClaiming, DriverEndsWave, DriverRecords, DriverFinishes
    <3>2. QED
      BY <1>1, <3>1
  <2>3. QED
    BY <2>1, <2>2
<1>3. ASSUME NEW g \in Graphs, ChildStep(g) PROVE HeldShrinks
  <2>1. PICK n \in Nodes : ChildReports(g, n) \/ ChildLeaves(g, n)
    BY <1>3 DEF ChildStep
  <2>2. CASE ChildReports(g, n)
    <3>1. PICK status \in {"Succeeded", "Failed"} : Settle(n, status, nodes[n].used)
      BY <2>2 DEF ChildReports
    <3>2. nodes[n].used \in Nat
      BY Typed, NodeFields DEF Shape
    <3>3. QED
      BY <3>1, <3>2, SettlesHoldNothing
  <2>3. CASE ChildLeaves(g, n)
    BY <1>1, <2>3 DEF ChildLeaves
  <2>4. QED
    BY <2>1, <2>2, <2>3
<1>4. CASE Restart
  BY <1>4, ReconcileEffect DEF Restart, Shape, HeldShrinks
<1>5. QED
  BY <1>1, <1>2, <1>3, <1>4, OwnerStepsHoldNothing, CallStepsHoldNothing DEF Next, vars

(* The nodes of a graph that a child is on.                                *)
HeldOf(g) == {n \in NodesOf(g) : nodes[n].held}

(* Not more than its driver may have in hand, and while the driver is in   *)
(* its loop they are children of its wave.                                 *)
HeldBounded(g) == Cardinality(HeldOf(g)) <= MaxConcurrent

HeldShape ==
    \A g \in Graphs :
        HeldBounded(g) /\ (driver[g].at \in Looping => HeldOf(g) \subseteq driver[g].wave)

(* A step that puts no child on a node of g keeps its limit, and a driver  *)
(* in its loop keeps the children that hold something in its wave: one     *)
(* that starts finds nothing held.                                         *)
LEMMA HeldShapeStays ==
    ASSUME Shape, NothingStranded, HeldShape, [Next]_vars, NEW g \in Graphs,
           HeldOf(g)' \subseteq HeldOf(g)
    PROVE  HeldBounded(g)' /\ (driver'[g].at \in Looping => HeldOf(g)' \subseteq driver'[g].wave)
<1>1. HeldOf(g) \in SUBSET Nodes /\ HeldBounded(g)
  BY DEF HeldOf, NodesOf, HeldShape
<1>2. HeldBounded(g)'
  BY <1>1, SmallerIsWithin DEF HeldBounded
<1>3. ASSUME driver'[g].at \in Looping PROVE HeldOf(g)' \subseteq driver'[g].wave
  <2>1. CASE Works(g)
    <3>1. driver[g].at \in Looping /\ HeldOf(g) \subseteq driver[g].wave
      BY <1>3, <2>1 DEF Works, HeldShape
    <3>2. \A n \in HeldOf(g) : n \in driver'[g].wave
      BY <1>3, <2>1, <3>1 DEF Works, HeldOf
    <3>3. QED
      BY <3>2
  <2>2. CASE SameHands(g)
    BY <1>3, <2>2 DEF SameHands, HeldShape
  <2>3. CASE Fresh(g) /\ (~IsLive(g)' \/ (~IsLive(g) /\ call[g] # "Joining"))
    <3>1. ~IsLive(g) /\ call[g] # "Joining"
      BY <1>3, <2>3 DEF Looping, IsLive
    <3>2. HeldOf(g) = {}
      BY <3>1 DEF HeldOf, NodesOf, NothingStranded, IsLive
    <3>3. QED
      BY <3>2
  <2>4. QED
    BY <2>1, <2>2, <2>3, NextHands
<1>4. QED
  BY <1>2, <1>3

(* Every step keeps the limit of what the children of a graph hold.        *)
LEMMA NextHolds ==
    ASSUME Shape, NothingStranded, HeldShape, [Next]_vars, InHandBounded', NEW g \in Graphs
    PROVE  HeldBounded(g)' /\ (driver'[g].at \in Looping => HeldOf(g)' \subseteq driver'[g].wave)
<1>1. ASSUME HeldShrinks PROVE HeldOf(g)' \subseteq HeldOf(g)
  BY <1>1 DEF HeldShrinks, HeldOf, NodesOf
<1>2. ASSUME NEW h \in Graphs, NEW n \in Nodes, DriverClaims(h, n), h # g
      PROVE  HeldOf(g)' \subseteq HeldOf(g)
  <2>1. n \notin NodesOf(g)
    BY <1>2 DEF DriverClaims, Shape, DriverShape, NodesOf
  <2>2. \A m \in Nodes \ {n} : nodes'[m] = nodes[m]
    BY <1>2, DriverClaimsWorks
  <2>3. QED
    BY <2>1, <2>2 DEF HeldOf, NodesOf
<1>3. ASSUME NEW n \in Nodes, DriverClaims(g, n)
      PROVE  HeldBounded(g)' /\ HeldOf(g)' \subseteq driver'[g].wave
  <2>1. /\ Works(g) /\ n \in driver'[g].wave
        /\ \A m \in Nodes \ {n} : nodes'[m] = nodes[m]
    BY <1>3, DriverClaimsWorks
  <2>2. HeldOf(g) \subseteq driver[g].wave /\ driver'[g].at \in Looping
    <3>1. driver[g].at = "Spawned" /\ driver[g] \in DriverRec
      BY <1>3, Typed DEF DriverClaims, Shape
    <3>2. driver'[g].at = "Claiming"
      BY <1>3, <3>1, Typed DEF DriverClaims, Shape, DriverRec
    <3>3. QED
      BY <3>1, <3>2 DEF HeldShape, Looping
  <2>3. \A m \in HeldOf(g)' : m = n \/ m \in HeldOf(g)
    BY <2>1 DEF HeldOf, NodesOf
  <2>4. \A m \in HeldOf(g) : m \in driver'[g].wave
    BY <2>1, <2>2 DEF Works, HeldOf
  <2>5. HeldOf(g)' \subseteq driver'[g].wave
    BY <2>1, <2>3, <2>4
  <2>6. InHand(g)' \in SUBSET Nodes
    BY NextKeeps, TypedNext, DriverFields DEF Shape, InHand
  <2>7. Cardinality(InHand(g)') <= MaxConcurrent /\ HeldOf(g)' \subseteq InHand(g)'
    BY <2>5 DEF InHandBounded, InHand
  <2>8. QED
    BY <2>5, <2>6, <2>7, SmallerIsWithin DEF HeldBounded
<1>4. QED
  BY <1>1, <1>2, <1>3, OnlyClaimsHold, HeldShapeStays

(* Nor do the nodes of a graph that children hold, over all the drivers    *)
(* the graph has had: a park or a conclusion leaves no child behind that   *)
(* would work next to those of the next driver's wave.  Under the          *)
(* conditions of ConclusionsStrandNobody.                                  *)
THEOREM RunsKeepWithinLimits == Prudent => (Spec => [](\A g \in Graphs : HeldBounded(g)))
<1> SUFFICES ASSUME Prudent PROVE Spec => [](\A g \in Graphs : HeldBounded(g))
  OBVIOUS
<1>1. Init => HeldShape
  <2>1. SUFFICES ASSUME Init, NEW g \in Graphs PROVE HeldOf(g) = {}
    BY NothingIsWithin DEF HeldShape, HeldBounded
  <2>2. QED
    BY <2>1 DEF Init, HeldOf, NodesOf
<1>2. Shape /\ NothingStranded /\ InHandBounded' /\ HeldShape /\ [Next]_vars => HeldShape'
  <2>1. SUFFICES ASSUME Shape, NothingStranded, InHandBounded', HeldShape, [Next]_vars,
                        NEW g \in Graphs
                 PROVE  /\ HeldBounded(g)'
                        /\ driver'[g].at \in Looping => HeldOf(g)' \subseteq driver'[g].wave
    BY DEF HeldShape
  <2>2. QED
    BY <2>1, NextHolds
<1>3. HeldShape => \A g \in Graphs : HeldBounded(g)
  BY DEF HeldShape
<1>4. QED
  BY <1>1, <1>2, <1>3, ShapeHolds, ConclusionsStrandNobody, DriversKeepWithinLimits, PTL
     DEF Spec
=============================================================================
