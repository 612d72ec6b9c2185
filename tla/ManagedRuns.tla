----------------------------- MODULE ManagedRuns -----------------------------
(***************************************************************************)
(* Managed runs of a session: the driver of crates/core/src/work/driver.rs *)
(* that claims ready nodes in waves, the run registry of session.rs        *)
(* (register, park, wait, cancel), the launch and resume of tools/task.rs  *)
(* and the reconciliation after a restart.                                 *)
(*                                                                         *)
(* Each graph has one owner, and an agent makes one tool call at a time:   *)
(* call[g] is the owner's call about graph g.  Drivers, calls about other  *)
(* graphs, the children a driver runs and a crash interleave at every      *)
(* await and between every two transactions.                               *)
(*                                                                         *)
(* Abstractions.  A node is its status, the attempts it used when they are *)
(* capped, and whether it is held by a child of its graph's driver.  Which *)
(* settled dependents a bounce re-opens depends on the manifests of        *)
(* WorkGraph: here it is any set of them.  A graph's plan is launchable    *)
(* and its saves succeed.                                                  *)
(***************************************************************************)
EXTENDS Readiness

CONSTANTS
    Graphs,
    GraphOf,        \* the graph of each node
    Manual,         \* nodes with Executor::Manual
    Bounces,        \* feedback edges: records [from, to, on]
    Cap,            \* retry_policy.max_attempts, 0 = no cap
    MaxConcurrent,  \* RunLimits.max_concurrent
    MaxLaunched,    \* RunLimits.max_attempts_total
    RetryStopping,  \* whether owners retry nodes while a cancelled run winds down
    MaxGeneration   \* bound: resumes of one run

Statuses    == {"Pending", "Running", "Succeeded", "Failed", "Blocked", "Cancelled",
                "Interrupted"}
Conclusions == {"Settled", "Stalled", "Cancelled"}
RunStatuses == Conclusions \cup {"None", "Running", "Parking", "Parked"}
GraphStatuses == {"Active", "Completed", "Cancelled"}
Bounceable  == {"Succeeded", "Failed", "Blocked", "Interrupted"}

ASSUME RunAssumption ==
    /\ IsFiniteSet(Graphs) /\ GraphOf \in [Nodes -> Graphs] /\ Manual \subseteq Nodes
    /\ Bounces \subseteq [from: Nodes, to: Nodes, on: {"Succeeded", "Failed"}]
    /\ \A e \in Bounces \cup Dependencies : GraphOf[e.from] = GraphOf[e.to] /\ e.from # e.to
    /\ Cap \in [Nodes -> Nat]
    /\ MaxConcurrent \in Nat \ {0} /\ MaxLaunched \in Nat
    /\ RetryStopping \in BOOLEAN /\ MaxGeneration \in Nat

VARIABLES
    nodes,      \* [Nodes -> [status, used, held]]
    graph,      \* GraphStatus of each graph
    run,        \* durable record of each graph's latest run: [status, generation]
    handle,     \* graphs whose run has a handle in Session.runs
    driver,     \* the driver task of each graph
    call        \* what the owner's tool call about each graph is at

vars == <<nodes, graph, run, handle, driver, call>>

NodesOf(g) == {n \in Nodes : GraphOf[n] = g}
Status     == [n \in Nodes |-> nodes[n].status]

NoDriver == [at |-> "None", todo |-> {}, next |-> {}, wave |-> {}, launched |-> 0,
             cancelled |-> FALSE, conclusion |-> "None"]
Calls    == {"Idle", "Launching", "RegisteringLaunch", "Resuming", "RegisteringResume",
             "Parking", "Joining", "Reconciled", "Cancelling", "Signalling"}

TypeOK ==
    /\ nodes \in [Nodes -> [status: Statuses, used: Nat, held: BOOLEAN]]
    /\ graph \in [Graphs -> GraphStatuses] /\ handle \subseteq Graphs
    /\ run \in [Graphs -> [status: RunStatuses, generation: 0..MaxGeneration]]
    /\ driver \in [Graphs -> [at: {"None", "Top", "Claiming", "Spawned", "Waiting",
                                   "Concluding", "Finishing", "Finished"},
                              todo: SUBSET Nodes, next: SUBSET Nodes, wave: SUBSET Nodes,
                              launched: 0..MaxLaunched,
                              cancelled: BOOLEAN, conclusion: Conclusions \cup {"None"}]]
    /\ call \in [Graphs -> Calls]

(* join.is_finished() is false.                                            *)
IsLive(g)     == driver[g].at \notin {"None", "Finished"}
HasLiveRun(g) == g \in handle /\ IsLive(g)

-----------------------------------------------------------------------------
(* Nodes.                                                                  *)

HasAttemptsLeft(n) == Cap[n] = 0 \/ nodes[n].used < Cap[n]

Opened(n) == IF Cap[n] = 0 THEN 0 ELSE nodes[n].used + 1

IsClaimable(n) == nodes[n].status \in {"Pending", "Failed"} /\ HasAttemptsLeft(n)

IsReadyIn(g) == {n \in NodesOf(g) : IsReady(Status, n)}

IsClosed(T) == \A e \in Dependencies : e.from \in T => e.to \in T

(* Settled nodes that depend, directly or not, on one of S.                *)
Dependents(settled, S) ==
    {n \in settled \ S : \A T \in SUBSET Nodes : S \subseteq T /\ IsClosed(T) => n \in T}

(* n ends with `status`, and its feedback edges fire in the same           *)
(* transaction.                                                            *)
Settle(n, status, used) ==
    LET settled == {m \in Nodes : nodes[m].status \in Bounceable} \cup {n}
        targets == {t \in settled \ {n} : /\ HasAttemptsLeft(t)
                                          /\ \E e \in Bounces : e.from = n /\ e.to = t
                                                                /\ e.on = status}
        ended   == [status |-> status, used |-> used, held |-> FALSE]
    IN
    \E S \in SUBSET Dependents(settled, targets) :
       nodes' = [m \in Nodes |->
          LET now == IF m = n THEN ended ELSE nodes[m] IN
          IF m \in targets \cup S THEN [now EXCEPT !.status = "Pending"] ELSE now]

-----------------------------------------------------------------------------
(* The driver of graph g: drive_run_observed.                              *)

Conclude(g, conclusion) ==
    driver' = [driver EXCEPT ![g] = [@ EXCEPT !.at = "Concluding", !.todo = {}, !.next = {},
                                              !.wave = {}, !.conclusion = conclusion]]

MoveTo(g, at) == driver' = [driver EXCEPT ![g].at = at]

IsStopping(g) == driver[g].cancelled \/ graph[g] = "Cancelled"

(* The head of the loop: look at the token and the graph, derive what is   *)
(* ready, and start a wave, poll, or conclude.  The wave is a snapshot.    *)

(* Mutation: the head of the loop, and with it the poll, is deaf to the    *)
(* token.                                                                  *)
DriverStopsWhenClosed(g) ==
    /\ driver[g].at = "Top" /\ graph[g] # "Active"
    /\ Conclude(g, IF graph[g] = "Cancelled" THEN "Cancelled" ELSE "Settled")
    /\ UNCHANGED <<nodes, graph, run, handle, call>>

DriverStops(g) ==
    /\ driver[g].at = "Top" /\ (driver[g].cancelled \/ graph[g] # "Active")
    /\ Conclude(g, IF IsStopping(g) THEN "Cancelled" ELSE "Settled")
    /\ UNCHANGED <<nodes, graph, run, handle, call>>

Launchable(g) == IsReadyIn(g) \ Manual

DriverStartsWave(g) ==
    /\ driver[g].at = "Top" /\ ~driver[g].cancelled /\ graph[g] = "Active"
    /\ \E W \in SUBSET Launchable(g) :
         /\ W # {} /\ Cardinality(W) <= MaxConcurrent
         /\ W = Launchable(g) \/ Cardinality(W) = MaxConcurrent
         /\ driver' = [driver EXCEPT ![g] = [@ EXCEPT !.at = "Claiming", !.todo = W]]
    /\ UNCHANGED <<nodes, graph, run, handle, call>>

RunningIn(g) == {n \in NodesOf(g) : nodes[n].status = "Running"}

DriverFindsNothing(g) ==
    /\ driver[g].at = "Top" /\ ~driver[g].cancelled /\ graph[g] = "Active"
    /\ Launchable(g) = {} /\ RunningIn(g) = {}
    /\ Conclude(g, IF \A n \in NodesOf(g) : nodes[n].status \in {"Succeeded", "Cancelled"}
                   THEN "Settled" ELSE "Stalled")
    /\ UNCHANGED <<nodes, graph, run, handle, call>>

(* Mutation: the budget of the run is not looked at.                       *)
DriverSpawnsAlways(g, n) ==
    /\ driver[g].at = "Claiming" /\ n \in driver[g].todo /\ ~driver[g].cancelled
    /\ driver' = [driver EXCEPT ![g].at = "Spawned", ![g].next = {n}, ![g].todo = @ \ {n}]
    /\ UNCHANGED <<nodes, graph, run, handle, call>>

(* Spawn a child for n, which may fail, unless the token says stop.        *)
DriverSpawns(g, n) ==
    /\ driver[g].at = "Claiming" /\ n \in driver[g].todo
    /\ ~driver[g].cancelled /\ driver[g].launched < MaxLaunched
    /\ \/ driver' = [driver EXCEPT ![g].at = "Spawned", ![g].next = {n},
                                     ![g].todo = @ \ {n}]
       \/ driver' = [driver EXCEPT ![g].todo = @ \ {n}]
    /\ UNCHANGED <<nodes, graph, run, handle, call>>

(* The token interrupts a spawn, and the wave that is awaited.             *)
DriverIsCancelled(g) ==
    /\ \/ driver[g].at = "Claiming" /\ driver[g].todo # {} /\ driver[g].launched < MaxLaunched
       \/ driver[g].at = "Waiting"
    /\ driver[g].cancelled
    /\ Conclude(g, "Cancelled")
    /\ UNCHANGED <<nodes, graph, run, handle, call>>

(* Claim n for the child, in a transaction of its own: `assign` looks at   *)
(* n's status and cap, not at its predecessors and not at the graph.       *)
DriverClaims(g, n) ==
    /\ driver[g].at = "Spawned" /\ driver[g].next = {n} /\ IsClaimable(n)
    /\ nodes' = [nodes EXCEPT ![n] = [status |-> "Running", used |-> Opened(n), held |-> TRUE]]
    /\ driver' = [driver EXCEPT ![g].at = "Claiming", ![g].next = {},
                                  ![g].wave = @ \cup {n}, ![g].launched = @ + 1]
    /\ UNCHANGED <<graph, run, handle, call>>

(* A refused claim is skipped, or ends a run that is to stop, unless the   *)
(* node still reads as ready (the claim is then reported as fatal).        *)
DriverIsRefused(g, n) ==
    /\ driver[g].at = "Spawned" /\ driver[g].next = {n} /\ ~IsClaimable(n)
    /\ IF IsStopping(g) /\ (graph[g] # "Active" \/ n \notin IsReadyIn(g))
       THEN Conclude(g, "Cancelled")
       ELSE driver' = [driver EXCEPT ![g] = [@ EXCEPT !.at = "Claiming", !.next = {}]]
    /\ UNCHANGED <<nodes, graph, run, handle, call>>

(* Mutation: a wave that claimed nothing tries again.                      *)
DriverEndsClaimingAgain(g) ==
    /\ driver[g].at = "Claiming"
    /\ driver[g].todo = {} \/ driver[g].launched = MaxLaunched
    /\ driver' = [driver EXCEPT ![g] =
         [@ EXCEPT !.at = IF driver[g].wave # {} THEN "Waiting" ELSE "Top", !.todo = {}]]
    /\ UNCHANGED <<nodes, graph, run, handle, call>>

(* Everything was claimed or skipped, or the run's budget is spent.        *)
DriverEndsClaiming(g) ==
    /\ driver[g].at = "Claiming"
    /\ driver[g].todo = {} \/ driver[g].launched = MaxLaunched
    /\ IF driver[g].wave # {} THEN driver' = [driver EXCEPT ![g] = [@ EXCEPT !.at = "Waiting",
                                                                             !.todo = {}]]
       ELSE Conclude(g, IF IsStopping(g) THEN "Cancelled" ELSE "Stalled")
    /\ UNCHANGED <<nodes, graph, run, handle, call>>

(* A child of the wave reports through its assignment, during its turn or  *)
(* by ending it (settle_if_unsettled), and then leaves the wave.  A child  *)
(* whose assignment was released meanwhile has nothing left to settle.     *)
ChildReports(g, n) ==
    /\ driver[g].at = "Waiting" /\ n \in driver[g].wave /\ nodes[n].held
    /\ \E status \in {"Succeeded", "Failed"} : Settle(n, status, nodes[n].used)
    /\ UNCHANGED <<graph, run, handle, driver, call>>

ChildLeaves(g, n) ==
    /\ driver[g].at = "Waiting" /\ n \in driver[g].wave /\ ~nodes[n].held
    /\ driver' = [driver EXCEPT ![g].wave = @ \ {n}]
    /\ UNCHANGED <<nodes, graph, run, handle, call>>

DriverEndsWave(g) ==
    /\ driver[g].at = "Waiting" /\ driver[g].wave = {}
    /\ MoveTo(g, "Top")
    /\ UNCHANGED <<nodes, graph, run, handle, call>>

(* Mutation: the conclusion overwrites whatever park or a restart wrote.   *)
RecordAnyway(g) == run' = [run EXCEPT ![g].status = driver[g].conclusion]

(* The conclusion is written unless the record left Running, and then the  *)
(* task ends.                                                              *)
RecordConclusion(g) ==
    run' = [run EXCEPT ![g].status = IF @ = "Running" THEN driver[g].conclusion ELSE @]

DriverRecords(g) ==
    /\ driver[g].at = "Concluding"
    /\ RecordConclusion(g)
    /\ MoveTo(g, "Finishing")
    /\ UNCHANGED <<nodes, graph, handle, call>>

DriverFinishes(g) ==
    /\ driver[g].at = "Finishing"
    /\ MoveTo(g, "Finished")
    /\ UNCHANGED <<nodes, graph, run, handle, call>>

DriverStep(g) ==
    \/ DriverStops(g) \/ DriverStartsWave(g) \/ DriverFindsNothing(g) \/ DriverIsCancelled(g)
    \/ \E n \in Nodes : DriverSpawns(g, n) \/ DriverClaims(g, n) \/ DriverIsRefused(g, n)
    \/ DriverEndsClaiming(g) \/ DriverEndsWave(g) \/ DriverRecords(g) \/ DriverFinishes(g)

ChildStep(g) == \E n \in Nodes : ChildReports(g, n) \/ ChildLeaves(g, n)

-----------------------------------------------------------------------------
(* The owner's calls: launch, resume, park, cancel, wait.                  *)

Signal(g) == driver' = [driver EXCEPT ![g].cancelled = TRUE]

Calling(g, at) == call' = [call EXCEPT ![g] = at]

Launch(g) ==
    /\ call[g] = "Idle" /\ ~HasLiveRun(g)
    /\ Calling(g, "Launching")
    /\ UNCHANGED <<nodes, graph, run, handle, driver>>

(* The new record has an id of its own: a handle left by an earlier run of *)
(* the graph is not its handle.                                            *)
LaunchCommits(g) ==
    /\ call[g] = "Launching"
    /\ IF run[g].status \in {"Running", "Parked"}
       THEN Calling(g, "Idle") /\ UNCHANGED <<run, handle>>
       ELSE /\ run' = [run EXCEPT ![g] = [status |-> "Running", generation |-> 0]]
            /\ handle' = handle \ {g}
            /\ Calling(g, "RegisteringLaunch")
    /\ UNCHANGED <<nodes, graph, driver>>

Resume(g) ==
    /\ call[g] = "Idle" /\ run[g].status = "Parked" /\ ~HasLiveRun(g)
    /\ run[g].generation < MaxGeneration
    /\ Calling(g, "Resuming")
    /\ UNCHANGED <<nodes, graph, run, handle, driver>>

(* Every interrupted node is retried in one transaction: one that may not  *)
(* be refuses the whole resume.                                            *)
ResumeCommits(g) ==
    LET interrupted == {n \in NodesOf(g) : nodes[n].status = "Interrupted"} IN
    /\ call[g] = "Resuming"
    /\ IF \A n \in interrupted : HasAttemptsLeft(n)
       THEN /\ nodes' = [n \in Nodes |-> IF n \in interrupted
                           THEN [nodes[n] EXCEPT !.status = "Pending"] ELSE nodes[n]]
            /\ run' = [run EXCEPT ![g] = [status |-> "Running", generation |-> @.generation + 1]]
            /\ Calling(g, "RegisteringResume")
       ELSE Calling(g, "Idle") /\ UNCHANGED <<nodes, run>>
    /\ UNCHANGED <<graph, handle, driver>>

(* register_run; a refused driver never starts, and its record stays.      *)
Register(g) ==
    /\ call[g] \in {"RegisteringLaunch", "RegisteringResume"}
    /\ IF g \in handle THEN UNCHANGED <<handle, driver>>
       ELSE /\ handle' = handle \cup {g}
            /\ driver' = [driver EXCEPT ![g] = [NoDriver EXCEPT !.at = "Top"]]
    /\ Calling(g, "Idle")
    /\ UNCHANGED <<nodes, graph, run>>

Park(g) ==
    /\ call[g] = "Idle" /\ run[g].status = "Running"
    /\ run' = [run EXCEPT ![g].status = "Parking"]
    /\ Calling(g, "Parking")
    /\ UNCHANGED <<nodes, graph, handle, driver>>

(* The handle leaves the registry and the driver is told to stop.          *)
ParkCancels(g) ==
    /\ call[g] = "Parking"
    /\ IF g \in handle
       THEN /\ handle' = handle \ {g}
            /\ Signal(g)
            /\ Calling(g, "Joining")
       ELSE Calling(g, "Idle") /\ UNCHANGED <<handle, driver>>
    /\ UNCHANGED <<nodes, graph, run>>

(* Mutation: reconciliation that forgets the records of the runs.          *)
ReconcileNodesOnly ==
    /\ nodes' = [n \in Nodes |-> IF nodes[n].status = "Running"
                   THEN [nodes[n] EXCEPT !.status = "Interrupted", !.held = FALSE]
                   ELSE nodes[n]]
    /\ UNCHANGED run

(* reconcile_work: of the whole session.                                   *)
Reconcile ==
    /\ nodes' = [n \in Nodes |-> IF nodes[n].status = "Running"
                   THEN [nodes[n] EXCEPT !.status = "Interrupted", !.held = FALSE]
                   ELSE nodes[n]]
    /\ run' = [g \in Graphs |-> IF run[g].status \in {"Running", "Parking"}
                 THEN [run[g] EXCEPT !.status = "Parked"] ELSE run[g]]

(* Mutation: park does not wait for the driver.                            *)
HasJoinedAnyway(g) == TRUE

HasJoined(g) == ~IsLive(g)

ParkReconciles(g) ==
    /\ call[g] = "Joining" /\ HasJoined(g)
    /\ Reconcile
    /\ Calling(g, "Reconciled")
    /\ UNCHANGED <<graph, handle, driver>>

ParkReturns(g) ==
    /\ call[g] = "Reconciled"
    /\ run' = [run EXCEPT ![g].status = "Parked"]
    /\ Calling(g, "Idle")
    /\ UNCHANGED <<nodes, graph, handle, driver>>

(* cancel_run of a live run: every open node and the graph, then the token.*)
Cancel(g) ==
    /\ call[g] = "Idle" /\ HasLiveRun(g)
    /\ Calling(g, "Cancelling")
    /\ UNCHANGED <<nodes, graph, run, handle, driver>>

(* Mutation: only the nodes that wait are cancelled.                       *)
IsWaiting(n) == nodes[n].status \in {"Pending", "Failed", "Blocked"}

IsCancellable(n) == nodes[n].status \in {"Pending", "Running", "Failed", "Blocked"}

CancelCommits(g) ==
    /\ call[g] = "Cancelling"
    /\ nodes' = [n \in Nodes |-> IF n \in NodesOf(g) /\ IsCancellable(n)
                   THEN [nodes[n] EXCEPT !.status = "Cancelled", !.held = FALSE] ELSE nodes[n]]
    /\ graph' = [graph EXCEPT ![g] = "Cancelled"]
    /\ Calling(g, "Signalling")
    /\ UNCHANGED <<run, handle, driver>>

CancelSignals(g) ==
    /\ call[g] = "Signalling"
    /\ Signal(g)
    /\ Calling(g, "Idle")
    /\ UNCHANGED <<nodes, graph, run, handle>>

(* wait_run on a run that has finished.                                    *)
Collect(g) ==
    /\ call[g] = "Idle" /\ g \in handle /\ driver[g].at = "Finished"
    /\ handle' = handle \ {g}
    /\ UNCHANGED <<nodes, graph, run, driver, call>>

CallStep(g) ==
    \/ LaunchCommits(g) \/ ResumeCommits(g) \/ Register(g)
    \/ ParkCancels(g) \/ ParkReconciles(g) \/ ParkReturns(g)
    \/ CancelCommits(g) \/ CancelSignals(g)

(* The owner works on a manual node itself: `task start`, `complete`,      *)
(* `fail`; and gives any node another chance: `task retry`.                *)
OwnerStarts(g, n) ==
    /\ call[g] = "Idle" /\ n \in NodesOf(g) \cap Manual /\ IsClaimable(n)
    /\ nodes' = [nodes EXCEPT ![n] = [status |-> "Running", used |-> Opened(n), held |-> FALSE]]
    /\ UNCHANGED <<graph, run, handle, driver, call>>

OwnerSettles(g, n) ==
    /\ call[g] = "Idle" /\ n \in NodesOf(g) \cap Manual
    /\ \E status \in {"Succeeded", "Failed"} :
          \/ nodes[n].status = "Running" /\ Settle(n, status, nodes[n].used)
          \/ IsClaimable(n) /\ Settle(n, status, Opened(n))
    /\ UNCHANGED <<graph, run, handle, driver, call>>

OwnerRetries(g, n) ==
    /\ call[g] = "Idle" /\ n \in NodesOf(g) /\ HasAttemptsLeft(n)
    /\ nodes[n].status \in {"Failed", "Interrupted", "Cancelled"}
    /\ RetryStopping \/ ~(driver[g].cancelled /\ IsLive(g))
    /\ nodes' = [nodes EXCEPT ![n].status = "Pending"]
    /\ UNCHANGED <<graph, run, handle, driver, call>>

(* `task close`, whatever the graph's nodes and its run are doing.         *)
OwnerCloses(g) ==
    /\ call[g] = "Idle"
    /\ \E status \in {"Completed", "Cancelled"} : graph' = [graph EXCEPT ![g] = status]
    /\ UNCHANGED <<nodes, run, handle, driver, call>>

OwnerStep(g) ==
    \/ OwnerCloses(g) \/ Launch(g) \/ Resume(g) \/ Park(g) \/ Cancel(g) \/ Collect(g)
    \/ \E n \in Nodes : OwnerStarts(g, n) \/ OwnerSettles(g, n) \/ OwnerRetries(g, n)

(* The process dies and the session is loaded again: what is durable is    *)
(* reconciled before anything runs.                                        *)
Restart ==
    /\ \E g \in Graphs : driver[g] # NoDriver \/ call[g] # "Idle"
    /\ Reconcile
    /\ handle' = {} /\ UNCHANGED graph
    /\ driver' = [g \in Graphs |-> NoDriver]
    /\ call' = [g \in Graphs |-> "Idle"]

Init ==
    /\ nodes = [n \in Nodes |-> [status |-> "Pending", used |-> 0, held |-> FALSE]]
    /\ graph = [g \in Graphs |-> "Active"] /\ handle = {}
    /\ run = [g \in Graphs |-> [status |-> "None", generation |-> 0]]
    /\ driver = [g \in Graphs |-> NoDriver]
    /\ call = [g \in Graphs |-> "Idle"]

Next ==
    \/ \E g \in Graphs : DriverStep(g) \/ ChildStep(g) \/ CallStep(g) \/ OwnerStep(g)
    \/ Restart

Spec == Init /\ [][Next]_vars

(* A driver and a call are tasks the runtime keeps polling, and a child's  *)
(* turn ends.  Nothing obliges an owner, and a process need not die.       *)
Fairness == \A g \in Graphs :
    WF_vars(DriverStep(g)) /\ WF_vars(ChildStep(g)) /\ WF_vars(CallStep(g))

FairSpec == Spec /\ Fairness
-----------------------------------------------------------------------------
(* The comment in cancel_run: "The driver can therefore never publish a    *)
(* cancelled report with live attempts".  A node held by a child is in the *)
(* wave of a driver that still works, or a park waits to interrupt it.     *)
NothingStranded ==
    \A n \in Nodes : nodes[n].held =>
        LET g == GraphOf[n] IN
        /\ nodes[n].status = "Running"
        /\ \/ n \in driver[g].wave /\ driver[g].at \in {"Claiming", "Spawned", "Waiting"}
           \/ call[g] = "Joining"

(* A record that reads Running has a registered driver that will conclude  *)
(* it, or a call that is about to register one: otherwise the graph could  *)
(* neither be launched nor resumed.                                        *)
RunningHasDriver ==
    \A g \in Graphs : run[g].status = "Running" =>
        \/ HasLiveRun(g) /\ driver[g].at # "Finishing"
        \/ call[g] \in {"RegisteringLaunch", "RegisteringResume"}

(* park acknowledges only after the driver and its attempts are at rest:   *)
(* nothing works on a graph whose run is recorded as parked.               *)
ParkedMeansQuiet ==
    \A g \in Graphs : run[g].status = "Parked" =>
        ~IsLive(g) /\ \A n \in NodesOf(g) : ~nodes[n].held

(* park_run "writes Parking before cancelling this future.  That fence     *)
(* must win over the driver's ordinary Cancelled conclusion": from Parking *)
(* a record goes nowhere but to Parked.                                    *)
FenceWins ==
    [][\A g \in Graphs : run[g].status = "Parking" => run'[g].status \in {"Parking", "Parked"}]_vars

(* Every driver concludes, whatever bounces its graph has, or the graph    *)
(* waits for work that the owner started itself.                           *)
DriversConclude ==
    \A g \in Graphs :
        IsLive(g) ~> ~IsLive(g) \/ \E n \in RunningIn(g) : ~nodes[n].held

(* Every call of an owner returns; park does, though it waits for the      *)
(* driver, and the driver may be waiting for children or for the owner.    *)
CallsReturn == \A g \in Graphs : call[g] # "Idle" ~> call[g] = "Idle"

(* The doc of park_run: "reconciliation records every abandoned assignment *)
(* as interrupted".  A child whose driver goes on was not abandoned.       *)
OnlyAbandonedIsInterrupted ==
    [][\A n \in Nodes :
          /\ nodes[n].held /\ driver[GraphOf[n]].at = "Waiting"
          /\ driver'[GraphOf[n]] = driver[GraphOf[n]]
          => nodes'[n].status # "Interrupted"]_vars
=============================================================================
