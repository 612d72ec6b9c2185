# A TLA+ verification of Firmius

Firmius is a Rust agent runtime: sessions hold agents that talk to language-model
providers, call tools, and organise longer work as *work graphs* whose nodes are handed to
child agents; a daemon holds many sessions and schedules goals over their agents.  This
directory models the part of it that decides who may work on what, and what is left behind
when something stops: the work graph, the runs that drive it, the swarm's claims and the
edits they govern, the commits and messages of a session, and the daemon's goals.

`PROJECT.json` maps every definition to the lines it models and lists the runs, the
hazards, the findings and the theorems.  Everything here was written from the source in
`src/`; the documents were used for the statements the code is expected to satisfy.

Run a check with `tlc -config <file>.cfg <module>` (run names, modules and files are in
`PROJECT.json`), a proof with `tlapm <module>Proofs.tla`.

## 1. The system

| component | state it keeps | operations | hard behaviour | what makes it correct | here |
|---|---|---|---|---|---|
| work graph transitions (`core/src/work/transition.rs`, `model.rs`) | nodes, attempts, results, manifests, assignments, bindings of agents, notifications | start, assign, reassign, settle, complete (batch), fail, block, unblock, cancel, retry, reconcile; feedback edges re-open settled work | operations of owner and workers in any order; hand-offs under a running worker; restarts | one running attempt per running node; results final; bindings, assignments and fences agree; stale verdicts are re-opened | `WorkGraph`, `WorkGraphProofs` |
| readiness (`work/readiness.rs`) | none | edge conditions, join policies, ready set | optional edges, quorums at their limits | a ready node stays justified by its predecessors | `Readiness` |
| managed run driver (`work/driver.rs`) | wave, launch budget, cancellation token | derive, spawn, claim, await, conclude | snapshot vs. claim; cancellation at every await; feedback without caps | concludes; leaves no attempt behind; never claims what is not ready | `ManagedRuns`, `ManagedRunsProofs` |
| run registry (`session.rs`), run part of the `task` tool (`tools/task.rs`) | handles by run, durable run records | launch, resume, park, cancel, wait, close | record vs. driver vs. handle; crash between commit and registration | record tells the truth; parked means at rest; calls return | `ManagedRuns`, `RunLife`, `ManagedRunsProofs` |
| wave scheduler (`work/scheduler.rs`) | none of its own | schedule_ready_work | a second claimer beside a driver | capacity, no double claim | planned |
| session commits and delivery (`session.rs`, `persistence.rs`) | work state in memory and on disk, mailboxes, outbox, event sequence | mutate_work, save, deliver, drain, load | persist before install, several writers of one record, crash between persist and delivery | what is visible was persisted; no commit is lost; deliver at least once and mark after | `SessionDelivery`, `SessionDeliveryProofs` |
| swarm coordination (`work/swarm.rs`, modes of the `task` tool) | policy, claims, coordination requests, transfers, fences | set policy, claim, release, request, respond, transfer, decide | an assignment ends under what is open; overlapping claims | exclusive claims; nothing open outlives its assignments | `Swarm`, fences also in `WorkGraph` |
| plan authoring (`transition.rs`: add_node, plan, add_edge, move_node) | topology | edit | cycles, aliases | acyclic dependencies, feedback aside | planned |
| agent loop (`agent.rs`) | trajectory, mailbox, wake tasks | prompt, wake, drain, roll back, interrupt | messages against a turn's end; a turn that fails half-way | no message is lost; no dangling tool call | turns and mailbox in `SessionDelivery` |
| delegates and tool registry (`tools/delegate.rs`, `tools/`) | background delegates | spawn, wait, collect | a result against a cancellation | a result is collected once | planned |
| goals, todos (`goal.rs`, `todo.rs`) | goal status, ledgers | revise, quarantine | stale revisions | one active goal | lifecycle in `GoalCoordinator` |
| edit coordination (`edit_coordination.rs`, `tools/edit.rs`) | leases on files, attempts, generations | prepare, acquire, validate, commit, park and notify | racing edits of one file, a failed write among several | no lost edit; failed edits undone | `SwarmEdits`, `SwarmEditsProofs` |
| permissions (`permissions/`) | requests, grants, policy revision | ask, decide, revalidate | a decision that arrives after the policy changed | nothing runs on a revoked grant | planned |
| retry, quota, compaction (`retry.rs`, `quota.rs`, `compaction*.rs`) | counters, a background job | back off, compact | a late compaction against new turns | nothing newer is dropped | planned |
| goal coordinator (`coordinator/`, `service/src/coordinator_store.rs`) | goals, runs, slots with generations, queue, dependency edges, outbox, claims of external executors | enqueue, activate, yield, complete, roll back, cancel, expire, reconcile | parking against completion; stale runs; restart | one holder of an agent; no lost wakeup; history is kept | `GoalCoordinator`, `AgentLeases`, proofs in `GoalCoordinatorProofs`, `GoalQueueProofs`, `AgentLeasesProofs` |
| daemon service (`service/src/runtime.rs`) | tasks of running turns, sessions, subscriptions | goal requests, hand-over, report, drain; sessions, framing | a late turn; a failed hand-over; a restart | a report ends its run; a queue drains | goals in `GoalDispatch`, `GoalDispatchProofs` |
| conflict messaging (`coordinator/`, `edit_coordination.rs`) | messages between sessions about edits | notify, acknowledge | duplicate delivery | told once | planned |
| client and protocol (`client/`, `protocol/`) | cursors, connections | attach, reconnect | reconnect with a gap | no event is skipped silently | planned |
| memory store (`memory/`) | candidates and facts | record, supersede | superseding chains | one current fact | planned |
| providers, hosts, MCP, configuration, personas, terminal UI, audits, scripts | - | I/O, text, presentation | - | - | not modelled: external I/O, text and layout |

**How they interact.**  Every change of work state is one *transaction*:
`Session::mutate_work` clones the state, applies the operation, validates, saves and
installs, under one lock.  Tool calls of agents, the driver's claims and a child's
settlement are separate transactions and interleave freely.  A managed run is a task that
is spawned by `task launch`, known to the session through a handle, and described by a
durable record; it shares nothing with the owner's calls but the state, the record and a
cancellation token.  An agent executes its tool calls one after the other
(`agent.rs`), so calls about one graph by its owner do not overlap, but calls of different
owners do.  The swarm's operations on a graph are transactions too; those of the `task`
tool and an edit of a file by an agent also take `lock_swarm_edits`, so that what an edit
has checked stays true while it writes.  All sessions of a daemon share one edit authority.
A settled assignment and a swarm message reach their addressee as input in its mailbox,
after the commit, and a wake task makes the agent take it up.  The daemon hands the run of a
goal to an agent as such input; a task of its own awaits the turn and reports to the
coordinator, whose aggregate is one lock and one file.

## 2. Modules

### WorkGraph

One graph and its agents.  `graph` holds nodes, attempts and assignments; `bindings` is
`active_binding_by_agent`; `fences` is the swarm's `assignment_fences`.  One action is one
`WorkState` operation: its guard is the operation's early returns, the primed state what it
assigns *including* what it calls (`fire_feedback_edges`, the release, the notification,
the fence).  `Next` refuses a candidate that does not validate, as `mutate_work` does;
`UncheckedSpec` leaves that last check out, so that a run can show that the operations do
not rely on it.

| code | here |
|---|---|
| `open_attempt`, `freeze_manifest` | `Claimable`, `OpenAttempt`, `FreezeManifest` |
| `assign`, `reassign` | `Assign`, `Reassign` (with `Bind`, `Activate`) |
| `settle_assignment` | `SettleAssignment` |
| `settle_node_in`, `complete`, `complete_many`, `fail` | `SettleNodeIn`, `Complete`, `CompleteBatch`, `Fail` |
| `fire_feedback_edges` | `FeedbackTargets`, `StaleResults`, `Reopened`, `FireFeedback` |
| `block`, `unblock`, `retry`, `cancel` | `Block`, `Unblock`, `Retry`, `Cancel` |
| `reconcile_interrupted` | `Reconcile` |
| `WorkState::validate`, `validate_swarm` | `Valid` |

Left out: topology edits, advisory file claims, revisions (a caller without
`expected_revision` matches always), text.  An id is a position: attempt *k* of node *n*.

### Readiness

The pure functions of `readiness.rs` as operators over a function from nodes to statuses.
An edge asks for a status; conditions on outcomes and verification levels are in
`WorkGraph!ConditionHolds`.

### ManagedRuns (extends Readiness)

The driver as a process with a program counter (`Top`, `Claiming`, `Spawned`, `Waiting`,
`Concluding`, `Finishing`, `Finished`): a step is what happens between two awaits or two
transactions of `drive_run_observed`.  `todo` is the snapshot of ready nodes, `wave` the
children it waits for, `launched` the spent budget, `cancelled` its token.  The owner's
call is a second process (`call`), with one step per transaction or lock: launch
(check, commit, register), resume (check, commit, register), park (fence, unregister and
signal, join and reconcile, publish), cancel (check, commit, signal).  `run` is the durable
record of the graph's latest run, `handle` the registry, `graph` the graph's status.
`Restart` drops what is not durable and reconciles.

| code | here |
|---|---|
| loop head of `drive_run_observed` | `DriverStops`, `DriverStartsWave`, `DriverFindsNothing`; polling is the stutter while others run |
| spawn and `claim` | `DriverSpawns`, `DriverClaims`, `DriverIsRefused`, `DriverIsCancelled` |
| the awaited wave, `settle_if_unsettled` | `ChildReports`, `ChildLeaves`, `DriverEndsWave` |
| durable conclusion | `RecordConclusion`, `DriverRecords`, `DriverFinishes` |
| `register_run`, `park_run`, `cancel_run`, `wait_run` | `Register`, `Park*`, `Cancel*`, `Collect` |
| `task launch`, `resume`, `close`, `start`, `complete`, `fail`, `retry` | `Launch*`, `Resume*`, `OwnerCloses`, `OwnerStarts`, `OwnerSettles`, `OwnerRetries` |
| load of a session | `Restart` |

Abstractions: a node is its status, the attempts it used when they are capped, and whether
a driver's child holds it (the rest is WorkGraph's).  Which settled dependents a bounce
re-opens depends on manifests, so `Settle` re-opens *any* set of them, which covers what
the code does.  Plans are launchable, saves succeed, an attempt left without its status by
`block` (see the finding below) does not occur, and of the owner's node operations only
start, complete, fail and retry are there.

### RunLife

The promise behind the records of a session's runs, for any number of them: `record` is the
latest `ManagedRunRecord` of each graph, `working` the graphs a driver works on.  A record is
opened (`Launch`, `Resume`) only while no driver works on its graph; a driver starts (`Start`) for
a record that was not concluded; only the driver at work concludes, and only what reads Running
(`Conclude`); it ends after the record left Running (`Stop`); a park writes its fence (`Fence`), and a
reconciliation, of a restart or of *any* run's park, parks every record that promised a driver
(`Reconcile`).  `ManagedRuns` implements it with `record <- run` and `working <-` the graphs with a
live driver.  That a foreign park may park the record of a run whose driver works on is part of
the promise, since the code does it (finding `two_runs`).

### SessionDelivery

One session and one recipient agent: how work is committed and how a message gets from a
commit, a peer or a client into a turn.  `live` is the session in memory, `disk` its file,
`tx` who holds `work_transaction`; `calls` are the threads that call into the session, `turn`
is what holds the agent's `busy` lock, `wakes` the spawned wake tasks.

| code | here |
|---|---|
| `mutate_work` up to the installed candidate | `Commit` |
| `deliver_pending_notifications` | `Deliver` (submit), `Mark` (a second candidate, saved and installed) |
| `drain_pending_swarm_outbox`, `deliver_correlated` | `Drain`, `Send`, `Submit`, `SentBegin`/`SentEnd` (the save), `Ack` |
| `submit_message_and_wake`, `deliver_existing` | `Input` |
| `save` | `SaveBegin` (snapshot under the lock), `SaveEnd` |
| `wake_mailbox`, `prompt_message`, `run_prompt` | `WakeStart`, `PromptStart`, `Head`, `Generate`, `ToolsDone`, `Stop`, `Leave`, `TurnFails` |
| the process dies; load | `Crash`, then the first caller delivers as `from_record` does, `Returns` wakes |

Messages are counted, not ordered.  An item is committed or sent once; goal-scoped messages,
compaction, rewinds and todos are left out.

### AgentLeases and GoalCoordinator

`AgentLeases` is the promise: an agent is leased to one run or reserved by one external
executor, a lease has a token never issued before, none outlives the daemon it was granted by.
`GoalCoordinator` is the aggregate of `coordinator.rs` in one variable `c`, one action for each
public mutation; a refused mutation is a stutter, and `validate_coordinator` is the invariant
`Consistent` instead of a guard.  The refinement maps the runs in a slot-holding state to
`leases`, the slot generations to `issued`, the occupancy claims to `reserved` and the daemon
epoch to `era`.

| code | here |
|---|---|
| `register`, `enqueue` (also with a parked parent) | `Register`, `Enqueue`, `EnqueueChild` |
| `activate`, `activate_next` with `select_next` | `Activate`, `ActivateNext`, `Selected` |
| `yield_run`, `submit_candidate` | `Yield`, `SubmitCandidate` |
| `complete` with `propagate_success`, `fail_dependents` | `CompleteSuccess`, `CompleteFailure` |
| `rollback_activation` | `Rollback` |
| `cancel` with its three policies, `settle_cancel` | `Cancel`, `SettleCancel` |
| `fence_expired`, `reconcile`, both over `interrupt_runs` | `FenceExpired`, `Reconcile` |
| `add_dependency_with_kind`, `would_cycle` | `AddDependency`, `WouldCycle` |
| `claim_occupancy`, `release_claim`, `acknowledge_outbox` | the same names |

Clocks become choices: any slot may be the expired one, and aging may let an entry pass a newer
one of a more urgent class.  Whether a goal's checks are met is a choice too.  Budgets, depth
limits, deadlines, replay of equal requests, milestones and messages are left out.

### GoalDispatch (extends GoalCoordinator)

The daemon in front of that aggregate.  A turn is a task (`dispatch_fenced_run_inner` and what it
awaits) with a stage: it dispatches, runs, records its step, judges, reports and drains.  Every
mutation takes the store's lock for itself, so any request may come between two steps; the
revision read before a rollback may be outdated at the rollback (`Undoing`, `Outdated`).  A report
is the mutation or, where its guard (`CanSucceed`, `CanFail`) does not hold, a refusal that the
task ignores.  The checks are read under one lock and the success is reported under the next;
`FailCheck` is a client's evaluation between the two (`Overruled`), other requests there commute
with the reading.
`Faults` are a hand-over that fails and a save that fails after its file was put in place.
Clients' requests are `Request`, `Promote`, `Tick` and `CreateDependency`, the last for each kind
of condition a client may name (success, the mere end of the prerequisite, an outcome).  Restart loses the
tasks and loads the coordinator through `Reconcile`.

### Swarm and SwarmEdits

`Swarm` is one graph's coordination: policy, assignment fences, claims, requests, transfers.
An action is one transaction; those of the `task` tool need the swarm lock (`editing = Free`),
`Activate` and `Close` do not, as in the code.

| code | here |
|---|---|
| `swarm_activate_assignment`, `swarm_close_assignment` | `Activate`, `Close`, `ClosesOpen` |
| `configure_swarm_policy` | `SetPolicy` |
| `register_resources`, `release_resources` | `Register`, `Release` |
| `request_coordination` with `bind_coordination_parties`, `settle_coordination_peer` | `Request`, `Respond` |
| `request_ownership_transfer`, `decide_ownership_transfer` | `RequestTransfer`, `Approve`, `Reject` |

`SwarmEdits` adds `apply_patch` of `edit.rs` as a process (`snapshot`, `capture`, `acquire`,
`parked`, `check`, `write`, `finish`) for editors inside the graph and of other sessions, the
authority of `edit_coordination.rs` (who holds which files, the generation of each), a failure
at every write, at publication and at commit, and a shell that writes whenever it likes.  A
file is its version number.  Undo and redo, artifacts and the leases between daemons are left
out; ends of things (settled, released, cancelled) are kept only as such.

## 3. Runs

| run | instance | distinct states | shows |
|---|---|---|---|
| `graph` | 2 nodes in a gate loop, owner and 2 workers, 2 attempts, 2 assignments per node | 67,574 | the eight invariants and `ResultsAreFinal` under every interleaving, without the validation of `mutate_work` |
| `feedback` | chain of 3, two bounce edges, owner and 1 worker | 121,265 | a bounce re-opens direct and indirect consumers |
| `runs` | one graph of 3 nodes (`work`, `gate`, the owner's `review`), both bounce the work; budget 3, one resume | 277,320 | safety and liveness of driver and calls under `FairSpec` |
| `goals` | 3 goals on 2 agents, edges both ways between two of them | 662,563 | `Consistent`, `NoLostWakeup`, `HistoryIsKept` |
| `leases` | 2 goals of 2 attempts and an external executor for one agent, a retry-safe goal behind an approval, one restart | 204,188 | the refinement `ImplementsLeases`, `OutboxIsCurrent`, `VerificationIsExclusive` |
| `dispatch` | 2 goals of one agent, one with 2 attempts, both faults, one restart | 694,491 | late turns are harmless, reports end runs, the queue drains |
| `session` | 2 callers; a notification, an outbox entry and an input; any one fault | 641,475 | commits are stored, deliveries kept, requests well formed, input is taken up |
| `swarm` | 2 agents, 3 assignments on 2 attempts, 2 files, an editor of the graph and one outside | 374,545 | claims and requests die with assignments; edits are serial, respected, undone, and end |
| `cancel`, `two_runs`, `parked`, `dependent` | | | one disagreement each, see 5 |

**Why these bounds.**  Two attempts and two assignments per node are what a hand-off, a
retry, a bounce and a stale writer need; a third adds no new relation between two of them,
and the theorems are about any number.  Two workers are what a hand-off needs; they are
symmetric.  Three nodes give indirect consumers.  In `runs`, three launches allow a first
wave, a second one on its results, and a bounce; a cap of 2 on `work` lets its cap be hit
between them; the uncapped gate is bounded by the budget only, as in the code; one resume
gives a second driver after a first (the generation is a counter and nothing else depends
on it).  The bounds `MaxNumber`, `MaxHandoffs` (WorkGraph) and `MaxGeneration`
(ManagedRuns) are ours; `Cap`, `MaxLaunched`, `MaxConcurrent` are the code's parameters.

In `goals`, two goals that share an agent can wait for each other only by yielding, and a third
on another agent is a second dependency that completes on its own; one attempt each suffices,
for what needs two (rollback, retry, an old run under a newer one) is what `leases` and
`dispatch` have.  In `session` two callers are what overlapping drains and a save against a
commit need; `MaxFaults = 1` puts one failed save, turn or crash at any point.  In `swarm`,
three claims are what a transfer needs beside a claim of each side, and `MaxUses` keeps a
behaviour to four of: claims, requests, transfers, writes of a shell, edits (which count
twice).  `MaxEpoch`, `NCallers`, `MaxFaults`, `MaxClaims`, `MaxRequests`, `MaxTransfers`,
`MaxEdits`, `MaxUses` and `MaxOutside` are ours; `MaxAttempts` is the code's.

**One graph in `runs`.**  The properties of `runs` are checked for one graph in a session.
With two live runs they are *not* all true: parking one run interrupts and parks the other
(finding `two_runs`), so `ParkedMeansQuiet` fails, and when that other run finishes and is
resumed while its finished handle is still registered, `register_run` refuses the new
driver and leaves a record that reads Running with nothing behind it, so `RunningHasDriver`
fails as well.

**RetryStopping.**  `retry` and `assign` do not look at the graph's status.  An owner that
cancels a run and retries one of its nodes before the cancelled driver has stopped can have
it claimed by that driver, which then drops the child.  TLC finds this (`NothingStranded`)
with `RetryStopping = TRUE`; it needs two tool calls inside one spawn-to-claim gap, so the
run assumes that owners do not.  The proof of the same property met a second way to it: a
bounce checks the cap of its target (`transition.rs:182`), not of the consumers it re-opens, so
an agent's node may be Pending and out of attempts.  If the driver derived it ready with a
sibling that it claims, and the owner closes the graph meanwhile, the refused claim of the
exhausted node ends the driver as cancelled and leaves the sibling's attempt held.  The
theorem names both conditions (`Prudent`); the instance satisfies them, as only the target of
its bounces has a cap.

**Fairness.**  `FairSpec` has weak fairness of each driver's steps, of the steps of its
children, and of the steps of a call that was made.  Drivers and calls are tokio tasks that
are polled until they finish, and a transaction ends; a child's turn ends with an answer or
an error (providers time out), which is an assumption about what is outside.  Nothing is
assumed of the owner: it may never make another call, may leave a manual node running
for ever, and may retry for ever; nothing forces a crash.  Weak fairness is enough since
a driver's step once enabled stays enabled or is replaced by another one of its steps.
`DriversConclude` therefore excuses a driver that polls because the owner's own node runs.

The same holds elsewhere.  In GoalDispatch each run's task has weak fairness, and clients,
who could tick the scheduler, have none: `QueueDrains` says what the daemon does by itself, and
its exceptions (`Disturbed`) are the situations in which it needs a client or an operator.  In
SwarmEdits each edit has weak fairness, nobody else.  In SessionDelivery a call that has begun has
strong fairness, since it waits for a mutex that others take and release (the standard
library's mutex wakes a waiter; it does not promise an order), turns and wake tasks weak.
Deadlock is not checked: a finished session stops.

## 4. What is proved

**`WorkGraphProofs`**, for every set of nodes and agents, every topology and every bound, under
the one assumption `"Running" \notin BlockFrom`:

* `Safety`: `UncheckedSpec => [](TypeOK /\ Valid /\ ExclusiveAttempt /\
  LiveAssignmentOwnsAttempt /\ StatusAgreesWithVerdict)`;
* `HandoffSafety`: `UncheckedSpec => [](LaterHandoffOutranks /\ ProducerHeldTheAttempt /\
  NotifiedOnce)`;
* `History`: `UncheckedSpec => ResultsAreFinal`;
* `CheckedSafety`, `CheckedTypes`, `CheckedAssignments`, `CheckedVerdicts`, `CheckedRanks`,
  `CheckedProducers`, `CheckedNotices`: the same for `Spec`, which implements `UncheckedSpec`;
* `CheckedBounces`: `Spec => BounceReachesConsumers`.

The assumption is needed: with callers that block a running node the invariants fail, and
the `cancel` run shows how.  It restricts the callers, not the code; `block` itself
accepts running nodes.

*Argument.*  None of these invariants is inductive: after a hand-off, for example,
`LiveAssignmentOwnsAttempt` says nothing of the attempts that do not run, so a later
settlement could not be shown to leave `ExclusiveAttempt` intact.  `Inv` has two parts.
`GraphInv(g)` is about a graph alone: its type, and node by node that the last attempt is the running one
(`Exclusive`), that what runs has no result (`RunningUnsettled`), that what was never
opened is blank (`UnopenedBlank`), that a live assignment and its attempt name each other
(`LiveOwns`, `RunningHeld`), and that the status comes from the latest result
(`VerdictAgrees`).  The other part ties bindings and fences to the live assignments.  An
operation is a composition of graph-to-graph helpers, so there is one *effect* lemma per
helper and one *keeps* lemma per operation built on them; a batch is two uses of the
lemma about one settlement, though the second works in what the first left behind.

The three properties of hand-offs have an invariant of their own on top of `Inv` (`Handed`):
assignments of an attempt are made in order (`InOrder`), for attempts that were opened
(`MadeForOpened`); an attempt names the last of its assignments (`NamesLast`), and that one names
the attempt's agent (`NamesHolder`); generations grow with them (`Ranked`).  `Steady(g, h)` says
that no hand-off lies between two graphs.  It is transitive and holds of every helper but
`OpenAttempt` with an assignment and `PassOn`, so only `Assign` and `Reassign` need an argument of
their own (`GivenKeepsHanded`), and only a settlement by assignment adds a notice
(`NoticeIsFirst`).

`BounceReachesConsumers` needs no invariant but an induction.  `StaleResults` takes as many
rounds as there are nodes.  Each round that changes something adds the latest result of a node,
and a node has one, so after that many rounds nothing is left to add (`StaleIsClosed`), in cyclic
graphs as well; then a settled consumer of a bounced result is among those that were re-opened
(`BounceReaches`).  That the recursive function is defined on its whole domain, and the count, are
shown by the least number for which they would fail (`LeastNumber`).  Between a settlement of one
node and one of a batch the count of `SettledNow` tells, and the other operations bounce nothing
(`Calm`).

**`ManagedRunsProofs`**, for any graphs, nodes, dependencies, bounces, caps and bounds:

* `ShapeHolds`, `TypesHold`: the invariant `Shape`, and `TypeOK`;
* `RunsKeepTheirLife`: `Spec => Life!Spec`, the refinement of `RunLife` (like the next four results it
  is proved, and no run states it);
* `ConclusionsStand`: a conclusion that a record carries is replaced by nothing but the next launch,
  which finds no driver at work;
* `TokensStopSpawning`: a driver that was told to stop stays told, spawns for no further node and
  launches at most the child it had already spawned;
* `DriversKeepWithinLimits`: what a driver has in hand (queued, spawned for, awaited) never exceeds
  `max_concurrent`; `RunsKeepWithinLimits`: `Prudent =>` nor do the nodes of a graph that children
  hold, over all the drivers the graph has had;
* `ConclusionsStrandNobody`, `CancelledRunsAreEmpty`: `Prudent => (Spec => []NothingStranded)`, and
  from the commit of `cancel_run` until its driver is at rest no node of the graph is open;
* `RunShapeHolds`, `RunningRecordsAreServed`, `ParkedRunsAreQuiet`, `FencesWin`:
  `OneRun => (Spec => ...)` for `RunningHasDriver`, `ParkedMeansQuiet` and `FenceWins`.

Both hypotheses are needed, not convenient.  `OneRun` (one graph per session) fails exactly where
the finding `two_runs` begins, and with two graphs TLC violates all three properties.  `Prudent` is
explained under RetryStopping above.  The refinement, the standing of conclusions, the token and the
limit of a driver need neither: they hold of every number of runs, and are what survives where
`RunShape` does not.

*Argument.*  `Shape` says that who holds a node runs it (`HeldRuns`), what a driver carries at each
place (`DriverShape`), and that a call about to start a driver, or that joined one, finds none
(`CallShape`).  `RunShape` says what each status of the record means for handle, driver and call.
`Careful` is `NothingStranded` with what makes it inductive: a pending node of an agent can be
claimed (`PendingMayRun`), a cancelled graph whose driver has not stopped has nothing left to run
(`StoppedIsEmpty`), and what a driver is about to claim is still pending unless it was cancelled
(`QueuedIsPending`).  One lemma per group of actions shows the three preserved together.

The refinement rests on `LifeShape`, which says of several runs what a foreign reconciliation cannot
break: a park that has not returned finds its fence or Parked, a call about to register a driver
finds Running or Parked, and a driver at its end finds a record that is not Running.  `Works` is what all
steps of a driver have in common (its place moves on, it spawns only untold, it takes nodes in hand
only with empty hands), and `NextHands` reduces every step to a driver that works, one that is left
alone but for its token, or one that is fresh; the token and the limits follow from it.  For what
children hold one needs besides that only claims put a child on a node (`OnlyClaimsHold`), that
they are in the wave of a driver in its loop (`HeldShape`), and that a new driver finds nothing held
(from `NothingStranded`): then what is held is part of what is in hand.

**`SessionDeliveryProofs`**, for any number of callers, items and faults: `InvariantHolds`,
`TypesHold`, `CommitsAreDurable`, `DeliveryIsAtLeastOnce`, `FaultsBoundTheCopies`,
`EntriesAndInputsOnce`, `RequestsAreWellFormed`.

*Argument.*  Durability rests on the work in memory being the work on disk at all times, while
every snapshot on its way to the file holds the live work: a save that was overtaken by a commit
cannot exist, as both hold `work_transaction`.  The number of copies of an item is counted over
every place it can be in (outbox in flight, mailbox, turn, history): a rollback of a turn
preserves it, history being what was kept plus the batch; a notification is submitted
once between its commit and its mark, and again only after a fault.  An entry is recorded as
received by one call before that call submits it, which is why it has one copy at most.


**`SwarmEditsProofs`**, for any agents, files, editors, claims and bounds:

* `SwarmIsValid`, `NothingIsOrphaned`: `ValidSwarm` and `NothingOutlives` always hold;
* `ClaimsAreRespected`, `EditsAreSerial`: so do `NoForeignWrite` and `NoLostUpdate`;
* `FailuresAreUndone`: every behaviour satisfies `FailedEditIsUndone`.

*Argument.*  The swarm's part, `TypeOK /\ ValidSwarm /\ NothingOutlives`, is inductive by
itself: what is open belongs to live assignments, so closing one finds all there is to close
(`ClosesOpenKeeps`).  The edits' properties are not.  `NoForeignWrite` holds for the whole of a
write because an editor of the graph that changes files has the swarm lock (`LockHeld`) and
claims then only end.  `NoLostUpdate` needs that two editors past `acquire` share no file
(`Reserved`), and `FailedEditIsUndone` that an edit that has not begun to write has written nothing
(`NothingDone`).  `IInv` is their conjunction (theorem `Inductive`); the shell is the one writer
none of this binds, which is why the properties except the files it `disturbed`.

**`AgentLeasesProofs`**, for any agents: `OneHolder` and `FreshTokens`.  They are about the
abstract specification, so with the refinement they say of the coordinator that an agent has one
holder and that an old token is never in force again.

**`GoalCoordinatorProofs`**, for any goals, agents, holders, targets, classes, dependencies and
bounds, assuming of them only that a goal's target is an agent, that there are finitely many
goals, that `Nobody` is neither a goal nor a holder, and that callers add the known kinds of edge
(`CoordinatorAssumption`):

* `CoordinatorImplementsLeases`: `Spec => ImplementsLeases`, the refinement;
* `CheckedOutbox`, `CheckedVerification`, `CheckedHistory`: `OutboxIsCurrent`,
  `VerificationIsExclusive` and `HistoryIsKept`;
* `CheckedSlots`, `CheckedStatuses`, `CheckedAssignments`, `NoCircularWait`: the conjuncts of
  `Consistent` other than the queue's, which `GoalQueueProofs` adds.

*Argument.*  `IInv` is a type (`Typed`) and what makes slots, runs, statuses, outbox,
assignments and edges agree (`Agrees`).  It adds to the checked invariants that only the newest
run of a goal can hold a slot, and that a waiting goal's newest run is a waiting one
(`GoalAgrees`); without that an operation on an old attempt could not be told from one on the
current one.  `Becomes(x, y, S)` says that x turns into an aggregate that agrees, that the agents in
S lose their leases and no other does, and that what ended is kept.  It composes (`Transitive`),
so each mutation is a chain of its parts: a run leaves its slot (`RunLeaves`), goals without a slot
move (`UnslottedGoalsMove`), edges settle.  Only `Activate` grants (`ActivateGrants`).  `NextKind`
says which abstract step each operation is, and `LeasesMove` that it is one.  That no circle
arises (`NoNewCycle`) is shown with the closed set that `WouldCycle` speaks of.

**`GoalQueueProofs`**, under the same assumption:

* `TypesHold`, `NothingToRefuse`: `TypeOK` and the whole of `Consistent`;
* `OnlyOverlookedEndsLoseAWakeup`: a goal parked on a child waits for something, or for the end
  of a goal that was overlooked;
* `NoWakeupIsLost`: `"terminal" \notin Kinds => (Spec => []NoLostWakeup)`.

*Argument.*  `QInv` is relative to `IInv`: the queue holds the queued goals, each once (`Queues`);
attempts fit their budget (`Fits`); a parked goal has an edge that keeps it (`Wakes`); open
edges are of kinds that somebody adds (`Wanted`).  `Carries` says that a change preserves these
four and composes as `Becomes` does.  That filtering the queue drops exactly the goals meant, and
repeats none, is an induction over sequences done with the least length that would fail.

The hypothesis of `NoWakeupIsLost` is needed.  A parent is parked on a child with an open edge
of condition "terminal" (a dependency added before the child was enqueued under it keeps its
kind).  The child is being cancelled when its slot expires or the daemon restarts;
`interrupt_runs` (`coordinator.rs:1413-1470`) makes it Cancelled without `cancel_dependents`, which
`settle_cancel` calls.  The edge stays open, is met, and the parent stays Waiting.  TLC shows it in
nine steps when `Kinds` has "terminal"; the instance of `goals` has outcome edges.

**`GoalDispatchProofs`**, for any goals, agents, requests and faults:

* `DaemonImplementsCoordinator`: `DaemonSpec => Spec`, so that everything above holds in the
  daemon; `DaemonStoreIsConsistent` states it for `Consistent` and `OutboxIsCurrent`;
* `CheckedTurns`, `CheckedLateTurns`: `TurnsOK` and `LateTurnIsHarmless`;
* `CheckedReports`: `ReportEndsRun`.

*Argument.*  Tasks are keyed by run: no two tasks are for one run and each is for a run that was
started (`Tasks`, `From`).  An activation, whether by a tick, a promotion or the draining of a task
that ended, adds a task for the attempt it opened, and no task is for an attempt that was not yet
there.  A report either is refused and changes nothing, or changes no other run and takes no
other goal from its work (`Spares`).  A refusal leaves no run open: an open run is the newest of an
active goal and holds the slot of its agent with its own generation (`OpenHolds`, from the
invariant of the coordinator), which is all that the guards ask but for what `ReportEndsRun`
excepts (`OpenRunsMayEnd`).  With ENABLED in place of the guards this had been out of reach; writing
them out showed that the check of `checks_satisfied` belongs to the guard and may have changed,
see section 5.

**Only model-checked**, and why.  Liveness under fairness, which this prover does not do:
`DriversConclude`, `CallsReturn`, `QueueDrains`, `QueuedIsTaken`, `EditsEnd`.  The statements that `cancel`,
`two_runs`, `parked` and `dependent` refute are false, so there is nothing to prove.

## 5. Where code and comments disagree

With a run that shows it:

* `cancel`: "a cancelled node can never leave a stranded running attempt or an open
  assignment behind".  `block` accepts a running node and leaves its attempt; `cancel`
  then takes the path of an idle node.
* `two_runs`: "every abandoned assignment" is every assignment of the session.
* `parked`: a run that yields "released its execution slot without terminating the goal".
  Its turn goes on, and the report at the end of it fails the parked goal.
* `dependent`: `create_dependency` passes prerequisite and dependent in the order in which
  the coordinator takes parent and child, and the parent is the one that waits.

Met while reading, without a run of their own:

* Work graph.  A holder's verdict through `complete` or `fail` releases the assignment without
  the notification the comment promises (`transition.rs:1518-1520`, `1580`).  A running consumer
  of a bounced result is not "invalidated when it settles" (`transition.rs:188-189`); its verdict
  stands.  "`claim` failing is exactly how that race is resolved" (`driver.rs:310-312`), but a
  claim does not look at predecessors, so it succeeds on a node whose input was just bounced.
  Park reports the interrupted attempts as resumable; one node on its last attempt makes every
  resume of the run fail, and the parked record refuses a launch (`task.rs:1398`, `1446`,
  `transition.rs:1934`).  None of start, complete, fail, block, cancel and retry accepts such a
  node either.
* Coordinator.  A condition on a child's end ("so Terminal and outcome predicates are not silently
  collapsed into success-only edges", `model.rs:160-161`) is met by a failed child when its
  parent is asked whether it is ready, but `fail_dependents` (`coordinator.rs:1564-1588`) fails
  every open edge and blocks the parent, so a Terminal edge never survives a failure.
  `activate_next` "returns `Ok(None)` when the agent is busy, gated, or idle"
  (`coordinator.rs:419-420`); a selected goal that awaits approval or has no attempt left is an
  error, and hides what is queued behind it.
* Daemon.  A turn's task reads `checks_satisfied` under one lock and reports the success under
  another (`runtime.rs:3976-3995`).  If a client's `check_goal` records a failing evaluation in
  between, the coordinator refuses (`ChecksNotSatisfied`), the task drops the error and ends: the
  run stays Open and its agent's slot taken, with nobody at work until a client completes or
  cancels it.  `ReportEndsRun` excepts this case.  No client or service code sends a `SchedulerTick`.  After a restart, goals that
  were queued again and pending outbox entries start nothing until a client acts.  A goal whose
  child is cancelled stays Waiting.  A wait for a verdict keeps the agent from every other goal.
  These are the exceptions of `QueueDrains`.
* Session.  "Acknowledgement means 'the durable mailbox accepted the message'"
  (`session.rs:403-404`).  `deliver_correlated` records the id before it submits the message: a
  save by another thread in between, and a crash, leave a record without its message, which the
  next drain takes for a duplicate and acknowledges.  The same happens, without a wake, after
  a failed save.  This is why `DeliveredIsKept` is about notifications and `CopiesAreBounded`
  only bounds from above.  A turn that fails
  restores the whole agent state (`agent.rs:1936`), todo ledger included, though
  `mutate_agent_todo` (`session.rs:778-784`) may have committed and published a newer one.
* Edits.  The comment of `emit_file_changes` says a failure to emit "must not undo the
  filesystem/artifact change" (`edit.rs:931-934`); its caller rolls back (`edit.rs:601-613`).  When
  the commit after it fails the files are restored though the change was published.  The undo
  record reads its "after" content when the lease is gone (`edit.rs:624`), so a later edit
  may enter it.  A rollback restores what was read before the comparison; if a file changed
  between the two reads an older content comes back, hence the premise of
  `FailedEditIsUndone`.
* Swarm.  A transfer of one of two overlapping claims is refused only by the validation of the
  result; one of a claim that was released can only be rejected; a party without an
  assignment, accepted under the advisory policy, may never answer.

## 6. Plan

Done: WorkGraph, Readiness, ManagedRuns, RunLife, SessionDelivery, AgentLeases, GoalCoordinator,
GoalDispatch, Swarm and SwarmEdits, with proofs of every safety property that their passing runs
check.  Next, in this order:

1. Should a park reconcile only its own run, `RunShape` for any number of runs and with it the
   theorems under `OneRun`; `RunLife` would lose its foreign `Reconcile`.
2. **Permissions**: requests and decisions against the policy revision they were taken under;
   **Delegates**: a background result, collected once.
3. The **wave scheduler** as a second claimer in ManagedRuns; **plan authoring**.
4. **Compaction** against new turns, undo and redo in SwarmEdits, todo in SessionDelivery.
5. **Client** reconnection and event cursors; conflict messages; the memory store.

## 7. Not modelled

Providers, kinds, hosts and MCP are I/O with other processes; configuration, personas, the
terminal interface, the CLI, audits and scripts are text, layout and start-up.  What the models
need of them (a turn ends, a write may fail) is an assumption stated with the fairness or a
fault.  Permissions, retry and quota, compaction, delegates, the wave scheduler, plan authoring,
client and protocol, conflict messaging and the memory store have state worth modelling and are
planned above.  Within modelled parts: advisory file claims and topology of the work graph,
revisions and idempotent replay, milestones, incidents and squads of the swarm, budgets and
deadlines of goals, event logs.
