---------------------------- MODULE SessionDelivery ----------------------------
(***************************************************************************)
(* How a session commits work and gets messages to an agent: mutate_work,   *)
(* the notifications and the swarm outbox delivered after a commit, direct  *)
(* sends, saves and reload of crates/core/src/session.rs,                   *)
(* with the mailbox and the turn loop of crates/core/src/agent.rs.          *)
(*                                                                          *)
(* live is the session in memory, disk its file.  There is one recipient    *)
(* agent, whose provider is configured.                                     *)
(*                                                                          *)
(* Abstractions.  An item is a message; its kind says how it is sent: a     *)
(* "note" is the WorkNotification of a settled assignment, an "entry" a     *)
(* swarm outbox entry, an "input" a client's or a peer's message.  Each is  *)
(* committed or sent once.  The order of messages is left out: mailbox and  *)
(* history count the copies of each.  Of the rest of the trajectory the     *)
(* model keeps whether it ends in tool calls without results.  Goal-scoped  *)
(* messages, compaction, rewinds, permissions and the todo ledger are left  *)
(* out.                                                                     *)
(***************************************************************************)
EXTENDS Naturals

CONSTANTS
    NCallers,   \* bound: calls into the session at a time
    Items, Kind,
    MaxFaults   \* bound: failed saves, failed or cancelled turns, crashes

ASSUME BoundsAreNats == NCallers \in Nat \ {0} /\ MaxFaults \in Nat
ASSUME KindOfItems == Kind \in [Items -> {"note", "entry", "input"}]

VARIABLES live, disk,
          tx,       \* who holds work_transaction
          calls,    \* what each caller is doing
          turn,     \* the turn that owns the agent
          wakes,    \* scheduled wake tasks
          loading,  \* the session is being rebuilt from its file
          asked,    \* inputs already sent
          faults,
          stranded  \* history: a fault may have left the mailbox without a wake

vars == <<live, disk, tx, calls, turn, wakes, loading, asked, faults, stranded>>

Callers  == 1..NCallers
Of(kind) == {i \in Items : Kind[i] = kind}
Free     == 0

\* A collection of messages, with duplicates.
Bag == [Items -> Nat]
Nothing == [i \in Items |-> 0]
Plus(b, d)   == [i \in Items |-> b[i] + d[i]]
PlusSet(b, S) == [i \in Items |-> IF i \in S THEN b[i] + 1 ELSE b[i]]

Session == [work: [Items -> {"none", "pending", "done"}], records: SUBSET Items,
            mailbox: Bag, history: Bag, dangling: BOOLEAN]

Blank == [work     |-> [i \in Items |-> "none"],
          records  |-> {},       \* message ids recorded by the session's mailbox
          mailbox  |-> Nothing,  \* of the agent
          history  |-> Nothing,  \* the messages in the agent's trajectory
          dangling |-> FALSE]    \* it ends in tool calls without results

IdleCall == [stage |-> "idle", set |-> {}, now |-> {}, sent |-> {}, snap |-> Blank]
Trajectory(x) == [history |-> x.history, dangling |-> x.dangling]
NoTurn == [kind |-> "none", stage |-> "none", keep |-> Trajectory(Blank),
           batch |-> Nothing]

TypeOK ==
  /\ live \in Session /\ disk \in Session
  /\ tx \in Callers \cup {Free}
  /\ calls \in [Callers -> [stage: {"idle", "deliver", "mark", "drain", "send",
                                    "submit", "sent", "sentsave", "save"},
                            set: SUBSET Items, now: SUBSET Items, sent: SUBSET Items,
                            snap: Session]]
  /\ turn \in [kind: {"none", "wake", "prompt"}, batch: Bag,
               keep: [history: Bag, dangling: BOOLEAN],
               stage: {"none", "head", "generate", "stopping", "tools", "leaving"}]
  /\ wakes \in Nat /\ loading \in BOOLEAN /\ stranded \in BOOLEAN
  /\ asked \subseteq Of("input") /\ faults \in 0..MaxFaults

Init == /\ live = Blank /\ disk = Blank /\ tx = Free
        /\ calls = [t \in Callers |-> IdleCall]
        /\ turn = NoTurn /\ wakes = 0 /\ loading = FALSE
        /\ asked = {} /\ faults = 0 /\ stranded = FALSE

Fault == faults < MaxFaults /\ faults' = faults + 1

\* A scheduled wake serves whatever the mailbox holds; while the session is
\* being rebuilt it has no handle to wake an agent with.
Wake == IF loading THEN UNCHANGED <<wakes, stranded>>
        ELSE wakes' = wakes + 1 /\ stranded' = FALSE
NoWake == UNCHANGED <<wakes, stranded>>

-----------------------------------------------------------------------------
(* The calls.                                                              *)

At(t, stage) == calls[t].stage = stage

\* Callers are alike: the next call is made by the first that is idle.
CanCall(t) == /\ ~loading /\ At(t, "idle")
              /\ \A u \in Callers : u < t => ~At(u, "idle")

Goes(t, stage) == calls' = [calls EXCEPT ![t].stage = stage]

\* into_handle wakes the agent once the reload is over.
Returns(t) == /\ calls' = [calls EXCEPT ![t] = IdleCall]
              /\ loading' = FALSE
              /\ wakes' = IF loading /\ live.mailbox # Nothing THEN wakes + 1 ELSE wakes
              /\ UNCHANGED stranded

\* A save of candidate that takes work_transaction, writes and installs: one
\* step, for what others do in between, they could as well do before or after.
\* A reload whose save fails is abandoned, which is a crash.
SaveFails == Fault /\ ~loading /\ UNCHANGED <<live, disk>>

Installs(candidate) == live' = candidate /\ disk' = candidate /\ UNCHANGED faults

WithWork(S, state) ==
  [live EXCEPT !.work = [i \in Items |-> IF i \in S THEN state ELSE @[i]]]

Pending(kind) == {i \in Of(kind) : live.work[i] = "pending"}

\* mutate_work: the operation on a candidate, which is saved and installed.  The
\* lock is kept until the notifications are delivered.
Commit(t, i) ==
  /\ CanCall(t) /\ tx = Free /\ Kind[i] # "input" /\ live.work[i] = "none"
  /\ \/ /\ Installs(WithWork({i}, "pending"))
        /\ tx' = t /\ Goes(t, "deliver")
     \/ SaveFails /\ UNCHANGED <<tx, calls>>
  /\ UNCHANGED <<turn, loading, asked>> /\ NoWake

\* deliver_pending_notifications: the pending notes are submitted, and only then
\* marked delivered in a candidate that is saved and installed.
Deliver(t) ==
  /\ At(t, "deliver")
  /\ live' = [live EXCEPT !.mailbox = PlusSet(@, Pending("note"))]
  /\ IF Pending("note") = {} THEN tx' = Free /\ Goes(t, "drain")
     ELSE /\ calls' = [calls EXCEPT ![t].set = Pending("note"), ![t].stage = "mark"]
          /\ UNCHANGED tx
  /\ UNCHANGED <<disk, turn, loading, asked, faults>> /\ NoWake

Mark(t) ==
  /\ At(t, "mark") /\ tx' = Free
  /\ calls' = [calls EXCEPT ![t].set = {}, ![t].stage = "drain"]
  /\ \/ Installs(WithWork(calls[t].set, "done")) /\ Wake
     \/ SaveFails /\ stranded' = TRUE /\ UNCHANGED wakes
  /\ UNCHANGED <<turn, loading, asked>>

\* drain_pending_swarm_outbox reads the pending entries under no lock.
Drain(t) ==
  /\ At(t, "drain")
  /\ IF Pending("entry") = {} THEN Returns(t)
     ELSE /\ calls' = [calls EXCEPT ![t].stage = "send", ![t].set = Pending("entry")]
          /\ NoWake /\ UNCHANGED loading
  /\ UNCHANGED <<live, disk, tx, turn, asked, faults>>

\* Mutant: the mailbox does not look for the message id among its records.
SendAgain(t, i) ==
  /\ At(t, "send") /\ i \in calls[t].set
  /\ live' = [live EXCEPT !.records = @ \cup {i}]
  /\ calls' = [calls EXCEPT ![t].set = @ \ {i}, ![t].stage = "submit", ![t].now = {i}]
  /\ UNCHANGED <<disk, tx, turn, loading, asked, faults>> /\ NoWake

\* deliver_correlated: a recorded id is a duplicate, and counts as delivered.
Send(t, i) ==
  /\ At(t, "send") /\ i \in calls[t].set
  /\ IF i \in live.records
     THEN /\ calls' = [calls EXCEPT ![t].set = @ \ {i}, ![t].sent = @ \cup {i}]
          /\ UNCHANGED live
     ELSE /\ live' = [live EXCEPT !.records = @ \cup {i}]
          /\ calls' = [calls EXCEPT ![t].set = @ \ {i}, ![t].stage = "submit",
                                    ![t].now = {i}]
  /\ UNCHANGED <<disk, tx, turn, loading, asked, faults>> /\ NoWake

Submit(t) ==
  /\ At(t, "submit") /\ Goes(t, "sent")
  /\ live' = [live EXCEPT !.mailbox = PlusSet(@, calls[t].now)]
  /\ UNCHANGED <<disk, tx, turn, loading, asked, faults>> /\ NoWake

\* Mutant: a save reads the work state before it takes the lock.
SnapshotsUnlocked(t, stage) ==
  /\ calls' = [calls EXCEPT ![t].stage = stage, ![t].snap = live]
  /\ UNCHANGED <<live, disk, tx, turn, loading, asked, faults>> /\ NoWake

\* save: the session is read, and then written, under work_transaction.
Snapshots(t, stage) ==
  /\ tx = Free /\ tx' = t
  /\ calls' = [calls EXCEPT ![t].stage = stage, ![t].snap = live]
  /\ UNCHANGED <<live, disk, turn, loading, asked, faults>> /\ NoWake

Writes(t) == disk' = calls[t].snap /\ UNCHANGED <<live, faults>>

Unlocks(t) == tx' = IF tx = t THEN Free ELSE tx

SentBegin(t) == At(t, "sent") /\ Snapshots(t, "sentsave")

SentEnd(t) ==
  /\ At(t, "sentsave") /\ Unlocks(t)
  /\ LET next == IF calls[t].now \subseteq Of("input") THEN "idle" ELSE "send"
         back == [calls[t] EXCEPT !.stage = next, !.now = {}, !.snap = Blank]
     IN \/ /\ Writes(t) /\ Wake
           /\ calls' = [calls EXCEPT ![t] = [back EXCEPT !.sent = @ \cup (calls[t].now \ Of("input"))]]
        \/ /\ SaveFails /\ stranded' = TRUE /\ UNCHANGED wakes
           /\ calls' = [calls EXCEPT ![t] = back]
  /\ UNCHANGED <<turn, loading, asked>>

\* What was delivered is acknowledged in a transaction of its own.
Ack(t) ==
  /\ At(t, "send") /\ calls[t].set = {} /\ Returns(t)
  /\ IF calls[t].sent = {} THEN UNCHANGED <<live, disk, faults>>
     ELSE tx = Free /\ (Installs(WithWork(calls[t].sent, "done")) \/ SaveFails)
  /\ UNCHANGED <<tx, turn, asked>>

\* deliver_existing and submit_message_and_wake: submit, save, wake.
Input(t, i) ==
  /\ CanCall(t) /\ Kind[i] = "input" /\ i \notin asked
  /\ asked' = asked \cup {i}
  /\ live' = [live EXCEPT !.mailbox = PlusSet(@, {i})]
  /\ calls' = [calls EXCEPT ![t].stage = "sent", ![t].now = {i}]
  /\ UNCHANGED <<disk, tx, turn, loading, faults>> /\ NoWake

\* save, which many operations of a session end with; one that would write what
\* the file holds is left out.
SaveBegin(t) == CanCall(t) /\ live # disk /\ Snapshots(t, "save")

SaveEnd(t) == /\ At(t, "save") /\ Unlocks(t)
              /\ Writes(t) \/ SaveFails
              /\ Returns(t) /\ UNCHANGED <<turn, asked>>

Begins(t) == (\E i \in Items : Commit(t, i) \/ Input(t, i)) \/ SaveBegin(t)

Continues(t) == \/ Deliver(t) \/ Mark(t) \/ Drain(t)
                \/ \E i \in Items : Send(t, i)
                \/ Submit(t) \/ SentBegin(t) \/ SentEnd(t) \/ Ack(t) \/ SaveEnd(t)

-----------------------------------------------------------------------------
(* The turns of the agent.                                                 *)

NewTurn(kind, keep) ==
  [kind |-> kind, stage |-> "head", keep |-> keep, batch |-> Nothing]

\* drain_mailbox_into_history, in one persistence_transaction.
Drained == [live EXCEPT !.history = Plus(@, live.mailbox), !.mailbox = Nothing]

\* Mutant: the turn goes on with the calls an earlier one left unanswered.
Unrepaired(x) == x

\* repair_dangling_tool_calls.
Repaired(x) == [x EXCEPT !.dangling = FALSE]

\* Mutant: a wake that finds the agent at work is over.
WakeIfIdle ==
  /\ wakes > 0 /\ ~loading /\ wakes' = wakes - 1
  /\ IF live.mailbox = Nothing \/ turn # NoTurn THEN UNCHANGED <<live, turn, stranded>>
     ELSE /\ turn' = NewTurn("wake", Trajectory(live)) /\ live' = Repaired(live)
          /\ stranded' = FALSE
  /\ UNCHANGED <<disk, tx, calls, loading, asked, faults>>

\* Mutant: a wake task runs again.
WakeAgain ==
  /\ turn = NoTurn /\ ~loading /\ wakes' = wakes - 1
  /\ IF live.mailbox = Nothing THEN UNCHANGED <<live, turn, stranded>>
     ELSE /\ turn' = NewTurn("wake", Trajectory(live)) /\ live' = Repaired(live)
          /\ stranded' = FALSE
  /\ UNCHANGED <<disk, tx, calls, loading, asked, faults>>

\* wake_mailbox: waits for the agent, and has nothing to do if another turn
\* consumed the mailbox.
WakeStart ==
  /\ wakes > 0 /\ turn = NoTurn /\ ~loading /\ wakes' = wakes - 1
  /\ IF live.mailbox = Nothing THEN UNCHANGED <<live, turn, stranded>>
     ELSE /\ turn' = NewTurn("wake", Trajectory(live)) /\ live' = Repaired(live) /\ stranded' = FALSE
  /\ UNCHANGED <<disk, tx, calls, loading, asked, faults>>

\* prompt_message with the agent idle; while it is busy the caller submits.
PromptStart(i) ==
  /\ turn = NoTurn /\ ~loading /\ Kind[i] = "input" /\ i \notin asked
  /\ asked' = asked \cup {i}
  /\ turn' = NewTurn("prompt", NoTurn.keep) /\ stranded' = FALSE
  /\ live' = [Repaired(live) EXCEPT !.mailbox = PlusSet(@, {i})]
  /\ UNCHANGED <<disk, tx, calls, wakes, loading, faults>>

Takes == /\ live' = Drained
         /\ turn' = [turn EXCEPT
              !.batch = IF turn.kind = "wake" THEN Plus(@, live.mailbox) ELSE @,
              !.stage = IF turn.stage = "head" THEN "generate" ELSE "head"]

Leaves == turn' = [turn EXCEPT !.stage = "leaving"] /\ UNCHANGED live

Head == turn.stage = "head" /\ Takes

\* What the provider produced is committed: a later failure of a wake's turn
\* rolls back to here.  A prompt never rolls back.
Commits(x, stage) ==
  /\ live' = x
  /\ turn' = [turn EXCEPT !.stage = stage, !.batch = Nothing,
                          !.keep = IF turn.kind = "wake" THEN Trajectory(x) ELSE @]

Generate == /\ turn.stage = "generate"
            /\ \/ Commits(live, "stopping")
               \/ Commits([live EXCEPT !.dangling = TRUE], "tools")

ToolsDone == turn.stage = "tools" /\ Commits([live EXCEPT !.dangling = FALSE], "head")

Stop == /\ turn.stage = "stopping"
        /\ IF live.mailbox = Nothing THEN Leaves ELSE Takes

\* The turn has looked at its mailbox for the last time and still has the agent.
Leave == turn.stage = "leaving" /\ turn' = NoTurn /\ UNCHANGED live

TurnGoesOn == /\ Head \/ Generate \/ ToolsDone \/ Stop \/ Leave
              /\ UNCHANGED <<disk, tx, calls, loading, asked, faults>> /\ NoWake

\* Mutant: the input of the failed turn is not put back.
RolledBackOnly == [live EXCEPT !.history = turn.keep.history,
                               !.dangling = turn.keep.dangling]

\* wake_mailbox: nobody would resubmit the input of a failed turn.
RolledBack == [live EXCEPT !.history = turn.keep.history,
                           !.dangling = turn.keep.dangling,
                           !.mailbox = Plus(turn.batch, @)]

\* The turn is cancelled, before a generation or a tool, or its generation fails.
TurnFails ==
  /\ turn.stage \in {"head", "generate", "tools"} /\ Fault /\ turn' = NoTurn
  /\ live' = IF turn.kind = "wake" THEN RolledBack ELSE live
  /\ stranded' = TRUE
  /\ UNCHANGED <<disk, tx, calls, wakes, loading, asked>>

\* The process dies; the session is rebuilt from its file by one caller, which
\* heals the trajectory and delivers what is still pending.
Crash ==
  /\ Fault
  /\ live' = Repaired(disk) /\ UNCHANGED <<disk, asked>>
  /\ tx' = 1
  /\ calls' = [t \in Callers |-> IF t = 1 THEN [IdleCall EXCEPT !.stage = "deliver"]
                                ELSE IdleCall]
  /\ turn' = NoTurn /\ wakes' = 0 /\ loading' = TRUE /\ stranded' = FALSE

Next == \/ \E t \in Callers : Begins(t) \/ Continues(t)
        \/ WakeStart \/ \E i \in Items : PromptStart(i)
        \/ TurnGoesOn \/ TurnFails \/ Crash

Spec == Init /\ [][Next]_vars

\* Threads run, a mutex does not starve a waiter, a turn ends (the provider
\* answers, fails or times out) and the runtime polls the tasks it spawned.
Fairness == /\ \A t \in Callers : SF_vars(Continues(t))
            /\ WF_vars(TurnGoesOn) /\ WF_vars(WakeStart)

FairSpec == Spec /\ Fairness

-----------------------------------------------------------------------------

Copies(x, i) == x.mailbox[i] + x.history[i]

(* A commit is durable when it becomes visible: between saves, the work     *)
(* state in memory is the one on disk.  No save of an older snapshot, by    *)
(* whichever thread, replaces what mutate_work, a delivery or an            *)
(* acknowledgement has written.                                             *)
CommittedIsStored == tx = Free => live.work = disk.work

(* At least once: a notification marked delivered is in the agent's mailbox *)
(* or trajectory, in memory and in the file, whatever saves failed, turns   *)
(* were rolled back and crashes hit on the way.                             *)
DeliveredIsKept == \A i \in Of("note") :
  \A x \in {live, disk} : x.work[i] = "done" => Copies(x, i) > 0

(* An outbox entry that is pending or acknowledged reaches its recipient    *)
(* once however many drains overlap, and no message of any kind is          *)
(* multiplied but by a fault, one copy for each.                            *)
CopiesAreBounded == \A i \in Items : Copies(live, i) <= 1 + faults

(* Every request sent to the provider is well formed: no earlier turn that  *)
(* was cancelled, rolled back or cut off by a crash among its tool calls    *)
(* has left one without its result.                                         *)
RequestIsWellFormed == turn.stage = "generate" => ~live.dangling

(* No lost wakeup: input put in the mailbox at any moment, also while a     *)
(* turn is about to stop, is taken up by a turn without further input; only *)
(* a fault leaves it waiting.                                               *)
QueuedIsTaken == live.mailbox # Nothing ~> live.mailbox = Nothing \/ stranded
=============================================================================
