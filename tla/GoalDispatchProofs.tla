------------------------- MODULE GoalDispatchProofs -------------------------
(***************************************************************************)
(* The daemon around the goal coordinator, for any goals, agents and       *)
(* faults: each of its steps is a mutation of the coordinator or leaves    *)
(* the aggregate alone, so that all that is proved of the coordinator      *)
(* holds in the daemon; every run has one task at most; and the report of  *)
(* a turn ends its run, unless a dependent cannot be blocked or a check    *)
(* was evaluated again, and touches no other run.                          *)
(***************************************************************************)
EXTENDS GoalDispatch, GoalQueueProofs

-----------------------------------------------------------------------------
(* Sets of tasks.                                                          *)

Task == [goal: Goals, attempt: Nat \ {0}, stage: Stages]

SameRun(t, u) == t.goal = u.goal /\ t.attempt = u.attempt

\* No two tasks of T are for one run.
Tasks(T) == /\ T \subseteq Task
            /\ \A t, u \in T : SameRun(t, u) => t = u

\* Every task of U is for a run that a task of T is for.
From(T, U) == \A u \in U : \E t \in T : SameRun(t, u)

Staged(t, stage) == [t EXCEPT !.stage = stage]

\* A task that moves on stays the task of its run.
LEMMA StagedIsTask ==
  ASSUME NEW t \in Task, NEW stage \in Stages
  PROVE  /\ Staged(t, stage) \in Task /\ SameRun(t, Staged(t, stage))
         /\ Staged(t, stage).stage = stage
BY DEF Task, Staged, SameRun

\* Outdating keeps tasks apart, and puts none into the last stage.
LEMMA OutdateKeepsTasks ==
  ASSUME NEW T, Tasks(T)
  PROVE  /\ Tasks(Outdate(T)) /\ From(T, Outdate(T))
         /\ \A u \in Outdate(T) : u.stage = "Draining" => u \in T
<1> DEFINE next(t) == IF t.stage = "Undoing" THEN Staged(t, "Outdated") ELSE t
<1>1. Outdate(T) = {next(t) : t \in T}
  BY DEF Outdate, Staged
<1>2. ASSUME NEW t \in T
      PROVE  next(t) \in Task /\ SameRun(t, next(t)) /\ (next(t).stage = "Draining" => next(t) = t)
  <2>1. t \in Task /\ "Outdated" \in Stages
    BY DEF Tasks, Stages
  <2>2. /\ Staged(t, "Outdated") \in Task /\ SameRun(t, Staged(t, "Outdated"))
        /\ Staged(t, "Outdated").stage = "Outdated"
    BY <2>1, StagedIsTask
  <2> QED BY <2>1, <2>2 DEF SameRun
<1> HIDE DEF next
<1>3. \A u, v \in Outdate(T) : SameRun(u, v) => u = v
  <2> SUFFICES ASSUME NEW t \in T, NEW s \in T, SameRun(next(t), next(s)) PROVE next(t) = next(s)
    BY <1>1
  <2>1. SameRun(t, s)
    BY <1>2 DEF SameRun
  <2> QED BY <2>1 DEF Tasks
<1> QED BY <1>1, <1>2, <1>3 DEF Tasks, From

\* One task moves on, whatever becomes of the others.
LEMMA MovingKeepsTasks ==
  ASSUME NEW T, Tasks(T), NEW t \in T, NEW stage \in Stages,
         NEW U, Tasks(U), From(T \ {t}, U)
  PROVE  /\ Tasks(U \cup {Staged(t, stage)}) /\ From(T, U \cup {Staged(t, stage)})
<1>1. t \in Task
  BY DEF Tasks
<1>2. Staged(t, stage) \in Task /\ SameRun(t, Staged(t, stage))
  BY <1>1, StagedIsTask
<1> DEFINE n == Staged(t, stage)
<1> HIDE DEF n
<1>3. ASSUME NEW u \in U PROVE ~SameRun(u, n)
  <2>1. PICK s \in T \ {t} : SameRun(s, u)
    BY DEF From
  <2> QED BY <1>2, <2>1 DEF Tasks, SameRun, n
<1>4. Tasks(U \cup {n})
  BY <1>2, <1>3 DEF Tasks, SameRun, n
<1>5. From(T, U \cup {n})
  BY <1>2 DEF From, n
<1> QED BY <1>4, <1>5 DEF n

\* Fewer tasks are tasks.
LEMMA FewerTasks ==
  ASSUME NEW T, Tasks(T), NEW U \in SUBSET T
  PROVE  Tasks(U) /\ From(T, U)
BY DEF Tasks, From, SameRun

\* The refusal of a mutation may be ignored.
LEMMA TriesKeepsTasks ==
  ASSUME Tasks(turns), NEW t \in turns, NEW stage \in Stages,
         \/ turns' = Outdate(turns \ {t}) \cup {Staged(t, stage)}
         \/ turns' = (turns \ {t}) \cup {Staged(t, stage)}
  PROVE  /\ Tasks(turns') /\ From(turns, turns')
         /\ \A u \in turns' : u.stage = "Draining" => u \in turns \/ u = Staged(t, stage)
<1>1. Tasks(turns \ {t}) /\ From(turns \ {t}, turns \ {t})
  BY FewerTasks DEF From, SameRun
<1>2. /\ Tasks(Outdate(turns \ {t})) /\ From(turns \ {t}, Outdate(turns \ {t}))
      /\ \A u \in Outdate(turns \ {t}) : u.stage = "Draining" => u \in turns \ {t}
  BY <1>1, OutdateKeepsTasks
<1>3. CASE turns' = Outdate(turns \ {t}) \cup {Staged(t, stage)}
  <2>1. /\ Tasks(Outdate(turns \ {t}) \cup {Staged(t, stage)})
        /\ From(turns, Outdate(turns \ {t}) \cup {Staged(t, stage)})
    BY <1>2, MovingKeepsTasks
  <2> QED BY <1>2, <1>3, <2>1
<1>4. CASE turns' = (turns \ {t}) \cup {Staged(t, stage)}
  <2>1. /\ Tasks((turns \ {t}) \cup {Staged(t, stage)})
        /\ From(turns, (turns \ {t}) \cup {Staged(t, stage)})
    BY <1>1, MovingKeepsTasks
  <2> QED BY <1>4, <2>1
<1> QED BY <1>3, <1>4

\* A task is started for a run that has none.
LEMMA StartingKeepsTasks ==
  ASSUME NEW U, Tasks(U), NEW g \in Goals, NEW k \in Nat \ {0},
         \A u \in U : ~(u.goal = g /\ u.attempt = k)
  PROVE  Tasks(U \cup {Turn(g, k, "Running")})
<1>1. /\ Turn(g, k, "Running") \in Task
      /\ Turn(g, k, "Running").goal = g /\ Turn(g, k, "Running").attempt = k
  BY DEF Turn, Task, Stages
<1> QED BY <1>1 DEF Tasks, SameRun

-----------------------------------------------------------------------------
(* What a report touches.                                                  *)

\* From x to y no other run than k of g changes, no other goal leaves its work.
Spares(x, y, g, k) ==
  /\ \A h \in Goals : /\ Attempts(y, h) = Attempts(x, h)
                      /\ \A j \in Attempts(x, h) :
                           h # g \/ j # k => y.runs[h][j] = x.runs[h][j]
  /\ \A h \in Goals : h # g /\ x.status[h] = "Active" => y.status[h] = "Active"

\* The runs stay and no goal but g leaves its work.
Defers(x, y, g) ==
  /\ y.runs = x.runs
  /\ \A h \in Goals : h # g /\ x.status[h] = "Active" => y.status[h] = "Active"

LEMMA SparesOn ==
  ASSUME NEW x, NEW y, NEW z, NEW g \in Goals, NEW k \in Attempts(x, g),
         Spares(x, y, g, k), Defers(y, z, g)
  PROVE  Spares(x, z, g, k) /\ z.runs[g][k] = y.runs[g][k]
BY DEF Spares, Defers, Attempts

\* A run ends, and whoever was asked to start it is not asked any more.
LEMMA EndingSpares ==
  ASSUME NEW x, Typed(x), Agrees(x), NEW g \in Goals, NEW k \in Attempts(x, g),
         NEW state \in {"Succeeded", "Failed"}, NEW outcome \in {"none", "approved", "other"},
         NEW v, v = EndRun(Detached(x, g, k), g, k, state, outcome)
  PROVE  /\ Typed(v) /\ v.status = x.status /\ v.edges = x.edges /\ v.live = x.live
         /\ Spares(x, v, g, k)
         /\ v.runs[g][k].state = state
<1> DEFINE u == Detached(x, g, k)
<1>1. /\ Typed(u) /\ u.runs = x.runs /\ u.status = x.status
      /\ u.edges = x.edges /\ u.live = x.live
  <2>1. CASE x.runs[g][k].state = "Open"
    <3> DEFINE w == SupersedeDispatch(ReleaseSlot(x, g), g, k)
    <3>1. u = w
      BY <2>1 DEF Detached
    <3>2. Typed(w) /\ Only(x, w, {"slots", "outbox"})
      BY <2>1, DetachEffect
    <3> HIDE DEF w, u
    <3> QED BY <3>1, <3>2 DEF Only, Fields
  <2>2. CASE x.runs[g][k].state # "Open"
    BY <2>2 DEF Detached
  <2> QED BY <2>1, <2>2
<1>2. v = EndRun(u, g, k, state, outcome)
  OBVIOUS
<1> HIDE DEF u
<1>3. k \in Attempts(u, g) /\ state \in Holding \cup {"Waiting"} \cup RunOver
  BY <1>1 DEF Attempts, RunOver, Ended
<1>4. Typed(v) /\ Only(u, v, {"runs"}) /\ RunMoves(u, v, g, k, state)
  BY <1>1, <1>2, <1>3, EndRunEffect
<1>5. v.status = x.status /\ v.edges = x.edges /\ v.live = x.live
  BY <1>1, <1>4 DEF Only, Fields
<1>6. PICK r \in Run : r.state = state /\ RunBecomes(u, v, g, k, r)
  BY <1>4 DEF RunMoves
<1>7. \A h \in Goals :
        /\ Attempts(v, h) = Attempts(x, h)
        /\ \A j \in Attempts(x, h) : v.runs[h][j] = IF h = g /\ j = k THEN r ELSE x.runs[h][j]
  BY <1>1, <1>6 DEF RunBecomes, Attempts
<1> QED BY <1>4, <1>5, <1>6, <1>7 DEF Spares

LEMMA CloseDefers ==
  ASSUME NEW x, Typed(x), NEW g \in Goals, NEW status \in Statuses
  PROVE  Typed(Close(x, g, status)) /\ Defers(x, Close(x, g, status), g)
<1> DEFINE y == Close(x, g, status)
<1>1. /\ Typed(y) /\ Only(x, y, {"status", "live"})
      /\ y.status = [x.status EXCEPT ![g] = status]
  BY CloseEffect
<1> HIDE DEF y
<1>2. y.runs = x.runs /\ \A h \in Goals : h # g => y.status[h] = x.status[h]
  BY <1>1 DEF Only, Fields, Typed
<1> QED BY <1>1, <1>2 DEF Defers, y

LEMMA SettleEdgesDefers ==
  ASSUME NEW x, Typed(x), NEW E, NEW verdict \in Settled, NEW g \in Goals
  PROVE  Typed(SettleEdges(x, E, verdict)) /\ Defers(x, SettleEdges(x, E, verdict), g)
<1> DEFINE y == SettleEdges(x, E, verdict)
<1>1. Typed(y) /\ Only(x, y, {"edges"})
  BY SettleEdgesEffect
<1> HIDE DEF y
<1>2. y.runs = x.runs /\ y.status = x.status
  BY <1>1 DEF Only, Fields
<1> QED BY <1>1, <1>2 DEF Defers, y

\* Goals that do not execute are queued.
LEMMA RequeueAllDefers ==
  ASSUME NEW x, Typed(x), NEW order, \A h \in Range(order) : x.status[h] # "Active",
         NEW g \in Goals
  PROVE  Defers(x, RequeueAll(x, order), g)
<1> DEFINE y == RequeueAll(x, order)
<1>1. /\ Only(x, y, {"status", "queue"})
      /\ y.status = [h \in Goals |-> IF h \in Range(order) THEN "Queued" ELSE x.status[h]]
  BY RequeueAllEffect
<1> HIDE DEF y
<1>2. y.runs = x.runs /\ \A h \in Goals \ Range(order) : y.status[h] = x.status[h]
  BY <1>1 DEF Only, Fields
<1> QED BY <1>2 DEF Defers, y

LEMMA RequeueDefers ==
  ASSUME NEW x, Typed(x), NEW g \in Goals
  PROVE  Defers(x, Requeue(x, g), g)
<1> DEFINE y == Requeue(x, g)
<1>1. /\ Only(x, y, {"status", "queue"})
      /\ y.status = [x.status EXCEPT ![g] = "Queued"]
  BY RequeueEffect
<1> HIDE DEF y
<1>2. y.runs = x.runs /\ \A h \in Goals : h # g => y.status[h] = x.status[h]
  BY <1>1 DEF Only, Fields, Typed
<1> QED BY <1>2 DEF Defers, y

\* Only parents that do not execute are blocked.
LEMMA FailDependentsDefers ==
  ASSUME NEW x, Typed(x), NEW g \in Goals
  PROVE  Defers(x, FailDependents(x, g), g)
<1> DEFINE B == Blockable(x, g)
           y == [x EXCEPT !.status = [p \in Goals |-> IF p \in B THEN "Blocked" ELSE @[p]],
                          !.queue = Without(@, B)]
<1>1. /\ Only(x, y, {"status", "queue"})
      /\ y.status = [p \in Goals |-> IF p \in B THEN "Blocked" ELSE x.status[p]]
  BY DEF Typed, Record, Fields, Only
<1>2. FailDependents(x, g) = SettleEdges(y, Goals \X {g}, "Failed")
  BY DEF FailDependents
<1>3. \A p \in B : x.status[p] # "Active"
  BY DEF Blockable
<1> HIDE DEF B, y
<1>4. Record(y) /\ y.runs = x.runs /\ y.slots = x.slots /\ y.generations = x.generations
      /\ y.claims = x.claims /\ y.epoch = x.epoch /\ y.outbox = x.outbox
      /\ y.edges = x.edges /\ y.live = x.live
  BY <1>1 DEF Only, Fields
<1>5. y.status \in [Goals -> Statuses]
  BY <1>1 DEF Typed, Statuses
<1>6. Typed(y)
  BY <1>4, <1>5 DEF Typed
<1>7. Defers(x, y, g)
  BY <1>1, <1>3, <1>4 DEF Defers
<1>8. Defers(y, FailDependents(x, g), g)
  BY <1>2, <1>6, SettleEdgesDefers DEF Settled
<1> QED BY <1>7, <1>8 DEF Defers

\* A reported success ends its run and touches no other.
LEMMA SuccessSpares ==
  ASSUME IInv, NEW g \in Goals, NEW k \in Attempts(c, g), CompleteSuccess(g, k, "other")
  PROVE  Spares(c, c', g, k) /\ c'.runs[g][k].state = "Succeeded"
<1> DEFINE over == EndRun(Detached(c, g, k), g, k, "Succeeded", "other")
           ended == Close(over, g, "Succeeded")
           P == SatisfiedBy(ended, g, "other")
           told == SettleEdges(ended, P \X {g}, "Satisfied")
<1>1. PICK order \in SetToSeqs(Woken(told, P)) : c' = RequeueAll(told, order)
  BY DEF CompleteSuccess
<1>2. Range(order) \subseteq Woken(told, P)
  BY DEF SetToSeqs, Range
<1>3. \A h \in Range(order) : told.status[h] # "Active"
  BY <1>2 DEF Woken
<1>4. over = EndRun(Detached(c, g, k), g, k, "Succeeded", "other")
  OBVIOUS
<1>5. told = SettleEdges(ended, P \X {g}, "Satisfied") /\ ended = Close(over, g, "Succeeded")
  OBVIOUS
<1> HIDE DEF over, ended, P, told
<1>6. Typed(c) /\ Agrees(c)
  BY DEF IInv
<1>7. Typed(over) /\ Spares(c, over, g, k) /\ over.runs[g][k].state = "Succeeded"
  BY <1>4, <1>6, EndingSpares
<1>8. Typed(ended) /\ Defers(over, ended, g)
  BY <1>5, <1>7, CloseDefers DEF Statuses, Ended
<1>9. Typed(told) /\ Defers(ended, told, g)
  BY <1>5, <1>8, SettleEdgesDefers DEF Settled
<1>10. Defers(told, c', g)
  BY <1>1, <1>3, <1>9, RequeueAllDefers
<1>11. Defers(over, c', g)
  BY <1>8, <1>9, <1>10 DEF Defers
<1> QED BY <1>7, <1>11, SparesOn

\* A reported failure ends its run and touches no other.
LEMMA FailureSpares ==
  ASSUME IInv, NEW g \in Goals, NEW k \in Attempts(c, g), NEW retry \in BOOLEAN,
         CompleteFailure(g, k, retry)
  PROVE  Spares(c, c', g, k) /\ c'.runs[g][k].state = "Failed"
<1> DEFINE over == EndRun(Detached(c, g, k), g, k, "Failed", "other")
<1>1. \/ c' = Requeue(over, g)
      \/ c' = FailDependents(Close(over, g, "Failed"), g)
  BY DEF CompleteFailure, Failed
<1>2. over = EndRun(Detached(c, g, k), g, k, "Failed", "other")
  OBVIOUS
<1> HIDE DEF over
<1>3. Typed(c) /\ Agrees(c)
  BY DEF IInv
<1>4. Typed(over) /\ Spares(c, over, g, k) /\ over.runs[g][k].state = "Failed"
  BY <1>2, <1>3, EndingSpares
<1>5. Defers(over, c', g)
  <2>1. CASE c' = Requeue(over, g)
    BY <1>4, <2>1, RequeueDefers
  <2>2. CASE c' = FailDependents(Close(over, g, "Failed"), g)
    <3>1. Typed(Close(over, g, "Failed")) /\ Defers(over, Close(over, g, "Failed"), g)
      BY <1>4, CloseDefers DEF Statuses, Ended
    <3>2. Defers(Close(over, g, "Failed"), c', g)
      BY <2>2, <3>1, FailDependentsDefers
    <3> QED BY <3>1, <3>2 DEF Defers
  <2> QED BY <1>1, <2>1, <2>2
<1> QED BY <1>4, <1>5, SparesOn

-----------------------------------------------------------------------------
(* The steps of the daemon.                                                *)

\* The tasks, of runs that were started.
Started(x, T) == Tasks(T) /\ \A t \in T : t.goal \in Goals /\ t.attempt \in Attempts(x, t.goal)

LEMMA TurnsAreStarted == TurnsOK <=> Started(c, turns)
BY DEF TurnsOK, Started, Tasks, Task, SameRun

\* Runs are not forgotten, so tasks of them are tasks of runs.
LEMMA StillStarted ==
  ASSUME NEW x, NEW y, NEW T, Started(x, T), Kept(x, y), NEW U, Tasks(U), From(T, U)
  PROVE  Started(y, U)
<1> SUFFICES ASSUME NEW u \in U PROVE u.goal \in Goals /\ u.attempt \in Attempts(y, u.goal)
  BY DEF Started
<1>1. PICK t \in T : SameRun(t, u)
  BY DEF From
<1>2. u.goal \in Goals /\ u.attempt \in Attempts(x, u.goal)
  BY <1>1 DEF SameRun, Started
<1> QED BY <1>2 DEF Kept

\* A task step is an operation on a run, an activation, or no mutation.
LEMMA TaskMutates ==
  ASSUME TurnsOK, NEW t \in turns, TaskStep(t)
  PROVE  Next \/ UNCHANGED c
<1>1. t.goal \in Goals /\ t.attempt \in Attempts(c, t.goal)
  BY TurnsAreStarted DEF Started
<1>2. \/ UNCHANGED c
      \/ Rollback(t.goal, t.attempt)
      \/ CompleteSuccess(t.goal, t.attempt, "other")
      \/ \E retry \in BOOLEAN : CompleteFailure(t.goal, t.attempt, retry)
      \/ \E g \in Selected(c, Target[t.goal]) : Activate(g)
  <2>1. CASE DispatchFails(t) \/ GiveUp(t) \/ RecordStep(t) \/ IsOverruled(t)
    BY <2>1 DEF DispatchFails, GiveUp, RecordStep, IsOverruled
  <2>2. CASE Undo(t)
    BY <2>2 DEF Undo
  <2>3. CASE ReportError(t)
    BY <2>3 DEF ReportError, ReportsFailure, Tries
  <2>4. CASE Judge(t)
    BY <2>4 DEF Judge, ReportsSuccess, ReportsFailure, Tries
  <2>5. CASE Drain(t)
    BY <2>5 DEF Drain, Activates
  <2> QED BY <2>1, <2>2, <2>3, <2>4, <2>5 DEF TaskStep
<1>3. Target[t.goal] \in Agents
  BY <1>1, CoordinatorAssumption
<1>4. ASSUME \/ Rollback(t.goal, t.attempt)
             \/ CompleteSuccess(t.goal, t.attempt, "other")
             \/ \E retry \in BOOLEAN : CompleteFailure(t.goal, t.attempt, retry)
      PROVE  RunStep(t.goal)
  BY <1>1, <1>4 DEF RunStep
<1> QED BY <1>1, <1>2, <1>3, <1>4 DEF Next, ActivateNext

\* A request is one mutation.
LEMMA RequestMutates ==
  ASSUME Request
  PROVE  Next
<1>1. PICK g \in Goals : GoalRequest(g) \/ RunRequest(g)
  BY DEF Request
<1>2. CASE GoalRequest(g)
  <2>1. CASE CheckGoal(g)
    BY <2>1 DEF CheckGoal, Next, RunStep
  <2>2. CASE ~CheckGoal(g)
    <3>1. GoalStep(g)
      BY <1>2, <2>2 DEF GoalRequest, GoalStep
    <3> QED BY <3>1 DEF Next
  <2> QED BY <2>1, <2>2
<1>3. CASE RunRequest(g)
  <2>1. RunStep(g)
    BY <1>3 DEF RunRequest, RunStep
  <2> QED BY <2>1 DEF Next
<1> QED BY <1>1, <1>2, <1>3

\* Every step of the daemon is a mutation of the coordinator, or none.
LEMMA DaemonMutates ==
  ASSUME TurnsOK, Daemon
  PROVE  Next \/ UNCHANGED c
<1>1. CASE \E t \in turns : TaskStep(t)
  BY <1>1, TaskMutates
<1>2. CASE Request
  BY <1>2, RequestMutates
<1>3. CASE \E g \in Goals : Promote(g) \/ ActivateUnseen(g)
  BY <1>3 DEF Promote, ActivateUnseen, Activates, Next, GoalStep
<1>4. CASE \E a \in Agents : Tick(a)
  BY <1>4 DEF Tick, Activates, Next, ActivateNext
<1>5. CASE \E d, p \in Goals, kind \in Kinds : CreateDependency(d, p, kind)
  BY <1>5 DEF CreateDependency, Next, GoalStep
<1>6. CASE Unrelated
  BY <1>6 DEF Unrelated
<1>7. CASE Restart
  BY <1>7 DEF Restart, Next
<1>8. CASE \E t \in turns : FailCheck(t)
  BY <1>8 DEF FailCheck
<1> QED BY <1>1, <1>2, <1>3, <1>4, <1>5, <1>6, <1>7, <1>8 DEF Daemon

\* An activation gives its run a task of its own.
LEMMA ActivatesStarts ==
  ASSUME IInv, NEW U, Started(c, U), NEW g, NEW T, Activates(g, T),
         Tasks(Outdate(T)), From(U, Outdate(T)), Kept(c, c')
  PROVE  Started(c', turns')
<1>1. /\ Activate(g) /\ turns' = Outdate(T) \cup {Turn(g, Len(c.runs[g]) + 1, "Running")}
  BY DEF Activates
<1>2. CanActivate(c, g) /\ c' = Activated(c, g) /\ Typed(c)
  BY <1>1 DEF Activate, IInv
<1>3. g \in Goals
  BY <1>2 DEF CanActivate, Typed
<1> DEFINE k == Len(c.runs[g]) + 1
<1>4. k \in Attempts(c', g) /\ k \notin Attempts(c, g)
  <2>1. /\ Attempts(Activated(c, g), g) = Attempts(c, g) \cup {k}
        /\ k \notin Attempts(c, g)
    <3>1. Typed(c)
      BY <1>2
    <3> QED BY ONLY <1>3, <3>1, ActivatedEffect
  <2> QED BY <1>2, <2>1
<1>5. k \in Nat \ {0}
  <2>1. c.runs[g] \in Seq(Run)
    BY <1>2, <1>3 DEF Typed
  <2> QED BY <2>1
<1>6. turns' = Outdate(T) \cup {Turn(g, k, "Running")}
  BY <1>1
<1> HIDE DEF k
<1>7. \A u \in Outdate(T) : ~(u.goal = g /\ u.attempt = k)
  BY <1>4 DEF From, Started, SameRun
<1>8. Tasks(turns')
  BY <1>3, <1>5, <1>6, <1>7, StartingKeepsTasks
<1>9. Started(c', Outdate(T))
  BY StillStarted
<1>10. Turn(g, k, "Running").goal = g /\ Turn(g, k, "Running").attempt = k
  BY DEF Turn
<1> QED BY <1>3, <1>4, <1>6, <1>8, <1>9, <1>10 DEF Started

\* The steps with which a task is done with its run.
ReportStep(t) == ReportError(t) \/ Judge(t) \/ IsOverruled(t)

\* Every step keeps tasks apart and runs started.
LEMMA TaskKeepsTurns ==
  ASSUME IInv, TurnsOK, Kept(c, c'), NEW t \in turns, TaskStep(t)
  PROVE  /\ Started(c', turns')
         /\ \A u \in turns' : u.stage = "Draining" =>
              \/ u \in turns
              \/ ReportStep(t) /\ u = Staged(t, "Draining")
<1>1. Started(c, turns) /\ Tasks(turns)
  BY TurnsAreStarted DEF Started
<1>2. Tasks(turns \ {t}) /\ From(turns, turns \ {t})
  BY <1>1, FewerTasks
<1>3. /\ Tasks(Outdate(turns \ {t})) /\ From(turns, Outdate(turns \ {t}))
      /\ \A u \in Outdate(turns \ {t}) : u.stage = "Draining" => u \in turns
  <2>1. /\ Tasks(Outdate(turns \ {t})) /\ From(turns \ {t}, Outdate(turns \ {t}))
        /\ \A u \in Outdate(turns \ {t}) : u.stage = "Draining" => u \in turns \ {t}
    BY <1>2, OutdateKeepsTasks
  <2> QED BY <2>1 DEF From
<1>4. ASSUME NEW stage \in Stages,
             \/ turns' = Outdate(turns \ {t}) \cup {Staged(t, stage)}
             \/ turns' = (turns \ {t}) \cup {Staged(t, stage)}
      PROVE  /\ Started(c', turns')
             /\ \A u \in turns' : u.stage = "Draining" => u \in turns \/ u = Staged(t, stage)
  <2>1. /\ Tasks(turns') /\ From(turns, turns')
        /\ \A u \in turns' : u.stage = "Draining" => u \in turns \/ u = Staged(t, stage)
    BY <1>1, <1>4, TriesKeepsTasks
  <2> QED BY <1>1, <2>1, StillStarted
<1>5. ASSUME turns' = Outdate(turns \ {t}) \/ turns' = turns \ {t}
      PROVE  /\ Started(c', turns')
             /\ \A u \in turns' : u.stage = "Draining" => u \in turns
  <2>1. Tasks(turns') /\ From(turns, turns')
    BY <1>2, <1>3, <1>5
  <2> QED BY <1>1, <1>3, <1>5, <2>1, StillStarted
<1>6. ASSUME NEW stage \in Stages, stage # "Draining",
             \/ turns' = Outdate(turns \ {t}) \cup {Staged(t, stage)}
             \/ turns' = (turns \ {t}) \cup {Staged(t, stage)}
      PROVE  /\ Started(c', turns')
             /\ \A u \in turns' : u.stage = "Draining" => u \in turns
  <2>1. t \in Task
    BY <1>1 DEF Tasks
  <2>2. Staged(t, stage).stage = stage
    BY <2>1, StagedIsTask
  <2> QED BY <1>4, <1>6, <2>2
<1>7. CASE DispatchFails(t)
  <2>1. turns' = (turns \ {t}) \cup {Staged(t, "Undoing")} /\ "Undoing" \in Stages
    BY <1>7 DEF DispatchFails, Goes, Staged, Stages
  <2> QED BY <1>6, <2>1
<1>8. CASE Undo(t) \/ GiveUp(t)
  <2>1. turns' = Outdate(turns \ {t}) \/ turns' = turns \ {t}
    BY <1>8 DEF Undo, GiveUp
  <2> QED BY <1>5, <2>1
<1>9. CASE ReportStep(t)
  <2>1. /\ \/ turns' = Outdate(turns \ {t}) \cup {Staged(t, "Draining")}
           \/ turns' = (turns \ {t}) \cup {Staged(t, "Draining")}
        /\ "Draining" \in Stages
    BY <1>9
       DEF ReportStep, ReportError, Judge, IsOverruled, ReportsSuccess, ReportsFailure,
           Tries, Goes, Staged, Stages
  <2> QED BY <1>4, <1>9, <2>1
<1>10. CASE RecordStep(t)
  <2>1. \E stage \in {"Judging", "Refused"} :
          \/ turns' = Outdate(turns \ {t}) \cup {Staged(t, stage)}
          \/ turns' = (turns \ {t}) \cup {Staged(t, stage)}
    BY <1>10 DEF RecordStep, Goes, Staged
  <2> QED BY <1>6, <2>1 DEF Stages
<1>11. CASE Drain(t)
  <2>1. \/ \E g : Activates(g, turns \ {t})
        \/ turns' = turns \ {t}
    BY <1>11 DEF Drain
  <2>2. ASSUME NEW g, Activates(g, turns \ {t})
        PROVE  /\ Started(c', turns')
               /\ \A u \in turns' : u.stage = "Draining" => u \in turns
    <3>1. Started(c', turns')
      BY <1>1, <1>3, <2>2, ActivatesStarts
    <3>2. /\ turns' = Outdate(turns \ {t}) \cup {Turn(g, Len(c.runs[g]) + 1, "Running")}
          /\ Turn(g, Len(c.runs[g]) + 1, "Running").stage = "Running"
      BY <2>2 DEF Activates, Turn
    <3> QED BY <1>3, <3>1, <3>2
  <2> QED BY <1>5, <2>1, <2>2
<1> QED BY <1>7, <1>8, <1>9, <1>10, <1>11 DEF TaskStep, ReportStep

LEMMA DaemonKeepsTurns ==
  ASSUME IInv, TurnsOK, Kept(c, c'), Daemon
  PROVE  /\ Started(c', turns')
         /\ \A u \in turns' : u.stage = "Draining" =>
              \/ u \in turns
              \/ \E t \in turns : ReportStep(t) /\ u = Staged(t, "Draining")
<1>1. Started(c, turns) /\ Tasks(turns)
  BY TurnsAreStarted DEF Started
<1>2. /\ Tasks(Outdate(turns)) /\ From(turns, Outdate(turns))
      /\ \A u \in Outdate(turns) : u.stage = "Draining" => u \in turns
  BY <1>1, OutdateKeepsTasks
<1>3. ASSUME turns' = Outdate(turns)
      PROVE  Started(c', turns') /\ \A u \in turns' : u.stage = "Draining" => u \in turns
  BY <1>1, <1>2, <1>3, StillStarted
<1>4. ASSUME NEW g, Activates(g, turns)
      PROVE  Started(c', turns') /\ \A u \in turns' : u.stage = "Draining" => u \in turns
  <2>1. Started(c', turns')
    BY <1>1, <1>2, <1>4, ActivatesStarts
  <2>2. /\ turns' = Outdate(turns) \cup {Turn(g, Len(c.runs[g]) + 1, "Running")}
        /\ Turn(g, Len(c.runs[g]) + 1, "Running").stage = "Running"
    BY <1>4 DEF Activates, Turn
  <2> QED BY <1>2, <2>1, <2>2
<1>5. CASE \E t \in turns : TaskStep(t)
  BY <1>5, TaskKeepsTurns
<1>6. CASE Request
  BY <1>3, <1>6 DEF Request
<1>7. CASE \E g \in Goals : Promote(g) \/ ActivateUnseen(g)
  BY <1>3, <1>4, <1>7 DEF Promote, ActivateUnseen
<1>8. CASE \E a \in Agents : Tick(a)
  BY <1>4, <1>8 DEF Tick
<1>9. CASE \E d, p \in Goals, kind \in Kinds : CreateDependency(d, p, kind)
  BY <1>3, <1>9 DEF CreateDependency
<1>10. CASE Unrelated
  BY <1>3, <1>10 DEF Unrelated
<1>11. CASE Restart
  <2>1. turns' = {}
    BY <1>11 DEF Restart
  <2> QED BY <2>1 DEF Started, Tasks
<1>12. CASE \E t \in turns : FailCheck(t)
  <2>1. PICK t \in turns : FailCheck(t)
    BY <1>12
  <2>2. t \in Task
    BY <1>1 DEF Tasks
  <2>3. turns' = Outdate(turns \ {t}) \cup {Staged(t, "Overruled")} /\ "Overruled" \in Stages
    BY <2>1 DEF FailCheck, Staged, Stages
  <2>4. /\ Tasks(turns') /\ From(turns, turns')
        /\ \A u \in turns' : u.stage = "Draining" => u \in turns \/ u = Staged(t, "Overruled")
    BY <1>1, <2>3, TriesKeepsTasks
  <2>5. Staged(t, "Overruled").stage = "Overruled"
    BY <2>2, <2>3, StagedIsTask
  <2> QED BY <1>1, <2>4, <2>5, StillStarted
<1> QED BY <1>5, <1>6, <1>7, <1>8, <1>9, <1>10, <1>11, <1>12 DEF Daemon

\* What every step of the daemon re-establishes.
LEMMA DaemonStep ==
  ASSUME IInv, TurnsOK, [Daemon]_vars
  PROVE  [Next]_c /\ IInv' /\ TurnsOK' /\ Kept(c, c')
<1>1. [Next]_c
  BY DaemonMutates DEF vars
<1>2. IInv' /\ Kept(c, c')
  <2>1. IInv' /\ (Kept(c, c') \/ UNCHANGED c)
    BY <1>1, StepAgrees
  <2>2. UNCHANGED c => Kept(c, c')
    BY DEF Kept
  <2> QED BY <2>1, <2>2
<1>3. TurnsOK'
  <2>1. CASE Daemon
    <3>1. Started(c', turns')
      BY <1>2, <2>1, DaemonKeepsTurns
    <3> QED BY <3>1 DEF TurnsOK, Started, Tasks, Task, SameRun
  <2>2. CASE UNCHANGED vars
    BY <2>2 DEF vars, TurnsOK
  <2> QED BY <2>1, <2>2
<1> QED BY <1>1, <1>2, <1>3

\* Only the task of a run reports on it.
LEMMA OnlyTheTaskReports ==
  ASSUME IInv, TurnsOK, Daemon, NEW t \in turns, Reports(t)
  PROVE  ReportStep(t)
<1>1. Kept(c, c')
  BY DaemonStep
<1>2. t \in Task /\ Tasks(turns)
  BY TurnsAreStarted DEF Started, Tasks
<1>3. /\ Staged(t, "Draining") \in turns' /\ t.stage # "Draining"
      /\ SameRun(t, Staged(t, "Draining")) /\ Staged(t, "Draining").stage = "Draining"
  BY <1>2, StagedIsTask DEF Reports, Staged, Stages
<1>4. Staged(t, "Draining") \notin turns
  BY <1>2, <1>3 DEF Tasks
<1>5. PICK u \in turns : /\ ReportStep(u)
                         /\ Staged(t, "Draining") = Staged(u, "Draining")
  BY <1>1, <1>3, <1>4, DaemonKeepsTurns
<1>6. u \in Task /\ SameRun(u, Staged(u, "Draining"))
  BY <1>2, StagedIsTask DEF Tasks, Stages
<1>7. SameRun(t, u)
  BY <1>3, <1>5, <1>6 DEF SameRun
<1>8. t = u
  BY <1>2, <1>7 DEF Tasks
<1> QED BY <1>5, <1>8

\* A report is refused, or is about the newest run and spares every other.
LEMMA ReportSpares ==
  ASSUME IInv, TurnsOK, Daemon, NEW t \in turns, Reports(t)
  PROVE  \/ UNCHANGED c
         \/ /\ CanComplete(c, t.goal, t.attempt)
            /\ Spares(c, c', t.goal, t.attempt)
<1>1. t.goal \in Goals /\ t.attempt \in Attempts(c, t.goal)
  BY TurnsAreStarted DEF Started
<1>2. \/ UNCHANGED c
      \/ CompleteSuccess(t.goal, t.attempt, "other")
      \/ \E retry \in BOOLEAN : CompleteFailure(t.goal, t.attempt, retry)
  BY OnlyTheTaskReports
     DEF ReportStep, ReportError, Judge, IsOverruled, ReportsSuccess, ReportsFailure, Tries
<1>3. CASE CompleteSuccess(t.goal, t.attempt, "other")
  <2>1. CanComplete(c, t.goal, t.attempt)
    BY <1>3 DEF CompleteSuccess, CanSucceed
  <2>2. /\ Spares(c, c', t.goal, t.attempt)
        /\ c'.runs[t.goal][t.attempt].state = "Succeeded"
    BY <1>1, <1>3, SuccessSpares
  <2> QED BY <2>1, <2>2
<1>4. ASSUME NEW retry \in BOOLEAN, CompleteFailure(t.goal, t.attempt, retry)
      PROVE  /\ CanComplete(c, t.goal, t.attempt)
             /\ Spares(c, c', t.goal, t.attempt)
             /\ c'.runs[t.goal][t.attempt].state = "Failed"
  <2>1. CanComplete(c, t.goal, t.attempt)
    BY <1>4 DEF CompleteFailure, CanFail
  <2>2. /\ Spares(c, c', t.goal, t.attempt)
        /\ c'.runs[t.goal][t.attempt].state = "Failed"
    BY <1>1, <1>4, FailureSpares
  <2> QED BY <2>1, <2>2
<1> QED BY <1>2, <1>3, <1>4

\* A run that is open can succeed, and can fail if its dependents can be blocked.
LEMMA OpenRunsMayEnd ==
  ASSUME IInv, NEW g \in Goals, NEW k \in Attempts(c, g), c.runs[g][k].state = "Open"
  PROVE  /\ CanSucceed(c, g, k)
         /\ CanFailDependents(c, g) => \A retry \in BOOLEAN : CanFail(c, g, k, retry)
<1>1. Typed(c) /\ Agrees(c)
  BY DEF IInv
<1>2. k \in HolderOf(c, g) /\ k = Len(c.runs[g]) /\ c.status[g] = "Active"
  BY <1>1, OpenHolds DEF Holding
<1>3. c.slots[Target[g]] = [goal |-> g, attempt |-> k, generation |-> c.runs[g][k].generation]
  BY <1>1, <1>2 DEF Agrees, SlotsAgree
<1>4. c.slots[Target[g]] # NoSlot
  BY <1>3, CoordinatorAssumption DEF NoSlot
<1>5. CanComplete(c, g, k)
  BY <1>2, <1>3, <1>4 DEF CanComplete, CanRelease
<1>6. g \in c.live
  BY <1>1, <1>2 DEF Agrees, InPlay, Ended
<1>7. \A to \in {"Succeeded", "Failed", "Queued"} : ValidMove(c.status[g], to)
  BY <1>2 DEF ValidMove, Statuses, Ended
<1>8. CanSucceed(c, g, k)
  BY <1>5, <1>7 DEF CanSucceed
<1> DEFINE v == Failed(c, g, k)
<1>9. v.status = c.status /\ v.edges = c.edges /\ v.live = c.live
  <2>1. v = EndRun(Detached(c, g, k), g, k, "Failed", "other")
    BY DEF Failed
  <2> HIDE DEF v
  <2> QED BY <1>1, <2>1, EndingSpares
<1>10. CanRequeue(v, g)
  BY <1>6, <1>7, <1>9 DEF CanRequeue
<1>11. CanFailDependents(c, g) => CanFailDependents(v, g)
  <2> HIDE DEF v
  <2> QED BY <1>9 DEF CanFailDependents, Blockable, Parents
<1>12. ASSUME CanFailDependents(c, g), NEW retry \in BOOLEAN PROVE CanFail(c, g, k, retry)
  BY <1>5, <1>6, <1>7, <1>10, <1>11, <1>12 DEF CanFail
<1> QED BY <1>8, <1>12

-----------------------------------------------------------------------------
(* The theorems.                                                           *)

LEMMA DaemonInvariant == DaemonSpec => [](IInv /\ TurnsOK)
<1>1. StartUp => IInv /\ TurnsOK
  BY InitAgrees DEF StartUp, TurnsOK
<1>2. IInv /\ TurnsOK /\ [Daemon]_vars => (IInv /\ TurnsOK)'
  BY DaemonStep
<1> QED BY <1>1, <1>2, PTL DEF DaemonSpec

(* The daemon drives the aggregate through its mutations alone: requests,   *)
(* tasks, their undoing, ticks and restarts make no step of it that the     *)
(* coordinator does not make.                                               *)
THEOREM DaemonImplementsCoordinator == DaemonSpec => Spec
<1>1. StartUp => Init
  BY DEF StartUp
<1>2. IInv /\ TurnsOK /\ [Daemon]_vars => [Next]_c
  BY DaemonStep
<1> QED BY <1>1, <1>2, DaemonInvariant, PTL DEF DaemonSpec, Spec

(* So the daemon's store never refuses to save what a mutation made of it,  *)
(* and a dispatcher that replays its outbox after a restart finds nothing   *)
(* out of date there.                                                       *)
THEOREM DaemonStoreIsConsistent == DaemonSpec => [](Consistent /\ OutboxIsCurrent)
BY DaemonImplementsCoordinator, NothingToRefuse, CheckedOutbox, PTL

(* In every history of the daemon each task is of a run that was started,   *)
(* and no run has two: not when activation, undoing and draining overlap,   *)
(* nor when a goal is activated again while the task of its last attempt    *)
(* still goes on.                                                           *)
THEOREM CheckedTurns == DaemonSpec => []TurnsOK
BY DaemonInvariant, PTL

(* However late a turn ends, its report leaves every other run that         *)
(* executes at its work, and its goal active.                               *)
THEOREM CheckedLateTurns == DaemonSpec => LateTurnIsHarmless
<1> DEFINE Harmless ==
      \A t \in turns : Reports(t) =>
        \A g \in Goals : \A k \in Attempts(c, g) :
          c.runs[g][k].state = "Open" /\ <<g, k>> # <<t.goal, t.attempt>>
            => c'.runs[g][k].state = "Open" /\ c'.status[g] = "Active"
<1>1. IInv /\ TurnsOK /\ [Daemon]_vars => [Harmless]_vars
  <2> SUFFICES ASSUME IInv, TurnsOK, Daemon, NEW t \in turns, Reports(t),
                      NEW g \in Goals, NEW k \in Attempts(c, g),
                      c.runs[g][k].state = "Open", <<g, k>> # <<t.goal, t.attempt>>
               PROVE  c'.runs[g][k].state = "Open" /\ c'.status[g] = "Active"
    OBVIOUS
  <2>1. k = Len(c.runs[g]) /\ c.status[g] = "Active"
    BY OpenHolds DEF IInv, Holding
  <2>2. CASE UNCHANGED c
    BY <2>1, <2>2
  <2>3. CASE /\ CanComplete(c, t.goal, t.attempt)
             /\ Spares(c, c', t.goal, t.attempt)
    <3>1. g # t.goal
      BY <2>1, <2>3 DEF CanComplete
    <3> QED BY <2>1, <2>3, <3>1 DEF Spares
  <2> QED BY <2>2, <2>3, ReportSpares
<1> QED BY <1>1, DaemonInvariant, PTL DEF DaemonSpec, LateTurnIsHarmless

(* The report of a turn ends its run: the coordinator accepts it whenever   *)
(* the run is still open, unless a dependent cannot be blocked or a check   *)
(* failed since the task saw it pass; so no slot stays taken otherwise      *)
(* behind a turn that is over.                                              *)
THEOREM CheckedReports == DaemonSpec => ReportEndsRun
<1> DEFINE EndsRun ==
      \A t \in turns : Reports(t) => \/ c'.runs[t.goal][t.attempt].state # "Open"
                                     \/ ~CanFailDependents(c, t.goal)
                                     \/ t.stage = "Overruled"
<1>1. IInv /\ TurnsOK /\ [Daemon]_vars => [EndsRun]_vars
  <2> SUFFICES ASSUME IInv, TurnsOK, Daemon, NEW t \in turns, Reports(t),
                      CanFailDependents(c, t.goal), t.stage # "Overruled"
               PROVE  c'.runs[t.goal][t.attempt].state # "Open"
    OBVIOUS
  <2>1. t.goal \in Goals /\ t.attempt \in Attempts(c, t.goal)
    BY TurnsAreStarted DEF Started
  <2>2. ReportError(t) \/ Judge(t)
    BY OnlyTheTaskReports DEF ReportStep, IsOverruled
  <2>3. \/ c'.runs[t.goal][t.attempt].state \in {"Succeeded", "Failed"}
        \/ UNCHANGED c /\ ~CanSucceed(c, t.goal, t.attempt)
        \/ UNCHANGED c /\ \E retry \in BOOLEAN : ~CanFail(c, t.goal, t.attempt, retry)
    <3>1. CASE CompleteSuccess(t.goal, t.attempt, "other")
      BY <2>1, <3>1, SuccessSpares
    <3>2. CASE \E retry \in BOOLEAN : CompleteFailure(t.goal, t.attempt, retry)
      BY <2>1, <3>2, FailureSpares
    <3> QED BY <2>2, <3>1, <3>2 DEF ReportError, Judge, ReportsSuccess, ReportsFailure, Tries
  <2>4. c.runs[t.goal][t.attempt].state = "Open" =>
          /\ CanSucceed(c, t.goal, t.attempt)
          /\ \A retry \in BOOLEAN : CanFail(c, t.goal, t.attempt, retry)
    BY <2>1, OpenRunsMayEnd
  <2> QED BY <2>3, <2>4
<1> QED BY <1>1, DaemonInvariant, PTL DEF DaemonSpec, ReportEndsRun
=============================================================================
