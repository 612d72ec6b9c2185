---------------------------- MODULE GoalDispatch ----------------------------
(***************************************************************************)
(* The daemon around the goal coordinator, crates/service/src/runtime.rs:   *)
(* requests change the aggregate, an activated run is handed to its agent   *)
(* by a task of its own, and that task reports when the agent's turn is     *)
(* over, then promotes what waits for the agent.  Every mutation takes the  *)
(* store's lock for itself, so requests and other tasks run between any two *)
(* steps of a task.                                                         *)
(*                                                                          *)
(* A turn may end at any time, well or badly: what the model and its tools  *)
(* do, the cancellation token and a busy agent only decide how soon.  The   *)
(* external executors, the expiry sweep and the acknowledgement of outbox   *)
(* entries have no caller in the daemon.  A restart loses every task.       *)
(***************************************************************************)
EXTENDS GoalCoordinator

\* What may go wrong: "dispatch", an activated run cannot be handed over;
\* "fsync", a save fails after its file was put in place.
CONSTANT Faults

VARIABLES turns,    \* the daemon's tasks, each for one run
          wanted    \* the <<dependent, prerequisite>> pairs for which a client asked
                    \* that the prerequisite succeed first

vars == <<c, turns, wanted>>

\* Running: the run is being handed to its agent, or its turn goes on; nobody
\* but the task can tell.  Undoing and Outdated: the task has read the revision
\* to roll back at, and the aggregate is, or is no longer, at that revision.
\* Overruled: the task has found the checks met, and they are not any more.
Stages ==
  {"Running", "Undoing", "Outdated", "Refused", "Judging", "Overruled", "Draining"}
Turn(g, k, stage) == [goal |-> g, attempt |-> k, stage |-> stage]

TurnsOK == /\ turns \subseteq [goal: Goals, attempt: Nat \ {0}, stage: Stages]
           /\ \A t \in turns : t.attempt \in Attempts(c, t.goal)
           /\ \A t, u \in turns : t.goal = u.goal /\ t.attempt = u.attempt => t = u

StartUp == Init /\ turns = {} /\ wanted = {}

-----------------------------------------------------------------------------
(* The task of a run.                                                      *)

\* Every mutation moves the revision on.
Outdate(T) ==
  {IF t.stage = "Undoing" THEN [t EXCEPT !.stage = "Outdated"] ELSE t : t \in T}

Goes(t, stage) == turns' = (turns \ {t}) \cup {[t EXCEPT !.stage = stage]}

\* A mutation whose refusal the task ignores, and where the task goes next.
Tries(t, Accepted, Mutation, stage) ==
  \/ Mutation /\ turns' = Outdate(turns \ {t}) \cup {[t EXCEPT !.stage = stage]}
  \/ ~Accepted /\ UNCHANGED c /\ Goes(t, stage)

\* What a task reports of its run, and goes on to hand the agent over.
ReportsSuccess(t) == Tries(t, CanSucceed(c, t.goal, t.attempt),
                           CompleteSuccess(t.goal, t.attempt, "other"), "Draining")

ReportsFailure(t, retry) == Tries(t, CanFail(c, t.goal, t.attempt, retry),
                                  CompleteFailure(t.goal, t.attempt, retry), "Draining")

\* The instruction cannot be written, or the session cannot be saved with it.
DispatchFails(t) == /\ t.stage = "Running" /\ "dispatch" \in Faults
                    /\ Goes(t, "Undoing") /\ UNCHANGED c

\* compensate_activation, which reads the revision under one lock and rolls
\* back under the next.
Undo(t) == /\ t.stage = "Undoing"
           /\ \/ Rollback(t.goal, t.attempt) /\ turns' = Outdate(turns \ {t})
              \/ /\ ~CanRollback(c, t.goal, t.attempt)
                 /\ turns' = turns \ {t} /\ UNCHANGED c

GiveUp(t) == t.stage = "Outdated" /\ turns' = turns \ {t} /\ UNCHANGED c

\* The turn ended with an error, or its step was refused.
ReportError(t) == /\ t.stage \in {"Running", "Refused"}
                  /\ ReportsFailure(t, FALSE)

RecordStep(t) ==
  /\ t.stage = "Running" /\ UNCHANGED c
  /\ IF c.runs[t.goal][t.attempt].state = "Open"
     THEN turns' = Outdate(turns \ {t}) \cup {[t EXCEPT !.stage = "Judging"]}
     ELSE Goes(t, "Refused")

\* Mutant: a verdict that is not a success is only shown to the agent.
JudgeSuccess(t) == /\ t.stage = "Judging"
                   /\ ReportsSuccess(t) \/ (Goes(t, "Draining") /\ UNCHANGED c)

\* The checks were run, and awaited, after the step was recorded.
Judge(t) ==
  t.stage = "Judging" /\ (ReportsSuccess(t) \/ ReportsFailure(t, TRUE))

\* The coordinator looks at the checks again, and refuses the success.
IsOverruled(t) == t.stage = "Overruled" /\ UNCHANGED c /\ Goes(t, "Draining")

\* Mutant: the task is given the attempt that came before.
ActivatesPrevious(g, T) ==
  Activate(g) /\ turns' = Outdate(T) \cup {Turn(g, Len(c.runs[g]), "Running")}

Activates(g, T) ==
  Activate(g) /\ turns' = Outdate(T) \cup {Turn(g, Len(c.runs[g]) + 1, "Running")}

\* Mutant: the agent is handed on only by a goal that ended.
DrainAfterEnd(t) ==
  /\ t.stage = "Draining"
  /\ LET next == IF Idle(c, Target[t.goal]) /\ c.status[t.goal] \in Ended
                 THEN Selected(c, Target[t.goal]) ELSE {}
     IN \/ \E g \in next : Activates(g, turns \ {t})
        \/ /\ next = {} \/ \E g \in next : ~CanActivate(c, g)
           /\ turns' = turns \ {t} /\ UNCHANGED c

\* drain_ready_goals: the task ends, and hands the agent to the next run.
Drain(t) ==
  /\ t.stage = "Draining"
  /\ LET next == IF Idle(c, Target[t.goal]) THEN Selected(c, Target[t.goal]) ELSE {}
     IN \/ \E g \in next : Activates(g, turns \ {t})
        \/ /\ next = {} \/ \E g \in next : ~CanActivate(c, g)
           /\ turns' = turns \ {t} /\ UNCHANGED c

TaskStep(t) == /\ \/ DispatchFails(t) \/ Undo(t) \/ GiveUp(t) \/ ReportError(t)
                  \/ RecordStep(t) \/ Judge(t) \/ IsOverruled(t) \/ Drain(t)
               /\ UNCHANGED wanted

-----------------------------------------------------------------------------
(* The requests.                                                           *)

\* check_goal: a client's evaluation was the last one missing.
CheckGoal(g) == \E k \in Attempts(c, g) : /\ c.runs[g][k].state = "Open"
                                          /\ CompleteSuccess(g, k, "other")

RunRequest(g) == \E k \in Attempts(c, g) :
  \/ Yield(g, k)
  \/ SubmitCandidate(g, k)
  \/ \E h \in Goals : EnqueueChild(h, g, k)
  \/ SettleCancel(g, k)

GoalRequest(g) ==
  \/ Register(g)
  \/ \E W \in SUBSET {h \in Goals : <<g, h>> \in Pairs} : Enqueue(g, W)
  \/ \E policy \in {"Cancel", "Detach", "Wait"} : Cancel(g, policy)
  \/ Approve(g)
  \/ CheckGoal(g)

Request == /\ \E g \in Goals : GoalRequest(g) \/ RunRequest(g)
           /\ turns' = Outdate(turns) /\ UNCHANGED wanted

\* promote_goal, activate_goal and enqueue_and_dispatch.
Promote(g) == Activates(g, turns) /\ UNCHANGED wanted

\* One target of a scheduler_tick.
Tick(a) == \E g \in Selected(c, a) : Activates(g, turns) /\ UNCHANGED wanted

\* The save of an activation reports an error after it was published: the
\* caller sees a refusal, so nobody dispatches and nobody rolls back.
ActivateUnseen(g) == /\ "fsync" \in Faults
                     /\ Activate(g) /\ turns' = Outdate(turns) /\ UNCHANGED wanted

\* create_dependency hands the prerequisite to the coordinator as the parent.
CreateDependency(d, p, kind) ==
  /\ AddDependency(p, d, kind)
  /\ turns' = Outdate(turns)
  /\ wanted' = IF kind = "success" THEN wanted \cup {<<d, p>>} ELSE wanted

\* A message, a check or a step: the revision moves on.
Unrelated == /\ turns # Outdate(turns) /\ turns' = Outdate(turns)
             /\ UNCHANGED <<c, wanted>>

\* check_goal: an evaluation that fails, between the task's look at the checks
\* and its report.
FailCheck(t) == /\ t.stage = "Judging" /\ c.status[t.goal] \notin Ended
                /\ turns' = Outdate(turns \ {t}) \cup {[t EXCEPT !.stage = "Overruled"]}
                /\ UNCHANGED <<c, wanted>>

Restart == Reconcile /\ turns' = {} /\ UNCHANGED wanted

Daemon == \/ \E t \in turns : TaskStep(t) \/ FailCheck(t)
          \/ Request
          \/ \E g \in Goals : Promote(g) \/ ActivateUnseen(g)
          \/ \E a \in Agents : Tick(a)
          \/ \E d, p \in Goals, kind \in Kinds : CreateDependency(d, p, kind)
          \/ Unrelated
          \/ Restart

DaemonSpec == StartUp /\ [][Daemon]_vars

\* Tokio polls every task, and a turn ends: providers time out, and steps,
\* budgets and tokens bound it.
Served(g, k) == \E t \in turns : t.goal = g /\ t.attempt = k /\ TaskStep(t)
Fairness == \A g \in Goals : \A k \in 1..MaxAttempts[g] : WF_vars(Served(g, k))

FairDaemonSpec == DaemonSpec /\ Fairness

-----------------------------------------------------------------------------

Reports(t) == t.stage # "Draining" /\ [t EXCEPT !.stage = "Draining"] \in turns'

(* Whatever happened to the run while its turn went on and its checks were  *)
(* awaited, the report of the turn does not leave it open, which would keep *)
(* the agent's slot taken with nobody at work; but for a dependent that     *)
(* cannot be blocked, and a check that failed after the task saw it pass,   *)
(* which make the coordinator refuse the report.                            *)
ReportEndsRun ==
  [][\A t \in turns : Reports(t) => \/ c'.runs[t.goal][t.attempt].state # "Open"
                                    \/ ~CanFailDependents(c, t.goal)
                                    \/ t.stage = "Overruled"]_vars

(* The late turn of an attempt that yielded, was rolled back or cancelled   *)
(* never disturbs the attempt that replaced it, nor any other goal at work. *)
LateTurnIsHarmless ==
  [][\A t \in turns : Reports(t) =>
       \A g \in Goals : \A k \in Attempts(c, g) :
         c.runs[g][k].state = "Open" /\ <<g, k>> # <<t.goal, t.attempt>>
           => c'.runs[g][k].state = "Open" /\ c'.status[g] = "Active"]_vars

HasTask(g, k) == \E t \in turns : t.goal = g /\ t.attempt = k

Eligible(g) == c.status[g] = "Queued" /\ DependenciesReady(c, g)

\* What can keep an agent's queue from moving without a client's tick: the
\* daemon was restarted, a hand-over failed, a cancellation is not settled, a
\* report is not acceptable, a queued goal has no attempt left, or a run that
\* blocks the agent has lost its task.
Disturbed == \/ c.epoch > 0
             \/ \E t \in turns : t.stage \in {"Undoing", "Outdated"}
             \/ \E g \in Goals :
                  \/ c.status[g] = "Cancelling" \/ ~CanFailDependents(c, g)
                  \/ c.status[g] = "Queued" /\ ~HasAttemptsLeft(c, g)
                  \/ \E k \in Attempts(c, g) :
                       /\ ~HasTask(g, k)
                       /\ \/ c.runs[g][k].state = "Open"
                          \/ c.runs[g][k].state = "Waiting"
                             /\ c.runs[g][k].wait = "verification"

(* Completion-triggered scheduling: an eligible goal queued behind a turn   *)
(* of its agent is started in the end without any client's help, and        *)
(* nothing but the disturbances named above can keep it from that.          *)
QueueDrains ==
  \A g \in Goals :
    Eligible(g) /\ (\E t \in turns : Target[t.goal] = Target[g])
      ~> ~Eligible(g) \/ Disturbed

(* WaitReason, core/src/coordinator/model.rs: "Why a run released its       *)
(* execution slot without terminating the goal".  The end of the turn in    *)
(* which a run parked its goal does not end the goal.                       *)
ParkedGoalIsKept ==
  [][\A t \in turns : Reports(t) /\ c.runs[t.goal][t.attempt].state = "Waiting"
       => c'.status[t.goal] \notin Ended]_vars

(* CreateGoalDependencyRequest: a dependent goal does not start before its  *)
(* prerequisite succeeded.                                                  *)
DependentWaits ==
  [][\A e \in wanted : Len(c'.runs[e[1]]) > Len(c.runs[e[1]])
       => c.status[e[2]] = "Succeeded"]_vars
=============================================================================
