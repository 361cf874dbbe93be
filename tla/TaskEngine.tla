----------------------------- MODULE TaskEngine -----------------------------
(***************************************************************************)
(* The durable task queue: the plan and step tables (src/tasks/store.ts)   *)
(* and the engines that drain them (src/tasks/engine.ts), one engine per   *)
(* connection (src/runtime/connection.ts), all on the same database.       *)
(*                                                                         *)
(* Database calls are synchronous, so a drain loop runs from one `await`   *)
(* of the skill runner to the next in one step.  What interleaves with it  *)
(* is everything that may happen while a handler runs: plans are created,  *)
(* paused, resumed and cancelled, the bot dies and respawns, the           *)
(* connection is lost and a new engine starts while the old one still      *)
(* awaits its aborted handler, the process crashes, also between the two   *)
(* updates of a pause.  An engine that starts on a connection nobody holds *)
(* (Host!Opened) is not among those of this module.                        *)
(***************************************************************************)
EXTENDS Integers, FiniteSets

CONSTANTS
  NPlans,      \* plans are numbered in the order they are created
  NSteps,      \* steps of a plan, by position
  Linked,      \* the plans that belong to a mission run
  NEngines,    \* engine generations: connections over the life of the data
  MaxAttempts, \* max_attempts of every step
  MaxTime,     \* bound on the clock (seconds)
  MaxPauses,   \* bound on pause requests
  MaxFaults    \* bound on exceptions inside the drain loop

ASSUME EngineAssumption ==
  /\ NPlans \in Nat \ {0} /\ NSteps \in Nat \ {0} /\ NEngines \in Nat \ {0}
  /\ Linked \subseteq 1 .. NPlans
  /\ MaxAttempts \in Nat \ {0} /\ MaxTime \in Nat
  /\ MaxPauses \in Nat /\ MaxFaults \in Nat

Plans   == 1 .. NPlans
Steps   == 1 .. NSteps
Engines == 1 .. NEngines
Time    == 0 .. MaxTime
Never   == MaxTime + 1

VARIABLES
  now,    \* Date.now()
  plan,   \* task_plans, with the state of a linked mission run
  step,   \* task_steps
  engine, \* the closures of createTaskEngine, one per connection
  pauses, \* pause requests so far
  faults  \* drain loops that ended in an exception

vars == <<now, plan, step, engine, pauses, faults>>

PlanStatus == {"none", "pending", "running", "paused", "completed", "failed", "cancelled"}
StepStatus == {"pending", "running", "retry_wait", "completed", "failed", "cancelled"}
Mission    == {"none", "running", "held"}       \* linked run: none, running, anything else
Terminal   == {"completed", "failed", "cancelled"}

(* A claim is what a drain loop holds across its await: the step row it    *)
(* read, and the fate of the handler it started for it.                    *)
NoClaim == [plan |-> 0, step |-> 0, attempt |-> 0, handler |-> "none"]
Claim   == [plan : Plans, step : Steps, attempt : Nat, handler : {"live", "aborted"}]

(* What the properties need to know of the past: "doneBy" is the attempt   *)
(* that completed a step, "announced" the terminal events emitted for a    *)
(* plan (a process that ends between the row and the event has no listener *)
(* left to hear it), "lost" the attempts that an exception of the engine's *)
(* drain loop left without a result, and "threw" that its last loop ended  *)
(* in one.                                                                 *)
TypeOK ==
  /\ now \in Time
  /\ plan \in [Plans -> [status : PlanStatus, mission : Mission, announced : Nat]]
  /\ step \in [Plans -> [Steps -> [status : StepStatus, attempts : Nat,
                                   next : Time, doneBy : Nat]]]
  /\ engine \in [Engines -> [phase : {"absent", "new", "started", "stopped"},
                             available : BOOLEAN, timer : 0 .. Never,
                             claim : Claim \cup {NoClaim},
                             lost : SUBSET (Plans \X Steps \X Nat), threw : BOOLEAN]]
  /\ pauses \in 0 .. MaxPauses
  /\ faults \in 0 .. MaxFaults

Init ==
  /\ now = 0
  /\ plan = [p \in Plans |-> [status |-> "none", mission |-> "none", announced |-> 0]]
  /\ step = [p \in Plans |-> [s \in Steps |->
               [status |-> "pending", attempts |-> 0, next |-> 0, doneBy |-> 0]]]
  /\ engine = [e \in Engines |->
                [phase |-> "absent", available |-> FALSE, timer |-> Never, claim |-> NoClaim,
                 lost |-> {}, threw |-> FALSE]]
  /\ pauses = 0
  /\ faults = 0

(* The engine of the current connection: tools and events reach no other.  *)
Current(e) ==
  /\ engine[e].phase \in {"new", "started"}
  /\ \A f \in Engines : f > e => engine[f].phase = "absent"

Draining(e) == engine[e].claim # NoClaim

-----------------------------------------------------------------------------
(***************************************************************************)
(* schedule(): only a started, available engine arms its timer, and a new  *)
(* delay replaces the old one.                                             *)
(***************************************************************************)
Serving(e) == engine[e].phase = "started" /\ engine[e].available

Scheduled(e, t) ==
  IF Serving(e) THEN [engine EXCEPT ![e].timer = t] ELSE engine

(* Mutant of Claimable: earlier steps are not looked at.                   *)
ClaimableIgnoringOrder(pl, st, p, s) ==
  /\ pl[p].status \in {"pending", "running"}
  /\ pl[p].mission # "held"
  /\ st[p][s].status \in {"pending", "retry_wait"}
  /\ st[p][s].next <= now

(* claimNextTaskStep(): the first due step of the oldest plan that may     *)
(* run, whose earlier steps have all completed and whose mission, if it    *)
(* has one, is running.                                                    *)
Claimable(pl, st, p, s) ==
  /\ pl[p].status \in {"pending", "running"}
  /\ pl[p].mission # "held"
  /\ st[p][s].status \in {"pending", "retry_wait"}
  /\ st[p][s].next <= now
  /\ \A q \in Steps : q < s => st[p][q].status = "completed"

Before(p, s, q, t) == p < q \/ (p = q /\ s < t)

FirstClaimable(pl, st, p, s) ==
  /\ Claimable(pl, st, p, s)
  /\ \A q \in Plans, t \in Steps : Before(q, t, p, s) => ~Claimable(pl, st, q, t)

ClaimedPlans(pl, p) == [pl EXCEPT ![p].status = "running"]

ClaimedSteps(st, p, s) ==
  [st EXCEPT ![p][s].status = "running", ![p][s].next = 0,
             ![p][s].attempts = st[p][s].attempts + 1]

(* nextRetryAt(): the earliest retry of a plan whose status is running.    *)
Retries(pl, st) ==
  {t \in Time : \E p \in Plans, s \in Steps :
      /\ pl[p].status = "running"
      /\ st[p][s].status = "retry_wait" /\ st[p][s].next = t}

EarliestRetry(pl, st, t) ==
  t \in Retries(pl, st) /\ \A u \in Retries(pl, st) : t <= u

(* Mutant of Idle: the loop ends without looking for waiting retries.      *)
IdleWithoutRetry(e, pl, st, en) == [en EXCEPT ![e].claim = NoClaim]

(* The drain loop ends: the engine is idle, and wakes for the next retry.  *)
Idle(e, pl, st, en) ==
  IF Serving(e) /\ Retries(pl, st) # {}
  THEN [en EXCEPT ![e].claim = NoClaim,
                  ![e].timer = LET t == CHOOSE t \in Time : EarliestRetry(pl, st, t)
                               IN IF t <= now THEN now ELSE t]
  ELSE [en EXCEPT ![e].claim = NoClaim]

(***************************************************************************)
(* The drain loop on tables pl and st, up to its next await: it claims a   *)
(* step and starts its handler, or finds none and ends.  Only stop() ends  *)
(* it early; suspend() does not.                                           *)
(***************************************************************************)
Loop(e, pl, st, en) ==
  \/ /\ engine[e].phase = "started"
     /\ \E p \in Plans, s \in Steps :
          /\ FirstClaimable(pl, st, p, s)
          /\ plan' = ClaimedPlans(pl, p)
          /\ step' = ClaimedSteps(st, p, s)
          /\ engine' = [en EXCEPT ![e].claim =
                          [plan |-> p, step |-> s, attempt |-> st[p][s].attempts + 1,
                           handler |-> "live"]]
  \/ /\ \/ engine[e].phase # "started"
        \/ \A p \in Plans, s \in Steps : ~Claimable(pl, st, p, s)
     /\ plan' = pl
     /\ step' = st
     /\ engine' = Idle(e, pl, st, en)

(* The wake timer fires.  A drain in progress makes it a no-op.            *)
WakeFires(e) ==
  /\ engine[e].timer <= now
  /\ LET fired == [engine EXCEPT ![e].timer = Never, ![e].threw = FALSE]
     IN IF Draining(e) \/ ~Serving(e)
        THEN engine' = fired /\ UNCHANGED <<plan, step>>
        ELSE Loop(e, plan, step, fired)
  /\ UNCHANGED <<now, pauses, faults>>

-----------------------------------------------------------------------------
(***************************************************************************)
(* What a handler may report.  The runner turns the success of an aborted  *)
(* handler into a recoverable interruption (SkillRunner!Verdict); a        *)
(* missing permission, a passed mission deadline or invalid parameters are *)
(* fatal without a handler having run.                                     *)
(***************************************************************************)
(* (Mutant: the abort is not looked at.)                                   *)
OutcomesIgnoringAbort(c) == {"ok", "retry", "fatal"}

Outcomes(c) == IF c.handler = "live" THEN {"ok", "retry", "fatal"} ELSE {"retry", "fatal"}

Backoff(attempt) == IF attempt <= 6 THEN 2 ^ (attempt - 1) ELSE 60

RetryAt(attempt) ==  \* the bound on the clock cuts the delay short
  IF now + Backoff(attempt) \in Time THEN now + Backoff(attempt) ELSE MaxTime

(* The result is dropped when the plan was paused or cancelled meanwhile,  *)
(* or the step is no longer running.                                       *)
(* (Mutant: only the plan is looked at.)                                   *)
DropIfStopped(c) ==
  plan[c.plan].status \in {"paused", "cancelled"}

Dropped(c) ==
  \/ plan[c.plan].status \in {"paused", "cancelled"}
  \/ step[c.plan][c.step].status # "running"

(* completeTaskStep()                                                      *)
CompletedSteps(c) ==
  [step EXCEPT ![c.plan][c.step].status = "completed",
               ![c.plan][c.step].doneBy = c.attempt]

PlanAfterCompletion(c) ==
  IF \A s \in Steps \ {c.step} : step[c.plan][s].status = "completed"
  THEN [plan EXCEPT ![c.plan].status = "completed", ![c.plan].announced = @ + 1]
  ELSE [plan EXCEPT ![c.plan].status = "running"]

(* failTaskStep(): both the engine, by the attempt it claimed, and the     *)
(* store, by the row as it now is, must grant another attempt.             *)
MayRetry(c, out) ==
  /\ out = "retry"
  /\ c.attempt < MaxAttempts
  /\ step[c.plan][c.step].attempts < MaxAttempts

FailedSteps(c, out) ==
  IF MayRetry(c, out)
  THEN [step EXCEPT ![c.plan][c.step].status = "retry_wait",
                    ![c.plan][c.step].next = RetryAt(c.attempt)]
  ELSE [step EXCEPT ![c.plan][c.step].status = "failed", ![c.plan][c.step].next = 0]

PlanAfterFailure(c, out) ==
  IF MayRetry(c, out)
  THEN [plan EXCEPT ![c.plan].status = "running"]
  ELSE [plan EXCEPT ![c.plan].status = "failed", ![c.plan].announced = @ + 1]

(* The handler settles: its result is recorded or dropped, and the loop    *)
(* goes on to its next await.                                              *)
HandlerReturns(e) ==
  LET c == engine[e].claim
  IN /\ Draining(e)
     /\ \E out \in Outcomes(c) :
          IF Dropped(c) THEN Loop(e, plan, step, engine)
          ELSE IF out = "ok"
          THEN Loop(e, PlanAfterCompletion(c), CompletedSteps(c), engine)
          ELSE Loop(e, PlanAfterFailure(c, out), FailedSteps(c, out), engine)
     /\ UNCHANGED <<now, pauses, faults>>

(* The drain loop throws, for instance because a row cannot be read or     *)
(* the run cannot be recorded: the step stays as it was.  (An engine that  *)
(* was stopped has nothing to go on with.)                                 *)
Swallowed(e) ==
  IF engine[e].phase = "started"
  THEN {<<engine[e].claim.plan, engine[e].claim.step, engine[e].claim.attempt>>} ELSE {}

Thrown(e) ==
  [engine EXCEPT ![e].lost = @ \cup Swallowed(e), ![e].threw = engine[e].phase = "started"]

DrainFails(e) ==
  /\ Draining(e)
  /\ faults < MaxFaults
  /\ faults' = faults + 1
  /\ engine' = Idle(e, plan, step, Thrown(e))
  /\ UNCHANGED <<now, plan, step, pauses>>

-----------------------------------------------------------------------------
(***************************************************************************)
(* The plans' operations, through the current connection's engine.         *)
(***************************************************************************)
Aborted(e, en) ==
  IF Draining(e) THEN [en EXCEPT ![e].claim.handler = "aborted"] ELSE en

(* create(), or a mission's materialization followed by wake().  An equal  *)
(* plan that is still active is returned instead, which changes nothing.   *)
Create(e, p) ==
  /\ Current(e)
  /\ plan[p].status = "none" /\ \A q \in Plans : q < p => plan[q].status # "none"
  /\ plan' = [plan EXCEPT ![p].status = "pending",
                          ![p].mission = IF p \in Linked THEN "running" ELSE "none"]
  /\ engine' = Scheduled(e, now)
  /\ UNCHANGED <<now, step, pauses, faults>>

(* The task tool leaves a linked mission run alone, the mission service    *)
(* and the stop tool carry it along.                                       *)
Held(p)     == IF p \in Linked THEN {"held"} ELSE {}
Released(p) == IF p \in Linked THEN {"running"} ELSE {}

(* The running step of a plan waits for its turn again.                    *)
PutBack(f) ==
  [s \in Steps |-> IF f[s].status = "running"
                   THEN [f[s] EXCEPT !.status = "pending", !.next = 0] ELSE f[s]]

(* Mutant of PausedSteps: the running step is left as it is.               *)
StepsLeftRunning(p) == step

PausedSteps(p) == [step EXCEPT ![p] = PutBack(step[p])]

(* pause(), alone or with the mission: by the task tool, by the mission    *)
(* service, by the stop tool and the emergency stop.                       *)
Pausable(e, p) ==
  /\ Current(e)
  /\ pauses < MaxPauses /\ pauses' = pauses + 1
  /\ plan[p].status \in {"pending", "running"}

Pause(e, p) ==
  /\ Pausable(e, p)
  /\ \E m \in {plan[p].mission} \cup Held(p) :
       plan' = [plan EXCEPT ![p].status = "paused", ![p].mission = m]
  /\ step' = PausedSteps(p)
  /\ engine' = IF engine[e].claim.plan = p THEN Aborted(e, engine) ELSE engine
  /\ UNCHANGED <<now, faults>>

(* The process dies: only the tables survive.                              *)
Off(f) == [f EXCEPT !.phase = "stopped", !.timer = Never, !.lost = {}, !.threw = FALSE]

AllStopped ==
  [e \in Engines |->
     IF engine[e].phase = "absent" THEN engine[e]
     ELSE [Off(engine[e]) EXCEPT !.claim = NoClaim]]

(* pauseTaskPlan() updates the plan and then its steps, each in its own    *)
(* transaction: the process may die between the two.                       *)
PauseCut(e, p) ==
  /\ Pausable(e, p)
  /\ plan' = [plan EXCEPT ![p].status = "paused"]
  /\ engine' = AllStopped
  /\ UNCHANGED <<now, step, faults>>

(* resume(), alone or with the mission.                                    *)
Resume(e, p) ==
  /\ Current(e)
  /\ plan[p].status = "paused"
  /\ \E m \in {plan[p].mission} \cup Released(p) :
       plan' = [plan EXCEPT ![p].status = "pending", ![p].mission = m]
  /\ engine' = Scheduled(e, now)
  /\ UNCHANGED <<now, step, pauses, faults>>

CancelledSteps(p) ==
  [step EXCEPT ![p] = [s \in Steps |->
     IF step[p][s].status = "completed" THEN step[p][s]
     ELSE [step[p][s] EXCEPT !.status = "cancelled", !.next = 0]]]

Cancel(e, p) ==
  /\ Current(e)
  /\ plan[p].status \notin Terminal \cup {"none"}
  /\ \E m \in {plan[p].mission} \cup Held(p) :
       plan' = [plan EXCEPT ![p].status = "cancelled", ![p].mission = m]
  /\ step' = CancelledSteps(p)
  /\ engine' = IF engine[e].claim.plan = p THEN Aborted(e, engine) ELSE engine
  /\ UNCHANGED <<now, pauses, faults>>

-----------------------------------------------------------------------------
(***************************************************************************)
(* Connections and the bot's life.                                         *)
(***************************************************************************)
Connect(e) ==
  /\ engine[e].phase = "absent"
  /\ \A f \in Engines : f < e => engine[f].phase = "stopped"
  /\ engine' = [engine EXCEPT ![e].phase = "new"]
  /\ UNCHANGED <<now, plan, step, pauses, faults>>

(* Mutant of ReconciledSteps: the interrupted step is not reset.           *)
InterruptedLeftRunning == step

ReconciledSteps == [p \in Plans |-> PutBack(step[p])]

ReconciledPlans ==
  [p \in Plans |-> IF plan[p].status = "running"
                   THEN [plan[p] EXCEPT !.status = "pending"] ELSE plan[p]]

(* The first spawn: start() reconciles what an earlier engine left running *)
(* and wakes.  Any later spawn: resumeExecution().                         *)
Spawn(e) ==
  /\ Current(e)
  /\ \/ /\ engine[e].phase = "new"
        /\ step' = ReconciledSteps
        /\ plan' = ReconciledPlans
        /\ engine' = [engine EXCEPT ![e].phase = "started", ![e].available = TRUE,
                                    ![e].timer = now]
     \/ /\ engine[e].phase = "started"
        /\ engine' = [engine EXCEPT ![e].available = TRUE, ![e].timer = now]
        /\ UNCHANGED <<plan, step>>
  /\ UNCHANGED <<now, pauses, faults>>

(* suspend() and cancel() of the runner's active skill.                    *)
Death(e) ==
  /\ Current(e)
  /\ engine' = Aborted(e, [engine EXCEPT ![e].available = FALSE, ![e].timer = Never])
  /\ UNCHANGED <<now, plan, step, pauses, faults>>

(* A direct skill or a reflex takes the runner's slot.                     *)
Preempt(e) ==
  /\ engine[e].claim.handler = "live"
  /\ engine' = Aborted(e, engine)
  /\ UNCHANGED <<now, plan, step, pauses, faults>>

(* dispose(): the active skill is cancelled and the engine stopped; its    *)
(* drain loop, if any, still awaits its handler.                           *)
Disconnect(e) ==
  /\ Current(e)
  /\ engine' = Aborted(e, [engine EXCEPT ![e] = Off(@)])
  /\ UNCHANGED <<now, plan, step, pauses, faults>>

Crash ==
  /\ \E e \in Engines : Current(e) \/ Draining(e)
  /\ engine' = AllStopped
  /\ UNCHANGED <<now, plan, step, pauses, faults>>

Tick ==
  /\ now < MaxTime
  /\ now' = now + 1
  /\ UNCHANGED <<plan, step, engine, pauses, faults>>

EngineStep(e) ==
  \/ WakeFires(e) \/ HandlerReturns(e) \/ DrainFails(e)
  \/ Connect(e) \/ Spawn(e) \/ Death(e) \/ Preempt(e) \/ Disconnect(e)

PlanStep(e, p) ==
  Create(e, p) \/ Pause(e, p) \/ PauseCut(e, p) \/ Resume(e, p) \/ Cancel(e, p)

Next ==
  \/ \E e \in Engines : EngineStep(e)
  \/ \E e \in Engines, p \in Plans : PlanStep(e, p)
  \/ Crash
  \/ Tick

Spec == Init /\ [][Next]_vars

(* Time passes and the event loop fires due timers.  Nothing is assumed of *)
(* handlers, of the connection or of the users.                            *)
FairSpec ==
  /\ Spec
  /\ WF_vars(Tick)
  /\ \A e \in Engines : WF_vars(WakeFires(e))

-----------------------------------------------------------------------------
(***************************************************************************)
(* Safety.                                                                 *)
(***************************************************************************)

(* The queue is in order: whatever was attempted, all of it before is done.*)
StepsInOrder ==
  \A p \in Plans : \A s \in Steps, t \in Steps :
    s < t /\ step[p][t].status \in {"running", "retry_wait", "completed", "failed"}
      => step[p][s].status = "completed"

(* The two tables agree, though each is written by several operations that *)
(* may come between a step's claim and its result.  Only a pause that was  *)
(* cut short leaves a running step in a plan that does not run, and only   *)
(* until an engine starts: never while one works or awaits a handler.      *)
Attended == \E e \in Engines : engine[e].phase = "started" \/ Draining(e)

PlanMirrorsSteps ==
  \A p \in Plans :
    /\ plan[p].status = "completed" <=> \A s \in Steps : step[p][s].status = "completed"
    /\ plan[p].status = "failed" <=> \E s \in Steps : step[p][s].status = "failed"
    /\ plan[p].status = "cancelled" <=> \E s \in Steps : step[p][s].status = "cancelled"
    /\ Attended /\ (\E s \in Steps : step[p][s].status = "running")
         => plan[p].status = "running"

(* A running step is the one the current engine awaits, whatever earlier   *)
(* engines still await, or its attempt was lost to an exception.           *)
LostBy(e, p, s) == <<p, s, step[p][s].attempts>> \in engine[e].lost

RunningIsClaimed ==
  \A e \in Engines :
    Current(e) /\ engine[e].phase = "started" =>
      \A p \in Plans, s \in Steps :
        step[p][s].status = "running" =>
          \/ engine[e].claim.plan = p /\ engine[e].claim.step = s
          \/ LostBy(e, p, s)

(* A plan ends once: its end is announced exactly once, by whichever       *)
(* engine records it, and cancelling announces nothing.                    *)
EndAnnouncedOnce ==
  \A p \in Plans :
    plan[p].announced = IF plan[p].status \in {"completed", "failed"} THEN 1 ELSE 0

(* A step is completed only by the attempt that is running, never by the   *)
(* late answer of an earlier engine's handler.                             *)
CompletedByOwnAttempt ==
  \A p \in Plans, s \in Steps :
    step[p][s].status = "completed" => step[p][s].doneBy = step[p][s].attempts

(* While the current engine serves, is idle and has no timer armed, no     *)
(* running plan waits for a retry, except of an attempt lost to an         *)
(* exception, and no pending step may be claimed, except right after one.  *)
NoLostWake ==
  \A e \in Engines :
    Current(e) /\ Serving(e) /\ ~Draining(e) /\ engine[e].timer = Never =>
      \A p \in Plans, s \in Steps :
        /\ plan[p].status = "running" /\ step[p][s].status = "retry_wait" => LostBy(e, p, s)
        /\ Claimable(plan, step, p, s) /\ step[p][s].status = "pending" => engine[e].threw

(* A step that is running, a pending step that may be claimed and the      *)
(* retry of a plan that is running are in somebody's hands, a handler's or *)
(* a timer's, after any crash, reconnection, death or pause: only an       *)
(* exception of the drain loop drops the attempt it was at.  A plan that   *)
(* is pending while its step waits for a retry is not spoken of.           *)
NoLostWork == RunningIsClaimed /\ NoLostWake

(* What the README promises ("resume durable work across restarts"): no    *)
(* retry is forgotten.  While the current engine serves, idle and without  *)
(* a timer, no plan that may run waits for one.                            *)
NoRetryForgotten ==
  \A e \in Engines :
    Current(e) /\ Serving(e) /\ ~Draining(e) /\ engine[e].timer = Never =>
      \A p \in Plans, s \in Steps :
        plan[p].status \in {"pending", "running"} /\ plan[p].mission # "held"
          => step[p][s].status # "retry_wait"

(***************************************************************************)
(* What the engine's clients rely on.                                      *)
(***************************************************************************)

Lifecycle == INSTANCE PlanLifecycle
               WITH status    <- [p \in Plans |-> plan[p].status],
                    announced <- [p \in Plans |-> plan[p].announced]

(* Through deaths, reconnections, restarts and handlers that answer late,  *)
(* every plan lives as PlanLifecycle says: it only ends while it runs, is  *)
(* announced in the very step that ends it, and an end is final.           *)
KeepsLifecycle == Lifecycle!Spec

(***************************************************************************)
(* Liveness.                                                               *)
(***************************************************************************)

(* A plan whose next step waits for its retry gets it, or is paused, ended *)
(* or interrupted, or the engine is busy or out of service.                *)
Serves == \E e \in Engines : Current(e) /\ Serving(e) /\ ~Draining(e)

AwaitsRetry(p) ==
  Serves /\ plan[p].status = "running" /\ \E s \in Steps : step[p][s].status = "retry_wait"

RetriesHappen == \A p \in Plans : AwaitsRetry(p) ~> ~AwaitsRetry(p)

=============================================================================
