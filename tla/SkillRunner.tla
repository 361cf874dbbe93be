---------------------------- MODULE SkillRunner ----------------------------
(***************************************************************************)
(* The single-slot skill runner (src/skills/runner.ts), the reflex layer   *)
(* that preempts it (src/reactive/preempt.ts) and the emergency stop       *)
(* (src/runtime/emergencyStop.ts).                                         *)
(*                                                                         *)
(* One JavaScript thread runs everything, so a function body up to its     *)
(* next `await` is one action.  What interleaves is: new invocations by    *)
(* the agent (direct) and by the task engine (durable), the settlement of  *)
(* skill handlers, the deadline timers, the reflex and its timeout, and    *)
(* cancellations.  A handler that was aborted keeps running until it       *)
(* settles; nothing forces it to.                                          *)
(***************************************************************************)
EXTENDS Integers, FiniteSets

CONSTANTS
  Runs,        \* the invocations: one identity per AbortController
  Work,        \* a skill together with its parsed parameters
  NoRun,       \* "no invocation" (active === null, lastFired === null)
  MaxTime,     \* bound on the clock
  MaxTimer,    \* the largest delay one setTimeout may take (2^31-1 ms)
  ReflexLimit, \* timeoutMs of one reflex
  Cooldown     \* cooldownMs between reflex firings

ASSUME RunnerAssumption ==
  /\ NoRun \notin Runs
  /\ MaxTime \in Nat /\ MaxTimer \in Nat \ {0}
  /\ ReflexLimit \in Nat \ {0} /\ Cooldown \in Nat

VARIABLES
  now,       \* Date.now()
  run,       \* run[r]: everything one invocation's closure holds
  active,    \* the ActiveRun slot
  lastFired, \* the invocation restart() repeats
  reflex     \* the preempt controller

vars == <<now, run, active, lastFired, reflex>>

Time     == 0 .. MaxTime
Never    == MaxTime + 1            \* no deadline, no timer armed
Deadline == 1 .. Never

(* The phases of an invocation.  "unused" is an identity not handed out,   *)
(* "refused" and "duplicate" returned before any handler was called,       *)
(* "pending" has a handler that has not settled, "settled" has.            *)
Phase  == {"unused", "refused", "duplicate", "pending", "settled"}
Result == {"none", "ok", "failed", "interrupted", "timedOut"}
Row    == {"none", "running", "ok", "failed", "cancelled"}  \* skill_runs.status
Origin == {"direct", "durable", "restart"}

Invocation ==
  [phase : Phase, work : Work \cup {NoRun}, origin : Origin,
   valid : BOOLEAN, deadline : Deadline, timerAt : 0 .. Never,
   aborted : BOOLEAN, timedOut : BOOLEAN, manual : BOOLEAN,
   result : Result, row : Row, emitted : BOOLEAN, overdue : BOOLEAN]

Preemption ==
  [firing : BOOLEAN, aborted : BOOLEAN, timerAt : 0 .. Never,
   restart : BOOLEAN, readyAt : 0 .. MaxTime + Cooldown]

TypeOK ==
  /\ now \in Time
  /\ run \in [Runs -> Invocation]
  /\ active \in Runs \cup {NoRun}
  /\ lastFired \in Runs \cup {NoRun}
  /\ reflex \in Preemption

Init ==
  /\ now = 0
  /\ run = [r \in Runs |->
             [phase |-> "unused", work |-> NoRun, origin |-> "direct",
              valid |-> TRUE, deadline |-> Never, timerAt |-> Never,
              aborted |-> FALSE, timedOut |-> FALSE, manual |-> FALSE,
              result |-> "none", row |-> "none", emitted |-> FALSE,
              overdue |-> FALSE]]
  /\ active = NoRun
  /\ lastFired = NoRun
  /\ reflex = [firing |-> FALSE, aborted |-> FALSE, timerAt |-> Never,
               restart |-> FALSE, readyAt |-> 0]

Expired(d) == d # Never /\ now >= d

TimerFor(d) ==  \* the fire time of setTimeout(.., min(max(0, d - now), MaxTimer))
  IF d = Never THEN Never
  ELSE IF d <= now THEN now
  ELSE IF d - now <= MaxTimer THEN d ELSE now + MaxTimer

(* Mutant of Cancelled: the signal is not aborted.                         *)
CancelledWithoutAbort(f) ==
  IF active = NoRun THEN f
  ELSE [f EXCEPT ![active].timerAt = Never, ![active].manual = TRUE]

(***************************************************************************)
(* cancel(): the active run's timer is cleared, it is marked as manually   *)
(* cancelled, its signal aborts, and the slot is freed.                    *)
(***************************************************************************)
Cancelled(f) ==
  IF active = NoRun THEN f
  ELSE [f EXCEPT ![active].timerAt = Never, ![active].manual = TRUE,
                 ![active].aborted = TRUE]

(***************************************************************************)
(* run(): the synchronous part of one invocation r, up to the handler's    *)
(* first await.  The invocation is recorded as the last fired before it is *)
(* validated; an expired deadline or invalid parameters refuse it with no  *)
(* side effect; a direct request equal to the active run is acknowledged   *)
(* without a handler; otherwise the active run is cancelled and replaced.  *)
(***************************************************************************)
IsDuplicate(w, origin) ==
  /\ origin # "durable"
  /\ active # NoRun
  /\ run[active].work = w

Opened(r, w, origin, ok, d) ==
  [run[r] EXCEPT !.work = w, !.origin = origin, !.valid = ok, !.deadline = d]

Invoke(r, w, origin, ok, d) ==
  /\ run[r].phase = "unused"
  /\ lastFired' = r
  /\ LET opened == Opened(r, w, origin, ok, d)
     IN \/ /\ Expired(d)
           /\ run' = [run EXCEPT ![r] = [opened EXCEPT !.phase = "refused",
                                           !.result = "timedOut", !.overdue = TRUE]]
           /\ UNCHANGED active
        \/ /\ ~Expired(d) /\ ~ok
           /\ run' = [run EXCEPT ![r] = [opened EXCEPT !.phase = "refused",
                                           !.result = "failed"]]
           /\ UNCHANGED active
        \/ /\ ~Expired(d) /\ ok /\ IsDuplicate(w, origin)
           /\ run' = [run EXCEPT ![r] = [opened EXCEPT !.phase = "duplicate",
                                           !.result = "ok"]]
           /\ UNCHANGED active
        \/ /\ ~Expired(d) /\ ok /\ ~IsDuplicate(w, origin)
           /\ run' = [Cancelled(run) EXCEPT
                        ![r] = [opened EXCEPT !.phase = "pending", !.row = "running",
                                              !.timerAt = TimerFor(d)]]
           /\ active' = r

(* A tool call of the agent: awaited or fire-and-forget, no deadline.      *)
DirectRequest(r) ==
  /\ \E w \in Work, ok \in BOOLEAN : Invoke(r, w, "direct", ok, Never)
  /\ UNCHANGED <<now, reflex>>

(* A step of the task engine (waitForCompletion, emitTrigger = false); a   *)
(* linked mission run supplies a deadline.                                 *)
DurableRequest(r) ==
  /\ \E w \in Work, ok \in BOOLEAN, d \in Deadline : Invoke(r, w, "durable", ok, d)
  /\ UNCHANGED <<now, reflex>>

(***************************************************************************)
(* completeRun(): what follows the await of skill.run.  The handler        *)
(* returned ok, returned a failure, or threw.  A deadline that passed      *)
(* unnoticed is noticed here, unless the run was cancelled by hand.        *)
(***************************************************************************)
Outcome == {"ok", "failed", "throw"}

Verdict(i, out, late) ==
  CASE late                                   -> "timedOut"
    [] ~late /\ out = "ok" /\ ~i.aborted      -> "ok"
    [] ~late /\ out # "failed" /\ i.aborted   -> "interrupted"
    [] OTHER                                  -> "failed"

RowStatus(i, verdict, late) ==
  CASE late                   -> "failed"
    [] ~late /\ i.aborted     -> "cancelled"
    [] OTHER                  -> IF verdict = "ok" THEN "ok" ELSE "failed"

Settled(i, out, late, emitted) ==
  LET verdict == Verdict(i, out, late)
  IN [i EXCEPT !.phase = "settled", !.timedOut = late, !.timerAt = Never,
               !.result = verdict, !.row = RowStatus(i, verdict, late),
               !.emitted = emitted, !.overdue = Expired(i.deadline)]

(* Mutant of Noticed: the deadline is not checked again when the handler   *)
(* returns.                                                                *)
OnlyTheTimerNotices(i) == i.timedOut

Noticed(i) == i.timedOut \/ (~i.manual /\ Expired(i.deadline))

(* Mutant of Announced: every aborted run stays silent on the bus.         *)
SilentIfAborted(i, late) == i.origin # "durable" /\ ~i.aborted

Announced(i, late) == i.origin # "durable" /\ (~i.aborted \/ late)

HandlerSettles(r, out) ==
  LET late == Noticed(run[r])
  IN /\ run[r].phase = "pending"
     /\ run' = [run EXCEPT ![r] = Settled(@, out, late, Announced(@, late))]
     /\ active' = IF active = r THEN NoRun ELSE active
     /\ UNCHANGED <<now, lastFired, reflex>>

(* Mutant of DeadlineTimer: a timer that fires early is not armed again.   *)
DeadlineTimerOnce(r) ==
  /\ run[r].timerAt # Never /\ now >= run[r].timerAt
  /\ IF run[r].deadline > now
     THEN run' = [run EXCEPT ![r].timerAt = Never] /\ UNCHANGED active
     ELSE /\ run' = [run EXCEPT ![r].timerAt = Never, ![r].timedOut = TRUE,
                                ![r].aborted = TRUE]
          /\ active' = IF active = r THEN NoRun ELSE active
  /\ UNCHANGED <<now, lastFired, reflex>>

(***************************************************************************)
(* expireAtDeadline(): a bounded timer that fires early is armed again; a  *)
(* reached deadline frees the slot and aborts the signal.                  *)
(***************************************************************************)
DeadlineTimer(r) ==
  /\ run[r].timerAt # Never /\ now >= run[r].timerAt
  /\ \/ /\ run[r].deadline > now
        /\ run' = [run EXCEPT ![r].timerAt = TimerFor(run[r].deadline)]
        /\ UNCHANGED active
     \/ /\ run[r].deadline <= now
        /\ run' = [run EXCEPT ![r].timerAt = Never, ![r].timedOut = TRUE,
                              ![r].aborted = TRUE]
        /\ active' = IF active = r THEN NoRun ELSE active
  /\ UNCHANGED <<now, lastFired, reflex>>

(* cancel() by the stop tool, the task engine, death or disconnection.     *)
Cancel ==
  /\ active # NoRun
  /\ run' = Cancelled(run)
  /\ active' = NoRun
  /\ UNCHANGED <<now, lastFired, reflex>>

(* Mutant of ReflexTimer: the hard cap is never armed.                     *)
NoReflexTimer == Never

(* When the reflex's timeout is due; the clock's bound cuts it short.      *)
ReflexTimer == IF now + ReflexLimit <= MaxTime THEN now + ReflexLimit ELSE MaxTime

(***************************************************************************)
(* The reflex layer.  tick() fires at most one reflex at a time and        *)
(* respects the cooldown; fire() remembers whether a skill was active and  *)
(* may be restarted, cancels it, and awaits the reflex.                    *)
(***************************************************************************)
ReflexFires ==
  /\ ~reflex.firing /\ now >= reflex.readyAt
  /\ reflex' = [reflex EXCEPT !.firing = TRUE, !.aborted = FALSE,
                  !.timerAt = ReflexTimer,
                  !.restart = active # NoRun /\ run[active].origin # "durable"]
  /\ run' = Cancelled(run)
  /\ active' = NoRun
  /\ UNCHANGED <<now, lastFired>>

ReflexTimeout ==
  /\ reflex.firing /\ ~reflex.aborted /\ now >= reflex.timerAt
  /\ reflex' = [reflex EXCEPT !.aborted = TRUE]
  /\ UNCHANGED <<now, run, active, lastFired>>

ReflexDone ==
  reflex' = [reflex EXCEPT !.firing = FALSE, !.aborted = FALSE, !.timerAt = Never,
                           !.restart = FALSE, !.readyAt = now + Cooldown]

(* The reflex threw: nothing is restarted.                                 *)
ReflexThrows ==
  /\ reflex.firing
  /\ ReflexDone
  /\ UNCHANGED <<now, run, active, lastFired>>

(* The reflex returned, aborted or not: restart() runs the last fired      *)
(* invocation again, without waitForCompletion, when a restartable skill   *)
(* had been preempted.                                                     *)
ReflexReturns(r) ==
  /\ reflex.firing
  /\ ReflexDone
  /\ \/ /\ reflex.restart
        /\ Invoke(r, run[lastFired].work, "restart", run[lastFired].valid,
                  run[lastFired].deadline)
     \/ /\ ~reflex.restart
        /\ UNCHANGED <<run, active, lastFired>>
  /\ UNCHANGED now

(***************************************************************************)
(* The emergency stop: abort the reflex in progress, then cancel the       *)
(* active skill, in one synchronous sweep.                                 *)
(***************************************************************************)
EmergencyStop ==
  /\ reflex' = [reflex EXCEPT !.aborted = reflex.firing]
  /\ run' = Cancelled(run)
  /\ active' = NoRun
  /\ UNCHANGED <<now, lastFired>>

Tick ==
  /\ now < MaxTime
  /\ now' = now + 1
  /\ UNCHANGED <<run, active, lastFired, reflex>>

Request  == \E r \in Runs : DirectRequest(r) \/ DurableRequest(r)

Internal ==
  \/ \E r \in Runs :
       \/ DeadlineTimer(r) \/ ReflexReturns(r)
       \/ \E out \in Outcome : HandlerSettles(r, out)
  \/ Cancel \/ ReflexFires \/ ReflexTimeout \/ ReflexThrows \/ Tick

Next == Request \/ Internal \/ EmergencyStop

Spec == Init /\ [][Next]_vars

(* Node's event loop fires due timers, and time passes; a reflex whose     *)
(* signal was aborted settles.  Nothing is assumed of skill handlers, nor  *)
(* of a reflex that was not aborted.                                       *)
AbortedReflexSettles ==
  reflex.aborted /\ (ReflexThrows \/ \E r \in Runs : ReflexReturns(r))

FairSpec ==
  /\ Spec
  /\ WF_vars(Tick)
  /\ \A r \in Runs : WF_vars(DeadlineTimer(r))
  /\ WF_vars(ReflexTimeout)
  /\ WF_vars(AbortedReflexSettles)

-----------------------------------------------------------------------------
(***************************************************************************)
(* Safety.                                                                 *)
(***************************************************************************)

(* At most one handler drives the bot: an invocation whose signal is not   *)
(* aborted and whose handler has not settled is exactly the active one.    *)
(* Every path that frees the slot must abort the signal, and the reverse.  *)
OnlyActiveMayAct ==
  \A r \in Runs : (run[r].phase = "pending" /\ ~run[r].aborted) <=> active = r

(* A deadline alarm is armed only for the active run, so it never fires    *)
(* into a run that was replaced, cancelled, or has settled.                *)
TimersBelongToActive ==
  \A r \in Runs : run[r].timerAt # Never => active = r

(* Cancellation by hand and a timeout exclude each other, whichever comes  *)
(* first: the engine must not retry a TIMED_OUT step nor give up on one    *)
(* that a user preempted.                                                  *)
VerdictsExclusive ==
  \A r \in Runs : ~(run[r].manual /\ run[r].timedOut)

(* No success is reported at or after the deadline, however late the timer *)
(* and however many times a bounded timer had to be armed again; the only  *)
(* acknowledgement exempt is the duplicate's, which a durable invocation   *)
(* never gets.                                                             *)
NoLateSuccess ==
  \A r \in Runs :
    run[r].result = "ok" =>
      \/ run[r].phase = "settled" /\ ~run[r].overdue
      \/ run[r].phase = "duplicate" /\ run[r].origin # "durable"

(* The skill_runs row closes with the handler, and only runs closed as     *)
(* "cancelled" stay silent on the bus.                                     *)
RowTellsTheTruth ==
  \A r \in Runs :
    /\ run[r].row = "running" <=> run[r].phase = "pending"
    /\ run[r].row = "ok" => run[r].result = "ok" /\ ~run[r].aborted
    /\ run[r].phase = "settled" /\ run[r].origin # "durable"
         => (run[r].emitted <=> run[r].row # "cancelled")

(***************************************************************************)
(* Liveness.                                                               *)
(***************************************************************************)

(* A deadline is enforced even if the handler never looks at its signal:   *)
(* the run settles or is aborted.                                          *)
DeadlineEnforced ==
  \A r \in Runs :
    (run[r].phase = "pending" /\ run[r].deadline # Never)
      ~> (run[r].phase = "settled" \/ run[r].aborted)

(* A reflex cannot hold the reflex layer for good: the hard cap aborts it. *)
ReflexReleased == reflex.firing ~> ~reflex.firing

(* Both, whatever the handler and the reflex do: only timers are trusted.  *)
TimersEnforced == DeadlineEnforced /\ ReflexReleased

=============================================================================
