----------------------------- MODULE MissionRuns -----------------------------
(***************************************************************************)
(* A mission run, its task plan and its construction jobs: three tables    *)
(* (src/missions/store.ts, src/tasks/store.ts, src/construction/store.ts)  *)
(* that the mission service, the construction manager, the task tools and  *)
(* the build skill each write in transactions of their own.                *)
(*                                                                         *)
(* An operation is a sequence of committed writes that nothing in the      *)
(* process interleaves with, but that the end of the process may cut       *)
(* short.  Each connection has services and an engine of its own; those of *)
(* a lost connection hear nothing more, while the build they had started   *)
(* may still report its result to the tables.                              *)
(*                                                                         *)
(* The queue inside a plan is TaskEngine's subject: here a plan is a range *)
(* of jobs, each with a step that prepares its materials and writes none   *)
(* of the tables, and a step that builds it.                               *)
(***************************************************************************)
EXTENDS Integers, Sequences

CONSTANTS
  NMission,    \* builds of the mission: the jobs 1 .. NMission
  NJobs,       \* jobs; those above NMission are started on their own
  NPlans,      \* bound on task plans
  NEngines,    \* bound on connections
  MaxAttempts  \* max_attempts of a build step

ASSUME MissionAssumption ==
  /\ NMission \in Nat \ {0} /\ NJobs \in Nat /\ NMission <= NJobs
  /\ NPlans \in Nat \ {0} /\ NEngines \in Nat \ {0} /\ MaxAttempts \in Nat \ {0}

Jobs    == 1 .. NJobs
Plans   == 1 .. NPlans
Engines == 1 .. NEngines

VARIABLES
  db,     \* the tables: [run, plan, job]
  engine, \* the connections: services, engine and running build
  aside   \* the mission's plan was touched behind the mission's back since
          \* the mission service last compared the tables (for the properties)

vars == <<db, engine, aside>>

RunStatus  == {"none", "pending", "running", "paused", "completed", "failed", "cancelled"}
PlanStatus == RunStatus
JobStatus  == RunStatus \cup {"blocked"}
Terminal   == {"completed", "failed", "cancelled"}
Active     == {"pending", "running", "paused"}

NoBuild == [plan |-> 0, job |-> 0, tries |-> 0, phase |-> "none", aborted |-> FALSE]
Build   == [plan : Plans, job : Jobs, tries : 1 .. MaxAttempts,
            phase : {"preparing", "building"}, aborted : BOOLEAN]

TypeOK ==
  /\ db \in [run  : [status : RunStatus, plan : 0 .. NPlans],
             plan : [Plans -> [status : PlanStatus, at : 0 .. NJobs, last : 0 .. NJobs,
                               stage : {"prepare", "build"}, step : {"waiting", "running"},
                               tries : 0 .. MaxAttempts]],
             job  : [Jobs -> [status : JobStatus, plan : 0 .. NPlans]]]
  /\ engine \in [Engines -> [phase : {"absent", "up", "serving", "down"},
                             build : Build \cup {NoBuild}]]
  /\ aside \in BOOLEAN

Init ==
  /\ db = [run  |-> [status |-> "none", plan |-> 0],
           plan |-> [p \in Plans |-> [status |-> "none", at |-> 0, last |-> 0, stage |-> "prepare",
                                      step |-> "waiting", tries |-> 0]],
           job  |-> [j \in Jobs |-> [status |-> "none", plan |-> 0]]]
  /\ engine = [e \in Engines |-> [phase |-> "absent", build |-> NoBuild]]
  /\ aside = FALSE

Connected(e) == engine[e].phase \in {"up", "serving"}
Building(e)  == engine[e].build # NoBuild

-----------------------------------------------------------------------------
(***************************************************************************)
(* Writes: each maps the tables d to the tables after one transaction.     *)
(***************************************************************************)

(* MISSION_TRANSITIONS: any other transition throws, and is only logged.   *)
Transitions ==
  [none |-> {}, pending |-> {"running", "paused", "failed", "cancelled"},
   running |-> {"paused", "completed", "failed", "cancelled"},
   paused |-> {"pending", "cancelled"},
   completed |-> {}, failed |-> {}, cancelled |-> {}]

(* A pending run starts only with its plan and all its jobs in place.      *)
Materialized(d) ==
  /\ d.plan[d.run.plan].status \in {"pending", "running"}
  /\ \A j \in 1 .. NMission : d.job[j].plan = d.run.plan

RunMayBecome(d, s) ==
  /\ s \in Transitions[d.run.status]
  /\ d.run.status = "pending" /\ s = "running" => Materialized(d)

RunTo(d, s) == IF RunMayBecome(d, s) THEN [d EXCEPT !.run.status = s] ELSE d

(* DEFAULT_CONSTRUCTION_STATUS_SOURCES                                     *)
Sources(s) ==
  CASE s = "pending"   -> {"pending", "paused", "blocked", "failed"}
    [] s = "running"   -> {"pending", "running", "paused"}
    [] s = "paused"    -> {"pending", "running", "blocked", "paused"}
    [] s = "failed"    -> {"pending", "running", "failed"}
    [] s = "cancelled" -> {"pending", "running", "paused", "blocked", "failed", "cancelled"}

JobTo(d, j, s) ==
  IF d.job[j].status \in Sources(s) THEN [d EXCEPT !.job[j].status = s] ELSE d

JobsFrom(d, p, from, s) ==
  [d EXCEPT !.job = [j \in Jobs |->
     IF d.job[j].plan = p /\ d.job[j].status \in from
     THEN [d.job[j] EXCEPT !.status = s] ELSE d.job[j]]]

JobsTo(d, p, s) == JobsFrom(d, p, Sources(s), s)

(* Mutant of JobsEnd: the jobs that wait for the user are left alone.      *)
JobsEndRunning(d, p, s) == JobsTo(d, p, IF s = "cancelled" THEN s ELSE "failed")

(* reconcileConstructionJobsForTerminalTaskPlan(): a completed plan proves *)
(* no build.                                                               *)
JobsEnd(d, p, s) ==
  JobsFrom(d, p, {"pending", "running", "paused", "blocked", "failed"},
           IF s = "cancelled" THEN s ELSE "failed")

Pausable(d, p) == p # 0 /\ d.plan[p].status \in {"pending", "running"}
PlanPaused(d, p) ==
  IF Pausable(d, p)
  THEN [d EXCEPT !.plan[p].status = "paused", !.plan[p].step = "waiting"] ELSE d

PlanResumed(d, p) ==
  IF d.plan[p].status = "paused" THEN [d EXCEPT !.plan[p].status = "pending"] ELSE d

Cancellable(d, p) == p # 0 /\ d.plan[p].status \in Active
PlanCancelled(d, p) ==
  IF Cancellable(d, p)
  THEN [d EXCEPT !.plan[p].status = "cancelled", !.plan[p].step = "waiting"] ELSE d

NewPlan(first, last) ==
  [status |-> "pending", at |-> first, last |-> last, stage |-> "prepare",
   step |-> "waiting", tries |-> 0]

(* settleCompletedPlan(): the jobs the plan still has must all be built.   *)
Settled(d) ==
  IF d.run.status \notin {"pending", "running"} THEN d
  ELSE RunTo(d, IF \A j \in Jobs : d.job[j].plan = d.run.plan => d.job[j].status = "completed"
                THEN "completed" ELSE "failed")

-----------------------------------------------------------------------------
(***************************************************************************)
(* An operation commits the writes ds, or the process ends between two.    *)
(***************************************************************************)
AllDown == [e \in Engines |->
  IF engine[e].phase = "absent" THEN engine[e] ELSE [phase |-> "down", build |-> NoBuild]]

Commit(ds, en) ==
  \/ db' = ds[Len(ds)] /\ engine' = en
  \/ \E i \in 1 .. Len(ds) - 1 : db' = ds[i] /\ engine' = AllDown

(* Mutant of Aborted: the build goes on.                                   *)
NotAborted(p) == engine

(* The engine's pause() and cancel() abort the build of plan p.            *)
Aborted(p) ==
  [e \in Engines |-> IF Connected(e) /\ engine[e].build.plan = p /\ p # 0
                     THEN [engine[e] EXCEPT !.build.aborted = TRUE] ELSE engine[e]]

Linked(p) == p # 0 /\ p = db.run.plan

(* Behind: the mission service is not told what happens to plan p.         *)
Behind(p) == aside' = (aside \/ Linked(p))

-----------------------------------------------------------------------------
(***************************************************************************)
(* The mission service.                                                    *)
(***************************************************************************)

(* run(): one transaction creates the run, its jobs and its plan.          *)
Materialize(e, p) ==
  /\ Connected(e)
  /\ db.run.status = "none"
  /\ db.plan[p].status = "none" /\ \A q \in Plans : q < p => db.plan[q].status # "none"
  /\ db' = [run  |-> [status |-> "running", plan |-> p],
            plan |-> [db.plan EXCEPT ![p] = NewPlan(1, NMission)],
            job  |-> [j \in Jobs |-> IF j <= NMission THEN [status |-> "running", plan |-> p]
                                                      ELSE db.job[j]]]
  /\ UNCHANGED <<engine, aside>>

PauseRun(e) ==
  LET p  == db.run.plan
      d1 == PlanPaused(db, p)
      d2 == JobsTo(d1, p, "paused")
  IN /\ Connected(e)
     /\ db.run.status = "running" /\ Pausable(db, p)
     /\ Commit(<<d1, d2, RunTo(d2, "paused")>>, Aborted(p))
     /\ UNCHANGED aside

(* The plan may have left "paused" behind the mission's back: then, and    *)
(* when the run may not start, everything is put back on hold.             *)
ResumeRun(e) ==
  LET p  == db.run.plan
      d1 == RunTo(db, "pending")
      d2 == JobsTo(d1, p, "running")
      d3 == PlanResumed(d2, p)
      d4 == PlanPaused(d3, p)
      d5 == JobsTo(d4, p, "paused")
  IN /\ Connected(e)
     /\ db.run.status = "paused"
     /\ IF db.plan[p].status = "paused" /\ RunMayBecome(d3, "running")
        THEN Commit(<<d1, d2, d3, RunTo(d3, "running")>>, engine)
        ELSE Commit(<<d1, d2, d3, d4, d5, RunTo(d5, "paused")>>,
                    IF Pausable(d3, p) THEN Aborted(p) ELSE engine)
     /\ UNCHANGED aside

CancelRun(e) ==
  LET p  == db.run.plan
      d1 == PlanCancelled(db, p)
      d2 == JobsTo(d1, p, "cancelled")
  IN /\ Connected(e)
     /\ Cancellable(db, p)
     /\ Commit(<<d1, d2, RunTo(d2, "cancelled")>>, Aborted(p))
     /\ UNCHANGED aside

(* reconcile(): first the jobs of an ended plan whatever its run says,     *)
(* then the run by what its plan says.                                     *)
MissedJobs(d) ==
  LET p == d.run.plan
  IN IF p # 0 /\ d.plan[p].status \in Terminal
        /\ \E j \in Jobs : d.job[j].plan = p /\ d.job[j].status \in Active \cup {"blocked"}
     THEN JobsEnd(d, p, d.plan[p].status) ELSE d

Compared(d) ==
  LET p    == d.run.plan
      s    == d.plan[p].status
      ends == JobsEnd(d, p, s)
      held == JobsTo(d, p, "paused")
  IN IF d.run.status \notin Active THEN <<d>>
     ELSE CASE s = "completed" -> <<ends, Settled(ends)>>
            [] s \in {"failed", "cancelled"} -> <<ends, RunTo(ends, s)>>
            [] s = "paused" -> <<held, RunTo(held, s)>>
            [] s \in {"pending", "running"} ->
                 <<IF d.run.status = "pending" THEN RunTo(d, "running") ELSE d>>

Reconciled(d) == <<MissedJobs(d)>> \o Compared(MissedJobs(d))

-----------------------------------------------------------------------------
(***************************************************************************)
(* The construction manager.                                               *)
(***************************************************************************)

(* schedule() on tables d: a new plan, or the equal one that is still      *)
(* active (left behind when the process ended before it was linked), then  *)
(* the link, which a pending job only takes.                               *)
EqualPlan(d, j, p) ==
  d.plan[p].status \in Active /\ p # d.run.plan /\ d.plan[p].at = j

PlanFor(d, j, p) ==
  IF \E q \in Plans : EqualPlan(d, j, q) THEN EqualPlan(d, j, p)
  ELSE d.plan[p].status = "none" /\ \A q \in Plans : q < p => d.plan[q].status # "none"

Planned(d, j, p) ==
  IF EqualPlan(d, j, p) THEN d ELSE [d EXCEPT !.plan[p] = NewPlan(j, j)]

Attached(d, j, p) == [d EXCEPT !.job[j] = [status |-> "running", plan |-> p]]

(* startBuild() of a job that does not exist; a pending or running one is  *)
(* answered as it is, any other is resumed.                                *)
StartJob(e, j, p) ==
  LET d1 == [db EXCEPT !.job[j].status = "pending"]
      d2 == Planned(d1, j, p)
  IN /\ Connected(e)
     /\ j > NMission /\ db.job[j].status = "none" /\ PlanFor(d1, j, p)
     /\ Commit(<<d1, d2, Attached(d2, j, p)>>, engine)
     /\ UNCHANGED aside

PauseJob(e, j) ==
  LET q  == db.job[j].plan
      d1 == PlanPaused(db, q)
  IN /\ Connected(e)
     /\ db.job[j].status \in {"pending", "running", "blocked"}
     /\ Commit(<<d1, JobTo(d1, j, "paused")>>, IF Pausable(db, q) THEN Aborted(q) ELSE engine)
     /\ Behind(q)

CancelJob(e, j) ==
  LET q  == db.job[j].plan
      d1 == PlanCancelled(db, q)
  IN /\ Connected(e)
     /\ db.job[j].status \notin {"none", "completed", "cancelled"}
     /\ Commit(<<d1, JobTo(d1, j, "cancelled")>>,
               IF Cancellable(db, q) THEN Aborted(q) ELSE engine)
     /\ Behind(q)

(* The earlier plan is cancelled, even a mission's, and never revived.     *)
ResumeJob(e, j, p) ==
  LET q  == db.job[j].plan
      d1 == PlanCancelled(db, q)
      d2 == JobTo(d1, j, "pending")
      d3 == Planned(d2, j, p)
  IN /\ Connected(e)
     /\ db.job[j].status \in {"paused", "blocked", "failed"} /\ PlanFor(d2, j, p)
     /\ Commit(<<d1, d2, d3, Attached(d3, j, p)>>,
               IF Cancellable(db, q) THEN Aborted(q) ELSE engine)
     /\ Behind(q)

-----------------------------------------------------------------------------
(***************************************************************************)
(* The task tool manages a plan, and nothing but the plan.  The stop tool  *)
(* and the emergency stop pause the plan that is being worked on, its jobs *)
(* and, through reconcile(), its run.                                      *)
(***************************************************************************)
PausePlan(e, p) ==
  /\ Connected(e)
  /\ Pausable(db, p)
  /\ Commit(<<PlanPaused(db, p)>>, Aborted(p))
  /\ Behind(p)

ResumePlan(e, p) ==
  /\ Connected(e)
  /\ db.plan[p].status = "paused"
  /\ Commit(<<PlanResumed(db, p)>>, engine)
  /\ Behind(p)

CancelPlan(e, p) ==
  /\ Connected(e)
  /\ Cancellable(db, p)
  /\ Commit(<<PlanCancelled(db, p)>>, Aborted(p))
  /\ Behind(p)

PauseActivePlan(e) ==
  LET p  == engine[e].build.plan
      d1 == PlanPaused(db, p)
      d2 == JobsTo(d1, p, "paused")
  IN /\ Connected(e) /\ Building(e)
     /\ Pausable(db, p)
     /\ Commit(<<d1, d2>> \o Reconciled(d2), Aborted(p))
     /\ aside' = FALSE

-----------------------------------------------------------------------------
(***************************************************************************)
(* The engine works on the oldest plan that may run.                       *)
(***************************************************************************)
Claimable(p) ==
  /\ db.plan[p].status \in {"pending", "running"} /\ db.plan[p].step = "waiting"
  /\ p = db.run.plan => db.run.status = "running"

(* The result of a step, on tables d, unless it is no longer wanted.       *)
Dropped(d, c) ==
  d.plan[c.plan].status \in {"paused", "cancelled"} \/ d.plan[c.plan].step # "running"

NextStep(f) ==
  IF f.stage = "prepare" THEN [f EXCEPT !.stage = "build", !.status = "running", !.tries = 0]
  ELSE IF f.at < f.last
  THEN [f EXCEPT !.at = f.at + 1, !.stage = "prepare", !.status = "running", !.tries = 0]
  ELSE [f EXCEPT !.status = "completed"]

Recorded(d, c, out) ==
  LET f == d.plan[c.plan]
      g == IF out = "ok" THEN NextStep(f)
           ELSE IF out = "retry" /\ c.tries < MaxAttempts /\ f.tries < MaxAttempts
           THEN [f EXCEPT !.status = "running"]
           ELSE [f EXCEPT !.status = "failed"]
  IN [d EXCEPT !.plan[c.plan] = [g EXCEPT !.step = "waiting"]]

(* What the services write when plan p has ended: the manager first.       *)
Reaction(d, p) ==
  LET d1 == JobsTo(d, p, "failed")
      d2 == JobsEnd(d1, p, d.plan[p].status)
  IN IF p # d.run.plan \/ d.run.status \in Terminal THEN <<d1>>
     ELSE IF d.plan[p].status = "completed" THEN <<d1, d2, Settled(d2)>>
     ELSE IF d.run.status \in {"pending", "running"} THEN <<d1, d2, RunTo(d2, "failed")>>
     ELSE <<d1>>

(* Step c of engine e reports out, after the writes ds.                    *)
Settle(e, c, ds, out) ==
  LET d     == ds[Len(ds)]
      d1    == Recorded(d, c, out)
      ended == d1.plan[c.plan].status \in Terminal
      idle  == [engine EXCEPT ![e].build = NoBuild]
  IN IF Dropped(d, c) THEN Commit(ds, idle) /\ UNCHANGED aside
     ELSE IF ended /\ Connected(e)
     THEN Commit(ds \o <<d1>> \o Reaction(d1, c.plan), idle) /\ UNCHANGED aside
     ELSE /\ Commit(Append(ds, d1), idle)
          /\ IF ended THEN Behind(c.plan) ELSE UNCHANGED aside

(***************************************************************************)
(* buildBlueprint.                                                         *)
(***************************************************************************)
Mine(d, c)  == d.job[c.job].plan = c.plan
Alive(d, c) == Mine(d, c) /\ d.job[c.job].status = "running"
Startable   == {"pending", "running", "blocked", "failed"}

(* Mutant of Marked: a late build overwrites a pause or a cancellation.    *)
MarkedUnguarded(d, c, s) == [d EXCEPT !.job[c.job].status = s]

(* markStatus(): only while the job runs under the same plan.              *)
Marked(d, c, s) == IF Alive(d, c) THEN [d EXCEPT !.job[c.job].status = s] ELSE d

(* The build finds its job taken from it or held, or the world out of      *)
(* reach, or it starts.                                                    *)
BeginBuild(e, d, c) ==
  LET s == d.job[c.job].status
      started == [d EXCEPT !.job[c.job].status = "running"]
  IN \/ s = "cancelled" /\ Settle(e, c, <<d>>, "fatal")
     \/ s # "cancelled" /\ (~Mine(d, c) \/ s \notin Startable) /\ Settle(e, c, <<d>>, "retry")
     \/ /\ Mine(d, c) /\ s \in Startable
        /\ \/ Settle(e, c, <<d, [d EXCEPT !.job[c.job].status = "blocked"]>>, "retry")
           \/ Commit(<<d, started>>, [engine EXCEPT ![e].build = c]) /\ UNCHANGED aside

(* Attempts count up to the maximum: a step that was interrupted is claimed *)
(* again however often it was tried, and only the last result asks whether *)
(* the maximum is reached.                                                 *)
OneMore(n) == IF n < MaxAttempts THEN n + 1 ELSE n

(* The claim and the first part of the step.  A step may be refused at     *)
(* once: the actor lost the right, the mission's deadline has passed.      *)
Claim(e, p) ==
  LET f == db.plan[p]
      d == [db EXCEPT !.plan[p].status = "running", !.plan[p].step = "running",
                      !.plan[p].tries = OneMore(@)]
      c == [plan |-> p, job |-> f.at, tries |-> OneMore(f.tries), aborted |-> FALSE,
            phase |-> IF f.stage = "prepare" THEN "preparing" ELSE "building"]
  IN /\ engine[e].phase = "serving" /\ ~Building(e)
     /\ Claimable(p)
     /\ \A q \in Plans : q < p => ~Claimable(q) \/ db.plan[q].tries > 0  \* awaits its retry
     /\ \/ Settle(e, c, <<d>>, "fatal")
        \/ /\ f.stage = "prepare"
           /\ Commit(<<d>>, [engine EXCEPT ![e].build = c]) /\ UNCHANGED aside
        \/ f.stage = "build" /\ BeginBuild(e, d, c)

(* A step ends; an aborted one never successfully.                         *)
Finish(e) ==
  LET c == engine[e].build
  IN \/ /\ c.phase = "preparing"
        /\ \E out \in {"ok", "retry", "fatal"} :
             (c.aborted => out # "ok") /\ Settle(e, c, <<db>>, out)
     \/ /\ c.phase = "building"
        /\ \/ ~c.aborted /\ Alive(db, c) /\ Settle(e, c, <<Marked(db, c, "completed")>>, "ok")
           \/ \E s \in {"blocked", "failed"}, out \in {"retry", "fatal"} :
                ~c.aborted /\ Settle(e, c, <<Marked(db, c, s)>>, out)
           \/ (c.aborted \/ ~Alive(db, c)) /\ Settle(e, c, <<Marked(db, c, "blocked")>>, "retry")

(* A reflex, a direct skill or the bot's death takes the runner's slot.    *)
Preempt(e) ==
  /\ Building(e) /\ ~engine[e].build.aborted
  /\ engine' = [engine EXCEPT ![e].build.aborted = TRUE]
  /\ UNCHANGED <<db, aside>>

-----------------------------------------------------------------------------
(***************************************************************************)
(* Connections.                                                            *)
(***************************************************************************)
Connect(e) ==
  /\ engine[e].phase = "absent"
  /\ \A f \in Engines : f < e => engine[f].phase = "down"
  /\ Commit(<<db>> \o Reconciled(db), [engine EXCEPT ![e].phase = "up"])
  /\ aside' = FALSE

(* reconcileInterruptedTasks(), at the first spawn.                        *)
Spawn(e) ==
  /\ engine[e].phase = "up"
  /\ db' = [db EXCEPT !.plan = [p \in Plans |->
       IF db.plan[p].status = "running"
       THEN [db.plan[p] EXCEPT !.status = "pending", !.step = "waiting"] ELSE db.plan[p]]]
  /\ engine' = [engine EXCEPT ![e].phase = "serving"]
  /\ UNCHANGED aside

Disconnect(e) ==
  /\ Connected(e)
  /\ engine' = [engine EXCEPT ![e].phase = "down",
                              ![e].build.aborted = Building(e)]
  /\ UNCHANGED <<db, aside>>

Crash ==
  /\ \E e \in Engines : Connected(e) \/ Building(e)
  /\ engine' = AllDown
  /\ UNCHANGED <<db, aside>>

EngineStep(e) ==
  \/ Finish(e) \/ Preempt(e)
  \/ Connect(e) \/ Spawn(e) \/ Disconnect(e)
  \/ PauseRun(e) \/ ResumeRun(e) \/ CancelRun(e) \/ PauseActivePlan(e)

Next ==
  \/ \E e \in Engines : EngineStep(e)
  \/ \E e \in Engines, p \in Plans :
       Materialize(e, p) \/ Claim(e, p)
         \/ PausePlan(e, p) \/ ResumePlan(e, p) \/ CancelPlan(e, p)
  \/ \E e \in Engines, j \in Jobs : PauseJob(e, j) \/ CancelJob(e, j)
  \/ \E e \in Engines, j \in Jobs, p \in Plans : StartJob(e, j, p) \/ ResumeJob(e, j, p)
  \/ Crash

Spec == Init /\ [][Next]_vars

-----------------------------------------------------------------------------
(***************************************************************************)
(* Safety.                                                                 *)
(***************************************************************************)

(* A mission that ended well has built every build of it, also those that  *)
(* were moved to another plan or judged while the mission was not told.    *)
CompletedMissionIsBuilt ==
  db.run.status = "completed" => \A j \in 1 .. NMission : db.job[j].status = "completed"

(* Nobody's hold is worked against: while a build may still click, neither *)
(* its plan nor the mission the plan belongs to is paused or cancelled.    *)
(* (The plan may have failed: a build of an earlier connection that ends   *)
(* late is recorded as the result of the attempt that now runs.)           *)
Holding == {"paused", "cancelled"}

HoldsStopClicks ==
  \A e \in Engines :
    LET c == engine[e].build
    IN c.phase = "building" /\ ~c.aborted /\ Alive(db, c) =>
         /\ db.plan[c.plan].status \notin Holding
         /\ c.plan = db.run.plan => db.run.status \notin Holding

(* While the services hear of everything, run, plan and jobs tell the same *)
(* story, whatever was cut short before.                                   *)
StoriesAgree ==
  db.run.plan # 0 /\ ~aside /\ (\E e \in Engines : Connected(e)) =>
    LET p   == db.run.plan
        s   == db.plan[p].status
        own == {j \in Jobs : db.job[j].plan = p}
    IN /\ db.run.status \in {"running", "paused"} \cup Terminal
       /\ db.run.status = "running" => s \in {"pending", "running"}
       /\ db.run.status = "paused" =>
            /\ s \in {"paused", "pending", "running"}
            /\ \A j \in own : db.job[j].status \notin {"pending", "running"}
       /\ db.run.status \in Terminal =>
            /\ s = db.run.status \/ (db.run.status = "failed" /\ s = "completed")
            /\ \A j \in own : db.job[j].status \in Terminal

(* What has ended stays ended, whoever is late.                            *)
EndsAreFinal ==
  [][/\ db.run.status \in Terminal => db'.run.status = db.run.status
     /\ \A j \in Jobs : db.job[j].status \in {"completed", "cancelled"}
          => db'.job[j].status = db.job[j].status]_vars

=============================================================================
