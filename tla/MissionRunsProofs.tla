-------------------------- MODULE MissionRunsProofs --------------------------
(***************************************************************************)
(* Run, plan and jobs tell one story, for any number of jobs, plans,       *)
(* connections and attempts, wherever the process ends.                    *)
(*                                                                         *)
(* An operation is a sequence of writes that the end of the process may    *)
(* cut short, so what holds of the tables must hold after every write      *)
(* (Good), and no write undoes what has ended (Later).  What the engines   *)
(* add is that a build which may still click works on a plan that nobody   *)
(* holds (Live), and that the three tables agree once an operation is      *)
(* complete (Story).                                                       *)
(***************************************************************************)
EXTENDS MissionRuns, TLAPS

USE DEF Jobs, Plans, Engines

RunRow  == [status : RunStatus, plan : 0 .. NPlans]
PlanRow == [status : PlanStatus, at : 0 .. NJobs, last : 0 .. NJobs,
            stage : {"prepare", "build"}, step : {"waiting", "running"},
            tries : 0 .. MaxAttempts]
JobRow  == [status : JobStatus, plan : 0 .. NPlans]
Tables  == [run : RunRow, plan : [Plans -> PlanRow], job : [Jobs -> JobRow]]

-----------------------------------------------------------------------------
(***************************************************************************)
(* What holds of the tables after every single write.                      *)
(***************************************************************************)
Own(d) == {j \in Jobs : d.job[j].plan = d.run.plan}
TheirPlan(d) == d.plan[d.run.plan]

(* Nothing of the mission is there before its run is.                      *)
Unstarted(d) ==
  /\ d.run.status = "none" <=> d.run.plan = 0
  /\ d.run.status = "none" => \A j \in 1 .. NMission : d.job[j].status = "none"
  /\ \A j \in Jobs : d.job[j].plan # 0 => d.job[j].status # "none"

(* A step that runs belongs to a plan that runs, and is one of a build.    *)
StepsRun(d) ==
  \A p \in Plans :
    /\ d.plan[p].step = "running" => d.plan[p].status = "running"
    /\ d.plan[p].status # "none" => d.plan[p].at \in Jobs

AllBuilt(d) == \A j \in 1 .. NMission : d.job[j].status = "completed"

(* Each build before the current one was completed, whatever it belongs to *)
(* now; and a job that was taken out of the mission ended the plan.        *)
Progress(d) ==
  LET p == d.run.plan
  IN /\ d.plan[p].status # "none" /\ d.plan[p].last = NMission
     /\ \A j \in 1 .. NMission :
          /\ j < d.plan[p].at \/ d.plan[p].status = "completed" => d.job[j].status = "completed"
          /\ d.job[j].plan # p => d.plan[p].status \in Terminal
     /\ d.run.status = "completed" => AllBuilt(d)

(* The run follows its plan, never the other way round.                    *)
Follows(d) ==
  LET p == d.run.plan
      s == d.plan[p].status
      r == d.run.status
  IN /\ d.plan[p].step = "running" => r = "running"
     /\ s = "failed" => r \in {"running", "failed"}
     /\ s = "completed" => r \in {"running", "completed", "failed"}
     /\ r \in Terminal => s = r \/ (r = "failed" /\ s = "completed")
     /\ r = "paused" /\ s \notin Terminal =>
          \A j \in Own(d) : d.job[j].status \notin {"pending", "running"}

Good(d) ==
  /\ d \in Tables
  /\ Unstarted(d) /\ StepsRun(d)
  /\ d.run.plan # 0 => Progress(d) /\ Follows(d)

(* What no write undoes.                                                   *)
Later(d, n) ==
  /\ d.run.plan # 0 => n.run.plan = d.run.plan
  /\ d.run.status \in Terminal => n.run.status = d.run.status
  /\ \A j \in Jobs : d.job[j].status \in {"completed", "cancelled"}
       => n.job[j].status = d.job[j].status
  /\ \A p \in Plans : d.plan[p].status # "none" => n.plan[p].status # "none"

(* The writes leave the position of every plan alone, but for the result   *)
(* of a step.                                                              *)
SamePosition(d, n) ==
  \A p \in Plans : d.plan[p].status # "none" =>
    n.plan[p].at = d.plan[p].at /\ n.plan[p].stage = d.plan[p].stage

-----------------------------------------------------------------------------
(***************************************************************************)
(* The engines.                                                            *)
(***************************************************************************)
EngineRow == [phase : {"absent", "up", "serving", "down"}, build : Build \cup {NoBuild}]

(* Connections follow one another.                                         *)
InTurn(en) ==
  \A e, f \in Engines : f < e /\ en[e].phase # "absent" => en[f].phase = "down"

LiveBuild(en, e) == en[e].build # NoBuild /\ ~en[e].build.aborted

(* A build that may still write belongs to a connection and works at the   *)
(* position of its plan, which nobody holds.                               *)
Serves(d, c) ==
  /\ d.plan[c.plan].status \notin Holding \cup {"none"}
  /\ c.plan = d.run.plan => d.run.status \notin Holding
  /\ c.job = d.plan[c.plan].at
  /\ d.plan[c.plan].stage = IF c.phase = "preparing" THEN "prepare" ELSE "build"

Live(d, en) ==
  \A e \in Engines : LiveBuild(en, e) =>
    en[e].phase \in {"up", "serving"} /\ Serves(d, en[e].build)

Running(en) == \E e \in Engines : en[e].phase \in {"up", "serving"}

Story(d) ==
  LET s == d.plan[d.run.plan].status
  IN /\ d.run.status \in {"running", "paused"} \cup Terminal
     /\ d.run.status = "running" => s \in {"pending", "running"}
     /\ d.run.status = "paused" =>
          /\ s \in {"paused", "pending", "running"}
          /\ \A j \in Own(d) : d.job[j].status \notin {"pending", "running"}
     /\ d.run.status \in Terminal =>
          /\ s = d.run.status \/ (d.run.status = "failed" /\ s = "completed")
          /\ \A j \in Own(d) : d.job[j].status \in Terminal

IInv ==
  /\ Good(db)
  /\ engine \in [Engines -> EngineRow] /\ InTurn(engine) /\ Live(db, engine)
  /\ aside \in BOOLEAN
  /\ db.run.plan # 0 /\ ~aside /\ Running(engine) => Story(db)

-----------------------------------------------------------------------------
(***************************************************************************)
(* 1. The writes.                                                          *)
(***************************************************************************)
LEMMA LaterTransitive ==
  ASSUME NEW a, NEW b, NEW c, a \in Tables, b \in Tables, Later(a, b), Later(b, c)
  PROVE  Later(a, c)
  BY MissionAssumption DEF Later, Terminal

LEMMA LaterReflexive ==
  ASSUME NEW a PROVE Later(a, a)
  BY DEF Later

(* A run may follow where its plan has gone.                               *)
Admits(d, s) ==
  LET t == TheirPlan(d).status
  IN /\ s = "completed" => t = "completed"
     /\ s = "failed" => t \in {"failed", "completed"}
     /\ s = "cancelled" => t = "cancelled"
     /\ s = "paused" =>
          /\ t \notin {"failed", "completed"} /\ TheirPlan(d).step = "waiting"
          /\ t \in Terminal
               \/ \A j \in Own(d) : d.job[j].status \notin {"pending", "running"}

LEMMA RunWrites ==
  ASSUME NEW d, Good(d), NEW s \in RunStatus, d.run.plan # 0 => Admits(d, s)
  PROVE  LET n == RunTo(d, s)
         IN /\ Good(n) /\ Later(d, n)
            /\ n.plan = d.plan /\ n.job = d.job /\ n.run.plan = d.run.plan
            /\ n.run.status = IF RunMayBecome(d, s) THEN s ELSE d.run.status
  <1> DEFINE n == RunTo(d, s)
  <1>1. CASE ~RunMayBecome(d, s)
    <2>1. n = d
      BY <1>1 DEF RunTo
    <2> QED
      BY <1>1, <2>1, LaterReflexive
  <1>2. CASE RunMayBecome(d, s)
    <2>1. d \in Tables
      BY DEF Good
    <2>2. /\ n \in Tables /\ n.run.status = s /\ n.run.plan = d.run.plan
          /\ n.plan = d.plan /\ n.job = d.job
      BY <1>2, <2>1 DEF RunTo, Tables, RunRow
    <2>3. s \in Transitions[d.run.status] /\ d.run.status \in RunStatus
      BY <1>2, <2>1 DEF RunMayBecome, Tables, RunRow
    <2>4. /\ s # "none" /\ d.run.status \notin Terminal \cup {"none"}
          /\ s = "pending" => d.run.status = "paused"
          /\ d.run.status = "paused" => s \in {"pending", "cancelled"}
          /\ s = "running" => d.run.status = "pending"
      BY <2>3 DEF Transitions, RunStatus, Terminal
    <2>5. d.run.plan # 0 /\ d.run.plan \in Plans
      BY <2>1, <2>4 DEF Good, Unstarted, Tables, RunRow
    <2> HIDE DEF n
    <2>6. Unstarted(n) /\ StepsRun(n)
      BY <2>2, <2>4, <2>5 DEF Good, Unstarted, StepsRun
    <2>7. Progress(n)
      BY <2>2, <2>5 DEF Good, Progress, AllBuilt, Admits, TheirPlan
    <2>8. Follows(n)
      <3>1. d.plan[d.run.plan] \in PlanRow
        BY <2>1, <2>5 DEF Tables
      <3>2. /\ d.plan[d.run.plan].step \in {"waiting", "running"}
            /\ d.plan[d.run.plan].status \in PlanStatus
        BY <3>1 DEF PlanRow
      <3>3. Own(n) = Own(d)
        BY <2>2 DEF Own
      <3>4. Follows(d) /\ Admits(d, s)
        BY <2>5 DEF Good
      <3>5. StepsRun(d)
        BY DEF Good
      <3> QED
        BY <2>2, <2>3, <2>4, <2>5, <3>2, <3>3, <3>4, <3>5
           DEF Follows, Admits, TheirPlan, StepsRun, Terminal, PlanStatus, RunStatus
    <2>9. Later(d, n)
      BY <2>2, <2>4 DEF Later
    <2> QED
      BY <1>2, <2>2, <2>6, <2>7, <2>8, <2>9 DEF Good, n
  <1> QED
    BY <1>1, <1>2

(* Jobs move, but not out of an end, and not back to work while the run    *)
(* holds them.                                                             *)
Loose(d, j) ==
  \/ d.run.status # "paused" \/ d.job[j].plan # d.run.plan
  \/ TheirPlan(d).status \in Terminal

JobWrite(d, n) ==
  /\ n \in Tables /\ n.run = d.run /\ n.plan = d.plan
  /\ \A j \in Jobs :
       /\ n.job[j].plan = d.job[j].plan
       /\ n.job[j].status # d.job[j].status =>
            /\ d.job[j].status \notin {"none", "completed", "cancelled"}
            /\ n.job[j].status # "none"
            /\ n.job[j].status \in {"pending", "running"} => Loose(d, j)

LEMMA JobWrites ==
  ASSUME NEW d, NEW n, Good(d), JobWrite(d, n)
  PROVE  Good(n) /\ Later(d, n)
  <1>1. d \in Tables /\ n \in Tables /\ n.run = d.run /\ n.plan = d.plan
    BY DEF Good, JobWrite
  <1>2. \A j \in 1 .. NMission : j \in Jobs
    BY MissionAssumption
  <1>3. Own(n) = Own(d)
    BY <1>1 DEF Own, JobWrite
  <1>4. Unstarted(n) /\ StepsRun(n)
    BY <1>1, <1>2 DEF Good, JobWrite, Unstarted, StepsRun
  <1>5. ASSUME d.run.plan # 0 PROVE Progress(n)
    BY <1>1, <1>2, <1>5 DEF Good, JobWrite, Progress, AllBuilt
  <1>6. ASSUME d.run.plan # 0 PROVE Follows(n)
    BY <1>1, <1>3, <1>6 DEF Good, JobWrite, Follows, Loose, TheirPlan, Own
  <1>7. Later(d, n)
    BY <1>1 DEF JobWrite, Later
  <1> QED
    BY <1>1, <1>4, <1>5, <1>6, <1>7 DEF Good

Asked == {"pending", "running", "paused", "failed", "cancelled"}

LEMMA SourcesKnown ==
  ASSUME NEW s \in Asked
  PROVE  /\ "none" \notin Sources(s) /\ "completed" \notin Sources(s)
         /\ "cancelled" \in Sources(s) => s = "cancelled"
  BY DEF Asked, Sources

LEMMA JobsFromWrites ==
  ASSUME NEW d, Good(d), NEW p, NEW from, NEW s \in Asked \cup {"blocked"},
         "none" \notin from, "completed" \notin from, "cancelled" \in from => s = "cancelled",
         s \in {"pending", "running"} => \A j \in Jobs : d.job[j].plan = p => Loose(d, j)
  PROVE  LET n == JobsFrom(d, p, from, s)
         IN /\ Good(n) /\ Later(d, n) /\ n.run = d.run /\ n.plan = d.plan
            /\ \A j \in Jobs :
                 /\ n.job[j].plan = d.job[j].plan
                 /\ n.job[j].status = IF d.job[j].plan = p /\ d.job[j].status \in from
                                      THEN s ELSE d.job[j].status
  <1> DEFINE n == JobsFrom(d, p, from, s)
  <1>1. d \in Tables /\ s \in JobStatus
    BY DEF Good, Asked, JobStatus, RunStatus
  <1>2. n.run = d.run /\ n.plan = d.plan /\ n.job \in [Jobs -> JobRow] /\ n \in Tables
    BY <1>1 DEF JobsFrom, Tables, JobRow
  <1>3. \A j \in Jobs :
                 /\ n.job[j].plan = d.job[j].plan
                 /\ n.job[j].status = IF d.job[j].plan = p /\ d.job[j].status \in from
                                      THEN s ELSE d.job[j].status
    BY <1>1 DEF JobsFrom, Tables, JobRow
  <1> HIDE DEF n
  <1>4. JobWrite(d, n)
    BY <1>2, <1>3 DEF JobWrite, Asked
  <1>5. Good(n) /\ Later(d, n)
    BY <1>4, JobWrites
  <1> QED
    BY <1>2, <1>3, <1>5 DEF n

LEMMA JobToWrites ==
  ASSUME NEW d, Good(d), NEW j \in Jobs, NEW s \in Asked,
         s \in {"pending", "running"} => Loose(d, j)
  PROVE  LET n == JobTo(d, j, s)
         IN /\ Good(n) /\ Later(d, n) /\ n.run = d.run /\ n.plan = d.plan
            /\ \A i \in Jobs :
                 /\ n.job[i].plan = d.job[i].plan
                 /\ n.job[i].status = IF i = j /\ d.job[j].status \in Sources(s)
                                      THEN s ELSE d.job[i].status
  <1> DEFINE n == JobTo(d, j, s)
  <1>1. d \in Tables /\ s \in JobStatus
    BY DEF Good, Asked, JobStatus, RunStatus
  <1>2. n.run = d.run /\ n.plan = d.plan /\ n \in Tables
    BY <1>1 DEF JobTo, Tables, JobRow
  <1>3. \A i \in Jobs :
                 /\ n.job[i].plan = d.job[i].plan
                 /\ n.job[i].status = IF i = j /\ d.job[j].status \in Sources(s)
                                      THEN s ELSE d.job[i].status
    BY <1>1 DEF JobTo, Tables, JobRow
  <1> HIDE DEF n
  <1>4. JobWrite(d, n)
    BY <1>2, <1>3, SourcesKnown DEF JobWrite, Asked
  <1>5. Good(n) /\ Later(d, n)
    BY <1>4, JobWrites
  <1> QED
    BY <1>2, <1>3, <1>5 DEF n

(* One row of the plans changes.                                           *)
LEMMA RowWrites ==
  ASSUME NEW d \in Tables, NEW p \in Plans, NEW r \in PlanRow
  PROVE  LET n == [d EXCEPT !.plan[p] = r]
         IN /\ n \in Tables /\ n.run = d.run /\ n.job = d.job /\ n.plan[p] = r
            /\ \A q \in Plans \ {p} : n.plan[q] = d.plan[q]
  BY DEF Tables

(* A hold, its end, and a cancellation of a plan.                          *)
PlanWrite(d, n, p) ==
  /\ n \in Tables /\ n.run = d.run /\ n.job = d.job
  /\ \A q \in Plans \ {p} : n.plan[q] = d.plan[q]
  /\ n.plan[p].at = d.plan[p].at /\ n.plan[p].stage = d.plan[p].stage
  /\ n.plan[p].last = d.plan[p].last

LEMMA PlanWrites ==
  ASSUME NEW d, NEW n, NEW p \in Plans, Good(d), PlanWrite(d, n, p),
         d.plan[p].status \in Active, n.plan[p].step = "waiting",
         n.plan[p].status \in {"paused", "pending", "cancelled"}
  PROVE  Good(n) /\ Later(d, n) /\ SamePosition(d, n)
  <1>1. d \in Tables /\ n \in Tables /\ n.run = d.run /\ n.job = d.job
    BY DEF Good, PlanWrite
  <1>2. Own(n) = Own(d)
    BY <1>1 DEF Own
  <1>3. Unstarted(n) /\ StepsRun(n)
    BY <1>1 DEF Good, Unstarted, StepsRun, PlanWrite, Active
  <1>4. ASSUME d.run.plan # 0 PROVE Progress(n) /\ Follows(n)
    <2>1. d.run.plan \in Plans /\ Progress(d) /\ Follows(d)
      BY <1>1, <1>4 DEF Good, Tables, RunRow
    <2>2. CASE d.run.plan # p
      <3>1. n.plan[d.run.plan] = d.plan[d.run.plan]
        BY <2>1, <2>2 DEF PlanWrite
      <3> QED
        BY <1>1, <1>2, <2>1, <3>1 DEF Progress, Follows, AllBuilt
    <2>3. CASE d.run.plan = p
      <3>1. Progress(n)
        BY <1>1, <2>1, <2>3 DEF Progress, AllBuilt, PlanWrite, Active, Terminal
      <3>2. Follows(n)
        BY <1>1, <1>2, <2>1, <2>3 DEF Follows, PlanWrite, Active, Terminal
      <3> QED
        BY <3>1, <3>2
    <2> QED
      BY <2>2, <2>3
  <1>5. Later(d, n) /\ SamePosition(d, n)
    BY <1>1 DEF PlanWrite, Later, SamePosition
  <1> QED
    BY <1>1, <1>3, <1>4, <1>5 DEF Good

(* The three operations: what the plan is afterwards.                      *)
PlanBecomes(d, n, p, able, s) ==
  /\ Good(n) /\ Later(d, n) /\ SamePosition(d, n) /\ n.run = d.run /\ n.job = d.job
  /\ \A q \in Plans :
       IF q = p /\ able THEN n.plan[q].status = s /\ n.plan[q].step = "waiting"
                        ELSE n.plan[q] = d.plan[q]

LEMMA PausedWrites ==
  ASSUME NEW d, Good(d), NEW p \in 0 .. NPlans
  PROVE  PlanBecomes(d, PlanPaused(d, p), p, Pausable(d, p), "paused")
  <1> DEFINE n == PlanPaused(d, p)
  <1>1. CASE ~Pausable(d, p)
    BY <1>1, LaterReflexive DEF PlanPaused, PlanBecomes, SamePosition
  <1>2. CASE Pausable(d, p)
    <2>1. p \in Plans /\ d \in Tables /\ d.plan[p].status \in Active
      BY <1>2, MissionAssumption DEF Good, Pausable, Active
    <2> DEFINE r == [d.plan[p] EXCEPT !.status = "paused", !.step = "waiting"]
    <2>2. /\ r \in PlanRow /\ r.status = "paused" /\ r.step = "waiting"
          /\ r.at = d.plan[p].at /\ r.last = d.plan[p].last /\ r.stage = d.plan[p].stage
      BY <2>1 DEF Tables, PlanRow, PlanStatus, RunStatus
    <2>3. n = [d EXCEPT !.plan[p] = r]
      BY <1>2, <2>1 DEF PlanPaused, Tables, PlanRow
    <2> HIDE DEF n, r
    <2>4. /\ n \in Tables /\ n.run = d.run /\ n.job = d.job /\ n.plan[p] = r
          /\ \A q \in Plans \ {p} : n.plan[q] = d.plan[q]
      BY <2>1, <2>2, <2>3, RowWrites
    <2>5. PlanWrite(d, n, p)
      BY <2>2, <2>4 DEF PlanWrite
    <2>6. Good(n) /\ Later(d, n) /\ SamePosition(d, n)
      BY <2>1, <2>2, <2>4, <2>5, PlanWrites
    <2> QED
      BY <1>2, <2>1, <2>2, <2>4, <2>6 DEF PlanBecomes, n
  <1> QED
    BY <1>1, <1>2

LEMMA CancelledWrites ==
  ASSUME NEW d, Good(d), NEW p \in 0 .. NPlans
  PROVE  PlanBecomes(d, PlanCancelled(d, p), p, Cancellable(d, p), "cancelled")
  <1> DEFINE n == PlanCancelled(d, p)
  <1>1. CASE ~Cancellable(d, p)
    BY <1>1, LaterReflexive DEF PlanCancelled, PlanBecomes, SamePosition
  <1>2. CASE Cancellable(d, p)
    <2>1. p \in Plans /\ d \in Tables /\ d.plan[p].status \in Active
      BY <1>2, MissionAssumption DEF Good, Cancellable
    <2> DEFINE r == [d.plan[p] EXCEPT !.status = "cancelled", !.step = "waiting"]
    <2>2. /\ r \in PlanRow /\ r.status = "cancelled" /\ r.step = "waiting"
          /\ r.at = d.plan[p].at /\ r.last = d.plan[p].last /\ r.stage = d.plan[p].stage
      BY <2>1 DEF Tables, PlanRow, PlanStatus, RunStatus
    <2>3. n = [d EXCEPT !.plan[p] = r]
      BY <1>2, <2>1 DEF PlanCancelled, Tables, PlanRow
    <2> HIDE DEF n, r
    <2>4. /\ n \in Tables /\ n.run = d.run /\ n.job = d.job /\ n.plan[p] = r
          /\ \A q \in Plans \ {p} : n.plan[q] = d.plan[q]
      BY <2>1, <2>2, <2>3, RowWrites
    <2>5. PlanWrite(d, n, p)
      BY <2>2, <2>4 DEF PlanWrite
    <2>6. Good(n) /\ Later(d, n) /\ SamePosition(d, n)
      BY <2>1, <2>2, <2>4, <2>5, PlanWrites
    <2> QED
      BY <1>2, <2>1, <2>2, <2>4, <2>6 DEF PlanBecomes, n
  <1> QED
    BY <1>1, <1>2

LEMMA ResumedWrites ==
  ASSUME NEW d, Good(d), NEW p \in Plans
  PROVE  PlanBecomes(d, PlanResumed(d, p), p, d.plan[p].status = "paused", "pending")
  <1> DEFINE n == PlanResumed(d, p)
  <1>1. CASE d.plan[p].status # "paused"
    BY <1>1, LaterReflexive DEF PlanResumed, PlanBecomes, SamePosition
  <1>2. CASE d.plan[p].status = "paused"
    <2>1. d \in Tables /\ d.plan[p].status \in Active /\ d.plan[p] \in PlanRow
      BY <1>2 DEF Good, Active, Tables
    <2>2. d.plan[p].step = "waiting"
      BY <1>2, <2>1 DEF Good, StepsRun, PlanRow
    <2> DEFINE r == [d.plan[p] EXCEPT !.status = "pending"]
    <2>3. /\ r \in PlanRow /\ r.status = "pending" /\ r.step = "waiting"
          /\ r.at = d.plan[p].at /\ r.last = d.plan[p].last /\ r.stage = d.plan[p].stage
      BY <2>1, <2>2 DEF Tables, PlanRow, PlanStatus, RunStatus
    <2>4. n = [d EXCEPT !.plan[p] = r]
      BY <1>2, <2>1 DEF PlanResumed, Tables, PlanRow
    <2> HIDE DEF n, r
    <2>5. /\ n \in Tables /\ n.run = d.run /\ n.job = d.job /\ n.plan[p] = r
          /\ \A q \in Plans \ {p} : n.plan[q] = d.plan[q]
      BY <2>1, <2>3, <2>4, RowWrites
    <2>6. PlanWrite(d, n, p)
      BY <2>3, <2>5 DEF PlanWrite
    <2>7. Good(n) /\ Later(d, n) /\ SamePosition(d, n)
      BY <2>1, <2>3, <2>5, <2>6, PlanWrites
    <2> QED
      BY <1>2, <2>1, <2>3, <2>5, <2>7 DEF PlanBecomes, n
  <1> QED
    BY <1>1, <1>2

-----------------------------------------------------------------------------
(* New rows: a plan that nobody has had, and a job's move to a plan.       *)
LEMMA NewPlanWrites ==
  ASSUME NEW d, Good(d), NEW p \in Plans, d.plan[p].status = "none",
         NEW first \in Jobs, NEW last \in Jobs
  PROVE  LET n == [d EXCEPT !.plan[p] = NewPlan(first, last)]
         IN /\ Good(n) /\ Later(d, n) /\ SamePosition(d, n) /\ n.run = d.run /\ n.job = d.job
            /\ n.plan[p].status = "pending" /\ d.run.plan # p
            /\ \A q \in Plans \ {p} : n.plan[q] = d.plan[q]
  <1> DEFINE r == NewPlan(first, last)
             n == [d EXCEPT !.plan[p] = r]
  <1>1. d \in Tables
    BY DEF Good
  <1>2. r \in PlanRow /\ r.status = "pending" /\ r.step = "waiting" /\ r.at = first
    BY MissionAssumption DEF NewPlan, PlanRow, PlanStatus, RunStatus
  <1> HIDE DEF r
  <1>3. /\ n \in Tables /\ n.run = d.run /\ n.job = d.job /\ n.plan[p] = r
        /\ \A q \in Plans \ {p} : n.plan[q] = d.plan[q]
    BY <1>1, <1>2, RowWrites
  <1> HIDE DEF n
  <1>4. Unstarted(n) /\ StepsRun(n)
    BY <1>2, <1>3 DEF Good, Unstarted, StepsRun
  <1>5. d.run.plan # 0 => d.run.plan \in Plans \ {p}
    BY <1>1 DEF Good, Progress, Tables, RunRow
  <1>6. d.run.plan # 0 => Progress(n) /\ Follows(n)
    BY <1>3, <1>5 DEF Good, Progress, Follows, AllBuilt, Own
  <1>7. Later(d, n) /\ SamePosition(d, n)
    BY <1>3 DEF Later, SamePosition
  <1>8. d.run.plan # p
    BY <1>5
  <1> QED
    BY <1>2, <1>3, <1>4, <1>6, <1>7, <1>8 DEF Good, n, r

LEMMA PlannedWrites ==
  ASSUME NEW d, Good(d), NEW j \in Jobs, NEW p \in Plans, PlanFor(d, j, p)
  PROVE  LET n == Planned(d, j, p)
         IN /\ Good(n) /\ Later(d, n) /\ SamePosition(d, n) /\ n.run = d.run /\ n.job = d.job
            /\ d.run.plan # p
            /\ \A q \in Plans : n.plan[q] = d.plan[q] \/ (q = p /\ d.plan[q].status = "none")
  <1>1. CASE EqualPlan(d, j, p)
    BY <1>1, LaterReflexive DEF Planned, EqualPlan, SamePosition
  <1>2. CASE ~EqualPlan(d, j, p)
    <2>1. d.plan[p].status = "none"
      BY <1>2 DEF PlanFor
    <2>2. Planned(d, j, p) = [d EXCEPT !.plan[p] = NewPlan(j, j)]
      BY <1>2 DEF Planned
    <2> QED
      BY <2>1, <2>2, NewPlanWrites
  <1> QED
    BY <1>1, <1>2

LEMMA AttachedWrites ==
  ASSUME NEW d, Good(d), NEW j \in Jobs, NEW p \in Plans, p # d.run.plan,
         d.job[j].status \notin {"none", "completed", "cancelled"},
         j \in 1 .. NMission /\ d.run.plan # 0 => TheirPlan(d).status \in Terminal
  PROVE  LET n == Attached(d, j, p)
         IN /\ Good(n) /\ Later(d, n) /\ n.run = d.run /\ n.plan = d.plan
            /\ n.job[j].plan = p
            /\ \A i \in Jobs \ {j} : n.job[i] = d.job[i]
  <1> DEFINE n == Attached(d, j, p)
  <1>1. d \in Tables /\ \A i \in 1 .. NMission : i \in Jobs
    BY MissionAssumption DEF Good
  <1> DEFINE r == [status |-> "running", plan |-> p]
  <1>2. r \in JobRow /\ r.status = "running" /\ r.plan = p
    BY DEF JobRow, JobStatus, RunStatus
  <1>3. n = [d EXCEPT !.job[j] = r]
    BY DEF Attached
  <1> HIDE DEF r
  <1>4. /\ n \in Tables /\ n.run = d.run /\ n.plan = d.plan
        /\ n.job[j].plan = p /\ n.job[j].status = "running"
        /\ \A i \in Jobs \ {j} : n.job[i] = d.job[i]
    <2> HIDE DEF n
    <2>1. /\ [d.job EXCEPT ![j] = r] \in [Jobs -> JobRow]
          /\ n = [d EXCEPT !.job = [d.job EXCEPT ![j] = r]]
      BY <1>1, <1>2, <1>3 DEF Tables
    <2>2. n \in Tables /\ n.run = d.run /\ n.plan = d.plan /\ n.job = [d.job EXCEPT ![j] = r]
      BY <1>1, <2>1 DEF Tables
    <2> QED
      BY <1>1, <1>2, <2>2 DEF Tables
  <1> HIDE DEF n
  <1>5. Unstarted(n) /\ StepsRun(n)
    BY <1>1, <1>4 DEF Good, Unstarted, StepsRun
  <1>6. d.run.plan # 0 => Progress(n)
    BY <1>1, <1>4 DEF Good, Progress, AllBuilt, TheirPlan
  <1>7. Own(n) \subseteq Own(d) \ {j}
    BY <1>4 DEF Own
  <1>8. d.run.plan # 0 => Follows(n)
    BY <1>4, <1>7 DEF Good, Follows, Own
  <1>9. Later(d, n)
    BY <1>4 DEF Later
  <1> QED
    BY <1>4, <1>5, <1>6, <1>8, <1>9 DEF Good, n

-----------------------------------------------------------------------------
(***************************************************************************)
(* 2. Operations: sequences of writes, complete or cut short.              *)
(***************************************************************************)
AllLater(ds) ==
  /\ ds \in Seq(Tables) /\ Len(ds) > 0
  /\ \A i \in 1 .. Len(ds) : Good(ds[i]) /\ Later(db, ds[i])

LEMMA OneWrite ==
  ASSUME NEW a, Good(a), Later(db, a)
  PROVE  AllLater(<<a>>)
  BY DEF AllLater, Good

LEMMA OneMoreWrite ==
  ASSUME NEW ds, AllLater(ds), NEW a, Good(a), Later(db, a)
  PROVE  AllLater(Append(ds, a))
  <1>1. ds \in Seq(Tables) /\ a \in Tables
    BY DEF AllLater, Good
  <1>2. /\ Append(ds, a) \in Seq(Tables) /\ Len(Append(ds, a)) = Len(ds) + 1
        /\ Append(ds, a)[Len(ds) + 1] = a
        /\ \A i \in 1 .. Len(ds) : Append(ds, a)[i] = ds[i]
    BY <1>1
  <1>3. \A i \in 1 .. Len(ds) + 1 : i \in 1 .. Len(ds) \/ i = Len(ds) + 1
    BY <1>1
  <1> QED
    BY <1>1, <1>2, <1>3 DEF AllLater

LEMMA MoreWrites ==
  ASSUME NEW ds, AllLater(ds), NEW es, AllLater(es)
  PROVE  AllLater(ds \o es) /\ (ds \o es)[Len(ds \o es)] = es[Len(es)]
  <1>1. ds \in Seq(Tables) /\ es \in Seq(Tables) /\ Len(es) > 0
    BY DEF AllLater
  <1>2. /\ ds \o es \in Seq(Tables) /\ Len(ds \o es) = Len(ds) + Len(es)
        /\ \A i \in 1 .. Len(ds) + Len(es) :
             (ds \o es)[i] = IF i <= Len(ds) THEN ds[i] ELSE es[i - Len(ds)]
    BY <1>1
  <1>3. Len(ds) \in Nat /\ Len(es) \in Nat
    BY <1>1
  <1>4. (ds \o es)[Len(ds \o es)] = es[Len(es)]
    BY <1>1, <1>2, <1>3
  <1>5. ASSUME NEW i \in 1 .. Len(ds) + Len(es)
        PROVE  Good((ds \o es)[i]) /\ Later(db, (ds \o es)[i])
    <2>1. CASE i <= Len(ds)
      BY <1>2, <1>3, <2>1 DEF AllLater
    <2>2. CASE i > Len(ds)
      <3>1. i - Len(ds) \in 1 .. Len(es) /\ (ds \o es)[i] = es[i - Len(ds)]
        BY <1>2, <1>3, <2>2
      <3> QED
        BY <3>1 DEF AllLater
    <2> QED
      BY <1>3, <2>1, <2>2
  <1> QED
    BY <1>1, <1>2, <1>3, <1>4, <1>5 DEF AllLater

EnginesGood(en) == en \in [Engines -> EngineRow] /\ InTurn(en)

LEMMA DownGood ==
  ASSUME IInv
  PROVE  EnginesGood(AllDown) /\ ~Running(AllDown) /\ \A d : Live(d, AllDown)
  <1>1. engine \in [Engines -> EngineRow] /\ InTurn(engine) /\ Live(db, engine)
    BY DEF IInv
  <1>2. ASSUME NEW e \in Engines
        PROVE  /\ AllDown[e] \in EngineRow
               /\ AllDown[e].phase \in {"absent", "down"}
               /\ AllDown[e].phase = "absent" => engine[e].phase = "absent"
               /\ ~LiveBuild(AllDown, e)
    <2>1. CASE engine[e].phase = "absent"
      <3>1. AllDown[e] = engine[e]
        BY <2>1 DEF AllDown
      <3>2. ~LiveBuild(engine, e)
        BY <1>1, <2>1 DEF Live
      <3> QED
        BY <1>1, <2>1, <3>1, <3>2 DEF LiveBuild
    <2>2. CASE engine[e].phase # "absent"
      <3>1. AllDown[e] = [phase |-> "down", build |-> NoBuild]
        BY <2>2 DEF AllDown
      <3> QED
        BY <3>1 DEF EngineRow, LiveBuild
    <2> QED
      BY <2>1, <2>2
  <1>3. AllDown \in [Engines -> EngineRow]
    BY <1>2 DEF AllDown
  <1>4. InTurn(AllDown)
    <2>1. \A e \in Engines : engine[e].phase = "absent" => AllDown[e] = engine[e]
      BY DEF AllDown
    <2>2. \A e \in Engines : engine[e].phase # "absent" => AllDown[e].phase = "down"
      BY DEF AllDown
    <2> QED
      BY <1>1, <1>2, <2>1, <2>2 DEF InTurn
  <1> QED
    BY <1>2, <1>3, <1>4 DEF EnginesGood, Running, Live

(* An operation is as good as its writes and what it does to the engines.  *)
LEMMA Commits ==
  ASSUME IInv, NEW ds, AllLater(ds), NEW en, Commit(ds, en), EnginesGood(en),
         Live(ds[Len(ds)], en), aside' \in BOOLEAN,
         ds[Len(ds)].run.plan # 0 /\ ~aside' /\ Running(en) => Story(ds[Len(ds)])
  PROVE  IInv' /\ Later(db, db')
  <1>1. CASE db' = ds[Len(ds)] /\ engine' = en
    <2>1. Good(db') /\ Later(db, db')
      BY <1>1 DEF AllLater
    <2> QED
      BY <1>1, <2>1 DEF IInv, EnginesGood
  <1>2. CASE \E i \in 1 .. Len(ds) - 1 : db' = ds[i] /\ engine' = AllDown
    <2>1. Good(db') /\ Later(db, db')
      BY <1>2 DEF AllLater
    <2> QED
      BY <1>2, <2>1, DownGood DEF IInv, EnginesGood
  <1> QED
    BY <1>1, <1>2 DEF Commit

LEMMA TwoWrites ==
  ASSUME NEW a, NEW b, Good(a), Later(db, a), Good(b), Later(a, b), IInv
  PROVE  AllLater(<<a, b>>) /\ <<a, b>>[Len(<<a, b>>)] = b /\ Later(db, b)
  <1>1. db \in Tables /\ a \in Tables /\ b \in Tables
    BY DEF IInv, Good
  <1>2. Later(db, b)
    BY <1>1, LaterTransitive
  <1>3. <<a, b>> \in Seq(Tables) /\ Len(<<a, b>>) = 2 /\ \A i \in 1 .. 2 : i \in {1, 2}
    BY <1>1
  <1> QED
    BY <1>2, <1>3 DEF AllLater

LEMMA ThreeWrites ==
  ASSUME NEW a, NEW b, NEW c, Good(a), Later(db, a), Good(b), Later(a, b),
         Good(c), Later(b, c), IInv
  PROVE  AllLater(<<a, b, c>>) /\ <<a, b, c>>[Len(<<a, b, c>>)] = c /\ Later(db, c)
  <1>1. a \in Tables /\ b \in Tables /\ c \in Tables /\ db \in Tables
    BY DEF IInv, Good
  <1>2. Later(db, b) /\ Later(db, c)
    BY <1>1, LaterTransitive
  <1>3. <<a, b, c>> \in Seq(Tables) /\ Len(<<a, b, c>>) = 3 /\ \A i \in 1 .. 3 : i \in {1, 2, 3}
    BY <1>1
  <1> QED
    BY <1>2, <1>3 DEF AllLater

LEMMA FourWrites ==
  ASSUME NEW a, NEW b, NEW c, NEW d, Good(a), Later(db, a), Good(b), Later(a, b),
         Good(c), Later(b, c), Good(d), Later(c, d), IInv
  PROVE  AllLater(<<a, b, c, d>>) /\ <<a, b, c, d>>[Len(<<a, b, c, d>>)] = d /\ Later(db, d)
  <1>1. a \in Tables /\ b \in Tables /\ c \in Tables /\ d \in Tables /\ db \in Tables
    BY DEF IInv, Good
  <1>2. Later(db, b) /\ Later(db, c)
    BY <1>1, LaterTransitive
  <1>3. Later(db, d)
    BY <1>1, <1>2, LaterTransitive
  <1>4. /\ <<a, b, c, d>> \in Seq(Tables) /\ Len(<<a, b, c, d>>) = 4
        /\ \A i \in 1 .. 4 : i \in {1, 2, 3, 4}
    BY <1>1
  <1> QED
    BY <1>2, <1>3, <1>4 DEF AllLater

LEMMA SixWrites ==
  ASSUME NEW a, NEW b, NEW c, NEW d, NEW f, NEW g, Good(a), Later(db, a), Good(b), Later(a, b),
         Good(c), Later(b, c), Good(d), Later(c, d), Good(f), Later(d, f), Good(g), Later(f, g), IInv
  PROVE  /\ AllLater(<<a, b, c, d, f, g>>) /\ Later(db, g)
         /\ <<a, b, c, d, f, g>>[Len(<<a, b, c, d, f, g>>)] = g
  <1>1. /\ a \in Tables /\ b \in Tables /\ c \in Tables /\ d \in Tables
        /\ f \in Tables /\ g \in Tables /\ db \in Tables
    BY DEF IInv, Good
  <1>2. Later(db, b) /\ Later(db, c)
    BY <1>1, LaterTransitive
  <1>3. Later(db, d) /\ Later(db, f)
    BY <1>1, <1>2, LaterTransitive
  <1>4. Later(db, g)
    BY <1>1, <1>3, LaterTransitive
  <1>5. /\ <<a, b, c, d, f, g>> \in Seq(Tables) /\ Len(<<a, b, c, d, f, g>>) = 6
        /\ \A i \in 1 .. 6 : i \in {1, 2, 3, 4, 5, 6}
    BY <1>1
  <1> QED
    BY <1>2, <1>3, <1>4, <1>5 DEF AllLater

-----------------------------------------------------------------------------
(* What an operation does to the builds, other than end them: some are     *)
(* aborted.                                                                *)
Calmer(en) ==
  /\ EnginesGood(en)
  /\ \A e \in Engines : /\ en[e].phase = engine[e].phase
                        /\ LiveBuild(en, e) => en[e] = engine[e]

Untouched(en, p) == \A e \in Engines : LiveBuild(en, e) => en[e].build.plan # p

LEMMA SameIsCalmer ==
  ASSUME IInv PROVE Calmer(engine)
  BY DEF IInv, Calmer, EnginesGood

LEMMA AbortedIsCalmer ==
  ASSUME IInv, NEW p
  PROVE  Calmer(Aborted(p)) /\ (p # 0 => Untouched(Aborted(p), p))
  <1>1. engine \in [Engines -> EngineRow] /\ InTurn(engine) /\ Live(db, engine)
    BY DEF IInv
  <1>2. ASSUME NEW e \in Engines
        PROVE  /\ Aborted(p)[e] \in EngineRow /\ Aborted(p)[e].phase = engine[e].phase
               /\ LiveBuild(Aborted(p), e) =>
                    Aborted(p)[e] = engine[e] /\ (p # 0 => engine[e].build.plan # p)
    <2>1. engine[e] \in EngineRow
      BY <1>1
    <2>2. CASE Connected(e) /\ engine[e].build.plan = p /\ p # 0
      <3>1. Aborted(p)[e] = [engine[e] EXCEPT !.build.aborted = TRUE]
        BY <2>2 DEF Aborted
      <3>2. engine[e].build \in Build
        BY <2>1, <2>2 DEF EngineRow, NoBuild
      <3>3. [engine[e].build EXCEPT !.aborted = TRUE] \in Build
        BY <3>2 DEF Build
      <3>4. Aborted(p)[e] = [engine[e] EXCEPT !.build = [engine[e].build EXCEPT !.aborted = TRUE]]
        BY <2>1, <3>1 DEF EngineRow
      <3>5. Aborted(p)[e] \in EngineRow /\ Aborted(p)[e].phase = engine[e].phase
        BY <2>1, <3>3, <3>4 DEF EngineRow
      <3>6. Aborted(p)[e].build.aborted
        BY <2>1, <3>2, <3>4 DEF EngineRow, Build
      <3> QED
        BY <3>5, <3>6 DEF LiveBuild
    <2>3. CASE ~(Connected(e) /\ engine[e].build.plan = p /\ p # 0)
      <3>1. Aborted(p)[e] = engine[e]
        BY <2>3 DEF Aborted
      <3>2. LiveBuild(engine, e) => Connected(e)
        BY <1>1 DEF Live, Connected
      <3> QED
        BY <2>1, <2>3, <3>1, <3>2 DEF LiveBuild
    <2> QED
      BY <2>2, <2>3
  <1>3. Aborted(p) \in [Engines -> EngineRow]
    BY <1>2 DEF Aborted
  <1>4. InTurn(Aborted(p))
    BY <1>1, <1>2 DEF InTurn
  <1> QED
    BY <1>2, <1>3, <1>4 DEF Calmer, EnginesGood, Untouched

(* Builds go on that nobody has stopped.                                   *)
LEMMA StillLive ==
  ASSUME IInv, NEW en, Calmer(en), NEW n, n.run.plan = db.run.plan,
         SamePosition(db, n), Later(db, n),
         \A q \in Plans : \/ n.plan[q].status = db.plan[q].status
                          \/ n.plan[q].status \notin Holding
                          \/ Untouched(en, q),
         \/ n.run.status = db.run.status
         \/ n.run.status \notin Holding
         \/ Untouched(en, db.run.plan)
  PROVE  Live(n, en)
  <1> SUFFICES ASSUME NEW e \in Engines, LiveBuild(en, e)
               PROVE  en[e].phase \in {"up", "serving"} /\ Serves(n, en[e].build)
    BY DEF Live
  <1> DEFINE c == en[e].build
  <1>1. en[e] = engine[e]
    BY DEF Calmer
  <1>2. LiveBuild(engine, e)
    BY <1>1 DEF LiveBuild
  <1>3. engine[e].phase \in {"up", "serving"} /\ Serves(db, c)
    BY <1>1, <1>2 DEF IInv, Live
  <1>4. c.plan \in Plans
    <2>1. c \in Build
      BY <1>1, <1>2 DEF IInv, EngineRow, LiveBuild
    <2> QED
      BY <2>1 DEF Build
  <1>5. ~Untouched(en, c.plan)
    BY DEF Untouched
  <1> HIDE DEF c
  <1>6. n.plan[c.plan].status \notin Holding \cup {"none"}
    BY <1>3, <1>4, <1>5 DEF Serves, Later
  <1>7. n.plan[c.plan].at = db.plan[c.plan].at /\ n.plan[c.plan].stage = db.plan[c.plan].stage
    BY <1>3, <1>4 DEF Serves, SamePosition
  <1>8. c.plan = n.run.plan => n.run.status \notin Holding
    BY <1>3, <1>5 DEF Serves
  <1>9. Serves(n, c)
    BY <1>3, <1>6, <1>7, <1>8 DEF Serves
  <1> QED
    BY <1>1, <1>3, <1>9 DEF c

LEMMA CalmerRuns ==
  ASSUME NEW en, Calmer(en) PROVE Running(en) => Running(engine)
  BY DEF Calmer, Running

(* The story of a mission whose rows are left alone.                       *)
LEMMA SameStory ==
  ASSUME NEW d, NEW n, Story(d), n.run = d.run,
         n.plan[d.run.plan].status = d.plan[d.run.plan].status,
         \A j \in Jobs : n.job[j].plan = d.run.plan =>
           d.job[j].plan = d.run.plan /\ n.job[j].status = d.job[j].status
  PROVE  Story(n)
  <1>1. \A j \in Own(n) : j \in Own(d) /\ n.job[j].status = d.job[j].status
    BY DEF Own
  <1> QED
    BY <1>1 DEF Story

-----------------------------------------------------------------------------
(***************************************************************************)
(* 3. The operations on the mission.                                       *)
(***************************************************************************)
LEMMA PauseRunKeeps ==
  ASSUME IInv, NEW e \in Engines, PauseRun(e)
  PROVE  IInv' /\ Later(db, db')
  <1> DEFINE p  == db.run.plan
             d1 == PlanPaused(db, p)
             d2 == JobsTo(d1, p, "paused")
             d3 == RunTo(d2, "paused")
             en == Aborted(p)
  <1>1. /\ db.run.status = "running" /\ Pausable(db, p)
        /\ Commit(<<d1, d2, d3>>, en) /\ aside' = aside
    BY DEF PauseRun
  <1>2. Good(db) /\ db \in Tables /\ p \in 0 .. NPlans /\ p # 0 /\ p \in Plans /\ aside \in BOOLEAN
    BY <1>1 DEF IInv, Good, Pausable, Tables, RunRow
  <1>3. PlanBecomes(db, d1, p, TRUE, "paused")
    BY <1>1, <1>2, PausedWrites DEF PlanBecomes
  <1>4. /\ Good(d1) /\ Later(db, d1) /\ SamePosition(db, d1) /\ d1.run = db.run
        /\ d1.plan[p].status = "paused" /\ d1.plan[p].step = "waiting"
        /\ \A q \in Plans \ {p} : d1.plan[q] = db.plan[q]
    BY <1>2, <1>3 DEF PlanBecomes
  <1> HIDE DEF d1
  <1>5. /\ Good(d2) /\ Later(d1, d2) /\ d2.run = d1.run /\ d2.plan = d1.plan
        /\ \A j \in Jobs : d2.job[j].plan = p => d2.job[j].status \notin {"pending", "running"}
    <2>1. "paused" \in Asked
      BY DEF Asked
    <2>2. {"pending", "running"} \subseteq Sources("paused")
      BY DEF Sources
    <2> QED
      BY <1>4, <2>1, <2>2, SourcesKnown, JobsFromWrites DEF JobsTo
  <1> HIDE DEF d2
  <1>6. Admits(d2, "paused") /\ RunMayBecome(d2, "paused")
    BY <1>1, <1>4, <1>5 DEF Admits, TheirPlan, Own, RunMayBecome, Transitions
  <1>7. /\ Good(d3) /\ Later(d2, d3) /\ d3.plan = d2.plan /\ d3.job = d2.job
        /\ d3.run.plan = p /\ d3.run.status = "paused"
    BY <1>4, <1>5, <1>6, RunWrites DEF RunStatus
  <1> HIDE DEF d3
  <1>8. AllLater(<<d1, d2, d3>>) /\ <<d1, d2, d3>>[Len(<<d1, d2, d3>>)] = d3 /\ Later(db, d3)
    BY <1>4, <1>5, <1>7, ThreeWrites
  <1>9. Calmer(en) /\ Untouched(en, p)
    BY <1>2, AbortedIsCalmer
  <1>10. Live(d3, en)
    <2>1. SamePosition(db, d3)
      BY <1>4, <1>5, <1>7 DEF SamePosition
    <2>2. \A q \in Plans : d3.plan[q].status = db.plan[q].status \/ Untouched(en, q)
      BY <1>4, <1>5, <1>7, <1>9
    <2> HIDE DEF en
    <2> QED
      BY <1>7, <1>8, <1>9, <2>1, <2>2, StillLive
  <1>11. Story(d3)
    BY <1>4, <1>5, <1>7 DEF Story, Own, Terminal
  <1> QED
    BY <1>1, <1>2, <1>8, <1>9, <1>10, <1>11, Commits DEF Calmer

LEMMA ResumeRunKeeps ==
  ASSUME IInv, NEW e \in Engines, ResumeRun(e)
  PROVE  IInv' /\ Later(db, db')
  <1> DEFINE p  == db.run.plan
             d1 == RunTo(db, "pending")
             d2 == JobsTo(d1, p, "running")
             d3 == PlanResumed(d2, p)
             d4 == PlanPaused(d3, p)
             d5 == JobsTo(d4, p, "paused")
             on == RunTo(d3, "running")
             off == RunTo(d5, "paused")
             may == db.plan[p].status = "paused" /\ RunMayBecome(d3, "running")
             en == IF Pausable(d3, p) THEN Aborted(p) ELSE engine
  <1>1. /\ db.run.status = "paused" /\ aside' = aside
        /\ IF may THEN Commit(<<d1, d2, d3, on>>, engine)
           ELSE Commit(<<d1, d2, d3, d4, d5, off>>, en)
    BY DEF ResumeRun
  <1>2. Good(db) /\ db \in Tables /\ p \in 0 .. NPlans /\ p # 0 /\ p \in Plans /\ aside \in BOOLEAN
    BY <1>1 DEF IInv, Good, Unstarted, Tables, RunRow
  <1>3. /\ Good(d1) /\ Later(db, d1) /\ d1.plan = db.plan /\ d1.run.plan = p
        /\ d1.run.status = "pending"
    <2>1. Admits(db, "pending") /\ RunMayBecome(db, "pending")
      BY <1>1 DEF Admits, RunMayBecome, Transitions
    <2> QED
      BY <1>2, <2>1, RunWrites DEF RunStatus
  <1> HIDE DEF d1
  <1>4. Good(d2) /\ Later(d1, d2) /\ d2.run = d1.run /\ d2.plan = d1.plan
    <2>1. "running" \in Asked /\ \A j \in Jobs : Loose(d1, j)
      BY <1>3 DEF Asked, Loose
    <2> QED
      BY <1>3, <2>1, SourcesKnown, JobsFromWrites DEF JobsTo
  <1> HIDE DEF d2
  <1>5. PlanBecomes(d2, d3, p, d2.plan[p].status = "paused", "pending")
    BY <1>2, <1>4, ResumedWrites
  <1>6. /\ Good(d3) /\ Later(d2, d3) /\ SamePosition(db, d3) /\ d3.run = d1.run
        /\ \A q \in Plans \ {p} : d3.plan[q] = db.plan[q]
        /\ d3.plan[p].status = IF db.plan[p].status = "paused" THEN "pending" ELSE db.plan[p].status
    BY <1>2, <1>3, <1>4, <1>5 DEF PlanBecomes, SamePosition
  <1> HIDE DEF d3
  <1>7. Later(db, d2) /\ Later(db, d3)
    BY <1>2, <1>3, <1>4, <1>6, LaterTransitive DEF Good
  <1>8. CASE may
    <2>1. /\ Good(on) /\ Later(d3, on) /\ on.plan = d3.plan /\ on.run.plan = p
          /\ on.run.status = "running"
      <3>1. Admits(d3, "running")
        BY DEF Admits
      <3> QED
        BY <1>3, <1>6, <1>8, <3>1, RunWrites DEF RunStatus
    <2> HIDE DEF on
    <2>2. /\ AllLater(<<d1, d2, d3, on>>) /\ Later(db, on)
          /\ <<d1, d2, d3, on>>[Len(<<d1, d2, d3, on>>)] = on
      BY <1>3, <1>4, <1>6, <2>1, FourWrites
    <2>3. Live(on, engine)
      <3>1. SamePosition(db, on)
        BY <1>6, <2>1 DEF SamePosition
      <3>2. /\ on.run.status \notin Holding
            /\ \A q \in Plans : \/ on.plan[q].status = db.plan[q].status
                               \/ on.plan[q].status \notin Holding
        BY <1>6, <2>1 DEF Holding
      <3> QED
        BY <2>1, <2>2, <3>1, <3>2, SameIsCalmer, StillLive
    <2>4. Story(on)
      BY <1>6, <1>8, <2>1 DEF Story, Terminal
    <2> QED
      BY <1>1, <1>2, <1>8, <2>2, <2>3, <2>4, SameIsCalmer, Commits DEF Calmer
  <1>9. CASE ~may
    <2>1. PlanBecomes(d3, d4, p, Pausable(d3, p), "paused")
      BY <1>2, <1>6, PausedWrites
    <2>2. /\ Good(d4) /\ Later(d3, d4) /\ SamePosition(db, d4) /\ d4.run = d1.run
          /\ \A q \in Plans \ {p} : d4.plan[q] = db.plan[q]
          /\ Pausable(d3, p) => d4.plan[p].status = "paused"
          /\ ~Pausable(d3, p) => d4.plan[p] = d3.plan[p]
      BY <1>2, <1>6, <1>7, <2>1 DEF PlanBecomes, SamePosition, Later
    <2> HIDE DEF d4
    <2>3. /\ Good(d5) /\ Later(d4, d5) /\ d5.run = d4.run /\ d5.plan = d4.plan
          /\ \A j \in Jobs : d5.job[j].plan = p => d5.job[j].status \notin {"pending", "running"}
      <3>1. "paused" \in Asked
        BY DEF Asked
      <3>2. {"pending", "running"} \subseteq Sources("paused")
        BY DEF Sources
      <3> QED
        BY <2>2, <3>1, <3>2, SourcesKnown, JobsFromWrites DEF JobsTo
    <2> HIDE DEF d5
    <2>4. d4.plan[p].status \notin {"pending", "running", "failed", "completed"}
      <3>1. db.plan[p].status \notin {"failed", "completed"}
        BY <1>1, <1>2 DEF Good, Follows
      <3> QED
        BY <1>2, <1>6, <2>2, <3>1 DEF Pausable
    <2>5. d4.plan[p].step = "waiting"
      <3>1. d4.plan[p].step \in {"waiting", "running"}
        BY <1>2, <2>2 DEF Good, Tables, PlanRow
      <3> QED
        BY <1>2, <2>2, <2>4, <3>1 DEF Good, StepsRun
    <2>6. Admits(d5, "paused") /\ RunMayBecome(d5, "paused")
      BY <1>3, <2>2, <2>3, <2>4, <2>5 DEF Admits, TheirPlan, Own, RunMayBecome, Transitions
    <2>7. /\ Good(off) /\ Later(d5, off) /\ off.plan = d5.plan /\ off.job = d5.job
          /\ off.run.plan = p /\ off.run.status = "paused"
      BY <1>3, <2>2, <2>3, <2>6, RunWrites DEF RunStatus
    <2> HIDE DEF off
    <2>8. /\ AllLater(<<d1, d2, d3, d4, d5, off>>) /\ Later(db, off)
          /\ <<d1, d2, d3, d4, d5, off>>[Len(<<d1, d2, d3, d4, d5, off>>)] = off
      BY <1>3, <1>4, <1>6, <2>2, <2>3, <2>7, SixWrites
    <2>10. Calmer(en) /\ (Pausable(d3, p) => Untouched(en, p))
      BY <1>2, AbortedIsCalmer, SameIsCalmer
    <2>11. Live(off, en)
      <3>1. SamePosition(db, off)
        BY <2>2, <2>3, <2>7 DEF SamePosition
      <3>2. \A q \in Plans : off.plan[q].status = db.plan[q].status \/ Untouched(en, q)
        BY <1>6, <2>2, <2>3, <2>4, <2>7, <2>10 DEF Pausable
      <3> HIDE DEF en
      <3> QED
        BY <1>1, <2>7, <2>8, <2>10, <3>1, <3>2, StillLive
    <2>12. Story(db) => Story(off)
      BY <1>1, <1>6, <2>2, <2>3, <2>4, <2>7 DEF Story, Own, Terminal
    <2>13. db.run.plan # 0 /\ ~aside' /\ Running(en) => Story(off)
      BY <1>1, <2>10, <2>12, CalmerRuns DEF IInv
    <2> HIDE DEF en
    <2> QED
      BY <1>1, <1>2, <1>9, <2>7, <2>8, <2>10, <2>11, <2>13, Commits DEF Calmer
  <1> QED
    BY <1>8, <1>9

LEMMA CancelRunKeeps ==
  ASSUME IInv, NEW e \in Engines, CancelRun(e)
  PROVE  IInv' /\ Later(db, db')
  <1> DEFINE p  == db.run.plan
             d1 == PlanCancelled(db, p)
             d2 == JobsTo(d1, p, "cancelled")
             d3 == RunTo(d2, "cancelled")
             en == Aborted(p)
  <1>1. Cancellable(db, p) /\ Commit(<<d1, d2, d3>>, en) /\ aside' = aside
    BY DEF CancelRun
  <1>2. /\ Good(db) /\ db \in Tables /\ p \in 0 .. NPlans /\ p # 0 /\ p \in Plans
        /\ db.plan[p].status \in Active /\ aside \in BOOLEAN
    BY <1>1 DEF IInv, Good, Cancellable, Tables, RunRow
  <1>3. PlanBecomes(db, d1, p, TRUE, "cancelled")
    BY <1>1, <1>2, CancelledWrites DEF PlanBecomes
  <1>4. /\ Good(d1) /\ Later(db, d1) /\ SamePosition(db, d1) /\ d1.run = db.run
        /\ d1.plan[p].status = "cancelled" /\ d1.plan[p].step = "waiting"
        /\ \A q \in Plans \ {p} : d1.plan[q] = db.plan[q]
    BY <1>2, <1>3 DEF PlanBecomes
  <1> HIDE DEF d1
  <1>5. /\ Good(d2) /\ Later(d1, d2) /\ d2.run = d1.run /\ d2.plan = d1.plan
        /\ \A j \in Jobs : d2.job[j].plan = p => d2.job[j].status \in Terminal
    <2>1. "cancelled" \in Asked
      BY DEF Asked
    <2>2. /\ Good(d2) /\ Later(d1, d2) /\ d2.run = d1.run /\ d2.plan = d1.plan
          /\ \A j \in Jobs : /\ d2.job[j].plan = d1.job[j].plan
                             /\ d2.job[j].status =
                                  IF d1.job[j].plan = p /\ d1.job[j].status \in Sources("cancelled")
                                  THEN "cancelled" ELSE d1.job[j].status
      BY <1>4, <2>1, SourcesKnown, JobsFromWrites DEF JobsTo
    <2>3. JobStatus \subseteq Sources("cancelled") \cup {"none", "completed"}
      BY DEF JobStatus, RunStatus, Sources
    <2>4. \A j \in Jobs : d1.job[j].status \in JobStatus
      BY <1>4 DEF Good, Tables, JobRow
    <2>5. \A j \in Jobs : d1.job[j].plan = p => d1.job[j].status # "none"
      BY <1>2, <1>4 DEF Good, Unstarted
    <2> QED
      BY <2>2, <2>3, <2>4, <2>5 DEF Terminal
  <1> HIDE DEF d2
  <1>6. Admits(d2, "cancelled")
    BY <1>4, <1>5 DEF Admits, TheirPlan
  <1>7. /\ Good(d3) /\ Later(d2, d3) /\ d3.plan = d2.plan /\ d3.job = d2.job /\ d3.run.plan = p
        /\ d3.run.status = IF RunMayBecome(d2, "cancelled") THEN "cancelled" ELSE d2.run.status
    BY <1>4, <1>5, <1>6, RunWrites DEF RunStatus
  <1> HIDE DEF d3
  <1>8. AllLater(<<d1, d2, d3>>) /\ <<d1, d2, d3>>[Len(<<d1, d2, d3>>)] = d3 /\ Later(db, d3)
    BY <1>4, <1>5, <1>7, ThreeWrites
  <1>9. Calmer(en) /\ Untouched(en, p)
    BY <1>2, AbortedIsCalmer
  <1>10. Live(d3, en)
    <2>1. SamePosition(db, d3)
      BY <1>4, <1>5, <1>7 DEF SamePosition
    <2>2. \A q \in Plans : d3.plan[q].status = db.plan[q].status \/ Untouched(en, q)
      BY <1>4, <1>5, <1>7, <1>9
    <2> HIDE DEF en
    <2> QED
      BY <1>7, <1>8, <1>9, <2>1, <2>2, StillLive
  <1>11. Story(db) => Story(d3)
    <2>1. Story(db) => db.run.status \in {"running", "paused"}
      BY <1>2 DEF Story, Active, Terminal
    <2>2. db.run.status \in {"running", "paused"} => RunMayBecome(d2, "cancelled")
      BY <1>4, <1>5 DEF RunMayBecome, Transitions
    <2> QED
      BY <1>4, <1>5, <1>7, <2>1, <2>2 DEF Story, Own, Terminal
  <1>12. db.run.plan # 0 /\ ~aside' /\ Running(en) => Story(d3)
    BY <1>1, <1>9, <1>11, CalmerRuns DEF IInv
  <1> HIDE DEF en
  <1> QED
    BY <1>1, <1>2, <1>7, <1>8, <1>9, <1>10, <1>12, Commits DEF Calmer

-----------------------------------------------------------------------------
(***************************************************************************)
(* 4. Reconciliation: the story is put right, whatever was cut short.      *)
(***************************************************************************)
LEMMA JobsEndWrites ==
  ASSUME NEW d, Good(d), NEW p, p # 0, NEW s
  PROVE  LET n == JobsEnd(d, p, s)
         IN /\ Good(n) /\ Later(d, n) /\ n.run = d.run /\ n.plan = d.plan
            /\ \A j \in Jobs : /\ n.job[j].plan = d.job[j].plan
                               /\ d.job[j].plan = p => n.job[j].status \in Terminal
                               /\ d.job[j].plan # p => n.job[j].status = d.job[j].status
  <1> DEFINE from == {"pending", "running", "paused", "blocked", "failed"}
             t == IF s = "cancelled" THEN s ELSE "failed"
             n == JobsFrom(d, p, from, t)
  <1>1. JobsEnd(d, p, s) = n
    BY DEF JobsEnd
  <1>2. /\ t \in Asked /\ t \in {"failed", "cancelled"}
        /\ "none" \notin from /\ "completed" \notin from /\ "cancelled" \notin from
        /\ JobStatus \subseteq from \cup {"none", "completed", "cancelled"}
    BY DEF Asked, JobStatus, RunStatus
  <1> HIDE DEF from, t
  <1>3. /\ Good(n) /\ Later(d, n) /\ n.run = d.run /\ n.plan = d.plan
        /\ \A j \in Jobs : /\ n.job[j].plan = d.job[j].plan
                           /\ n.job[j].status = IF d.job[j].plan = p /\ d.job[j].status \in from
                                                THEN t ELSE d.job[j].status
    BY <1>2, JobsFromWrites
  <1>4. \A j \in Jobs : /\ d.job[j].status \in JobStatus
                        /\ d.job[j].plan = p => d.job[j].status # "none"
    BY DEF Good, Unstarted, Tables, JobRow
  <1> HIDE DEF n
  <1> QED
    BY <1>1, <1>2, <1>3, <1>4 DEF Terminal

LEMMA MissedWrites ==
  ASSUME NEW d, Good(d)
  PROVE  LET n == MissedJobs(d)
         IN /\ Good(n) /\ Later(d, n) /\ n.run = d.run /\ n.plan = d.plan
            /\ d.run.plan # 0 /\ TheirPlan(d).status \in Terminal =>
                 \A j \in Own(n) : n.job[j].status \in Terminal
  <1> DEFINE p == d.run.plan
             missed == /\ p # 0 /\ d.plan[p].status \in Terminal
                       /\ \E j \in Jobs : /\ d.job[j].plan = p
                                          /\ d.job[j].status \in Active \cup {"blocked"}
  <1>1. CASE missed
    <2>1. MissedJobs(d) = JobsEnd(d, p, d.plan[p].status)
      BY <1>1 DEF MissedJobs
    <2> DEFINE n == JobsEnd(d, p, d.plan[p].status)
    <2>2. /\ Good(n) /\ Later(d, n) /\ n.run = d.run /\ n.plan = d.plan
          /\ \A j \in Jobs : /\ n.job[j].plan = d.job[j].plan
                             /\ d.job[j].plan = p => n.job[j].status \in Terminal
      BY <1>1, JobsEndWrites
    <2> HIDE DEF n
    <2>3. \A j \in Own(n) : n.job[j].status \in Terminal
      BY <2>2 DEF Own
    <2> QED
      BY <2>1, <2>2, <2>3 DEF n
  <1>2. CASE ~missed
    <2>1. MissedJobs(d) = d
      BY <1>2 DEF MissedJobs
    <2>2. \A j \in Own(d) : d.job[j].status \in JobStatus /\ (p # 0 => d.job[j].status # "none")
      BY DEF Good, Unstarted, Tables, JobRow, Own
    <2>3. JobStatus \subseteq Terminal \cup Active \cup {"blocked", "none"}
      BY DEF JobStatus, RunStatus, Terminal, Active
    <2> QED
      BY <1>2, <2>1, <2>2, <2>3, LaterReflexive DEF Own, TheirPlan
  <1> QED
    BY <1>1, <1>2

(* What reconcile() makes of the run: the last of its writes.              *)
Agreed(d, n) ==
  /\ n.plan = d.plan /\ n.run.plan = d.run.plan
  /\ \/ n.run.status = d.run.status
     \/ n.run.status \notin Holding
     \/ n.run.status = TheirPlan(d).status
  /\ n.run.plan # 0 => Story(n)

LEMMA ComparedAgrees ==
  ASSUME IInv, NEW d, Good(d), Later(db, d),
         d.run.plan # 0 /\ TheirPlan(d).status \in Terminal =>
           \A j \in Own(d) : d.job[j].status \in Terminal
  PROVE  AllLater(Compared(d)) /\ Agreed(d, Compared(d)[Len(Compared(d))])
  <1> DEFINE p    == d.run.plan
             s    == d.plan[p].status
             ends == JobsEnd(d, p, s)
             held == JobsTo(d, p, "paused")
  <1>0. d \in Tables /\ d.run.status \in RunStatus
    BY DEF Good, Tables, RunRow
  <1>1. CASE d.run.status \notin Active
    <2>1. Compared(d) = <<d>>
      BY <1>1 DEF Compared
    <2>2. p # 0 => d.run.status \in Terminal
      BY <1>0, <1>1 DEF Good, Unstarted, RunStatus, Active, Terminal
    <2>3. p # 0 => Story(d)
      BY <1>1, <2>2 DEF Good, Follows, Story, TheirPlan, Own, Active, Terminal
    <2> QED
      BY <2>1, <2>3, OneWrite DEF Agreed
  <1>2. CASE d.run.status \in Active
    <2>1. p # 0 /\ p \in Plans
      BY <1>0, <1>2 DEF Good, Unstarted, Active, Tables, RunRow
    <2>2. s \in PlanStatus /\ s # "none" /\ Follows(d)
      BY <1>0, <2>1 DEF Good, Progress, Tables, PlanRow
    <2>3. CASE s \in {"completed", "failed", "cancelled"}
      <3> DEFINE to == IF s = "completed"
                       THEN IF \A j \in Jobs : ends.job[j].plan = p => ends.job[j].status = "completed"
                            THEN "completed" ELSE "failed"
                       ELSE s
                 n == RunTo(ends, to)
      <3>1. /\ Good(ends) /\ Later(d, ends) /\ ends.run = d.run /\ ends.plan = d.plan
            /\ \A j \in Own(ends) : ends.job[j].status \in Terminal
        BY <2>1, JobsEndWrites DEF Own
      <3>2. Compared(d) = <<ends, n>>
        <4>1. s = "completed" => d.run.status = "running"
          BY <1>2, <2>2 DEF Follows, Active
        <4>2. s = "completed" => Settled(ends) = n
          BY <3>1, <4>1 DEF Settled
        <4> HIDE DEF ends, to
        <4>3. CASE s = "completed"
          <5>1. Compared(d) = <<ends, Settled(ends)>>
            BY <1>2, <4>3 DEF Compared, ends
          <5> QED
            BY <4>2, <4>3, <5>1
        <4>4. CASE s \in {"failed", "cancelled"}
          <5>1. Compared(d) = <<ends, RunTo(ends, s)>>
            BY <1>2, <4>4 DEF Compared, ends
          <5> QED
            BY <4>4, <5>1 DEF to
        <4> QED
          BY <2>3, <4>3, <4>4
      <3>3. /\ to \in Terminal /\ (s = "completed" => to \in {"completed", "failed"})
            /\ s # "completed" => to = s
        BY <2>3 DEF Terminal
      <3> HIDE DEF ends, to
      <3>4. Admits(ends, to) /\ RunMayBecome(ends, to) /\ to \in RunStatus
        <4>1. s = "completed" => d.run.status = "running"
          BY <1>2, <2>2 DEF Follows, Active
        <4>2. s = "failed" => d.run.status = "running"
          BY <1>2, <2>2 DEF Follows, Active
        <4> QED
          BY <1>2, <2>3, <3>1, <3>3, <4>1, <4>2
             DEF Admits, TheirPlan, RunMayBecome, Transitions, Active, Terminal, RunStatus
      <3>5. /\ Good(n) /\ Later(ends, n) /\ n.plan = d.plan /\ n.job = ends.job
            /\ n.run.plan = p /\ n.run.status = to
        BY <3>1, <3>4, RunWrites
      <3> HIDE DEF n
      <3>6. Later(db, ends)
        BY <1>0, <3>1, LaterTransitive DEF IInv, Good
      <3>7. AllLater(<<ends, n>>) /\ <<ends, n>>[Len(<<ends, n>>)] = n
        BY <3>1, <3>5, <3>6, TwoWrites
      <3>8. Story(n)
        BY <2>3, <3>1, <3>3, <3>5 DEF Story, Own, Terminal
      <3>9. to \notin Holding \/ to = s
        BY <3>3 DEF Holding
      <3>10. Agreed(d, n)
        BY <3>5, <3>8, <3>9 DEF Agreed, TheirPlan
      <3> QED
        BY <3>2, <3>7, <3>10
    <2>4. CASE s = "paused"
      <3> DEFINE n == RunTo(held, "paused")
      <3>1. Compared(d) = <<held, n>>
        <4> HIDE DEF held
        <4> QED
          BY <1>2, <2>4 DEF Compared, held
      <3>2. /\ Good(held) /\ Later(d, held) /\ held.run = d.run /\ held.plan = d.plan
            /\ \A j \in Own(held) : held.job[j].status \notin {"pending", "running"}
        <4>1. "paused" \in Asked
          BY DEF Asked
        <4>2. {"pending", "running"} \subseteq Sources("paused")
          BY DEF Sources
        <4> QED
          BY <4>1, <4>2, SourcesKnown, JobsFromWrites DEF JobsTo, Own
      <3> HIDE DEF held
      <3>3. d.plan[p].step = "waiting"
        BY <1>0, <2>1, <2>4 DEF Good, StepsRun, Tables, PlanRow
      <3>4. Admits(held, "paused")
        BY <2>4, <3>2, <3>3 DEF Admits, TheirPlan
      <3>5. /\ Good(n) /\ Later(held, n) /\ n.plan = d.plan /\ n.job = held.job
            /\ n.run.plan = p /\ n.run.status = "paused"
        <4>1. RunMayBecome(held, "paused") \/ held.run.status = "paused"
          BY <1>2, <3>2 DEF RunMayBecome, Transitions, Active
        <4> QED
          BY <3>2, <3>4, <4>1, RunWrites DEF RunStatus
      <3> HIDE DEF n
      <3>6. Later(db, held)
        BY <1>0, <3>2, LaterTransitive DEF IInv, Good
      <3>7. AllLater(<<held, n>>) /\ <<held, n>>[Len(<<held, n>>)] = n
        BY <3>2, <3>5, <3>6, TwoWrites
      <3>8. Story(n)
        BY <2>4, <3>2, <3>5 DEF Story, Own, Terminal
      <3>9. Agreed(d, n)
        BY <2>4, <3>5, <3>8 DEF Agreed, TheirPlan
      <3> QED
        BY <3>1, <3>7, <3>9
    <2>5. CASE s \in {"pending", "running"}
      <3> DEFINE n == IF d.run.status = "pending" THEN RunTo(d, "running") ELSE d
      <3>1. Compared(d) = <<n>>
        <4> HIDE DEF n
        <4> QED
          BY <1>2, <2>5 DEF Compared, n
      <3>2. RunMayBecome(d, "running") \/ d.run.status # "pending"
        <4>1. \A j \in 1 .. NMission : d.job[j].plan = p
          BY <2>1, <2>5 DEF Good, Progress, Terminal
        <4> QED
          BY <2>5, <4>1 DEF RunMayBecome, Transitions, Materialized
      <3>3. /\ Good(n) /\ Later(d, n) /\ n.plan = d.plan /\ n.job = d.job /\ n.run.plan = p
            /\ n.run.status = IF d.run.status = "pending" THEN "running" ELSE d.run.status
        <4>1. Admits(d, "running")
          BY DEF Admits
        <4>2. CASE d.run.status = "pending"
          BY <3>2, <4>1, <4>2, RunWrites DEF RunStatus
        <4>3. CASE d.run.status # "pending"
          BY <4>3, LaterReflexive
        <4> QED
          BY <4>2, <4>3
      <3> HIDE DEF n
      <3>4. Later(db, n)
        BY <1>0, <3>3, LaterTransitive DEF IInv, Good
      <3>5. Story(n)
        BY <1>2, <2>2, <2>5, <3>3 DEF Story, Follows, Own, Active, Terminal
      <3>6. Agreed(d, n)
        BY <3>3, <3>5 DEF Agreed, Holding
      <3> QED
        BY <3>1, <3>3, <3>4, <3>6, OneWrite
    <2> QED
      BY <2>2, <2>3, <2>4, <2>5 DEF PlanStatus, RunStatus
  <1> QED
    BY <1>1, <1>2

LEMMA ReconciledAgrees ==
  ASSUME IInv, NEW d, Good(d), Later(db, d)
  PROVE  AllLater(Reconciled(d)) /\ Agreed(d, Reconciled(d)[Len(Reconciled(d))])
  <1> DEFINE m == MissedJobs(d)
  <1>1. /\ Good(m) /\ Later(d, m) /\ m.run = d.run /\ m.plan = d.plan
        /\ m.run.plan # 0 /\ TheirPlan(m).status \in Terminal =>
             \A j \in Own(m) : m.job[j].status \in Terminal
    BY MissedWrites DEF TheirPlan
  <1> HIDE DEF m
  <1>2. Later(db, m)
    BY <1>1, LaterTransitive DEF IInv, Good
  <1>3. AllLater(Compared(m)) /\ Agreed(m, Compared(m)[Len(Compared(m))])
    BY <1>1, <1>2, ComparedAgrees
  <1>4. AllLater(<<m>>)
    BY <1>1, <1>2, OneWrite
  <1>5. /\ AllLater(<<m>> \o Compared(m))
        /\ (<<m>> \o Compared(m))[Len(<<m>> \o Compared(m))] = Compared(m)[Len(Compared(m))]
    BY <1>3, <1>4, MoreWrites
  <1>6. Reconciled(d) = <<m>> \o Compared(m)
    BY DEF Reconciled, m
  <1>7. \A n : Agreed(m, n) => Agreed(d, n)
    BY <1>1 DEF Agreed, TheirPlan
  <1> QED
    BY <1>3, <1>5, <1>6, <1>7

-----------------------------------------------------------------------------
(***************************************************************************)
(* 5. The operations on jobs and plans: the mission's own are not touched, *)
(* or the mission is behind.                                               *)
(***************************************************************************)
LEMMA Elsewhere ==
  ASSUME IInv, NEW en, Calmer(en), NEW n, n.run = db.run, NEW q, Behind(q),
         db.run.plan # 0 /\ q # db.run.plan =>
           /\ n.plan[db.run.plan].status = db.plan[db.run.plan].status
           /\ \A j \in Jobs : n.job[j].plan = db.run.plan =>
                db.job[j].plan = db.run.plan /\ n.job[j].status = db.job[j].status
  PROVE  /\ aside' \in BOOLEAN
         /\ n.run.plan # 0 /\ ~aside' /\ Running(en) => Story(n)
  <1>1. aside \in BOOLEAN
    BY DEF IInv
  <1>2. aside' \in BOOLEAN
    BY <1>1 DEF Behind
  <1>3. ASSUME n.run.plan # 0, ~aside', Running(en) PROVE Story(n)
    <2>1. ~aside /\ q # db.run.plan
      BY <1>1, <1>2, <1>3 DEF Behind, Linked
    <2>2. Story(db)
      BY <1>3, <2>1, CalmerRuns DEF IInv
    <2> QED
      BY <1>3, <2>1, <2>2, SameStory
  <1> QED
    BY <1>2, <1>3

LEMMA PauseJobKeeps ==
  ASSUME IInv, NEW e \in Engines, NEW j \in Jobs, PauseJob(e, j)
  PROVE  IInv' /\ Later(db, db')
  <1> DEFINE q  == db.job[j].plan
             d1 == PlanPaused(db, q)
             d2 == JobTo(d1, j, "paused")
             en == IF Pausable(db, q) THEN Aborted(q) ELSE engine
  <1>1. Commit(<<d1, d2>>, en) /\ Behind(q)
    BY DEF PauseJob
  <1>2. Good(db) /\ q \in 0 .. NPlans
    BY DEF IInv, Good, Tables, JobRow
  <1>3. PlanBecomes(db, d1, q, Pausable(db, q), "paused")
    BY <1>2, PausedWrites
  <1>4. Good(d1) /\ Later(db, d1) /\ SamePosition(db, d1) /\ d1.run = db.run /\ d1.job = db.job
    BY <1>3 DEF PlanBecomes
  <1>5. \A p \in Plans : \/ d1.plan[p] = db.plan[p]
                         \/ (p = q /\ Pausable(db, q) /\ d1.plan[p].status = "paused")
    BY <1>3 DEF PlanBecomes
  <1> HIDE DEF d1, q
  <1>6. /\ Good(d2) /\ Later(d1, d2) /\ d2.run = d1.run /\ d2.plan = d1.plan
        /\ \A i \in Jobs : /\ d2.job[i].plan = d1.job[i].plan
                           /\ i # j => d2.job[i].status = d1.job[i].status
    <2>1. "paused" \in Asked
      BY DEF Asked
    <2> QED
      BY <1>4, <2>1, JobToWrites
  <1> HIDE DEF d2
  <1>7. AllLater(<<d1, d2>>) /\ <<d1, d2>>[Len(<<d1, d2>>)] = d2 /\ Later(db, d2)
    BY <1>4, <1>6, TwoWrites
  <1>8. Calmer(en) /\ (Pausable(db, q) => Untouched(en, q))
    BY <1>2, AbortedIsCalmer, SameIsCalmer DEF Pausable
  <1> HIDE DEF en
  <1>9. Live(d2, en)
    <2>1. SamePosition(db, d2)
      BY <1>4, <1>6 DEF SamePosition
    <2> QED
      BY <1>4, <1>5, <1>6, <1>7, <1>8, <2>1, StillLive
  <1>10. aside' \in BOOLEAN /\ (d2.run.plan # 0 /\ ~aside' /\ Running(en) => Story(d2))
    <2>1. db.run.plan # 0 => db.run.plan \in Plans
      BY <1>2 DEF Good, Tables, RunRow
    <2>2. db.run.plan # 0 /\ q # db.run.plan =>
            /\ d2.plan[db.run.plan].status = db.plan[db.run.plan].status
            /\ \A i \in Jobs : d2.job[i].plan = db.run.plan =>
                 db.job[i].plan = db.run.plan /\ d2.job[i].status = db.job[i].status
      BY <1>4, <1>5, <1>6, <2>1 DEF q
    <2> QED
      BY <1>1, <1>4, <1>6, <1>8, <2>2, Elsewhere
  <1> QED
    BY <1>1, <1>7, <1>8, <1>9, <1>10, Commits DEF Calmer

LEMMA CancelJobKeeps ==
  ASSUME IInv, NEW e \in Engines, NEW j \in Jobs, CancelJob(e, j)
  PROVE  IInv' /\ Later(db, db')
  <1> DEFINE q  == db.job[j].plan
             d1 == PlanCancelled(db, q)
             d2 == JobTo(d1, j, "cancelled")
             en == IF Cancellable(db, q) THEN Aborted(q) ELSE engine
  <1>1. Commit(<<d1, d2>>, en) /\ Behind(q)
    BY DEF CancelJob
  <1>2. Good(db) /\ q \in 0 .. NPlans
    BY DEF IInv, Good, Tables, JobRow
  <1>3. PlanBecomes(db, d1, q, Cancellable(db, q), "cancelled")
    BY <1>2, CancelledWrites
  <1>4. Good(d1) /\ Later(db, d1) /\ SamePosition(db, d1) /\ d1.run = db.run /\ d1.job = db.job
    BY <1>3 DEF PlanBecomes
  <1>5. \A p \in Plans : \/ d1.plan[p] = db.plan[p]
                         \/ (p = q /\ Cancellable(db, q) /\ d1.plan[p].status = "cancelled")
    BY <1>3 DEF PlanBecomes
  <1> HIDE DEF d1, q
  <1>6. /\ Good(d2) /\ Later(d1, d2) /\ d2.run = d1.run /\ d2.plan = d1.plan
        /\ \A i \in Jobs : /\ d2.job[i].plan = d1.job[i].plan
                           /\ i # j => d2.job[i].status = d1.job[i].status
    <2>1. "cancelled" \in Asked
      BY DEF Asked
    <2> QED
      BY <1>4, <2>1, JobToWrites
  <1> HIDE DEF d2
  <1>7. AllLater(<<d1, d2>>) /\ <<d1, d2>>[Len(<<d1, d2>>)] = d2 /\ Later(db, d2)
    BY <1>4, <1>6, TwoWrites
  <1>8. Calmer(en) /\ (Cancellable(db, q) => Untouched(en, q))
    BY <1>2, AbortedIsCalmer, SameIsCalmer DEF Cancellable
  <1> HIDE DEF en
  <1>9. Live(d2, en)
    <2>1. SamePosition(db, d2)
      BY <1>4, <1>6 DEF SamePosition
    <2> QED
      BY <1>4, <1>5, <1>6, <1>7, <1>8, <2>1, StillLive
  <1>10. aside' \in BOOLEAN /\ (d2.run.plan # 0 /\ ~aside' /\ Running(en) => Story(d2))
    <2>1. db.run.plan # 0 => db.run.plan \in Plans
      BY <1>2 DEF Good, Tables, RunRow
    <2>2. db.run.plan # 0 /\ q # db.run.plan =>
            /\ d2.plan[db.run.plan].status = db.plan[db.run.plan].status
            /\ \A i \in Jobs : d2.job[i].plan = db.run.plan =>
                 db.job[i].plan = db.run.plan /\ d2.job[i].status = db.job[i].status
      BY <1>4, <1>5, <1>6, <2>1 DEF q
    <2> QED
      BY <1>1, <1>4, <1>6, <1>8, <2>2, Elsewhere
  <1> QED
    BY <1>1, <1>7, <1>8, <1>9, <1>10, Commits DEF Calmer

LEMMA StartJobKeeps ==
  ASSUME IInv, NEW e \in Engines, NEW j \in Jobs, NEW p \in Plans, StartJob(e, j, p)
  PROVE  IInv' /\ Later(db, db')
  <1> DEFINE d1 == [db EXCEPT !.job[j].status = "pending"]
             d2 == Planned(d1, j, p)
             d3 == Attached(d2, j, p)
  <1>1. /\ Commit(<<d1, d2, d3>>, engine) /\ aside' = aside
        /\ j > NMission /\ db.job[j].status = "none" /\ PlanFor(d1, j, p)
    BY DEF StartJob
  <1>2. Good(db) /\ db \in Tables /\ db.job[j] \in JobRow /\ db.job[j].plan = 0
    BY <1>1 DEF IInv, Good, Unstarted, Tables
  <1>3. /\ d1 \in Tables /\ d1.run = db.run /\ d1.plan = db.plan
        /\ d1.job[j].status = "pending" /\ d1.job[j].plan = 0
        /\ \A i \in Jobs \ {j} : d1.job[i] = db.job[i]
    <2> DEFINE r == [db.job[j] EXCEPT !.status = "pending"]
    <2>1. r \in JobRow /\ r.status = "pending" /\ r.plan = 0
      BY <1>2 DEF JobRow, JobStatus, RunStatus
    <2>2. d1 = [db EXCEPT !.job[j] = r]
      BY <1>2 DEF Tables, JobRow
    <2> HIDE DEF r
    <2> QED
      BY <1>2, <2>1, <2>2 DEF Tables
  <1> HIDE DEF d1
  <1>4. Good(d1) /\ Later(db, d1)
    <2>1. j \notin 1 .. NMission /\ \A i \in 1 .. NMission : i \in Jobs
      BY <1>1, MissionAssumption
    <2>2. Unstarted(d1) /\ StepsRun(d1)
      BY <1>2, <1>3, <2>1 DEF Good, Unstarted, StepsRun
    <2>3. db.run.plan # 0 => Progress(d1)
      BY <1>2, <1>3, <2>1 DEF Good, Progress, AllBuilt
    <2>4. db.run.plan # 0 => Follows(d1)
      BY <1>2, <1>3 DEF Good, Follows, Own
    <2>5. Later(db, d1)
      BY <1>1, <1>3 DEF Later
    <2> QED
      BY <1>3, <2>2, <2>3, <2>4, <2>5 DEF Good
  <1>5. /\ Good(d2) /\ Later(d1, d2) /\ SamePosition(d1, d2) /\ d2.run = d1.run
        /\ d2.job = d1.job /\ p # d1.run.plan
        /\ \A q \in Plans : d2.plan[q] = d1.plan[q] \/ (q = p /\ d1.plan[q].status = "none")
    BY <1>1, <1>4, PlannedWrites
  <1> HIDE DEF d2
  <1>6. /\ Good(d3) /\ Later(d2, d3) /\ d3.run = d2.run /\ d3.plan = d2.plan
        /\ d3.job[j].plan = p /\ \A i \in Jobs \ {j} : d3.job[i] = d2.job[i]
    <2>1. j \notin 1 .. NMission
      BY <1>1, MissionAssumption
    <2>2. p # d2.run.plan /\ d2.job[j].status \notin {"none", "completed", "cancelled"}
      BY <1>3, <1>5
    <2> QED
      BY <1>5, <2>1, <2>2, AttachedWrites
  <1> HIDE DEF d3
  <1>7. AllLater(<<d1, d2, d3>>) /\ <<d1, d2, d3>>[Len(<<d1, d2, d3>>)] = d3 /\ Later(db, d3)
    BY <1>4, <1>5, <1>6, ThreeWrites
  <1>8. Live(d3, engine)
    <2>1. SamePosition(db, d3)
      BY <1>3, <1>5, <1>6 DEF SamePosition
    <2>2. \A q \in Plans : d3.plan[q].status = db.plan[q].status \/ Untouched(engine, q)
      <3>1. \A q \in Plans : db.plan[q].status = "none" => Untouched(engine, q)
        BY DEF IInv, Live, Serves, Untouched
      <3> QED
        BY <1>3, <1>5, <1>6, <3>1
    <2> QED
      BY <1>3, <1>5, <1>6, <1>7, <2>1, <2>2, SameIsCalmer, StillLive
  <1>9. aside' \in BOOLEAN /\ (d3.run.plan # 0 /\ ~aside' /\ Running(engine) => Story(d3))
    <2>1. Behind(0)
      BY <1>1 DEF Behind, Linked, IInv
    <2>2. db.run.plan # 0 => db.run.plan \in Plans
      BY <1>2 DEF Tables, RunRow
    <2>3. db.run.plan # 0 =>
            /\ d3.plan[db.run.plan].status = db.plan[db.run.plan].status
            /\ \A i \in Jobs : d3.job[i].plan = db.run.plan =>
                 db.job[i].plan = db.run.plan /\ d3.job[i].status = db.job[i].status
      BY <1>3, <1>5, <1>6, <2>2
    <2> QED
      BY <1>3, <1>5, <1>6, <2>1, <2>3, SameIsCalmer, Elsewhere
  <1> QED
    BY <1>1, <1>7, <1>8, <1>9, SameIsCalmer, Commits DEF Calmer

LEMMA ResumeJobKeeps ==
  ASSUME IInv, NEW e \in Engines, NEW j \in Jobs, NEW p \in Plans, ResumeJob(e, j, p)
  PROVE  IInv' /\ Later(db, db')
  <1> DEFINE q  == db.job[j].plan
             d1 == PlanCancelled(db, q)
             d2 == JobTo(d1, j, "pending")
             d3 == Planned(d2, j, p)
             d4 == Attached(d3, j, p)
             en == IF Cancellable(db, q) THEN Aborted(q) ELSE engine
  <1>1. /\ Commit(<<d1, d2, d3, d4>>, en) /\ Behind(q) /\ PlanFor(d2, j, p)
        /\ db.job[j].status \in {"paused", "blocked", "failed"}
    BY DEF ResumeJob
  <1>2. Good(db) /\ db \in Tables /\ q \in 0 .. NPlans
    BY DEF IInv, Good, Tables, JobRow
  <1>3. PlanBecomes(db, d1, q, Cancellable(db, q), "cancelled")
    BY <1>2, CancelledWrites
  <1>4. Good(d1) /\ Later(db, d1) /\ SamePosition(db, d1) /\ d1.run = db.run /\ d1.job = db.job
    BY <1>3 DEF PlanBecomes
  <1>5. \A r \in Plans : \/ d1.plan[r] = db.plan[r]
                         \/ (r = q /\ Cancellable(db, q) /\ d1.plan[r].status = "cancelled")
    BY <1>3 DEF PlanBecomes
  <1>6. db.run.plan # 0 /\ db.run.plan = q => d1.plan[q].status \in Terminal
    <2>1. ASSUME db.run.plan # 0, db.run.plan = q PROVE d1.plan[q].status \in Terminal
      <3> HIDE DEF d1, q
      <3>1. q \in Plans /\ d1.plan[q].status \in PlanStatus \ {"none"}
        <4>1. q \in Plans
          BY <1>2, <2>1, MissionAssumption
        <4>2. d1.plan[q].status # "none"
          BY <1>4, <2>1 DEF Good, Progress
        <4>3. d1.plan[q] \in PlanRow
          BY <1>4, <4>1 DEF Good, Tables
        <4> QED
          BY <4>1, <4>2, <4>3 DEF PlanRow
      <3>2. CASE Cancellable(db, q)
        BY <1>3, <3>1, <3>2 DEF PlanBecomes, Terminal
      <3>3. CASE ~Cancellable(db, q)
        BY <1>3, <2>1, <3>1, <3>3 DEF PlanBecomes, Cancellable, PlanStatus, RunStatus, Active, Terminal
      <3> QED
        BY <3>2, <3>3
    <2> QED
      BY <2>1
  <1>7. db.run.plan # 0 /\ j \in 1 .. NMission => TheirPlan(d1).status \in Terminal
    <2>1. db.run.plan # 0 /\ j \in 1 .. NMission /\ q # db.run.plan => TheirPlan(d1).status \in Terminal
      BY <1>4 DEF Good, Progress, TheirPlan, q
    <2> QED
      BY <1>4, <1>6, <2>1 DEF TheirPlan
  <1>8. Loose(d1, j)
    <2>1. d1.run.plan = 0 => d1.run.status # "paused"
      BY <1>4 DEF Good, Unstarted
    <2> QED
      BY <1>4, <1>6, <2>1 DEF Loose, TheirPlan
  <1> HIDE DEF d1
  <1>9. /\ Good(d2) /\ Later(d1, d2) /\ d2.run = d1.run /\ d2.plan = d1.plan
        /\ d2.job[j].status = "pending"
        /\ \A i \in Jobs : /\ d2.job[i].plan = d1.job[i].plan
                           /\ i # j => d2.job[i].status = d1.job[i].status
    <2>1. "pending" \in Asked /\ db.job[j].status \in Sources("pending")
      BY <1>1 DEF Asked, Sources
    <2> QED
      BY <1>4, <1>8, <2>1, JobToWrites
  <1> HIDE DEF d2
  <1>10. /\ Good(d3) /\ Later(d2, d3) /\ SamePosition(d2, d3) /\ d3.run = d2.run
         /\ d3.job = d2.job /\ p # d2.run.plan
         /\ \A r \in Plans : d3.plan[r] = d2.plan[r] \/ (r = p /\ d2.plan[r].status = "none")
    BY <1>1, <1>9, PlannedWrites
  <1>11. db.run.plan # 0 /\ j \in 1 .. NMission => TheirPlan(d3).status \in Terminal
    <2>1. db.run.plan # 0 => db.run.plan \in Plans
      BY <1>2 DEF Tables, RunRow
    <2> QED
      BY <1>4, <1>7, <1>9, <1>10, <2>1 DEF TheirPlan
  <1> HIDE DEF d3
  <1>12. /\ Good(d4) /\ Later(d3, d4) /\ d4.run = d3.run /\ d4.plan = d3.plan
         /\ d4.job[j].plan = p /\ \A i \in Jobs \ {j} : d4.job[i] = d3.job[i]
    BY <1>4, <1>9, <1>10, <1>11, AttachedWrites
  <1> HIDE DEF d4, q
  <1>13. /\ AllLater(<<d1, d2, d3, d4>>) /\ Later(db, d4)
         /\ <<d1, d2, d3, d4>>[Len(<<d1, d2, d3, d4>>)] = d4
    BY <1>4, <1>9, <1>10, <1>12, FourWrites
  <1>14. Calmer(en) /\ (Cancellable(db, q) => Untouched(en, q))
    BY <1>2, AbortedIsCalmer, SameIsCalmer DEF Cancellable
  <1> HIDE DEF en
  <1>15. Live(d4, en)
    <2>1. SamePosition(db, d4)
      BY <1>4, <1>9, <1>10, <1>12 DEF SamePosition, Later
    <2>2. \A r \in Plans : d4.plan[r].status = db.plan[r].status \/ Untouched(en, r)
      <3>1. \A r \in Plans : db.plan[r].status = "none" => Untouched(en, r)
        BY <1>14 DEF IInv, Live, Serves, Untouched, Calmer, LiveBuild
      <3> QED
        BY <1>5, <1>9, <1>10, <1>12, <1>14, <3>1
    <2> QED
      BY <1>4, <1>9, <1>10, <1>12, <1>13, <1>14, <2>1, <2>2, StillLive
  <1>16. aside' \in BOOLEAN /\ (d4.run.plan # 0 /\ ~aside' /\ Running(en) => Story(d4))
    <2>1. db.run.plan # 0 => db.run.plan \in Plans
      BY <1>2 DEF Tables, RunRow
    <2>2. db.run.plan # 0 /\ q # db.run.plan =>
            /\ d4.plan[db.run.plan].status = db.plan[db.run.plan].status
            /\ \A i \in Jobs : d4.job[i].plan = db.run.plan =>
                 db.job[i].plan = db.run.plan /\ d4.job[i].status = db.job[i].status
      BY <1>4, <1>5, <1>9, <1>10, <1>12, <2>1 DEF q
    <2> QED
      BY <1>1, <1>4, <1>9, <1>10, <1>12, <1>14, <2>2, Elsewhere
  <1> QED
    BY <1>1, <1>13, <1>14, <1>15, <1>16, Commits DEF Calmer

(* The task tool on plan p.                                                *)
LEMMA PlanToolKeeps ==
  ASSUME IInv, NEW p \in Plans, NEW n, NEW able, NEW s, PlanBecomes(db, n, p, able, s),
         NEW en, Calmer(en), s \notin Holding \/ Untouched(en, p),
         Commit(<<n>>, en), Behind(p)
  PROVE  IInv' /\ Later(db, db')
  <1>1. Good(n) /\ Later(db, n) /\ SamePosition(db, n) /\ n.run = db.run /\ n.job = db.job
    BY DEF PlanBecomes
  <1>2. \A q \in Plans : n.plan[q] = db.plan[q] \/ (q = p /\ n.plan[q].status = s)
    BY DEF PlanBecomes
  <1>3. AllLater(<<n>>) /\ <<n>>[Len(<<n>>)] = n
    BY <1>1, OneWrite
  <1>4. Live(n, en)
    BY <1>1, <1>2, StillLive
  <1>5. aside' \in BOOLEAN /\ (n.run.plan # 0 /\ ~aside' /\ Running(en) => Story(n))
    <2>1. db.run.plan # 0 => db.run.plan \in Plans
      BY DEF IInv, Good, Tables, RunRow
    <2> QED
      BY <1>1, <1>2, <2>1, Elsewhere
  <1> QED
    BY <1>3, <1>4, <1>5, Commits DEF Calmer

LEMMA PausePlanKeeps ==
  ASSUME IInv, NEW e \in Engines, NEW p \in Plans, PausePlan(e, p)
  PROVE  IInv' /\ Later(db, db')
  <1>1. Commit(<<PlanPaused(db, p)>>, Aborted(p)) /\ Behind(p)
    BY DEF PausePlan
  <1>2. PlanBecomes(db, PlanPaused(db, p), p, Pausable(db, p), "paused")
    BY PausedWrites DEF IInv
  <1>3. Calmer(Aborted(p)) /\ Untouched(Aborted(p), p)
    BY AbortedIsCalmer, MissionAssumption
  <1> QED
    BY <1>1, <1>2, <1>3, PlanToolKeeps

LEMMA ResumePlanKeeps ==
  ASSUME IInv, NEW e \in Engines, NEW p \in Plans, ResumePlan(e, p)
  PROVE  IInv' /\ Later(db, db')
  <1>1. Commit(<<PlanResumed(db, p)>>, engine) /\ Behind(p)
    BY DEF ResumePlan
  <1>2. PlanBecomes(db, PlanResumed(db, p), p, db.plan[p].status = "paused", "pending")
    BY ResumedWrites DEF IInv
  <1>3. "pending" \notin Holding
    BY DEF Holding
  <1> QED
    BY <1>1, <1>2, <1>3, SameIsCalmer, PlanToolKeeps

LEMMA CancelPlanKeeps ==
  ASSUME IInv, NEW e \in Engines, NEW p \in Plans, CancelPlan(e, p)
  PROVE  IInv' /\ Later(db, db')
  <1>1. Commit(<<PlanCancelled(db, p)>>, Aborted(p)) /\ Behind(p)
    BY DEF CancelPlan
  <1>2. PlanBecomes(db, PlanCancelled(db, p), p, Cancellable(db, p), "cancelled")
    BY CancelledWrites DEF IInv
  <1>3. Calmer(Aborted(p)) /\ Untouched(Aborted(p), p)
    BY AbortedIsCalmer, MissionAssumption
  <1> QED
    BY <1>1, <1>2, <1>3, PlanToolKeeps

(* No build that may still click works on a plan that is held.             *)
LEMMA HeldIsUntouched ==
  ASSUME IInv, NEW en, Calmer(en), NEW q \in Plans,
         db.plan[q].status \in Holding \cup {"none"}
  PROVE  Untouched(en, q)
  BY DEF IInv, Live, Serves, Untouched, Calmer, LiveBuild

LEMMA PauseActivePlanKeeps ==
  ASSUME IInv, NEW e \in Engines, PauseActivePlan(e)
  PROVE  IInv' /\ Later(db, db')
  <1> DEFINE p  == engine[e].build.plan
             d1 == PlanPaused(db, p)
             d2 == JobsTo(d1, p, "paused")
             rs == Reconciled(d2)
             n  == rs[Len(rs)]
             en == Aborted(p)
  <1>1. Commit(<<d1, d2>> \o rs, en) /\ aside' = FALSE /\ Pausable(db, p)
    BY DEF PauseActivePlan
  <1>2. p \in Plans /\ p # 0 /\ Good(db)
    <2>1. engine[e].build \in Build
      BY DEF IInv, EngineRow, PauseActivePlan, Building
    <2> QED
      BY <2>1, MissionAssumption DEF Build, IInv
  <1>3. PlanBecomes(db, d1, p, TRUE, "paused")
    BY <1>1, <1>2, PausedWrites DEF PlanBecomes
  <1>4. /\ Good(d1) /\ Later(db, d1) /\ SamePosition(db, d1) /\ d1.run = db.run
        /\ \A q \in Plans \ {p} : d1.plan[q] = db.plan[q]
    BY <1>2, <1>3 DEF PlanBecomes
  <1>5. Calmer(en) /\ Untouched(en, p)
    BY <1>2, AbortedIsCalmer
  <1> HIDE DEF d1, p, en
  <1>6. Good(d2) /\ Later(d1, d2) /\ d2.run = d1.run /\ d2.plan = d1.plan
    <2>1. "paused" \in Asked
      BY DEF Asked
    <2> QED
      BY <1>4, <2>1, SourcesKnown, JobsFromWrites DEF JobsTo
  <1> HIDE DEF d2
  <1>7. AllLater(<<d1, d2>>) /\ Later(db, d2)
    BY <1>4, <1>6, TwoWrites
  <1>8. AllLater(rs) /\ Agreed(d2, n)
    BY <1>6, <1>7, ReconciledAgrees
  <1> HIDE DEF rs
  <1>9. AllLater(<<d1, d2>> \o rs) /\ (<<d1, d2>> \o rs)[Len(<<d1, d2>> \o rs)] = n
    BY <1>7, <1>8, MoreWrites
  <1>10. Later(db, n)
    BY <1>8 DEF AllLater
  <1> HIDE DEF n
  <1>11. n.plan = d1.plan /\ n.run.plan = db.run.plan
    BY <1>4, <1>6, <1>8 DEF Agreed
  <1>12. Live(n, en)
    <2>1. SamePosition(db, n)
      BY <1>4, <1>11 DEF SamePosition
    <2>2. \A q \in Plans : n.plan[q].status = db.plan[q].status \/ Untouched(en, q)
      BY <1>4, <1>5, <1>11
    <2>3. \/ n.run.status = db.run.status
          \/ n.run.status \notin Holding
          \/ Untouched(en, db.run.plan)
      <3>1. SUFFICES ASSUME n.run.status # db.run.status, n.run.status \in Holding,
                            p # db.run.plan
                     PROVE  Untouched(en, db.run.plan)
        BY <1>5
      <3>2. n.run.status = d1.plan[db.run.plan].status
        BY <1>4, <1>6, <1>8, <3>1 DEF Agreed, TheirPlan
      <3>3. CASE db.run.plan \in Plans
        BY <1>4, <1>5, <3>1, <3>2, <3>3, HeldIsUntouched
      <3>4. CASE db.run.plan \notin Plans
        <4>1. \A f \in Engines : LiveBuild(en, f) => en[f].build.plan \in Plans
          BY <1>5 DEF Calmer, EnginesGood, EngineRow, LiveBuild, Build
        <4> QED
          BY <3>4, <4>1 DEF Untouched
      <3> QED
        BY <3>3, <3>4
    <2> QED
      BY <1>5, <1>10, <1>11, <2>1, <2>2, <2>3, StillLive
  <1>13. n.run.plan # 0 => Story(n)
    BY <1>8 DEF Agreed
  <1> QED
    BY <1>1, <1>5, <1>9, <1>12, <1>13, Commits DEF Calmer

LEMMA MaterializeKeeps ==
  ASSUME IInv, NEW e \in Engines, NEW p \in Plans, Materialize(e, p)
  PROVE  IInv' /\ Later(db, db')
  <1>1. Good(db) /\ db \in Tables /\ db.run.status = "none" /\ db.run.plan = 0
    BY DEF IInv, Good, Unstarted, Materialize
  <1>2. db.plan[p].status = "none" /\ engine' = engine /\ aside' = aside
    BY DEF Materialize
  <1> DEFINE r == NewPlan(1, NMission)
             w == [status |-> "running", plan |-> p]
  <1>3. 1 \in Jobs /\ NMission \in Jobs /\ \A i \in 1 .. NMission : i \in Jobs /\ i <= NMission
    BY MissionAssumption
  <1>4. /\ r \in PlanRow /\ r.status = "pending" /\ r.step = "waiting"
        /\ r.at = 1 /\ r.last = NMission
    BY <1>3, MissionAssumption DEF NewPlan, PlanRow, PlanStatus, RunStatus
  <1>5. w \in JobRow /\ w \in RunRow /\ w.status = "running" /\ w.plan = p
    BY DEF JobRow, RunRow, JobStatus, RunStatus
  <1>6. db' = [run |-> w, plan |-> [db.plan EXCEPT ![p] = r],
               job |-> [j \in Jobs |-> IF j <= NMission THEN w ELSE db.job[j]]]
    BY DEF Materialize
  <1> HIDE DEF r, w
  <1>7. /\ db' \in Tables /\ db'.run = w /\ db'.plan[p] = r
        /\ \A q \in Plans \ {p} : db'.plan[q] = db.plan[q]
        /\ \A j \in Jobs : db'.job[j] = IF j <= NMission THEN w ELSE db.job[j]
    BY <1>1, <1>4, <1>5, <1>6 DEF Tables
  <1>8. p # 0
    BY MissionAssumption
  <1>9. Unstarted(db') /\ StepsRun(db')
    BY <1>1, <1>3, <1>4, <1>5, <1>7, <1>8 DEF Good, Unstarted, StepsRun
  <1>10. Progress(db')
    <2>1. ~(\E i \in 1 .. NMission : i < 1)
      BY MissionAssumption
    <2> QED
      BY <1>3, <1>4, <1>5, <1>7, <2>1 DEF Progress, AllBuilt
  <1>11. Follows(db')
    BY <1>4, <1>5, <1>7 DEF Follows, Terminal
  <1>12. Later(db, db')
    <2>1. \A j \in 1 .. NMission : db.job[j].status = "none"
      BY <1>1 DEF Good, Unstarted
    <2>2. \A j \in Jobs : j <= NMission => j \in 1 .. NMission
      BY MissionAssumption
    <2> QED
      BY <1>1, <1>2, <1>4, <1>7, <2>1, <2>2 DEF Later, Terminal
  <1>13. Live(db', engine)
    <2> SUFFICES ASSUME NEW f \in Engines, LiveBuild(engine, f)
                 PROVE  engine[f].phase \in {"up", "serving"} /\ Serves(db', engine[f].build)
      BY DEF Live
    <2>1. engine[f].phase \in {"up", "serving"} /\ Serves(db, engine[f].build)
      BY DEF IInv, Live
    <2>2. engine[f].build.plan \in Plans
      BY DEF IInv, EngineRow, LiveBuild, Build
    <2>3. engine[f].build.plan # p
      BY <1>2, <2>1 DEF Serves
    <2>4. Serves(db', engine[f].build)
      BY <1>5, <1>7, <2>1, <2>2, <2>3 DEF Serves
    <2> QED
      BY <2>1, <2>4
  <1>14. Story(db')
    BY <1>4, <1>5, <1>7 DEF Story, Terminal
  <1>15. Good(db')
    BY <1>7, <1>9, <1>10, <1>11 DEF Good
  <1> QED
    BY <1>2, <1>12, <1>13, <1>14, <1>15 DEF IInv

-----------------------------------------------------------------------------
(***************************************************************************)
(* 6. Steps and their results.                                             *)
(***************************************************************************)

(* What a step may report of tables d: success only from the position of   *)
(* the plan, and of a build only with its job completed.                   *)
Reports(d, c, out) ==
  out = "ok" =>
    /\ c.job = d.plan[c.plan].at
    /\ d.plan[c.plan].stage = IF c.phase = "preparing" THEN "prepare" ELSE "build"
    /\ c.phase = "building" => d.job[c.job].status = "completed"

LEMMA RecordedRow ==
  ASSUME NEW d, Good(d), NEW c \in Build, NEW out, ~Dropped(d, c)
  PROVE  \E r \in PlanRow :
           LET f == d.plan[c.plan]
           IN /\ Recorded(d, c, out) = [d EXCEPT !.plan[c.plan] = r]
              /\ f.status = "running" /\ f.step = "running" /\ r.step = "waiting"
              /\ r.last = f.last /\ r.status \in {"running", "completed", "failed"}
              /\ out # "ok" => r.at = f.at /\ r.stage = f.stage /\ r.status # "completed"
              /\ f.stage = "prepare" => r.at = f.at /\ r.status # "completed"
              /\ f.stage = "build" => r.at \in {f.at, f.at + 1}
              /\ r.at > f.at => out = "ok" /\ f.at < f.last
              /\ r.status = "completed" => out = "ok" /\ f.at >= f.last
  <1> DEFINE f == d.plan[c.plan]
             g == IF out = "ok" THEN NextStep(f)
                  ELSE IF out = "retry" /\ c.tries < MaxAttempts /\ f.tries < MaxAttempts
                  THEN [f EXCEPT !.status = "running"]
                  ELSE [f EXCEPT !.status = "failed"]
             r == [g EXCEPT !.step = "waiting"]
             Fine(x) == /\ f.status = "running" /\ f.step = "running" /\ x.step = "waiting"
                        /\ x.last = f.last /\ x.status \in {"running", "completed", "failed"}
                        /\ out # "ok" => x.at = f.at /\ x.stage = f.stage /\ x.status # "completed"
                        /\ f.stage = "prepare" => x.at = f.at /\ x.status # "completed"
                        /\ f.stage = "build" => x.at \in {f.at, f.at + 1}
                        /\ x.at > f.at => out = "ok" /\ f.at < f.last
                        /\ x.status = "completed" => out = "ok" /\ f.at >= f.last
  <1>1. d \in Tables /\ c.plan \in Plans
    BY DEF Good, Build
  <1>2. f \in PlanRow
    BY <1>1 DEF Tables
  <1>3. f.step = "running" /\ f.status = "running" /\ f.at \in Jobs
    BY <1>1 DEF Good, StepsRun, Dropped
  <1>4. Recorded(d, c, out) = [d EXCEPT !.plan[c.plan] = r]
    BY DEF Recorded
  <1> HIDE DEF f
  <1>5. NMission \in Nat /\ NJobs \in Nat /\ MaxAttempts \in Nat /\ f.at \in Nat /\ f.last \in Nat
    BY <1>2, <1>3, MissionAssumption DEF PlanRow
  <1>6. ASSUME out # "ok" PROVE r \in PlanRow /\ Fine(r)
    <2>1. g = [f EXCEPT !.status = "running"] \/ g = [f EXCEPT !.status = "failed"]
      BY <1>6
    <2> HIDE DEF g
    <2>2. r \in PlanRow /\ r.step = "waiting" /\ r.last = f.last /\ r.at = f.at
          /\ r.stage = f.stage /\ r.status \in {"running", "failed"}
      BY <1>2, <2>1 DEF PlanRow, PlanStatus, RunStatus
    <2> HIDE DEF r
    <2> QED
      BY <1>3, <1>5, <1>6, <2>2
  <1>7. ASSUME out = "ok", f.stage = "prepare" PROVE r \in PlanRow /\ Fine(r)
    <2>1. g = [f EXCEPT !.stage = "build", !.status = "running", !.tries = 0]
      BY <1>7 DEF NextStep
    <2> HIDE DEF g
    <2> DEFINE h == [f EXCEPT !.stage = "build", !.status = "running"]
    <2>2. h \in PlanRow /\ h.last = f.last /\ h.at = f.at /\ h.status = "running"
      BY <1>2 DEF PlanRow, PlanStatus, RunStatus
    <2>3. g = [h EXCEPT !.tries = 0] /\ 0 \in 0 .. MaxAttempts
      BY <1>5, <2>1
    <2> HIDE DEF h
    <2>4. g \in PlanRow /\ g.last = f.last /\ g.at = f.at /\ g.status = "running"
      BY <2>2, <2>3 DEF PlanRow
    <2>5. r \in PlanRow /\ r.step = "waiting" /\ r.last = f.last /\ r.at = f.at
          /\ r.status = "running"
      BY <2>4 DEF PlanRow
    <2> HIDE DEF r
    <2> QED
      BY <1>3, <1>5, <1>7, <2>5
  <1>8. ASSUME out = "ok", f.stage = "build", f.at < f.last
        PROVE  r \in PlanRow /\ Fine(r)
    <2>1. g = [f EXCEPT !.at = f.at + 1, !.stage = "prepare", !.status = "running", !.tries = 0]
      BY <1>8 DEF NextStep
    <2> HIDE DEF g
    <2> DEFINE h == [f EXCEPT !.at = f.at + 1, !.stage = "prepare"]
    <2>2. f.at + 1 \in 0 .. NJobs
      BY <1>2, <1>5, <1>8 DEF PlanRow
    <2>3. h \in PlanRow /\ h.last = f.last /\ h.at = f.at + 1
      BY <1>2, <2>2 DEF PlanRow
    <2>4. g = [h EXCEPT !.status = "running", !.tries = 0] /\ 0 \in 0 .. MaxAttempts
      BY <1>5, <2>1
    <2> HIDE DEF h
    <2>5. g \in PlanRow /\ g.last = f.last /\ g.at = f.at + 1 /\ g.status = "running"
      BY <2>3, <2>4 DEF PlanRow, PlanStatus, RunStatus
    <2>6. r \in PlanRow /\ r.step = "waiting" /\ r.last = f.last /\ r.at = f.at + 1
          /\ r.status = "running"
      BY <2>5 DEF PlanRow
    <2> HIDE DEF r
    <2> QED
      BY <1>3, <1>5, <1>8, <2>6
  <1>9. ASSUME out = "ok", f.stage = "build", ~(f.at < f.last)
        PROVE  r \in PlanRow /\ Fine(r)
    <2>1. g = [f EXCEPT !.status = "completed"]
      BY <1>9 DEF NextStep
    <2> HIDE DEF g
    <2>2. r \in PlanRow /\ r.step = "waiting" /\ r.last = f.last /\ r.at = f.at
          /\ r.status = "completed"
      BY <1>2, <2>1 DEF PlanRow, PlanStatus, RunStatus
    <2> HIDE DEF r
    <2> QED
      BY <1>3, <1>5, <1>9, <2>2
  <1>10. f.stage \in {"prepare", "build"}
    BY <1>2 DEF PlanRow
  <1> HIDE DEF r
  <1>11. r \in PlanRow /\ Fine(r)
    <2> HIDE DEF Fine
    <2> QED
      BY <1>6, <1>7, <1>8, <1>9, <1>10
  <1> QED
    BY <1>4, <1>11 DEF f

LEMMA RecordedWrites ==
  ASSUME NEW d, Good(d), NEW c \in Build, NEW out, ~Dropped(d, c), Reports(d, c, out)
  PROVE  LET n == Recorded(d, c, out)
         IN /\ Good(n) /\ Later(d, n) /\ n.run = d.run /\ n.job = d.job
            /\ out # "ok" => SamePosition(d, n)
            /\ d.plan[c.plan].status = "running" /\ d.plan[c.plan].step = "running"
            /\ n.plan[c.plan].status \in {"running", "completed", "failed"}
            /\ n.plan[c.plan].step = "waiting"
            /\ \A q \in Plans \ {c.plan} : n.plan[q] = d.plan[q]
  <1> DEFINE p == c.plan
             f == d.plan[p]
             n == Recorded(d, c, out)
  <1>1. d \in Tables /\ p \in Plans /\ c.job \in Jobs /\ f \in PlanRow
    BY DEF Good, Build, Tables
  <1>2. PICK r \in PlanRow :
          /\ n = [d EXCEPT !.plan[p] = r]
          /\ f.status = "running" /\ f.step = "running" /\ r.step = "waiting"
          /\ r.last = f.last /\ r.status \in {"running", "completed", "failed"}
          /\ out # "ok" => r.at = f.at /\ r.stage = f.stage /\ r.status # "completed"
          /\ f.stage = "prepare" => r.at = f.at /\ r.status # "completed"
          /\ f.stage = "build" => r.at \in {f.at, f.at + 1}
          /\ r.at > f.at => out = "ok" /\ f.at < f.last
          /\ r.status = "completed" => out = "ok" /\ f.at >= f.last
    BY RecordedRow
  <1> HIDE DEF n
  <1>3. /\ n \in Tables /\ n.run = d.run /\ n.job = d.job /\ n.plan[p] = r
        /\ \A q \in Plans \ {p} : n.plan[q] = d.plan[q]
    BY <1>1, <1>2, RowWrites
  <1> HIDE DEF f
  <1>4. /\ f.at \in Jobs /\ f.at \in Nat /\ f.last \in Nat /\ r.at \in Nat /\ r.at \in {f.at, f.at + 1}
        /\ f.at <= NJobs /\ f.last <= NJobs
    <2>1. f.at \in Jobs
      BY <1>1, <1>2 DEF Good, StepsRun, f
    <2>2. f.stage \in {"prepare", "build"}
      BY <1>1 DEF PlanRow
    <2> QED
      BY <1>1, <1>2, <2>1, <2>2, MissionAssumption DEF PlanRow
  <1>5. r.at \in Jobs
    BY <1>2, <1>4, MissionAssumption
  <1>6. Unstarted(n) /\ StepsRun(n)
    BY <1>2, <1>3, <1>5 DEF Good, Unstarted, StepsRun
  <1>7. ASSUME d.run.plan # 0 PROVE Progress(n) /\ Follows(n)
    <2>1. d.run.plan \in Plans /\ Progress(d) /\ Follows(d)
      BY <1>1, <1>7 DEF Good, Tables, RunRow
    <2>2. CASE d.run.plan # p
      <3>1. n.plan[d.run.plan] = d.plan[d.run.plan]
        BY <1>3, <2>1, <2>2
      <3> QED
        BY <1>3, <2>1, <3>1 DEF Progress, Follows, AllBuilt, Own
    <2>3. CASE d.run.plan = p
      <3>1. d.run.status = "running"
        BY <1>2, <2>1, <2>3 DEF Follows, f
      <3>2. Follows(n)
        BY <1>2, <1>3, <2>3, <3>1 DEF Follows, Terminal
      <3>3. f.last = NMission
        BY <2>1, <2>3 DEF Progress, f
      <3>4. ASSUME NEW j \in 1 .. NMission, j < r.at \/ r.status = "completed"
            PROVE  d.job[j].status = "completed"
        <4>1. CASE j < f.at
          BY <2>1, <2>3, <4>1 DEF Progress, f
        <4>2. CASE ~(j < f.at)
          <5>1. j \in Nat /\ NMission \in Nat /\ j <= NMission
            BY MissionAssumption
          <5>2. j = f.at /\ out = "ok"
            <6>1. CASE j < r.at
              BY <1>2, <1>4, <4>2, <5>1, <6>1
            <6>2. CASE r.status = "completed"
              BY <1>2, <1>4, <3>3, <4>2, <5>1, <6>2
            <6> QED
              BY <3>4, <6>1, <6>2
          <5>3. f.stage # "prepare"
            BY <1>2, <1>4, <3>4, <4>2, <5>1
          <5>4. c.job = f.at /\ c.phase = "building"
            <6>1. c.phase \in {"preparing", "building"}
              BY DEF Build
            <6> QED
              BY <5>2, <5>3, <6>1 DEF Reports, f
          <5> QED
            BY <5>2, <5>4 DEF Reports
        <4> QED
          BY <4>1, <4>2
      <3>5. \A j \in 1 .. NMission : d.job[j].plan = p
        BY <1>2, <2>1, <2>3 DEF Progress, Terminal, f
      <3>6. Progress(n)
        BY <1>2, <1>3, <2>3, <3>1, <3>3, <3>4, <3>5 DEF Progress
      <3> QED
        BY <3>2, <3>6
    <2> QED
      BY <2>2, <2>3
  <1>8. Later(d, n)
    BY <1>2, <1>3 DEF Later
  <1>9. out # "ok" => SamePosition(d, n)
    BY <1>2, <1>3 DEF SamePosition, f
  <1> QED
    BY <1>2, <1>3, <1>6, <1>7, <1>8, <1>9 DEF Good, n, f

LEMMA ReactionAgrees ==
  ASSUME IInv, NEW d, Good(d), Later(db, d), NEW p \in Plans,
         d.plan[p].status \in {"completed", "failed"},
         p = d.run.plan => d.run.status = "running"
  PROVE  LET n == Reaction(d, p)[Len(Reaction(d, p))]
         IN /\ AllLater(Reaction(d, p)) /\ n.plan = d.plan /\ n.run.plan = d.run.plan
            /\ n.run.status = d.run.status \/ n.run.status \notin Holding
            /\ (p = d.run.plan \/ (d.run.plan # 0 /\ Story(d))) /\ n.run.plan # 0 => Story(n)
  <1> DEFINE d1 == JobsTo(d, p, "failed")
             d2 == JobsEnd(d1, p, d.plan[p].status)
  <1>1. /\ Good(d1) /\ Later(d, d1) /\ d1.run = d.run /\ d1.plan = d.plan
        /\ \A j \in Jobs : /\ d1.job[j].plan = d.job[j].plan
                           /\ d.job[j].plan # p => d1.job[j].status = d.job[j].status
    <2>1. "failed" \in Asked
      BY DEF Asked
    <2> QED
      BY <2>1, SourcesKnown, JobsFromWrites DEF JobsTo
  <1> HIDE DEF d1
  <1>2. Later(db, d1)
    BY <1>1, LaterTransitive DEF IInv, Good
  <1>3. CASE p # d.run.plan
    <2>1. Reaction(d, p) = <<d1>>
      BY <1>3 DEF Reaction, d1
    <2>2. d.run.plan # 0 /\ Story(d) => Story(d1)
      BY <1>1, <1>3, SameStory
    <2> QED
      BY <1>1, <1>2, <1>3, <2>1, <2>2, OneWrite
  <1>4. CASE p = d.run.plan
    <2> DEFINE to == IF d.plan[p].status = "completed"
                     THEN IF \A j \in Jobs : d2.job[j].plan = d2.run.plan => d2.job[j].status = "completed"
                          THEN "completed" ELSE "failed"
                     ELSE "failed"
               n == RunTo(d2, to)
    <2>1. p # 0 /\ d.run.status = "running"
      BY <1>4, MissionAssumption
    <2>2. /\ Good(d2) /\ Later(d1, d2) /\ d2.run = d.run /\ d2.plan = d.plan
          /\ \A j \in Own(d2) : d2.job[j].status \in Terminal
      BY <1>1, <1>4, <2>1, JobsEndWrites DEF Own
    <2>3. Reaction(d, p) = <<d1, d2, n>>
      <3>1. d.run.status \notin Terminal /\ d.run.status \in {"pending", "running"}
        BY <2>1 DEF Terminal
      <3> HIDE DEF d2
      <3>2. CASE d.plan[p].status = "completed"
        <4>1. Reaction(d, p) = <<d1, d2, Settled(d2)>>
          BY <1>4, <3>1, <3>2 DEF Reaction, d1, d2
        <4>2. Settled(d2) = n
          BY <2>2, <3>1, <3>2 DEF Settled
        <4> QED
          BY <4>1, <4>2
      <3>3. CASE d.plan[p].status # "completed"
        <4>1. Reaction(d, p) = <<d1, d2, RunTo(d2, "failed")>>
          BY <1>4, <3>1, <3>3 DEF Reaction, d1, d2
        <4> QED
          BY <3>3, <4>1
      <3> QED
        BY <3>2, <3>3
    <2>4. to \in {"completed", "failed"} /\ (to = "completed" => d.plan[p].status = "completed")
      OBVIOUS
    <2> HIDE DEF d2, to
    <2>5. Admits(d2, to) /\ RunMayBecome(d2, to) /\ to \in RunStatus
      BY <1>4, <2>1, <2>2, <2>4 DEF Admits, TheirPlan, RunMayBecome, Transitions, RunStatus
    <2>6. /\ Good(n) /\ Later(d2, n) /\ n.plan = d.plan /\ n.job = d2.job
          /\ n.run.plan = p /\ n.run.status = to
      BY <1>4, <2>2, <2>5, RunWrites
    <2> HIDE DEF n
    <2>7. AllLater(<<d1, d2, n>>) /\ <<d1, d2, n>>[Len(<<d1, d2, n>>)] = n
      BY <1>1, <1>2, <2>2, <2>6, ThreeWrites
    <2>8. Story(n)
      BY <1>4, <2>2, <2>4, <2>6 DEF Story, Own, Terminal
    <2>9. to \notin Holding
      BY <2>4 DEF Holding
    <2> QED
      BY <1>4, <2>3, <2>6, <2>7, <2>8, <2>9
  <1> QED
    BY <1>3, <1>4

(* The engine is done with its step.                                       *)
Idle(e) == [engine EXCEPT ![e].build = NoBuild]

LEMMA IdleGood ==
  ASSUME IInv, NEW e \in Engines
  PROVE  /\ Calmer(Idle(e))
         /\ Connected(e) => \A f \in Engines : ~LiveBuild(Idle(e), f)
  <1>1. engine \in [Engines -> EngineRow] /\ InTurn(engine) /\ Live(db, engine)
    BY DEF IInv
  <1>2. ASSUME NEW f \in Engines
        PROVE  /\ Idle(e)[f] \in EngineRow /\ Idle(e)[f].phase = engine[f].phase
               /\ LiveBuild(Idle(e), f) => f # e /\ Idle(e)[f] = engine[f]
    <2>1. engine[f] \in EngineRow
      BY <1>1
    <2>2. CASE f = e
      <3>1. Idle(e)[f] = [engine[f] EXCEPT !.build = NoBuild]
        BY <1>1, <2>2 DEF Idle
      <3> QED
        BY <2>1, <3>1 DEF EngineRow, LiveBuild
    <2>3. CASE f # e
      <3>1. Idle(e)[f] = engine[f]
        BY <1>1, <2>3 DEF Idle
      <3> QED
        BY <2>1, <2>3, <3>1
    <2> QED
      BY <2>2, <2>3
  <1>3. Idle(e) \in [Engines -> EngineRow]
    BY <1>1, <1>2 DEF Idle
  <1>4. InTurn(Idle(e))
    BY <1>1, <1>2 DEF InTurn
  <1>5. ASSUME Connected(e), NEW f \in Engines, LiveBuild(Idle(e), f) PROVE FALSE
    <2>1. f # e /\ LiveBuild(engine, f)
      BY <1>2, <1>5 DEF LiveBuild
    <2>2. engine[f].phase \in {"up", "serving"} /\ engine[e].phase \in {"up", "serving"}
      BY <1>1, <1>5, <2>1 DEF Live, Connected
    <2>3. f < e \/ e < f
      BY <2>1, MissionAssumption
    <2> QED
      BY <1>1, <2>2, <2>3 DEF InTurn
  <1> QED
    BY <1>2, <1>3, <1>4, <1>5 DEF Calmer, EnginesGood

LEMMA SettleKeeps ==
  ASSUME IInv, NEW e \in Engines, NEW c \in Build, NEW ds, AllLater(ds),
         NEW d, d = ds[Len(ds)], d.run = db.run, Live(d, Idle(e)),
         db.run.plan # 0 /\ Story(db) => Story(d),
         NEW out, Reports(d, c, out), Connected(e) \/ out # "ok", Settle(e, c, ds, out)
  PROVE  IInv' /\ Later(db, db')
  <1> DEFINE d1    == Recorded(d, c, out)
             ended == d1.plan[c.plan].status \in Terminal
             en    == Idle(e)
  <1>1. /\ Good(d) /\ Later(db, d) /\ ds \in Seq(Tables) /\ Len(ds) \in Nat /\ Len(ds) > 0
        /\ aside \in BOOLEAN
    <2>1. ds \in Seq(Tables) /\ Len(ds) \in Nat /\ Len(ds) > 0
      BY DEF AllLater
    <2> QED
      BY <2>1 DEF AllLater, IInv
  <1>2. Calmer(en) /\ (Connected(e) => \A f \in Engines : ~LiveBuild(en, f))
    BY IdleGood
  <1>3. Running(en) => Running(engine)
    BY <1>2, CalmerRuns
  <1>4. /\ Dropped(d, c) => Commit(ds, en) /\ aside' = aside
        /\ ~Dropped(d, c) /\ ended /\ Connected(e) =>
             Commit(ds \o <<d1>> \o Reaction(d1, c.plan), en) /\ aside' = aside
        /\ ~Dropped(d, c) /\ ~(ended /\ Connected(e)) =>
             /\ Commit(Append(ds, d1), en)
             /\ IF ended THEN Behind(c.plan) ELSE aside' = aside
    BY DEF Settle, Idle
  <1> HIDE DEF en
  <1>5. CASE Dropped(d, c)
    <2>1. d.run.plan # 0 /\ ~aside' /\ Running(en) => Story(d)
      BY <1>3, <1>4, <1>5 DEF IInv
    <2> QED
      BY <1>1, <1>2, <1>4, <1>5, <2>1, Commits DEF Calmer, en
  <1>6. CASE ~Dropped(d, c)
    <2>1. /\ Good(d1) /\ Later(d, d1) /\ d1.run = d.run /\ d1.job = d.job
          /\ out # "ok" => SamePosition(d, d1)
          /\ d.plan[c.plan].status = "running" /\ d.plan[c.plan].step = "running"
          /\ d1.plan[c.plan].status \in {"running", "completed", "failed"}
          /\ \A q \in Plans \ {c.plan} : d1.plan[q] = d.plan[q]
      BY <1>1, <1>6, RecordedWrites
    <2> HIDE DEF d1
    <2>2. Later(db, d1) /\ c.plan \in Plans /\ d1 \in Tables
      BY <1>1, <2>1, LaterTransitive DEF IInv, Good, Build
    <2>3. db.run.plan # 0 => db.run.plan \in Plans
      BY DEF IInv, Good, Tables, RunRow
    <2>4. c.plan # db.run.plan /\ db.run.plan # 0 /\ Story(d) => Story(d1)
      <3> SUFFICES ASSUME c.plan # db.run.plan, db.run.plan # 0, Story(d)
                   PROVE  Story(d1)
        OBVIOUS
      <3>1. d.run.plan = db.run.plan /\ d1.run = d.run /\ d1.job = d.job
        BY <2>1
      <3>2. d1.plan[d.run.plan].status = d.plan[d.run.plan].status
        BY <2>1, <2>3, <3>1
      <3> QED
        BY <3>1, <3>2, SameStory
    <2>5. CASE ended /\ Connected(e)
      <3> DEFINE rs == Reaction(d1, c.plan)
                 n  == rs[Len(rs)]
      <3>1. c.plan = d1.run.plan => d1.run.status = "running"
        BY <1>1, <2>1, <2>2, MissionAssumption DEF Good, Follows
      <3>2. d1.plan[c.plan].status \in {"completed", "failed"}
        BY <2>1, <2>5 DEF Terminal
      <3>3. /\ AllLater(rs) /\ n.plan = d1.plan /\ n.run.plan = d1.run.plan
            /\ (c.plan = d1.run.plan \/ (d1.run.plan # 0 /\ Story(d1))) /\ n.run.plan # 0 => Story(n)
        BY <2>1, <2>2, <3>1, <3>2, ReactionAgrees
      <3> HIDE DEF rs
      <3>4. AllLater(ds \o <<d1>>)
        BY <2>1, <2>2, OneWrite, MoreWrites
      <3>5. /\ AllLater(ds \o <<d1>> \o rs)
            /\ (ds \o <<d1>> \o rs)[Len(ds \o <<d1>> \o rs)] = n
        BY <3>3, <3>4, MoreWrites
      <3>6. Live(n, en)
        BY <1>2, <2>5 DEF Live
      <3> HIDE DEF n
      <3>7. n.run.plan # 0 /\ ~aside' /\ Running(en) => Story(n)
        BY <1>3, <1>4, <1>6, <2>1, <2>4, <2>5, <3>3 DEF IInv
      <3>8. Commit(ds \o <<d1>> \o rs, en) /\ aside' = aside
        BY <1>4, <1>6, <2>5 DEF rs
      <3> QED
        BY <1>1, <1>2, <3>5, <3>6, <3>7, <3>8, Commits DEF Calmer
    <2>6. CASE ~(ended /\ Connected(e))
      <3>1. Commit(Append(ds, d1), en) /\ IF ended THEN Behind(c.plan) ELSE aside' = aside
        BY <1>4, <1>6, <2>6
      <3>2. AllLater(Append(ds, d1)) /\ Append(ds, d1)[Len(Append(ds, d1))] = d1
        BY <1>1, <2>1, <2>2, OneMoreWrite
      <3>3. Live(d1, en)
        <4> SUFFICES ASSUME NEW f \in Engines, LiveBuild(en, f)
                     PROVE  en[f].phase \in {"up", "serving"} /\ Serves(d1, en[f].build)
          BY DEF Live
        <4> DEFINE b == en[f].build
        <4>1. out # "ok" /\ en[f].phase \in {"up", "serving"} /\ Serves(d, b)
          BY <1>2 DEF Live, en
        <4>2. b.plan \in Plans
          BY <1>2 DEF Calmer, EnginesGood, EngineRow, LiveBuild, Build
        <4> HIDE DEF b
        <4>3. d1.plan[b.plan].status \notin Holding \cup {"none"}
          BY <2>1, <4>1, <4>2 DEF Serves, Holding
        <4>4. d1.plan[b.plan].at = d.plan[b.plan].at /\ d1.plan[b.plan].stage = d.plan[b.plan].stage
          BY <2>1, <4>1, <4>2 DEF SamePosition, Serves
        <4>5. Serves(d1, b)
          BY <2>1, <4>1, <4>3, <4>4 DEF Serves
        <4> QED
          BY <4>1, <4>5 DEF b
      <3>4. aside' \in BOOLEAN /\ (~aside' => ~aside)
        BY <1>1, <3>1 DEF Behind
      <3>5. ASSUME d1.run.plan # 0, ~aside', Running(en) PROVE Story(d1)
        <4>1. Story(d)
          BY <1>3, <2>1, <3>4, <3>5 DEF IInv
        <4>2. CASE c.plan # db.run.plan
          BY <2>1, <2>4, <3>5, <4>1, <4>2
        <4>3. CASE c.plan = db.run.plan
          <5>1. ~ended
            BY <1>1, <2>1, <3>1, <3>4, <3>5, <4>3 DEF Behind, Linked
          <5>2. d1.plan[c.plan].status = d.plan[c.plan].status
            BY <2>1, <5>1 DEF Terminal
          <5> QED
            BY <2>1, <4>1, <4>3, <5>2, SameStory
        <4> QED
          BY <4>2, <4>3
      <3> QED
        BY <1>2, <3>1, <3>2, <3>3, <3>4, <3>5, Commits DEF Calmer
    <2> QED
      BY <2>5, <2>6
  <1> QED
    BY <1>5, <1>6

(* A build writes its job's row only while the job runs under its plan.    *)
LEMMA MarkedWrites ==
  ASSUME IInv, NEW c \in Build, NEW s \in {"completed", "blocked", "failed"}
  PROVE  LET n == Marked(db, c, s)
         IN /\ Good(n) /\ Later(db, n) /\ n.run = db.run /\ n.plan = db.plan
            /\ db.run.plan # 0 /\ Story(db) => Story(n)
            /\ Alive(db, c) => n.job[c.job].status = s
  <1> DEFINE n == Marked(db, c, s)
  <1>1. Good(db) /\ db \in Tables /\ c.job \in Jobs
    BY DEF IInv, Good, Build
  <1>2. CASE ~Alive(db, c)
    BY <1>1, <1>2, LaterReflexive DEF Marked
  <1>3. CASE Alive(db, c)
    <2>1. db.job[c.job].plan = c.plan /\ db.job[c.job].status = "running"
      BY <1>3 DEF Alive, Mine
    <2> DEFINE r == [db.job[c.job] EXCEPT !.status = s]
    <2>2. r \in JobRow /\ r.status = s /\ r.plan = db.job[c.job].plan
      BY <1>1 DEF Tables, JobRow, JobStatus, RunStatus
    <2>3. n = [db EXCEPT !.job[c.job] = r]
      BY <1>1, <1>3 DEF Marked, Tables, JobRow
    <2> HIDE DEF r, n
    <2>4. /\ n \in Tables /\ n.run = db.run /\ n.plan = db.plan /\ n.job[c.job] = r
          /\ \A i \in Jobs \ {c.job} : n.job[i] = db.job[i]
      BY <1>1, <2>2, <2>3 DEF Tables
    <2>5. JobWrite(db, n)
      BY <2>1, <2>2, <2>4 DEF JobWrite
    <2>6. Good(n) /\ Later(db, n)
      BY <1>1, <2>5, JobWrites
    <2>7. ASSUME Story(db) PROVE Story(n)
      <3>1. CASE db.run.status = "running"
        BY <2>4, <2>7, <3>1 DEF Story, Terminal
      <3>2. CASE db.run.status # "running"
        <4>1. c.job \notin Own(db)
          BY <2>1, <2>7, <3>2 DEF Story, Terminal
        <4>2. \A j \in Jobs : n.job[j].plan = db.run.plan =>
                db.job[j].plan = db.run.plan /\ n.job[j].status = db.job[j].status
          BY <1>1, <2>2, <2>4, <4>1 DEF Own
        <4> QED
          BY <2>4, <2>7, <4>2, SameStory
      <3> QED
        BY <3>1, <3>2
    <2> QED
      BY <2>2, <2>4, <2>6, <2>7 DEF n
  <1> QED
    BY <1>2, <1>3

LEMMA FinishKeeps ==
  ASSUME IInv, NEW e \in Engines, Finish(e)
  PROVE  IInv' /\ Later(db, db')
  <1> DEFINE c == engine[e].build
  <1>1. c.phase \in {"preparing", "building"}
    BY DEF Finish
  <1>2. c \in Build /\ c # NoBuild
    <2>1. c # NoBuild
      BY <1>1 DEF NoBuild
    <2> QED
      BY <2>1 DEF IInv, EngineRow
  <1>3. ~c.aborted => Connected(e) /\ Serves(db, c)
    BY <1>2 DEF IInv, Live, LiveBuild, Connected
  <1>4. Good(db) /\ AllLater(<<db>>) /\ db = <<db>>[Len(<<db>>)]
    BY LaterReflexive, OneWrite DEF IInv
  <1>5. c.aborted \in BOOLEAN
    BY <1>2 DEF Build
  <1>6. Calmer(Idle(e))
    BY IdleGood
  <1>7. ASSUME c.phase = "preparing", NEW out, c.aborted => out # "ok",
               Settle(e, c, <<db>>, out)
        PROVE  IInv' /\ Later(db, db')
    <2>1. Reports(db, c, out)
      BY <1>3, <1>5, <1>7 DEF Reports, Serves
    <2>2. Live(db, Idle(e))
      BY <1>6, LaterReflexive, StillLive DEF SamePosition
    <2> QED
      BY <1>2, <1>3, <1>4, <1>5, <1>7, <2>1, <2>2, SettleKeeps
  <1>8. ASSUME c.phase = "building", NEW s \in {"completed", "blocked", "failed"}, NEW out,
               out = "ok" => ~c.aborted /\ s = "completed" /\ Alive(db, c),
               Settle(e, c, <<Marked(db, c, s)>>, out)
        PROVE  IInv' /\ Later(db, db')
    <2> DEFINE n == Marked(db, c, s)
    <2>1. /\ Good(n) /\ Later(db, n) /\ n.run = db.run /\ n.plan = db.plan
          /\ db.run.plan # 0 /\ Story(db) => Story(n)
          /\ Alive(db, c) => n.job[c.job].status = s
      BY <1>2, MarkedWrites
    <2> HIDE DEF n
    <2>2. AllLater(<<n>>) /\ n = <<n>>[Len(<<n>>)]
      BY <2>1, OneWrite
    <2>3. Reports(n, c, out)
      BY <1>3, <1>5, <1>8, <2>1 DEF Reports, Serves
    <2>4. Live(n, Idle(e))
      BY <1>6, <2>1, StillLive DEF SamePosition
    <2>5. Settle(e, c, <<n>>, out)
      BY <1>8 DEF n
    <2> QED
      BY <1>2, <1>3, <1>5, <1>8, <2>1, <2>2, <2>3, <2>4, <2>5, SettleKeeps
  <1>9. \/ c.phase = "preparing" /\ \E out \in {"ok", "retry", "fatal"} :
             (c.aborted => out # "ok") /\ Settle(e, c, <<db>>, out)
        \/ /\ c.phase = "building"
           /\ \/ ~c.aborted /\ Alive(db, c) /\ Settle(e, c, <<Marked(db, c, "completed")>>, "ok")
              \/ \E s \in {"blocked", "failed"}, out \in {"retry", "fatal"} :
                   Settle(e, c, <<Marked(db, c, s)>>, out)
              \/ Settle(e, c, <<Marked(db, c, "blocked")>>, "retry")
    BY DEF Finish
  <1> HIDE DEF c
  <1>10. CASE c.phase = "preparing" /\ \E out \in {"ok", "retry", "fatal"} :
                (c.aborted => out # "ok") /\ Settle(e, c, <<db>>, out)
    BY <1>7, <1>10
  <1>11. CASE /\ c.phase = "building"
              /\ ~c.aborted /\ Alive(db, c) /\ Settle(e, c, <<Marked(db, c, "completed")>>, "ok")
    BY <1>8, <1>11
  <1>12. CASE /\ c.phase = "building"
              /\ \E s \in {"blocked", "failed"}, out \in {"retry", "fatal"} :
                   Settle(e, c, <<Marked(db, c, s)>>, out)
    <2>1. PICK s \in {"blocked", "failed"}, out \in {"retry", "fatal"} :
            Settle(e, c, <<Marked(db, c, s)>>, out)
      BY <1>12
    <2> QED
      BY <1>8, <1>12, <2>1
  <1>13. CASE c.phase = "building" /\ Settle(e, c, <<Marked(db, c, "blocked")>>, "retry")
    BY <1>8, <1>13
  <1> QED
    BY <1>9, <1>10, <1>11, <1>12, <1>13

(* The claim.                                                              *)
LEMMA ClaimWrites ==
  ASSUME IInv, NEW p \in Plans, Claimable(p)
  PROVE  LET n == [db EXCEPT !.plan[p].status = "running", !.plan[p].step = "running",
                             !.plan[p].tries = OneMore(@)]
         IN /\ Good(n) /\ Later(db, n) /\ SamePosition(db, n) /\ n.run = db.run /\ n.job = db.job
            /\ n.plan[p].status = "running" /\ OneMore(db.plan[p].tries) \in 1 .. MaxAttempts
            /\ db.plan[p].at \in Jobs
            /\ db.run.plan # 0 /\ Story(db) => Story(n)
  <1> DEFINE f == db.plan[p]
             r == [f EXCEPT !.status = "running", !.step = "running", !.tries = OneMore(f.tries)]
             n == [db EXCEPT !.plan[p].status = "running", !.plan[p].step = "running",
                             !.plan[p].tries = OneMore(@)]
  <1>1. /\ Good(db) /\ db \in Tables /\ f \in PlanRow /\ f.status \in {"pending", "running"}
        /\ p = db.run.plan => db.run.status = "running"
    BY DEF IInv, Good, Tables, Claimable
  <1>2. n = [db EXCEPT !.plan[p] = r]
    BY <1>1 DEF Tables, PlanRow
  <1> HIDE DEF n, f
  <1>3. OneMore(f.tries) \in 1 .. MaxAttempts
    <2>1. f.tries \in 0 .. MaxAttempts
      BY <1>1 DEF PlanRow
    <2> QED
      BY <2>1, MissionAssumption DEF OneMore
  <1>4. /\ r \in PlanRow /\ r.status = "running" /\ r.at = f.at /\ r.stage = f.stage
        /\ r.last = f.last
    <2>1. OneMore(f.tries) \in 0 .. MaxAttempts
      BY <1>3, MissionAssumption
    <2> DEFINE h == [f EXCEPT !.status = "running", !.step = "running"]
    <2>2. /\ h \in PlanRow /\ h.status = "running" /\ h.at = f.at /\ h.stage = f.stage
          /\ h.last = f.last
      BY <1>1 DEF PlanRow, PlanStatus, RunStatus
    <2>3. r = [h EXCEPT !.tries = OneMore(f.tries)]
      OBVIOUS
    <2> HIDE DEF h, r
    <2> QED
      BY <2>1, <2>2, <2>3 DEF PlanRow
  <1> HIDE DEF r
  <1>5. /\ n \in Tables /\ n.run = db.run /\ n.job = db.job /\ n.plan[p] = r
        /\ \A q \in Plans \ {p} : n.plan[q] = db.plan[q]
    BY <1>1, <1>2, <1>4, RowWrites
  <1>6. f.at \in Jobs
    BY <1>1 DEF Good, StepsRun, f
  <1>7. Unstarted(n) /\ StepsRun(n)
    BY <1>1, <1>4, <1>5, <1>6 DEF Good, Unstarted, StepsRun
  <1>8. ASSUME db.run.plan # 0 PROVE Progress(n) /\ Follows(n) /\ (Story(db) => Story(n))
    <2>1. db.run.plan \in Plans /\ Progress(db) /\ Follows(db)
      BY <1>1, <1>8 DEF Good, Tables, RunRow
    <2>2. CASE db.run.plan # p
      <3>1. n.plan[db.run.plan] = db.plan[db.run.plan]
        BY <1>5, <2>1, <2>2
      <3>2. Own(n) = Own(db)
        BY <1>5 DEF Own
      <3> QED
        BY <1>5, <2>1, <3>1, <3>2 DEF Progress, Follows, AllBuilt, Story
    <2>3. CASE db.run.plan = p
      <3>1. Progress(n)
        BY <1>1, <1>4, <1>5, <2>1, <2>3 DEF Progress, AllBuilt, Terminal, f
      <3>2. Follows(n)
        BY <1>1, <1>4, <1>5, <2>3 DEF Follows, Terminal
      <3>3. Story(n)
        BY <1>1, <1>4, <1>5, <2>3 DEF Story, Terminal
      <3> QED
        BY <3>1, <3>2, <3>3
    <2> QED
      BY <2>2, <2>3
  <1>9. Later(db, n) /\ SamePosition(db, n)
    BY <1>4, <1>5 DEF Later, SamePosition, f
  <1> QED
    BY <1>3, <1>4, <1>5, <1>6, <1>7, <1>8, <1>9 DEF Good, n, f

(* The first row a build writes.                                           *)
LEMMA BegunWrites ==
  ASSUME NEW d, Good(d), NEW c \in Build, Mine(d, c), d.job[c.job].status \in Startable,
         c.plan = d.run.plan => d.run.status = "running", NEW t \in {"running", "blocked"}
  PROVE  LET n == [d EXCEPT !.job[c.job].status = t]
         IN /\ Good(n) /\ Later(d, n) /\ n.run = d.run /\ n.plan = d.plan
            /\ d.run.plan # 0 /\ Story(d) => Story(n)
  <1> DEFINE n == [d EXCEPT !.job[c.job].status = t]
             r == [d.job[c.job] EXCEPT !.status = t]
  <1>1. d \in Tables /\ c.job \in Jobs /\ d.job[c.job].plan = c.plan
    BY DEF Good, Build, Mine
  <1>2. r \in JobRow /\ r.status = t /\ r.plan = c.plan
    BY <1>1 DEF Tables, JobRow, JobStatus, RunStatus
  <1>3. n = [d EXCEPT !.job[c.job] = r]
    BY <1>1 DEF Tables, JobRow
  <1> HIDE DEF r, n
  <1>4. /\ n \in Tables /\ n.run = d.run /\ n.plan = d.plan /\ n.job[c.job] = r
        /\ \A i \in Jobs \ {c.job} : n.job[i] = d.job[i]
    BY <1>1, <1>2, <1>3 DEF Tables
  <1>5. Loose(d, c.job)
    BY <1>1 DEF Loose
  <1>6. JobWrite(d, n)
    BY <1>1, <1>2, <1>4, <1>5 DEF JobWrite, Startable
  <1>7. Good(n) /\ Later(d, n)
    BY <1>6, JobWrites
  <1>8. ASSUME d.run.plan # 0, Story(d) PROVE Story(n)
    <2>1. CASE c.plan = d.run.plan
      BY <1>4, <1>8, <2>1 DEF Story, Terminal
    <2>2. CASE c.plan # d.run.plan
      BY <1>1, <1>2, <1>4, <1>8, <2>2, SameStory
    <2> QED
      BY <2>1, <2>2
  <1> QED
    BY <1>4, <1>7, <1>8 DEF n

Working(e, c) == [engine EXCEPT ![e].build = c]

LEMMA WorkingGood ==
  ASSUME IInv, NEW e \in Engines, engine[e].phase = "serving", NEW c \in Build
  PROVE  /\ EnginesGood(Working(e, c)) /\ (Running(Working(e, c)) => Running(engine))
         /\ \A f \in Engines : LiveBuild(Working(e, c), f) =>
              Working(e, c)[f].phase = "serving" /\ Working(e, c)[f].build = c
  <1> DEFINE en == Working(e, c)
  <1>1. engine \in [Engines -> EngineRow] /\ InTurn(engine) /\ Live(db, engine)
    BY DEF IInv
  <1>2. en[e].build = c /\ en[e].phase = "serving" /\ en[e] \in EngineRow
    BY <1>1 DEF Working, EngineRow
  <1>3. \A f \in Engines \ {e} : en[f] = engine[f]
    BY <1>1 DEF Working
  <1>4. en \in [Engines -> EngineRow]
    BY <1>1, <1>2, <1>3 DEF Working
  <1>5. \A f \in Engines : en[f].phase = engine[f].phase
    BY <1>2, <1>3
  <1>6. InTurn(en) /\ (Running(en) => Running(engine))
    BY <1>1, <1>5 DEF InTurn, Running
  <1>7. ASSUME NEW f \in Engines \ {e} PROVE ~LiveBuild(en, f)
    <2>1. LiveBuild(en, f) => engine[f].phase \in {"up", "serving"}
      BY <1>1, <1>3 DEF Live, LiveBuild
    <2>2. f < e \/ e < f
      BY MissionAssumption
    <2> QED
      BY <1>1, <2>1, <2>2 DEF InTurn
  <1> QED
    BY <1>2, <1>4, <1>6, <1>7 DEF EnginesGood

LEMMA ClaimKeeps ==
  ASSUME IInv, NEW e \in Engines, NEW p \in Plans, Claim(e, p)
  PROVE  IInv' /\ Later(db, db')
  <1> DEFINE f == db.plan[p]
             d == [db EXCEPT !.plan[p].status = "running", !.plan[p].step = "running",
                             !.plan[p].tries = OneMore(@)]
             c == [plan |-> p, job |-> f.at, tries |-> OneMore(f.tries), aborted |-> FALSE,
                   phase |-> IF f.stage = "prepare" THEN "preparing" ELSE "building"]
  <1>1. /\ engine[e].phase = "serving" /\ Claimable(p)
        /\ \/ Settle(e, c, <<d>>, "fatal")
           \/ f.stage = "prepare" /\ Commit(<<d>>, Working(e, c)) /\ aside' = aside
           \/ f.stage = "build" /\ BeginBuild(e, d, c)
    BY DEF Claim, Working
  <1>2. Connected(e) /\ aside \in BOOLEAN /\ (p = db.run.plan => db.run.status = "running")
    BY <1>1 DEF Connected, IInv, Claimable
  <1>3. /\ Good(d) /\ Later(db, d) /\ SamePosition(db, d) /\ d.run = db.run /\ d.job = db.job
        /\ d.plan[p].status = "running" /\ OneMore(f.tries) \in 1 .. MaxAttempts
        /\ f.at \in Jobs
        /\ db.run.plan # 0 /\ Story(db) => Story(d)
    BY <1>1, ClaimWrites
  <1> HIDE DEF d
  <1>4. c \in Build /\ c.plan = p /\ c.job = f.at
        /\ c.phase = IF f.stage = "prepare" THEN "preparing" ELSE "building"
    BY <1>3 DEF Build
  <1>5. f.stage \in {"prepare", "build"} /\ f.status # "none"
    BY <1>1 DEF IInv, Good, Tables, PlanRow, Claimable
  <1>6. d.plan[p].at = f.at /\ d.plan[p].stage = f.stage
    BY <1>3, <1>5 DEF SamePosition
  <1> HIDE DEF f, c
  <1>7. \A n : Live(n, Idle(e))
    BY <1>2, IdleGood DEF Live
  <1>8. ASSUME NEW n, n.run = db.run, n.plan = d.plan PROVE Live(n, Working(e, c))
    <2>1. Serves(n, c)
      BY <1>2, <1>3, <1>4, <1>5, <1>6, <1>8 DEF Serves, Holding
    <2> QED
      BY <1>1, <1>4, <2>1, WorkingGood DEF Live
  <1>9. AllLater(<<d>>) /\ d = <<d>>[Len(<<d>>)]
    BY <1>3, OneWrite
  <1>10. ASSUME NEW out, out # "ok", Settle(e, c, <<d>>, out) PROVE IInv' /\ Later(db, db')
    BY <1>2, <1>3, <1>4, <1>7, <1>9, <1>10, SettleKeeps DEF Reports
  <1>11. CASE Commit(<<d>>, Working(e, c)) /\ aside' = aside
    <2>1. d.run.plan # 0 /\ ~aside' /\ Running(Working(e, c)) => Story(d)
      BY <1>1, <1>3, <1>4, <1>11, WorkingGood DEF IInv
    <2> QED
      BY <1>1, <1>2, <1>3, <1>4, <1>8, <1>9, <1>11, <2>1, WorkingGood, Commits
  <1>12. CASE BeginBuild(e, d, c)
    <2> DEFINE blocked == [d EXCEPT !.job[c.job].status = "blocked"]
               started == [d EXCEPT !.job[c.job].status = "running"]
    <2>1. \/ Settle(e, c, <<d>>, "fatal")
          \/ Settle(e, c, <<d>>, "retry")
          \/ /\ Mine(d, c) /\ d.job[c.job].status \in Startable
             /\ \/ Settle(e, c, <<d, blocked>>, "retry")
                \/ Commit(<<d, started>>, Working(e, c)) /\ aside' = aside
      BY <1>12 DEF BeginBuild, Working
    <2>2. ASSUME Mine(d, c), d.job[c.job].status \in Startable,
                 Settle(e, c, <<d, blocked>>, "retry")
          PROVE  IInv' /\ Later(db, db')
      <3>1. /\ Good(blocked) /\ Later(d, blocked) /\ blocked.run = d.run /\ blocked.plan = d.plan
            /\ d.run.plan # 0 /\ Story(d) => Story(blocked)
        BY <1>2, <1>3, <1>4, <2>2, BegunWrites
      <3>2. Settle(e, c, <<d, blocked>>, "retry")
        BY <2>2
      <3> HIDE DEF blocked
      <3>3. AllLater(<<d, blocked>>) /\ blocked = <<d, blocked>>[Len(<<d, blocked>>)]
        BY <1>3, <3>1, TwoWrites
      <3>4. Reports(blocked, c, "retry") /\ "retry" # "ok"
        BY DEF Reports
      <3>5. /\ blocked.run = db.run /\ Live(blocked, Idle(e)) /\ c \in Build
            /\ db.run.plan # 0 /\ Story(db) => Story(blocked)
        BY <1>3, <1>4, <1>7, <3>1
      <3> QED
        BY <3>2, <3>3, <3>4, <3>5, SettleKeeps
    <2>3. ASSUME Mine(d, c), d.job[c.job].status \in Startable,
                 Commit(<<d, started>>, Working(e, c)), aside' = aside
          PROVE  IInv' /\ Later(db, db')
      <3>1. /\ Good(started) /\ Later(d, started) /\ started.run = d.run /\ started.plan = d.plan
            /\ d.run.plan # 0 /\ Story(d) => Story(started)
        BY <1>2, <1>3, <1>4, <2>3, BegunWrites
      <3>2. Commit(<<d, started>>, Working(e, c))
        BY <2>3
      <3> HIDE DEF started
      <3>3. AllLater(<<d, started>>) /\ <<d, started>>[Len(<<d, started>>)] = started
        BY <1>3, <3>1, TwoWrites
      <3>4. started.run.plan # 0 /\ ~aside' /\ Running(Working(e, c)) => Story(started)
        BY <1>1, <1>3, <1>4, <2>3, <3>1, WorkingGood DEF IInv
      <3>5. Live(started, Working(e, c))
        BY <1>3, <1>8, <3>1
      <3> QED
        BY <1>1, <1>2, <1>4, <2>3, <3>2, <3>3, <3>4, <3>5, WorkingGood, Commits
    <2> QED
      BY <1>10, <2>1, <2>2, <2>3
  <1> QED
    BY <1>1, <1>10, <1>11, <1>12

-----------------------------------------------------------------------------
(***************************************************************************)
(* 7. Connections.                                                         *)
(***************************************************************************)
LEMMA PreemptKeeps ==
  ASSUME IInv, NEW e \in Engines, Preempt(e)
  PROVE  IInv' /\ Later(db, db')
  <1> DEFINE en == [engine EXCEPT ![e].build.aborted = TRUE]
  <1>1. engine' = en /\ db' = db /\ aside' = aside
    BY DEF Preempt
  <1>2. engine \in [Engines -> EngineRow] /\ InTurn(engine) /\ Live(db, engine)
    BY DEF IInv
  <1>3. engine[e].build \in Build
    BY <1>2 DEF Preempt, Building, EngineRow
  <1> DEFINE b == [engine[e].build EXCEPT !.aborted = TRUE]
  <1>4. b \in Build /\ b.aborted
    BY <1>3 DEF Build
  <1>5. en = [engine EXCEPT ![e].build = b]
    BY <1>2 DEF EngineRow
  <1> HIDE DEF b, en
  <1>6. /\ en \in [Engines -> EngineRow] /\ en[e].phase = engine[e].phase /\ en[e].build = b
        /\ \A f \in Engines \ {e} : en[f] = engine[f]
    BY <1>2, <1>4, <1>5 DEF EngineRow
  <1>7. InTurn(en) /\ (Running(en) => Running(engine))
    BY <1>2, <1>6 DEF InTurn, Running
  <1>8. Live(db, en)
    BY <1>2, <1>4, <1>6 DEF Live, LiveBuild
  <1> QED
    BY <1>1, <1>6, <1>7, <1>8, LaterReflexive DEF IInv

LEMMA ConnectKeeps ==
  ASSUME IInv, NEW e \in Engines, Connect(e)
  PROVE  IInv' /\ Later(db, db')
  <1> DEFINE rs == Reconciled(db)
             n  == rs[Len(rs)]
             en == [engine EXCEPT ![e].phase = "up"]
  <1>1. /\ Commit(<<db>> \o rs, en) /\ aside' = FALSE /\ engine[e].phase = "absent"
        /\ \A f \in Engines : f < e => engine[f].phase = "down"
    BY DEF Connect
  <1>2. engine \in [Engines -> EngineRow] /\ InTurn(engine) /\ Live(db, engine) /\ Good(db)
    BY DEF IInv
  <1>3. AllLater(rs) /\ Agreed(db, n)
    BY <1>2, LaterReflexive, ReconciledAgrees
  <1>4. AllLater(<<db>> \o rs) /\ (<<db>> \o rs)[Len(<<db>> \o rs)] = n
    BY <1>2, <1>3, LaterReflexive, OneWrite, MoreWrites
  <1> HIDE DEF rs, n, en
  <1>5. /\ en \in [Engines -> EngineRow] /\ en[e].phase = "up" /\ en[e].build = engine[e].build
        /\ \A f \in Engines \ {e} : en[f] = engine[f]
    BY <1>2 DEF EngineRow, en
  <1>6. \A f \in Engines \ {e} : engine[f].phase \in {"absent", "down"}
    <2>1. \A f \in Engines : f < e \/ f = e \/ e < f
      BY MissionAssumption
    <2> QED
      BY <1>1, <1>2, <2>1 DEF InTurn
  <1>7. InTurn(en)
    <2>1. \A f \in Engines : e < f => engine[f].phase = "absent"
      BY <1>1, <1>2 DEF InTurn
    <2> QED
      BY <1>1, <1>2, <1>5, <2>1 DEF InTurn
  <1>8. Live(n, en)
    <2>1. \A f \in Engines : ~LiveBuild(engine, f)
      BY <1>1, <1>2, <1>6 DEF Live
    <2> QED
      BY <1>5, <2>1 DEF Live, LiveBuild
  <1>9. n.run.plan # 0 => Story(n)
    BY <1>3 DEF Agreed
  <1> QED
    BY <1>1, <1>4, <1>5, <1>7, <1>8, <1>9, Commits DEF EnginesGood

LEMMA SpawnKeeps ==
  ASSUME IInv, NEW e \in Engines, Spawn(e)
  PROVE  IInv' /\ Later(db, db')
  <1>1. engine \in [Engines -> EngineRow] /\ InTurn(engine) /\ Live(db, engine) /\ Good(db)
    BY DEF IInv
  <1>2. engine[e].phase = "up" /\ aside' = aside
        /\ engine' = [engine EXCEPT ![e].phase = "serving"]
    BY DEF Spawn
  <1>3. /\ db' \in Tables /\ db'.run = db.run /\ db'.job = db.job
        /\ \A p \in Plans :
             /\ db'.plan[p].at = db.plan[p].at /\ db'.plan[p].last = db.plan[p].last
             /\ db'.plan[p].stage = db.plan[p].stage
             /\ db'.plan[p].status = IF db.plan[p].status = "running" THEN "pending"
                                     ELSE db.plan[p].status
             /\ db'.plan[p].step = "waiting"
    <2>1. db \in Tables
      BY <1>1 DEF Good
    <2> DEFINE row(p) == IF db.plan[p].status = "running"
                         THEN [db.plan[p] EXCEPT !.status = "pending", !.step = "waiting"]
                         ELSE db.plan[p]
    <2>2. ASSUME NEW p \in Plans
          PROVE  /\ row(p) \in PlanRow /\ row(p).at = db.plan[p].at
                 /\ row(p).last = db.plan[p].last /\ row(p).stage = db.plan[p].stage
                 /\ row(p).status = IF db.plan[p].status = "running" THEN "pending"
                                    ELSE db.plan[p].status
                 /\ row(p).step = "waiting"
      <3>1. db.plan[p] \in PlanRow /\ (db.plan[p].step = "running" => db.plan[p].status = "running")
        BY <1>1, <2>1 DEF Tables, Good, StepsRun
      <3> QED
        BY <3>1 DEF PlanRow, PlanStatus, RunStatus
    <2>3. db' = [db EXCEPT !.plan = [p \in Plans |-> row(p)]]
      BY DEF Spawn
    <2> HIDE DEF row
    <2> QED
      BY <2>1, <2>2, <2>3 DEF Tables
  <1>4. Unstarted(db') /\ StepsRun(db')
    BY <1>1, <1>3 DEF Good, Unstarted, StepsRun
  <1>5. ASSUME db.run.plan # 0
        PROVE  Progress(db') /\ Follows(db') /\ (Story(db) => Story(db'))
    <2>1. db.run.plan \in Plans /\ Progress(db) /\ Follows(db)
      BY <1>1, <1>5 DEF Good, Tables, RunRow
    <2>2. Own(db') = Own(db)
      BY <1>3 DEF Own
    <2>3. Progress(db')
      BY <1>3, <2>1 DEF Progress, AllBuilt, Terminal
    <2>4. Follows(db')
      BY <1>3, <2>1, <2>2 DEF Follows, Terminal
    <2>5. Story(db) => Story(db')
      BY <1>3, <2>1, <2>2 DEF Story, Terminal
    <2> QED
      BY <2>3, <2>4, <2>5
  <1>6. Good(db') /\ Later(db, db')
    BY <1>3, <1>4, <1>5 DEF Good, Later
  <1>7. /\ engine' \in [Engines -> EngineRow]
        /\ \A f \in Engines : /\ engine'[f].build = engine[f].build
                              /\ engine'[f].phase = IF f = e THEN "serving" ELSE engine[f].phase
    BY <1>1, <1>2 DEF EngineRow
  <1>8. InTurn(engine') /\ (Running(engine') => Running(engine))
    BY <1>1, <1>2, <1>7 DEF InTurn, Running
  <1>9. Live(db', engine')
    <2> SUFFICES ASSUME NEW f \in Engines, LiveBuild(engine', f)
                 PROVE  engine'[f].phase \in {"up", "serving"} /\ Serves(db', engine'[f].build)
      BY DEF Live
    <2> DEFINE b == engine[f].build
    <2>1. engine[f].phase \in {"up", "serving"} /\ Serves(db, b)
      BY <1>1, <1>7 DEF Live, LiveBuild
    <2>2. b.plan \in Plans
      BY <1>1, <1>7 DEF EngineRow, LiveBuild, Build
    <2> HIDE DEF b
    <2>3. Serves(db', b)
      BY <1>3, <2>1, <2>2 DEF Serves, Holding
    <2> QED
      BY <1>7, <2>1, <2>3 DEF b
  <1> QED
    BY <1>2, <1>3, <1>5, <1>6, <1>7, <1>8, <1>9 DEF IInv

LEMMA DisconnectKeeps ==
  ASSUME IInv, NEW e \in Engines, Disconnect(e)
  PROVE  IInv' /\ Later(db, db')
  <1> DEFINE b == [engine[e].build EXCEPT !.aborted = Building(e)]
             r == [phase |-> "down", build |-> b]
  <1>1. engine \in [Engines -> EngineRow] /\ InTurn(engine) /\ Live(db, engine)
    BY DEF IInv
  <1>2. db' = db /\ aside' = aside /\ Connected(e)
        /\ engine' = [engine EXCEPT ![e].phase = "down", ![e].build.aborted = Building(e)]
    BY DEF Disconnect
  <1>3. b \in Build \cup {NoBuild} /\ (b # NoBuild => b.aborted)
    <2>1. engine[e].build \in Build \cup {NoBuild}
      BY <1>1 DEF EngineRow
    <2>2. CASE Building(e)
      <3>1. engine[e].build \in Build
        BY <2>1, <2>2 DEF Building
      <3> QED
        BY <2>2, <3>1 DEF Build
    <2>3. CASE ~Building(e)
      <3>1. engine[e].build = NoBuild
        BY <2>3 DEF Building
      <3>2. b = [NoBuild EXCEPT !.aborted = FALSE]
        BY <3>1 DEF Building
      <3>3. [NoBuild EXCEPT !.aborted = FALSE] = NoBuild
        <4>1. /\ NoBuild \in [plan : {0}, job : {0}, tries : {0}, phase : {"none"}, aborted : BOOLEAN]
              /\ NoBuild.aborted = FALSE
          BY DEF NoBuild
        <4> QED
          BY <4>1
      <3> QED
        BY <3>2, <3>3
    <2> QED
      BY <2>2, <2>3
  <1>4. engine' = [engine EXCEPT ![e] = r]
    <2> DEFINE x == [engine[e] EXCEPT !.phase = "down"]
    <2>1. x = [phase |-> "down", build |-> engine[e].build]
      BY <1>1 DEF EngineRow
    <2>2. engine' = [engine EXCEPT ![e] = [x EXCEPT !.build = [x.build EXCEPT !.aborted = Building(e)]]]
      BY <1>1, <1>2
    <2> HIDE DEF x
    <2>3. [x EXCEPT !.build = [x.build EXCEPT !.aborted = Building(e)]] = r
      BY <2>1
    <2> QED
      BY <2>2, <2>3
  <1>5. r \in EngineRow /\ r.phase = "down" /\ r.build = b
    BY <1>3 DEF EngineRow
  <1> HIDE DEF b, r
  <1>6. /\ engine' \in [Engines -> EngineRow] /\ engine'[e] = r
        /\ \A f \in Engines \ {e} : engine'[f] = engine[f]
    BY <1>1, <1>4, <1>5
  <1>7. InTurn(engine') /\ (Running(engine') => Running(engine))
    BY <1>1, <1>2, <1>5, <1>6 DEF InTurn, Running, Connected
  <1>8. Live(db', engine')
    BY <1>1, <1>2, <1>3, <1>5, <1>6 DEF Live, LiveBuild
  <1> QED
    BY <1>2, <1>6, <1>7, <1>8, LaterReflexive DEF IInv

LEMMA CrashKeeps ==
  ASSUME IInv, Crash
  PROVE  IInv' /\ Later(db, db')
  BY DownGood, LaterReflexive DEF Crash, IInv, EnginesGood

-----------------------------------------------------------------------------
(***************************************************************************)
(* 8. The theorems.                                                        *)
(***************************************************************************)
LEMMA InitIInv == Init => IInv
  <1> SUFFICES ASSUME Init PROVE IInv
    OBVIOUS
  <1>1. /\ db.run = [status |-> "none", plan |-> 0]
        /\ \A p \in Plans : db.plan[p].status = "none" /\ db.plan[p].step = "waiting"
        /\ \A j \in Jobs : db.job[j].status = "none" /\ db.job[j].plan = 0
    BY DEF Init
  <1>2. db \in Tables
    <2>1. 0 \in 0 .. NPlans /\ 0 \in 0 .. NJobs /\ 0 \in 0 .. MaxAttempts
      BY MissionAssumption
    <2> QED
      BY <2>1 DEF Init, Tables, RunRow, PlanRow, JobRow, JobStatus, PlanStatus, RunStatus
  <1>3. \A i \in 1 .. NMission : i \in Jobs
    BY MissionAssumption
  <1>4. Good(db)
    BY <1>1, <1>2, <1>3 DEF Good, Unstarted, StepsRun
  <1>5. \A e \in Engines : engine[e].phase = "absent" /\ engine[e].build = NoBuild
    BY DEF Init
  <1>6. engine \in [Engines -> EngineRow]
    BY DEF Init, EngineRow
  <1>7. InTurn(engine) /\ Live(db, engine)
    BY <1>5 DEF InTurn, Live, LiveBuild
  <1> QED
    BY <1>1, <1>4, <1>6, <1>7 DEF IInv, Init

LEMMA NextIInv ==
  ASSUME IInv, [Next]_vars
  PROVE  IInv' /\ Later(db, db')
  <1>1. CASE UNCHANGED vars
    BY <1>1, LaterReflexive DEF IInv, vars
  <1>2. ASSUME NEW e \in Engines, EngineStep(e)
        PROVE  IInv' /\ Later(db, db')
    BY <1>2, FinishKeeps, PreemptKeeps, ConnectKeeps, SpawnKeeps, DisconnectKeeps,
       PauseRunKeeps, ResumeRunKeeps, CancelRunKeeps, PauseActivePlanKeeps DEF EngineStep
  <1>3. ASSUME NEW e \in Engines, NEW p \in Plans,
               \/ Materialize(e, p) \/ Claim(e, p)
               \/ PausePlan(e, p) \/ ResumePlan(e, p) \/ CancelPlan(e, p)
        PROVE  IInv' /\ Later(db, db')
    BY <1>3, MaterializeKeeps, ClaimKeeps, PausePlanKeeps, ResumePlanKeeps, CancelPlanKeeps
  <1>4. ASSUME NEW e \in Engines, NEW j \in Jobs, PauseJob(e, j) \/ CancelJob(e, j)
        PROVE  IInv' /\ Later(db, db')
    BY <1>4, PauseJobKeeps, CancelJobKeeps
  <1>5. ASSUME NEW e \in Engines, NEW j \in Jobs, NEW p \in Plans,
               StartJob(e, j, p) \/ ResumeJob(e, j, p)
        PROVE  IInv' /\ Later(db, db')
    BY <1>5, StartJobKeeps, ResumeJobKeeps
  <1> QED
    BY <1>1, <1>2, <1>3, <1>4, <1>5, CrashKeeps DEF Next

(* The invariant holds of every behaviour.                                 *)
THEOREM Invariance == Spec => []IInv
  <1>1. Init => IInv
    BY InitIInv
  <1>2. IInv /\ [Next]_vars => IInv'
    BY NextIInv
  <1> QED
    BY <1>1, <1>2, PTL DEF Spec

(* The tables and the connections only ever hold what their columns allow. *)
THEOREM TypeCorrect == Spec => []TypeOK
  <1>1. IInv => TypeOK
    BY DEF IInv, Good, TypeOK, Tables, RunRow, PlanRow, JobRow, EngineRow
  <1> QED
    BY <1>1, Invariance, PTL

(* A mission that ended well has built every build of it, wherever the     *)
(* process ended and whoever moved its builds to other plans.              *)
THEOREM Built == Spec => []CompletedMissionIsBuilt
  <1>1. IInv => CompletedMissionIsBuilt
    <2> SUFFICES ASSUME IInv, db.run.status = "completed" PROVE AllBuilt(db)
      BY DEF CompletedMissionIsBuilt, AllBuilt
    <2>1. db.run.plan # 0
      BY DEF IInv, Good, Unstarted
    <2> QED
      BY <2>1 DEF IInv, Good, Progress
  <1> QED
    BY <1>1, Invariance, PTL

(* While a build may still click, nobody holds its plan or its mission.    *)
THEOREM HoldsHold == Spec => []HoldsStopClicks
  <1>1. IInv => HoldsStopClicks
    <2> SUFFICES ASSUME IInv, NEW e \in Engines, engine[e].build.phase = "building",
                        ~engine[e].build.aborted
                 PROVE  Serves(db, engine[e].build)
      BY DEF HoldsStopClicks, Serves
    <2>1. engine[e].build # NoBuild
      BY DEF NoBuild
    <2> QED
      BY <2>1 DEF IInv, Live, LiveBuild
  <1> QED
    BY <1>1, Invariance, PTL

(* While the services hear of everything, run, plan and jobs agree.        *)
THEOREM OneStory == Spec => []StoriesAgree
  <1>1. IInv => StoriesAgree
    <2> SUFFICES ASSUME IInv, db.run.plan # 0, ~aside, NEW e \in Engines, Connected(e)
                 PROVE  Story(db)
      BY DEF StoriesAgree, Story, Own
    <2> QED
      BY DEF IInv, Running, Connected
  <1> QED
    BY <1>1, Invariance, PTL

(* No late result, no restart and no command revives what has ended.       *)
THEOREM EndsFinal == Spec => EndsAreFinal
  <1> DEFINE Final == /\ db.run.status \in Terminal => db'.run.status = db.run.status
                      /\ \A j \in Jobs : db.job[j].status \in {"completed", "cancelled"}
                           => db'.job[j].status = db.job[j].status
  <1>1. IInv /\ [Next]_vars => [Final]_vars
    BY NextIInv DEF Later
  <1> QED
    BY <1>1, Invariance, PTL DEF Spec, EndsAreFinal

=============================================================================
