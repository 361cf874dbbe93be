--------------------------- MODULE MissionCompiler ---------------------------
(***************************************************************************)
(* From a mission's script to the rows that run it                         *)
(* (src/missions/compiler.ts, src/missions/service.ts, the checks of       *)
(* src/missions/store.ts) and the blueprints those rows depend on          *)
(* (src/construction/store.ts).                                            *)
(*                                                                         *)
(* A script is compiled step by step against the skills, the blueprints    *)
(* and the role of the player who asks; it is compiled again whenever it   *)
(* is run or resumed.  Running it creates, in one transaction, a run, a    *)
(* construction job for each build, the rows of a task plan and a link     *)
(* from each step to its rows; the store refuses rows that do not fit the  *)
(* script.  A blueprint may be replaced while no unfinished job uses it.   *)
(*                                                                         *)
(* The life of plans, jobs and runs is MissionRuns' subject: here a job    *)
(* takes any step its table of statuses allows.                            *)
(***************************************************************************)
EXTENDS Integers, Sequences, FiniteSets, SequencesExt

CONSTANTS
  Registry,    \* [skill name -> [exposure, role, effect, denied, reserved]]
  Definitions, \* the scripts that parse: [steps, maxExpanded, maxChanges]
  Missions,    \* those of them that are saved and run
  Names,       \* names of blueprints
  Contents,    \* what a blueprint may hold: [cells, sourced, role, version, sound]
  Versions,    \* versions of the game
  Configured,  \* the version the profile names
  MaxExpanded, \* MAX_MISSION_EXPANDED_STEPS
  MaxChanges,  \* MAX_MISSION_WORLD_CHANGES
  MaxRuns, MaxJobs  \* bounds

Roles == {"viewer", "operator", "owner"}
Rank(r) == CASE r = "viewer" -> 0 [] r = "operator" -> 1 [] r = "owner" -> 2
Higher(r, s) == IF Rank(r) >= Rank(s) THEN r ELSE s

Steps == UNION {{d.steps[i] : i \in DOMAIN d.steps} : d \in Definitions}

ASSUME CompilerAssumption ==
  /\ {"clearRegion", "prepareBlueprintMaterials", "buildBlueprint"} \subseteq DOMAIN Registry
  /\ \A k \in DOMAIN Registry :
       Registry[k] \in [exposure : {"public", "internal", "forbidden"}, role : Roles,
                        effect : {"read", "world-change", "destructive"},
                        denied : BOOLEAN, reserved : BOOLEAN]
  /\ \A d \in Definitions : /\ d.steps # <<>> /\ Len(d.steps) <= d.maxExpanded
                            /\ d.maxExpanded \in 1 .. MaxExpanded
                            /\ d.maxChanges \in 1 .. MaxChanges
  /\ Missions \subseteq Definitions
  /\ Contents \subseteq [cells : Nat \ {0}, sourced : BOOLEAN, role : {"operator", "owner"},
                         version : Versions, sound : BOOLEAN]
  /\ Configured \in Versions
  /\ MaxExpanded \in Nat /\ MaxChanges \in Nat
  /\ MaxRuns \in Nat /\ MaxJobs \in Nat

VARIABLES
  blueprint, \* the table of blueprints, those of inline builds included
  job,       \* construction_jobs
  run,       \* mission_runs with their links and the rows of their plans
  saved,     \* the saved definition: [steps, ...] or NoDefinition
  role,      \* the current role of the player who gives the orders
  live       \* the version the connected bot reports, or "none"

vars == <<blueprint, job, run, saved, role, live>>

NoBlueprint  == [cells |-> 0]
NoDefinition == [steps |-> <<>>]
MaxSteps == CHOOSE n \in 0 .. 32 : /\ \E d \in Definitions : Len(d.steps) = n
                                   /\ \A d \in Definitions : Len(d.steps) <= n
(* An inline build is stored under a name made of its run and its step     *)
(* (of the run that would be next, too: AcceptedIsTaken asks about it).    *)
Inline == (1 .. MaxRuns + 1) \X (1 .. MaxSteps)
Keys == Names \cup Inline

(* A script that parses: a step names a skill, spans a region, or builds a *)
(* blueprint by its name or from a source of its own.                      *)
ASSUME ScriptAssumption ==
  /\ Definitions # {}
  /\ \A d \in Definitions : d.steps \in Seq(Steps) /\ Len(d.steps) <= 32
  /\ \A s \in Steps :
       \/ s.op = "skill"
       \/ s.op = "clear" /\ s.distance \in Nat \X Nat \X Nat
       \/ s.op = "build" /\ s.named = TRUE /\ s.name \in Names
       \/ s.op = "build" /\ s.named = FALSE /\ s.content \in Contents
  /\ Names \cap Inline = {}

JobStatus == {"pending", "running", "paused", "blocked", "completed", "failed", "cancelled"}
Finished  == {"completed", "cancelled"}

Row  == [skill : DOMAIN Registry, job : 0 .. MaxJobs]
Link == [start : Nat, count : Nat, job : 0 .. MaxJobs, pin : Contents \cup {NoBlueprint}]

TypeOK ==
  /\ blueprint \in [Keys -> Contents \cup {NoBlueprint}]
  /\ job \in Seq([of : Keys, total : Nat, status : JobStatus, run : 0 .. MaxRuns])
  /\ \A r \in DOMAIN run :
       /\ run[r].status \in {"running", "paused", "cancelled"}
       /\ run[r].definition \in Definitions
       /\ run[r].links \in Seq(Link) /\ run[r].rows \in Seq(Row)
  /\ saved \in Missions \cup {NoDefinition}
  /\ role \in Roles /\ live \in Versions \cup {"none"}

-----------------------------------------------------------------------------
(* One step of a script.                                                   *)

Refused == [ok |-> FALSE, rows |-> <<>>, changes |-> 0, role |-> "viewer", pin |-> NoBlueprint]

Satisfies(r, skill) == Rank(r) >= Rank(Registry[skill].role)

CompileSkillStep(step, actor) ==
  IF /\ step.skill \in DOMAIN Registry
     /\ step.valid
     /\ Registry[step.skill].exposure = "public"
     /\ ~Registry[step.skill].denied
     /\ ~Registry[step.skill].reserved
     /\ Satisfies(actor, step.skill)
  THEN [ok |-> TRUE, rows |-> <<[skill |-> step.skill, job |-> FALSE]>>, changes |-> 0,
        role |-> Registry[step.skill].role, pin |-> NoBlueprint]
  ELSE Refused

(* Distance is the corners' difference along each axis.                    *)
InclusiveVolume(distance) == (distance[1] + 1) * (distance[2] + 1) * (distance[3] + 1)

CompileClearStep(step, actor) ==
  IF /\ Registry["clearRegion"].exposure = "public"
     /\ Registry["clearRegion"].role = "owner"
     /\ Registry["clearRegion"].effect = "destructive"
     /\ Satisfies(actor, "clearRegion")
     /\ InclusiveVolume(step.distance) <= MaxChanges
  THEN [ok |-> TRUE, rows |-> <<[skill |-> "clearRegion", job |-> FALSE]>>,
        changes |-> InclusiveVolume(step.distance), role |-> "owner", pin |-> NoBlueprint]
  ELSE Refused

InternalSkills == <<"prepareBlueprintMaterials", "buildBlueprint">>

InternalUsable(actor) ==
  \A i \in DOMAIN InternalSkills : /\ Registry[InternalSkills[i]].exposure = "internal"
                                   /\ Satisfies(actor, InternalSkills[i])

InternalRole == Higher(Registry[InternalSkills[1]].role, Registry[InternalSkills[2]].role)

(* A stored source still hashes to its row, compiles for its version and   *)
(* gives the cells of its row; a raw blueprint holds no prohibited block.  *)
StoredSourceSound(c) == c.sourced => c.sound
RawSafe(c)           == ~c.sourced => c.sound

CompileNamedBuild(step, actor, bps) ==
  LET c == bps[step.name]
  IN  IF c # NoBlueprint /\ StoredSourceSound(c) /\ RawSafe(c) /\ Rank(actor) >= Rank(c.role)
      THEN c ELSE NoBlueprint

CompileInlineBuild(step, actor) ==
  IF step.content.sound /\ Rank(actor) >= Rank(step.content.role) THEN step.content
  ELSE NoBlueprint

CompileBuildStep(step, actor, bps) ==
  LET build == IF step.named THEN CompileNamedBuild(step, actor, bps)
               ELSE CompileInlineBuild(step, actor)
  IN  IF InternalUsable(actor) /\ build # NoBlueprint
      THEN [ok |-> TRUE,
            rows |-> [i \in DOMAIN InternalSkills |-> [skill |-> InternalSkills[i], job |-> TRUE]],
            changes |-> build.cells, role |-> Higher(InternalRole, build.role), pin |-> build]
      ELSE Refused

CompileLogicalStep(step, actor, bps) ==
  CASE step.op = "skill" -> CompileSkillStep(step, actor)
    [] step.op = "clear" -> CompileClearStep(step, actor)
    [] step.op = "build" -> CompileBuildStep(step, actor, bps)

-----------------------------------------------------------------------------
(* A script: its steps in order, within its limits.                        *)

NothingYet == [ok |-> TRUE, logical |-> <<>>, expanded |-> 0, changes |-> 0, role |-> "viewer"]

(* Mutant of WithStep: a step is compared with what came before it.        *)
WithStepOffByOne(acc, d, r) ==
  IF \/ ~r.ok
     \/ acc.expanded + Len(r.rows) > d.maxExpanded \/ acc.expanded + Len(r.rows) > MaxExpanded
     \/ acc.changes > d.maxChanges                 \/ acc.changes > MaxChanges
  THEN [acc EXCEPT !.ok = FALSE]
  ELSE [ok       |-> acc.ok,
        logical  |-> Append(acc.logical, [start |-> acc.expanded, rows |-> r.rows, pin |-> r.pin]),
        expanded |-> acc.expanded + Len(r.rows),
        changes  |-> acc.changes + r.changes,
        role     |-> Higher(acc.role, r.role)]

WithStep(acc, d, r) ==
  IF \/ ~r.ok
     \/ acc.expanded + Len(r.rows) > d.maxExpanded \/ acc.expanded + Len(r.rows) > MaxExpanded
     \/ acc.changes + r.changes > d.maxChanges     \/ acc.changes + r.changes > MaxChanges
  THEN [acc EXCEPT !.ok = FALSE]
  ELSE [ok       |-> acc.ok,
        logical  |-> Append(acc.logical, [start |-> acc.expanded, rows |-> r.rows, pin |-> r.pin]),
        expanded |-> acc.expanded + Len(r.rows),
        changes  |-> acc.changes + r.changes,
        role     |-> Higher(acc.role, r.role)]

Compile(d, actor, bps) ==
  FoldLeft(LAMBDA acc, step : WithStep(acc, d, CompileLogicalStep(step, actor, bps)),
           NothingYet, d.steps)

(* Mutant of JobOf: the steps that build nothing are counted too.          *)
JobOfEveryStep(logical, i, first) ==
  IF logical[i].pin = NoBlueprint THEN 0 ELSE first + i - 1

(* Every row of a construction step carries the job made for its step; the *)
(* jobs are numbered from first in the order of the steps.                 *)
JobOf(logical, i, first) ==
  IF logical[i].pin = NoBlueprint THEN 0
  ELSE first + Cardinality({k \in 1 .. i - 1 : logical[k].pin # NoBlueprint})

ResolveTask(row, j) == [skill |-> row.skill, job |-> IF row.job THEN j ELSE 0]

Bind(logical, first) ==
  [links |-> [i \in DOMAIN logical |->
                [start |-> logical[i].start, count |-> Len(logical[i].rows),
                 job |-> JobOf(logical, i, first), pin |-> logical[i].pin]],
   rows  |-> FlattenSeq([i \in DOMAIN logical |->
                [k \in DOMAIN logical[i].rows |->
                   ResolveTask(logical[i].rows[k], JobOf(logical, i, first))]])]

-----------------------------------------------------------------------------
(* What the store demands of a run before it may start, the first time and *)
(* whenever a paused one is resumed.                                       *)

Before(links, i) == FoldLeft(LAMBDA n, l : n + l.count, 0, SubSeq(links, 1, i - 1))

ExpectedRows(step, j) ==
  CASE step.op = "skill" -> <<[skill |-> step.skill, job |-> 0]>>
    [] step.op = "clear" -> <<[skill |-> "clearRegion", job |-> 0]>>
    [] step.op = "build" -> [k \in DOMAIN InternalSkills |-> [skill |-> InternalSkills[k], job |-> j]]

(* A named build still has the fingerprint its link was given, an inline   *)
(* one the source that is in the script.                                   *)
JobMatchesStep(step, link, jobs, bps) ==
  LET of == jobs[link.job].of
  IN  IF step.named THEN of = step.name /\ bps[of] = link.pin ELSE bps[of] = step.content

LinksFit(d, links, jobs, bps) ==
  /\ Len(links) = Len(d.steps)
  /\ \A i \in DOMAIN links :
       /\ links[i].start = Before(links, i) /\ links[i].count >= 1
       /\ (d.steps[i].op = "build") <=> (links[i].job # 0)
       /\ \A k \in DOMAIN links : k # i /\ links[i].job # 0 => links[k].job # links[i].job
       /\ links[i].job # 0 => /\ links[i].job \in DOMAIN jobs
                              /\ JobMatchesStep(d.steps[i], links[i], jobs, bps)
  /\ Before(links, Len(links) + 1) <= d.maxExpanded

RowsFit(step, link, rows) ==
  SubSeq(rows, link.start + 1, link.start + link.count) = ExpectedRows(step, link.job)

StoreTakes(d, links, rows, jobs, bps) ==
  /\ LinksFit(d, links, jobs, bps)
  /\ Before(links, Len(links) + 1) = Len(rows)
  /\ \A i \in DOMAIN links : RowsFit(d.steps[i], links[i], rows)

-----------------------------------------------------------------------------
(* Blueprints.                                                             *)

(* Mutant of Mutable: a failed job is taken for a finished one.            *)
MutableIfFailed(n) ==
  \A j \in DOMAIN job : job[j].of = n => job[j].status \in Finished \cup {"failed"}

Mutable(n) == \A j \in DOMAIN job : job[j].of = n => job[j].status \in Finished

(* A raw blueprint never replaces one that has a source.                   *)
UpsertBlueprint(n, c) ==
  /\ ~c.sourced
  /\ blueprint[n] # NoBlueprint => Mutable(n) /\ ~blueprint[n].sourced
  /\ blueprint' = [blueprint EXCEPT ![n] = c]
  /\ UNCHANGED <<job, run, saved, role, live>>

RegisterCompiledBlueprint(n, c) ==
  /\ blueprint[n] # NoBlueprint => Mutable(n)
  /\ blueprint' = [blueprint EXCEPT ![n] = c]

RegisterBuildDefinition(n, c) ==
  /\ c.sourced /\ c.sound
  /\ c.role = "owner" => role = "owner"
  /\ RegisterCompiledBlueprint(n, c)
  /\ UNCHANGED <<job, run, saved, role, live>>

RoleMeetsSource(required) == Rank(role) >= Rank(required)

(* A source is built by a player of its role, in the very version it was   *)
(* compiled for.                                                           *)
SourceAccess(c) ==
  c.sourced => /\ live # "none"
               /\ RoleMeetsSource(c.role)
               /\ c.version = Configured /\ c.version = live

NewJob(n, c, r) == [of |-> n, total |-> c.cells, status |-> "running", run |-> r]

(* startConstruction, when no job of that blueprint can be taken up again. *)
StartBuild(n) ==
  /\ Len(job) < MaxJobs
  /\ blueprint[n] # NoBlueprint
  /\ SourceAccess(blueprint[n])
  /\ \A j \in DOMAIN job : job[j].of = n => job[j].status \in Finished
  /\ job' = Append(job, NewJob(n, blueprint[n], 0))
  /\ UNCHANGED <<blueprint, run, saved, role, live>>

(* DEFAULT_CONSTRUCTION_STATUS_SOURCES                                     *)
Sources(s) ==
  CASE s = "pending"   -> {"pending", "paused", "blocked", "failed"}
    [] s = "running"   -> {"pending", "running", "paused"}
    [] s = "paused"    -> {"pending", "running", "blocked", "paused"}
    [] s = "blocked"   -> {"running", "blocked"}
    [] s = "completed" -> {"running", "completed"}
    [] s = "failed"    -> {"pending", "running", "failed"}
    [] s = "cancelled" -> {"pending", "running", "paused", "blocked", "failed", "cancelled"}

(* The build skill, the manager and the engine move a job.                 *)
MoveJob(j, s) ==
  /\ job[j].status \in Sources(s) /\ job[j].status # s
  /\ job' = [job EXCEPT ![j].status = s]
  /\ UNCHANGED <<blueprint, run, saved, role, live>>

(* setConstructionJobsStatusByPlan                                         *)
ByPlan(jobs, r, s) ==
  [j \in DOMAIN jobs |->
     IF jobs[j].run = r /\ jobs[j].status \in Sources(s) THEN [jobs[j] EXCEPT !.status = s]
     ELSE jobs[j]]

-----------------------------------------------------------------------------
(* Missions.                                                               *)

Writer == role \in {"operator", "owner"}

(* Mutant of CompileForActor: what the owner could save may be run.        *)
CompileForOwner(d) == Compile(d, "owner", blueprint)

CompileForActor(d) == Compile(d, role, blueprint)

SaveMission(d) ==
  /\ Writer /\ CompileForActor(d).ok
  /\ saved' = d
  /\ UNCHANGED <<blueprint, job, run, role, live>>

Builds(logical) == {i \in DOMAIN logical : logical[i].pin # NoBlueprint}

(* The n-th of the steps that build something.                             *)
NthBuild(logical, n) ==
  CHOOSE i \in Builds(logical) : Cardinality({k \in Builds(logical) : k <= i}) = n

(* The rows of a run of d that is the r-th and finds n jobs in the table.  *)
KeyOf(d, i, r) == IF d.steps[i].named THEN d.steps[i].name ELSE <<r, i>>

WithInline(d, logical, r) ==
  [k \in Keys |->
     IF \E i \in Builds(logical) : ~d.steps[i].named /\ k = <<r, i>>
     THEN logical[k[2]].pin ELSE blueprint[k]]

WithJobs(d, logical, r) ==
  job \o [n \in 1 .. Cardinality(Builds(logical)) |->
            LET i == NthBuild(logical, n) IN NewJob(KeyOf(d, i, r), logical[i].pin, r)]

Taken(d, logical) ==
  LET r == Len(run) + 1
      bound == Bind(logical, Len(job) + 1)
  IN  /\ Builds(logical) # {} => live # "none"
      /\ \A i \in Builds(logical) : SourceAccess(logical[i].pin)
      /\ StoreTakes(d, bound.links, bound.rows, WithJobs(d, logical, r), WithInline(d, logical, r))

NewRun(d, bound) ==
  [status |-> "running", definition |-> d, links |-> bound.links, rows |-> bound.rows]

(* One transaction: a refusal anywhere leaves nothing behind.              *)
RunMission(d) ==
  LET r == Len(run) + 1
      compiled == CompileForActor(d)
      logical == compiled.logical
      bound == Bind(logical, Len(job) + 1)
  IN  /\ r <= MaxRuns
      /\ Writer
      /\ compiled.ok
      /\ Len(job) + Cardinality(Builds(logical)) <= MaxJobs
      /\ Taken(d, logical)
      /\ blueprint' = WithInline(d, logical, r)
      /\ job' = WithJobs(d, logical, r)
      /\ run' = Append(run, NewRun(d, bound))
      /\ UNCHANGED <<saved, role, live>>

RunSaved == saved # NoDefinition /\ RunMission(saved)

PauseRun(r) ==
  /\ Writer
  /\ run[r].status = "running"
  /\ run' = [run EXCEPT ![r].status = "paused"]
  /\ job' = ByPlan(job, r, "paused")
  /\ UNCHANGED <<blueprint, saved, role, live>>

StillTaken(r, jobs) ==
  StoreTakes(run[r].definition, run[r].links, run[r].rows, jobs, blueprint)

(* The script is compiled again for the player who resumes it; if the      *)
(* store then refuses the rows, the run and its jobs are held again.       *)
ResumeRun(r) ==
  LET resumed == ByPlan(job, r, "running")
  IN  /\ Writer
      /\ run[r].status = "paused"
      /\ CompileForActor(run[r].definition).ok
      /\ \/ /\ StillTaken(r, resumed)
            /\ run' = [run EXCEPT ![r].status = "running"]
            /\ job' = resumed
         \/ /\ ~StillTaken(r, resumed)
            /\ job' = ByPlan(resumed, r, "paused")
            /\ run' = run
      /\ UNCHANGED <<blueprint, saved, role, live>>

CancelRun(r) ==
  /\ Writer
  /\ run[r].status \in {"running", "paused"}
  /\ run' = [run EXCEPT ![r].status = "cancelled"]
  /\ job' = ByPlan(job, r, "cancelled")
  /\ UNCHANGED <<blueprint, saved, role, live>>

-----------------------------------------------------------------------------

(* The owner changes the player's role; the bot connects to a server of    *)
(* some version or loses it.                                               *)
SetPlayerRole(r) ==
  /\ role' = r
  /\ UNCHANGED <<blueprint, job, run, saved, live>>

Connection(v) ==
  /\ live' = v
  /\ UNCHANGED <<blueprint, job, run, saved, role>>

Init ==
  /\ blueprint = [k \in Keys |-> NoBlueprint]
  /\ job = <<>> /\ run = <<>>
  /\ saved = NoDefinition
  /\ role = "owner" /\ live = "none"

Known == Names \cup {k \in Inline : blueprint[k] # NoBlueprint}

Next ==
  \/ \E n \in Known, c \in Contents : UpsertBlueprint(n, c) \/ RegisterBuildDefinition(n, c)
  \/ \E n \in Known : StartBuild(n)
  \/ \E j \in DOMAIN job, s \in JobStatus : MoveJob(j, s)
  \/ \E d \in Missions : SaveMission(d) \/ RunMission(d)
  \/ RunSaved
  \/ \E r \in DOMAIN run : PauseRun(r) \/ ResumeRun(r) \/ CancelRun(r)
  \/ \E r \in Roles : SetPlayerRole(r)
  \/ \E v \in Versions \cup {"none"} : Connection(v)

Spec == Init /\ [][Next]_vars

-----------------------------------------------------------------------------
(* Properties.                                                             *)

(* A script is accepted exactly when each of its steps is acceptable by    *)
(* itself and the sums of their rows and of their block changes are within *)
(* its limits, whatever the order of the steps: compileMissionDefinition   *)
(* keeps running totals, skips what it refuses and goes on.                *)
AcceptedExactly ==
  \A d \in Definitions :
    LET step(i) == CompileLogicalStep(d.steps[i], role, blueprint)
        sum(n(_)) == FoldLeft(LAMBDA t, i : t + n(i), 0, [i \in DOMAIN d.steps |-> i])
    IN  CompileForActor(d).ok <=>
          /\ \A i \in DOMAIN d.steps : step(i).ok
          /\ sum(LAMBDA i : Len(step(i).rows)) <= d.maxExpanded
          /\ sum(LAMBDA i : step(i).changes) <= d.maxChanges

(* What the compiler accepts and the binder numbers is what the store      *)
(* takes: no accepted script fails half way for the shape of its own rows, *)
(* only for want of a connection of the right version.                     *)
AcceptedIsTaken ==
  \A d \in Definitions :
    LET compiled == CompileForActor(d)
    IN  /\ Writer /\ compiled.ok /\ live # "none"
        /\ \A i \in Builds(compiled.logical) : compiled.logical[i].pin.sourced =>
              compiled.logical[i].pin.version = Configured /\ live = Configured
        => Taken(d, compiled.logical)

(* A job that can still lay a block builds the blueprint it was created    *)
(* for: its total counts that blueprint's cells, and for a mission's job   *)
(* it is the one the script was compiled with, however the names were      *)
(* registered again in between (assertBlueprintMutable).                   *)
BuildsWhatWasCompiled ==
  /\ \A j \in DOMAIN job :
       job[j].status \notin Finished => blueprint[job[j].of].cells = job[j].total
  /\ \A r \in DOMAIN run : \A i \in DOMAIN run[r].links :
       LET link == run[r].links[i]
       IN  link.job # 0 /\ job[link.job].status \notin Finished =>
             blueprint[job[link.job].of] = link.pin

(* A run starts or resumes only when the role its player has now, not the  *)
(* one the script was saved with, covers each of its skills and the        *)
(* blueprints that it builds.                                              *)
NothingBeyondTheRole ==
  [][\A r \in DOMAIN run' :
       run'[r].status = "running" /\ (r \in DOMAIN run => run[r].status = "paused") =>
         /\ \A k \in DOMAIN run'[r].rows : Rank(role) >= Rank(Registry[run'[r].rows[k].skill].role)
         /\ \A i \in DOMAIN run'[r].links :
              run'[r].links[i].job # 0 => Rank(role) >= Rank(run'[r].links[i].pin.role)]_vars

=============================================================================
