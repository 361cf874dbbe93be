# A TLA+ model of MCSmartBot

MCSmartBot is a Minecraft bot: a language model reads chat, calls tools, and the
tools start *skills* (walk, dig, build) that move the bot. Work that must
survive a disconnection or a restart is kept in SQLite and drained by an engine.
Everything runs on one JavaScript thread, and nearly everything that is hard about
it comes from the same source: a function that awaits Mineflayer or the model is
suspended while others run, and an abort signal asks it to stop but cannot force it.

The modules here are written from `src/src/`. Paths below are relative to it unless
they begin with `tests/` or name a top-level document.

## 1. Inventory

| Part | State | Operations | Hard because |
|---|---|---|---|
| **Skill runner** `skills/runner.ts` | the active slot, `lastFired`, one closure per run (signal, verdict flags, timer), its `skill_runs` row | `run`, `restart`, `cancel`, settlement, deadline | an aborted handler goes on until it looks; its settlement arrives beside its successor's; timers are late and bounded to 2^31-1 ms |
| **Reflex layer** `reactive/preempt.ts` | the reflex that fires, its controller, cooldown, "restart after" | `tick`/`fire`, `cancel`, hard cap | the continuation of a reflex runs after a stop, and repeats what was fired *last* |
| **Emergency stop** `runtime/emergencyStop.ts` | none | clears triggers, aborts the agent, the reflex, the skill, pauses the active plan | five parts, each with a continuation pending |
| **Task engine** `tasks/engine.ts`, `tasks/store.ts` | `task_plans`, `task_steps`; the loop flag, `available`, the wake timer, the active plan | create, claim, complete, fail and retry, pause, resume, cancel, reconcile; suspend, resume, stop | two engines (old and new connection) on the same tables; late answers; lost wakes; process end between claim and result |
| **World transactions** `world/transactions/*`, `world/blockExecutor.ts`, `skills/world/undoTransaction.ts` | `world_transactions`, `world_changes` | begin, plan a row, click, reread, verdict, finish, cancel, undo, startup and live reconciliation | the click travels while everything else happens; other players edit; what is recorded must be what stands |
| **Missions, construction jobs** `missions/service.ts`, `construction/manager.ts`, `construction/store.ts`, `skills/construction/buildBlueprint.ts` | `mission_runs`, `construction_jobs`, and the plan they share with the engine | start, materialize, pause, resume, cancel, reconcile; manageBuild; the build's own writes | three tables written by five components in separate transactions, any of which the process may not live to make |
| **Instance lock** `runtime/instanceLock.ts` | a file with a pid | acquire, reclaim, release | several processes, several system calls |
| **Controller, session, supervisor** `app/controller.ts`, `app/session.ts`, `runtime/reconnect.ts` | phase, start and stop promises, lock, database, dashboard; generation, retry timer | start, roll back, lose, reopen, stop, emergency stop | each is a chain of awaits; any button is pressed at any of them; what is half made must be released |
| **Connection** `runtime/connection.ts`, `bot/*` | the engine and services of a connection, the send queue | spawn, death, end, dispose, say | events of a connection already replaced; a journal that cannot be reconciled |
| **Standing work** `supply/*`, `farming/*` | goals and farms with next check and last plan | tick, plan ended, pause, resume, cancel | a plan that outlasts its interval; ends that nobody hears; two goals that ask for the same plan |
| **Agent session, trigger queue, clients, permissions** `agent/*`, `permissions/*` | the queue (16), the turn's controller, the shared actor, the client's turn | enqueue, turn, tool call, timeout, clear | a provider that ignores its signal; one actor object for all tools; calls that arrive late |
| **Building a blueprint** `skills/construction/buildBlueprint.ts` | the job's phase and counts, attempts in the journal | scan, support, place, take down, verify, repair | everything it saw may have changed; an aborted build finishes beside its successor |
| **Mission compiler, blueprints** `missions/compiler.ts`, `missions/service.ts`, `construction/store.ts` | definitions, runs with pins, blueprint versions | save, compile, run, resume, register again | compiled several times, under roles and blueprints that change in between |
| **Build operations, sites, verifier** `construction/buildOps/*`, `construction/site.ts`, `construction/verifier.ts` | a canvas | pure algorithms | limits, rotations written four times, hollow shapes |
| **Supply skills** `skills/construction/prepareBlueprintMaterials.ts`, `skills/resources/*`, `skills/items/*`, `skills/farming/harvestFarm.ts` | inventory, containers and what is remembered of them | composite skills that delegate to others | arithmetic of recipes and stacks; an abort at any await of any frame |
| **Movement** `skills/pathfinder.ts`, `skills/flight.ts`, `skills/navigation/*`, `skills/exploration/*` | the pathfinder's goal, the flight state: one body for all | walk, follow, fly, use a block | the aborted run's `finally` runs after its successor has begun |
| **Windows, villagers, worn and eaten items** `skills/interaction/*`, `skills/items/*` | what Mineflayer holds | single calls | Mineflayer |
| **Chat surfaces, events, memory, exploration, dashboard, profile, CLI** | queues and rows | input, output, records | little |

How they interact. A chat line or an ended skill is a trigger on the bus; the trigger
queue gives it to the agent's turn, whose tools call the runner directly or create a
plan. The engine claims a step and awaits `runner.run`. The reflex layer, on every
physics tick, may cancel the runner and later restart it. Skills that edit the world
go through the journal; a build also writes its job. Ends of plans are announced on the
connection's bus and move missions, goals and the agent. A death suspends the engine
and cancels the skill; a respawn reconciles the journal and resumes. A lost
connection stops the engine and its services; the supervisor opens a new set on
the same database. A killed process is found by the next one's reconciliation.

What makes each correct: one handler drives the bot (runner); a step's result is
its own attempt's, in order, and no work is lost (engine); every change that stands is on
record and what is called undone is undone (journal); plan, jobs and run tell one
story and a hold holds (missions); a completed job is built (build); one process owns the
data (lock); one bot at a time, and nothing left at rest (host); one turn at a time, as its
requester (agent); one plan per due goal (standing work); what was compiled is what is run, under the
role of today (compiler); whoever is stopped stops, and leaves its successor alone (skills).

`PROJECT.json` lists every part with its status and, under "hazards", each place
in the code that a test would hardly reach.

## 2. Modules

Each module keeps one action per handler, cut at its `await`s: the code between two awaits is one step.
Where two modules meet, one is composed of the other or uses what the other promises:

    HostedConnections = Host + Connection          TaskEngine implements PlanLifecycle
    Plans    = MissionCompiler + BuildOps          StandingWork relies on PlanLifecycle
    MCSkills = Provisions + Movement               BuildOps uses BuildGeometry

**SkillRunner** (`skills/runner.ts`, `reactive/preempt.ts`, `runtime/emergencyStop.ts`).
`run[r]` is the closure of one invocation, `active` and `lastFired` the runner's
variables, `reflex` the pre-emption controller. `Invoke` is `run()` up to the handler's
first await (duplicate rule, replacement, deadline check, row), `HandlerSettles` is `completeRun`
with any of the handler's outcomes, at any time, aborted or not. `DeadlineTimer` is `expireAtDeadline`, which may have
to arm its bounded timer again. The clock moves on its own (`Tick`), so every timer may be late. A
skill and its parameters are one model value.

**TaskEngine** (`tasks/engine.ts`, `tasks/store.ts`, with `runtime/connection.ts` for spawn, death and
loss). `plan` and `step` are the tables, `engine[e]` the closure of `createTaskEngine` of connection
`e`. A drain loop goes in one step from a wake, or the answer of the handler it awaits, to its next
claim or to the re-armed timer; the claim holds what the loop keeps across the await. The actions
are the store's operations, each with what its callers do in the same synchronous stretch. A plan
linked to a mission is claimed only while the run is running, as in the claim's SQL. The runner is abstracted to the fate of a handler: live,
or aborted and yet to settle.

**PlanLifecycle** is what the engine's clients see: the status of a plan's row, and how often its end was
announced. `Work` and `Ends` are what the engine does of its own accord, `Asked` what it is told. `TaskEngine` has it by
`INSTANCE PlanLifecycle WITH status <- ..., announced <- ...`, as the property `KeepsLifecycle`.

**WorldTransactions** (`world/transactions/store.ts`, `service.ts`, `world/blockExecutor.ts`, undo). `world` is the server's,
`mine` the change whose click wrote the block that stands (history, for the
properties), `tx` and `change` the tables, `op` the operations in progress: one that is active, others aborted
and still running. A change goes through planned, click, effect at the server, reread, verdict; the click may be
ignored, take effect late, or be answered by a world already lost. `Spawn` is live reconciliation,
`Crash` the process end with startup reconciliation.

**MissionRuns** (`missions/service.ts`, `construction/manager.ts`, `construction/store.ts`, the tools, the build). `db` is the three tables, a write an
operator from tables to tables, an operation a sequence of writes; `Commit` performs the sequence or any
prefix of it and then ends the process. `engine[e]` is a connection with its services and at most one build.
`aside` (history) is TRUE once the plan was touched through a tool that does not tell the mission service, until it next
compares the tables.

**InstanceLock** (`runtime/instanceLock.ts`). Each system call is a step of its process; a process
may be killed and its pid given to another one. The file remembers who created it because the pid is written through
the descriptor, which outlives an unlink.

**Host** (`app/controller.ts`, `app/session.ts`, `runtime/reconnect.ts`). One variable for each field of the controller
(`phase`, `starting`, `stopping`, `answered`, `pending`, `session`, `emergency`), `held` for what the session owns, `net` for its
supervisor and for every connection there is, wanted or not. `stuck` (history) is what a release that threw has left. Start,
stop and emergency stop may be called between any two steps, and every await and every release may fail.

**Connection** (`runtime/connection.ts`, `bot/events.ts`, `bot/client.ts`, `bot/sendQueue.ts`) has operators on the record of one
connection's runtime: what spawn starts, and where it returns early (an unknown dimension, a reconciliation that throws); what a
death suspends; what dispose closes; the paced queue of lines. **HostedConnections** says when: `Followed` gives what each step of `Host`
does to the runtimes, and `Lives` what happens to one of them meanwhile.

**StandingWork** (`supply/scheduler.ts`, `supply/store.ts`, `farming/scheduler.ts`, `farming/store.ts`). The two schedulers are one program over
two tables. Rows keep the minutes left until their check, so that time needs no bound. Of plans it knows what `PlanLifecycle`
promises and that `tasks.create()` answers with an equal plan that is not finished: `Twins` are goals
whose plans are equal. A plan that has ended is forgotten, for nothing is done with it again.

**AgentTurns** (`agent/triggerQueue.ts`, `agent/session.ts`, `agent/codexClient.ts`, `agent/openrouterClient.ts`, `permissions/toolAuthorization.ts`).
`turn` is the turn in flight with the closure of its `sendMessage`, `actor` the one object every tool reads. The Codex server's
calls arrive whenever they like; the OpenRouter client looks at its signal only when it asks again.
`ran` (history) is which tool ran for which turn, as whom.

**BlueprintBuild** (`skills/construction/buildBlueprint.ts` with its attempts in `world/transactions/store.ts` and its clicks in `world/blockExecutor.ts`). `inv[r]` is
one invocation of the handler with its place in the code (`pc`), what it still has to place and its click under way;
`tx[r]` its attempt, `job` the row, `own` (history) the supports of this job that stand. The handler looks in batches, raises
a column where a unit has nothing to be placed against, places, takes the column down, compares, repairs once, compares again.

**MissionCompiler** (`missions/compiler.ts`, `missions/service.ts`, the checks of `missions/store.ts`, the registration of blueprints in `construction/store.ts`). Pure
operators compile a script step by step (`CompileLogicalStep`, `CompileForActor`), bind its rows and check them as the store does; the actions run,
pause and resume, change a player's role, connect with another version and register blueprints again.

**BuildGeometry**, **BuildOps** (`construction/buildOps/*`, `construction/site.ts`, `construction/verifier.ts`). A design is a function from cells to blocks; every operation
stages its cells, is held against the limits and only then written. `BuildGeometry` has the shapes and the
four rotations, `BuildOps` the compiler of operations and layers and the two judgements of a place.

**Provisions** (`prepareBlueprintMaterials`, `supplyContainer`, `restockInventory`, `harvestFarm` and the skills they delegate to: `retrieveItem`, `scanContainer`,
`chestDeposit`, `mineUntil`, `chopTrees`, `craftItem`, `ensureTool`, `equipBestTool`, `smeltItem`). A handler is a stack of frames, one for each skill
that awaits another; a frame's `at` names its place in the code. The world acts only where that place is an await.

**Movement** (`skills/pathfinder.ts`, `skills/flight.ts`, `skills/navigation/*`, `surveyArea`, `pickupNearby`, `activateBlock`, `sleep`, `world/reach.ts`, the setFlight tool).
`body` is the one body they share, the pathfinder's goal and the flight state; `run[r]` the active run and an aborted one. The active one
starts in the step that aborts the other, as in the runner.

The `MC...` modules give constants, scenarios and symmetry for TLC; **Plans** and `MCSkills` each put two modules side by side for one run, a behaviour
being about the one or the other. `...Proofs` hold the theorems.

## 3. Runs

| Run | Bounds | What it shows |
|---|---|---|
| `skill_runner` | 3 invocations, 2 skills, clock 0..2, timers of at most 1, one reflex | `OnlyActiveMayAct`, `NoLateSuccess`, `RowTellsTheTruth`. Three invocations are a pre-empted one, its successor and a restart; a timer of 1 under a clock of 2 makes the alarm re-arm. |
| `skill_runner_live` | 2 invocations, clock 0..3 | `TimersEnforced`: a deadline aborts, a reflex is released. Without symmetry. |
| `task_engine` | 2 plans of 2 steps, one linked to a mission, 2 engines, 2 attempts, clock 0..1, one pause, one exception | `StepsInOrder`, `PlanMirrorsSteps`, `CompletedByOwnAttempt`, `NoLostWork`, the refinement `KeepsLifecycle`, and `RetriesHappen`. Two of each is what a retry, a late answer of an old engine and a choice between plans need. |
| `transactions` | 1 cell, 3 blocks, 2 transactions of 2 rows, a budget of 1, 2 operations, 1 foreign edit, 1 fault | `EveryChangeRecorded`, `BudgetKept`, `JournalIsTrue`, `RevertedStands`. All conflicts are over one cell; two operations are an aborted one and its successor. |
| `build` | 2 units, a column of 2 supports, batches of 1, 2 handlers, 2 plans, 1 foreign edit, 1 fault | `CompletedIsBuilt`, `NoSupportLeftBehind`, `NoSecondClick`. The units float, so one needs the column and one leans on the other. |
| `missions` | 2 mission builds and one on its own, 2 plans, 2 connections, 2 attempts | `CompletedMissionIsBuilt`, `HoldsStopClicks`, `StoriesAgree`, with the process ending between any two writes. |
| `plans` | 27 scripts, 5 contents of a blueprint, 2 versions; up to 3 of 24 operations or 4 layers; radius to 12 | `ScriptsAreJudgedOnce`, `BuildsWhatWasCompiled`, `NothingBeyondTheRole`; `ShapesAreTrue`, `SameJudgement`. The limits are scaled so that scripts and designs fall on both sides of each. |
| `skills` | some 300 scenarios; 2 invocations, 2 entities, 3 profiles, 2 drops | `PlanSuffices`, `StopIsPrompt`, `NoBareSoil`, `WorksOnlyWithLeave`; `StoppedStaysStopped`, `OwnWalk`. The bills are those around a full craft, log or fuel. |
| `host` | 2 starts, 3 connections, 1 line | `RestLeavesNothing`, `RunsWhenWanted`, `OneConnection`, `OneRuntimeServes`, `StopComesToRest`. A second start needs the first one's leftovers; three connections are lost, reopened, and of another session. |
| `standing` | 2 equal goals and a farm, 3 plans, interval 2, retry 1 | `PlansAreWanted`, `GoalsAreServed`. |
| `agent` | depth 2, 2 calls, 3 turns, 1 stop | `RightActor`, `TurnsEnd`: one turn in flight, one waiting, one refused or next. |
| `instance_lock` | 2 pids | expects a violation, below. |

Deadlock is not checked where a program may come to rest: bounds used up, every plan ended, nobody asks.

`instance_lock` checks what `runtime/instanceLock.ts:23` says, that exactly one process wins. It does not: the file is
empty between its creation and the pid, and a second process that reads it then takes it for malformed and reclaims it.

### Fairness

Only the event loop is fair: time passes, due timers fire, and what is awaited of the
program itself is answered. Nothing is assumed of handlers, users, the connection or the server.

- `SkillRunner`: `Tick`, `DeadlineTimer`, `ReflexTimeout`; `AbortedReflexSettles`, which the code's reflexes do: they test their signal between waits.
- `TaskEngine`: `Tick`, `WakeFires`. `RetriesHappen` is released by a busy engine, a pause or the end of the service.
- `Host`: the ends of its awaits, whichever way they end (`Assemble \/ AssembleFails`, ...). Opening a database or closing a server answers; the bot's login does not have to.
- `StandingWork`: `Minute` and `Poll`, the interval timer. `AgentTurns`: `EndTurn`, `Settles`, `TurnTimeout`, `NextCall`, for the clients race their waits against the turn's signal; a tool that never answers is not assumed to, and `TurnsEnd` excludes it.

## 4. Proofs

The theorems hold for any number of invocations, plans, steps, jobs, cells, transactions, engines, connections, goals and turns, and for any
bound. They assume what each module's named `ASSUME` says (`RunnerAssumption`, `EngineAssumption`,
`MissionAssumption`, ...): counts are natural numbers, positive where the code's are, and null values are not members of the sets that they stand beside.
In each module `IInv` is the inductive invariant, `InitIInv` and `NextIInv` (or `NextKeeps`) its two halves, with one step per action, and
`Invariance` the theorem that the others follow from.

*SkillRunnerProofs.* `SingleSlot` (`OnlyActiveMayAct`), `NoStrayAlarm`, `OneVerdict`, `DeadlineHolds`
(`NoLateSuccess`), `TruthfulRows` (`RowTellsTheTruth`), `TypeCorrect`. The properties are not inductive alone: that a new identity starts with a clean closure
(`UnusedIsClean`), that a verdict implies the abort (`EndedIsAborted`) and that what `restart()` repeats was fired
(`FiredIsKnown`) are needed. `InvokeKeeps`, `CancelKeeps`, `SettleKeeps` and `TimerKeeps` prove the four ways the
closures change. Rows have an invariant of their own over that one (`RowsAreKept`): a row is `running` exactly while its
invocation is pending, and what a settled row says fits what was aborted.

*TaskEngineProofs.* `Ordered`, `Mirrored`, `AnnouncedOnce`, `OwnAttempt`, `WorkIsKept` (`NoLostWork`), `Implements` (`KeepsLifecycle`), `TypeCorrect`. What the tables say of one
plan (`GoodPlan`: order, mirror, end, own attempt) is preserved by each store operation on that plan's rows (section 2 of the
module). `OwnAttempt` also needs the engines: they follow one another, a stopped one holds no live handler, and a
live claim is the last attempt of its step (`LiveIsLast`); an aborted handler cannot
answer with success, because the runner turns the answer of an aborted run into an interruption.

`WorkIsKept` has an invariant over that one (`WorkKept`): as long as no drain loop threw, the current engine awaits the step that
runs, and what waits for a retry or could be claimed is left only by an engine that drains, has its timer armed or may not serve.
`Implements` is the refinement of `PlanLifecycle`: each action leaves a plan's row alone or makes one abstract move (`Moves`); the
invariant is needed where a handler answers, to know that the plan of a step that still runs is running itself.

*MissionRunsProofs.* `Built` (`CompletedMissionIsBuilt`), `HoldsHold` (`HoldsStopClicks`), `OneStory` (`StoriesAgree`), `EndsFinal`, `TypeCorrect`.
The process may end after any write, so the invariant has what every single write keeps (`Good`), with an order between tables in which
no write undoes an end (`Later`); what the engines add is that a build that may click works at the position of a plan
that nobody holds (`Live`), and what only whole operations restore is `Story`. Sections 1 to 8 go from writes to operations, reactions,
reconciliation, jobs, steps and connections to the theorems.

*WorldTransactionsProofs.* `Recorded` (`EveryChangeRecorded`), `Budget` (`BudgetKept`), `Believable` (`JournalIsTrue`), `Restored` (`RevertedStands`),
`TypeCorrect`. A row moves one way (`RowMove`), by an edit's or a reconciliation's verdict (`Judges`) or by an undo (`Undoer`), and what a transaction's
status says of its rows (`Fits`) survives both. That no look at the world denies a change that stands needs to know what each operation
holds across its awaits (`Holds`: a row whose click may still land is planned, a stale look is marked or saw the change), that two never
edit one row and one at most is active (`Turns`). Sections 1 to 3 are about rows, statuses and what any step keeps, 4 to 9 about the steps.

*BlueprintBuildProofs.* `CompletedAsBuilt` (`CompletedIsBuilt`), `NothingLeftBehind` (`NoSupportLeftBehind`), `ClickedOnce` (`NoSecondClick`), `TypeCorrect`,
and `Invariant`, that all of `IInv` holds. A support of the job's that stands is on record (`Kept`): the last verdict of its cell says so, or the
click that raised it has no verdict. Clicks without a verdict are all of one attempt, one for a cell (`Resolved`); a handler that may click is, once it has
scanned, the one with that attempt (`Clear`), and while nothing failed only its column stands and only the click in its hand is open (`Clean`). After a
failure a column comes down past cells that were never clicked (`Below`). What a comparison has passed stands or was changed since (`Compared`). Section
by section: the operators, what one handler's step leaves alone in the others, one step per action, the theorems. `BuildAssumption` has what the code's values
have: units are the placements 1 to n, a unit's column has no cell twice, supports are no units, a batch is positive.

*ServicesProofs*, first part: `Wanted` (`PlansAreWanted`), `TypeCorrect`. A tick finds a goal's plan by its work, a hold by its name in the row;
`Unique` and `Named` say that both find the same one, except between equal goals and after a process that ended between the two writes.
Second part: `ServesItsTurn` (`RightActor`), `ClosedIsSilent`, `TurnsTypeCorrect`. The shared object is the requester of the turn in flight (`ActorIsTurns`),
what the client serves is that turn (`OwnStages`), and turns that wait are later than every one that ran a tool
(`WaitTheirTurn`, `RanBefore`), so none begins twice.
Third part: `LeavesNothing` (`RestLeavesNothing`), `RunsOnlyWanted` (`RunsWhenWanted`), `OneBot` (`OneConnection`), `HostedIsHost`, `OneServes` (`OneRuntimeServes`), `TypeCorrect`. `NetGood` says what the
supervisor knows of its connections; `AtRest`, `Opening`, `Running` and `Closing` what each phase that the controller shows implies of
the promises, the session and what it holds. `HostedIsHost`: what the runtimes do stutters in `Host`, so the invariant holds with them too;
over it `HostedInv` says of each connection's runtime that it starts, serves and speaks only while the supervisor holds it.

*SkillsProofs*, first part: `StopsHold` (`StoppedStaysStopped`), `BodyIsOwn` (`OwnWalk`), `MoveTypeCorrect`. A step of `Movement` is what one handler does up to its next
await, calls and all; `Yields` says once what it may leave behind there, and is shown piece by piece from the ends of a handler to its beginnings.
The invariant has the places where each skill may wait (`Shaped`), one active run, and who may have his goal with the pathfinder (`MayHold`): one that
walks or tracks and was not stopped, or a follow that paces on foot. The properties are of steps, and are read off `Yields` with that invariant.
Second part: `PromptStop` (`StopIsPrompt`), `FieldIsSown` (`NoBareSoil`), `LeaveFirst` (`WorksOnlyWithLeave`). `ProvInv` types the frames of every
skill and says that a handler's first frame is the composite skill of its request (`Own`: which in a mission gets no further than the store), that no frame below the
top is about to act (`Stacked`), that what was done after the abort and what the top may still do (`Pending`) stays within the bound (`Ledger`), and that a reaped cell has its
seed while the faults pay for every other bare one (`Tended`). Nearly every step is `Onward`: it replaces the top, awaits another skill or answers, and spends
of `Pending`; that these keep the stack and the ledger is shown once, and each skill's steps are shown to be of that kind. Amounts are integers there, for
that none gets negative is not what these properties rest on.
Third part: `PlanIsEnough` (`PlanSuffices`). `PlanInv` says for each place of the preparation's code what has been gathered there and what is laid by for
what is still to be made (`Holds`), and for what each awaited skill was called (`Awaited`) and what it has brought so far (`Knows`). Coal gives no such fact, since
it burns. A try, a fault or a block once spent stays so and no tool is given up, so a step that ends undisturbed began so (`MovesOn`). A leaf skill brings what it was called for and
leaves the rest; a stage leads from its facts to the next's; that a door's planks and a plank's logs are laid by in whole batches is `HoldsPlanked` and `HoldsDoored`.

*PlansProofs*, first part (`BuildOps`): `JudgedAlike` (`SameJudgement`), `ShapesHold` (`ShapesAreTrue`), `OpsTypeCorrect`. The cells of a canvas are finitely many (`SpaceIsFinite`), for each
operation only writes what it staged within the limits; that a facing or a half is asked only of stairs (`HintsAreStairs`) is what makes both looks agree.
Closed shapes come down to integers: a neighbour of an inside cell is no further out than one step of the square of the radius.
Second part (`MissionCompiler`): `BuildsAsCompiled` (`BuildsWhatWasCompiled`), `RunsWithinTheRole` (`NothingBeyondTheRole`), `CompilerTypeCorrect`, `ScriptsAreKept`. The
invariant `MInv` has that an unfinished job builds a blueprint of its size (`JobsHold`), that a link's job builds the link's pin while it is unfinished (`LinksHold`), that what a run
will store inline is not stored yet (`InlineKept`), and that a run's rows are those of its script (`ScriptsKept`): without `InlineKept` a new run could overwrite an older one's source.
Third part (`Plans`): `JudgedOnce` (`ScriptsAreJudgedOnce`). A fold of the community modules is defined by a `CHOOSE` of a recursive function over sets of positions; that there is one
is shown by induction over naturals with its formula written out, and then what `Compile`, `Bind` and `Before` hold after k steps (`After`, `EntriesOf`, `BoundStarts`) follows
by the same induction. So the totals are sums (`Summed`), jobs are numbered in the order of the steps, and rows start where their links say.
`ScriptAssumption` and `OpsAssumption` say what the schemas let pass: a step names a skill, spans a region or builds something, a script has at most 32 steps, a floor is level, a drawing
rectangular, and no stair is a block that a build may replace.

Only model-checked: liveness and `ENABLED`, which are out of the prover's reach. Every safety invariant and every action property of the passing runs has a theorem.

## 5. What the code does that a reader may not expect

Met while modelling, kept in the models as they are, and the reason why some properties have an exception:

- An emergency stop during a reflex aborts it; its continuation then restarts what it had pre-empted (`reactive/preempt.ts:62`), and `restart()` repeats what was fired last, be it a durable step (`:64`).
- A drain loop that awaited a handler at a death claims again before the respawn (`tasks/engine.ts:160`). A plan interrupted while its step waited for a retry becomes `pending`, and nobody arms its timer (`tasks/store.ts:398`).
- A partial transaction with only observed conflicts is undone by saying so (`world/transactions/store.ts:566`).
- An aborted build's finalizer may cancel the journal that its successor shares (`buildBlueprint.ts:407`). A build started on its own stays `running` under an ended plan (`construction/store.ts:592`).
- A paused mission whose first build completed and whose blueprint was then registered again can only be cancelled (`missions/store.ts:572`).
- A spawn without a death whose reconciliation fails leaves the engine running, though the log says durable work remains paused (`runtime/connection.ts:534`).
- The end of an adaptive follow may come after its successor set its goal (`skills/flight.ts:210`), whose walk then fails with `goal_changed`; one that is descending still hovers. A take-off that failed leaves the flag of a flight on, and a walk that failed leaves its goal.
- A survey that arrives in the air is recorded though it was aborted. The filter of a deposit is a substring: `wheat` also takes `wheat_seeds` (`chestDeposit.ts`). An aborted smelting leaves its material in the furnace. A bill with coal beside glass may burn what it asks for (`prepareBlueprintMaterials.ts:618`), and ends with `NO_MATERIAL`.

## 6. Not modelled, and what is left

*Not modelled.* World events, exploration records, inventory views and the map: written by one part, read by prompts and views.
Dashboard, profile and command line: input, configuration, output. Of the partly modelled parts: the wiring of tools
and the announcements of a connection; the composition of a prompt and the idle trigger's timing; wire formats; the tables of roles, which
their tests enumerate; the block states a placement may take; windows, villagers and worn or eaten items; notes, facts and
retention; the formatting of chat. Everywhere: the rebinding of items between steps and path finding itself (Mineflayer's).
A disk or SQLite error is an exception in the drain loop only. The clock does not go back.

*Hazards without room in the list*: an exception in the drain loop that leaves its step running until the next start
(`tasks/engine.ts:278`, in the model as a fault), attempts consumed by pauses (`tasks/store.ts:279`), a reservation released before its block is restored
(`world/transactions/store.ts:187`), a process that ends between a completed job and its step (`buildBlueprint.ts:847`).

*Left*: the composition of `SkillRunner` with `TaskEngine`, where the one's invocation is the other's handler; the
composition of `BlueprintBuild` with `WorldTransactions`, whose journal it has in small.
