-------------------------------- MODULE Host --------------------------------
(***************************************************************************)
(* The application around the bot: the controller that a user starts and   *)
(* stops (app/controller.ts), the session that owns the instance lock, the *)
(* database and the dashboard (app/session.ts), and the supervisor that    *)
(* reopens a lost connection (runtime/reconnect.ts).                       *)
(*                                                                         *)
(* All three run on one thread: a step is what happens between two awaits. *)
(* A caller may press start, stop or emergency stop between any two steps, *)
(* every await may end in an error, and so may the release of a resource.  *)
(***************************************************************************)
EXTENDS Naturals, FiniteSets

CONSTANTS MaxStarts,   \* bound: sessions opened
          MaxConns     \* bound: connections opened, of all sessions together;
                       \* a stray counts twice

ASSUME HostAssumption == MaxStarts \in Nat /\ MaxConns \in Nat

VARIABLES phase,       \* what the controller shows
          shown,       \* the connection status it shows
          starting,    \* where runStart waits, "no" when startPromise is null
          stopping,    \* a session's stop() waits for the dashboard to close, and
                       \* whether the supervisor's stop() had thrown
          answered,    \* teardownPromise is set
          pending,     \* pendingStartStop: the mode of a stop that waits for the start
          session,     \* the controller has a session
          emergency,   \* emergencyInvoked
          held,        \* what the session owns: lock, database, dashboard
          stuck,       \* what an earlier session failed to release
          net,         \* the session's supervisor, and every connection there is
          starts,      \* how many starts were accepted
          asked        \* history: somebody asked for a stop since the last start

appVars == <<phase, shown, starting, answered, pending, session, emergency>>
hostVars == <<phase, shown, starting, stopping, answered, pending, session,
              emergency, held, stuck, net, starts, asked>>

Phases    == {"stopped", "starting", "running", "stopping", "failed"}
Modes     == {"graceful", "emergency"}
Resources == {"lock", "database", "dashboard", "connection"}
Waits     == {"no", "auth", "dashboard", "rollback", "undo", "teardown"}
Conns     == 0..MaxConns

HostTypeOK ==
  /\ phase \in Phases /\ shown \in {"disconnected", "starting", "connected"}
  /\ starting \in Waits /\ stopping \in {"no", "clean", "broken"} /\ answered \in BOOLEAN
  /\ pending \in Modes \cup {"no"} /\ session \in BOOLEAN /\ emergency \in BOOLEAN
  /\ held \subseteq Resources /\ stuck \subseteq Resources
  /\ net \in [stopped : BOOLEAN, generation : Conns, runtime : Conns,
              timer : BOOLEAN, live : SUBSET Conns, strays : SUBSET Conns]
  /\ starts \in 0..MaxStarts /\ asked \in BOOLEAN

\* Generations go on from one supervisor to the next, so that each names one
\* connection; what nobody closed outlives the supervisor.
NoSupervisor(g, conns, lost) ==
  [stopped |-> TRUE, generation |-> g, runtime |-> 0, timer |-> FALSE,
   live |-> conns, strays |-> lost]

HostInit ==
  /\ phase = "stopped" /\ shown = "disconnected"
  /\ starting = "no" /\ stopping = "no" /\ answered = FALSE /\ pending = "no"
  /\ session = FALSE /\ emergency = FALSE
  /\ held = {} /\ stuck = {} /\ net = NoSupervisor(0, {}, {})
  /\ starts = 0 /\ asked = FALSE

-----------------------------------------------------------------------------
(* The supervisor.  A connection is named by its generation; generation 0  *)
(* is no connection.  A stray is a connection whose opening failed when    *)
(* its bot was there already: nobody holds it, and nobody closes it.       *)

Schedule(n) == IF n.stopped \/ n.timer THEN n ELSE [n EXCEPT !.timer = TRUE]

Numbered(n) == [n EXCEPT !.generation = @ + 1]
Joined(n)   == [n EXCEPT !.live = @ \cup {n.generation}]
MayOpen(n)  == n.generation + Cardinality(n.strays) < MaxConns

\* connect() throws: before there is a bot, or once it connects and its
\* handlers are on, but before anything would dispose of it.
Failures(n) ==
  LET none == [n EXCEPT !.runtime = 0]
      half == [Joined(none) EXCEPT !.strays = @ \cup {n.generation}]
  IN  {none} \cup (IF MayOpen(n) THEN {half} ELSE {})

\* Mutant: an open that failed is not scheduled again.
OpenedOnce(n) ==
  IF n.stopped THEN {n}
  ELSE {[Joined(Numbered(n)) EXCEPT !.runtime = n.generation + 1]} \cup Failures(Numbered(n))

\* open()
Opened(n) ==
  IF n.stopped THEN {n}
  ELSE {[Joined(Numbered(n)) EXCEPT !.runtime = n.generation + 1]}
         \cup {Schedule(f) : f \in Failures(Numbered(n))}

\* start() of the supervisor
Begun(n) == IF n.runtime # 0 \/ n.timer \/ n.stopped THEN {n} ELSE Opened(n)

\* The end of connection c is heard: it is this supervisor's current one (an
\* open that failed made a generation of its own), and nobody stopped it.
Heard(n, c) == c = n.runtime /\ ~n.stopped

\* Mutant: the connection is closed and the supervisor left to itself.
SupervisorLeft(n, throws) ==
  IF throws THEN n ELSE [n EXCEPT !.runtime = 0, !.live = @ \ {n.runtime}]

\* stop(): the runtime's stop() closes its connection, or throws before it does.
SupervisorStopped(n, throws) ==
  LET quiet == [n EXCEPT !.stopped = TRUE, !.timer = FALSE]
  IN  IF n.stopped THEN n
      ELSE IF throws THEN quiet
      ELSE [quiet EXCEPT !.runtime = 0, !.live = @ \ {n.runtime}]

\* The server, the network or the bot itself ends a connection.
ConnectionEnds(c) ==
  /\ c \in net.live
  /\ net' = LET ended == [net EXCEPT !.live = @ \ {c}]
            IN  IF Heard(net, c) THEN Schedule([ended EXCEPT !.runtime = 0]) ELSE ended
  /\ UNCHANGED <<appVars, stopping, held, stuck, starts, asked>>

\* The reconnect timer fires.
Reconnect ==
  /\ net.timer /\ MayOpen(net)
  /\ net' \in Opened([net EXCEPT !.timer = FALSE])
  /\ UNCHANGED <<appVars, stopping, held, stuck, starts, asked>>

-----------------------------------------------------------------------------
(* The session's resources.  stop() and rollbackStartup() release them in  *)
(* the same order: supervisor, dashboard, database, lock; what throws is   *)
(* left behind and the others are released all the same.                   *)

StopNet(n, throws) ==
  /\ net' = SupervisorStopped(n, throws)
  /\ stuck' = IF throws THEN stuck \cup {"connection"} ELSE stuck

\* The part before the await: only the supervisor.
ReleaseConnection ==
  \E throws \in {t \in BOOLEAN : t => net.runtime # 0} : StopNet(net, throws)

\* Mutant: the first failure keeps the rest.
ReleaseUntilFailure(failing) ==
  /\ failing \subseteq held
  /\ held' = IF failing = {} THEN {} ELSE held
  /\ stuck' = stuck \cup failing

\* The part after it: failing is the set of those whose release throws.
ReleaseRest(failing) ==
  /\ failing \subseteq held
  /\ held' = {}
  /\ stuck' = stuck \cup failing

-----------------------------------------------------------------------------
(* The controller.                                                         *)

Disconnected(p) == phase' = p /\ shown' = "disconnected"

\* start(): openSession() takes the lock before its first await, or throws.
\* A call in any other phase returns the promise or the snapshot there is.
StartApp ==
  /\ starting = "no" /\ phase \notin {"running", "stopping"}
  /\ starts < MaxStarts
  /\ starts' = starts + 1
  /\ answered' = FALSE /\ pending' = "no" /\ asked' = FALSE
  /\ phase' = "starting" /\ shown' = "starting"
  /\ net' = NoSupervisor(net.generation, net.live, net.strays)
  /\ \/ "lock" \notin stuck /\ held' = {"lock"} /\ starting' = "auth"
     \/ held' = {} /\ starting' = "rollback"
  /\ UNCHANGED <<stopping, session, emergency, stuck>>

\* The sign-in is verified, the database opened and reconciled, the
\* supervisor and the dashboard created.
Assemble ==
  /\ starting = "auth"
  /\ held' = Resources \ {"connection"}
  /\ net' = [net EXCEPT !.stopped = FALSE]
  /\ starting' = "dashboard"
  /\ UNCHANGED <<phase, shown, stopping, answered, pending, session, emergency,
                 stuck, starts, asked>>

\* The sign-in, the database or a reconciliation throws.
AssembleFails ==
  /\ starting = "auth"
  /\ held' \in {held, held \cup {"database"}}
  /\ starting' = "rollback"
  /\ UNCHANGED <<phase, shown, stopping, answered, pending, session, emergency,
                 stuck, net, starts, asked>>

DashboardFails ==
  /\ starting = "dashboard"
  /\ starting' = "rollback"
  /\ ReleaseConnection
  /\ UNCHANGED <<phase, shown, stopping, answered, pending, session, emergency,
                 held, starts, asked>>

\* performTeardown() with a session, up to its await.
BeginTeardown(mode) ==
  /\ phase' = "stopping"
  /\ emergency' = (emergency \/ mode = "emergency")
  /\ \E throws \in {t \in BOOLEAN : t => net.runtime # 0} :
       /\ StopNet(net, throws)
       /\ stopping' = IF throws THEN "broken" ELSE "clean"

\* openSession() resolved: a stop that came meanwhile is carried out, ...
OpenedThenStopped ==
  /\ starting = "dashboard" /\ pending # "no" /\ MayOpen(net)
  /\ session' = TRUE /\ starting' = "teardown" /\ pending' = "no"
  /\ emergency' = (pending = "emergency")
  /\ phase' = "stopping"
  /\ \E n \in Begun(net), throws \in BOOLEAN :
       /\ throws => n.runtime # 0
       /\ StopNet(n, throws)
       /\ stopping' = IF throws THEN "broken" ELSE "clean"
  /\ UNCHANGED <<shown, answered, held, starts, asked>>

\* Mutant: a pending stop is looked at by nobody.
RunsAnyway ==
  /\ starting = "dashboard" /\ MayOpen(net)
  /\ session' = TRUE /\ emergency' = FALSE /\ starting' = "no"
  /\ net' \in Begun(net)
  /\ phase' = "running"
  /\ shown' = IF net'.runtime # 0 THEN "connected" ELSE "disconnected"
  /\ UNCHANGED <<stopping, answered, pending, held, stuck, starts, asked>>

\* ... else the app runs and polls, ...
OpenedAndRuns ==
  /\ starting = "dashboard" /\ pending = "no" /\ MayOpen(net)
  /\ session' = TRUE /\ emergency' = FALSE /\ starting' = "no"
  /\ net' \in Begun(net)
  /\ phase' = "running"
  /\ shown' = IF net'.runtime # 0 THEN "connected" ELSE "disconnected"
  /\ UNCHANGED <<stopping, answered, pending, held, stuck, starts, asked>>

\* ... or the session's start() throws and is undone.
StartThrows ==
  /\ starting = "dashboard"
  /\ session' = TRUE /\ emergency' = FALSE /\ starting' = "undo"
  /\ ReleaseConnection
  /\ UNCHANGED <<phase, shown, stopping, answered, pending, held, starts, asked>>

\* The end of runStart after a failure, once the session is closed again.
StartFailed ==
  /\ starting \in {"rollback", "undo"}
  /\ \E failing \in SUBSET held : ReleaseRest(failing)
  /\ starting' = "no" /\ session' = FALSE /\ pending' = "no"
  /\ Disconnected("failed")
  /\ UNCHANGED <<stopping, answered, emergency, net, starts, asked>>

\* Mutant: the caller is given a promise, and nothing is noted.
StopForgotten(mode) ==
  /\ phase = "starting" /\ starting # "no"
  /\ answered' = TRUE /\ asked' = TRUE
  /\ UNCHANGED <<phase, shown, starting, stopping, pending, session, emergency,
                 held, stuck, net, starts>>

\* ensureStartStopPromise(): a stop while runStart is under way.
StopDuringStart(mode) ==
  /\ phase = "starting" /\ starting # "no"
  /\ pending' = IF mode = "emergency" \/ pending = "no" THEN mode ELSE pending
  /\ answered' = TRUE /\ asked' = TRUE
  /\ UNCHANGED <<phase, shown, starting, stopping, session, emergency, held,
                 stuck, net, starts>>

\* stop() and emergencyStop() of a session that runs
StopRunning(mode) ==
  /\ ~(phase = "starting" /\ starting # "no")
  /\ ~answered /\ session
  /\ answered' = TRUE /\ asked' = TRUE
  /\ BeginTeardown(mode)
  /\ UNCHANGED <<shown, starting, pending, session, held, starts>>

\* emergencyStop() while a teardown is under way
Escalate ==
  /\ ~(phase = "starting" /\ starting # "no")
  /\ answered /\ session
  /\ emergency' = TRUE /\ asked' = TRUE
  /\ UNCHANGED <<phase, shown, starting, stopping, answered, pending, session,
                 held, stuck, net, starts>>

\* performTeardown() after the session's stop(); runStart returns with it
\* when it was the one that called.
TeardownDone ==
  /\ stopping # "no"
  /\ stopping' = "no" /\ session' = FALSE /\ emergency' = FALSE /\ pending' = "no"
  /\ starting' = "no"
  /\ \E failing \in SUBSET held :
       /\ ReleaseRest(failing)
       /\ Disconnected(IF failing = {} /\ stopping = "clean" THEN "stopped" ELSE "failed")
  /\ UNCHANGED <<answered, net, starts, asked>>

\* pollOnce(): only a running session is polled.
PollOnce ==
  /\ session /\ phase = "running"
  /\ shown' = IF net.runtime # 0 THEN "connected" ELSE "disconnected"
  /\ UNCHANGED <<phase, starting, stopping, answered, pending, session, emergency,
                 held, stuck, net, starts, asked>>

-----------------------------------------------------------------------------
Calls == StartApp \/ Escalate \/ \E m \in Modes : StopDuringStart(m) \/ StopRunning(m)

\* Awaits that end, well or not, and timers that fire.
Internal ==
  \/ Assemble \/ AssembleFails \/ DashboardFails \/ OpenedThenStopped
  \/ OpenedAndRuns \/ StartThrows \/ StartFailed \/ TeardownDone \/ Reconnect \/ PollOnce

HostNext == Calls \/ Internal \/ \E c \in Conns : ConnectionEnds(c)

HostSpec == HostInit /\ [][HostNext]_hostVars

\* What an await waits for ends (the sign-in and the dashboard have timeouts
\* of their own), so its continuation runs.
Fairness ==
  /\ WF_hostVars(Assemble \/ AssembleFails)
  /\ WF_hostVars(DashboardFails \/ OpenedThenStopped \/ OpenedAndRuns \/ StartThrows)
  /\ WF_hostVars(StartFailed) /\ WF_hostVars(TeardownDone)

HostFairSpec == HostSpec /\ Fairness

-----------------------------------------------------------------------------
\* At rest nothing of a session is left except what could not be released:
\* no lock, no database, no dashboard, no reconnect timer and no connection
\* but the strays (which nothing in reconnect.ts or connection.ts closes, so
\* they do outlive the session), and the app does not claim one
\* (performTeardown, rollbackStartup, session.stop: a partial failure must
\* not keep the rest).
RestLeavesNothing ==
  phase \in {"stopped", "failed"} =>
    /\ held = {} /\ ~session /\ ~net.timer /\ stopping = "no" /\ starting = "no"
    /\ net.live \subseteq net.strays \/ "connection" \in stuck
    /\ shown = "disconnected"

\* A stop asked for while the session was still opening is not lost: the app
\* does not come to run (ensureStartStopPromise, runStart).
StopOutlastsStart == asked => phase # "running"

\* Of the bots that the supervisor opened and got hold of, one is connected at
\* a time, however often the connection is lost, reopened and stopped, unless
\* one refused to stop: a second login would kick the first.  A stray is one
\* more, beside which the supervisor does open the next.
OneConnection ==
  "connection" \notin stuck => Cardinality(net.live \ net.strays) <= 1

\* A running app has a live connection or a reconnect to come: it never sits
\* with neither, nor with a connection that has ended.  And its emergency stop
\* has not been used up by an earlier session (emergencyInvoked).
NeverStranded ==
  phase = "running" =>
    /\ net.runtime \in net.live \/ net.timer
    /\ ~emergency

\* The app runs only when it is wanted, and then it does run.
RunsWhenWanted == StopOutlastsStart /\ NeverStranded

\* Whoever asks for a stop sees the app come to rest.
StopComesToRest == asked ~> (phase \in {"stopped", "failed"} \/ ~asked)
=============================================================================
