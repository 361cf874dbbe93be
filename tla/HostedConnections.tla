-------------------------- MODULE HostedConnections --------------------------
(***************************************************************************)
(* The application (Host) with the runtimes of its connections             *)
(* (Connection): createConnectionRuntime is what the supervisor calls to   *)
(* open one, its stop() what the supervisor's stop() calls, and the end of *)
(* the bot what both are told of.                                          *)
(***************************************************************************)
EXTENDS Host, Sequences

CONSTANT MaxLines   \* bound: lines that wait in a send queue

ASSUME ConnectionAssumption == MaxLines \in Nat

VARIABLE conn   \* the runtime of each connection there was

C == INSTANCE Connection

Ids == Conns \ {0}
allVars == <<hostVars, conn>>

HostedTypeOK == HostTypeOK /\ conn \in [Ids -> C!Runtimes]

HostedInit == HostInit /\ conn = [c \in Ids |-> C!Disposed(C!Fresh)]

\* What a step of the application does to the runtimes: one that is new
\* starts, or is left behind half made, as left; the one whose end is heard or
\* that is stopped is disposed of, also when its stop() then throws before it
\* disconnects; a stray is not told of its end.
Followed(left) ==
  LET opened(c)  == IF c \notin net'.live \ net.live THEN conn[c]
                    ELSE IF c \in net'.strays THEN left ELSE C!Fresh
      ended(c)   == IF c \in net.strays THEN conn[c] ELSE C!Ended(conn[c])
      stopped(c) == c \in {net.runtime, net'.runtime} /\ net'.stopped /\ ~net.stopped
  IN  [c \in Ids |-> IF c \in net.live \ net'.live THEN ended(c)
                     ELSE IF stopped(c) THEN C!Disposed(opened(c)) ELSE opened(c)]

HostStep == HostNext /\ conn' \in {Followed(left) : left \in C!HalfMade}

-----------------------------------------------------------------------------
\* A step of one runtime; a bot that was stopped tells nothing more.
Live(c) == c \in net.live /\ ~conn[c].disposed
Becomes(c, records) ==
  /\ \E k \in records : conn' = [conn EXCEPT ![c] = k]
  /\ UNCHANGED hostVars

\* Login, respawn after a death, or a change of dimension.
Spawn(c) == Live(c) /\ C!MaySpawn(conn[c]) /\ Becomes(c, C!Spawned(conn[c]))
Death(c) == Live(c) /\ C!MayDie(conn[c]) /\ Becomes(c, {C!Died(conn[c])})

\* A tool, an event rule or a person at the keyboard says something; tools of
\* a turn that outlives its connection as well.
Talk(c)  == Live(c) /\ C!MaySend(conn[c]) /\ Becomes(c, {C!Sends(conn[c], "talk")})
Pace(c)  == conn[c].lines # <<>> /\ ~conn[c].paced /\ Becomes(c, {C!Paced(conn[c])})
Say(c)   == conn[c].lines # <<>> /\ conn[c].paced /\ Becomes(c, C!Said(conn[c]))

HostedNext ==
  HostStep \/ \E c \in Ids : Spawn(c) \/ Death(c) \/ Talk(c) \/ Pace(c) \/ Say(c)

HostedSpec == HostedInit /\ [][HostedNext]_allVars /\ Fairness

-----------------------------------------------------------------------------
\* Of the runtimes that were made whole one serves the world: only the
\* connection that the supervisor holds has timers, services and an engine
\* that runs.  Of all of them, the strays too: each does durable work only
\* while its bot stands in the world, as far as it is told, and its journal was
\* reconciled in this life; what was closed says nothing more; and a server is
\* joined by its command once (spawn, death and dispose of connection.ts,
\* sendQueue.ts).
OneRuntimeServes ==
  \A c \in Ids :
    /\ c \notin net.strays /\ C!Serves(conn[c]) => c = net.runtime /\ ~net.stopped
    /\ C!Works(conn[c]) => conn[c].alive /\ conn[c].judged
    /\ ~conn[c].spoke
    /\ conn[c].joins <= 1
=============================================================================
