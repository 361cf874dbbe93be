----------------------------- MODULE Connection -----------------------------
(***************************************************************************)
(* The runtime of one connection (runtime/connection.ts, bot/events.ts,    *)
(* bot/client.ts): what is started when the bot stands in the world, what  *)
(* a death takes away, what the end of the connection closes, and the      *)
(* queue through which everything is said (bot/sendQueue.ts).              *)
(*                                                                         *)
(* The operators take the record of one connection and give its records    *)
(* after an event; HostedConnections says which connections there are and  *)
(* when they end.                                                          *)
(***************************************************************************)
EXTENDS Naturals, Sequences

CONSTANT MaxLines   \* bound: lines that wait in a send queue

\* A line is the configured join command or anything else that is said.
Lines    == {"join", "talk"}
Services == {"terrain", "construction", "missions", "events", "idle"}
Engines  == {"new", "on", "suspended", "stopped"}

Runtimes ==
  [alive     : BOOLEAN,            \* the bot stands in the world, as it was told
   judged    : BOOLEAN,            \* the journal was reconciled in this life
   engine    : Engines,            \* the task engine
   timers    : SUBSET {"supply", "farms"},
   services  : SUBSET Services,
   joinSent  : BOOLEAN,            \* joinCommandSent
   joins     : Nat,                \* history: join commands the server got
   lines     : Seq(Lines),         \* the send queue; the first line may be
   paced     : BOOLEAN,            \* waiting for its second to pass
   disposed  : BOOLEAN,
   spoke     : BOOLEAN]            \* history: said something once disposed

\* createConnectionRuntime: the services that need no bot in the world start
\* at once; the terrain recorder, the engine and the schedulers do not.
Fresh == [alive |-> FALSE, judged |-> FALSE, engine |-> "new",
          timers |-> {}, services |-> Services \ {"terrain"},
          joinSent |-> FALSE, joins |-> 0, lines |-> <<>>, paced |-> FALSE,
          disposed |-> FALSE, spoke |-> FALSE]

\* createConnectionRuntime threw when the bot was there: the services that it
\* had started by then go on, and no end of the bot closes anything.
HalfMade ==
  {[Fresh EXCEPT !.services = s] :
     s \in {{}, {"construction"}, {"construction", "missions"},
            {"construction", "missions", "events"}}}

-----------------------------------------------------------------------------
(* bot/sendQueue.ts                                                        *)

\* send(): whatever the queue's state, the line waits for the ones before it.
Sends(k, line) == [k EXCEPT !.lines = Append(@, line)]

Emptied(k) == [k EXCEPT !.lines = Tail(@), !.paced = FALSE]

\* The head's turn comes: a closed queue drops it; else it may have to wait
\* until a second has passed since the last one.
Paced(k) == IF k.disposed THEN Emptied(k) ELSE [k EXCEPT !.paced = TRUE]

\* The rejection of the join command's send() arms it again.
Refused(k) == IF Head(k.lines) = "join" THEN [Emptied(k) EXCEPT !.joinSent = FALSE]
              ELSE Emptied(k)

\* Mutant: the queue is not looked at again after the wait.
SaidAfterAll(k) ==
  {[Emptied(k) EXCEPT !.spoke = @ \/ k.disposed,
                      !.joins = @ + (IF Head(k.lines) = "join" THEN 1 ELSE 0)],
   Emptied(k), Refused(k)}

\* bot.chat(), or nothing when the protocol has no chat yet or any more, or an
\* exception; or the queue was closed during the wait.
Said(k) ==
  IF k.disposed THEN {Emptied(k)}
  ELSE {[Emptied(k) EXCEPT !.joins = @ + (IF Head(k.lines) = "join" THEN 1 ELSE 0)],
        Emptied(k), Refused(k)}

-----------------------------------------------------------------------------
(* The handlers of the bot's events: bot/events.ts, then the runtime's own. *)

\* The first half of the spawn handler.
\* (mutant: the flag is raised by the answer)
ArrivedUnmarked(k) ==
  LET joined == IF k.joinSent THEN k ELSE Sends(k, "join")
  IN  [joined EXCEPT !.alive = TRUE, !.services = @ \cup {"terrain"}]

Arrived(k) ==
  LET joined == IF k.joinSent THEN k ELSE [Sends(k, "join") EXCEPT !.joinSent = TRUE]
  IN  [joined EXCEPT !.alive = TRUE, !.services = @ \cup {"terrain"}]

\* start() once, resumeExecution() ever after; both schedulers start once.
Resumed(k) ==
  [k EXCEPT !.judged = TRUE,
            !.engine = IF @ = "stopped" THEN @ ELSE "on",
            !.timers = {"supply", "farms"}]

\* The second half: nothing starts in a dimension that is not known, or while
\* the journal cannot be reconciled.  (mutant: a failure is only logged)
SpawnedAnyway(k) == {Arrived(k), [Resumed(Arrived(k)) EXCEPT !.judged = k.judged],
                     Resumed(Arrived(k))}
Spawned(k) == {Arrived(k), Resumed(Arrived(k))}

Died(k) ==
  [k EXCEPT !.alive = FALSE, !.judged = FALSE, !.timers = {},
            !.engine = IF @ = "on" THEN "suspended" ELSE @]

\* Mutant: the farm scheduler is forgotten.
DisposedButFarms(k) ==
  [k EXCEPT !.disposed = TRUE, !.timers = @ \ {"supply"}, !.services = {},
            !.engine = "stopped"]

\* dispose(), once, whether the bot's end or a stop() calls it.
Disposed(k) ==
  IF k.disposed THEN k
  ELSE [k EXCEPT !.disposed = TRUE, !.timers = {}, !.services = {}, !.engine = "stopped"]

\* What an ended runtime remembers of its life no longer matters.
Ended(k) == [Disposed(k) EXCEPT !.alive = FALSE, !.judged = FALSE, !.joinSent = FALSE,
                                !.joins = 0]

-----------------------------------------------------------------------------
\* What a step of its own may do to a connection that is live.  The handlers
\* of spawn and death are registered after the mission service has started,
\* whoever speaks after the event service.
MaySpawn(k) == "missions" \in k.services /\ (k.joinSent \/ Len(k.lines) < MaxLines)
MayDie(k)   == k.alive
MaySend(k)  == "events" \in k.services /\ Len(k.lines) < MaxLines

\* The runtime works in the world's name.
Serves(k) == k.engine = "on" \/ k.timers # {} \/ k.services # {}
\* It does durable work.
Works(k)  == k.engine = "on" \/ k.timers # {}
=============================================================================
