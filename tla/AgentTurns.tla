----------------------------- MODULE AgentTurns -----------------------------
(***************************************************************************)
(* From a trigger on the bus to the tools it ends in: the trigger queue    *)
(* (agent/triggerQueue.ts), the session's turn (agent/session.ts), the two *)
(* clients that the repository writes itself (agent/codexClient.ts and     *)
(* agent/openrouterClient.ts), and the guard around every tool             *)
(* (permissions/toolAuthorization.ts).                                     *)
(*                                                                         *)
(* Every tool reads one shared object to know whom it serves.  The Codex   *)
(* client is told of tool calls by another process, which knows nothing of *)
(* turns that have ended; the OpenRouter client runs the calls of one      *)
(* answer itself, and looks at its signal only when it asks again.         *)
(***************************************************************************)
EXTENDS Naturals, Sequences, FiniteSets

CONSTANTS MaxDepth,   \* maxDepth: turns in flight and waiting
          MaxCalls,   \* tool calls that one turn may make
          MaxTurns,   \* bound: triggers accepted
          MaxStops    \* bound: emergency stops

ASSUME AgentAssumption == MaxDepth \in Nat \ {0} /\ MaxCalls \in Nat
                          /\ MaxTurns \in Nat /\ MaxStops \in Nat

VARIABLES client,     \* the provider of the profile
          by,         \* who asked for each accepted trigger
          queue,      \* the turns that wait
          turn,       \* the turn in flight: its closure and that of sendMessage
          actor,      \* actorContext
          guest,      \* the guest's row in player_roles
          ready,      \* readyPromise of the Codex client
          broken,     \* the app-server has failed
          closed,     \* the connection's services are disposed of
          threads,    \* turns the app-server was asked for: it may call for any
          began,      \* history: the role each turn began with
          ran,        \* history: the tools that ran
          stops

codexVars == <<ready, broken, threads>>
turnVars == <<client, by, queue, turn, actor, guest, ready, broken, closed,
          threads, began, ran, stops>>

Turns   == 1..MaxTurns
People  == {"owner", "guest"}
Roles   == {"viewer", "operator", "owner"}
Rank    == [viewer |-> 0, operator |-> 1, owner |-> 2]
Stages  == {"none", "connect", "thread", "start", "stream", "ask", "calls", "over"}
Codex   == {"connect", "thread", "start", "stream"}

NoTurn == [no |-> 0, stage |-> "none", aborted |-> FALSE, active |-> 0,
           named |-> FALSE, ended |-> FALSE, calls |-> 0, batch |-> 0,
           handling |-> FALSE]

Turn == [no : 0..MaxTurns, stage : Stages, aborted : BOOLEAN, active : 0..MaxTurns,
         named : BOOLEAN, ended : BOOLEAN, calls : 0..(MaxCalls + 1),
         batch : 0..(MaxCalls + 1), handling : BOOLEAN]

TurnsTypeOK ==
  /\ client \in {"codex", "openrouter"} /\ by \in Seq(People) /\ Len(by) <= MaxTurns
  /\ queue \in Seq(Turns) /\ turn \in Turn
  /\ actor \in [name : People, role : Roles] /\ guest \in Roles \ {"owner"}
  /\ ready \in {"no", "busy", "yes", "failed"} /\ broken \in BOOLEAN /\ closed \in BOOLEAN
  /\ threads \subseteq Turns /\ began \in [Turns -> Roles \cup {"none"}]
  /\ ran \subseteq [turn : Turns, name : People, need : Roles] /\ stops \in 0..MaxStops

TurnsInit ==
  /\ client \in {"codex", "openrouter"} /\ by = <<>> /\ queue = <<>> /\ turn = NoTurn
  /\ actor = [name |-> "owner", role |-> "owner"] /\ guest \in Roles \ {"owner"}
  /\ ready = "no" /\ broken = FALSE /\ closed = FALSE /\ threads = {}
  /\ began = [n \in Turns |-> "none"] /\ ran = {} /\ stops = 0

-----------------------------------------------------------------------------
(* The queue, and the turn up to its first await.                          *)

RoleOf(who) == IF who = "owner" THEN "owner" ELSE guest

\* sendMessage of a client that is closed, or could not be made ready once,
\* throws at once.
FirstStage == IF client = "openrouter" THEN "ask"
              ELSE IF closed \/ broken \/ ready = "failed" THEN "over"
              ELSE IF ready = "yes" THEN "thread" ELSE "connect"

\* handleTrigger: whom the tools serve from now on is set before anything else.
Begin(n, who) ==
  /\ actor' = [name |-> who, role |-> RoleOf(who)]
  /\ began' = [began EXCEPT ![n] = RoleOf(who)]
  /\ turn' = [NoTurn EXCEPT !.no = n, !.stage = FirstStage]
  /\ ready' = IF FirstStage = "connect" THEN "busy" ELSE ready

Busy == turn.no # 0
Full == Len(queue) + (IF Busy THEN 1 ELSE 0) >= MaxDepth

Trigger(who) ==
  /\ Len(by) < MaxTurns /\ ~Full
  /\ by' = Append(by, who)
  /\ IF Busy
     THEN queue' = Append(queue, Len(by) + 1) /\ UNCHANGED <<turn, actor, began, ready>>
     ELSE Begin(Len(by) + 1, who) /\ UNCHANGED queue
  /\ UNCHANGED <<client, guest, broken, closed, threads, ran, stops>>

EndTurn ==
  /\ turn.stage = "over"
  /\ IF queue = <<>>
     THEN turn' = NoTurn /\ UNCHANGED <<queue, actor, began, ready>>
     ELSE Begin(Head(queue), by[Head(queue)]) /\ queue' = Tail(queue)
  /\ UNCHANGED <<client, by, guest, broken, closed, threads, ran, stops>>

-----------------------------------------------------------------------------
(* Tools.  What a tool asks for besides its role does not matter here, but *)
(* that one of the owner's changes the guest's role.                       *)

Allowed(role, need) == Rank[role] >= Rank[need]

RunTool(n, need) ==
  IF Allowed(actor.role, need)
  THEN /\ ran' = ran \cup {[turn |-> n, name |-> actor.name, need |-> need]}
       /\ guest' \in IF need = "owner" THEN Roles \ {"owner"} ELSE {guest}
  ELSE UNCHANGED <<ran, guest>>

-----------------------------------------------------------------------------
(* The Codex client.                                                       *)

Over(t) == [t EXCEPT !.stage = "over", !.active = 0]

Goes(stage, t) ==
  /\ turn.stage = stage /\ turn' = t
  /\ UNCHANGED <<client, by, queue, actor, guest, broken, closed, began, ran, stops>>

\* ensureReady: the outcome is kept for as long as the client lives.
Connected == Goes("connect", [turn EXCEPT !.stage = "thread"])
             /\ ready' = "yes" /\ UNCHANGED threads
ConnectFails == Goes("connect", Over(turn)) /\ ready' = "failed" /\ UNCHANGED threads

ThreadStarted ==
  /\ Goes("thread", [turn EXCEPT !.stage = "start", !.active = turn.no])
  /\ threads' = threads \cup {turn.no} /\ UNCHANGED ready

\* The answer to turn/start; from here on the signal is listened to.
\* (mutant: a signal that was aborted already is not seen)
ListeningLate(t) == IF t.ended THEN Over(t)
                    ELSE [t EXCEPT !.stage = "stream", !.named = TRUE]

Listening(t) == IF t.aborted \/ t.ended THEN Over(t)
                ELSE [t EXCEPT !.stage = "stream", !.named = TRUE]
TurnStarted == Goes("start", Listening(turn)) /\ UNCHANGED <<ready, threads>>

\* A request is refused, or not answered within 15 s.
RequestFails == \E s \in {"thread", "start"} : Goes(s, Over(turn)) /\ UNCHANGED <<ready, threads>>

\* turn/completed, which may overtake the answer to turn/start.
TurnCompleted ==
  \/ Goes("stream", Over(turn)) /\ UNCHANGED <<ready, threads>>
  \/ Goes("start", [turn EXCEPT !.ended = TRUE]) /\ UNCHANGED <<ready, threads>>

\* item/tool/call for the thread of turn n.  The handler is not awaited by the
\* turn, and what the app-server is told does not matter here.
\* (mutant: any turn's call is the active one's)
AcceptedAny(n) == turn.active # 0

Accepted(n) == turn.active # 0 /\ turn.active = n

ToolCall(n, need) ==
  /\ n \in threads /\ Accepted(n) /\ turn.calls <= MaxCalls
  /\ turn' = [turn EXCEPT !.calls = @ + 1]
  /\ IF turn.calls < MaxCalls THEN RunTool(n, need) ELSE UNCHANGED <<ran, guest>>
  /\ UNCHANGED <<client, by, queue, actor, ready, broken, closed, threads, began, stops>>

\* The child exits or writes a line that is not JSON: every request and the
\* turn's events fail, now and ever after.
Failing(t) == IF t.stage \in Codex THEN Over(t) ELSE t
Breaks ==
  /\ ready \in {"busy", "yes"} /\ ~broken /\ broken' = TRUE
  /\ turn' = Failing(turn) /\ ready' = IF ready = "busy" THEN "failed" ELSE ready
  /\ UNCHANGED <<client, by, queue, actor, guest, closed, threads, began, ran, stops>>

-----------------------------------------------------------------------------
(* The OpenRouter client.                                                  *)

Stays == UNCHANGED <<client, by, queue, actor, ready, broken, closed, threads, began, stops>>

\* An answer of the model with k tool calls, none of which ends the turn.
Answered(k) ==
  /\ turn.stage = "ask" /\ ~turn.aborted
  /\ turn' = IF k = 0 THEN Over(turn) ELSE [turn EXCEPT !.stage = "calls", !.batch = k]
  /\ Stays /\ UNCHANGED <<ran, guest>>

AskFails ==
  /\ turn.stage = "ask" /\ turn' = Over(turn) /\ Stays /\ UNCHANGED <<ran, guest>>

NextCall(need) ==
  /\ turn.stage = "calls" /\ ~turn.handling /\ turn.batch > 0
  /\ IF turn.calls < MaxCalls
     THEN /\ turn' = [turn EXCEPT !.calls = @ + 1, !.batch = @ - 1, !.handling = TRUE]
          /\ RunTool(turn.no, need)
     ELSE turn' = Over(turn) /\ UNCHANGED <<ran, guest>>
  /\ Stays

\* fetch rejects at once when its signal is aborted already.
ToolAnswers ==
  /\ turn.handling
  /\ turn' = IF turn.batch > 0 THEN [turn EXCEPT !.handling = FALSE]
             ELSE IF turn.aborted THEN Over([turn EXCEPT !.handling = FALSE])
             ELSE [turn EXCEPT !.handling = FALSE, !.stage = "ask"]
  /\ Stays /\ UNCHANGED <<ran, guest>>

-----------------------------------------------------------------------------
(* Time, stop and the end of the connection.                               *)

\* What hears the signal: the Codex stream and a pending fetch.  All else goes
\* on to where it next looks.
AbortedTurn(t) == IF t.stage \in {"stream", "ask"} THEN [Over(t) EXCEPT !.aborted = TRUE]
                  ELSE [t EXCEPT !.aborted = Busy]

TurnTimeout ==
  /\ Busy /\ turn.stage # "over" /\ ~turn.aborted /\ turn' = AbortedTurn(turn)
  /\ Stays /\ UNCHANGED <<ran, guest>>

\* emergencyStop: clearTriggers, then cancelAgent.
EmergencyStop ==
  /\ ~closed /\ stops < MaxStops /\ stops' = stops + 1
  /\ queue' = <<>> /\ turn' = AbortedTurn(turn)
  /\ UNCHANGED <<client, by, actor, guest, ready, broken, closed, threads, began, ran>>

\* agent.close(), when the connection is disposed of.  The queue is not cleared.
ClosedTurn(t) == IF client = "codex" THEN Failing([t EXCEPT !.aborted = Busy]) ELSE AbortedTurn(t)
Close ==
  /\ ~closed /\ closed' = TRUE
  /\ turn' = ClosedTurn(turn) /\ ready' = IF ready = "busy" THEN "failed" ELSE ready
  /\ UNCHANGED <<client, by, queue, actor, guest, broken, threads, began, ran, stops>>

TurnsNext ==
  \/ \E who \in People : Trigger(who)
  \/ EndTurn
  \/ Connected \/ ConnectFails \/ ThreadStarted \/ TurnStarted \/ RequestFails
  \/ TurnCompleted \/ Breaks
  \/ \E n \in Turns, need \in Roles : ToolCall(n, need)
  \/ \E k \in 0..(MaxCalls + 1) : Answered(k)
  \/ AskFails \/ ToolAnswers
  \/ \E need \in Roles : NextCall(need)
  \/ TurnTimeout \/ EmergencyStop \/ Close

TurnsSpec == TurnsInit /\ [][TurnsNext]_turnVars

\* Timers fire, and what the event loop has ready runs.  Nothing is asked of the
\* model, of the app-server or of a tool's handler.
Settles == Connected \/ ConnectFails \/ ThreadStarted \/ TurnStarted \/ RequestFails
FairSpec == TurnsSpec /\ WF_turnVars(EndTurn) /\ WF_turnVars(Settles) /\ WF_turnVars(TurnTimeout)
                 /\ WF_turnVars(\E need \in Roles : NextCall(need))

-----------------------------------------------------------------------------
(* Every tool that ran did so in the name of the one whose trigger began   *)
(* the turn that asked for it, and was allowed to the role that turn began *)
(* with, although one object holds the requester of all turns and the      *)
(* app-server's calls arrive when they like.                               *)
RightActor == \A r \in ran : r.name = by[r.turn] /\ Allowed(began[r.turn], r.need)

(* Every accepted trigger has its turn ended or is discarded by a stop,    *)
(* whatever the provider does: a turn cancelled while its thread is being  *)
(* made ends too.  Only a tool that never answers can hold the queue, with *)
(* the client that awaits its tools.                                       *)
Waiting(n) == n = turn.no \/ \E i \in DOMAIN queue : queue[i] = n
TurnsEnd == ([]<>(~turn.handling)) => \A n \in Turns : Waiting(n) ~> ~Waiting(n)

(* Once the connection is closed, its Codex client runs no tool, whatever  *)
(* the dying app-server still writes and the queue still holds.            *)
ClosedCodexIsSilent == [][closed /\ client = "codex" => ran' = ran /\ guest' = guest]_turnVars

=============================================================================
