------------------------------ MODULE Movement ------------------------------
(***************************************************************************)
(* How the bot moves: the walk with its recoveries and the two ways to     *)
(* follow a player (src/skills/pathfinder.ts, src/skills/flight.ts), the   *)
(* skills that go somewhere (src/skills/navigation, surveyArea.ts,         *)
(* pickupNearby.ts), those that use a block once they are there            *)
(* (activateBlock.ts, sleep.ts, src/world/reach.ts), those that have       *)
(* collectblock gather for them (src/skills/collectblock.ts, in            *)
(* resources/mineUntil.ts and chopTrees.ts), the setFlight tool and the    *)
(* emergency stop.                                                         *)
(*                                                                         *)
(* All of them share one body: the pathfinder's goal and the flight state. *)
(* The runner aborts the active run and starts the next one in the same    *)
(* breath; what the aborted one still has to do, it does afterwards.       *)
(***************************************************************************)
EXTENDS Integers

CONSTANTS
  Invocations, \* the active run of a skill and aborted ones
  Entities,  \* the objects that stand for the followed player, one after another
  Kinds,     \* what may stand where a block is to be used
  Bed,       \* one of them
  Gone,      \* nothing stands there
  Profiles,  \* RECOVERY_PROFILES.length
  MaxDrops   \* items on the ground, or blocks to gather

ASSUME MovementAssumption ==
  /\ Bed \in Kinds /\ Gone \notin Kinds
  /\ Profiles \in Nat \ {0} /\ MaxDrops \in Nat
  /\ {"none", "left"} \cap Invocations = {}

VARIABLES
  run,      \* the invocations and where their handlers wait
  body,     \* the pathfinder's goal, flightEnabled, flightMotionActive, the flying flag
  tool,     \* setFlight, waiting for the answer to /fly or for the take-off
  target,   \* the followed player
  place,    \* the block to be used or to place against
  surveyed  \* the survey is in the world map

moveVars == <<run, body, tool, target, place, surveyed>>

(* A handler waits for the pathfinder ("walk"), between two tries          *)
(* ("pause"), for creative.flyTo ("fly", and "descend" beside a player who *)
(* has landed), for the monitor of a follow ("track"), between two looks   *)
(* of an adaptive one ("pace"), for its click, or for collectblock         *)
(* ("collect": its first try when tries = 0, its second when 1).           *)
Blank(e, k) ==
  [skill |-> "none", at |-> "idle", aborted |-> FALSE, tries |-> 0, drops |-> 0,
   mode |-> "none", whom |-> e, lost |-> FALSE, saw |-> k]

NoRun == Blank(CHOOSE e \in Entities : TRUE, CHOOSE k \in Kinds : TRUE)

MoveInit ==
  /\ run = [r \in Invocations |-> NoRun]
  /\ body = [goal |-> "none", enabled |-> FALSE, motion |-> FALSE, flying |-> FALSE]
  /\ tool = "none"
  /\ target \in [who : Entities, how : {"ground"}]
  /\ place \in Kinds
  /\ surveyed = FALSE

-----------------------------------------------------------------------------
(***************************************************************************)
(* Aborts.                                                                 *)
(***************************************************************************)
Active(r) == run[r].skill # "none" /\ ~run[r].aborted

(* The signal is listened to in a walk, a pause, a follow and its pace:    *)
(* the handler goes on before anything else happens.  flyTo(), a click and *)
(* collect() do not hear it.                                               *)
Unwinding(r) == run[r].aborted /\ run[r].at \in {"walk", "pause", "track", "pace"}

Quiet == \A r \in Invocations : ~Unwinding(r)

(* Mutant of GoalAfterStop: the goal is left to whoever comes next.        *)
GoalKept == body.goal

(* onAbort() of a walk and finish() of a follow, within abort() itself.    *)
GoalAfterStop ==
  IF \E r \in Invocations : Active(r) /\ run[r].at \in {"walk", "track"} THEN "none" ELSE body.goal

Stopped     == [r \in Invocations |-> IF Active(r) THEN [run[r] EXCEPT !.aborted = TRUE] ELSE run[r]]
StoppedBody == [body EXCEPT !.goal = GoalAfterStop]

(* A step of one handler leaves run rs and body b behind, but for r.       *)
Ends(r, rs, b)     == run' = [rs EXCEPT ![r] = NoRun] /\ body' = b /\ UNCHANGED surveyed
Waits(r, o, rs, b) == run' = [rs EXCEPT ![r] = o] /\ body' = b /\ UNCHANGED surveyed

Free(b)  == [b EXCEPT !.goal = "none"]
Aloft(b) == [b EXCEPT !.motion = TRUE, !.flying = TRUE]        \* resumeFlight()
Landed(b) == [b EXCEPT !.motion = FALSE, !.flying = FALSE]     \* suspendFlight()

(* The finally of an adaptive follow; a walk and a follow on foot have     *)
(* cleared the goal already.                                               *)
GoalAfterUnwind(r) == IF run[r].at = "pace" THEN "none" ELSE body.goal

Unwind(r) ==
  /\ Unwinding(r)
  /\ Ends(r, run, [body EXCEPT !.goal = GoalAfterUnwind(r)])
  /\ UNCHANGED <<tool, target, place>>

-----------------------------------------------------------------------------
(***************************************************************************)
(* Using a block, once it is in reach.                                     *)
(***************************************************************************)
(* findPlacementReference(): there is a block to place against.            *)
Reference == place # Gone

(* Mutant of Fits: the look before the walk is relied upon.                *)
FitsAsItDid(o) == TRUE

(* The rereads after the walk.                                             *)
Fits(o) == IF o.skill = "place" THEN Reference ELSE place = o.saw

(* A chunk that cannot be read ends the run as well.                       *)
Clicks(r, o, rs, b) ==
  \/ Fits(o) /\ Waits(r, [o EXCEPT !.at = "click", !.tries = 0], rs, b)
  \/ Ends(r, rs, b)

ClickReturns(r) ==
  /\ Quiet /\ run[r].at = "click"
  /\ Ends(r, run, body)
  /\ UNCHANGED <<tool, target, place>>

-----------------------------------------------------------------------------
(***************************************************************************)
(* The walk: pathfindTo() and gotoWithAbort().                             *)
(***************************************************************************)
SetsOut(r, o, rs, b) ==
  Waits(r, [o EXCEPT !.at = "walk", !.tries = @ + 1], rs, [b EXCEPT !.goal = r])

(* A path that is not found leaves its goal with the pathfinder.           *)
LeavesGoal(r, b) == [b EXCEPT !.goal = IF @ = r THEN "left" ELSE @]

NextDrop(r, o, b) ==
  IF o.drops > 1 THEN SetsOut(r, [o EXCEPT !.drops = @ - 1, !.tries = 0], run, b)
  ELSE Ends(r, run, LeavesGoal(r, b))

Surveys(r, rs, b) == run' = [rs EXCEPT ![r] = NoRun] /\ body' = b /\ surveyed' = TRUE

(* The plugin is asked to collect a block.                                 *)
Collects(r, o, rs, b) == Waits(r, [o EXCEPT !.at = "collect"], rs, b)

WalkArrives(r) ==
  /\ Quiet /\ run[r].at = "walk" /\ body.goal = r
  /\ CASE run[r].skill = "goto"             -> Ends(r, run, Free(body))
       [] run[r].skill = "survey"           -> Surveys(r, run, Free(body))
       [] run[r].skill \in {"use", "place"} -> Clicks(r, run[r], run, Free(body))
       [] run[r].skill = "pickup"           -> NextDrop(r, run[r], Free(body))
       [] run[r].skill = "gather"           -> Collects(r, [run[r] EXCEPT !.tries = 1], run, Free(body))
  /\ UNCHANGED <<tool, target, place>>

(* No path, or no answer in time: the goal is dropped for a moment and the *)
(* next profile tried.  A goal that somebody else changed is not tried     *)
(* again.  A drop that cannot be reached is passed over.                   *)
Retries(r) == body.goal = r /\ run[r].tries < Profiles

PathFails(r) ==
  /\ Quiet /\ run[r].at = "walk"
  /\ IF Retries(r) THEN Waits(r, [run[r] EXCEPT !.at = "pause"], run, Free(body))
     ELSE IF run[r].skill = "pickup" THEN NextDrop(r, run[r], body)
     ELSE Ends(r, run, LeavesGoal(r, body))
  /\ UNCHANGED <<tool, target, place>>

PauseEnds(r) ==
  /\ Quiet /\ run[r].at = "pause"
  /\ SetsOut(r, run[r], run, body)
  /\ UNCHANGED <<tool, target, place>>

-----------------------------------------------------------------------------
(***************************************************************************)
(* Gathering: collectBlockWithRecovery() in the loops of mineUntil and     *)
(* chopTrees.                                                              *)
(***************************************************************************)
(* collect() walks to the block and to its drop with goals of its own,     *)
(* stopped or not: the signal is not handed to it.                         *)
CollectWalks(r) ==
  /\ Quiet /\ run[r].at = "collect" /\ body.goal # r
  /\ Waits(r, run[r], run, [body EXCEPT !.goal = r])
  /\ UNCHANGED <<tool, target, place>>

(* setFlightEnabled(bot, isFlightEnabled()), after the plugin's movements. *)
Collected(r) == [body EXCEPT !.goal = IF @ = r THEN "none" ELSE @, !.motion = body.enabled]

NextBlock(r, o, b) ==
  \/ Ends(r, run, b)
  \/ /\ o.drops > 1 /\ ~o.aborted
     /\ Collects(r, [o EXCEPT !.drops = @ - 1, !.tries = 0], run, b)

(* The block is gathered and the signal looked at again; or collect() has  *)
(* thrown, and a first try that found no path is repeated from nearby.     *)
CollectReturns(r) ==
  /\ Quiet /\ run[r].at = "collect"
  /\ \/ NextBlock(r, run[r], Collected(r))
     \/ Ends(r, run, LeavesGoal(r, body))
     \/ run[r].tries = 0 /\ ~run[r].aborted /\ SetsOut(r, run[r], run, body)
  /\ UNCHANGED <<tool, target, place>>

-----------------------------------------------------------------------------
(***************************************************************************)
(* The flight, and the adaptive follow, which flies while its player does. *)
(***************************************************************************)
FollowEnds(r, rs, b) == Ends(r, rs, Free(b))

(* On the ground, beside the player: gravity again, and the pathfinder.    *)
Lands(r, o, rs, b) ==
  Waits(r, [o EXCEPT !.at = "pace", !.mode = "ground"], rs, [Landed(b) EXCEPT !.goal = r])

(* What is done on arrival, in the air.  The abort is not looked at: the   *)
(* loop of flyToPosition() tests the distance first.                       *)
Flown(r, o, rs, b) ==
  IF o.skill = "goto" THEN Ends(r, rs, b)
  ELSE IF o.skill = "survey" THEN Surveys(r, rs, b)
  ELSE IF o.at = "fly" THEN Waits(r, [o EXCEPT !.at = "pace"], rs, b)
  ELSE Lands(r, o, rs, b)

(* flyToPosition(): refused unless flight is enabled; it may be there.     *)
Flies(r, o, rs, b) ==
  IF ~b.enabled THEN IF o.skill = "follow" THEN FollowEnds(r, rs, b) ELSE Ends(r, rs, b)
  ELSE Waits(r, o, rs, Aloft(b)) \/ Flown(r, o, rs, Aloft(b))

(* creative.flyTo() returns, there, half-way, or without having moved.     *)
FlightEnds(r) ==
  /\ Quiet /\ run[r].at \in {"fly", "descend"}
  /\ \/ Flown(r, run[r], run, body)
     \/ IF run[r].skill = "follow" THEN FollowEnds(r, run, body) ELSE Ends(r, run, body)
  /\ UNCHANGED <<tool, target, place>>

(* One look of adaptiveFollowUntilAborted().                               *)
Looks(r, o, rs, b) ==
  LET found == [o EXCEPT !.lost = FALSE, !.whom = target.who]
  IN CASE target.how = "missing" ->
            \/ o.lost /\ FollowEnds(r, rs, b)
            \/ Waits(r, [o EXCEPT !.at = "pace", !.lost = TRUE], rs, b)
       [] target.how = "flying" ->
            Flies(r, [found EXCEPT !.at = "fly", !.mode = "flight"], rs,
                  IF o.mode = "flight" THEN b ELSE Aloft(Free(b)))
       [] target.how = "ground" ->
            \/ o.mode = "flight" /\ Flies(r, [found EXCEPT !.at = "descend"], rs, b)
            \/ IF o.mode = "ground" /\ o.whom = target.who
               THEN Waits(r, [found EXCEPT !.at = "pace"], rs, b)
               ELSE Lands(r, found, rs, b)

PaceEnds(r) ==
  /\ Quiet /\ run[r].at = "pace"
  /\ Looks(r, run[r], run, body)
  /\ UNCHANGED <<tool, target, place>>

-----------------------------------------------------------------------------
(***************************************************************************)
(* The follow on foot: followPlayerUntilAborted().                         *)
(***************************************************************************)
Binds(r, o, rs, b) ==
  Waits(r, [o EXCEPT !.at = "track", !.whom = target.who, !.lost = FALSE], rs,
        [b EXCEPT !.goal = r])

(* Mutant of Tracks: the monitor and the listener outlive an abort.        *)
TracksOn(r) == run[r].at = "track"

Tracks(r) == run[r].at = "track" /\ Quiet

(* The monitor, every second.                                              *)
Monitors(r) ==
  /\ Tracks(r)
  /\ IF target.how = "missing"
     THEN IF run[r].lost THEN FollowEnds(r, run, body)
          ELSE Waits(r, [run[r] EXCEPT !.lost = TRUE], run, Free(body))
     ELSE IF run[r].whom # target.who \/ body.goal = "none" THEN Binds(r, run[r], run, body)
     ELSE Waits(r, [run[r] EXCEPT !.lost = FALSE], run, body)
  /\ UNCHANGED <<tool, target, place>>

(* No path, no answer in time, or no progress for eight seconds.           *)
Recovers(r) ==
  /\ Tracks(r)
  /\ LET o == [run[r] EXCEPT !.tries = @ + 1]
     IN IF target.how = "missing"
        THEN run[r].tries < Profiles /\ Waits(r, o, run, body)
        ELSE IF o.tries >= Profiles THEN FollowEnds(r, run, body)
        ELSE Binds(r, o, run, body)
  /\ UNCHANGED <<tool, target, place>>

-----------------------------------------------------------------------------
(***************************************************************************)
(* The runner starts a skill: the active run is aborted and the handler    *)
(* goes to its first await.                                                *)
(***************************************************************************)
Starts(r)  == Quiet /\ run[r].skill = "none" /\ UNCHANGED <<tool, target, place>>
As(skill)  == [NoRun EXCEPT !.skill = skill]
Refused(r) == Ends(r, Stopped, StoppedBody)

Travels(r, o) ==
  IF body.enabled THEN Flies(r, [o EXCEPT !.at = "fly"], Stopped, StoppedBody)
  ELSE SetsOut(r, o, Stopped, StoppedBody)

GotoCoords(r) == Starts(r) /\ Travels(r, As("goto"))

GotoPlayer(r) ==
  Starts(r) /\ IF target.how = "missing" THEN Refused(r) ELSE Travels(r, As("goto"))

ReturnToBase(r) == Starts(r) /\ (Refused(r) \/ Travels(r, As("goto")))

SurveyArea(r) == Starts(r) /\ (Refused(r) \/ Travels(r, As("survey")))

(* ensureReachableBlock(): it walks unless the block is near and in sight. *)
Reaches(r, o) ==
  Clicks(r, o, Stopped, StoppedBody) \/ SetsOut(r, o, Stopped, StoppedBody)

ActivateBlock(r) ==
  Starts(r) /\ IF place = Gone THEN Refused(r) ELSE Reaches(r, [As("use") EXCEPT !.saw = place])

Sleep(r) ==
  Starts(r) /\ IF place # Bed THEN Refused(r) ELSE Reaches(r, [As("use") EXCEPT !.saw = place])

(* ensurePlacementReach(), for the block executor.                         *)
PlaceAt(r) ==
  Starts(r) /\ IF ~Reference THEN Refused(r) ELSE Reaches(r, As("place"))

PickupNearby(r) ==
  /\ Starts(r)
  /\ \E n \in 0 .. MaxDrops :
       IF n = 0 THEN Refused(r)
       ELSE SetsOut(r, [As("pickup") EXCEPT !.drops = n], Stopped, StoppedBody)

(* mineUntil and chopTrees: nothing to do or nothing in reach, or n blocks. *)
Gather(r) ==
  /\ Starts(r)
  /\ \E n \in 0 .. MaxDrops :
       IF n = 0 THEN Refused(r)
       ELSE Collects(r, [As("gather") EXCEPT !.drops = n], Stopped, StoppedBody)

FollowPlayer(r) ==
  /\ Starts(r)
  /\ IF target.how = "missing" THEN Refused(r)
     ELSE IF body.enabled THEN Looks(r, As("follow"), Stopped, StoppedBody)
     ELSE Binds(r, As("follow"), Stopped, StoppedBody)

(* The stop tool, or a deadline; and the owner's emergency stop.           *)
Stop ==
  /\ Quiet
  /\ run' = Stopped /\ body' = StoppedBody
  /\ UNCHANGED <<tool, target, place, surveyed>>

EmergencyStop ==
  /\ Quiet
  /\ run' = Stopped /\ body' = Free(body)
  /\ UNCHANGED <<tool, target, place, surveyed>>

(* setFlight, in Creative at once, else by /fly.                           *)
Sets(on, b) ==
  body' = IF on THEN [Aloft(b) EXCEPT !.enabled = TRUE] ELSE [Landed(b) EXCEPT !.enabled = FALSE]

SetFlight(on) ==
  /\ Quiet /\ tool = "none" /\ body.enabled # on
  /\ \/ tool' = (IF on THEN "on" ELSE "off") /\ UNCHANGED body
     \/ tool' = (IF on THEN "takeoff" ELSE "none") /\ Sets(on, body)
  /\ UNCHANGED <<run, target, place, surveyed>>

(* The server refuses, or flight is set; a take-off may fail.              *)
FlyAnswered ==
  /\ Quiet /\ tool \in {"on", "off"}
  /\ \/ tool' = "none" /\ UNCHANGED body
     \/ tool' = (IF tool = "on" THEN "takeoff" ELSE "none") /\ Sets(tool = "on", body)
  /\ UNCHANGED <<run, target, place, surveyed>>

TookOff ==
  /\ Quiet /\ tool = "takeoff" /\ tool' = "none"
  /\ \/ UNCHANGED body
     \/ body' = [body EXCEPT !.enabled = FALSE, !.motion = FALSE]
  /\ UNCHANGED <<run, target, place, surveyed>>

Elsewhere ==
  /\ Quiet
  /\ \/ target' \in [who : Entities, how : {"ground", "flying", "missing"}] /\ UNCHANGED place
     \/ place' \in Kinds \cup {Gone} /\ UNCHANGED target
  /\ UNCHANGED <<run, body, tool, surveyed>>

Moving(r) ==
  \/ Unwind(r) \/ WalkArrives(r) \/ PathFails(r) \/ PauseEnds(r) \/ FlightEnds(r)
  \/ PaceEnds(r) \/ Monitors(r) \/ Recovers(r) \/ ClickReturns(r) \/ CollectWalks(r) \/ CollectReturns(r)

Begin(r) ==
  \/ GotoCoords(r) \/ GotoPlayer(r) \/ ReturnToBase(r) \/ SurveyArea(r) \/ ActivateBlock(r)
  \/ Sleep(r) \/ PlaceAt(r) \/ PickupNearby(r) \/ Gather(r) \/ FollowPlayer(r)

MoveNext ==
  \/ \E r \in Invocations : Moving(r)
  \/ \E r \in Invocations : Begin(r)
  \/ Stop \/ EmergencyStop
  \/ \E on \in BOOLEAN : SetFlight(on)
  \/ FlyAnswered \/ TookOff \/ Elsewhere

MoveSpec == MoveInit /\ [][MoveNext]_moveVars

-----------------------------------------------------------------------------
(***************************************************************************)
(* Safety.                                                                 *)
(***************************************************************************)
StaysStopped(r) ==
  run[r].aborted /\ run'[r].aborted =>
    /\ run'[r].at \in {run[r].at, "pace"}
    /\ run'[r].tries = run[r].tries /\ run'[r].drops = run[r].drops

(* A click goes out for a run that nobody has stopped, on the block that   *)
(* the run chose, as it stands now.                                        *)
ClicksWell(r) ==
  run[r].at # "click" /\ run'[r].at = "click" =>
    /\ ~run'[r].aborted
    /\ run'[r].skill = "use" => place = run'[r].saw
    /\ run'[r].skill = "place" => place # Gone

(* Whoever stops a run, by a stop, a deadline or another skill, has        *)
(* stopped it: it tries no other way, clicks nothing, goes after no other  *)
(* drop or block, and once it has unwound no goal of its own is with the   *)
(* pathfinder, unless it is inside collect(), which it lets finish the one *)
(* block, walks included; only a survey that arrives in the air is         *)
(* recorded.  What is clicked is what was chosen.                          *)
StoppedStaysStopped ==
  /\ [](Quiet /\ body.goal \in Invocations => Active(body.goal) \/ run[body.goal].at = "collect")
  /\ [][\A r \in Invocations : StaysStopped(r) /\ ClicksWell(r)]_moveVars
  /\ [][\A r \in Invocations : run[r].skill = "survey" /\ run[r].aborted /\ surveyed # surveyed'
          => run[r].at = "fly" \/ run'[r] = run[r]]_moveVars

=============================================================================
