---------------------------- MODULE SkillsProofs ----------------------------
(***************************************************************************)
(* First part: a stopped skill stays stopped, for any number of runs,      *)
(* entities, recovery profiles, drops and blocks to gather.                *)
(*                                                                         *)
(* Between two awaits a handler runs alone, so a step of Movement is what  *)
(* one handler does up to its next await, often several calls deep.  What  *)
(* it may leave behind there is said once (Yields) and shown of each piece *)
(* of a handler; the invariant says who may have left his goal with the    *)
(* pathfinder (MayHold), and that only one run is active.                  *)
(*                                                                         *)
(* Second part: a gathering skill that is aborted ends its current act, a  *)
(* harvest leaves no cell bare but by a fault, and a preparation begins a  *)
(* skill only with leave, for any items, containers, blocks and requests.  *)
(*                                                                         *)
(* Almost every step of a handler replaces its top frame, awaits another   *)
(* skill or answers (Onward), and pays for what it does to the world from  *)
(* what its frame may still do (Pending): that this keeps the stack and    *)
(* the ledger of late effects is shown once, and each skill's steps are    *)
(* shown to be of that kind.                                               *)
(*                                                                         *)
(* Third part: what an undisturbed preparation reckons at its start is     *)
(* enough at its end.  The invariant (PlanInv) says for each place of the  *)
(* code what has been gathered there and what is still laid by (Holds);    *)
(* the awaited skills are shown to bring what they were called for and to  *)
(* leave the rest, and each stage to lead from its facts to the next's.    *)
(***************************************************************************)
EXTENDS Movement, Provisions, FiniteSetTheorems, SequenceTheorems, WellFoundedInduction, TLAPS

(***************************************************************************)
(* What a run is, and the invariant.                                       *)
(***************************************************************************)
Skills == {"none", "goto", "survey", "use", "place", "pickup", "gather", "follow"}
Spots  == {"idle", "walk", "pause", "fly", "descend", "track", "pace", "click", "collect"}

RunState ==
  [skill : Skills, at : Spots, aborted : BOOLEAN, tries : Nat, drops : Nat,
   mode : {"none", "ground", "flight"}, whom : Entities, lost : BOOLEAN, saw : Kinds]

Body == [goal : Invocations \cup {"none", "left"}, enabled : BOOLEAN, motion : BOOLEAN, flying : BOOLEAN]

(* Where each skill may wait, and how an adaptive follow moves there.      *)
Shaped(o) ==
  /\ o.skill = "none" <=> o.at = "idle"
  /\ o.skill = "none" => ~o.aborted
  /\ o.at \in {"walk", "pause"} => o.skill \in {"goto", "survey", "use", "place", "pickup", "gather"}
  /\ o.at = "collect" => o.skill = "gather"
  /\ o.at = "fly" => o.skill \in {"goto", "survey", "follow"}
  /\ o.at \in {"descend", "track", "pace"} => o.skill = "follow"
  /\ o.at \in {"fly", "descend"} /\ o.skill = "follow" => o.mode = "flight"
  /\ o.at = "pace" => o.mode # "none"

(* Who may have his goal with the pathfinder: one that walks or tracks and *)
(* was not stopped, a follow that paces on foot, or one inside collect().  *)
MayHold(o) ==
  /\ o.at \in {"walk", "track", "pace", "collect"}
  /\ o.at \in {"walk", "track"} => ~o.aborted
  /\ o.at = "pace" => o.mode = "ground"

MoveTyped ==
  /\ run \in [Invocations -> RunState] /\ body \in Body
  /\ tool \in {"none", "on", "off", "takeoff"}
  /\ target \in [who : Entities, how : {"ground", "flying", "missing"}]
  /\ place \in Kinds \cup {Gone} /\ surveyed \in BOOLEAN

OneActive == \A q, r \in Invocations : Active(q) /\ Active(r) => q = r

MoveInv ==
  /\ MoveTyped /\ OneActive
  /\ \A r \in Invocations : Shaped(run[r]) /\ (body.goal = r => MayHold(run[r]))

-----------------------------------------------------------------------------
(***************************************************************************)
(* What a handler leaves behind at its next await, begun as o with the     *)
(* others as rs and the body as b: itself at a place of its skill, the     *)
(* others as they were, and its own goal or nobody else's anew.            *)
(***************************************************************************)
Sound(n) == n \in RunState /\ Shaped(n)

Yields(r, o, rs, b) ==
  /\ run' = [rs EXCEPT ![r] = run'[r]]
  /\ Sound(run'[r])
  /\ run'[r] = NoRun \/ (run'[r].skill = o.skill /\ run'[r].aborted = o.aborted)
  /\ body' \in Body /\ surveyed' \in BOOLEAN
  /\ body'.goal = r => MayHold(run'[r])
  /\ body'.goal \in {r, b.goal, "none", "left"}
  /\ run'[r].at = "click" => Fits(run'[r])

LEMMA NoRunSound == ASSUME MoveTyped PROVE Sound(NoRun) /\ NoRun.skill = "none" /\ ~NoRun.aborted /\ NoRun.at = "idle"
<1>1. (CHOOSE e \in Entities : TRUE) \in Entities
  BY DEF MoveTyped
<1>2. (CHOOSE k \in Kinds : TRUE) \in Kinds
  BY MovementAssumption
<1> QED  BY <1>1, <1>2 DEF NoRun, Blank, Sound, RunState, Shaped, Skills, Spots

LEMMA NullsApart == \A r \in Invocations : r # "none" /\ r # "left"
  BY MovementAssumption

LEMMA EndsYields ==
  ASSUME MoveTyped, NEW r \in Invocations, NEW o, NEW rs \in [Invocations -> RunState], NEW b \in Body,
         b.goal # r, Ends(r, rs, b)
  PROVE  Yields(r, o, rs, b)
<1>1. run' = [rs EXCEPT ![r] = NoRun] /\ run'[r] = NoRun
  BY DEF Ends
<1> QED  BY <1>1, NoRunSound DEF Ends, Yields, MoveTyped

LEMMA WaitsYields ==
  ASSUME MoveTyped, NEW r \in Invocations, NEW o, NEW n, NEW rs \in [Invocations -> RunState], NEW b \in Body,
         NEW c \in Body, Waits(r, n, rs, c), Sound(n), n.skill = o.skill, n.aborted = o.aborted,
         c.goal = r => MayHold(n), c.goal \in {r, b.goal, "none", "left"}, n.at = "click" => Fits(n)
  PROVE  Yields(r, o, rs, b)
<1>1. run' = [rs EXCEPT ![r] = n] /\ run'[r] = n
  BY DEF Waits
<1> QED  BY <1>1 DEF Waits, Yields, MoveTyped

(* The same, told of a handler or a body that differ in nothing that       *)
(* matters.                                                                *)
LEMMA SameYields ==
  ASSUME NEW r \in Invocations, NEW o, NEW n, NEW rs, NEW b, NEW c,
         Yields(r, n, rs, c), n.skill = o.skill, n.aborted = o.aborted, c.goal \in {r, b.goal, "none", "left"}
  PROVE  Yields(r, o, rs, b)
  BY DEF Yields

Walkers == {"goto", "survey", "use", "place", "pickup", "gather"}

LEMMA SetsOutYields ==
  ASSUME MoveTyped, NEW r \in Invocations, NEW o \in RunState, NEW rs \in [Invocations -> RunState],
         NEW b \in Body, o.skill \in Walkers, ~o.aborted, SetsOut(r, o, rs, b)
  PROVE  Yields(r, o, rs, b)
<1> DEFINE n == [o EXCEPT !.at = "walk", !.tries = @ + 1]
           c == [b EXCEPT !.goal = r]
<1>0. o.tries + 1 \in Nat
  BY DEF RunState
<1>1. n \in RunState /\ n.skill = o.skill /\ n.aborted = o.aborted /\ n.at = "walk"
  BY <1>0 DEF RunState, Spots
<1>4. Sound(n) /\ MayHold(n)
  BY <1>1 DEF Sound, Shaped, Walkers, MayHold
<1>2. c \in Body /\ c.goal = r
  BY DEF Body
<1>3. Waits(r, n, rs, c)
  BY DEF SetsOut
<1> HIDE DEF n, c
<1> QED  BY <1>1, <1>2, <1>3, <1>4, WaitsYields

LEMMA ClicksYields ==
  ASSUME MoveTyped, NEW r \in Invocations, NEW o \in RunState, NEW rs \in [Invocations -> RunState],
         NEW b \in Body, o.skill \in {"use", "place"}, b.goal # r, Clicks(r, o, rs, b)
  PROVE  Yields(r, o, rs, b)
<1> DEFINE n == [o EXCEPT !.at = "click", !.tries = 0]
<1>1. Sound(n) /\ n.skill = o.skill /\ n.aborted = o.aborted /\ n.saw = o.saw
  BY DEF Sound, Shaped, RunState, Skills, Spots
<1>2. CASE Ends(r, rs, b)
  BY <1>2, EndsYields
<1>3. CASE Fits(o) /\ Waits(r, n, rs, b)
  <2>1. Fits(n)
    BY <1>1, <1>3 DEF Fits
  <2> HIDE DEF n
  <2> QED  BY <1>1, <1>3, <2>1, WaitsYields
<1> QED  BY <1>2, <1>3 DEF Clicks

LEMMA CollectsYields ==
  ASSUME MoveTyped, NEW r \in Invocations, NEW o \in RunState, NEW rs \in [Invocations -> RunState],
         NEW b \in Body, o.skill = "gather", Collects(r, o, rs, b)
  PROVE  Yields(r, o, rs, b)
<1> DEFINE n == [o EXCEPT !.at = "collect"]
<1>1. n \in RunState /\ n.skill = o.skill /\ n.aborted = o.aborted /\ n.at = "collect"
  BY DEF RunState, Spots
<1>2. Sound(n) /\ MayHold(n)
  BY <1>1 DEF Sound, Shaped, MayHold
<1>3. Waits(r, n, rs, b)
  BY DEF Collects
<1> HIDE DEF n
<1> QED  BY <1>1, <1>2, <1>3, WaitsYields

LEMMA NextDropYields ==
  ASSUME MoveTyped, NEW r \in Invocations, NEW o \in RunState, NEW b \in Body,
         o.skill = "pickup", ~o.aborted, NextDrop(r, o, b)
  PROVE  Yields(r, o, run, b)
<1>0. run \in [Invocations -> RunState]
  BY DEF MoveTyped
<1>1. CASE o.drops > 1
  <2> DEFINE n == [o EXCEPT !.drops = @ - 1, !.tries = 0]
  <2>0. o.drops - 1 \in Nat
    BY <1>1 DEF RunState
  <2>1. n \in RunState /\ n.skill = o.skill /\ n.aborted = o.aborted
    BY <2>0 DEF RunState
  <2>2. SetsOut(r, n, run, b)
    BY <1>1 DEF NextDrop
  <2> HIDE DEF n
  <2>3. Yields(r, n, run, b)
    BY <1>0, <2>1, <2>2, SetsOutYields DEF Walkers
  <2> QED  BY <2>1, <2>3, SameYields
<1>2. CASE ~(o.drops > 1)
  <2> DEFINE c == LeavesGoal(r, b)
  <2>1. c \in Body /\ c.goal # r /\ c.goal \in {b.goal, "left"}
    BY NullsApart DEF LeavesGoal, Body
  <2>2. Ends(r, run, c)
    BY <1>2 DEF NextDrop
  <2> HIDE DEF c
  <2>3. Yields(r, o, run, c)
    BY <1>0, <2>1, <2>2, EndsYields
  <2> QED  BY <2>1, <2>3, SameYields
<1> QED  BY <1>1, <1>2

LEMMA SurveysYields ==
  ASSUME MoveTyped, NEW r \in Invocations, NEW o, NEW rs \in [Invocations -> RunState], NEW b \in Body,
         b.goal # r, Surveys(r, rs, b)
  PROVE  Yields(r, o, rs, b)
<1>1. run' = [rs EXCEPT ![r] = NoRun] /\ run'[r] = NoRun
  BY DEF Surveys
<1> QED  BY <1>1, NoRunSound DEF Surveys, Yields

-----------------------------------------------------------------------------
LEMMA BodyMoves ==
  ASSUME NEW b \in Body
  PROVE  /\ Free(b) \in Body /\ Free(b).goal = "none" /\ Free(b).flying = b.flying /\ Free(b).enabled = b.enabled
         /\ Aloft(b) \in Body /\ Aloft(b).goal = b.goal /\ Aloft(b).flying /\ Aloft(b).enabled = b.enabled
         /\ Landed(b) \in Body /\ Landed(b).goal = b.goal /\ Landed(b).enabled = b.enabled
  BY DEF Free, Aloft, Landed, Body

LEMMA FollowEndsYields ==
  ASSUME MoveTyped, NEW r \in Invocations, NEW o, NEW rs \in [Invocations -> RunState], NEW b \in Body,
         FollowEnds(r, rs, b)
  PROVE  Yields(r, o, rs, b)
<1>1. Yields(r, o, rs, Free(b))
  BY BodyMoves, NullsApart, EndsYields DEF FollowEnds
<1> QED  BY <1>1, BodyMoves, SameYields

LEMMA LandsYields ==
  ASSUME MoveTyped, NEW r \in Invocations, NEW o \in RunState, NEW rs \in [Invocations -> RunState],
         NEW b \in Body, o.skill = "follow", Lands(r, o, rs, b)
  PROVE  Yields(r, o, rs, b)
<1> DEFINE n == [o EXCEPT !.at = "pace", !.mode = "ground"]
           c == [Landed(b) EXCEPT !.goal = r]
<1>1. Sound(n) /\ n.skill = o.skill /\ n.aborted = o.aborted /\ n.at = "pace" /\ MayHold(n)
  BY DEF Sound, Shaped, RunState, Skills, Spots, MayHold
<1>2. c \in Body /\ c.goal = r
  BY BodyMoves DEF Body
<1>3. Waits(r, n, rs, c)
  BY DEF Lands
<1> HIDE DEF n, c
<1> QED  BY <1>1, <1>2, <1>3, WaitsYields

(* A handler that flies.                                                   *)
Flying(o) ==
  /\ o \in RunState /\ o.skill \in {"goto", "survey", "follow"} /\ o.at \in {"fly", "descend"}
  /\ o.skill = "follow" => o.mode = "flight"
  /\ o.at = "descend" => o.skill = "follow"

LEMMA FlownYields ==
  ASSUME MoveTyped, NEW r \in Invocations, NEW o, NEW rs \in [Invocations -> RunState], NEW b \in Body,
         Flying(o), b.goal # r, Flown(r, o, rs, b)
  PROVE  Yields(r, o, rs, b)
<1>1. CASE o.skill = "goto"
  BY <1>1, EndsYields DEF Flown
<1>2. CASE o.skill = "survey"
  BY <1>2, SurveysYields DEF Flown
<1>3. CASE o.skill = "follow" /\ o.at = "fly"
  <2> DEFINE n == [o EXCEPT !.at = "pace"]
  <2>1. Sound(n) /\ n.skill = o.skill /\ n.aborted = o.aborted /\ n.at = "pace"
    BY <1>3 DEF Flying, Sound, Shaped, RunState, Skills, Spots
  <2>2. Waits(r, n, rs, b)
    BY <1>3 DEF Flown
  <2> HIDE DEF n
  <2> QED  BY <2>1, <2>2, WaitsYields
<1>4. CASE o.skill = "follow" /\ o.at = "descend"
  BY <1>4, LandsYields DEF Flown, Flying
<1> QED  BY <1>1, <1>2, <1>3, <1>4 DEF Flying

LEMMA FliesYields ==
  ASSUME MoveTyped, NEW r \in Invocations, NEW o, NEW rs \in [Invocations -> RunState], NEW b \in Body,
         Flying(o), b.goal # r, Flies(r, o, rs, b)
  PROVE  Yields(r, o, rs, b)
<1>1. CASE ~b.enabled
  BY <1>1, EndsYields, FollowEndsYields DEF Flies
<1>2. CASE b.enabled
  <2>1. Aloft(b) \in Body /\ Aloft(b).goal = b.goal
    BY BodyMoves
  <2>2. Sound(o) /\ o.at # "click"
    BY DEF Flying, Sound, Shaped
  <2>3. CASE Waits(r, o, rs, Aloft(b))
    BY <2>1, <2>2, <2>3, WaitsYields
  <2>4. CASE Flown(r, o, rs, Aloft(b))
    <3>1. Yields(r, o, rs, Aloft(b))
      BY <2>1, <2>4, FlownYields
    <3> QED  BY <2>1, <3>1, SameYields
  <2> QED  BY <1>2, <2>3, <2>4 DEF Flies
<1> QED  BY <1>1, <1>2

LEMMA LooksYields ==
  ASSUME MoveTyped, NEW r \in Invocations, NEW o \in RunState, NEW rs \in [Invocations -> RunState],
         NEW b \in Body, o.skill = "follow", b.goal = r => o.mode = "ground",
         o.mode = "none" => target.how # "missing", Looks(r, o, rs, b)
  PROVE  Yields(r, o, rs, b)
<1> DEFINE found == [o EXCEPT !.lost = FALSE, !.whom = target.who]
<1>1. found \in RunState /\ found.skill = o.skill /\ found.aborted = o.aborted /\ found.mode = o.mode
  BY DEF MoveTyped, RunState
<1>2. CASE target.how = "missing"
  <2>1. CASE FollowEnds(r, rs, b)
    BY <2>1, FollowEndsYields
  <2>2. CASE Waits(r, [o EXCEPT !.at = "pace", !.lost = TRUE], rs, b)
    <3> DEFINE n == [o EXCEPT !.at = "pace", !.lost = TRUE]
    <3>1. Sound(n) /\ n.skill = o.skill /\ n.aborted = o.aborted /\ n.at = "pace" /\ n.mode = o.mode
      BY <1>2 DEF Sound, Shaped, RunState, Skills, Spots
    <3>2. b.goal = r => MayHold(n)
      BY <3>1 DEF MayHold
    <3> HIDE DEF n
    <3> QED  BY <2>2, <3>1, <3>2, WaitsYields DEF n
  <2> QED  BY <1>2, <2>1, <2>2 DEF Looks
<1>3. CASE target.how = "flying"
  <2> DEFINE n == [found EXCEPT !.at = "fly", !.mode = "flight"]
             c == IF o.mode = "flight" THEN b ELSE Aloft(Free(b))
  <2>1. Flying(n) /\ n.skill = o.skill /\ n.aborted = o.aborted
    BY <1>1 DEF Flying, RunState, Spots
  <2>2. c \in Body /\ c.goal # r /\ c.goal \in {b.goal, "none"}
    BY BodyMoves, NullsApart
  <2>3. Flies(r, n, rs, c)
    BY <1>3 DEF Looks
  <2> HIDE DEF n, c
  <2>4. Yields(r, n, rs, c)
    BY <2>1, <2>2, <2>3, FliesYields
  <2> QED  BY <2>1, <2>2, <2>4, SameYields
<1>4. CASE target.how = "ground"
  <2>1. CASE o.mode = "flight" /\ Flies(r, [found EXCEPT !.at = "descend"], rs, b)
    <3> DEFINE n == [found EXCEPT !.at = "descend"]
    <3>1. Flying(n) /\ n.skill = o.skill /\ n.aborted = o.aborted
      BY <1>1, <2>1 DEF Flying, RunState, Spots
    <3>2. Flies(r, n, rs, b)
      BY <2>1
    <3> HIDE DEF n
    <3>3. Yields(r, n, rs, b)
      BY <2>1, <3>1, <3>2, FliesYields
    <3> QED  BY <3>1, <3>3, SameYields
  <2>2. CASE o.mode = "ground" /\ Waits(r, [found EXCEPT !.at = "pace"], rs, b)
    <3> DEFINE n == [found EXCEPT !.at = "pace"]
    <3>1. Sound(n) /\ n.skill = o.skill /\ n.aborted = o.aborted /\ n.at = "pace" /\ n.mode = "ground"
      BY <1>1, <2>2 DEF Sound, Shaped, RunState, Skills, Spots
    <3>2. MayHold(n)
      BY <3>1 DEF MayHold
    <3>3. Waits(r, n, rs, b)
      BY <2>2
    <3> HIDE DEF n
    <3> QED  BY <3>1, <3>2, <3>3, WaitsYields
  <2>3. CASE Lands(r, found, rs, b)
    <3> HIDE DEF found
    <3>1. Yields(r, found, rs, b)
      BY <1>1, <2>3, LandsYields
    <3> QED  BY <1>1, <3>1, SameYields
  <2> QED  BY <1>4, <2>1, <2>2, <2>3 DEF Looks
<1> QED  BY <1>2, <1>3, <1>4 DEF MoveTyped

LEMMA BindsYields ==
  ASSUME MoveTyped, NEW r \in Invocations, NEW o \in RunState, NEW rs \in [Invocations -> RunState],
         NEW b \in Body, o.skill = "follow", ~o.aborted, Binds(r, o, rs, b)
  PROVE  Yields(r, o, rs, b)
<1> DEFINE n == [o EXCEPT !.at = "track", !.whom = target.who, !.lost = FALSE]
           c == [b EXCEPT !.goal = r]
<1>1. Sound(n) /\ n.skill = o.skill /\ n.aborted = o.aborted /\ n.at = "track" /\ MayHold(n)
  BY DEF Sound, Shaped, RunState, Skills, Spots, MayHold, MoveTyped
<1>2. c \in Body /\ c.goal = r
  BY DEF Body
<1>3. Waits(r, n, rs, c)
  BY DEF Binds
<1> HIDE DEF n, c
<1> QED  BY <1>1, <1>2, <1>3, WaitsYields

-----------------------------------------------------------------------------
(***************************************************************************)
(* The steps of a handler that was begun before.                           *)
(***************************************************************************)
LEMMA Facts ==
  ASSUME MoveInv, NEW r \in Invocations
  PROVE  /\ MoveTyped /\ run \in [Invocations -> RunState] /\ body \in Body
         /\ run[r] \in RunState /\ Shaped(run[r]) /\ (body.goal = r => MayHold(run[r]))
  BY DEF MoveInv, MoveTyped

LEMMA LeavesGoalMoves ==
  ASSUME NEW b \in Body, NEW r \in Invocations
  PROVE  LeavesGoal(r, b) \in Body /\ LeavesGoal(r, b).goal # r /\ LeavesGoal(r, b).goal \in {b.goal, "left"}
  BY NullsApart DEF LeavesGoal, Body

LEMMA UnwindYields ==
  ASSUME MoveInv, NEW r \in Invocations, Unwind(r)
  PROVE  Yields(r, run[r], run, body)
<1> DEFINE b == [body EXCEPT !.goal = GoalAfterUnwind(r)]
<1>1. b \in Body /\ b.goal # r /\ b.goal \in {body.goal, "none"}
  BY Facts, NullsApart DEF Body, GoalAfterUnwind, Unwind, Unwinding, MayHold
<1>2. Ends(r, run, b)
  BY DEF Unwind
<1> HIDE DEF b
<1>3. Yields(r, run[r], run, b)
  BY <1>1, <1>2, Facts, EndsYields
<1> QED  BY <1>1, <1>3, SameYields

LEMMA WalkArrivesYields ==
  ASSUME MoveInv, NEW r \in Invocations, WalkArrives(r)
  PROVE  Yields(r, run[r], run, body)
<1> DEFINE b == Free(body)
<1>1. b \in Body /\ b.goal # r /\ b.goal = "none"
  BY Facts, BodyMoves, NullsApart
<1>2. run[r].skill \in Walkers /\ ~run[r].aborted
  BY Facts DEF WalkArrives, Quiet, Unwinding, Shaped, Walkers, RunState
<1>3. Yields(r, run[r], run, b)
  <2>1. CASE run[r].skill = "goto" /\ Ends(r, run, b)
    BY <1>1, <2>1, Facts, EndsYields
  <2>2. CASE run[r].skill = "survey" /\ Surveys(r, run, b)
    BY <1>1, <2>2, Facts, SurveysYields
  <2>3. CASE run[r].skill \in {"use", "place"} /\ Clicks(r, run[r], run, b)
    BY <1>1, <2>3, Facts, ClicksYields
  <2>4. CASE run[r].skill = "pickup" /\ NextDrop(r, run[r], b)
    BY <1>1, <1>2, <2>4, Facts, NextDropYields
  <2> DEFINE n == [run[r] EXCEPT !.tries = 1]
  <2>5. CASE run[r].skill = "gather" /\ Collects(r, n, run, b)
    <3>1. n \in RunState /\ n.skill = run[r].skill /\ n.aborted = run[r].aborted
      BY Facts DEF RunState
    <3> HIDE DEF n, b
    <3>2. Yields(r, n, run, b)
      BY <1>1, <2>5, <3>1, Facts, CollectsYields
    <3> QED  BY <1>1, <3>1, <3>2, SameYields
  <2> QED  BY <1>2, <2>1, <2>2, <2>3, <2>4, <2>5 DEF WalkArrives, Walkers
<1> QED  BY <1>1, <1>3, SameYields

LEMMA PathFailsYields ==
  ASSUME MoveInv, NEW r \in Invocations, PathFails(r)
  PROVE  Yields(r, run[r], run, body)
<1>1. run[r].skill \in Walkers /\ ~run[r].aborted /\ run[r].at = "walk"
  BY Facts DEF PathFails, Quiet, Unwinding, Shaped, Walkers, RunState
<1>2. CASE Retries(r)
  <2> DEFINE n == [run[r] EXCEPT !.at = "pause"]
  <2>1. n \in RunState /\ n.skill = run[r].skill /\ n.aborted = run[r].aborted /\ n.at = "pause"
    BY Facts DEF RunState, Spots
  <2>2. Sound(n)
    BY <1>1, <2>1 DEF Sound, Shaped, Walkers
  <2>3. Waits(r, n, run, Free(body))
    BY <1>2 DEF PathFails
  <2> HIDE DEF n
  <2> QED  BY <2>1, <2>2, <2>3, Facts, BodyMoves, NullsApart, WaitsYields
<1>3. CASE ~Retries(r) /\ run[r].skill = "pickup"
  BY <1>1, <1>3, Facts, NextDropYields DEF PathFails
<1>4. CASE ~Retries(r) /\ run[r].skill # "pickup"
  <2>1. Ends(r, run, LeavesGoal(r, body))
    BY <1>4 DEF PathFails
  <2>2. Yields(r, run[r], run, LeavesGoal(r, body))
    BY <2>1, Facts, LeavesGoalMoves, EndsYields
  <2> QED  BY <2>2, Facts, LeavesGoalMoves, SameYields
<1> QED  BY <1>2, <1>3, <1>4

LEMMA PauseEndsYields ==
  ASSUME MoveInv, NEW r \in Invocations, PauseEnds(r)
  PROVE  Yields(r, run[r], run, body)
<1>1. run[r].skill \in Walkers /\ ~run[r].aborted
  BY Facts DEF PauseEnds, Quiet, Unwinding, Shaped, Walkers, RunState
<1> QED  BY <1>1, Facts, SetsOutYields DEF PauseEnds

LEMMA FlightEndsYields ==
  ASSUME MoveInv, NEW r \in Invocations, FlightEnds(r)
  PROVE  Yields(r, run[r], run, body)
<1>1. Flying(run[r]) /\ body.goal # r
  BY Facts DEF FlightEnds, Flying, Shaped, MayHold
<1>2. \/ Flown(r, run[r], run, body) \/ FollowEnds(r, run, body) \/ Ends(r, run, body)
  BY DEF FlightEnds
<1> QED  BY <1>1, <1>2, Facts, FlownYields, FollowEndsYields, EndsYields

LEMMA PaceEndsYields ==
  ASSUME MoveInv, NEW r \in Invocations, PaceEnds(r)
  PROVE  Yields(r, run[r], run, body)
<1>1. run[r].skill = "follow" /\ run[r].mode # "none" /\ (body.goal = r => run[r].mode = "ground")
  BY Facts DEF PaceEnds, Shaped, MayHold
<1> QED  BY <1>1, Facts, LooksYields DEF PaceEnds

LEMMA TrackedIs ==
  ASSUME MoveInv, NEW r \in Invocations, Tracks(r)
  PROVE  run[r].skill = "follow" /\ ~run[r].aborted /\ run[r].at = "track" /\ MayHold(run[r])
  BY Facts DEF Tracks, Quiet, Unwinding, Shaped, RunState, MayHold

(* Whoever tracks may go on with its goal or without.                      *)
LEMMA TracksOnYields ==
  ASSUME MoveInv, NEW r \in Invocations, Tracks(r), NEW n \in RunState, n.skill = run[r].skill,
         n.aborted = run[r].aborted, n.at = "track", NEW b \in {body, Free(body)}, Waits(r, n, run, b)
  PROVE  Yields(r, run[r], run, body)
<1>1. Sound(n) /\ MayHold(n)
  BY TrackedIs DEF Sound, Shaped, MayHold
<1>2. b \in Body /\ b.goal \in {body.goal, "none"}
  BY Facts, BodyMoves
<1> QED  BY <1>1, <1>2, Facts, WaitsYields

LEMMA MonitorsYields ==
  ASSUME MoveInv, NEW r \in Invocations, Monitors(r)
  PROVE  Yields(r, run[r], run, body)
<1>1. Tracks(r) /\ run[r].skill = "follow" /\ ~run[r].aborted /\ run[r].at = "track"
  BY TrackedIs DEF Monitors
<1>2. CASE FollowEnds(r, run, body)
  BY <1>2, Facts, FollowEndsYields
<1>3. CASE Waits(r, [run[r] EXCEPT !.lost = TRUE], run, Free(body))
  <2> DEFINE n == [run[r] EXCEPT !.lost = TRUE]
  <2>1. n \in RunState /\ n.skill = run[r].skill /\ n.aborted = run[r].aborted /\ n.at = "track"
    BY <1>1, Facts DEF RunState
  <2>2. Waits(r, n, run, Free(body))
    BY <1>3
  <2> HIDE DEF n
  <2> QED  BY <1>1, <2>1, <2>2, TracksOnYields
<1>4. CASE Binds(r, run[r], run, body)
  BY <1>1, <1>4, Facts, BindsYields
<1>5. CASE Waits(r, [run[r] EXCEPT !.lost = FALSE], run, body)
  <2> DEFINE n == [run[r] EXCEPT !.lost = FALSE]
  <2>1. n \in RunState /\ n.skill = run[r].skill /\ n.aborted = run[r].aborted /\ n.at = "track"
    BY <1>1, Facts DEF RunState
  <2>2. Waits(r, n, run, body)
    BY <1>5
  <2> HIDE DEF n
  <2> QED  BY <1>1, <2>1, <2>2, TracksOnYields
<1> QED  BY <1>2, <1>3, <1>4, <1>5 DEF Monitors

LEMMA RecoversYields ==
  ASSUME MoveInv, NEW r \in Invocations, Recovers(r)
  PROVE  Yields(r, run[r], run, body)
<1> DEFINE o == [run[r] EXCEPT !.tries = @ + 1]
<1>1. Tracks(r) /\ run[r].skill = "follow" /\ ~run[r].aborted /\ run[r].at = "track"
  BY TrackedIs DEF Recovers
<1>2. run[r].tries + 1 \in Nat
  BY Facts DEF RunState
<1>3. o \in RunState /\ o.skill = run[r].skill /\ o.aborted = run[r].aborted /\ o.at = "track"
  BY <1>1, <1>2, Facts DEF RunState
<1>4. \/ Waits(r, o, run, body) \/ FollowEnds(r, run, body) \/ Binds(r, o, run, body)
  BY DEF Recovers
<1> HIDE DEF o
<1>5. CASE Waits(r, o, run, body)
  BY <1>1, <1>3, <1>5, TracksOnYields
<1>6. CASE FollowEnds(r, run, body)
  BY <1>6, Facts, FollowEndsYields
<1>7. CASE Binds(r, o, run, body)
  <2>1. Yields(r, o, run, body)
    BY <1>1, <1>3, <1>7, Facts, BindsYields
  <2> QED  BY <1>3, <2>1, SameYields
<1> QED  BY <1>4, <1>5, <1>6, <1>7

LEMMA ClickReturnsYields ==
  ASSUME MoveInv, NEW r \in Invocations, ClickReturns(r)
  PROVE  Yields(r, run[r], run, body)
<1>1. body.goal # r
  BY Facts DEF ClickReturns, MayHold
<1> QED  BY <1>1, Facts, EndsYields DEF ClickReturns

LEMMA CollectWalksYields ==
  ASSUME MoveInv, NEW r \in Invocations, CollectWalks(r)
  PROVE  Yields(r, run[r], run, body)
<1> DEFINE c == [body EXCEPT !.goal = r]
<1>1. c \in Body /\ c.goal = r
  BY Facts DEF Body
<1>2. Sound(run[r]) /\ MayHold(run[r]) /\ run[r].at = "collect"
  BY Facts DEF CollectWalks, Sound, MayHold
<1>3. Waits(r, run[r], run, c)
  BY DEF CollectWalks
<1> HIDE DEF c
<1> QED  BY <1>1, <1>2, <1>3, Facts, WaitsYields

LEMMA NextBlockYields ==
  ASSUME MoveTyped, NEW r \in Invocations, NEW o \in RunState, NEW b \in Body,
         o.skill = "gather", b.goal # r, NextBlock(r, o, b)
  PROVE  Yields(r, o, run, b)
<1>0. run \in [Invocations -> RunState]
  BY DEF MoveTyped
<1>1. CASE Ends(r, run, b)
  BY <1>0, <1>1, EndsYields
<1> DEFINE n == [o EXCEPT !.drops = @ - 1, !.tries = 0]
<1>2. CASE o.drops > 1 /\ Collects(r, n, run, b)
  <2>1. o.drops - 1 \in Nat
    BY <1>2 DEF RunState
  <2>2. n \in RunState /\ n.skill = o.skill /\ n.aborted = o.aborted
    BY <2>1 DEF RunState
  <2> HIDE DEF n
  <2>3. Yields(r, n, run, b)
    BY <1>0, <1>2, <2>2, CollectsYields
  <2> QED  BY <2>2, <2>3, SameYields
<1> QED  BY <1>1, <1>2 DEF NextBlock

LEMMA CollectReturnsYields ==
  ASSUME MoveInv, NEW r \in Invocations, CollectReturns(r)
  PROVE  Yields(r, run[r], run, body)
<1>1. run[r].skill = "gather" /\ run[r].skill \in Walkers
  BY Facts DEF CollectReturns, Shaped, Walkers
<1>2. CASE NextBlock(r, run[r], Collected(r))
  <2> DEFINE c == Collected(r)
  <2>1. c \in Body /\ c.goal # r /\ c.goal \in {body.goal, "none"}
    BY Facts, NullsApart DEF Collected, Body
  <2> HIDE DEF c
  <2>2. Yields(r, run[r], run, c)
    BY <1>1, <1>2, <2>1, Facts, NextBlockYields DEF c
  <2> QED  BY <2>1, <2>2, SameYields
<1>3. CASE Ends(r, run, LeavesGoal(r, body))
  <2>1. Yields(r, run[r], run, LeavesGoal(r, body))
    BY <1>3, Facts, LeavesGoalMoves, EndsYields
  <2> QED  BY <2>1, Facts, LeavesGoalMoves, SameYields
<1>4. CASE ~run[r].aborted /\ SetsOut(r, run[r], run, body)
  BY <1>1, <1>4, Facts, SetsOutYields
<1> QED  BY <1>2, <1>3, <1>4 DEF CollectReturns

LEMMA MovingYields ==
  ASSUME MoveInv, NEW r \in Invocations, Moving(r)
  PROVE  Yields(r, run[r], run, body) /\ UNCHANGED <<tool, target, place>>
<1>1. Yields(r, run[r], run, body)
  BY UnwindYields, WalkArrivesYields, PathFailsYields, PauseEndsYields, FlightEndsYields,
     PaceEndsYields, MonitorsYields, RecoversYields, ClickReturnsYields, CollectWalksYields,
     CollectReturnsYields DEF Moving
<1>2. UNCHANGED <<tool, target, place>>
  BY DEF Moving, Unwind, WalkArrives, PathFails, PauseEnds, FlightEnds, PaceEnds, Monitors, Recovers, ClickReturns,
         CollectWalks, CollectReturns
<1> QED  BY <1>1, <1>2

-----------------------------------------------------------------------------
(***************************************************************************)
(* The first step of a handler, in the breath that aborts the active one.  *)
(***************************************************************************)
LEMMA StoppedIs ==
  ASSUME MoveInv
  PROVE  /\ Stopped \in [Invocations -> RunState] /\ StoppedBody \in Body
         /\ StoppedBody.goal \in {body.goal, "none"}
         /\ StoppedBody.flying = body.flying /\ StoppedBody.enabled = body.enabled
         /\ \A q \in Invocations :
              /\ Shaped(Stopped[q]) /\ (StoppedBody.goal = q => MayHold(Stopped[q]))
              /\ Stopped[q].skill = "none" \/ Stopped[q].aborted
              /\ ~Active(q) => Stopped[q] = run[q]
<1>1. MoveTyped /\ run \in [Invocations -> RunState] /\ body \in Body
  BY DEF MoveInv, MoveTyped
<1>2. \A q \in Invocations :
         /\ Stopped[q] \in RunState /\ Stopped[q].aborted = (run[q].aborted \/ Active(q))
         /\ Stopped[q].skill = run[q].skill /\ Stopped[q].at = run[q].at /\ Stopped[q].mode = run[q].mode
         /\ ~Active(q) => Stopped[q] = run[q]
  BY <1>1 DEF Stopped, RunState
<1>3. Stopped \in [Invocations -> RunState]
  BY <1>2 DEF Stopped
<1>4. /\ StoppedBody \in Body /\ StoppedBody.goal = GoalAfterStop
      /\ StoppedBody.flying = body.flying /\ StoppedBody.enabled = body.enabled
  BY <1>1 DEF StoppedBody, GoalAfterStop, Body
<1>5. StoppedBody.goal \in {body.goal, "none"}
  BY <1>4 DEF GoalAfterStop
<1>6. ASSUME NEW q \in Invocations
      PROVE  /\ Shaped(Stopped[q]) /\ (StoppedBody.goal = q => MayHold(Stopped[q]))
             /\ Stopped[q].skill = "none" \/ Stopped[q].aborted
  <2>1. Shaped(run[q]) /\ (body.goal = q => MayHold(run[q])) /\ run[q] \in RunState
    BY Facts
  <2>2. Shaped(Stopped[q])
    BY <1>2, <2>1 DEF Shaped, Active
  <2>3. ASSUME StoppedBody.goal = q PROVE MayHold(Stopped[q])
    <3>1. body.goal = q /\ ~(Active(q) /\ run[q].at \in {"walk", "track"})
      BY <1>4, <2>3, NullsApart DEF GoalAfterStop
    <3>2. Stopped[q].aborted => run[q].aborted \/ run[q].at \in {"pace", "collect"}
      BY <1>2, <2>1, <3>1 DEF MayHold
    <3> QED  BY <1>2, <2>1, <3>1, <3>2 DEF MayHold
  <2>4. Stopped[q].skill = "none" \/ Stopped[q].aborted
    BY <1>2, <2>1 DEF Active
  <2> QED  BY <2>2, <2>3, <2>4
<1> QED  BY <1>2, <1>3, <1>4, <1>5, <1>6

(* A new handler of the skill.                                             *)
Fresh(o) == o \in RunState /\ ~o.aborted /\ o.at = "idle" /\ o.mode = "none" /\ o.skill # "none"

LEMMA FreshIs ==
  ASSUME MoveTyped, NEW s \in Skills \ {"none"}
  PROVE  Fresh(As(s)) /\ As(s).skill = s
<1>1. NoRun \in RunState /\ ~NoRun.aborted /\ NoRun.at = "idle"
  BY NoRunSound DEF Sound
<1>2. NoRun.mode = "none"
  BY DEF NoRun, Blank
<1> QED  BY <1>1, <1>2 DEF Fresh, As, RunState

LEMMA NotItsGoal ==
  ASSUME MoveInv, NEW r \in Invocations, Starts(r)
  PROVE  StoppedBody.goal # r
<1>1. Shaped(run[r]) /\ (body.goal = r => MayHold(run[r])) /\ run[r].skill = "none"
  BY Facts DEF Starts
<1>2. body.goal # r
  BY <1>1 DEF Shaped, MayHold
<1>3. StoppedBody.goal \in {body.goal, "none"}
  BY StoppedIs
<1> QED  BY <1>2, <1>3, NullsApart

LEMMA RefusedYields ==
  ASSUME MoveInv, NEW r \in Invocations, Starts(r), NEW o, Refused(r)
  PROVE  Yields(r, o, Stopped, StoppedBody)
  BY Facts, StoppedIs, NotItsGoal, EndsYields DEF Refused

LEMMA TravelsYields ==
  ASSUME MoveInv, NEW r \in Invocations, Starts(r), NEW o, Fresh(o), o.skill \in {"goto", "survey"},
         Travels(r, o)
  PROVE  Yields(r, o, Stopped, StoppedBody)
<1>1. MoveTyped /\ Stopped \in [Invocations -> RunState] /\ StoppedBody \in Body /\ StoppedBody.goal # r
  BY Facts, StoppedIs, NotItsGoal
<1>2. CASE body.enabled
  <2> DEFINE n == [o EXCEPT !.at = "fly"]
  <2>1. Flying(n) /\ n.skill = o.skill /\ n.aborted = o.aborted
    BY DEF Fresh, Flying, RunState, Spots
  <2>2. Flies(r, n, Stopped, StoppedBody)
    BY <1>2 DEF Travels
  <2> HIDE DEF n
  <2>3. Yields(r, n, Stopped, StoppedBody)
    BY <1>1, <2>1, <2>2, FliesYields
  <2> QED  BY <2>1, <2>3, SameYields
<1>3. CASE ~body.enabled
  BY <1>1, <1>3, SetsOutYields DEF Travels, Fresh, Walkers
<1> QED  BY <1>2, <1>3

LEMMA ReachesYields ==
  ASSUME MoveInv, NEW r \in Invocations, Starts(r), NEW o, Fresh(o), o.skill \in {"use", "place"},
         Reaches(r, o)
  PROVE  Yields(r, o, Stopped, StoppedBody)
<1>1. MoveTyped /\ Stopped \in [Invocations -> RunState] /\ StoppedBody \in Body /\ StoppedBody.goal # r
  BY Facts, StoppedIs, NotItsGoal
<1>2. o \in RunState /\ ~o.aborted
  BY DEF Fresh
<1> QED  BY <1>1, <1>2, ClicksYields, SetsOutYields DEF Reaches, Walkers


LEMMA LooksFirst ==
  ASSUME MoveInv, NEW r \in Invocations, Starts(r), NEW o, Fresh(o), o.skill = "follow",
         target.how # "missing", Looks(r, o, Stopped, StoppedBody)
  PROVE  Yields(r, o, Stopped, StoppedBody)
  BY Facts, StoppedIs, NotItsGoal, LooksYields DEF Fresh

LEMMA BindsFirst ==
  ASSUME MoveInv, NEW r \in Invocations, Starts(r), NEW o, Fresh(o), o.skill = "follow",
         Binds(r, o, Stopped, StoppedBody)
  PROVE  Yields(r, o, Stopped, StoppedBody)
  BY Facts, StoppedIs, BindsYields DEF Fresh

LEMMA PickupYields ==
  ASSUME MoveInv, NEW r \in Invocations, PickupNearby(r)
  PROVE  Yields(r, As("pickup"), Stopped, StoppedBody)
<1>1. Starts(r) /\ MoveTyped
  BY Facts DEF PickupNearby
<1>2. Fresh(As("pickup")) /\ As("pickup").skill = "pickup"
  BY <1>1, FreshIs DEF Skills
<1>3. PICK n \in 0 .. MaxDrops :
        IF n = 0 THEN Refused(r)
        ELSE SetsOut(r, [As("pickup") EXCEPT !.drops = n], Stopped, StoppedBody)
  BY DEF PickupNearby
<1>4. CASE n = 0
  BY <1>1, <1>3, <1>4, RefusedYields
<1>5. CASE n # 0
  <2> DEFINE o == [As("pickup") EXCEPT !.drops = n]
  <2>1. n \in Nat
    BY MovementAssumption
  <2>2. o \in RunState /\ o.skill = "pickup" /\ ~o.aborted
    BY <1>2, <2>1 DEF Fresh, RunState
  <2>3. SetsOut(r, o, Stopped, StoppedBody)
    BY <1>3, <1>5
  <2> HIDE DEF o
  <2>4. Yields(r, o, Stopped, StoppedBody)
    BY <1>1, <2>2, <2>3, StoppedIs, SetsOutYields DEF Walkers
  <2> QED  BY <1>2, <2>2, <2>4, SameYields DEF Fresh, RunState
<1> QED  BY <1>4, <1>5

LEMMA GatherYields ==
  ASSUME MoveInv, NEW r \in Invocations, Gather(r)
  PROVE  Yields(r, As("gather"), Stopped, StoppedBody)
<1>1. Starts(r) /\ MoveTyped
  BY Facts DEF Gather
<1>2. Fresh(As("gather")) /\ As("gather").skill = "gather"
  BY <1>1, FreshIs DEF Skills
<1>3. PICK n \in 0 .. MaxDrops :
        IF n = 0 THEN Refused(r)
        ELSE Collects(r, [As("gather") EXCEPT !.drops = n], Stopped, StoppedBody)
  BY DEF Gather
<1>4. CASE n = 0
  BY <1>1, <1>3, <1>4, RefusedYields
<1>5. CASE n # 0
  <2> DEFINE o == [As("gather") EXCEPT !.drops = n]
  <2>1. n \in Nat
    BY MovementAssumption
  <2>2. o \in RunState /\ o.skill = "gather" /\ ~o.aborted
    BY <1>2, <2>1 DEF Fresh, RunState
  <2>3. Collects(r, o, Stopped, StoppedBody)
    BY <1>3, <1>5
  <2> HIDE DEF o
  <2>4. Yields(r, o, Stopped, StoppedBody)
    BY <1>1, <2>2, <2>3, StoppedIs, CollectsYields
  <2> QED  BY <1>2, <2>2, <2>4, SameYields DEF Fresh, RunState
<1> QED  BY <1>4, <1>5

LEMMA UseYields ==
  ASSUME MoveInv, NEW r \in Invocations, ActivateBlock(r) \/ Sleep(r)
  PROVE  \E o : ~o.aborted /\ Yields(r, o, Stopped, StoppedBody)
<1>1. Starts(r) /\ MoveTyped
  BY Facts DEF ActivateBlock, Sleep
<1> DEFINE o == [As("use") EXCEPT !.saw = place]
           s == As("use")
<1>2. Fresh(s) /\ s.skill = "use"
  BY <1>1, FreshIs DEF Skills
<1>3. CASE Refused(r)
  BY <1>1, <1>2, <1>3, RefusedYields DEF Fresh
<1>4. CASE place = Bed /\ Reaches(r, s)
  <2> HIDE DEF s
  <2> QED  BY <1>1, <1>2, <1>4, ReachesYields DEF Fresh
<1>5. CASE place \in Kinds /\ Reaches(r, o)
  <2>1. Fresh(o) /\ o.skill = "use"
    BY <1>2, <1>5 DEF Fresh, RunState
  <2> HIDE DEF o
  <2> QED  BY <1>1, <1>5, <2>1, ReachesYields DEF Fresh
<1>6. place = Bed => place \in Kinds
  BY MovementAssumption
<1>7. place # Gone => place \in Kinds
  BY <1>1 DEF MoveTyped
<1> QED  BY <1>3, <1>5, <1>6, <1>7 DEF ActivateBlock, Sleep

LEMMA BeginYields ==
  ASSUME MoveInv, NEW r \in Invocations, Begin(r)
  PROVE  \E o : ~o.aborted /\ Yields(r, o, Stopped, StoppedBody)
<1> DEFINE Begun == \E o : ~o.aborted /\ Yields(r, o, Stopped, StoppedBody)
<1>1. MoveTyped
  BY Facts
<1>2. \A s \in Skills \ {"none"} : Fresh(As(s)) /\ As(s).skill = s /\ ~As(s).aborted
  BY <1>1, FreshIs DEF Fresh
<1>3. ASSUME Starts(r), Refused(r) PROVE Begun
  BY <1>2, <1>3, RefusedYields DEF Skills
<1>4. ASSUME Starts(r), NEW s \in {"goto", "survey"}, Travels(r, As(s)) PROVE Begun
  <2>1. Fresh(As(s)) /\ As(s).skill = s /\ ~As(s).aborted
    BY <1>2 DEF Skills
  <2> QED  BY <1>4, <2>1, TravelsYields
<1>5. CASE GotoCoords(r) \/ GotoPlayer(r) \/ ReturnToBase(r) \/ SurveyArea(r)
  BY <1>3, <1>4, <1>5 DEF GotoCoords, GotoPlayer, ReturnToBase, SurveyArea
<1>6. CASE ActivateBlock(r) \/ Sleep(r)
  BY <1>6, UseYields
<1>7. CASE PlaceAt(r)
  <2>1. Fresh(As("place")) /\ As("place").skill = "place" /\ ~As("place").aborted
    BY <1>2 DEF Skills
  <2> QED  BY <1>3, <1>7, <2>1, ReachesYields DEF PlaceAt
<1>8. CASE PickupNearby(r)
  <2>1. ~As("pickup").aborted
    BY <1>2 DEF Skills
  <2> QED  BY <1>8, <2>1, PickupYields
<1>9. CASE FollowPlayer(r)
  <2>1. Fresh(As("follow")) /\ As("follow").skill = "follow" /\ ~As("follow").aborted
    BY <1>2 DEF Skills
  <2> QED  BY <1>3, <1>9, <2>1, LooksFirst, BindsFirst DEF FollowPlayer
<1>10. CASE Gather(r)
  <2>1. ~As("gather").aborted
    BY <1>2 DEF Skills
  <2> QED  BY <1>10, <2>1, GatherYields
<1> QED  BY <1>5, <1>6, <1>7, <1>8, <1>9, <1>10 DEF Begin

-----------------------------------------------------------------------------
(***************************************************************************)
(* The invariant.                                                          *)
(***************************************************************************)
Live(n) == n.skill # "none" /\ ~n.aborted

LEMMA YieldsKeeps ==
  ASSUME MoveTyped, NEW r \in Invocations, NEW o, NEW rs \in [Invocations -> RunState], NEW b \in Body,
         \A q \in Invocations \ {r} : Shaped(rs[q]) /\ (b.goal = q => MayHold(rs[q])),
         \A p, q \in Invocations \ {r} : Live(rs[p]) /\ Live(rs[q]) => p = q,
         Live(o) => \A q \in Invocations \ {r} : ~Live(rs[q]),
         Yields(r, o, rs, b), UNCHANGED <<tool, target, place>>
  PROVE  MoveInv'
<1>1. MoveTyped'
  BY DEF MoveTyped, Yields, Sound
<1>2. \A q \in Invocations \ {r} : run'[q] = rs[q]
  BY DEF Yields
<1>3. ~Live(NoRun)
  BY NoRunSound DEF Live
<1>4. Live(run'[r]) => Live(o)
  BY <1>3 DEF Yields, Live
<1>5. OneActive'
  <2>1. \A q \in Invocations : Active(q)' <=> Live(run'[q])
    BY DEF Active, Live
  <2> QED  BY <1>2, <1>4, <2>1 DEF OneActive
<1>6. ASSUME NEW q \in Invocations
      PROVE  Shaped(run'[q]) /\ (body'.goal = q => MayHold(run'[q]))
  <2>1. CASE q = r
    BY <2>1 DEF Yields, Sound
  <2>2. CASE q # r
    <3>1. body'.goal = q => b.goal = q
      BY <2>2, NullsApart DEF Yields
    <3> QED  BY <1>2, <2>2, <3>1
  <2> QED  BY <2>1, <2>2
<1> QED  BY <1>1, <1>5, <1>6 DEF MoveInv, Shaped, MayHold

LEMMA MovingKeeps ==
  ASSUME MoveInv, NEW r \in Invocations, Moving(r)
  PROVE  MoveInv'
<1>1. Yields(r, run[r], run, body) /\ UNCHANGED <<tool, target, place>>
  BY MovingYields
<1>2. \A q \in Invocations : Shaped(run[q]) /\ (body.goal = q => MayHold(run[q]))
  BY Facts
<1>3. \A p, q \in Invocations : Live(run[p]) /\ Live(run[q]) => p = q
  BY DEF MoveInv, OneActive, Active, Live
<1> QED  BY <1>1, <1>2, <1>3, Facts, YieldsKeeps

LEMMA BeginKeeps ==
  ASSUME MoveInv, NEW r \in Invocations, Begin(r)
  PROVE  MoveInv'
<1>1. PICK o : ~o.aborted /\ Yields(r, o, Stopped, StoppedBody)
  BY BeginYields
<1>2. UNCHANGED <<tool, target, place>>
  BY DEF Begin, GotoCoords, GotoPlayer, ReturnToBase, SurveyArea, ActivateBlock, Sleep, PlaceAt,
     PickupNearby, Gather, FollowPlayer, Starts
<1>3. \A q \in Invocations : ~Live(Stopped[q])
  BY StoppedIs DEF Live
<1>4. \A q \in Invocations : Shaped(Stopped[q]) /\ (StoppedBody.goal = q => MayHold(Stopped[q]))
  BY StoppedIs
<1> QED  BY <1>1, <1>2, <1>3, <1>4, Facts, StoppedIs, YieldsKeeps

LEMMA StopKeeps ==
  ASSUME MoveInv, Stop \/ EmergencyStop
  PROVE  MoveInv'
<1>1. run' = Stopped /\ body' \in {StoppedBody, Free(body)} /\ UNCHANGED <<tool, target, place, surveyed>>
  BY DEF Stop, EmergencyStop
<1>2. body' \in Body /\ body'.goal \in {StoppedBody.goal, "none"}
  BY <1>1, StoppedIs, BodyMoves DEF MoveInv, MoveTyped
<1>3. MoveTyped'
  BY <1>1, <1>2, StoppedIs DEF MoveInv, MoveTyped
<1>4. OneActive'
  BY <1>1, StoppedIs DEF OneActive, Active
<1>5. \A q \in Invocations : Shaped(run'[q]) /\ (body'.goal = q => MayHold(run'[q]))
  BY <1>1, <1>2, StoppedIs, NullsApart
<1> QED  BY <1>3, <1>4, <1>5 DEF MoveInv, Shaped, MayHold

(* setFlight and its answers, the followed player and the block.           *)
LEMMA RestKeeps ==
  ASSUME MoveInv, (\E on \in BOOLEAN : SetFlight(on)) \/ FlyAnswered \/ TookOff \/ Elsewhere
  PROVE  MoveInv' /\ run' = run /\ body'.goal = body.goal /\ surveyed' = surveyed
         /\ (body.flying => body'.flying \/ ~body'.enabled)
<1>0. MoveTyped /\ body \in Body
  BY DEF MoveInv, MoveTyped
<1>1. run' = run /\ surveyed' = surveyed
  BY DEF SetFlight, FlyAnswered, TookOff, Elsewhere
<1>2. ASSUME NEW on \in BOOLEAN, NEW b \in Body, Sets(on, b)
      PROVE  body' \in Body /\ body'.goal = b.goal /\ (b.flying => body'.flying \/ ~body'.enabled)
  BY <1>2 DEF Sets, Aloft, Landed, Body
<1>3. body' \in Body /\ body'.goal = body.goal /\ (body.flying => body'.flying \/ ~body'.enabled)
  <2>1. CASE \E on \in BOOLEAN : SetFlight(on)
    BY <1>0, <1>2, <2>1 DEF SetFlight
  <2>2. CASE FlyAnswered
    BY <1>0, <1>2, <2>2 DEF FlyAnswered
  <2>3. CASE TookOff
    BY <1>0, <2>3 DEF TookOff, Body
  <2>4. CASE Elsewhere
    BY <1>0, <2>4 DEF Elsewhere
  <2> QED  BY <2>1, <2>2, <2>3, <2>4
<1>4. MoveTyped'
  <2>1. tool' \in {"none", "on", "off", "takeoff"}
    BY <1>0 DEF MoveTyped, SetFlight, FlyAnswered, TookOff, Elsewhere
  <2>2. target' \in [who : Entities, how : {"ground", "flying", "missing"}] /\ place' \in Kinds \cup {Gone}
    BY <1>0 DEF MoveTyped, SetFlight, FlyAnswered, TookOff, Elsewhere
  <2> QED  BY <1>0, <1>1, <1>3, <2>1, <2>2 DEF MoveTyped
<1>5. OneActive'
  BY <1>1 DEF MoveInv, OneActive, Active
<1>6. \A q \in Invocations : Shaped(run'[q]) /\ (body'.goal = q => MayHold(run'[q]))
  BY <1>1, <1>3, Facts
<1> QED  BY <1>1, <1>3, <1>4, <1>5, <1>6 DEF MoveInv, Shaped, MayHold

LEMMA MoveInitInv == MoveInit => MoveInv
<1> SUFFICES ASSUME MoveInit PROVE MoveInv
  OBVIOUS
<1>1. target.who \in Entities
  BY DEF MoveInit
<1>2. (CHOOSE e \in Entities : TRUE) \in Entities /\ (CHOOSE k \in Kinds : TRUE) \in Kinds
  BY <1>1, MovementAssumption
<1>3. NoRun \in RunState /\ NoRun.skill = "none" /\ NoRun.at = "idle" /\ ~NoRun.aborted
  BY <1>2 DEF NoRun, Blank, RunState, Skills, Spots
<1>4. run \in [Invocations -> RunState] /\ \A q \in Invocations : run[q] = NoRun
  BY <1>3 DEF MoveInit
<1>5. MoveTyped
  BY <1>4 DEF MoveInit, MoveTyped, Body
<1>6. OneActive
  BY <1>3, <1>4 DEF OneActive, Active
<1>7. \A q \in Invocations : Shaped(run[q]) /\ (body.goal = q => MayHold(run[q]))
  BY <1>3, <1>4, NullsApart DEF MoveInit, Shaped
<1> QED  BY <1>5, <1>6, <1>7 DEF MoveInv

LEMMA MoveNextKeeps == MoveInv /\ [MoveNext]_moveVars => MoveInv'
<1> SUFFICES ASSUME MoveInv, [MoveNext]_moveVars PROVE MoveInv'
  OBVIOUS
<1>1. CASE UNCHANGED moveVars
  BY <1>1 DEF moveVars, MoveInv, MoveTyped, OneActive, Active, Shaped, MayHold
<1>2. CASE MoveNext
  BY <1>2, MovingKeeps, BeginKeeps, StopKeeps, RestKeeps DEF MoveNext
<1> QED  BY <1>1, <1>2

(* The invariant holds always.                                             *)
THEOREM MoveInvariance == MoveSpec => []MoveInv
<1> QED  BY MoveInitInv, MoveNextKeeps, PTL DEF MoveSpec

-----------------------------------------------------------------------------
(***************************************************************************)
(* The properties.                                                         *)
(***************************************************************************)
LEMMA StartedSkill ==
  ASSUME NEW r \in Invocations, Begin(r)
  PROVE  Starts(r)
  BY DEF Begin, GotoCoords, GotoPlayer, ReturnToBase, SurveyArea, ActivateBlock, Sleep, PlaceAt,
     PickupNearby, Gather, FollowPlayer

(* Who is stopped and neither unwinds now nor flies nor is inside          *)
(* collect(), does nothing.                                                *)
LEMMA StoppedSteps ==
  ASSUME MoveInv, NEW r \in Invocations, run[r].aborted, Moving(r)
  PROVE  Unwind(r) \/ FlightEnds(r) \/ ClickReturns(r) \/ CollectWalks(r) \/ CollectReturns(r)
  BY DEF Moving, WalkArrives, PathFails, PauseEnds, PaceEnds, Monitors, Recovers, Tracks, Quiet, Unwinding

(* The step of a flight that was stopped, and of a gathering.              *)
Paces(r) == run'[r].at = "pace" /\ run'[r].tries = run[r].tries /\ run'[r].drops = run[r].drops

LEMMA StoppedCollect ==
  ASSUME MoveInv, NEW r \in Invocations, run[r].aborted, CollectWalks(r) \/ CollectReturns(r)
  PROVE  run'[r] = NoRun \/ run'[r] = run[r]
<1>1. run \in [Invocations -> RunState]
  BY Facts
<1>2. CollectWalks(r) => run'[r] = run[r]
  BY <1>1 DEF CollectWalks, Waits
<1>3. CollectReturns(r) => run'[r] = NoRun
  BY <1>1 DEF CollectReturns, NextBlock, Ends
<1> QED  BY <1>2, <1>3

LEMMA StoppedFlight ==
  ASSUME MoveInv, NEW r \in Invocations, run[r].aborted, FlightEnds(r)
  PROVE  /\ run'[r] = NoRun \/ Paces(r)
         /\ run[r].skill = "survey" => run[r].at = "fly"
<1>1. run \in [Invocations -> RunState] /\ run[r] \in RunState /\ Shaped(run[r])
  BY Facts
<1>2. run[r].at \in {"fly", "descend"}
  BY DEF FlightEnds
<1>3. \A b : Ends(r, run, b) => run'[r] = NoRun
  BY <1>1 DEF Ends
<1>4. ASSUME NEW b, Lands(r, run[r], run, b) PROVE Paces(r)
  BY <1>1, <1>4 DEF Lands, Waits, RunState, Paces
<1>5. ASSUME NEW b, Waits(r, [run[r] EXCEPT !.at = "pace"], run, b)
      PROVE  Paces(r)
  BY <1>1, <1>5 DEF Waits, RunState, Paces
<1>6. Surveys(r, run, body) => run'[r] = NoRun
  BY <1>1 DEF Surveys
<1>7. run'[r] = NoRun \/ Paces(r)
  BY <1>3, <1>4, <1>5, <1>6 DEF FlightEnds, Flown, FollowEnds
<1> QED  BY <1>1, <1>2, <1>7 DEF Shaped

LEMMA OthersStay ==
  ASSUME MoveInv, NEW q \in Invocations, NEW r \in Invocations \ {q}, Moving(q)
  PROVE  run'[r] = run[r]
<1>1. Yields(q, run[q], run, body)
  BY MovingYields
<1> QED  BY <1>1, Facts DEF Yields

LEMMA OthersStop ==
  ASSUME MoveInv, NEW q \in Invocations, NEW r \in Invocations \ {q}, Begin(q)
  PROVE  run'[r] = Stopped[r]
<1>1. PICK o : Yields(q, o, Stopped, StoppedBody)
  BY BeginYields
<1> QED  BY <1>1, StoppedIs DEF Yields

LEMMA StoppedDoes ==
  ASSUME MoveInv, NEW r \in Invocations
  PROVE  Stopped[r] = run[r] \/ (Active(r) /\ Stopped[r].aborted /\ Stopped[r].at = run[r].at)
<1>1. run[r] \in RunState
  BY Facts
<1> QED  BY <1>1 DEF Stopped, RunState

(* What a step does to one handler: another's step leaves or stops it.     *)
LEMMA StepOf ==
  ASSUME MoveInv, MoveNext, NEW r \in Invocations
  PROVE  \/ Moving(r) \/ Begin(r)
         \/ run'[r] = run[r]
         \/ run'[r] = Stopped[r] /\ Active(r)
<1>1. CASE \E q \in Invocations : Moving(q)
  BY <1>1, OthersStay
<1>2. CASE \E q \in Invocations : Begin(q)
  <2>1. PICK q \in Invocations : Begin(q)
    BY <1>2
  <2>2. CASE q = r
    BY <2>1, <2>2
  <2>3. CASE q # r
    BY <2>1, <2>3, OthersStop, StoppedDoes
  <2> QED  BY <2>2, <2>3
<1>3. CASE Stop \/ EmergencyStop
  BY <1>3, StoppedDoes DEF Stop, EmergencyStop
<1>4. CASE (\E on \in BOOLEAN : SetFlight(on)) \/ FlyAnswered \/ TookOff \/ Elsewhere
  BY <1>4, RestKeeps
<1> QED  BY <1>1, <1>2, <1>3, <1>4 DEF MoveNext

LEMMA NeverRevived ==
  ASSUME MoveInv, MoveNext, NEW r \in Invocations
  PROVE  StaysStopped(r)
<1> SUFFICES ASSUME run[r].aborted, run'[r].aborted
             PROVE  /\ run'[r].at \in {run[r].at, "pace"}
                    /\ run'[r].tries = run[r].tries /\ run'[r].drops = run[r].drops
  BY DEF StaysStopped
<1>1. ~NoRun.aborted /\ MoveTyped
  BY Facts, NoRunSound
<1>2. CASE Moving(r)
  <2>1. CASE Unwind(r) \/ ClickReturns(r)
    <3>1. run'[r] = NoRun
      BY <2>1, Facts DEF Unwind, ClickReturns, Ends
    <3> QED  BY <1>1, <3>1
  <2>2. CASE FlightEnds(r)
    BY <1>1, <2>2, StoppedFlight DEF Paces
  <2>3. CASE CollectWalks(r) \/ CollectReturns(r)
    BY <1>1, <2>3, StoppedCollect
  <2> QED  BY <1>2, <2>1, <2>2, <2>3, StoppedSteps
<1>3. CASE Begin(r)
  <2>1. run[r].skill = "none"
    BY <1>3, StartedSkill DEF Starts
  <2> QED  BY <2>1, Facts DEF Shaped
<1>4. CASE run'[r] = Stopped[r] /\ Active(r)
  BY <1>4 DEF Active
<1> QED  BY <1>2, <1>3, <1>4, StepOf

LEMMA ClickedIsChosen ==
  ASSUME MoveInv, MoveNext, NEW r \in Invocations
  PROVE  ClicksWell(r)
<1> SUFFICES ASSUME run[r].at # "click", run'[r].at = "click"
             PROVE  /\ ~run'[r].aborted
                    /\ run'[r].skill = "use" => place = run'[r].saw
                    /\ run'[r].skill = "place" => place # Gone
  BY DEF ClicksWell
<1>1. NoRun.at = "idle" /\ ~NoRun.aborted
  BY Facts, NoRunSound
<1>2. CASE Moving(r)
  <2>1. Yields(r, run[r], run, body)
    BY <1>2, MovingYields
  <2>2. Fits(run'[r])
    BY <2>1 DEF Yields
  <2>3. ~run'[r].aborted
    <3>1. CASE run[r].aborted
      <4>1. Unwind(r) \/ ClickReturns(r) => run'[r] = NoRun
        BY Facts DEF Unwind, ClickReturns, Ends
      <4>2. run'[r] = NoRun \/ run'[r].at = "pace" \/ run'[r] = run[r]
        BY <1>2, <3>1, <4>1, StoppedSteps, StoppedFlight, StoppedCollect DEF Paces
      <4> QED  BY <1>1, <4>2
    <3>2. CASE ~run[r].aborted
      BY <1>1, <2>1, <3>2 DEF Yields
    <3> QED  BY <3>1, <3>2
  <2> QED  BY <2>2, <2>3 DEF Fits, Reference
<1>3. CASE Begin(r)
  <2>1. PICK o : ~o.aborted /\ Yields(r, o, Stopped, StoppedBody)
    BY <1>3, BeginYields
  <2>2. ~run'[r].aborted /\ Fits(run'[r])
    BY <1>1, <2>1 DEF Yields
  <2> QED  BY <2>2 DEF Fits, Reference
<1>4. CASE run'[r] = Stopped[r] /\ Active(r)
  BY <1>4, StoppedDoes
<1> QED  BY <1>2, <1>3, <1>4, StepOf

LEMMA OnlyArrivals ==
  ASSUME MoveInv, MoveNext, NEW r \in Invocations, run[r].skill = "survey", run[r].aborted, surveyed # surveyed'
  PROVE  run[r].at = "fly" \/ run'[r] = run[r]
<1>1. CASE Moving(r)
  <2>1. CASE Unwind(r) \/ ClickReturns(r)
    BY <2>1 DEF Unwind, ClickReturns, Ends
  <2>2. run[r].at # "collect"
    BY Facts DEF Shaped
  <2> QED  BY <1>1, <2>1, <2>2, StoppedSteps, StoppedFlight DEF CollectWalks, CollectReturns
<1>2. CASE Begin(r)
  BY <1>2, StartedSkill DEF Starts
<1>3. CASE run'[r] = Stopped[r] /\ Active(r)
  BY <1>3 DEF Active
<1> QED  BY <1>1, <1>2, <1>3, StepOf

(* A stopped run tries no other way, clicks nothing, goes after no other   *)
(* drop or block and leaves no goal with the pathfinder but from inside    *)
(* collect(), whatever skill, stop, deadline or flight comes in between;   *)
(* what is clicked is what was chosen (StoppedStaysStopped).               *)
THEOREM StopsHold == MoveSpec => StoppedStaysStopped
<1> DEFINE Own == Quiet /\ body.goal \in Invocations
                    => Active(body.goal) \/ run[body.goal].at = "collect"
           One == \A r \in Invocations : StaysStopped(r) /\ ClicksWell(r)
           Two == \A r \in Invocations : run[r].skill = "survey" /\ run[r].aborted /\ surveyed # surveyed'
                    => run[r].at = "fly" \/ run'[r] = run[r]
<1>1. MoveInv => Own
  BY DEF MoveInv, Quiet, Unwinding, Active, Shaped, MayHold
<1>2. MoveInv /\ [MoveNext]_moveVars => [One]_moveVars
  BY NeverRevived, ClickedIsChosen
<1>3. MoveInv /\ [MoveNext]_moveVars => [Two]_moveVars
  BY OnlyArrivals
<1> QED  BY <1>1, <1>2, <1>3, MoveInvariance, PTL DEF MoveSpec, StoppedStaysStopped

(* Runs, body and surroundings are what they are declared to be.           *)
THEOREM MoveTypeCorrect == MoveSpec => []MoveTyped
<1>1. MoveInv => MoveTyped
  BY DEF MoveInv
<1> QED  BY <1>1, MoveInvariance, PTL

-----------------------------------------------------------------------------
(***************************************************************************)
(* The frames of a handler.                                                *)
(***************************************************************************)
Craftable == {"oak_planks", "oak_door", "stone_pickaxe", "wooden_pickaxe"}

RetrieveFrames ==
  [do : {"retrieveItem"}, at : {"call", "next"}, item : Items, want : Int, only : Chests \cup {"any"},
   except : Chests \cup {"none"}, todo : SUBSET Chests, have : Int]
  \cup
  [do : {"retrieveItem"}, at : {"open"}, item : Items, want : Int, only : Chests \cup {"any"},
   except : Chests, todo : SUBSET Chests, have : Int]
ScanFrames    == [do : {"scanContainer"}, at : {"call", "look"}, item : Chests, want : {0}]
DepositFrames ==
  [do : {"chestDeposit"}, at : {"call", "reach", "next", "put"}, item : Items, want : Int,
   chest : Chests, todo : SUBSET Items, piece : Items \X Int]
MineFrames ==
  [do : {"mineUntil"}, at : {"call", "next", "collect"}, item : Items, want : Int, block : Blocks,
   first : Int, have : Int]
ChopFrames  == [do : {"chopTrees"}, at : {"call", "next", "collect"}, item : {"oak_log"}, want : {1}]
CraftFrames == [do : {"craftItem"}, at : {"call", "table", "craft"}, item : Craftable, want : Int]
EquipFrames == [do : {"equipBestTool"}, at : {"call", "equip"}, item : Blocks, want : {0}]
ToolFrames  ==
  [do : {"ensureTool"}, at : {"call", "equipped", "next", "crafted", "again"}, item : Blocks,
   want : {0}, todo : Seq(Tools)]
SmeltFrames ==
  [do : {"smeltItem"}, at : {"call", "reach", "load", "fuel", "next", "take", "burn"}, item : Items,
   want : Int, input : Items, need : Int, got : Int]

PreparePlaces == {"none", "call", "answered", "asked", "store", "gather", "logs", "chopped", "planks", "planked",
                  "doors", "doored", "pickaxe", "stone", "dirt", "sand", "fueltool", "fuel", "smelt",
                  "final"}
PrepareFrames ==
  [do : {"prepare"}, at : PreparePlaces, then : PreparePlaces, todo : SUBSET Items, tries : Int,
   before : Int, logs : Int, planks : Int]

\* Only what has a recipe for the furnace is produced.
EarlyPlaces == {"none", "call", "answered", "asked", "found", "brought", "found2", "elsewhere", "bring",
                "brought2", "found3", "produce"}
LatePlaces  == {"tool", "input", "fuelstock", "fueltool", "fuel", "smelt", "bringit", "brought3", "verify"}
SupplyFrames ==
  [do : {"supply"}, at : EarlyPlaces, item : Items, want : Int, then : EarlyPlaces, chest : Chests]
  \cup
  [do : {"supply"}, at : EarlyPlaces \cup LatePlaces, item : Smelted, want : Int,
   then : EarlyPlaces \cup LatePlaces, chest : Chests]

RestockFrames ==
  [do : {"restock"}, at : {"none", "call", "answered", "asked", "next", "note"}, then : {"none", "note"},
   todo : SUBSET Items, failed : BOOLEAN]

Crops == {i \in Items : Seed(i) \in Items}
HarvestFrames ==
  [do : {"harvest"}, at : {"none", "call", "answered", "asked", "next", "collect", "plant", "done"},
   item : Crops, then : {"none", "done"}, todo : SUBSET Nat, cell : Nat]

LeafFrames ==
  RetrieveFrames \cup ScanFrames \cup DepositFrames \cup MineFrames \cup ChopFrames \cup CraftFrames
  \cup EquipFrames \cup ToolFrames \cup SmeltFrames
Frames == LeafFrames \cup PrepareFrames \cup SupplyFrames \cup RestockFrames \cup HarvestFrames

(* What a frame may still do to the world once its signal is aborted.      *)
Acting ==
  {<<"retrieveItem", "open">>, <<"chestDeposit", "put">>, <<"mineUntil", "collect">>,
   <<"chopTrees", "collect">>, <<"craftItem", "table">>, <<"craftItem", "craft">>,
   <<"smeltItem", "reach">>, <<"smeltItem", "load">>, <<"smeltItem", "fuel">>,
   <<"smeltItem", "take">>, <<"harvest", "plant">>}
Pending(f) ==
  IF <<f.do, f.at>> = <<"harvest", "collect">> THEN 2 ELSE IF <<f.do, f.at>> \in Acting THEN 1 ELSE 0
Bound == IF scene.skill = "harvestFarm" THEN 2 ELSE 1

-----------------------------------------------------------------------------
(***************************************************************************)
(* The invariant.                                                          *)
(***************************************************************************)
Stocked ==
  /\ inv \in [Items -> Int] /\ chest \in [Chests -> [Items -> Int]] /\ index \in [Chests -> [Items -> Int]]
  /\ furnace \in [input : Int, fuel : Int, output : Int]

(* The composite skill of the request, which is the first frame: in a      *)
(* mission it gets no further than the store; a harvest keeps to its field.*)
Own(f) ==
  /\ f.do = CASE scene.skill = "prepareBlueprintMaterials" -> "prepare"
              [] scene.skill = "supplyContainer"  -> "supply"
              [] scene.skill = "restockInventory" -> "restock"
              [] scene.skill = "harvestFarm"      -> "harvest"
  /\ f.do = "prepare" /\ scene.mission =>
       /\ f.at \in {"none", "call", "store", "answered", "final"}
       /\ f.then \in {"none", "store"}
  /\ f.do = "prepare" /\ scene.storage = "none" => f.todo = {}
  /\ f.do = "harvest" =>
       /\ f.todo \subseteq DOMAIN scene.field
       /\ f.at \in {"collect", "plant"} => f.cell \in DOMAIN scene.field

\* One composite skill, then those it awaits; none below the top is about to act.
Stacked ==
  /\ stack \in Seq(Frames)
  /\ \A i \in 1 .. Len(stack) :
       /\ stack[i].do \in Composite <=> i = 1
       /\ i < Len(stack) => Pending(stack[i]) = 0
  /\ stack # <<>> => Own(stack[1])

Ledger ==
  /\ late \in Nat /\ late <= Bound
  /\ ~aborted => late = 0
  /\ aborted /\ stack # <<>> => late + Pending(Top) <= Bound

Bare(f) == {c \in DOMAIN f : f[c] = "bare"}

\* A reaped cell has its seed; the faults paid for every other bare one.
Tended ==
  /\ field \in Seq({"ripe", "bare", "sown", "spoilt"}) /\ Len(field) = Len(scene.field)
  /\ faults \in Nat
  /\ Runs("harvest", "collect") => inv[SeedOf] >= 1
  /\ Cardinality(Bare(field))
       <= scene.faults - faults + IF Runs("harvest", "plant") /\ field[Top.cell] = "bare" THEN 1 ELSE 0

ProvInv == scene \in Scenarios /\ aborted \in BOOLEAN /\ Stocked /\ Stacked /\ Ledger /\ Tended

-----------------------------------------------------------------------------
(***************************************************************************)
(* Sequences of frames.                                                    *)
(***************************************************************************)
LEMMA FrontIs ==
  ASSUME NEW F, NEW s \in Seq(F), s # <<>>
  PROVE  /\ Front(s) \in Seq(F) /\ Len(Front(s)) = Len(s) - 1
         /\ \A i \in 1 .. Len(s) - 1 : Front(s)[i] = s[i]
         /\ Len(s) >= 1 /\ s[Len(s)] \in F /\ s[1] \in F
<1>1. Len(s) \in Nat /\ Len(s) >= 1
  OBVIOUS
<1>2. Front(s) = [i \in 1 .. Len(s) - 1 |-> s[i]]
  BY <1>1 DEF Front
<1> QED  BY <1>1, <1>2

LEMMA AppendIs ==
  ASSUME NEW F, NEW t \in Seq(F), NEW f \in F
  PROVE  /\ Append(t, f) \in Seq(F) /\ Len(Append(t, f)) = Len(t) + 1
         /\ Append(t, f)[Len(t) + 1] = f
         /\ \A i \in 1 .. Len(t) : Append(t, f)[i] = t[i]
  OBVIOUS

LEMMA GoesIs ==
  ASSUME NEW F, stack \in Seq(F), stack # <<>>, NEW f \in F, Goes(f)
  PROVE  /\ stack' \in Seq(F) /\ Len(stack') = Len(stack) /\ stack'[Len(stack)] = f
         /\ \A i \in 1 .. Len(stack) - 1 : stack'[i] = stack[i]
<1>1. PICK t : t = Front(stack)
  OBVIOUS
<1>2. t \in Seq(F) /\ Len(t) = Len(stack) - 1 /\ \A i \in 1 .. Len(stack) - 1 : t[i] = stack[i]
  BY <1>1, FrontIs
<1>3. Len(stack) \in Nat
  OBVIOUS
<1>4. stack' = Append(t, f)
  BY <1>1 DEF Goes
<1> QED  BY <1>2, <1>3, <1>4, AppendIs

LEMMA PairIs ==
  ASSUME NEW F, NEW t \in Seq(F), NEW f \in F, NEW g \in F
  PROVE  t \o <<f, g>> = Append(Append(t, f), g)
  OBVIOUS

LEMMA CallIs ==
  ASSUME NEW F, stack \in Seq(F), stack # <<>>, NEW f \in F, NEW g \in F, Call(f, g)
  PROVE  /\ stack' \in Seq(F) /\ Len(stack') = Len(stack) + 1
         /\ stack'[Len(stack)] = f /\ stack'[Len(stack) + 1] = g
         /\ \A i \in 1 .. Len(stack) - 1 : stack'[i] = stack[i]
<1>1. PICK t : t = Front(stack)
  OBVIOUS
<1>2. t \in Seq(F) /\ Len(t) = Len(stack) - 1 /\ \A i \in 1 .. Len(stack) - 1 : t[i] = stack[i]
  BY <1>1, FrontIs
<1>3. Len(stack) \in Nat
  OBVIOUS
<1>4. PICK u : u = Append(t, f)
  OBVIOUS
<1>5. u \in Seq(F) /\ Len(u) = Len(stack) /\ u[Len(stack)] = f
      /\ \A i \in 1 .. Len(stack) - 1 : u[i] = stack[i]
  BY <1>2, <1>3, <1>4, AppendIs
<1>6. stack' = Append(u, g)
  BY <1>1, <1>2, <1>4, PairIs DEF Call
<1>7. /\ stack' \in Seq(F) /\ Len(stack') = Len(stack) + 1 /\ stack'[Len(stack) + 1] = g
      /\ \A i \in 1 .. Len(stack) : stack'[i] = u[i]
  BY <1>5, <1>6, AppendIs
<1> QED  BY <1>3, <1>5, <1>7

-----------------------------------------------------------------------------
(***************************************************************************)
(* How the stack goes on.                                                  *)
(***************************************************************************)
Spends(p) ==
  /\ late' \in Nat
  /\ ~aborted => late' = late
  /\ aborted => late' + p <= late + Pending(Top)

GoesOn(f) ==
  /\ Goes(f) /\ f \in Frames /\ f.do = Top.do /\ (Top.do \in Composite => Own(f)) /\ Spends(Pending(f))
AwaitsNext(f, g) ==
  /\ Call(f, g) /\ f \in Frames /\ f.do = Top.do /\ (Top.do \in Composite => Own(f)) /\ Pending(f) = 0
  /\ g \in LeafFrames /\ g.at = "call" /\ Spends(0)
GoesBack == stack' = Front(stack) /\ Spends(0)

Onward == stack # <<>> /\ ((\E f : GoesOn(f)) \/ (\E f, g : AwaitsNext(f, g)) \/ GoesBack)

LEMMA LeavesAre ==
  /\ \A f \in LeafFrames : f.do \notin Composite /\ f \in Frames
  /\ \A f \in LeafFrames : f.at = "call" => Pending(f) = 0
  BY DEF LeafFrames, Frames, Composite, RetrieveFrames, ScanFrames, DepositFrames, MineFrames, ChopFrames,
         CraftFrames, EquipFrames, ToolFrames, SmeltFrames, Pending, Acting

LEMMA PendingIs ==
  ASSUME NEW f
  PROVE  Pending(f) \in 0 .. 2 /\ (f.do # "harvest" => Pending(f) \in 0 .. 1)
         /\ (Pending(f) = 0 => f.do # "harvest" \/ f.at \notin {"collect", "plant"})
  BY DEF Pending, Acting

(* The first frame is the composite one.                                   *)
LEMMA TopIs ==
  ASSUME ProvInv, stack # <<>>
  PROVE  /\ Top \in Frames /\ Len(stack) \in Nat /\ Len(stack) >= 1 /\ Top = stack[Len(stack)]
         /\ Top.do \in Composite <=> Len(stack) = 1
         /\ Top.do \in Composite => Own(Top)
<1>1. stack \in Seq(Frames) /\ Len(stack) \in Nat /\ Len(stack) >= 1 /\ Top = stack[Len(stack)]
  BY DEF ProvInv, Stacked, Top
<1>5. \A i \in 1 .. Len(stack) : stack[i].do \in Composite <=> i = 1
  BY DEF ProvInv, Stacked
<1>6. Len(stack) \in 1 .. Len(stack)
  BY <1>1
<1>2. Top.do \in Composite <=> Len(stack) = 1
  BY <1>1, <1>5, <1>6
<1>3. Own(stack[1])
  BY DEF ProvInv, Stacked
<1>4. Len(stack) = 1 => Top = stack[1]
  BY <1>1
<1> QED  BY <1>1, <1>2, <1>3, <1>4

SameScene == scene' = scene /\ aborted' = aborted

LEMMA OwnStays == ASSUME scene' = scene, NEW f PROVE Own(f)' <=> Own(f)
  BY DEF Own

LEMMA OnwardStacks ==
  ASSUME ProvInv, Onward, SameScene
  PROVE  Stacked'
<1> DEFINE n == Len(stack)
<1>1. stack \in Seq(Frames) /\ stack # <<>> /\ n \in Nat /\ n >= 1 /\ Top = stack[n]
  BY TopIs DEF Onward, ProvInv, Stacked
<1>2. \A i \in 1 .. n : (stack[i].do \in Composite <=> i = 1) /\ (i < n => Pending(stack[i]) = 0)
  BY DEF ProvInv, Stacked
<1>3. Own(stack[1]) /\ (Top.do \in Composite => n = 1)
  BY <1>1, TopIs DEF ProvInv, Stacked
<1> HIDE DEF n
<1>4. CASE \E f : GoesOn(f)
  <2>1. PICK f : GoesOn(f)
    BY <1>4
  <2>2. stack' \in Seq(Frames) /\ Len(stack') = n /\ stack'[n] = f /\ \A i \in 1 .. n - 1 : stack'[i] = stack[i]
    <3>1. Goes(f) /\ f \in Frames
      BY <2>1 DEF GoesOn
    <3> QED  BY <1>1, <3>1, GoesIs DEF n
  <2>3. f.do = Top.do /\ (Top.do \in Composite => Own(f))
    BY <2>1 DEF GoesOn
  <2>4. Own(stack'[1])
    BY <1>1, <1>2, <1>3, <2>2, <2>3
  <2>5. Own(stack[1])' 
    BY <2>4 DEF Own, SameScene
  <2> QED  BY <1>1, <1>2, <2>2, <2>3, <2>5 DEF Stacked
<1>5. CASE \E f, g : AwaitsNext(f, g)
  <2>1. PICK f, g : AwaitsNext(f, g)
    BY <1>5
  <2>0. g \in Frames /\ g.do \notin Composite
    BY <2>1, LeavesAre DEF AwaitsNext
  <2>2. stack' \in Seq(Frames) /\ Len(stack') = n + 1 /\ stack'[n] = f /\ stack'[n + 1] = g
        /\ \A i \in 1 .. n - 1 : stack'[i] = stack[i]
    <3>1. Call(f, g) /\ f \in Frames
      BY <2>1 DEF AwaitsNext
    <3> QED  BY <1>1, <2>0, <3>1, CallIs DEF n
  <2>3. f.do = Top.do /\ (Top.do \in Composite => Own(f)) /\ Pending(f) = 0
    BY <2>1 DEF AwaitsNext
  <2>4. Own(stack'[1])
    BY <1>1, <1>2, <1>3, <2>2, <2>3
  <2>5. Own(stack[1])' 
    BY <2>4 DEF Own, SameScene
  <2> QED  BY <1>1, <1>2, <2>0, <2>2, <2>3, <2>5 DEF Stacked
<1>6. CASE GoesBack
  <2>2. stack' \in Seq(Frames) /\ Len(stack') = n - 1 /\ \A i \in 1 .. n - 1 : stack'[i] = stack[i]
    BY <1>1, <1>6, FrontIs DEF GoesBack, n
  <2>3. stack' # <<>> => stack'[1] = stack[1] /\ n - 1 >= 1
    BY <1>1, <2>2
  <2>5. stack' # <<>> => Own(stack[1])' 
    BY <2>3, <1>3 DEF Own, SameScene
  <2> QED  BY <1>1, <1>2, <2>2, <2>5 DEF Stacked
<1> QED  BY <1>4, <1>5, <1>6 DEF Onward

LEMMA OnwardTop ==
  ASSUME ProvInv, Onward, SameScene, stack' # <<>>
  PROVE  /\ Top' = stack'[Len(stack')]
         /\ (\E f : GoesOn(f) /\ Top' = f) \/ (Pending(Top') = 0 /\ Spends(0))
<1> DEFINE n == Len(stack)
<1>1. stack \in Seq(Frames) /\ stack # <<>> /\ n \in Nat /\ n >= 1 /\ Top = stack[n]
  BY TopIs DEF Onward, ProvInv, Stacked
<1>2. \A i \in 1 .. n : i < n => Pending(stack[i]) = 0
  BY DEF ProvInv, Stacked
<1> HIDE DEF n
<1>0. Top' = stack'[Len(stack')]
  BY DEF Top
<1>4. CASE \E f : GoesOn(f)
  <2>1. PICK f : GoesOn(f)
    BY <1>4
  <2>2. Len(stack') = n /\ stack'[n] = f
    <3>1. Goes(f) /\ f \in Frames
      BY <2>1 DEF GoesOn
    <3> QED  BY <1>1, <3>1, GoesIs DEF n
  <2> QED  BY <1>0, <2>1, <2>2
<1>5. CASE \E f, g : AwaitsNext(f, g)
  <2>1. PICK f, g : AwaitsNext(f, g)
    BY <1>5
  <2>0. g \in Frames /\ Pending(g) = 0
    BY <2>1, LeavesAre DEF AwaitsNext
  <2>2. Len(stack') = n + 1 /\ stack'[n + 1] = g
    <3>1. Call(f, g) /\ f \in Frames
      BY <2>1 DEF AwaitsNext
    <3> QED  BY <1>1, <2>0, <3>1, CallIs DEF n
  <2> QED  BY <1>0, <2>0, <2>1, <2>2 DEF AwaitsNext
<1>6. CASE GoesBack
  <2>2. stack' \in Seq(Frames) /\ Len(stack') = n - 1 /\ \A i \in 1 .. n - 1 : stack'[i] = stack[i]
    BY <1>1, <1>6, FrontIs DEF GoesBack, n
  <2>3. Len(stack') >= 1
    BY <2>2
  <2> QED  BY <1>0, <1>1, <1>2, <1>6, <2>2, <2>3 DEF GoesBack
<1> QED  BY <1>4, <1>5, <1>6 DEF Onward

LEMMA OnwardLedger ==
  ASSUME ProvInv, Onward, SameScene
  PROVE  Ledger'
<1>1. late \in Nat /\ Bound \in Nat /\ late <= Bound /\ (~aborted => late = 0) /\ stack # <<>>
  BY DEF ProvInv, Ledger, Bound, Onward
<1>2. aborted => late + Pending(Top) <= Bound
  BY <1>1 DEF ProvInv, Ledger
<1>3. \A f : Pending(f) \in Nat
  BY PendingIs
<1>4. Bound' = Bound /\ aborted' = aborted
  BY DEF SameScene, Bound
<1>5. \E p \in Nat : Spends(p)
  <2>1. CASE \E f : GoesOn(f)
    BY <2>1, <1>3 DEF GoesOn
  <2>2. CASE (\E f, g : AwaitsNext(f, g)) \/ GoesBack
    <3>1. Spends(0)
      BY <2>2 DEF AwaitsNext, GoesBack
    <3> QED  BY <3>1
  <2> QED  BY <2>1, <2>2 DEF Onward
<1>6. late' \in Nat /\ (~aborted => late' = late) /\ late' <= Bound
  BY <1>1, <1>2, <1>3, <1>5 DEF Spends
<1>7. aborted /\ stack' # <<>> => late' + Pending(Top') <= Bound
  <2> SUFFICES ASSUME aborted, stack' # <<>> PROVE late' + Pending(Top') <= Bound
    OBVIOUS
  <2>1. Spends(Pending(Top'))
    BY OnwardTop DEF GoesOn
  <2>2. Pending(Top') \in Nat /\ Pending(Top) \in Nat
    BY <1>3
  <2> QED  BY <2>1, <2>2, <1>1, <1>2, <1>6 DEF Spends
<1>8. (Pending(Top))' = Pending(Top')
  BY DEF Pending
<1> QED  BY <1>1, <1>4, <1>6, <1>7, <1>8 DEF Ledger

(* A step that leaves the field alone.                                     *)
OffField == field' = field /\ faults' \in Nat /\ faults' <= faults

LEMMA BareIs ==
  ASSUME ProvInv
  PROVE  /\ Cardinality(Bare(field)) \in Nat /\ IsFiniteSet(Bare(field)) /\ scene.faults \in Nat
         /\ DOMAIN field = 1 .. Len(field) /\ Len(field) \in Nat /\ DOMAIN field = DOMAIN scene.field
<1>1. scene.faults \in Nat /\ scene.field \in Seq({"ripe", "sown"})
  BY ProvisionsAssumption DEF ProvInv, Scenario
<1>2. field \in Seq({"ripe", "bare", "sown", "spoilt"}) /\ Len(field) = Len(scene.field)
  BY DEF ProvInv, Tended
<1>3. Len(field) \in Nat /\ DOMAIN field = 1 .. Len(field) /\ DOMAIN field = DOMAIN scene.field
  BY <1>1, <1>2
<1>4. IsFiniteSet(1 .. Len(field))
  <2>1. Len(field) \in Int /\ 1 \in Int
    BY <1>3
  <2> QED  BY <2>1, FS_Interval
<1>5. Bare(field) \subseteq 1 .. Len(field)
  BY <1>3 DEF Bare
<1> QED  BY <1>1, <1>3, <1>4, <1>5, FS_Subset, FS_CardinalityType

LEMMA Tends ==
  ASSUME ProvInv, SameScene, OffField, ~(Runs("harvest", "plant") /\ field[Top.cell] = "bare"),
         ~Runs("harvest", "plant")', Runs("harvest", "collect")' => (inv[SeedOf])' >= 1
  PROVE  Tended'
<1>4. Cardinality(Bare(field)) <= scene.faults - faults + 0
  BY DEF ProvInv, Tended
<1>5. (Cardinality(Bare(field)))' = Cardinality(Bare(field))
  BY DEF OffField, Bare
<1>6. scene.faults \in Nat /\ Cardinality(Bare(field)) \in Nat
  BY BareIs
<1>7. Cardinality(Bare(field)) <= scene.faults - faults' + 0
  BY <1>4, <1>6 DEF OffField, ProvInv, Tended
<1> QED  BY <1>5, <1>7 DEF ProvInv, Tended, OffField, SameScene

LEMMA OnwardTends ==
  ASSUME ProvInv, Onward, SameScene, OffField, Top.do # "harvest"
  PROVE  Tended'
<1>1. \A f : GoesOn(f) => f.do # "harvest"
  BY DEF GoesOn
<1>2. stack' # <<>> => Top'.do # "harvest" \/ Top'.at \notin {"collect", "plant"}
  BY <1>1, OnwardTop, PendingIs
<1>3. ~Runs("harvest", "plant") /\ ~Runs("harvest", "plant")' /\ ~Runs("harvest", "collect")'
  BY <1>2 DEF Runs
<1> QED  BY <1>3, Tends

Steady == Onward /\ SameScene /\ Stocked' /\ OffField

LEMMA SteadyKeeps ==
  ASSUME ProvInv, Steady, Top.do # "harvest"
  PROVE  ProvInv'
<1>2. Stacked' /\ Ledger' /\ Tended'
  BY OnwardStacks, OnwardLedger, OnwardTends DEF Steady
<1> QED  BY <1>2 DEF ProvInv, Steady, SameScene

LEMMA LateIs ==
  ASSUME ProvInv, NEW p \in Nat
  PROVE  /\ Idle /\ (aborted => p <= Pending(Top)) => Spends(p)
         /\ Acts /\ (aborted => p + 1 <= Pending(Top)) => Spends(p)
<1>1. late \in Nat /\ Pending(Top) \in Nat
  BY PendingIs DEF ProvInv, Ledger
<1> QED  BY <1>1 DEF Spends, Idle, Acts

LEMMA GoesOnward ==
  ASSUME ProvInv, stack # <<>>, NEW f \in Frames, Goes(f), f.do = Top.do, Top.do \in Composite => Own(f),
         \/ Idle /\ Pending(f) <= Pending(Top)
         \/ Idle /\ ~aborted
         \/ Acts /\ Pending(f) + 1 <= Pending(Top)
  PROVE  Onward
<1>1. Pending(f) \in Nat
  BY PendingIs
<1>2. Spends(Pending(f))
  BY <1>1, LateIs
<1> QED  BY <1>2 DEF Onward, GoesOn

LEMMA CallsOnward ==
  ASSUME ProvInv, stack # <<>>, NEW f \in Frames, NEW g \in LeafFrames, Call(f, g), f.do = Top.do,
         Top.do \in Composite => Own(f), Pending(f) = 0, g.at = "call", Idle
  PROVE  Onward
<1>1. Pending(Top) \in Nat
  BY PendingIs
<1>2. Spends(0)
  BY <1>1, LateIs
<1> QED  BY <1>2 DEF Onward, AwaitsNext

LEMMA AnswersOnward ==
  ASSUME ProvInv, stack # <<>>, NEW code, Answer(code), Idle \/ (Acts /\ Pending(Top) >= 1)
  PROVE  Onward
<1>1. Pending(Top) \in Nat
  BY PendingIs
<1>2. Spends(0)
  BY <1>1, LateIs
<1> QED  BY <1>2 DEF Onward, GoesBack, Answer

LEMMA ThinksSteady ==
  ASSUME ProvInv, Onward, Thinks
  PROVE  Steady
  BY DEF Steady, Thinks, SameScene, Surroundings, world, Stocked, OffField, ProvInv, Tended

LEMMA FaultIs ==
  ASSUME ProvInv
  PROVE  /\ Fault => faults' \in Nat /\ faults' <= faults
         /\ faults' = faults => faults' \in Nat /\ faults' <= faults
         /\ faults \in Nat
  BY DEF ProvInv, Tended, Fault

LEMMA TopByName ==
  ASSUME ProvInv, stack # <<>>
  PROVE  /\ Top.do = "retrieveItem"  => Top \in RetrieveFrames
         /\ Top.do = "scanContainer" => Top \in ScanFrames
         /\ Top.do = "chestDeposit"  => Top \in DepositFrames
         /\ Top.do = "mineUntil"     => Top \in MineFrames
         /\ Top.do = "chopTrees"     => Top \in ChopFrames
         /\ Top.do = "craftItem"     => Top \in CraftFrames
         /\ Top.do = "equipBestTool" => Top \in EquipFrames
         /\ Top.do = "ensureTool"    => Top \in ToolFrames
         /\ Top.do = "smeltItem"     => Top \in SmeltFrames
         /\ Top.do = "prepare"       => Top \in PrepareFrames /\ Own(Top) /\ Top.do \in Composite
         /\ Top.do = "supply"        => Top \in SupplyFrames /\ Own(Top) /\ Top.do \in Composite
         /\ Top.do = "restock"       => Top \in RestockFrames /\ Own(Top) /\ Top.do \in Composite
         /\ Top.do = "harvest"       => Top \in HarvestFrames /\ Own(Top) /\ Top.do \in Composite
<1>1. Top \in Frames /\ (Top.do \in Composite => Own(Top))
  BY TopIs
<1>2. PICK t : t = Top
  OBVIOUS
<1>3. t \in Frames
  BY <1>1, <1>2
<1>4. /\ t.do = "retrieveItem"  => t \in RetrieveFrames
      /\ t.do = "scanContainer" => t \in ScanFrames
      /\ t.do = "chestDeposit"  => t \in DepositFrames
      /\ t.do = "mineUntil"     => t \in MineFrames
      /\ t.do = "chopTrees"     => t \in ChopFrames
      /\ t.do = "craftItem"     => t \in CraftFrames
      /\ t.do = "equipBestTool" => t \in EquipFrames
      /\ t.do = "ensureTool"    => t \in ToolFrames
      /\ t.do = "smeltItem"     => t \in SmeltFrames
      /\ t.do = "prepare"       => t \in PrepareFrames
      /\ t.do = "supply"        => t \in SupplyFrames
      /\ t.do = "restock"       => t \in RestockFrames
      /\ t.do = "harvest"       => t \in HarvestFrames
  BY <1>3 DEF Frames, LeafFrames, RetrieveFrames, ScanFrames, DepositFrames, MineFrames, ChopFrames,
              CraftFrames, EquipFrames, ToolFrames, SmeltFrames, PrepareFrames, SupplyFrames,
              RestockFrames, HarvestFrames
<1> QED  BY <1>1, <1>2, <1>4 DEF Composite

LEMMA FramesAre ==
  /\ RetrieveFrames \subseteq LeafFrames /\ ScanFrames \subseteq LeafFrames /\ DepositFrames \subseteq LeafFrames
  /\ MineFrames \subseteq LeafFrames /\ ChopFrames \subseteq LeafFrames /\ CraftFrames \subseteq LeafFrames
  /\ EquipFrames \subseteq LeafFrames /\ ToolFrames \subseteq LeafFrames /\ SmeltFrames \subseteq LeafFrames
  /\ LeafFrames \subseteq Frames /\ PrepareFrames \subseteq Frames /\ SupplyFrames \subseteq Frames
  /\ RestockFrames \subseteq Frames /\ HarvestFrames \subseteq Frames
  BY DEF LeafFrames, Frames

-----------------------------------------------------------------------------
(***************************************************************************)
(* Containers.                                                             *)
(***************************************************************************)
LEMMA RetrieveBeginsSteady == ASSUME ProvInv, RetrieveBegins PROVE Steady
<1> DEFINE held == {c \in ContainersWith(Top.item) : Top.only \in {"any", c} /\ Top.except # c}
           f == [Top EXCEPT !.at = "next", !.todo = held, !.have = inv[Top.item]]
<1>1. stack # <<>> /\ Top.do = "retrieveItem" /\ Top.at = "call" /\ Top \in RetrieveFrames /\ Idle
  BY TopByName DEF RetrieveBegins, Runs, Thinks, Idle
<1>2. inv \in [Items -> Int]
  BY DEF ProvInv, Stocked
<1>3. held \subseteq Chests
  BY DEF ContainersWith
<1>4. f \in RetrieveFrames /\ f.do = Top.do /\ f.at = "next"
  <2> HIDE DEF held
  <2> QED  BY <1>1, <1>2, <1>3 DEF RetrieveFrames
<1>5. Pending(f) = 0 /\ Pending(Top) \in Nat /\ Top.do \notin Composite
  BY <1>1, <1>4, PendingIs DEF Pending, Acting, Composite
<1>6. Goes(f) => Onward
  <2> HIDE DEF f
  <2> QED  BY <1>1, <1>4, <1>5, FramesAre, GoesOnward
<1>7. \A code : Answer(code) => Onward
  BY <1>1, AnswersOnward
<1> QED  BY <1>6, <1>7, ThinksSteady DEF RetrieveBegins

LEMMA RetrieveNextSteady == ASSUME ProvInv, RetrieveNext PROVE Steady
<1>1. stack # <<>> /\ Top.do = "retrieveItem" /\ Top.at = "next" /\ Top \in RetrieveFrames /\ Idle
  BY TopByName DEF RetrieveNext, Runs, Thinks, Idle
<1>2. \A code : Answer(code) => Onward
  BY <1>1, AnswersOnward
<1>3. ASSUME ~aborted, NEW c \in Top.todo, Goes([Top EXCEPT !.at = "open", !.todo = @ \ {c}, !.except = c])
      PROVE  Onward
  <2> DEFINE f == [Top EXCEPT !.at = "open", !.todo = @ \ {c}, !.except = c]
  <2>1. f \in RetrieveFrames /\ f.do = Top.do /\ Top.do \notin Composite
    BY <1>1 DEF RetrieveFrames, Composite
  <2>2. Goes(f)
    BY <1>3
  <2> HIDE DEF f
  <2> QED  BY <1>1, <1>3, <2>1, <2>2, FramesAre, GoesOnward
<1> QED  BY <1>2, <1>3, ThinksSteady DEF RetrieveNext

LEMMA Edits ==
  ASSUME NEW g \in [Items -> Int], NEW i \in Items, NEW n \in Int
  PROVE  [g EXCEPT ![i] = @ + n] \in [Items -> Int] /\ [g EXCEPT ![i] = @ - n] \in [Items -> Int]
  OBVIOUS

LEMMA ChestEdits ==
  ASSUME NEW g \in [Chests -> [Items -> Int]], NEW c \in Chests, NEW i \in Items, NEW n \in Int
  PROVE  /\ [g EXCEPT ![c][i] = @ + n] \in [Chests -> [Items -> Int]]
         /\ [g EXCEPT ![c][i] = @ - n] \in [Chests -> [Items -> Int]]
  OBVIOUS

LEMMA LeafGoes ==
  ASSUME ProvInv, stack # <<>>, NEW f \in LeafFrames, Goes(f), f.do = Top.do,
         \/ Idle /\ Pending(f) <= Pending(Top)
         \/ Idle /\ ~aborted
         \/ Acts /\ Pending(f) + 1 <= Pending(Top)
  PROVE  Onward
<1>1. f \in Frames /\ Top.do \notin Composite
  BY LeavesAre
<1> QED  BY <1>1, GoesOnward

LEMMA RetrieveTakesSteady == ASSUME ProvInv, RetrieveTakes PROVE Steady
<1> DEFINE c == Top.except
           n == Least(Top.want - Top.have, chest[c][Top.item])
           f == [Top EXCEPT !.at = "next", !.have = IF n > 0 THEN inv'[Top.item] ELSE @]
<1>1. stack # <<>> /\ Top.do = "retrieveItem" /\ Top.at = "open" /\ Top \in RetrieveFrames
  BY TopByName DEF RetrieveTakes, Runs
<1>2. Top.item \in Items /\ c \in Chests /\ Top.want \in Int /\ Top.have \in Int
  BY <1>1 DEF RetrieveFrames
<1>3. inv \in [Items -> Int] /\ chest \in [Chests -> [Items -> Int]] /\ index \in [Chests -> [Items -> Int]]
  BY DEF ProvInv, Stocked
<1>4. n \in Int
  BY <1>2, <1>3 DEF Least
<1>5. /\ inv' = [inv EXCEPT ![Top.item] = @ + n] /\ chest' = [chest EXCEPT ![c][Top.item] = @ - n]
      /\ index' = [index EXCEPT ![c] = chest'[c]] /\ Goes(f) /\ (Acts \/ Idle)
      /\ UNCHANGED <<furnace, field, Surroundings, faults>>
  BY DEF RetrieveTakes, Reindex
<1> HIDE DEF n
<1>6. inv' \in [Items -> Int] /\ chest' \in [Chests -> [Items -> Int]]
  BY <1>2, <1>3, <1>4, <1>5, Edits, ChestEdits
<1>7. index' \in [Chests -> [Items -> Int]]
  BY <1>2, <1>3, <1>5, <1>6
<1>8. f \in RetrieveFrames /\ f.do = Top.do /\ f.at = "next"
  BY <1>1, <1>2, <1>4, <1>6 DEF RetrieveFrames
<1>9. Pending(f) = 0 /\ Pending(Top) = 1
  BY <1>1, <1>8 DEF Pending, Acting
<1>10. Onward
  <2> HIDE DEF f
  <2> QED  BY <1>1, <1>5, <1>8, <1>9, FramesAre, LeafGoes
<1> QED  BY <1>5, <1>6, <1>7, <1>10, FaultIs DEF ProvInv, Steady, SameScene, Surroundings, Stocked, OffField

(* A failure, where the handler does not act.                              *)
LEMMA FailsSteady ==
  ASSUME ProvInv, Onward, UNCHANGED <<world, Surroundings>>, Fault \/ NoFault
  PROVE  Steady
  BY FaultIs DEF Steady, SameScene, Surroundings, world, Stocked, OffField, ProvInv, NoFault

LEMMA RetrieveFailsSteady == ASSUME ProvInv, RetrieveFails PROVE Steady
<1> DEFINE f == [Top EXCEPT !.at = "next"]
<1>1. stack # <<>> /\ Top.do = "retrieveItem" /\ Top.at = "open" /\ Top \in RetrieveFrames /\ Idle
  BY TopByName DEF RetrieveFails, Runs, Idle
<1>2. f \in RetrieveFrames /\ f.do = Top.do /\ f.at = "next"
  BY <1>1 DEF RetrieveFrames
<1>3. Pending(f) = 0 /\ Pending(Top) = 1
  BY <1>1, <1>2 DEF Pending, Acting
<1>4. Goes(f)
  BY DEF RetrieveFails, GoesTo
<1>5. Onward
  <2> HIDE DEF f
  <2> QED  BY <1>1, <1>2, <1>3, <1>4, FramesAre, LeafGoes
<1> QED  BY <1>5, FailsSteady DEF RetrieveFails

LEMMA WalkStopsSteady == ASSUME ProvInv, WalkStops PROVE Steady
  BY AnswersOnward, ThinksSteady DEF WalkStops, Interrupted, Thinks, Idle

LEMMA WalkFailsSteady == ASSUME ProvInv, WalkFails PROVE Steady
  BY AnswersOnward, FailsSteady DEF WalkFails, Idle

(* A leaf that goes on at another stage, where it is not about to act, or  *)
(* is and was not stopped.                                                 *)
LEMMA LeafGoesTo ==
  ASSUME ProvInv, stack # <<>>, NEW stage, GoesTo(stage), [Top EXCEPT !.at = stage] \in LeafFrames,
         [Top EXCEPT !.at = stage].do = Top.do,
         \/ Idle /\ Pending([Top EXCEPT !.at = stage]) <= Pending(Top)
         \/ Idle /\ ~aborted
         \/ Acts /\ Pending([Top EXCEPT !.at = stage]) + 1 <= Pending(Top)
  PROVE  Onward
<1> DEFINE f == [Top EXCEPT !.at = stage]
<1>1. f \in LeafFrames /\ Goes(f) /\ f.do = Top.do
  BY DEF GoesTo
<1> HIDE DEF f
<1>2. \/ Idle /\ Pending(f) <= Pending(Top)
      \/ Idle /\ ~aborted
      \/ Acts /\ Pending(f) + 1 <= Pending(Top)
  BY DEF f
<1> QED  BY <1>1, <1>2, LeafGoes

LEMMA WalkBeginsSteady == ASSUME ProvInv, WalkBegins PROVE Steady
<1>1. stack # <<>> /\ Idle /\ Thinks
  BY DEF WalkBegins, Runs, Thinks, Idle
<1>2. \A code : Answer(code) => Onward
  BY <1>1, AnswersOnward
<1>3. CASE Runs("scanContainer", "call") /\ GoesTo("look") /\ ~aborted
  <2>1. Top \in ScanFrames
    BY <1>3, TopByName DEF Runs
  <2>2. [Top EXCEPT !.at = "look"] \in ScanFrames /\ [Top EXCEPT !.at = "look"].do = Top.do
    BY <2>1 DEF ScanFrames
  <2> QED  BY <1>1, <1>3, <2>2, FramesAre, LeafGoesTo, ThinksSteady
<1>4. CASE Runs("chestDeposit", "call") /\ GoesTo("reach") /\ ~aborted
  <2>1. Top \in DepositFrames
    BY <1>4, TopByName DEF Runs
  <2>2. [Top EXCEPT !.at = "reach"] \in DepositFrames /\ [Top EXCEPT !.at = "reach"].do = Top.do
    BY <2>1 DEF DepositFrames
  <2> QED  BY <1>1, <1>4, <2>2, FramesAre, LeafGoesTo, ThinksSteady
<1> QED  BY <1>1, <1>2, <1>3, <1>4, ThinksSteady DEF WalkBegins

LEMMA IndexedSteady == ASSUME ProvInv, Indexed PROVE Steady
<1>1. stack # <<>> /\ Top.do = "scanContainer" /\ Top \in ScanFrames /\ Idle
  BY TopByName DEF Indexed, Runs, Idle
<1>2. Onward
  BY <1>1, AnswersOnward DEF Indexed
<1>3. Top.item \in Chests
  BY <1>1 DEF ScanFrames
<1>4. chest \in [Chests -> [Items -> Int]] /\ index \in [Chests -> [Items -> Int]]
  BY DEF ProvInv, Stocked
<1>5. index' \in [Chests -> [Items -> Int]]
  BY <1>3, <1>4 DEF Indexed, Reindex
<1> QED  BY <1>2, <1>4, <1>5, FaultIs DEF Indexed, ProvInv, Steady, SameScene, Surroundings, Stocked, OffField

LEMMA DepositOpensSteady == ASSUME ProvInv, DepositOpens PROVE Steady
<1> DEFINE all == {i \in Items : inv[i] > 0 /\ Includes(i, Top.item)}
           f == [Top EXCEPT !.at = "next", !.todo = all]
<1>1. stack # <<>> /\ Top.do = "chestDeposit" /\ Top.at = "reach" /\ Top \in DepositFrames /\ Idle
  BY TopByName DEF DepositOpens, Runs, Thinks, Idle
<1>2. all \subseteq Items
  OBVIOUS
<1>3. f \in DepositFrames /\ f.do = Top.do /\ f.at = "next"
  <2> HIDE DEF all
  <2> QED  BY <1>1, <1>2 DEF DepositFrames
<1>4. Pending(f) = 0 /\ Pending(Top) = 0
  BY <1>1, <1>3 DEF Pending, Acting
<1>5. Goes(f)
  BY DEF DepositOpens
<1>6. Onward
  <2> HIDE DEF f
  <2> QED  BY <1>1, <1>3, <1>4, <1>5, FramesAre, LeafGoes
<1> QED  BY <1>6, ThinksSteady DEF DepositOpens

LEMMA DepositNextSteady == ASSUME ProvInv, DepositNext PROVE Steady
<1>1. stack # <<>> /\ Top.do = "chestDeposit" /\ Top.at = "next" /\ Top \in DepositFrames /\ Idle /\ Thinks
  BY TopByName DEF DepositNext, Runs, Thinks, Idle
<1>2. \A code : Answer(code) => Onward
  BY <1>1, AnswersOnward
<1>3. ASSUME ~aborted, NEW i \in Top.todo, NEW kept, kept = Least(Top.want, inv[i]),
             Goes([Top EXCEPT !.at = IF inv[i] > kept THEN "put" ELSE "next", !.want = @ - kept,
                              !.todo = @ \ {i}, !.piece = <<i, inv[i] - kept>>])
      PROVE  Onward
  <2> DEFINE f == [Top EXCEPT !.at = IF inv[i] > kept THEN "put" ELSE "next", !.want = @ - kept,
                              !.todo = @ \ {i}, !.piece = <<i, inv[i] - kept>>]
  <2>1. i \in Items /\ Top.want \in Int /\ Top.todo \subseteq Items
    BY <1>1 DEF DepositFrames
  <2>2. inv[i] \in Int /\ kept \in Int
    BY <1>3, <2>1 DEF Least, ProvInv, Stocked
  <2>3. f \in DepositFrames /\ f.do = Top.do
    <3>1. Top.want - kept \in Int /\ inv[i] - kept \in Int /\ Top.todo \ {i} \in SUBSET Items
      BY <2>1, <2>2
    <3> QED  BY <1>1, <2>1, <3>1 DEF DepositFrames
  <2>4. Goes(f)
    BY <1>3
  <2> HIDE DEF f
  <2> QED  BY <1>1, <1>3, <2>3, <2>4, FramesAre, LeafGoes
<1>4. Onward
  BY <1>2, <1>3 DEF DepositNext
<1> QED  BY <1>1, <1>4, ThinksSteady

LEMMA DepositPutsSteady == ASSUME ProvInv, DepositPuts PROVE Steady
<1>1. stack # <<>> /\ Top.do = "chestDeposit" /\ Top.at = "put" /\ Top \in DepositFrames
  BY TopByName DEF DepositPuts, Runs
<1>2. Top.piece[1] \in Items /\ Top.piece[2] \in Int /\ Top.chest \in Chests
  BY <1>1 DEF DepositFrames
<1>3. [Top EXCEPT !.at = "next"] \in DepositFrames /\ [Top EXCEPT !.at = "next"].do = Top.do
      /\ [Top EXCEPT !.at = "next"].at = "next"
  BY <1>1 DEF DepositFrames
<1>4. Pending([Top EXCEPT !.at = "next"]) = 0 /\ Pending(Top) = 1
  BY <1>1, <1>3 DEF Pending, Acting
<1>5. Onward
  BY <1>1, <1>3, <1>4, FramesAre, LeafGoesTo DEF DepositPuts
<1>6. inv \in [Items -> Int] /\ chest \in [Chests -> [Items -> Int]]
  BY DEF ProvInv, Stocked
<1>7. /\ inv' = [inv EXCEPT ![Top.piece[1]] = @ - Top.piece[2]]
      /\ chest' = [chest EXCEPT ![Top.chest][Top.piece[1]] = @ + Top.piece[2]]
  BY DEF DepositPuts
<1>8. inv' \in [Items -> Int] /\ chest' \in [Chests -> [Items -> Int]]
  BY <1>2, <1>6, <1>7, Edits, ChestEdits
<1> QED  BY <1>5, <1>8, FaultIs DEF DepositPuts, ProvInv, Steady, SameScene, Surroundings, Stocked, OffField

LEMMA DepositFailsSteady == ASSUME ProvInv, DepositFails PROVE Steady
  BY AnswersOnward, FailsSteady DEF DepositFails, Runs, Idle

-----------------------------------------------------------------------------
(***************************************************************************)
(* Gathering.                                                              *)
(***************************************************************************)
LEMMA MineBeginsSteady == ASSUME ProvInv, MineBegins PROVE Steady
<1> DEFINE f == [Top EXCEPT !.at = "next", !.first = inv[Top.item], !.have = inv[Top.item]]
<1>1. stack # <<>> /\ Top.do = "mineUntil" /\ Top.at = "call" /\ Top \in MineFrames /\ Idle /\ Thinks
  BY TopByName DEF MineBegins, Runs, Thinks, Idle
<1>2. inv[Top.item] \in Int
  BY <1>1 DEF ProvInv, Stocked, MineFrames
<1>3. f \in MineFrames /\ f.do = Top.do /\ f.at = "next"
  BY <1>1, <1>2 DEF MineFrames
<1>4. Pending(f) = 0 /\ Pending(Top) = 0
  BY <1>1, <1>3 DEF Pending, Acting
<1>5. \A code : Answer(code) => Onward
  BY <1>1, AnswersOnward
<1>6. Goes(f) => Onward
  <2> HIDE DEF f
  <2> QED  BY <1>1, <1>3, <1>4, FramesAre, LeafGoes
<1>7. Onward
  BY <1>5, <1>6 DEF MineBegins
<1> QED  BY <1>1, <1>7, ThinksSteady

LEMMA MineNextSteady == ASSUME ProvInv, MineNext PROVE Steady
<1>1. stack # <<>> /\ Top.do = "mineUntil" /\ Top.at = "next" /\ Top \in MineFrames /\ Idle /\ Thinks
  BY TopByName DEF MineNext, Runs, Thinks, Idle
<1>2. [Top EXCEPT !.at = "collect"] \in MineFrames /\ [Top EXCEPT !.at = "collect"].do = Top.do
  BY <1>1 DEF MineFrames
<1>3. \A code : Answer(code) => Onward
  BY <1>1, AnswersOnward
<1>4. ~aborted /\ GoesTo("collect") => Onward
  BY <1>1, <1>2, FramesAre, LeafGoesTo
<1>5. Onward
  BY <1>3, <1>4 DEF MineNext
<1> QED  BY <1>1, <1>5, ThinksSteady

LEMMA MineCollectsSteady == ASSUME ProvInv, MineCollects PROVE Steady
<1> DEFINE f == [Top EXCEPT !.at = "next", !.have = inv'[Top.item]]
<1>1. stack # <<>> /\ Top.do = "mineUntil" /\ Top.at = "collect" /\ Top \in MineFrames
  BY TopByName DEF MineCollects, Runs
<1>2. Top.item \in Items
  BY <1>1 DEF MineFrames
<1>3. inv \in [Items -> Int]
  BY DEF ProvInv, Stocked
<1>4. inv' \in [Items -> Int]
  <2>1. inv' = [inv EXCEPT ![Top.item] = @ + 1] \/ inv' = inv
    BY DEF MineCollects
  <2> QED  BY <1>2, <1>3, <2>1, Edits
<1>5. f \in MineFrames /\ f.do = Top.do /\ f.at = "next"
  BY <1>1, <1>2, <1>4 DEF MineFrames
<1>6. Pending(f) = 0 /\ Pending(Top) = 1
  BY <1>1, <1>5 DEF Pending, Acting
<1>7. Goes(f) /\ Acts
  BY DEF MineCollects
<1>8. Onward
  <2> HIDE DEF f
  <2> QED  BY <1>1, <1>5, <1>6, <1>7, FramesAre, LeafGoes
<1>9. faults' = faults \/ Fault
  BY DEF MineCollects, NoFault
<1> QED  BY <1>4, <1>8, <1>9, FaultIs DEF MineCollects, ProvInv, Steady, SameScene, Surroundings, Stocked, OffField

LEMMA ChopBeginsSteady == ASSUME ProvInv, ChopBegins PROVE Steady
<1>1. stack # <<>> /\ Top.do = "chopTrees" /\ Top.at = "call" /\ Top \in ChopFrames /\ Idle /\ Thinks
  BY TopByName DEF ChopBegins, Runs, Thinks, Idle
<1>2. [Top EXCEPT !.at = "next"] \in ChopFrames /\ [Top EXCEPT !.at = "next"].do = Top.do
  BY <1>1 DEF ChopFrames
<1>3. \A code : Answer(code) => Onward
  BY <1>1, AnswersOnward
<1>4. ~aborted /\ GoesTo("next") => Onward
  BY <1>1, <1>2, FramesAre, LeafGoesTo
<1>5. Onward
  BY <1>3, <1>4 DEF ChopBegins
<1> QED  BY <1>1, <1>5, ThinksSteady

LEMMA ChopNextSteady == ASSUME ProvInv, ChopNext PROVE Steady
<1>1. stack # <<>> /\ Top.do = "chopTrees" /\ Top.at = "next" /\ Top \in ChopFrames /\ Idle
  BY TopByName DEF ChopNext, Runs, Idle
<1>2. [Top EXCEPT !.at = "collect"] \in ChopFrames /\ [Top EXCEPT !.at = "collect"].do = Top.do
  BY <1>1 DEF ChopFrames
<1>3. \A code : Answer(code) => Onward
  BY <1>1, AnswersOnward
<1>4. ~aborted /\ GoesTo("collect") => Onward
  BY <1>1, <1>2, FramesAre, LeafGoesTo
<1>5. Onward
  BY <1>3, <1>4 DEF ChopNext
<1> QED  BY <1>5, FaultIs DEF ChopNext, ProvInv, Steady, SameScene, Surroundings, Stocked, OffField

LEMMA ChopCollectsSteady == ASSUME ProvInv, ChopCollects PROVE Steady
<1>1. stack # <<>> /\ Top.do = "chopTrees" /\ Top.at = "collect" /\ Top \in ChopFrames
  BY TopByName DEF ChopCollects, Runs
<1>2. [Top EXCEPT !.at = "next"] \in ChopFrames /\ [Top EXCEPT !.at = "next"].do = Top.do
      /\ [Top EXCEPT !.at = "next"].at = "next"
  BY <1>1 DEF ChopFrames
<1>3. Pending([Top EXCEPT !.at = "next"]) = 0 /\ Pending(Top) = 1
  BY <1>1, <1>2 DEF Pending, Acting
<1>4. Onward
  BY <1>1, <1>2, <1>3, FramesAre, LeafGoesTo DEF ChopCollects
<1>5. inv' \in [Items -> Int]
  <2>1. inv' = [inv EXCEPT !["oak_log"] = @ + 1] \/ inv' = inv
    BY DEF ChopCollects
  <2>2. inv \in [Items -> Int] /\ "oak_log" \in Items
    BY ProvisionsAssumption DEF ProvInv, Stocked
  <2> QED  BY <2>1, <2>2, Edits
<1>6. faults' = faults \/ Fault
  BY DEF ChopCollects, NoFault
<1> QED  BY <1>4, <1>5, <1>6, FaultIs DEF ChopCollects, ProvInv, Steady, SameScene, Surroundings, Stocked, OffField

LEMMA CollectFailsSteady == ASSUME ProvInv, CollectFails PROVE Steady
<1>1. stack # <<>> /\ Idle /\ (Fault \/ NoFault) /\ (\E code : Answer(code)) /\ UNCHANGED <<world, Surroundings>>
  BY DEF CollectFails, Runs, Idle
<1> QED  BY <1>1, AnswersOnward, FailsSteady

-----------------------------------------------------------------------------
(***************************************************************************)
(* Crafting, tools and smelting.                                           *)
(***************************************************************************)
LEMMA RecipeIs ==
  ASSUME NEW i \in Craftable
  PROVE  /\ i \in Items /\ Recipe(i).makes \in {1, 3, 4} /\ Recipe(i).uses \in [Items -> Int]
<1>1. Nothing \in [Items -> Int]
  BY DEF Nothing
<1>2. i \in Items
  BY ProvisionsAssumption DEF Craftable
<1>3. CASE i = "oak_planks"
  BY <1>1, <1>3, <1>2 DEF Recipe
<1>4. CASE i = "oak_door"
  BY <1>1, <1>4, <1>2 DEF Recipe
<1>5. CASE i = "stone_pickaxe"
  BY <1>1, <1>5, <1>2 DEF Recipe
<1>6. CASE i = "wooden_pickaxe"
  BY <1>1, <1>6, <1>2 DEF Recipe
<1> QED  BY <1>3, <1>4, <1>5, <1>6 DEF Craftable

LEMMA CraftCountIs ==
  ASSUME ProvInv, Top \in CraftFrames
  PROVE  CraftCount \in Int
<1>1. Top.item \in Craftable /\ Top.want \in Int
  BY DEF CraftFrames
<1>2. Top.item \in Items /\ Recipe(Top.item).makes \in {1, 3, 4}
  BY <1>1, RecipeIs
<1>3. CraftDeficit \in Int
  BY <1>1, <1>2 DEF CraftDeficit, ProvInv, Stocked
<1>4. \A d \in Int : (d + 1 - 1) \div 1 \in Int /\ (d + 3 - 1) \div 3 \in Int /\ (d + 4 - 1) \div 4 \in Int
  OBVIOUS
<1> QED  BY <1>2, <1>3, <1>4 DEF CraftCount, Upwards

LEMMA CraftedIs ==
  ASSUME ProvInv, Top \in CraftFrames, NEW n \in Int
  PROVE  Crafted(n) \in [Items -> Int]
<1>1. Top.item \in Craftable
  BY DEF CraftFrames
<1>2. Top.item \in Items /\ Recipe(Top.item).makes \in Int /\ Recipe(Top.item).uses \in [Items -> Int]
  BY <1>1, RecipeIs
<1>3. \A a, b \in Int : a * b \in Int
  OBVIOUS
<1>4. inv \in [Items -> Int]
  BY DEF ProvInv, Stocked
<1>5. ASSUME NEW i \in Items
      PROVE  inv[i] - n * Recipe(Top.item).uses[i] + (IF i = Top.item THEN n * Recipe(i).makes ELSE 0) \in Int
  <2>1. inv[i] \in Int /\ n * Recipe(Top.item).uses[i] \in Int /\ n * Recipe(Top.item).makes \in Int
    BY <1>2, <1>3, <1>4
  <2> HIDE <1>3
  <2> QED  BY <2>1
<1> QED  BY <1>5 DEF Crafted

LEMMA CraftBeginsSteady == ASSUME ProvInv, CraftBegins PROVE Steady
<1>1. stack # <<>> /\ Top.do = "craftItem" /\ Top.at = "call" /\ Top \in CraftFrames /\ Idle /\ Thinks
  BY TopByName DEF CraftBegins, Runs, Thinks, Idle
<1>2. \A p \in {"table", "craft"} : [Top EXCEPT !.at = p] \in CraftFrames /\ [Top EXCEPT !.at = p].do = Top.do
  BY <1>1 DEF CraftFrames
<1>3. \A code : Answer(code) => Onward
  BY <1>1, AnswersOnward
<1>4. \A p \in {"table", "craft"} : ~aborted /\ GoesTo(p) => Onward
  BY <1>1, <1>2, FramesAre, LeafGoesTo
<1>5. Onward
  BY <1>3, <1>4 DEF CraftBegins
<1> QED  BY <1>1, <1>5, ThinksSteady

LEMMA CraftAtTableSteady == ASSUME ProvInv, CraftAtTable PROVE Steady
<1>1. stack # <<>> /\ Top.do = "craftItem" /\ Top.at = "table" /\ Top \in CraftFrames /\ Idle /\ Thinks
  BY TopByName DEF CraftAtTable, Runs, Thinks, Idle
<1>2. [Top EXCEPT !.at = "craft"] \in CraftFrames /\ [Top EXCEPT !.at = "craft"].do = Top.do
      /\ [Top EXCEPT !.at = "craft"].at = "craft"
  BY <1>1 DEF CraftFrames
<1>3. Pending([Top EXCEPT !.at = "craft"]) = 1 /\ Pending(Top) = 1
  BY <1>1, <1>2 DEF Pending, Acting
<1>4. \A code : Answer(code) => Onward
  BY <1>1, AnswersOnward
<1>5. GoesTo("craft") => Onward
  BY <1>1, <1>2, <1>3, FramesAre, LeafGoesTo
<1>6. Onward
  BY <1>4, <1>5 DEF CraftAtTable
<1> QED  BY <1>1, <1>6, ThinksSteady

LEMMA CraftDoneSteady == ASSUME ProvInv, CraftDone PROVE Steady
<1>1. stack # <<>> /\ Top.do = "craftItem" /\ Top.at = "craft" /\ Top \in CraftFrames
  BY TopByName DEF CraftDone, Runs
<1>2. Pending(Top) = 1
  BY <1>1 DEF Pending, Acting
<1>3. Onward
  BY <1>1, <1>2, AnswersOnward DEF CraftDone
<1>4. inv' \in [Items -> Int]
  BY <1>1, CraftCountIs, CraftedIs DEF CraftDone
<1> QED  BY <1>3, <1>4, FaultIs DEF CraftDone, ProvInv, Steady, SameScene, Surroundings, Stocked, OffField

LEMMA CraftFallsSteady == ASSUME ProvInv, CraftFalls PROVE Steady
<1>1. stack # <<>> /\ Top.do = "craftItem" /\ Top.at = "craft" /\ Top \in CraftFrames
  BY TopByName DEF CraftFalls, Runs
<1>2. Pending(Top) = 1
  BY <1>1 DEF Pending, Acting
<1>3. PICK n \in 0 .. CraftCount - 1 : inv' = Crafted(n) /\ (\E code : Answer(code)) /\ (Acts \/ Idle)
  BY DEF CraftFalls
<1>4. Onward
  BY <1>1, <1>2, <1>3, AnswersOnward
<1>5. inv' \in [Items -> Int]
  BY <1>1, <1>3, CraftCountIs, CraftedIs
<1> QED  BY <1>4, <1>5, FaultIs DEF CraftFalls, ProvInv, Steady, SameScene, Surroundings, Stocked, OffField

LEMMA EquipBeginsSteady == ASSUME ProvInv, EquipBegins PROVE Steady
<1>1. stack # <<>> /\ Top.do = "equipBestTool" /\ Top.at = "call" /\ Top \in EquipFrames /\ Idle /\ Thinks
  BY TopByName DEF EquipBegins, Runs, Thinks, Idle
<1>2. [Top EXCEPT !.at = "equip"] \in EquipFrames /\ [Top EXCEPT !.at = "equip"].do = Top.do
      /\ [Top EXCEPT !.at = "equip"].at = "equip"
  BY <1>1 DEF EquipFrames
<1>3. Pending([Top EXCEPT !.at = "equip"]) = 0 /\ Pending(Top) = 0
  BY <1>1, <1>2 DEF Pending, Acting
<1>4. \A code : Answer(code) => Onward
  BY <1>1, AnswersOnward
<1>5. GoesTo("equip") => Onward
  BY <1>1, <1>2, <1>3, FramesAre, LeafGoesTo
<1>6. Onward
  BY <1>4, <1>5 DEF EquipBegins
<1> QED  BY <1>1, <1>6, ThinksSteady

LEMMA EquipsSteady == ASSUME ProvInv, Equips PROVE Steady
<1>1. stack # <<>> /\ Idle /\ (Fault \/ NoFault) /\ (\E code : Answer(code)) /\ UNCHANGED <<world, Surroundings>>
  BY DEF Equips, Runs, Idle
<1> QED  BY <1>1, AnswersOnward, FailsSteady

LEMMA EnsureToolStepSteady == ASSUME ProvInv, EnsureToolStep PROVE Steady
<1>1. stack # <<>> /\ Top.do = "ensureTool" /\ Top \in ToolFrames /\ Idle /\ Thinks
  BY TopByName DEF EnsureToolStep, Runs, Thinks, Idle
<1>2. \A code : Answer(code) => Onward
  BY <1>1, AnswersOnward
<1>3. \A f \in ToolFrames : Pending(f) = 0 /\ f \in LeafFrames /\ f \in Frames /\ f.do = Top.do /\ Top.do \notin Composite
  BY <1>1, FramesAre DEF ToolFrames, Pending, Acting, Composite
<1>4. [Top EXCEPT !.at = "next"] \in ToolFrames
  BY <1>1 DEF ToolFrames
<1>5. GoesTo("next") => Onward
  BY <1>1, <1>3, <1>4, LeafGoesTo
<1>6. ASSUME NEW f \in ToolFrames, NEW g \in EquipFrames \cup CraftFrames, g.at = "call", Call(f, g)
      PROVE  Onward
  BY <1>1, <1>3, <1>6, FramesAre, CallsOnward
<1>7. Equip(Top.item) \in EquipFrames /\ Equip(Top.item).at = "call"
  BY <1>1 DEF ToolFrames, EquipFrames, Equip, Frame
<1>8. [Top EXCEPT !.at = "equipped"] \in ToolFrames /\ [Top EXCEPT !.at = "again"] \in ToolFrames
  BY <1>1 DEF ToolFrames
<1>9. Top.todo # <<>> => /\ [Top EXCEPT !.at = "crafted", !.todo = Tail(@)] \in ToolFrames
                         /\ Craft(Head(Top.todo), 1) \in CraftFrames /\ Craft(Head(Top.todo), 1).at = "call"
  <2> SUFFICES ASSUME Top.todo # <<>>
               PROVE  /\ [Top EXCEPT !.at = "crafted", !.todo = Tail(@)] \in ToolFrames
                      /\ Craft(Head(Top.todo), 1) \in CraftFrames /\ Craft(Head(Top.todo), 1).at = "call"
    OBVIOUS
  <2>1. Top.todo \in Seq(Tools)
    BY <1>1 DEF ToolFrames
  <2>2. Head(Top.todo) \in Tools /\ Tail(Top.todo) \in Seq(Tools)
    BY <2>1
  <2>3. Head(Top.todo) \in Craftable
    BY <2>2 DEF Tools, Craftable
  <2>4. Craft(Head(Top.todo), 1) \in CraftFrames /\ Craft(Head(Top.todo), 1).at = "call"
    BY <2>3 DEF CraftFrames, Craft, Frame
  <2>5. PICK u \in Seq(Tools) : u = Tail(Top.todo)
    BY <2>2
  <2>6. [Top EXCEPT !.at = "crafted", !.todo = u] \in ToolFrames
    BY <1>1, <2>5 DEF ToolFrames
  <2> QED  BY <2>4, <2>5, <2>6
<1>10. Call([Top EXCEPT !.at = "equipped"], Equip(Top.item)) \/ Call([Top EXCEPT !.at = "again"], Equip(Top.item))
       => Onward
  BY <1>6, <1>7, <1>8
<1>11. Top.todo # <<>> /\ Call([Top EXCEPT !.at = "crafted", !.todo = Tail(@)], Craft(Head(Top.todo), 1)) => Onward
  <2> DEFINE f == [Top EXCEPT !.at = "crafted", !.todo = Tail(@)]
             g == Craft(Head(Top.todo), 1)
  <2>1. Top.todo # <<>> => f \in ToolFrames /\ g \in CraftFrames /\ g.at = "call"
    BY <1>9
  <2> SUFFICES ASSUME Top.todo # <<>>, Call(f, g) PROVE Onward
    OBVIOUS
  <2> HIDE DEF f, g
  <2> QED  BY <2>1, <1>6
<1>12. Onward
  BY <1>2, <1>5, <1>10, <1>11 DEF EnsureToolStep
<1> QED  BY <1>1, <1>12, ThinksSteady

LEMMA SmeltBeginsSteady == ASSUME ProvInv, SmeltBegins PROVE Steady
<1> DEFINE f == [Top EXCEPT !.at = "reach", !.need = Top.want - inv[Top.item]]
<1>1. stack # <<>> /\ Top.do = "smeltItem" /\ Top.at = "call" /\ Top \in SmeltFrames /\ Idle /\ Thinks
  BY TopByName DEF SmeltBegins, Runs, Thinks, Idle
<1>2. Top.want - inv[Top.item] \in Int
  BY <1>1 DEF ProvInv, Stocked, SmeltFrames
<1>3. f \in SmeltFrames /\ f.do = Top.do
  BY <1>1, <1>2 DEF SmeltFrames
<1>4. \A code : Answer(code) => Onward
  BY <1>1, AnswersOnward
<1>5. ~aborted /\ Goes(f) => Onward
  <2> HIDE DEF f
  <2> QED  BY <1>1, <1>3, FramesAre, LeafGoes
<1>6. Onward
  BY <1>4, <1>5 DEF SmeltBegins
<1> QED  BY <1>1, <1>6, ThinksSteady

LEMMA SmeltReachedSteady == ASSUME ProvInv, SmeltReached PROVE Steady
<1>1. stack # <<>> /\ Top.do = "smeltItem" /\ Top.at = "reach" /\ Top \in SmeltFrames /\ Idle /\ Thinks
  BY TopByName DEF SmeltReached, Runs, Thinks, Idle
<1>2. [Top EXCEPT !.at = "load"] \in SmeltFrames /\ [Top EXCEPT !.at = "load"].do = Top.do
      /\ [Top EXCEPT !.at = "load"].at = "load"
  BY <1>1 DEF SmeltFrames
<1>3. Pending([Top EXCEPT !.at = "load"]) = 1 /\ Pending(Top) = 1
  BY <1>1, <1>2 DEF Pending, Acting
<1>4. Onward
  BY <1>1, <1>2, <1>3, FramesAre, LeafGoesTo DEF SmeltReached
<1> QED  BY <1>1, <1>4, ThinksSteady

LEMMA SmeltLoadsSteady == ASSUME ProvInv, SmeltLoads PROVE Steady
<1>1. stack # <<>> /\ Top.do = "smeltItem" /\ Top.at = "load" /\ Top \in SmeltFrames
  BY TopByName DEF SmeltLoads, Runs
<1>2. [Top EXCEPT !.at = "fuel"] \in SmeltFrames /\ [Top EXCEPT !.at = "fuel"].do = Top.do
      /\ [Top EXCEPT !.at = "fuel"].at = "fuel"
  BY <1>1 DEF SmeltFrames
<1>3. Pending([Top EXCEPT !.at = "fuel"]) = 1 /\ Pending(Top) = 1
  BY <1>1, <1>2 DEF Pending, Acting
<1>4. Onward
  BY <1>1, <1>2, <1>3, FramesAre, LeafGoesTo DEF SmeltLoads
<1>5. Top.need \in Int /\ Top.input \in Items
  BY <1>1 DEF SmeltFrames
<1>6. inv \in [Items -> Int] /\ furnace \in [input : Int, fuel : Int, output : Int]
  BY DEF ProvInv, Stocked
<1>7. inv' \in [Items -> Int] /\ furnace' \in [input : Int, fuel : Int, output : Int]
  <2>1. furnace.input + Top.need \in Int
    BY <1>5, <1>6
  <2> QED  BY <1>5, <1>6, <2>1, Edits DEF SmeltLoads
<1> QED  BY <1>4, <1>7, FaultIs DEF SmeltLoads, ProvInv, Steady, SameScene, Surroundings, Stocked, OffField

LEMMA SmeltFuelsSteady == ASSUME ProvInv, SmeltFuels PROVE Steady
<1> DEFINE fuel == Upwards(Top.need, FuelOperations)
<1>1. stack # <<>> /\ Top.do = "smeltItem" /\ Top.at = "fuel" /\ Top \in SmeltFrames
  BY TopByName DEF SmeltFuels, Runs
<1>2. [Top EXCEPT !.at = "next"] \in SmeltFrames /\ [Top EXCEPT !.at = "next"].do = Top.do
      /\ [Top EXCEPT !.at = "next"].at = "next"
  BY <1>1 DEF SmeltFrames
<1>3. Pending([Top EXCEPT !.at = "next"]) = 0 /\ Pending(Top) = 1
  BY <1>1, <1>2 DEF Pending, Acting
<1>4. Onward
  BY <1>1, <1>2, <1>3, FramesAre, LeafGoesTo DEF SmeltFuels
<1>5. Top.need \in Int /\ "coal" \in Items
  BY <1>1, ProvisionsAssumption DEF SmeltFrames
<1>6. fuel \in Int /\ fuel * FuelOperations \in Int
  BY <1>5 DEF Upwards, FuelOperations
<1>7. /\ inv' = [inv EXCEPT !["coal"] = @ - fuel]
      /\ furnace' = [furnace EXCEPT !.fuel = @ + fuel * FuelOperations]
  BY DEF SmeltFuels
<1>8. inv \in [Items -> Int] /\ furnace \in [input : Int, fuel : Int, output : Int]
  BY DEF ProvInv, Stocked
<1>9. inv' \in [Items -> Int] /\ furnace' \in [input : Int, fuel : Int, output : Int]
  <2>1. PICK m \in Int : m = fuel * FuelOperations
    BY <1>6
  <2> HIDE DEF fuel
  <2>2. inv' \in [Items -> Int]
    BY <1>5, <1>6, <1>7, <1>8, Edits
  <2>3. furnace.fuel + m \in Int
    BY <1>8
  <2> QED  BY <1>7, <1>8, <2>1, <2>2, <2>3
<1> QED  BY <1>4, <1>9, FaultIs DEF SmeltFuels, ProvInv, Steady, SameScene, Surroundings, Stocked, OffField

LEMMA SmeltLoadFailsSteady == ASSUME ProvInv, SmeltLoadFails PROVE Steady
<1>1. stack # <<>> /\ Top.do = "smeltItem" /\ Top.at \in {"load", "fuel"} /\ Top \in SmeltFrames
  BY TopByName DEF SmeltLoadFails, Runs
<1>2. Pending(Top) = 1
  BY <1>1 DEF Pending, Acting
<1>3. (\E code : Answer(code)) /\ (Acts \/ Idle)
  BY DEF SmeltLoadFails
<1>4. Onward
  BY <1>1, <1>2, <1>3, AnswersOnward
<1> QED  BY <1>4, FaultIs DEF SmeltLoadFails, world, ProvInv, Steady, SameScene, Surroundings, Stocked, OffField

LEMMA SmeltNextSteady == ASSUME ProvInv, SmeltNext PROVE Steady
<1>1. stack # <<>> /\ Top.do = "smeltItem" /\ Top.at = "next" /\ Top \in SmeltFrames /\ Idle /\ Thinks
  BY TopByName DEF SmeltNext, Runs, Thinks, Idle
<1>2. \A p \in {"take", "burn"} : [Top EXCEPT !.at = p] \in SmeltFrames /\ [Top EXCEPT !.at = p].do = Top.do
  BY <1>1 DEF SmeltFrames
<1>3. \A code : Answer(code) => Onward
  BY <1>1, AnswersOnward
<1>4. \A p \in {"take", "burn"} : ~aborted /\ GoesTo(p) => Onward
  BY <1>1, <1>2, FramesAre, LeafGoesTo
<1>5. Onward
  BY <1>3, <1>4 DEF SmeltNext
<1> QED  BY <1>1, <1>5, ThinksSteady

LEMMA SmeltTakesSteady == ASSUME ProvInv, SmeltTakes PROVE Steady
<1> DEFINE f == [Top EXCEPT !.at = "next", !.got = @ + furnace.output]
<1>1. stack # <<>> /\ Top.do = "smeltItem" /\ Top.at = "take" /\ Top \in SmeltFrames
  BY TopByName DEF SmeltTakes, Runs
<1>2. inv \in [Items -> Int] /\ furnace \in [input : Int, fuel : Int, output : Int]
  BY DEF ProvInv, Stocked
<1>3. Top.item \in Items /\ furnace.output \in Int /\ Top.got + furnace.output \in Int
  BY <1>1, <1>2 DEF SmeltFrames
<1>4. f \in SmeltFrames /\ f.do = Top.do /\ f.at = "next"
  BY <1>1, <1>3 DEF SmeltFrames
<1>5. Pending(f) = 0 /\ Pending(Top) = 1
  BY <1>1, <1>4 DEF Pending, Acting
<1>6. Goes(f) /\ Acts
  BY DEF SmeltTakes
<1>7. Onward
  <2> HIDE DEF f
  <2> QED  BY <1>1, <1>4, <1>5, <1>6, FramesAre, LeafGoes
<1>8. inv' \in [Items -> Int] /\ furnace' \in [input : Int, fuel : Int, output : Int]
  BY <1>2, <1>3, Edits DEF SmeltTakes
<1> QED  BY <1>7, <1>8, FaultIs DEF SmeltTakes, ProvInv, Steady, SameScene, Surroundings, Stocked, OffField

LEMMA SmeltTakeFailsSteady == ASSUME ProvInv, SmeltTakeFails PROVE Steady
  BY AnswersOnward, FailsSteady DEF SmeltTakeFails, Runs, Idle

LEMMA SmeltWaitsSteady == ASSUME ProvInv, SmeltWaits PROVE Steady
<1>1. stack # <<>> /\ Top.do = "smeltItem" /\ Top.at = "burn" /\ Top \in SmeltFrames /\ Idle
  BY TopByName DEF SmeltWaits, Runs, Idle
<1>2. [Top EXCEPT !.at = "next"] \in SmeltFrames /\ [Top EXCEPT !.at = "next"].do = Top.do
      /\ [Top EXCEPT !.at = "next"].at = "next"
  BY <1>1 DEF SmeltFrames
<1>3. Pending([Top EXCEPT !.at = "next"]) = 0 /\ Pending(Top) = 0
  BY <1>1, <1>2 DEF Pending, Acting
<1>4. \A code : Answer(code) => Onward
  BY <1>1, AnswersOnward
<1>5. GoesTo("next") => Onward
  BY <1>1, <1>2, <1>3, FramesAre, LeafGoesTo
<1>6. Onward
  BY <1>4, <1>5 DEF SmeltWaits
<1>7. furnace \in [input : Int, fuel : Int, output : Int]
  BY DEF ProvInv, Stocked
<1>8. furnace.input - 1 \in Int /\ furnace.fuel - 1 \in Int /\ furnace.output + 1 \in Int
  BY <1>7
<1>9. furnace' \in [input : Int, fuel : Int, output : Int]
  BY <1>7, <1>8 DEF SmeltWaits
<1>10. faults' = faults \/ Fault
  BY DEF SmeltWaits, NoFault
<1> QED  BY <1>6, <1>9, <1>10, FaultIs DEF SmeltWaits, ProvInv, Steady, SameScene, Surroundings, Stocked, OffField

LEMMA LeavesKeep == ASSUME ProvInv, Leaves PROVE ProvInv'
<1>1. Steady
  BY RetrieveBeginsSteady, RetrieveNextSteady, RetrieveTakesSteady, RetrieveFailsSteady, WalkStopsSteady,
     WalkFailsSteady, WalkBeginsSteady, IndexedSteady, DepositOpensSteady, DepositNextSteady, DepositPutsSteady,
     DepositFailsSteady, MineBeginsSteady, MineNextSteady, MineCollectsSteady, ChopBeginsSteady, ChopNextSteady,
     ChopCollectsSteady, CollectFailsSteady, CraftBeginsSteady, CraftAtTableSteady, CraftDoneSteady,
     CraftFallsSteady, EquipBeginsSteady, EquipsSteady, EnsureToolStepSteady, SmeltBeginsSteady,
     SmeltReachedSteady, SmeltLoadsSteady, SmeltFuelsSteady, SmeltLoadFailsSteady, SmeltNextSteady, SmeltTakesSteady,
     SmeltTakeFailsSteady, SmeltWaitsSteady DEF Leaves
<1>2. Top.do # "harvest"
  BY DEF Leaves, RetrieveBegins, RetrieveNext, RetrieveTakes, RetrieveFails, WalkStops, WalkFails, WalkBegins, Walks,
         Indexed, DepositOpens, DepositNext, DepositPuts, DepositFails, MineBegins, MineNext, MineCollects,
         ChopBegins, ChopNext, ChopCollects, CollectFails, CraftBegins, CraftAtTable, CraftDone, CraftFalls,
         EquipBegins, Equips, EnsureToolStep, SmeltBegins, SmeltReached, SmeltLoads, SmeltFuels, SmeltLoadFails, SmeltNext,
         SmeltTakes, SmeltTakeFails, SmeltWaits, Runs
<1> QED  BY <1>1, <1>2, SteadyKeeps

-----------------------------------------------------------------------------
(***************************************************************************)
(* Composite skills.                                                       *)
(***************************************************************************)
LEMMA ReqIs ==
  ASSUME ProvInv
  PROVE  /\ \A i \in Items : Req(i) \in Int /\ inv[i] \in Int
         /\ scene.storage \in Chests \cup {"none"} /\ scene.mission \in BOOLEAN /\ scene.reserve \in Nat
         /\ {"oak_log", "oak_planks", "oak_door", "cobblestone", "dirt", "sand", "glass", "coal"} \subseteq Items
         /\ {"stone", "dirt", "sand", "coal_ore", "iron_ore"} \subseteq Blocks
<1>1. scene \in Scenario
  BY ProvisionsAssumption DEF ProvInv
<1>2. scene.req \in [Items -> Nat] /\ scene.storage \in Chests \cup {"none"} /\ scene.mission \in BOOLEAN
      /\ scene.reserve \in Nat
  BY <1>1 DEF Scenario, Amounts
<1>3. inv \in [Items -> Int]
  BY DEF ProvInv, Stocked
<1> QED  BY <1>2, <1>3, ProvisionsAssumption DEF Req

LEMMA UpwardsIs ==
  ASSUME NEW a \in Int
  PROVE  Upwards(a, 3) \in Int /\ Upwards(a, 4) \in Int /\ Upwards(a, FuelOperations) \in Int
  BY DEF Upwards, FuelOperations

LEMMA MostIs == \A a, b \in Int : Most(a, b) \in Int
  BY DEF Most

LEMMA LeafCalls ==
  /\ \A i \in Items, n \in Int, only \in Chests \cup {"any"}, except \in Chests \cup {"none"} :
        Retrieve(i, n, only, except) \in LeafFrames /\ Retrieve(i, n, only, except).at = "call"
  /\ \A c \in Chests : Scan(c) \in LeafFrames /\ Scan(c).at = "call"
  /\ \A c \in Chests, i \in Items, n \in Int : Deposit(c, i, n) \in LeafFrames /\ Deposit(c, i, n).at = "call"
  /\ \A b \in Blocks, i \in Items, n \in Int : Mine(b, i, n) \in LeafFrames /\ Mine(b, i, n).at = "call"
  /\ Chop \in LeafFrames /\ Chop.at = "call"
  /\ \A i \in Craftable, n \in Int : Craft(i, n) \in LeafFrames /\ Craft(i, n).at = "call"
  /\ \A b \in Blocks : EnsureTool(b) \in LeafFrames /\ EnsureTool(b).at = "call"
  /\ \A i \in Items, o \in Items, n \in Int : Smelt(i, o, n) \in LeafFrames /\ Smelt(i, o, n).at = "call"
<1>1. \A i \in Items, n \in Int, only \in Chests \cup {"any"}, except \in Chests \cup {"none"} :
        Retrieve(i, n, only, except) \in RetrieveFrames /\ Retrieve(i, n, only, except).at = "call"
  BY DEF Retrieve, RetrieveFrames
<1>2. \A c \in Chests : Scan(c) \in ScanFrames /\ Scan(c).at = "call"
  BY DEF Scan, Frame, ScanFrames
<1>3. \A c \in Chests, i \in Items, n \in Int : Deposit(c, i, n) \in DepositFrames /\ Deposit(c, i, n).at = "call"
  BY DEF Deposit, DepositFrames
<1>4. \A b \in Blocks, i \in Items, n \in Int : Mine(b, i, n) \in MineFrames /\ Mine(b, i, n).at = "call"
  BY DEF Mine, MineFrames
<1>5. Chop \in ChopFrames /\ Chop.at = "call"
  BY DEF Chop, Frame, ChopFrames
<1>6. \A i \in Craftable, n \in Int : Craft(i, n) \in CraftFrames /\ Craft(i, n).at = "call"
  BY DEF Craft, Frame, CraftFrames
<1>7. \A b \in Blocks : EnsureTool(b) \in ToolFrames /\ EnsureTool(b).at = "call"
  <2>1. Tiers \in Seq(Tools)
    BY DEF Tiers, Tools
  <2> HIDE DEF Tiers
  <2> QED  BY <2>1 DEF EnsureTool, ToolFrames
<1>8. \A i \in Items, o \in Items, n \in Int : Smelt(i, o, n) \in SmeltFrames /\ Smelt(i, o, n).at = "call"
  BY DEF Smelt, SmeltFrames
<1> QED  BY <1>1, <1>2, <1>3, <1>4, <1>5, <1>6, <1>7, <1>8, FramesAre

(* A composite skill that decides where to go on, or awaits another.       *)
CompositeFrames == PrepareFrames \cup SupplyFrames \cup RestockFrames

LEMMA CompositesWait ==
  \A f \in CompositeFrames : Pending(f) = 0 /\ f \in Frames /\ f.do # "harvest" /\ f.do \in Composite
<1>1. \A f \in CompositeFrames : f.do \in {"prepare", "supply", "restock"}
  BY DEF CompositeFrames, PrepareFrames, SupplyFrames, RestockFrames
<1> QED  BY <1>1, FramesAre DEF CompositeFrames, Pending, Acting, Composite

LEMMA CompositeSteady ==
  ASSUME ProvInv, stack # <<>>, Thinks, NEW f \in CompositeFrames, f.do = Top.do, Own(f),
         \/ Goes(f)
         \/ \E g \in LeafFrames : g.at = "call" /\ Call(f, g)
  PROVE  Steady
<1>1. Pending(f) = 0 /\ Pending(Top) \in Nat /\ f \in Frames
  BY CompositesWait, PendingIs
<1>2. Idle
  BY DEF Thinks, Idle
<1>3. Goes(f) => Onward
  BY <1>1, <1>2, GoesOnward
<1>4. (\E g \in LeafFrames : g.at = "call" /\ Call(f, g)) => Onward
  BY <1>1, <1>2, CallsOnward
<1> QED  BY <1>3, <1>4, ThinksSteady

LEMMA AnswerSteady ==
  ASSUME ProvInv, stack # <<>>, Thinks, NEW code, Answer(code)
  PROVE  Steady
  BY AnswersOnward, ThinksSteady DEF Thinks, Idle

-----------------------------------------------------------------------------
(***************************************************************************)
(* The preparation.                                                        *)
(***************************************************************************)
MissionPlaces == {"none", "call", "store", "answered", "final"}

LEMMA PrepareMoves ==
  ASSUME ProvInv, stack # <<>>, Top.do = "prepare", Thinks, NEW f \in PrepareFrames,
         scene.mission => f.at \in MissionPlaces /\ f.then \in {"none", "store"},
         scene.storage = "none" => f.todo \subseteq Top.todo,
         \/ Goes(f)
         \/ \E g \in LeafFrames : g.at = "call" /\ Delegates(f, g)
  PROVE  Steady
<1>1. f.do = "prepare" /\ f \in CompositeFrames
  BY DEF PrepareFrames, CompositeFrames
<1>2. Own(f)
  <2>1. Own(Top) /\ (scene.storage = "none" => f.todo = {})
    BY TopByName DEF Own
  <2> QED  BY <1>1, <2>1 DEF Own, MissionPlaces
<1>3. Goes(f) => Steady
  BY <1>1, <1>2, CompositeSteady
<1>4. ASSUME NEW g \in LeafFrames, g.at = "call", Delegates(f, g)
      PROVE  Steady
  <2>1. Call(f, g) \/ \E code : Answer(code)
    BY <1>4 DEF Delegates
  <2> QED  BY <1>1, <1>2, <1>4, <2>1, CompositeSteady, AnswerSteady
<1> QED  BY <1>3, <1>4

LEMMA NoMission ==
  ASSUME ProvInv, stack # <<>>, Top.do = "prepare", Top.at \notin MissionPlaces
  PROVE  ~scene.mission
  BY TopByName DEF Own, MissionPlaces

LEMMA WorksSteady ==
  ASSUME ProvInv, NEW stage, stage \notin MissionPlaces, NEW needed, NEW g \in LeafFrames, g.at = "call",
         NEW next \in PreparePlaces, Works(stage, needed, g, next)
  PROVE  Steady
<1>1. stack # <<>> /\ Top.do = "prepare" /\ Thinks /\ Top \in PrepareFrames /\ ~scene.mission
  BY NoMission, TopByName DEF Works, Runs
<1>2. Then(Top, next) \in PrepareFrames /\ [Top EXCEPT !.at = next] \in PrepareFrames
  BY <1>1 DEF Then, PrepareFrames, PreparePlaces
<1>3. Then(Top, next).todo = Top.todo /\ [Top EXCEPT !.at = next].todo = Top.todo
  BY <1>1 DEF Then, PrepareFrames
<1>4. Delegates(Then(Top, next), g) \/ Goes([Top EXCEPT !.at = next])
  BY DEF Works, GoesTo
<1> QED  BY <1>1, <1>2, <1>3, <1>4, PrepareMoves

LEMMA PrepareStartsSteady == ASSUME ProvInv, PrepareStarts PROVE Steady
<1> DEFINE f == [Top EXCEPT !.at = "store",
                            !.todo = IF scene.storage = "none" THEN {} ELSE {i \in Items : Req(i) > 0}]
<1>1. stack # <<>> /\ Top.do = "prepare" /\ Top.at = "call" /\ Thinks /\ Top \in PrepareFrames /\ Own(Top)
  BY TopByName DEF PrepareStarts, Runs
<1>2. f \in PrepareFrames /\ f.at = "store" /\ f.then = Top.then /\ (scene.storage = "none" => f.todo = {})
  <2>1. (IF scene.storage = "none" THEN {} ELSE {i \in Items : Req(i) > 0}) \in SUBSET Items
    OBVIOUS
  <2> QED  BY <1>1, <2>1 DEF PrepareFrames, PreparePlaces
<1>3. scene.mission => f.at \in MissionPlaces /\ f.then \in {"none", "store"}
  BY <1>1, <1>2 DEF Own, MissionPlaces
<1>4. Goes(f) \/ \E code : Answer(code)
  BY DEF PrepareStarts
<1> HIDE DEF f
<1> QED  BY <1>1, <1>2, <1>3, <1>4, PrepareMoves, AnswerSteady

LEMMA PrepareStoreSteady == ASSUME ProvInv, PrepareStore PROVE Steady
<1>1. stack # <<>> /\ Top.do = "prepare" /\ Top.at = "store" /\ Thinks /\ Top \in PrepareFrames /\ Own(Top)
  BY TopByName DEF PrepareStore, Runs
<1>2. scene.mission => Top.then \in {"none", "store"}
  BY <1>1 DEF Own
<1>3. CASE GoesTo(IF scene.mission THEN "final" ELSE "gather")
  <2> DEFINE f == [Top EXCEPT !.at = IF scene.mission THEN "final" ELSE "gather"]
  <2>1. f \in PrepareFrames /\ (scene.mission => f.at = "final") /\ f.then = Top.then /\ f.todo = Top.todo /\ Goes(f)
    BY <1>1, <1>3 DEF PrepareFrames, PreparePlaces, GoesTo
  <2> HIDE DEF f
  <2>2. scene.mission => f.at \in MissionPlaces /\ f.then \in {"none", "store"}
    BY <1>2, <2>1 DEF MissionPlaces
  <2> QED  BY <1>1, <2>1, <2>2, PrepareMoves
<1>4. ASSUME NEW i \in Top.todo, Goes([Top EXCEPT !.todo = @ \ {i}])
      PROVE  Steady
  <2> DEFINE f == [Top EXCEPT !.todo = @ \ {i}]
  <2>1. f \in PrepareFrames /\ f.at = "store" /\ f.then = Top.then /\ f.todo \subseteq Top.todo /\ Goes(f)
    BY <1>1, <1>4 DEF PrepareFrames
  <2> HIDE DEF f
  <2>2. scene.mission => f.at \in MissionPlaces /\ f.then \in {"none", "store"}
    BY <1>2, <2>1 DEF MissionPlaces
  <2> QED  BY <1>1, <2>1, <2>2, PrepareMoves
<1>5. ASSUME NEW i \in Top.todo,
             Delegates(Then([Top EXCEPT !.todo = @ \ {i}], "store"), Retrieve(i, Req(i), scene.storage, "none"))
      PROVE  Steady
  <2> DEFINE f == Then([Top EXCEPT !.todo = @ \ {i}], "store")
             g == Retrieve(i, Req(i), scene.storage, "none")
  <2>1. f \in PrepareFrames /\ f.at = "answered" /\ f.then = "store" /\ f.todo \subseteq Top.todo
    BY <1>1 DEF PrepareFrames, Then, PreparePlaces
  <2>2. i \in Items
    BY <1>1 DEF PrepareFrames
  <2>3. g \in LeafFrames /\ g.at = "call"
    <3>1. scene.storage # "none" /\ scene.storage \in Chests
      BY <1>1, <1>5, ReqIs DEF Own
    <3>2. Req(i) \in Int
      BY <2>2, ReqIs
    <3> QED  BY <2>2, <3>1, <3>2, LeafCalls
  <2>4. Delegates(f, g)
    BY <1>5
  <2> HIDE DEF f, g
  <2>5. scene.mission => f.at \in MissionPlaces /\ f.then \in {"none", "store"}
    BY <2>1 DEF MissionPlaces
  <2> QED  BY <1>1, <2>1, <2>3, <2>4, <2>5, PrepareMoves
<1> QED  BY <1>3, <1>4, <1>5 DEF PrepareStore

LEMMA PrepareGathersSteady == ASSUME ProvInv, PrepareGathers PROVE Steady
<1> DEFINE f == [Top EXCEPT !.at = "logs", !.logs = LogsWanted, !.planks = PlanksWanted]
<1>1. stack # <<>> /\ Top.do = "prepare" /\ Top.at = "gather" /\ Thinks /\ Top \in PrepareFrames
  BY TopByName DEF PrepareGathers, Runs
<1>2. ~scene.mission
  BY <1>1, NoMission DEF MissionPlaces
<1>3. Req("oak_door") - inv["oak_door"] \in Int /\ Req("oak_planks") \in Int /\ Req("oak_log") \in Int
      /\ inv["oak_planks"] \in Int
  BY ReqIs
<1>4. DoorCrafts \in Int
  BY <1>3 DEF DoorCrafts, Most, Upwards
<1>5. PlanksWanted \in Int
  BY <1>3, <1>4 DEF PlanksWanted
<1>6. PlanksWanted - inv["oak_planks"] \in Int
  BY <1>3, <1>5
<1>7. Upwards(Most(0, PlanksWanted - inv["oak_planks"]), 4) \in Int
  BY <1>6 DEF Most, Upwards
<1>8. LogsWanted \in Int
  BY <1>3, <1>7 DEF LogsWanted
<1>9. f \in PrepareFrames /\ f.todo = Top.todo
  BY <1>1, <1>5, <1>8 DEF PrepareFrames, PreparePlaces
<1>10. Goes(f) \/ \E code : Answer(code)
  BY DEF PrepareGathers
<1> HIDE DEF f
<1> QED  BY <1>1, <1>2, <1>9, <1>10, PrepareMoves, AnswerSteady

LEMMA PrepareLogsSteady == ASSUME ProvInv, PrepareLogs PROVE Steady
<1>1. stack # <<>> /\ Top.do = "prepare" /\ Top.at \in {"logs", "chopped"} /\ Thinks /\ Top \in PrepareFrames
  BY TopByName DEF PrepareLogs, Runs
<1>2. ~scene.mission
  BY <1>1, NoMission DEF MissionPlaces
<1>3. inv["oak_log"] \in Int
  BY ReqIs
<1>4. ASSUME NEW f \in PrepareFrames, f.todo = Top.todo, Goes(f) \/ Delegates(f, Chop)
      PROVE  Steady
  BY <1>1, <1>2, <1>4, PrepareMoves, LeafCalls
<1>5. [Top EXCEPT !.at = "planks", !.tries = 0] \in PrepareFrames
      /\ [Top EXCEPT !.at = "planks", !.tries = 0].todo = Top.todo
  <2>1. PICK n \in Int : n = 0
    OBVIOUS
  <2>2. [Top EXCEPT !.at = "planks", !.tries = n] \in PrepareFrames
        /\ [Top EXCEPT !.at = "planks", !.tries = n].todo = Top.todo
    BY <1>1 DEF PrepareFrames, PreparePlaces
  <2> QED  BY <2>1, <2>2
<1>6. [Top EXCEPT !.at = "logs"] \in PrepareFrames /\ [Top EXCEPT !.at = "logs"].todo = Top.todo
  BY <1>1 DEF PrepareFrames, PreparePlaces
<1>7. [Then(Top, "chopped") EXCEPT !.tries = @ + 1, !.before = inv["oak_log"]] \in PrepareFrames
      /\ [Then(Top, "chopped") EXCEPT !.tries = @ + 1, !.before = inv["oak_log"]].todo = Top.todo
  <2>1. Then(Top, "chopped") \in PrepareFrames /\ Then(Top, "chopped").todo = Top.todo
    BY <1>1 DEF PrepareFrames, PreparePlaces, Then
  <2>2. PICK t \in PrepareFrames : t = Then(Top, "chopped")
    BY <2>1
  <2>3. t.tries + 1 \in Int
    BY DEF PrepareFrames
  <2>4. [t EXCEPT !.tries = @ + 1, !.before = inv["oak_log"]] \in PrepareFrames
        /\ [t EXCEPT !.tries = @ + 1, !.before = inv["oak_log"]].todo = t.todo
    BY <1>3, <2>3 DEF PrepareFrames
  <2> QED  BY <2>1, <2>2, <2>4
<1>8. \/ Goes([Top EXCEPT !.at = "planks", !.tries = 0])
      \/ Goes([Top EXCEPT !.at = "logs"])
      \/ Delegates([Then(Top, "chopped") EXCEPT !.tries = @ + 1, !.before = inv["oak_log"]], Chop)
      \/ \E code : Answer(code)
  BY DEF PrepareLogs, GoesTo
<1>9. (\E code : Answer(code)) => Steady
  BY <1>1, AnswerSteady
<1> QED  BY <1>4, <1>5, <1>6, <1>7, <1>8, <1>9

LEMMA CraftsUntilSteady ==
  ASSUME ProvInv, NEW stage \in {"planks", "doors"}, NEW then \in {"planked", "doored"}, NEW i \in Craftable,
         NEW wanted \in Int, NEW next \in {"doors", "pickaxe"}, CraftsUntil(stage, then, i, wanted, next)
  PROVE  Steady
<1>1. stack # <<>> /\ Top.do = "prepare" /\ Top.at \in {stage, then} /\ Thinks /\ Top \in PrepareFrames
  BY TopByName DEF CraftsUntil, Runs
<1>2. ~scene.mission
  BY <1>1, NoMission DEF MissionPlaces
<1>3. inv[i] \in Int /\ Top.tries + 1 \in Int
  BY <1>1, RecipeIs, ReqIs DEF PrepareFrames
<1>4. ASSUME NEW f \in PrepareFrames, f.todo = Top.todo, Goes(f) \/ Delegates(f, Craft(i, wanted))
      PROVE  Steady
  BY <1>1, <1>2, <1>4, PrepareMoves, LeafCalls
<1>5. [Top EXCEPT !.at = next, !.tries = 0] \in PrepareFrames
      /\ [Top EXCEPT !.at = next, !.tries = 0].todo = Top.todo
  <2>1. PICK n \in Int : n = 0
    OBVIOUS
  <2>2. [Top EXCEPT !.at = next, !.tries = n] \in PrepareFrames
        /\ [Top EXCEPT !.at = next, !.tries = n].todo = Top.todo
    BY <1>1 DEF PrepareFrames, PreparePlaces
  <2> QED  BY <2>1, <2>2
<1>6. [Top EXCEPT !.at = stage] \in PrepareFrames /\ [Top EXCEPT !.at = stage].todo = Top.todo
  BY <1>1 DEF PrepareFrames, PreparePlaces
<1>7. [Top EXCEPT !.at = then, !.tries = @ + 1, !.before = inv[i]] \in PrepareFrames
      /\ [Top EXCEPT !.at = then, !.tries = @ + 1, !.before = inv[i]].todo = Top.todo
  BY <1>1, <1>3 DEF PrepareFrames, PreparePlaces
<1>8. \/ Goes([Top EXCEPT !.at = next, !.tries = 0])
      \/ Goes([Top EXCEPT !.at = stage])
      \/ Delegates([Top EXCEPT !.at = then, !.tries = @ + 1, !.before = inv[i]], Craft(i, wanted))
      \/ \E code : Answer(code)
  BY DEF CraftsUntil, GoesTo
<1>9. (\E code : Answer(code)) => Steady
  BY <1>1, AnswerSteady
<1> QED  BY <1>4, <1>5, <1>6, <1>7, <1>8, <1>9

LEMMA PreparePlanksSteady == ASSUME ProvInv, PreparePlanks PROVE Steady
<1>1. Top.planks \in Int
  BY TopByName DEF PreparePlanks, CraftsUntil, Runs, PrepareFrames
<1> QED  BY <1>1, CraftsUntilSteady DEF PreparePlanks, Craftable

LEMMA PrepareDoorsSteady == ASSUME ProvInv, PrepareDoors PROVE Steady
<1>1. Req("oak_door") \in Int
  BY ReqIs
<1> QED  BY <1>1, CraftsUntilSteady DEF PrepareDoors, Craftable

LEMMA WantedAre == ASSUME ProvInv PROVE GlassWanted \in Int /\ SandWanted \in Int /\ FuelWanted \in Int
<1>1. Req("glass") - inv["glass"] \in Int /\ Req("sand") \in Int
  BY ReqIs
<1>2. GlassWanted \in Int
  BY <1>1 DEF GlassWanted, Most
<1> QED  BY <1>1, <1>2 DEF SandWanted, FuelWanted, Upwards, FuelOperations

LEMMA PrepareStoneSteady == ASSUME ProvInv, PrepareStone PROVE Steady
<1>0. "stone" \in Blocks /\ "cobblestone" \in Items /\ Req("cobblestone") \in Int
  BY ReqIs
<1>1. EnsureTool("stone") \in LeafFrames /\ EnsureTool("stone").at = "call"
      /\ Mine("stone", "cobblestone", Req("cobblestone")) \in LeafFrames
      /\ Mine("stone", "cobblestone", Req("cobblestone")).at = "call"
  BY <1>0, LeafCalls
<1> QED  BY <1>1, WorksSteady DEF PrepareStone, MissionPlaces, PreparePlaces

LEMMA PrepareDirtSteady == ASSUME ProvInv, PrepareDirt PROVE Steady
<1>0. "dirt" \in Blocks /\ "dirt" \in Items /\ Req("dirt") \in Int
  BY ReqIs, WantedAre
<1>1. Mine("dirt", "dirt", Req("dirt")) \in LeafFrames /\ Mine("dirt", "dirt", Req("dirt")).at = "call"
  BY <1>0, LeafCalls
<1> QED  BY <1>1, WorksSteady DEF PrepareDirt, MissionPlaces, PreparePlaces

LEMMA PrepareSandSteady == ASSUME ProvInv, PrepareSand PROVE Steady
<1>0. "sand" \in Blocks /\ "sand" \in Items /\ SandWanted \in Int
  BY ReqIs, WantedAre
<1>1. Mine("sand", "sand", SandWanted) \in LeafFrames /\ Mine("sand", "sand", SandWanted).at = "call"
  BY <1>0, LeafCalls
<1> QED  BY <1>1, WorksSteady DEF PrepareSand, MissionPlaces, PreparePlaces

LEMMA PrepareFuelSteady == ASSUME ProvInv, PrepareFuel PROVE Steady
<1>0. "coal_ore" \in Blocks /\ "coal" \in Items /\ FuelWanted \in Int
  BY ReqIs, WantedAre
<1>1. EnsureTool("coal_ore") \in LeafFrames /\ EnsureTool("coal_ore").at = "call"
      /\ Mine("coal_ore", "coal", FuelWanted) \in LeafFrames /\ Mine("coal_ore", "coal", FuelWanted).at = "call"
  BY <1>0, LeafCalls
<1> QED  BY <1>1, WorksSteady DEF PrepareFuel, MissionPlaces, PreparePlaces

LEMMA PrepareGlassSteady == ASSUME ProvInv, PrepareGlass PROVE Steady
<1>0. "sand" \in Items /\ "glass" \in Items /\ Req("glass") \in Int
  BY ReqIs, WantedAre
<1>1. Smelt("sand", "glass", Req("glass")) \in LeafFrames /\ Smelt("sand", "glass", Req("glass")).at = "call"
  BY <1>0, LeafCalls
<1> QED  BY <1>1, WorksSteady DEF PrepareGlass, MissionPlaces, PreparePlaces

LEMMA PreparationKeeps == ASSUME ProvInv, Preparation PROVE ProvInv'
<1>1. PrepareEnds => Steady
  BY AnswerSteady DEF PrepareEnds, Runs
<1>2. Steady
  BY <1>1, PrepareStartsSteady, PrepareStoreSteady, PrepareGathersSteady, PrepareLogsSteady, PreparePlanksSteady,
     PrepareDoorsSteady, PrepareStoneSteady, PrepareDirtSteady, PrepareSandSteady, PrepareFuelSteady,
     PrepareGlassSteady DEF Preparation
<1>3. Top.do = "prepare"
  BY DEF Preparation, PrepareStarts, PrepareStore, PrepareGathers, PrepareLogs, PreparePlanks, PrepareDoors,
         PrepareStone, PrepareDirt, PrepareSand, PrepareFuel, PrepareGlass, PrepareEnds, CraftsUntil, Works, Runs
<1> QED  BY <1>2, <1>3, SteadyKeeps

-----------------------------------------------------------------------------
(***************************************************************************)
(* Supply and restocking.                                                  *)
(***************************************************************************)
LEMMA SmeltingIs ==
  ASSUME NEW i \in Smelted
  PROVE  i \in Items /\ SmeltingRecipe(i).input \in Items /\ SmeltingRecipe(i).block \in Blocks
<1>1. i = "iron_ingot" \/ i = "stone"
  BY DEF Smelted
<1>2. i \in Items
  BY DEF Smelted
<1>3. CASE i = "iron_ingot"
  BY <1>2, <1>3, ProvisionsAssumption DEF SmeltingRecipe
<1>4. CASE i = "stone"
  BY <1>2, <1>4, ProvisionsAssumption DEF SmeltingRecipe
<1> QED  BY <1>1, <1>3, <1>4

LEMMA SupplyMoves ==
  ASSUME ProvInv, stack # <<>>, Top.do = "supply", Thinks, NEW f \in SupplyFrames,
         \/ Goes(f)
         \/ \E g \in LeafFrames : g.at = "call" /\ Call(f, g)
  PROVE  Steady
<1>1. f.do = "supply" /\ f \in CompositeFrames
  BY DEF SupplyFrames, CompositeFrames
<1>2. Own(f)
  BY <1>1, TopByName DEF Own
<1> QED  BY <1>1, <1>2, CompositeSteady

LEMMA SupplyTop ==
  ASSUME ProvInv, stack # <<>>, Top.do = "supply"
  PROVE  /\ Top \in SupplyFrames /\ Top.item \in Items /\ Top.chest \in Chests /\ Needed \in Int
         /\ Top.at \in LatePlaces => Top.item \in Smelted
         /\ inv[Top.item] \in Int
<1>1. Top \in SupplyFrames
  BY TopByName
<1>2. Top.item \in Items /\ Top.chest \in Chests /\ Top.want \in Int
  BY <1>1 DEF SupplyFrames, Smelted
<1>3. Top.at \in LatePlaces => Top.item \in Smelted
  BY <1>1 DEF SupplyFrames, LatePlaces, EarlyPlaces
<1>4. index[Top.chest][Top.item] \in Int /\ inv[Top.item] \in Int
  BY <1>2 DEF ProvInv, Stocked
<1> QED  BY <1>1, <1>2, <1>3, <1>4 DEF Needed, Stored

\* From a stage to another: any early one, or a late one for what is smelted.
LEMMA SupplyPlaces ==
  ASSUME NEW t \in SupplyFrames, NEW stage,
         stage \in EarlyPlaces \/ (stage \in LatePlaces /\ t.item \in Smelted)
  PROVE  Then(t, stage) \in SupplyFrames /\ Whatever(t, stage) \in SupplyFrames
         /\ [t EXCEPT !.at = stage] \in SupplyFrames
<1>1. CASE t.item \in Smelted
  <2>1. t \in [do : {"supply"}, at : EarlyPlaces \cup LatePlaces, item : Smelted, want : Int,
               then : EarlyPlaces \cup LatePlaces, chest : Chests]
    BY <1>1 DEF SupplyFrames
  <2> QED  BY <2>1 DEF SupplyFrames, Then, Whatever, EarlyPlaces
<1>2. CASE t.item \notin Smelted
  <2>1. t \in [do : {"supply"}, at : EarlyPlaces, item : Items, want : Int, then : EarlyPlaces, chest : Chests]
    BY <1>2 DEF SupplyFrames
  <2> QED  BY <1>2, <2>1 DEF SupplyFrames, Then, Whatever, EarlyPlaces
<1> QED  BY <1>1, <1>2

LEMMA SupplyLooksSteady == ASSUME ProvInv, SupplyLooks, Thinks PROVE Steady
<1>1. stack # <<>> /\ Top.do = "supply"
  BY DEF SupplyLooks, Supplies, Runs
<1>2. Top \in SupplyFrames /\ Top.chest \in Chests /\ (Top.at \in LatePlaces => Top.item \in Smelted)
  BY <1>1, SupplyTop
<1>3. ScanIt \in LeafFrames /\ ScanIt.at = "call"
  BY <1>2, LeafCalls DEF ScanIt
<1>4. \A p \in {"found", "found2", "found3"} : Then(Top, p) \in SupplyFrames
  BY <1>2, SupplyPlaces DEF EarlyPlaces
<1>5. Top.at = "brought3" => Then(Top, "verify") \in SupplyFrames
  BY <1>2, SupplyPlaces DEF LatePlaces
<1>6. PICK p : Then(Top, p) \in SupplyFrames /\ Call(Then(Top, p), ScanIt)
  <2>1. CASE Supplies("call") /\ Call(Then(Top, "found"), ScanIt)
    BY <2>1, <1>4
  <2>2. CASE Call(Then(Top, "found2"), ScanIt) \/ Call(Then(Top, "found3"), ScanIt)
    BY <2>2, <1>4
  <2>3. CASE Supplies("brought3") /\ Call(Then(Top, "verify"), ScanIt)
    BY <2>3, <1>5 DEF Supplies, Runs
  <2> QED  BY <2>1, <2>2, <2>3 DEF SupplyLooks
<1> QED  BY <1>1, <1>3, <1>6, SupplyMoves

LEMMA SupplyCalls ==
  ASSUME ProvInv, stack # <<>>, Top.do = "supply"
  PROVE  /\ BringIt \in LeafFrames /\ BringIt.at = "call"
         /\ LET r == Retrieve(Top.item, inv[Top.item] + Needed, "any", Top.chest)
            IN r \in LeafFrames /\ r.at = "call"
         /\ LET r == Retrieve("coal", Upwards(Needed, FuelOperations), "any", Top.chest)
            IN r \in LeafFrames /\ r.at = "call"
         /\ EnsureTool("coal_ore") \in LeafFrames /\ EnsureTool("coal_ore").at = "call"
         /\ LET m == Mine("coal_ore", "coal", Upwards(Needed, FuelOperations))
            IN m \in LeafFrames /\ m.at = "call"
<1>1. Top.item \in Items /\ Top.chest \in Chests /\ Needed \in Int /\ inv[Top.item] \in Int
  BY SupplyTop
<1>2. "coal" \in Items /\ "coal_ore" \in Blocks
  BY ProvisionsAssumption
<1>3. PICK i \in Items : i = Top.item
  BY <1>1
<1>4. PICK c \in Chests : c = Top.chest
  BY <1>1
<1>5. PICK n \in Int : n = inv[Top.item] + Needed
  BY <1>1
<1>6. PICK u \in Int : u = Upwards(Needed, FuelOperations)
  BY <1>1, UpwardsIs
<1>7. PICK z \in Int : z = 0
  OBVIOUS
<1>8. Deposit(c, i, z) \in LeafFrames /\ Deposit(c, i, z).at = "call"
      /\ Retrieve(i, n, "any", c) \in LeafFrames /\ Retrieve(i, n, "any", c).at = "call"
      /\ Retrieve("coal", u, "any", c) \in LeafFrames /\ Retrieve("coal", u, "any", c).at = "call"
  BY <1>2, LeafCalls
<1>9. EnsureTool("coal_ore") \in LeafFrames /\ EnsureTool("coal_ore").at = "call"
      /\ Mine("coal_ore", "coal", u) \in LeafFrames /\ Mine("coal_ore", "coal", u).at = "call"
  BY <1>2, LeafCalls
<1> QED  BY <1>3, <1>4, <1>5, <1>6, <1>7, <1>8, <1>9 DEF BringIt

LEMMA SmeltCalls ==
  ASSUME ProvInv, stack # <<>>, Top.do = "supply", Top.item \in Smelted
  PROVE  /\ Retrieve(Input, Needed, "any", Top.chest) \in LeafFrames
         /\ Retrieve(Input, Needed, "any", Top.chest).at = "call"
         /\ EnsureTool(Source) \in LeafFrames /\ EnsureTool(Source).at = "call"
         /\ Mine(Source, Input, Needed) \in LeafFrames /\ Mine(Source, Input, Needed).at = "call"
         /\ Smelt(Input, Top.item, Needed) \in LeafFrames /\ Smelt(Input, Top.item, Needed).at = "call"
<1>1. Top.item \in Items /\ Top.chest \in Chests /\ Needed \in Int
  BY SupplyTop
<1>2. Input \in Items /\ Source \in Blocks
  BY SmeltingIs DEF Input, Source
<1>3. /\ Retrieve(Input, Needed, "any", Top.chest) \in LeafFrames
      /\ Retrieve(Input, Needed, "any", Top.chest).at = "call"
  <2>1. PICK i \in Items, n \in Int, c \in Chests : i = Input /\ n = Needed /\ c = Top.chest
    BY <1>1, <1>2
  <2>2. Retrieve(i, n, "any", c) \in LeafFrames /\ Retrieve(i, n, "any", c).at = "call"
    BY LeafCalls
  <2> QED  BY <2>1, <2>2
<1>4. EnsureTool(Source) \in LeafFrames /\ EnsureTool(Source).at = "call"
  BY <1>2, LeafCalls
<1>5. Mine(Source, Input, Needed) \in LeafFrames /\ Mine(Source, Input, Needed).at = "call"
  BY <1>1, <1>2, LeafCalls
<1>6. Smelt(Input, Top.item, Needed) \in LeafFrames /\ Smelt(Input, Top.item, Needed).at = "call"
  BY <1>1, <1>2, LeafCalls
<1> QED  BY <1>3, <1>4, <1>5, <1>6

LEMMA SupplyFoundSteady == ASSUME ProvInv, SupplyFound, Thinks PROVE Steady
<1>1. stack # <<>> /\ Top.do = "supply"
  BY DEF SupplyFound, Supplies, Runs
<1>2. Top \in SupplyFrames
  BY <1>1, SupplyTop
<1>3. \A p \in EarlyPlaces : Then(Top, p) \in SupplyFrames /\ Whatever(Top, p) \in SupplyFrames
                             /\ [Top EXCEPT !.at = p] \in SupplyFrames
  BY <1>2, SupplyPlaces
<1>4. ASSUME NEW f \in SupplyFrames, NEW g \in LeafFrames, g.at = "call", Call(f, g) PROVE Steady
  BY <1>1, <1>4, SupplyMoves
<1>5. ASSUME NEW p \in EarlyPlaces, GoesTo(p) PROVE Steady
  BY <1>1, <1>3, <1>5, SupplyMoves DEF GoesTo
<1>6. (\E code : Answer(code)) => Steady
  BY <1>1, AnswerSteady
<1>7. Call(Then(Top, "brought"), BringIt) \/ Call(Then(Top, "brought2"), BringIt) => Steady
  <2>1. Then(Top, "brought") \in SupplyFrames /\ Then(Top, "brought2") \in SupplyFrames
    BY <1>3 DEF EarlyPlaces
  <2> QED  BY <1>1, <1>4, <2>1, SupplyCalls
<1>8. Call(Whatever(Top, "bring"), Retrieve(Top.item, inv[Top.item] + Needed, "any", Top.chest)) => Steady
  <2>1. Whatever(Top, "bring") \in SupplyFrames
    BY <1>3 DEF EarlyPlaces
  <2> QED  BY <1>1, <1>4, <2>1, SupplyCalls
<1>9. GoesTo("elsewhere") \/ GoesTo("produce") => Steady
  BY <1>5 DEF EarlyPlaces
<1> QED  BY <1>6, <1>7, <1>8, <1>9 DEF SupplyFound

LEMMA SupplyProducesSteady == ASSUME ProvInv, SupplyProduces, Thinks PROVE Steady
<1>1. stack # <<>> /\ Top.do = "supply"
  BY DEF SupplyProduces, Supplies, Runs
<1>2. (\E code : Answer(code)) => Steady
  BY <1>1, AnswerSteady
<1>3. CASE Top.item \in Smelted
  <2>1. \A p \in LatePlaces : Then(Top, p) \in SupplyFrames /\ Whatever(Top, p) \in SupplyFrames
                             /\ [Top EXCEPT !.at = p] \in SupplyFrames
    BY <1>1, <1>3, SupplyTop, SupplyPlaces
  <2>2. ASSUME NEW p \in LatePlaces, NEW g \in LeafFrames, g.at = "call",
               Call(Then(Top, p), g) \/ Call(Whatever(Top, p), g)
        PROVE  Steady
    BY <1>1, <2>1, <2>2, SupplyMoves
  <2>3. GoesTo("fuelstock") \/ GoesTo("smelt") => Steady
    <3>1. [Top EXCEPT !.at = "fuelstock"] \in SupplyFrames /\ [Top EXCEPT !.at = "smelt"] \in SupplyFrames
      BY <2>1 DEF LatePlaces
    <3> QED  BY <1>1, <3>1, SupplyMoves DEF GoesTo
  <2>4. \/ Call(Whatever(Top, "tool"), Retrieve(Input, Needed, "any", Top.chest))
        \/ Call(Then(Top, "input"), EnsureTool(Source))
        \/ Call(Then(Top, "fuelstock"), Mine(Source, Input, Needed))
        \/ Call(Then(Top, "bringit"), Smelt(Input, Top.item, Needed))
        => Steady
    BY <1>1, <1>3, <2>2, SmeltCalls DEF LatePlaces
  <2>5. \/ Call(Whatever(Top, "fueltool"), Retrieve("coal", Upwards(Needed, FuelOperations), "any", Top.chest))
        \/ Call(Then(Top, "fuel"), EnsureTool("coal_ore"))
        \/ Call(Then(Top, "smelt"), Mine("coal_ore", "coal", Upwards(Needed, FuelOperations)))
        \/ Call(Then(Top, "brought3"), BringIt)
        => Steady
    BY <1>1, <2>2, SupplyCalls DEF LatePlaces
  <2> QED  BY <1>2, <2>3, <2>4, <2>5 DEF SupplyProduces
<1>4. CASE Top.item \notin Smelted
  <2>1. Top.at \notin LatePlaces
    BY <1>1, <1>4, SupplyTop
  <2> QED  BY <1>2, <1>4, <2>1 DEF SupplyProduces, Supplies, Runs, LatePlaces
<1> QED  BY <1>3, <1>4

LEMMA SupplyingKeeps == ASSUME ProvInv, Supplying PROVE ProvInv'
<1>1. stack # <<>> /\ Top.do = "supply" /\ Thinks
  BY DEF Supplying, SupplyLooks, SupplyFound, SupplyProduces, SupplyVerifies, Supplies, Runs
<1>2. SupplyVerifies => Steady
  BY <1>1, AnswerSteady DEF SupplyVerifies
<1>3. Steady
  BY <1>1, <1>2, SupplyLooksSteady, SupplyFoundSteady, SupplyProducesSteady DEF Supplying
<1> QED  BY <1>1, <1>3, SteadyKeeps

LEMMA RestockNextKeeps == ASSUME ProvInv, RestockNext PROVE ProvInv'
<1>1. stack # <<>> /\ Top.do = "restock" /\ Top \in RestockFrames /\ Own(Top) /\ Thinks
  BY TopByName DEF RestockNext, Runs
<1>2. \A f \in RestockFrames : f \in CompositeFrames /\ f.do = Top.do /\ Own(f)
  BY <1>1 DEF RestockFrames, CompositeFrames, Own
<1>3. ASSUME NEW f \in RestockFrames, Goes(f) PROVE Steady
  BY <1>1, <1>2, <1>3, CompositeSteady
<1>4. ASSUME NEW f \in RestockFrames, NEW g \in LeafFrames, g.at = "call", Call(f, g) PROVE Steady
  BY <1>1, <1>2, <1>4, CompositeSteady
<1>5. (\E code : Answer(code)) => Steady
  BY <1>1, AnswerSteady
<1>6. [Top EXCEPT !.at = "next", !.todo = {i \in Items : Req(i) > 0}] \in RestockFrames
  <2>1. {i \in Items : Req(i) > 0} \in SUBSET Items
    OBVIOUS
  <2> QED  BY <1>1, <2>1 DEF RestockFrames
<1>7. [Top EXCEPT !.at = "next", !.failed = @ \/ result # "OK"] \in RestockFrames
  <2>1. PICK b \in BOOLEAN : b = (Top.failed \/ result # "OK")
    OBVIOUS
  <2>2. [Top EXCEPT !.at = "next", !.failed = b] \in RestockFrames
    BY <1>1 DEF RestockFrames
  <2> QED  BY <2>1, <2>2
<1>8. ASSUME NEW i \in Top.todo,
             Call(Whatever([Top EXCEPT !.todo = @ \ {i}], "note"),
                  Retrieve(i, Req(i), IF scene.storage = "none" THEN "any" ELSE scene.storage, "none"))
      PROVE  Steady
  <2>1. Whatever([Top EXCEPT !.todo = @ \ {i}], "note") \in RestockFrames /\ i \in Items
    BY <1>1 DEF Whatever, RestockFrames
  <2>2. PICK only \in Chests \cup {"any"} : only = IF scene.storage = "none" THEN "any" ELSE scene.storage
    BY ReqIs
  <2>3. Req(i) \in Int
    BY <2>1, ReqIs
  <2>4. Retrieve(i, Req(i), only, "none") \in LeafFrames /\ Retrieve(i, Req(i), only, "none").at = "call"
    BY <2>1, <2>3, LeafCalls
  <2> QED  BY <1>4, <1>8, <2>1, <2>2, <2>4
<1>9. Steady
  BY <1>3, <1>5, <1>6, <1>7, <1>8 DEF RestockNext
<1> QED  BY <1>1, <1>9, SteadyKeeps

LEMMA GoesTop ==
  ASSUME ProvInv, stack # <<>>, NEW f \in Frames, Goes(f)
  PROVE  stack' # <<>> /\ Top' = f
<1>1. stack \in Seq(Frames) /\ Len(stack) \in Nat /\ Len(stack) >= 1
  BY TopIs DEF ProvInv, Stacked
<1>2. stack' \in Seq(Frames) /\ Len(stack') = Len(stack) /\ stack'[Len(stack)] = f
  BY <1>1, GoesIs
<1>3. Top' = stack'[Len(stack')]
  BY DEF Top
<1> QED  BY <1>1, <1>2, <1>3

(* A composite skill is alone on the stack, so that its answer empties it. *)
LEMMA AnswerTop ==
  ASSUME ProvInv, stack # <<>>, Top.do \in Composite, NEW code, Answer(code)
  PROVE  stack' = <<>>
<1>1. stack \in Seq(Frames) /\ Len(stack) = 1
  BY TopIs DEF ProvInv, Stacked
<1>2. Front(stack) \in Seq(Frames) /\ Len(Front(stack)) = 0
  BY <1>1, FrontIs
<1> QED  BY <1>2 DEF Answer

LEMMA CallTop ==
  ASSUME ProvInv, stack # <<>>, NEW f \in Frames, NEW g \in Frames, Call(f, g)
  PROVE  stack' # <<>> /\ Top' = g
<1>1. stack \in Seq(Frames) /\ Len(stack) \in Nat /\ Len(stack) >= 1
  BY TopIs DEF ProvInv, Stacked
<1>2. stack' \in Seq(Frames) /\ Len(stack') = Len(stack) + 1 /\ stack'[Len(stack) + 1] = g
  BY <1>1, CallIs
<1>3. Top' = stack'[Len(stack')]
  BY DEF Top
<1> QED  BY <1>1, <1>2, <1>3

LEMMA RunsNext ==
  ASSUME NEW do, NEW at
  PROVE  Runs(do, at)' <=> stack' # <<>> /\ Top'.do = do /\ Top'.at = at
  BY DEF Runs

-----------------------------------------------------------------------------
(***************************************************************************)
(* The harvest.                                                            *)
(***************************************************************************)
LEMMA HarvestTop ==
  ASSUME ProvInv, stack # <<>>, Top.do = "harvest"
  PROVE  /\ Top \in HarvestFrames /\ Own(Top) /\ Top.do \in Composite
         /\ SeedOf \in Items /\ Reaped(Top.item) \in Items /\ Top.item \in Items
         /\ Top.todo \subseteq DOMAIN field /\ Top.todo \in SUBSET Nat
         /\ Top.at \in {"collect", "plant"} => Top.cell \in DOMAIN field
<1>1. Top \in HarvestFrames /\ Own(Top) /\ Top.do \in Composite
  BY TopByName
<1>2. SeedOf \in Items /\ Reaped(Top.item) \in Items /\ Top.item \in Items
  BY <1>1 DEF HarvestFrames, Crops, SeedOf, Reaped
<1>3. Top.todo \subseteq DOMAIN field /\ (Top.at \in {"collect", "plant"} => Top.cell \in DOMAIN field)
  BY <1>1, BareIs DEF Own
<1> QED  BY <1>1, <1>2, <1>3 DEF HarvestFrames

(* A harvest that goes on keeps to its field.                              *)
LEMMA HarvestOwn ==
  ASSUME ProvInv, stack # <<>>, Top.do = "harvest", NEW f \in HarvestFrames, f.todo \subseteq DOMAIN field,
         f.at \in {"collect", "plant"} => f.cell \in DOMAIN field
  PROVE  Own(f) /\ f \in Frames /\ f.do = Top.do
<1>1. f.do = "harvest" /\ f \in Frames
  BY FramesAre DEF HarvestFrames
<1>2. Own(Top) /\ DOMAIN field = DOMAIN scene.field
  BY HarvestTop, BareIs
<1> QED  BY <1>1, <1>2 DEF Own

LEMMA StepKeeps ==
  ASSUME ProvInv, Onward, SameScene, Stocked', Tended'
  PROVE  ProvInv'
<1>1. Stacked' /\ Ledger'
  BY OnwardStacks, OnwardLedger
<1> QED  BY <1>1 DEF ProvInv, SameScene

(* A harvest that thinks, but for the choice of its next cell.             *)
LEMMA HarvestThinks ==
  ASSUME ProvInv, stack # <<>>, Top.do = "harvest", Thinks, Top.at \notin {"collect", "plant"},
         \/ \E f \in HarvestFrames :
              f.todo \subseteq DOMAIN field /\ f.at \notin {"collect", "plant"}
              /\ (Goes(f) \/ \E g \in LeafFrames : g.at = "call" /\ Call(f, g))
         \/ \E code : Answer(code)
  PROVE  ProvInv'
<1>1. Idle
  BY DEF Thinks, Idle
<1>0. Pending(Top) \in Nat
  BY PendingIs
<1>2. ASSUME NEW f \in HarvestFrames, f.todo \subseteq DOMAIN field, f.at \notin {"collect", "plant"}
      PROVE  Own(f) /\ f \in Frames /\ f.do = Top.do /\ Pending(f) = 0
  <2>1. Own(f) /\ f \in Frames /\ f.do = Top.do
    BY <1>2, HarvestOwn
  <2> QED  BY <1>2, <2>1 DEF Pending, Acting
<1>3. Onward /\ ~Runs("harvest", "plant")' /\ ~Runs("harvest", "collect")'
  <2>1. ASSUME NEW f \in HarvestFrames, f.todo \subseteq DOMAIN field, f.at \notin {"collect", "plant"}, Goes(f)
        PROVE  Onward /\ ~Runs("harvest", "plant")' /\ ~Runs("harvest", "collect")'
    <3>1. Own(f) /\ f \in Frames /\ f.do = Top.do /\ Pending(f) = 0
      BY <1>2, <2>1
    <3>2. Top' = f
      BY <2>1, <3>1, GoesTop
    <3> QED  BY <1>0, <1>1, <2>1, <3>1, <3>2, GoesOnward, RunsNext
  <2>2. ASSUME NEW f \in HarvestFrames, f.todo \subseteq DOMAIN field, f.at \notin {"collect", "plant"},
               NEW g \in LeafFrames, g.at = "call", Call(f, g)
        PROVE  Onward /\ ~Runs("harvest", "plant")' /\ ~Runs("harvest", "collect")'
    <3>1. Own(f) /\ f \in Frames /\ f.do = Top.do /\ Pending(f) = 0
      BY <1>2, <2>2
    <3>2. Top' = g
      BY <2>2, <3>1, CallTop, LeavesAre
    <3> QED  BY <1>1, <2>2, <3>1, <3>2, CallsOnward, RunsNext
  <2>3. ASSUME NEW code, Answer(code)
        PROVE  Onward /\ ~Runs("harvest", "plant")' /\ ~Runs("harvest", "collect")'
    <3>1. stack' = <<>>
      BY <2>3, AnswerTop, HarvestTop
    <3> QED  BY <1>1, <2>3, <3>1, AnswersOnward, RunsNext
  <2> QED  BY <2>1, <2>2, <2>3
<1>4. Steady
  BY <1>3, ThinksSteady
<1>5. ~Runs("harvest", "plant")
  BY DEF Runs
<1>6. Tended'
  BY <1>3, <1>4, <1>5, Tends DEF Steady
<1> QED  BY <1>4, <1>6, StepKeeps DEF Steady

LEMMA AnsweredKeeps == ASSUME ProvInv, Answered PROVE ProvInv'
<1> DEFINE f == [Top EXCEPT !.at = Top.then]
<1>1. stack # <<>> /\ Top.do \in Composite /\ Top.at \in {"answered", "asked"} /\ Thinks
  BY DEF Answered
<1>2. Goes(f) \/ \E code : Answer(code)
  BY DEF Answered, GoesTo
<1>3. CASE Top.do = "harvest"
  <2>1. Top \in HarvestFrames /\ Top.todo \subseteq DOMAIN field
    BY <1>1, <1>3, HarvestTop
  <2>2. f \in HarvestFrames /\ f.todo = Top.todo /\ f.at \in {"none", "done"}
    BY <2>1 DEF HarvestFrames
  <2> HIDE DEF f
  <2> QED  BY <1>1, <1>2, <1>3, <2>1, <2>2, HarvestThinks
<1>4. CASE Top.do # "harvest"
  <2>1. f \in CompositeFrames /\ f.do = Top.do /\ Own(f)
    <3>1. CASE Top.do = "prepare"
      <4>1. Top \in PrepareFrames /\ Own(Top)
        BY <1>1, <3>1, TopByName
      <4>2. f \in PrepareFrames /\ f.at = Top.then /\ f.then = Top.then /\ f.todo = Top.todo /\ f.do = "prepare"
        BY <4>1 DEF PrepareFrames
      <4> HIDE DEF f
      <4> QED  BY <3>1, <4>1, <4>2 DEF CompositeFrames, Own
    <3>2. CASE Top.do = "supply"
      <4>1. Top \in SupplyFrames /\ Own(Top)
        BY <1>1, <3>2, TopByName
      <4>2. f \in SupplyFrames /\ f.do = "supply"
        BY <4>1 DEF SupplyFrames, EarlyPlaces, LatePlaces
      <4> HIDE DEF f
      <4> QED  BY <3>2, <4>1, <4>2 DEF CompositeFrames, Own
    <3>3. CASE Top.do = "restock"
      <4>1. Top \in RestockFrames /\ Own(Top)
        BY <1>1, <3>3, TopByName
      <4>2. f \in RestockFrames /\ f.do = "restock"
        BY <4>1 DEF RestockFrames
      <4> HIDE DEF f
      <4> QED  BY <3>3, <4>1, <4>2 DEF CompositeFrames, Own
    <3> QED  BY <1>1, <1>4, <3>1, <3>2, <3>3 DEF Composite
  <2> HIDE DEF f
  <2>2. Steady
    BY <1>1, <1>2, <2>1, CompositeSteady, AnswerSteady
  <2> QED  BY <1>4, <2>2, SteadyKeeps
<1> QED  BY <1>3, <1>4

LEMMA HarvestBeginsKeeps == ASSUME ProvInv, HarvestBegins PROVE ProvInv'
<1> DEFINE mature == {c \in DOMAIN field : field[c] = "ripe"}
           f == [Top EXCEPT !.at = "next", !.todo = mature]
<1>1. stack # <<>> /\ Top.do = "harvest" /\ Top.at = "call" /\ Thinks /\ Top \in HarvestFrames
  BY HarvestTop DEF HarvestBegins, Runs
<1>2. mature \subseteq DOMAIN field /\ mature \in SUBSET Nat
  BY BareIs
<1>3. f \in HarvestFrames /\ f.at = "next" /\ f.todo = mature
  <2> HIDE DEF mature
  <2> QED  BY <1>1, <1>2 DEF HarvestFrames
<1>4. Goes(f) \/ \E code : Answer(code)
  BY DEF HarvestBegins
<1> HIDE DEF f, mature
<1> QED  BY <1>1, <1>2, <1>3, <1>4, HarvestThinks

LEMMA MinIs ==
  ASSUME NEW S \in SUBSET Nat, S # {}
  PROVE  (CHOOSE x \in S : \A y \in S : x <= y) \in S
<1>1. PICK x \in S : \A y \in S : ~(<<y, x>> \in OpToRel(<, Nat))
  BY NatLessThanWellFounded, WFMin
<1>2. \A y \in S : x <= y
  <2> SUFFICES ASSUME NEW y \in S PROVE x <= y
    OBVIOUS
  <2>1. x \in Nat /\ y \in Nat
    OBVIOUS
  <2>2. ~(y < x)
    BY <1>1, <2>1 DEF OpToRel
  <2> QED  BY <2>1, <2>2
<1> QED  BY <1>2

LEMMA HarvestNextKeeps == ASSUME ProvInv, HarvestNext PROVE ProvInv'
<1>1. /\ stack # <<>> /\ Top.do = "harvest" /\ Top.at = "next" /\ Thinks /\ Top \in HarvestFrames
      /\ Top.item \in Items /\ Reaped(Top.item) \in Items
      /\ Top.todo \subseteq DOMAIN field /\ Top.todo \in SUBSET Nat
  BY HarvestTop DEF HarvestNext, Runs
<1>2. CASE \E code : Answer(code)
  BY <1>1, <1>2, HarvestThinks
<1>3. CASE scene.storage # "none" /\
           Call(Then(Top, "done"), Deposit(scene.storage, Reaped(Top.item),
                                           IF SeedOf = Reaped(Top.item) THEN scene.reserve ELSE 0))
  <2>1. Then(Top, "done") \in HarvestFrames /\ Then(Top, "done").todo = Top.todo
        /\ Then(Top, "done").at = "answered"
    BY <1>1 DEF Then, HarvestFrames
  <2>2. PICK n \in Int : n = IF SeedOf = Reaped(Top.item) THEN scene.reserve ELSE 0
    BY ReqIs
  <2>3. scene.storage \in Chests
    BY <1>3, ReqIs
  <2>4. Deposit(scene.storage, Reaped(Top.item), n) \in LeafFrames
        /\ Deposit(scene.storage, Reaped(Top.item), n).at = "call"
    BY <1>1, <2>3, LeafCalls
  <2> QED  BY <1>1, <1>3, <2>1, <2>2, <2>4, HarvestThinks
<1>4. ASSUME NEW c \in Top.todo, ~aborted, inv[SeedOf] >= 1,
             Goes([Top EXCEPT !.at = "collect", !.cell = c, !.todo = @ \ {c}])
      PROVE  ProvInv'
  <2> DEFINE f == [Top EXCEPT !.at = "collect", !.cell = c, !.todo = @ \ {c}]
  <2>1. f \in HarvestFrames /\ f.at = "collect" /\ f.cell = c /\ f.todo \subseteq Top.todo /\ f.item = Top.item
        /\ Goes(f)
    BY <1>1, <1>4 DEF HarvestFrames
  <2> HIDE DEF f
  <2>2. Own(f) /\ f \in Frames /\ f.do = Top.do
    BY <1>1, <2>1, HarvestOwn
  <2>3. Top' = f
    BY <1>1, <2>1, <2>2, GoesTop
  <2>4. Idle
    BY <1>1 DEF Thinks, Idle
  <2>5. Onward
    BY <1>1, <1>4, <2>1, <2>2, <2>4, GoesOnward
  <2>6. Steady
    BY <1>1, <2>5, ThinksSteady
  <2>7. (inv[SeedOf])' = inv[SeedOf]
    BY <1>1, <2>1, <2>3 DEF SeedOf, Thinks, world
  <2>8. ~Runs("harvest", "plant")' /\ ~Runs("harvest", "plant")
    BY <1>1, <2>1, <2>3, RunsNext DEF Runs
  <2>9. Tended'
    BY <1>4, <2>6, <2>7, <2>8, Tends DEF Steady
  <2> QED  BY <2>6, <2>9, StepKeeps DEF Steady
<1>5. Top.todo # {} => (CHOOSE x \in Top.todo : \A y \in Top.todo : x <= y) \in Top.todo
  BY <1>1, MinIs
<1>6. SeedOf \in Items /\ inv[SeedOf] \in Int
  BY <1>1, HarvestTop, ReqIs
<1>7. CASE Top.todo # {} /\ ~aborted /\ ~(inv[SeedOf] < 1)
  <2>1. PICK c : c = CHOOSE x \in Top.todo : \A y \in Top.todo : x <= y
    OBVIOUS
  <2>2. Goes([Top EXCEPT !.at = "collect", !.cell = c, !.todo = @ \ {c}])
    BY <1>7, <2>1 DEF HarvestNext
  <2>3. c \in Top.todo /\ inv[SeedOf] >= 1
    BY <1>5, <1>6, <1>7, <2>1
  <2> QED  BY <1>4, <1>7, <2>2, <2>3
<1> QED  BY <1>2, <1>3, <1>7 DEF HarvestNext

\* One cell of the field becomes something else.
LEMMA BareChanges ==
  ASSUME ProvInv, NEW c \in DOMAIN field, NEW v \in {"bare", "sown", "spoilt"}, field' = [field EXCEPT ![c] = v]
  PROVE  /\ field' \in Seq({"ripe", "bare", "sown", "spoilt"}) /\ Len(field') = Len(field) /\ field'[c] = v
         /\ \A d \in DOMAIN field : d # c => field'[d] = field[d]
         /\ v = "bare" /\ field[c] # "bare" => Cardinality(Bare(field')) = Cardinality(Bare(field)) + 1
         /\ v = "bare" /\ field[c] = "bare" => Cardinality(Bare(field')) = Cardinality(Bare(field))
         /\ v # "bare" => Cardinality(Bare(field')) = Cardinality(Bare(field)) - (IF field[c] = "bare" THEN 1 ELSE 0)
<1>1. field \in Seq({"ripe", "bare", "sown", "spoilt"}) /\ DOMAIN field = 1 .. Len(field) /\ Len(field) \in Nat
  BY BareIs DEF ProvInv, Tended
<1>2. field' \in Seq({"ripe", "bare", "sown", "spoilt"}) /\ Len(field') = Len(field) /\ field'[c] = v
      /\ DOMAIN field' = DOMAIN field /\ \A d \in DOMAIN field : d # c => field'[d] = field[d]
  BY <1>1
<1>3. IsFiniteSet(Bare(field)) /\ Cardinality(Bare(field)) \in Nat
  BY BareIs
<1>4. v = "bare" /\ field[c] # "bare" => Cardinality(Bare(field')) = Cardinality(Bare(field)) + 1
  <2> SUFFICES ASSUME v = "bare", field[c] # "bare"
               PROVE  Cardinality(Bare(field')) = Cardinality(Bare(field)) + 1
    OBVIOUS
  <2>1. Bare(field') = Bare(field) \cup {c} /\ c \notin Bare(field)
    BY <1>2 DEF Bare
  <2> QED  BY <1>3, <2>1, FS_AddElement
<1>5. v = "bare" /\ field[c] = "bare" => Bare(field') = Bare(field)
  BY <1>2 DEF Bare
<1>6. v # "bare" => Cardinality(Bare(field')) = Cardinality(Bare(field)) - (IF field[c] = "bare" THEN 1 ELSE 0)
  <2> SUFFICES ASSUME v # "bare"
               PROVE  Cardinality(Bare(field')) = Cardinality(Bare(field)) - (IF field[c] = "bare" THEN 1 ELSE 0)
    OBVIOUS
  <2>1. Bare(field') = Bare(field) \ {c}
    BY <1>2 DEF Bare
  <2>2. CASE field[c] = "bare"
    <3>1. c \in Bare(field)
      BY <2>2 DEF Bare
    <3> QED  BY <1>3, <2>1, <2>2, <3>1, FS_RemoveElement
  <2>3. CASE field[c] # "bare"
    <3>1. Bare(field) \ {c} = Bare(field)
      BY <2>3 DEF Bare
    <3>2. Cardinality(Bare(field')) = Cardinality(Bare(field))
      BY <2>1, <3>1
    <3>3. PICK n \in Nat : n = Cardinality(Bare(field))
      BY <1>3
    <3> QED  BY <2>3, <3>2, <3>3
  <2> QED  BY <2>2, <2>3
<1> QED  BY <1>2, <1>4, <1>5, <1>6

LEMMA HarvestReapsKeeps == ASSUME ProvInv, HarvestReaps PROVE ProvInv'
<1> DEFINE f == [Top EXCEPT !.at = "plant"]
<1>1. /\ stack # <<>> /\ Top.do = "harvest" /\ Top.at = "collect" /\ Top \in HarvestFrames
      /\ SeedOf \in Items /\ Reaped(Top.item) \in Items
      /\ Top.todo \subseteq DOMAIN field /\ Top.cell \in DOMAIN field /\ field[Top.cell] = "ripe"
  BY HarvestTop DEF HarvestReaps, Runs
<1>2. inv \in [Items -> Int] /\ inv[SeedOf] >= 1
  BY <1>1 DEF ProvInv, Stocked, Tended, Runs
<1>3. PICK n \in 0 .. 1 : inv' = [i \in Items |-> inv[i] + (IF i = Reaped(Top.item) THEN 1 ELSE 0)
                                                     + IF i = SeedOf THEN n ELSE 0]
  BY DEF HarvestReaps
<1>4. inv' \in [Items -> Int] /\ inv'[SeedOf] >= 1
  BY <1>1, <1>2, <1>3
<1>5. Goes(f) /\ Acts /\ field' = [field EXCEPT ![Top.cell] = "bare"]
      /\ UNCHANGED <<chest, index, furnace, Surroundings, faults>>
  <2>1. ~(inv'[SeedOf] < 1)
    BY <1>1, <1>4
  <2> QED  BY <2>1 DEF HarvestReaps, GoesTo
<1>6. f \in HarvestFrames /\ f.at = "plant" /\ f.cell = Top.cell /\ f.todo = Top.todo /\ f.item = Top.item
  BY <1>1 DEF HarvestFrames
<1> HIDE DEF f
<1>7. Own(f) /\ f \in Frames /\ f.do = Top.do
  BY <1>1, <1>6, HarvestOwn
<1>8. Pending(f) = 1 /\ Pending(Top) = 2
  BY <1>1, <1>6, <1>7 DEF Pending, Acting
<1>9. Onward
  BY <1>1, <1>5, <1>7, <1>8, GoesOnward
<1>10. stack' # <<>> /\ Top' = f
  BY <1>1, <1>5, <1>7, GoesTop
<1>11. SameScene /\ Stocked'
  BY <1>4, <1>5 DEF SameScene, Surroundings, Stocked, ProvInv
<1>12. Tended'
  <2>1. Runs("harvest", "plant")' /\ ~Runs("harvest", "collect")' /\ ~Runs("harvest", "plant")
    BY <1>1, <1>6, <1>7, <1>10, RunsNext DEF Runs
  <2>2. field' \in Seq({"ripe", "bare", "sown", "spoilt"}) /\ Len(field') = Len(field) /\ field'[Top.cell] = "bare"
        /\ Cardinality(Bare(field')) = Cardinality(Bare(field)) + 1
    BY <1>1, <1>5, BareChanges
  <2>3. Cardinality(Bare(field)) <= scene.faults - faults + 0 /\ Len(field) = Len(scene.field) /\ faults \in Nat
    BY <2>1 DEF ProvInv, Tended
  <2>4. Cardinality(Bare(field)) \in Nat /\ scene.faults \in Nat
    BY BareIs
  <2>5. field'[Top'.cell] = "bare"
    BY <1>6, <1>10, <2>2
  <2>6. (Cardinality(Bare(field)))' = Cardinality(Bare(field'))
    BY DEF Bare
  <2>7. Cardinality(Bare(field')) <= scene.faults - faults + 1
    BY <2>2, <2>3, <2>4
  <2>8. faults' = faults /\ scene' = scene
    BY <1>5, <1>11 DEF SameScene
  <2> QED  BY <2>1, <2>2, <2>3, <2>5, <2>6, <2>7, <2>8 DEF Tended
<1> QED  BY <1>9, <1>11, <1>12, StepKeeps

\* A harvest that ends before it has planted, at a soil that is as it was or by a fault.
LEMMA HarvestFindsNoSoilKeeps == ASSUME ProvInv, HarvestFindsNoSoil PROVE ProvInv'
<1>1. stack # <<>> /\ Top.do = "harvest" /\ field[Top.cell] = "spoilt" /\ (\E code : Answer(code)) /\ Idle
      /\ UNCHANGED <<world, Surroundings, faults>>
  BY DEF HarvestFindsNoSoil, Runs, Idle
<1>2. Onward /\ stack' = <<>>
  BY <1>1, AnswersOnward, AnswerTop, HarvestTop
<1>3. SameScene /\ Stocked' /\ OffField
  BY <1>1, FaultIs DEF SameScene, Surroundings, Stocked, world, OffField, ProvInv
<1>4. ~Runs("harvest", "plant")' /\ ~Runs("harvest", "collect")'
  BY <1>2, RunsNext
<1>5. Tended'
  BY <1>1, <1>3, <1>4, Tends
<1> QED  BY <1>2, <1>3, <1>5, StepKeeps

LEMMA HarvestFailsKeeps == ASSUME ProvInv, HarvestFails PROVE ProvInv'
<1>1. /\ stack # <<>> /\ Top.do = "harvest" /\ Top.at \in {"collect", "plant"} /\ (\E code : Answer(code)) /\ Fault
      /\ Top.cell \in DOMAIN field /\ (Idle \/ Acts) /\ UNCHANGED <<inv, chest, index, furnace, Surroundings>>
      /\ \/ field' = field /\ Idle
         \/ Top.at = "collect" /\ field[Top.cell] = "ripe" /\ field' = [field EXCEPT ![Top.cell] = "bare"]
  BY HarvestTop DEF HarvestFails, Runs
<1>2. Pending(Top) >= 1
  BY <1>1 DEF Pending, Acting
<1>3. Onward /\ stack' = <<>>
  BY <1>1, <1>2, AnswersOnward, AnswerTop, HarvestTop
<1>4. SameScene /\ Stocked'
  BY <1>1 DEF SameScene, Surroundings, Stocked, ProvInv
<1>5. ~Runs("harvest", "plant")' /\ ~Runs("harvest", "collect")'
  BY <1>3, RunsNext
<1>6. Tended'
  <2>1. faults' \in Nat /\ faults' = faults - 1 /\ faults \in Nat
    BY <1>1, FaultIs DEF Fault
  <2>2. Cardinality(Bare(field)) \in Nat /\ scene.faults \in Nat /\ (Cardinality(Bare(field)))' = Cardinality(Bare(field'))
    BY BareIs DEF Bare
  <2>3. /\ field \in Seq({"ripe", "bare", "sown", "spoilt"}) /\ Len(field) = Len(scene.field)
        /\ Cardinality(Bare(field)) <= scene.faults - faults + 1
        /\ Top.at = "collect" => Cardinality(Bare(field)) <= scene.faults - faults
    BY <2>1, <2>2 DEF ProvInv, Tended, Runs
  <2>4. /\ field' \in Seq({"ripe", "bare", "sown", "spoilt"}) /\ Len(field') = Len(scene.field)
        /\ Cardinality(Bare(field')) <= scene.faults - faults + 1
    <3>1. CASE field' = field
      BY <3>1, <2>3
    <3>2. CASE Top.at = "collect" /\ field[Top.cell] = "ripe" /\ field' = [field EXCEPT ![Top.cell] = "bare"]
      <4>1. field' \in Seq({"ripe", "bare", "sown", "spoilt"}) /\ Len(field') = Len(field)
            /\ Cardinality(Bare(field')) = Cardinality(Bare(field)) + 1
        BY <1>1, <3>2, BareChanges
      <4> QED  BY <2>1, <2>2, <2>3, <3>2, <4>1
    <3> QED  BY <1>1, <3>1, <3>2
  <2>5. Cardinality(Bare(field')) <= scene.faults - faults'
    BY <2>1, <2>2, <2>4
  <2> QED  BY <1>4, <1>5, <2>1, <2>2, <2>4, <2>5 DEF Tended, SameScene
<1> QED  BY <1>3, <1>4, <1>6, StepKeeps

LEMMA HarvestPlantsKeeps == ASSUME ProvInv, HarvestPlants PROVE ProvInv'
<1> DEFINE f == [Top EXCEPT !.at = "next"]
<1>1. /\ stack # <<>> /\ Top.do = "harvest" /\ Top.at = "plant" /\ Top \in HarvestFrames /\ SeedOf \in Items
      /\ Top.todo \subseteq DOMAIN field /\ Top.cell \in DOMAIN field /\ field[Top.cell] = "bare"
  BY HarvestTop DEF HarvestPlants, Runs
<1>2. /\ Goes(f) /\ Acts /\ inv' = [inv EXCEPT ![SeedOf] = @ - 1] /\ field' = [field EXCEPT ![Top.cell] = "sown"]
      /\ UNCHANGED <<chest, index, furnace, Surroundings, faults>>
  BY DEF HarvestPlants, GoesTo
<1>3. f \in HarvestFrames /\ f.at = "next" /\ f.todo = Top.todo
  BY <1>1 DEF HarvestFrames
<1> HIDE DEF f
<1>4. Own(f) /\ f \in Frames /\ f.do = Top.do
  BY <1>1, <1>3, HarvestOwn
<1>5. Pending(f) = 0 /\ Pending(Top) = 1
  BY <1>1, <1>3, <1>4 DEF Pending, Acting
<1>6. Onward
  BY <1>1, <1>2, <1>4, <1>5, GoesOnward
<1>7. stack' # <<>> /\ Top' = f
  BY <1>1, <1>2, <1>4, GoesTop
<1>8. inv \in [Items -> Int]
  BY DEF ProvInv, Stocked
<1>9. SameScene /\ Stocked'
  BY <1>1, <1>2, <1>8, Edits DEF SameScene, Surroundings, Stocked, ProvInv
<1>10. Tended'
  <2>1. ~Runs("harvest", "plant")' /\ ~Runs("harvest", "collect")' /\ Runs("harvest", "plant")
    BY <1>1, <1>3, <1>7, RunsNext DEF Runs
  <2>2. field' \in Seq({"ripe", "bare", "sown", "spoilt"}) /\ Len(field') = Len(field)
        /\ Cardinality(Bare(field')) = Cardinality(Bare(field)) - 1
    BY <1>1, <1>2, BareChanges
  <2>3. Cardinality(Bare(field)) <= scene.faults - faults + 1 /\ Len(field) = Len(scene.field) /\ faults \in Nat
    BY <1>1, <2>1 DEF ProvInv, Tended
  <2>4. Cardinality(Bare(field)) \in Nat /\ scene.faults \in Nat /\ (Cardinality(Bare(field)))' = Cardinality(Bare(field'))
    BY BareIs DEF Bare
  <2>5. Cardinality(Bare(field')) <= scene.faults - faults
    BY <2>2, <2>3, <2>4
  <2> QED  BY <1>2, <1>9, <2>1, <2>2, <2>3, <2>4, <2>5 DEF Tended, SameScene
<1> QED  BY <1>6, <1>9, <1>10, StepKeeps

LEMMA HarvestingKeeps == ASSUME ProvInv, Harvesting PROVE ProvInv'
<1>1. HarvestEnds => ProvInv'
  BY HarvestThinks DEF HarvestEnds, Runs
<1> QED  BY <1>1, HarvestBeginsKeeps, HarvestNextKeeps, HarvestReapsKeeps, HarvestFindsNoSoilKeeps,
            HarvestFailsKeeps, HarvestPlantsKeeps DEF Harvesting

-----------------------------------------------------------------------------
(***************************************************************************)
(* Everybody else, and the next handler.                                   *)
(***************************************************************************)
LEMMA StackStays ==
  ASSUME ProvInv, stack' = stack, scene' = scene
  PROVE  Stacked'
<1>1. stack # <<>> => Own(stack[1])' 
  BY DEF ProvInv, Stacked, Own
<1> QED  BY <1>1 DEF ProvInv, Stacked

LEMMA AbortKeeps == ASSUME ProvInv, Abort, Awaiting PROVE ProvInv'
<1>1. UNCHANGED <<scene, stack, world, faults, late>> /\ late = 0 /\ aborted' = TRUE
  BY DEF Abort, ProvInv, Ledger
<1>2. stack # <<>> => Pending(Top) <= Bound /\ Bound \in Nat
  <2> SUFFICES ASSUME stack # <<>> PROVE Pending(Top) <= Bound /\ Bound \in Nat
    OBVIOUS
  <2>1. Pending(Top) \in 0 .. 2 /\ (Top.do # "harvest" => Pending(Top) \in 0 .. 1)
    BY PendingIs
  <2>2. Top.do = "harvest" => scene.skill = "harvestFarm"
    <3>1. Top.do = "harvest" => Own(Top)
      BY HarvestTop
    <3>2. scene.skill \in {"prepareBlueprintMaterials", "supplyContainer", "restockInventory", "harvestFarm"}
      BY ProvisionsAssumption DEF ProvInv, Scenario
    <3> QED  BY <3>1, <3>2 DEF Own
  <2> QED  BY <2>1, <2>2 DEF Bound
<1>3. Ledger'
  <2>1. (stack # <<>> => late + Pending(Top) <= Bound)' 
    BY <1>1, <1>2, PendingIs DEF Pending, Top, Bound
  <2> QED  BY <1>1, <2>1 DEF Ledger, ProvInv, Bound
<1>4. Tended' /\ Stocked'
  BY <1>1 DEF ProvInv, Tended, Stocked, world, Runs, Top, SeedOf, Bare
<1> QED  BY <1>1, <1>3, <1>4, StackStays DEF ProvInv

LEMMA OthersKeep ==
  ASSUME ProvInv, UNCHANGED <<scene, stack, inv, furnace, index, aborted, late>>,
         chest' \in [Chests -> [Items -> Int]], field' = field, faults' \in Nat, faults' <= faults
  PROVE  ProvInv'
<1>1. Stacked' /\ Stocked'
  BY StackStays DEF ProvInv, Stocked
<1>2. Ledger'
  BY DEF ProvInv, Ledger, Pending, Top, Bound
<1>3. Tended'
  <2>1. Cardinality(Bare(field)) \in Nat /\ scene.faults \in Nat
    BY BareIs
  <2>2. PICK k \in 0 .. 1 : k = IF Runs("harvest", "plant") /\ field[Top.cell] = "bare" THEN 1 ELSE 0
    OBVIOUS
  <2>3. Cardinality(Bare(field)) <= scene.faults - faults' + k
    BY <2>1, <2>2 DEF ProvInv, Tended
  <2>4. (IF Runs("harvest", "plant") /\ field[Top.cell] = "bare" THEN 1 ELSE 0)' = k
    BY <2>2 DEF Runs, Top
  <2>5. (Cardinality(Bare(field)))' = Cardinality(Bare(field))
    BY DEF Bare
  <2>6. (Runs("harvest", "collect") => inv[SeedOf] >= 1)'
    BY DEF ProvInv, Tended, Runs, Top, SeedOf
  <2> QED  BY <2>3, <2>4, <2>5, <2>6 DEF ProvInv, Tended
<1> QED  BY <1>1, <1>2, <1>3 DEF ProvInv

LEMMA HoldJobKeeps == ASSUME ProvInv, HoldJob PROVE ProvInv'
<1>1. UNCHANGED <<scene, stack, world, aborted, faults, late>> /\ faults \in Nat
      /\ chest \in [Chests -> [Items -> Int]]
  BY DEF HoldJob, ProvInv, Tended, Stocked
<1> QED  BY <1>1, OthersKeep DEF world

LEMMA PlayerKeeps == ASSUME ProvInv, Player PROVE ProvInv'
<1>1. UNCHANGED <<scene, stack, inv, furnace, index, field, aborted, late>>
  BY DEF Player
<1>2. faults' \in Nat /\ faults' <= faults
  BY FaultIs DEF Player
<1>3. chest \in [Chests -> [Items -> Int]]
  BY DEF ProvInv, Stocked
<1>4. PICK n \in Int : n = 1
  OBVIOUS
<1>5. \E c \in Chests, i \in Items : chest' = [chest EXCEPT ![c][i] = @ - n] \/ chest' = [chest EXCEPT ![c][i] = @ + n]
  BY <1>4 DEF Player
<1>6. chest' \in [Chests -> [Items -> Int]]
  <2>1. PICK c \in Chests, i \in Items :
          chest' = [chest EXCEPT ![c][i] = @ - n] \/ chest' = [chest EXCEPT ![c][i] = @ + n]
    BY <1>5
  <2>2. PICK g \in [Chests -> [Items -> Int]] : g = chest
    BY <1>3
  <2>3. /\ [g EXCEPT ![c][i] = @ - n] \in [Chests -> [Items -> Int]]
        /\ [g EXCEPT ![c][i] = @ + n] \in [Chests -> [Items -> Int]]
    BY ChestEdits
  <2> QED  BY <2>1, <2>2, <2>3
<1> QED  BY <1>1, <1>2, <1>6, OthersKeep

LEMMA TrampleKeeps == ASSUME ProvInv, Trample PROVE ProvInv'
<1>1. UNCHANGED <<scene, stack, inv, furnace, index, chest, aborted, late>>
  BY DEF Trample
<1>2. faults' \in Nat /\ faults' = faults - 1 /\ faults \in Nat
  BY FaultIs DEF Trample, Fault
<1>3. PICK c \in DOMAIN field : field[c] # "spoilt" /\ field' = [field EXCEPT ![c] = "spoilt"]
  BY DEF Trample
<1>4. Stacked' /\ Stocked'
  BY <1>1, StackStays DEF ProvInv, Stocked
<1>5. Ledger'
  BY <1>1 DEF ProvInv, Ledger, Pending, Top, Bound
<1>6. Tended'
  <2> DEFINE Here == Runs("harvest", "plant") /\ field[Top.cell] = "bare"
  <2>1. /\ field' \in Seq({"ripe", "bare", "sown", "spoilt"}) /\ Len(field') = Len(field) /\ field'[c] = "spoilt"
        /\ \A d \in DOMAIN field : d # c => field'[d] = field[d]
        /\ Cardinality(Bare(field')) = Cardinality(Bare(field)) - (IF field[c] = "bare" THEN 1 ELSE 0)
    BY <1>3, BareChanges
  <2>2. Cardinality(Bare(field)) \in Nat /\ scene.faults \in Nat /\ (Cardinality(Bare(field)))' = Cardinality(Bare(field'))
    BY BareIs DEF Bare
  <2>3. Cardinality(Bare(field)) <= scene.faults - faults + (IF Here THEN 1 ELSE 0)
    BY DEF ProvInv, Tended
  <2>4. Runs("harvest", "plant") => Top.cell \in DOMAIN field
    BY HarvestTop DEF Runs
  <2>5. Here' <=> (Runs("harvest", "plant") /\ field'[Top.cell] = "bare")
    BY <1>1 DEF Runs, Top
  <2>6. Here /\ ~Here' => field[c] = "bare"
    BY <2>1, <2>4, <2>5
  <2>7. Cardinality(Bare(field')) <= scene.faults - faults' + (IF Here' THEN 1 ELSE 0)
    BY <1>2, <2>1, <2>2, <2>3, <2>6
  <2>8. (Runs("harvest", "collect") => inv[SeedOf] >= 1)'
    BY <1>1 DEF ProvInv, Tended, Runs, Top, SeedOf
  <2> QED  BY <1>1, <1>2, <2>1, <2>2, <2>7, <2>8 DEF ProvInv, Tended
<1> QED  BY <1>1, <1>4, <1>5, <1>6 DEF ProvInv

LEMMA OutsideKeeps == ASSUME ProvInv, Outside PROVE ProvInv'
  BY AbortKeeps, HoldJobKeeps, PlayerKeeps, TrampleKeeps DEF Outside

(* A handler begins with its composite skill alone.                        *)
LEMMA HandlerIs ==
  ASSUME scene \in Scenarios
  PROVE  /\ Handler(scene) \in Frames /\ Handler(scene).do \in Composite /\ Own(Handler(scene))
         /\ Handler(scene).at = "call"
<1>1. scene \in Scenario
  BY ProvisionsAssumption
<1>2. /\ scene.skill \in {"prepareBlueprintMaterials", "supplyContainer", "restockInventory", "harvestFarm"}
      /\ scene.item \in Items \cup {"none"} /\ scene.storage \in Chests \cup {"none"}
      /\ scene.req \in [Items -> Nat]
  BY <1>1 DEF Scenario, Amounts
<1>3. CASE scene.skill = "prepareBlueprintMaterials"
  <2>1. Handler(scene) = Prepare
    BY <1>3 DEF Handler
  <2>2. Prepare \in PrepareFrames /\ Prepare.do = "prepare" /\ Prepare.at = "call" /\ Prepare.then = "none"
        /\ Prepare.todo = {}
    BY DEF Prepare, PrepareFrames, PreparePlaces
  <2> QED  BY <1>3, <2>1, <2>2, FramesAre DEF Own, Composite
<1>4. CASE scene.skill = "supplyContainer"
  <2>1. scene.item \in Items /\ scene.storage \in Chests /\ scene.req[scene.item] \in Int
    BY <1>2, <1>4, ProvisionsAssumption
  <2>2. Handler(scene) = Supply(scene.storage, scene.item, scene.req[scene.item])
    BY <1>4 DEF Handler
  <2>3. Handler(scene) \in SupplyFrames /\ Handler(scene).do = "supply" /\ Handler(scene).at = "call"
    BY <2>1, <2>2 DEF Supply, SupplyFrames, EarlyPlaces
  <2> QED  BY <1>4, <2>3, FramesAre DEF Own, Composite
<1>5. CASE scene.skill = "restockInventory"
  <2>1. Handler(scene) = Restock
    BY <1>5 DEF Handler
  <2>2. Restock \in RestockFrames /\ Restock.do = "restock" /\ Restock.at = "call"
    BY DEF Restock, RestockFrames
  <2> QED  BY <1>5, <2>1, <2>2, FramesAre DEF Own, Composite
<1>6. CASE scene.skill = "harvestFarm"
  <2>1. scene.item \in Items /\ (scene.item = "wheat" => "wheat_seeds" \in Items)
    BY <1>6, ProvisionsAssumption
  <2>2. scene.item \in Crops
    BY <2>1 DEF Crops, Seed
  <2>3. Handler(scene) = Harvest(scene.item)
    BY <1>6 DEF Handler
  <2>4. Handler(scene) \in HarvestFrames /\ Handler(scene).do = "harvest" /\ Handler(scene).at = "call"
        /\ Handler(scene).todo = {}
    BY <2>2, <2>3 DEF Harvest, HarvestFrames
  <2> QED  BY <1>6, <2>4, FramesAre DEF Own, Composite
<1> QED  BY <1>2, <1>3, <1>4, <1>5, <1>6

LEMMA FirstFrame ==
  ASSUME scene \in Scenarios
  PROVE  /\ <<Handler(scene)>> \in Seq(Frames) /\ <<Handler(scene)>> # <<>> /\ Len(<<Handler(scene)>>) = 1
         /\ \A i \in 1 .. 1 : <<Handler(scene)>>[i] = Handler(scene)
         /\ Pending(Handler(scene)) = 0
  BY HandlerIs DEF Pending, Acting

LEMMA RetryKeeps == ASSUME ProvInv, Retry PROVE ProvInv'
<1>1. scene \in Scenarios /\ UNCHANGED <<scene, inv, chest, index, furnace, field, faults>>
  BY DEF ProvInv, Retry, world
<1>2. PICK h : h = Handler(scene)
  OBVIOUS
<1>3. /\ h \in Frames /\ h.do \in Composite /\ Own(h) /\ h.at = "call" /\ Pending(h) = 0
      /\ stack' = <<h>>
  BY <1>1, <1>2, HandlerIs, FirstFrame DEF Retry
<1>4. stack' \in Seq(Frames) /\ stack' # <<>> /\ Len(stack') = 1 /\ stack'[1] = h /\ Top' = h
  BY <1>3 DEF Top
<1>5. Own(stack[1])'
  BY <1>1, <1>3, <1>4 DEF Own
<1>6. Stacked'
  BY <1>3, <1>4, <1>5 DEF Stacked
<1>7. Ledger' /\ aborted' = FALSE
  BY DEF Retry, Ledger, Bound
<1>8. Stocked'
  BY <1>1 DEF ProvInv, Stocked
<1>9. Tended'
  <2>1. ~Runs("harvest", "plant")' /\ ~Runs("harvest", "collect")' /\ ~Runs("harvest", "plant")
    BY <1>3, <1>4, RunsNext DEF Runs, Retry
  <2>2. Cardinality(Bare(field)) <= scene.faults - faults + 0
    BY <2>1 DEF ProvInv, Tended
  <2>3. (Cardinality(Bare(field)))' = Cardinality(Bare(field))
    BY <1>1 DEF Bare
  <2> QED  BY <1>1, <2>1, <2>2, <2>3 DEF ProvInv, Tended
<1> QED  BY <1>1, <1>6, <1>7, <1>8, <1>9 DEF ProvInv

LEMMA ProvInit == ASSUME Init PROVE ProvInv
<1>1. scene \in Scenarios /\ scene \in Scenario
  BY ProvisionsAssumption DEF Init
<1>2. /\ scene.inv \in [Items -> Nat] /\ scene.chest \in [Chests -> [Items -> Nat]]
      /\ scene.index \in [Chests -> [Items -> Nat]] /\ scene.field \in Seq({"ripe", "sown"})
      /\ scene.faults \in Nat
  BY <1>1 DEF Scenario, Amounts
<1>3. Stocked
  <2>1. inv \in [Items -> Int]
    BY <1>2 DEF Init
  <2>2. chest \in [Chests -> [Items -> Int]] /\ index \in [Chests -> [Items -> Int]]
    <3>1. \A g \in [Chests -> [Items -> Nat]] : g \in [Chests -> [Items -> Int]]
      <4> SUFFICES ASSUME NEW g \in [Chests -> [Items -> Nat]] PROVE g \in [Chests -> [Items -> Int]]
        OBVIOUS
      <4>1. \A c \in Chests : g[c] \in [Items -> Int]
        OBVIOUS
      <4> QED  BY <4>1
    <3> QED  BY <1>2, <3>1 DEF Init
  <2>3. furnace \in [input : Int, fuel : Int, output : Int]
    BY DEF Init
  <2> QED  BY <2>1, <2>2, <2>3 DEF Stocked
<1>4. PICK h : h = Handler(scene)
  OBVIOUS
<1>5. /\ h \in Frames /\ h.do \in Composite /\ Own(h) /\ h.at = "call" /\ Pending(h) = 0
      /\ stack = <<h>>
  BY <1>1, <1>4, HandlerIs, FirstFrame DEF Init
<1>6. stack \in Seq(Frames) /\ stack # <<>> /\ Len(stack) = 1 /\ stack[1] = h /\ Top = h
  BY <1>5 DEF Top
<1>7. Stacked
  BY <1>5, <1>6 DEF Stacked
<1>8. Ledger /\ aborted = FALSE
  BY DEF Init, Ledger, Bound
<1>9. Tended
  <2>1. ~Runs("harvest", "plant") /\ ~Runs("harvest", "collect")
    BY <1>5, <1>6 DEF Runs
  <2>2. field = scene.field /\ faults = scene.faults
    BY DEF Init
  <2>3. Bare(field) = {}
    BY <1>2, <2>2 DEF Bare
  <2>4. Cardinality(Bare(field)) = 0
    BY <2>3, FS_EmptySet
  <2>5. field \in Seq({"ripe", "bare", "sown", "spoilt"})
    BY <1>2, <2>2
  <2> QED  BY <1>2, <2>1, <2>2, <2>4, <2>5 DEF Tended
<1> QED  BY <1>1, <1>3, <1>7, <1>8, <1>9 DEF ProvInv

LEMMA ProvStill == ASSUME ProvInv, UNCHANGED vars PROVE ProvInv'
  BY OthersKeep DEF vars, world, ProvInv, Stocked, Tended

LEMMA ProvStep == ASSUME ProvInv, [Next]_vars PROVE ProvInv'
<1>1. Skill => ProvInv'
  BY LeavesKeep, AnsweredKeeps, PreparationKeeps, SupplyingKeeps, RestockNextKeeps, HarvestingKeeps DEF Skill
<1> QED  BY <1>1, OutsideKeeps, RetryKeeps, ProvStill DEF Next

(* The invariant holds always.                                             *)
THEOREM ProvInvariance == Spec => []ProvInv
<1>1. Init => ProvInv
  BY ProvInit
<1>2. ProvInv /\ [Next]_vars => ProvInv'
  BY ProvStep
<1> QED  BY <1>1, <1>2, PTL DEF Spec

(* After its signal is aborted a handler ends the act it is in and does no *)
(* other, and a harvest still sows the cell it has reaped: one effect after *)
(* the abort, or two (StopIsPrompt).                                       *)
THEOREM PromptStop == Spec => []StopIsPrompt
<1>1. ProvInv => StopIsPrompt
  BY DEF ProvInv, Ledger, Bound, StopIsPrompt
<1> QED  BY <1>1, ProvInvariance, PTL

(* A harvest leaves a cell without its crop only when one of its calls     *)
(* failed; neither an abort at any await nor a lack of seed does it        *)
(* (NoBareSoil).                                                           *)
THEOREM FieldIsSown == Spec => []NoBareSoil
<1>1. ProvInv => NoBareSoil
  <2> SUFFICES ASSUME ProvInv PROVE NoBareSoil
    OBVIOUS
  <2>1. Cardinality(Bare(field)) \in Nat /\ scene.faults \in Nat /\ faults \in Nat
    BY BareIs, FaultIs
  <2>2. Bare(field) = {c \in DOMAIN field : field[c] = "bare"}
    BY DEF Bare
  <2>3. Cardinality(Bare(field)) <= scene.faults - faults + IF Runs("harvest", "plant") THEN 1 ELSE 0
    BY <2>1 DEF ProvInv, Tended
  <2> QED  BY <2>2, <2>3 DEF NoBareSoil
<1> QED  BY <1>1, ProvInvariance, PTL

-----------------------------------------------------------------------------
(***************************************************************************)
(* A preparation begins a skill only with leave.                           *)
(***************************************************************************)
LEMMA NotLonger ==
  ASSUME ProvInv, stack # <<>>, (\E f : Goes(f)) \/ (\E code : Answer(code))
  PROVE  ~(Len(stack') > Len(stack))
<1>1. stack \in Seq(Frames) /\ Len(stack) \in Nat
  BY TopIs DEF ProvInv, Stacked
<1>2. ASSUME NEW f, Goes(f) PROVE Len(stack') = Len(stack)
  <2>1. PICK F : F = Frames \cup {f}
    OBVIOUS
  <2>2. stack \in Seq(F) /\ f \in F
    BY <1>1, <2>1
  <2> QED  BY <1>2, <2>2, GoesIs
<1>3. ASSUME NEW code, Answer(code) PROVE Len(stack') = Len(stack) - 1
  BY <1>1, <1>3, FrontIs DEF Answer
<1> QED  BY <1>1, <1>2, <1>3

LEMMA CalledIs ==
  ASSUME ProvInv, stack # <<>>, NEW f, NEW g, Call(f, g)
  PROVE  stack'[Len(stack')] = g
<1>1. stack \in Seq(Frames) /\ Len(stack) \in Nat
  BY TopIs DEF ProvInv, Stacked
<1>2. PICK F : F = Frames \cup {f, g}
  OBVIOUS
<1>3. stack \in Seq(F) /\ f \in F /\ g \in F
  BY <1>1, <1>2
<1> QED  BY <1>3, CallIs

LEMMA AuthIs ==
  ASSUME AuthCode = "OK"
  PROVE  ~aborted /\ job.own /\ job.status \in {"running", "pending"} /\ (scene.sourced => job.allowed)
  BY DEF AuthCode

\* What a step of the preparation may be.
Leave ==
  \/ \E f : Goes(f)
  \/ \E code : Answer(code)
  \/ \E f, g : Delegates(f, g) /\ (scene.mission => g.do = "retrieveItem")

LEMMA LeaveSuffices ==
  ASSUME ProvInv, stack # <<>>, Leave, Len(stack') > Len(stack)
  PROVE  AuthCode = "OK" /\ (scene.mission => stack'[Len(stack')].do = "retrieveItem")
<1>1. PICK f, g : Delegates(f, g) /\ (scene.mission => g.do = "retrieveItem")
  BY NotLonger DEF Leave
<1>2. AuthCode = "OK" /\ Call(f, g)
  BY <1>1, NotLonger DEF Delegates
<1> QED  BY <1>1, <1>2, CalledIs

LEMMA WorksWithLeave ==
  ASSUME ProvInv, NEW stage, stage \notin MissionPlaces, NEW needed, NEW g, NEW next,
         Works(stage, needed, g, next)
  PROVE  Leave
<1>1. ~scene.mission
  BY NoMission DEF Works, Runs
<1> QED  BY <1>1 DEF Works, Leave, GoesTo

LEMMA CraftsWithLeave ==
  ASSUME ProvInv, NEW stage, NEW then, stage \notin MissionPlaces, NEW i, NEW wanted, NEW next,
         CraftsUntil(stage, then, i, wanted, next)
  PROVE  Leave
<1>1. Runs("prepare", stage) => ~scene.mission
  BY NoMission DEF Runs
<1> QED  BY <1>1 DEF CraftsUntil, Leave, GoesTo

LEMMA PreparationWithLeave ==
  ASSUME ProvInv, Preparation
  PROVE  Leave /\ stack # <<>>
<1>1. PrepareStarts => Leave
  BY DEF PrepareStarts, Leave
<1>2. PrepareStore => Leave
  <2> SUFFICES ASSUME PrepareStore PROVE Leave
    OBVIOUS
  <2>1. \A i : Retrieve(i, Req(i), scene.storage, "none").do = "retrieveItem"
    BY DEF Retrieve
  <2>2. CASE Top.todo = {}
    BY <2>2 DEF PrepareStore, Leave, GoesTo
  <2>3. CASE Top.todo # {}
    <3>1. PICK i \in Top.todo :
            \/ Goes([Top EXCEPT !.todo = @ \ {i}])
            \/ Delegates(Then([Top EXCEPT !.todo = @ \ {i}], "store"),
                         Retrieve(i, Req(i), scene.storage, "none"))
      BY <2>3 DEF PrepareStore
    <3> QED  BY <2>1, <3>1 DEF Leave
  <2> QED  BY <2>2, <2>3
<1>3. PrepareGathers => Leave
  BY DEF PrepareGathers, Leave
<1>4. PrepareLogs => Leave
  <2>1. Runs("prepare", "logs") => ~scene.mission
    BY NoMission DEF Runs, MissionPlaces
  <2> QED  BY <2>1 DEF PrepareLogs, Leave, GoesTo
<1>5. PreparePlanks \/ PrepareDoors => Leave
  BY CraftsWithLeave DEF PreparePlanks, PrepareDoors, MissionPlaces
<1>6. PrepareStone \/ PrepareDirt \/ PrepareSand \/ PrepareFuel \/ PrepareGlass => Leave
  BY WorksWithLeave DEF PrepareStone, PrepareDirt, PrepareSand, PrepareFuel, PrepareGlass, MissionPlaces
<1>7. PrepareEnds => Leave
  BY DEF PrepareEnds, Leave
<1>8. stack # <<>>
  BY DEF Preparation, PrepareStarts, PrepareStore, PrepareGathers, PrepareLogs, PreparePlanks, PrepareDoors,
         CraftsUntil, PrepareStone, PrepareDirt, PrepareSand, PrepareFuel, PrepareGlass, Works, PrepareEnds, Runs
<1> QED  BY <1>1, <1>2, <1>3, <1>4, <1>5, <1>6, <1>7, <1>8 DEF Preparation

LEMMA OthersApart ==
  Leaves \/ Supplying \/ RestockNext \/ Harvesting => Top.do # "prepare"
<1>1. Leaves => Top.do # "prepare"
  BY DEF Leaves, RetrieveBegins, RetrieveNext, RetrieveTakes, RetrieveFails, WalkStops, WalkFails, WalkBegins, Walks,
         Indexed, DepositOpens, DepositNext, DepositPuts, DepositFails, MineBegins, MineNext, MineCollects,
         ChopBegins, ChopNext, ChopCollects, CollectFails, CraftBegins, CraftAtTable, CraftDone, CraftFalls,
         EquipBegins, Equips, EnsureToolStep, SmeltBegins, SmeltReached, SmeltLoads, SmeltFuels, SmeltLoadFails, SmeltNext,
         SmeltTakes, SmeltTakeFails, SmeltWaits, Runs
<1>2. Supplying => Top.do # "prepare"
  BY DEF Supplying, SupplyLooks, SupplyFound, SupplyProduces, SupplyVerifies, Supplies, Runs
<1>3. RestockNext \/ Harvesting => Top.do # "prepare"
  BY DEF RestockNext, Harvesting, HarvestBegins, HarvestNext, HarvestReaps, HarvestFindsNoSoil, HarvestFails,
         HarvestPlants, HarvestEnds, Runs
<1> QED  BY <1>1, <1>2, <1>3

(* The preparation begins a skill only while its signal, its job and its   *)
(* actor's access allow it, and in a mission only one that fetches from the *)
(* job's container (WorksOnlyWithLeave).                                   *)
THEOREM LeaveFirst == Spec => WorksOnlyWithLeave
<1> DEFINE Begins == Runs("prepare", Top.at) /\ Len(stack') > Len(stack)
                       => /\ ~aborted /\ job.own /\ job.status \in {"running", "pending"}
                          /\ scene.sourced => job.allowed
                          /\ scene.mission => stack'[Len(stack')].do = "retrieveItem"
<1>1. ProvInv /\ [Next]_vars => [Begins]_vars
  <2> SUFFICES ASSUME ProvInv, Next, stack # <<>>, Top.do = "prepare", Len(stack') > Len(stack)
               PROVE  AuthCode = "OK" /\ (scene.mission => stack'[Len(stack')].do = "retrieveItem")
    BY AuthIs DEF Runs
  <2>1. CASE Preparation
    BY <2>1, PreparationWithLeave, LeaveSuffices
  <2>2. CASE Answered
    BY <2>2, NotLonger DEF Answered, GoesTo
  <2>3. CASE Outside
    <3>1. stack' = stack /\ Len(stack) \in Nat
      BY <2>3, TopIs DEF Outside, Abort, HoldJob, Player, Trample
    <3> QED  BY <3>1
  <2> QED  BY <2>1, <2>2, <2>3, OthersApart DEF Next, Skill, Retry
<1> QED  BY <1>1, ProvInvariance, PTL DEF Spec, WorksOnlyWithLeave

-----------------------------------------------------------------------------
(***************************************************************************)
(* The plan of a preparation that nothing disturbs: v is the inventory, r  *)
(* the requirements, f the preparation's frame, p a place in its code.     *)
(***************************************************************************)
(* A first preparation that no fault has disturbed so far.                 *)
Calm == scene.skill = "prepareBlueprintMaterials" /\ tries = 1 /\ faults = scene.faults

Has(v, r, S)   == \A i \in S : v[i] >= r[i]
PlanksOf(v, r) == r["oak_planks"] + 6 * Upwards(Most(0, r["oak_door"] - v["oak_door"]), 3)
LogsOf(v, r)   == r["oak_log"] + Upwards(Most(0, PlanksOf(v, r) - v["oak_planks"]), 4)
SandOf(v, r)   == r["sand"] + Most(0, r["glass"] - v["glass"])

PastDirt  == {"sand", "fueltool", "fuel", "smelt", "final"}
PastStone == {"dirt"} \cup PastDirt
PastOak   == {"pickaxe", "stone"} \cup PastStone
PastStore == {"logs", "chopped", "planks", "planked", "doors", "doored"} \cup PastOak
Given     == Items \ (Automatic \cup {"coal"})

(* What has been gathered when the preparation is at p, and what is still  *)
(* laid by for the steps to come.                                          *)
Holds(v, r, p, f) ==
  /\ p \in PastStore => Has(v, r, Given)
  /\ p \in {"logs", "chopped"} => f.planks = PlanksOf(v, r) /\ f.logs = LogsOf(v, r)
  /\ p \in {"planks", "planked"} => f.planks = PlanksOf(v, r) /\ v["oak_log"] >= LogsOf(v, r)
  /\ p \in {"doors", "doored"} => v["oak_log"] >= r["oak_log"] /\ v["oak_planks"] >= PlanksOf(v, r)
  /\ p \in PastOak => Has(v, r, {"oak_log", "oak_planks", "oak_door"})
  /\ p \in PastStone => Has(v, r, {"cobblestone"})
  /\ p \in PastDirt => Has(v, r, {"dirt"})
  /\ p \in {"fueltool", "fuel", "smelt"} => v["sand"] >= SandOf(v, r)
  /\ p = "final" => Has(v, r, {"sand", "glass"})

(* The place whose facts hold while the frame awaits a skill: the awaited  *)
(* one has still to bring those of f.then, if it brings any.               *)
Reached(f) ==
  IF f.at # "answered" THEN f.at
  ELSE CASE f.then = "dirt" -> "stone"
         [] f.then = "sand" -> "dirt"
         [] f.then \in {"fueltool", "final"} -> "sand"
         [] OTHER -> f.then

(* What the preparation awaits where.                                      *)
Awaited(f, g, r) ==
  \/ f.at = "planked" /\ g.do = "craftItem" /\ g.item = "oak_planks" /\ g.want = f.planks
  \/ f.at = "doored" /\ g.do = "craftItem" /\ g.item = "oak_door" /\ g.want = r["oak_door"]
  \/ f.at = "answered" /\ f.then = "store" /\ g.do = "retrieveItem"
  \/ f.at = "answered" /\ f.then = "chopped" /\ g.do = "chopTrees"
  \/ f.at = "answered" /\ f.then \in {"stone", "fuel"} /\ g.do = "ensureTool"
  \/ f.at = "answered" /\ f.then = "dirt" /\ g.do = "mineUntil" /\ g.item = "cobblestone"
       /\ g.want = r["cobblestone"]
  \/ f.at = "answered" /\ f.then = "sand" /\ g.do = "mineUntil" /\ g.item = "dirt" /\ g.want = r["dirt"]
  \/ f.at = "answered" /\ f.then = "fueltool" /\ g.do = "mineUntil" /\ g.item = "sand"
  \/ f.at = "answered" /\ f.then = "smelt" /\ g.do = "mineUntil" /\ g.item = "coal"
  \/ f.at = "answered" /\ f.then = "final" /\ g.do = "smeltItem" /\ g.item = "glass" /\ g.input = "sand"
       /\ g.want = r["glass"]

(* What a running skill knows of the inventory.                            *)
Knows(v, g) ==
  /\ g.do = "retrieveItem" /\ g.at = "open" => g.have < g.want
  /\ g.do = "mineUntil" /\ g.at # "call" => g.have = v[g.item]
  /\ g.do = "craftItem" /\ g.at # "call" => v[g.item] < g.want
  /\ g.do = "smeltItem" =>
       /\ g.at \in {"call", "reach", "load"} => g.got = 0
       /\ g.at \in {"reach", "load"} => g.need = g.want - v[g.item] /\ g.need > 0
       /\ g.at \in {"fuel", "next", "take", "burn"} => v[g.item] = g.want - g.need + g.got

(* The sand: of the requirement and of the glass, until it is mined and    *)
(* until it is in the furnace.                                             *)
Sanded(v, r, f, g) ==
  /\ g.do = "smeltItem" =>
       IF g.at \in {"call", "reach", "load"} THEN v["sand"] >= SandOf(v, r) ELSE v["sand"] >= r["sand"]
  /\ f.at = "answered" /\ f.then = "fueltool" /\ g.do = "mineUntil" => g.want = SandOf(v, r)

(* The frames of a preparation: it, the skill it awaits, and a tool's own. *)
Chain(s, v, r) ==
  /\ Len(s) <= 3
  /\ s # <<>> => s[1].at # "asked" /\ s[1].then \notin {"asked", "answered"} /\ Knows(v, s[Len(s)])
  /\ Len(s) >= 2 => Awaited(s[1], s[2], r)
  /\ Len(s) = 3 => /\ s[2].do = "ensureTool"
                   /\ s[3].do = "equipBestTool" \/ (s[3].do = "craftItem" /\ s[3].item \in Tools)

(* The plan: what holds where the preparation has got to, and, once the    *)
(* awaited skill has answered OK, at the place it goes on with.            *)
Reckons(s, v, r, code) ==
  s # <<>> =>
    /\ Holds(v, r, Reached(s[1]), s[1])
    /\ Len(s) = 1 /\ s[1].at = "answered" /\ code = "OK" => Holds(v, r, s[1].then, s[1])
    /\ Sanded(v, r, s[1], s[Len(s)])

(* The premise of PlanSuffices: no tool made, nothing in reach used up. A  *)
(* tool stays made and a block mined, so a fair step begins in a fair state. *)
Fair == Undisturbed /\ ~scene.mission

Course ==
  /\ chest \in [Chests -> [Items -> Nat]] /\ ground \in [Blocks -> Int]
  /\ \A t \in Tools : inv[t] >= scene.inv[t]
  /\ Chain(stack, inv, scene.req)
  /\ Fair => Reckons(stack, inv, scene.req, result)

PlanInv == tries \in Nat \ {0} /\ faults <= scene.faults /\ (Calm => Course)

-----------------------------------------------------------------------------
(***************************************************************************)
(* How a calm preparation goes on.                                         *)
(***************************************************************************)
LEMMA GoesTurns ==
  ASSUME ProvInv, stack # <<>>, NEW f, Goes(f)
  PROVE  /\ Len(stack) \in Nat /\ Len(stack) >= 1 /\ Len(stack') = Len(stack) /\ stack' # <<>>
         /\ stack'[Len(stack)] = f /\ \A i \in 1 .. Len(stack) - 1 : stack'[i] = stack[i]
<1>1. stack \in Seq(Frames) /\ Len(stack) \in Nat /\ Len(stack) >= 1
  BY TopIs DEF ProvInv, Stacked
<1>2. PICK F : F = Frames \cup {f}
  OBVIOUS
<1>3. stack \in Seq(F) /\ f \in F
  BY <1>1, <1>2
<1>4. stack' \in Seq(F) /\ Len(stack') = Len(stack) /\ stack'[Len(stack)] = f
      /\ \A i \in 1 .. Len(stack) - 1 : stack'[i] = stack[i]
  BY <1>3, GoesIs
<1> QED  BY <1>1, <1>4

LEMMA CallTurns ==
  ASSUME ProvInv, stack # <<>>, NEW f, NEW g, Call(f, g)
  PROVE  /\ Len(stack) \in Nat /\ Len(stack) >= 1 /\ Len(stack') = Len(stack) + 1 /\ stack' # <<>>
         /\ stack'[Len(stack)] = f /\ stack'[Len(stack) + 1] = g
         /\ \A i \in 1 .. Len(stack) - 1 : stack'[i] = stack[i]
<1>1. stack \in Seq(Frames) /\ Len(stack) \in Nat /\ Len(stack) >= 1
  BY TopIs DEF ProvInv, Stacked
<1>2. PICK F : F = Frames \cup {f, g}
  OBVIOUS
<1>3. stack \in Seq(F) /\ f \in F /\ g \in F
  BY <1>1, <1>2
<1>4. stack' \in Seq(F) /\ Len(stack') = Len(stack) + 1 /\ stack'[Len(stack)] = f /\ stack'[Len(stack) + 1] = g
      /\ \A i \in 1 .. Len(stack) - 1 : stack'[i] = stack[i]
  BY <1>3, CallIs
<1> QED  BY <1>1, <1>4

LEMMA AnswerTurns ==
  ASSUME ProvInv, stack # <<>>, NEW code, Answer(code)
  PROVE  /\ Len(stack) \in Nat /\ Len(stack) >= 1 /\ Len(stack') = Len(stack) - 1 /\ result' = code
         /\ Len(stack) = 1 => stack' = <<>>
         /\ \A i \in 1 .. Len(stack) - 1 : stack'[i] = stack[i]
<1>1. stack \in Seq(Frames) /\ Len(stack) \in Nat /\ Len(stack) >= 1
  BY TopIs DEF ProvInv, Stacked
<1>2. PICK t : t = Front(stack)
  OBVIOUS
<1>3. t \in Seq(Frames) /\ Len(t) = Len(stack) - 1 /\ \A i \in 1 .. Len(stack) - 1 : t[i] = stack[i]
  BY <1>1, <1>2, FrontIs
<1>4. stack' = t /\ result' = code
  BY <1>2 DEF Answer
<1> QED  BY <1>1, <1>3, <1>4

(* What the running skill does is within the plan: it takes nothing back,  *)
(* puts no tool aside and makes none.                                      *)
Moves ==
  /\ scene' = scene /\ chest' \in [Chests -> [Items -> Nat]] /\ ground' \in [Blocks -> Int]
  /\ \A b \in Blocks : ground'[b] <= ground[b]
  /\ \A t \in Tools : inv'[t] >= inv[t]

(* A step that stays calm.                                                 *)
Going == ProvInv /\ Calm /\ Calm' /\ Course

LEMMA ToolsAre ==
  ASSUME ProvInv
  PROVE  /\ Tools \subseteq Items /\ inv \in [Items -> Int] /\ scene.inv \in [Items -> Nat]
         /\ scene.req \in [Items -> Nat]
<1>1. scene \in Scenario /\ inv \in [Items -> Int]
  BY ProvisionsAssumption DEF ProvInv, Stocked
<1> QED  BY <1>1, ProvisionsAssumption DEF Scenario, Amounts, Tools

LEMMA MovesOn ==
  ASSUME Going, Moves, inv' \in [Items -> Int]
  PROVE  /\ chest' \in [Chests -> [Items -> Nat]] /\ ground' \in [Blocks -> Int]
         /\ \A t \in Tools : inv'[t] >= scene'.inv[t]
         /\ Fair' => Fair
<1>1. /\ scene' = scene /\ chest' \in [Chests -> [Items -> Nat]] /\ ground' \in [Blocks -> Int]
      /\ \A b \in Blocks : ground'[b] <= ground[b]
      /\ \A t \in Tools : inv'[t] >= inv[t]
  BY DEF Moves
<1>2. ground \in [Blocks -> Int] /\ \A t \in Tools : inv[t] >= scene.inv[t]
  BY DEF Going, Course
<1>3. \A t \in Tools : inv[t] \in Int /\ inv'[t] \in Int /\ scene.inv[t] \in Int
  BY ToolsAre DEF Going
<1>4. \A t \in Tools : inv'[t] >= scene.inv[t]
  BY <1>1, <1>2, <1>3
<1>5. ASSUME Fair'
      PROVE  Fair
  <2>1. /\ faults = scene.faults /\ tries = 1 /\ ~scene.mission
        /\ \A t \in Tools : inv'[t] = scene.inv[t]
        /\ \A b \in Blocks : ground'[b] > 0
    BY <1>1, <1>5 DEF Fair, Undisturbed, Going, Calm
  <2>2. ASSUME NEW t \in Tools
        PROVE  inv[t] = scene.inv[t]
    <3>1. inv'[t] >= inv[t] /\ inv[t] >= scene.inv[t] /\ inv'[t] = scene.inv[t]
      BY <1>1, <1>2, <2>1
    <3>2. inv[t] \in Int /\ scene.inv[t] \in Int
      BY <1>3
    <3> QED  BY <3>1, <3>2
  <2>3. \A b \in Blocks : ground[b] > 0
    BY <1>1, <1>2, <2>1
  <2> QED  BY <2>1, <2>2, <2>3 DEF Fair, Undisturbed
<1> QED  BY <1>1, <1>4, <1>5

Still == UNCHANGED <<scene, inv, chest, ground>>

LEMMA StillMoves == ASSUME Going, Still PROVE Moves /\ inv' \in [Items -> Int]
<1>1. chest \in [Chests -> [Items -> Nat]] /\ ground \in [Blocks -> Int]
  BY DEF Going, Course
<1>2. \A t \in Tools : inv[t] \in Int
  BY ToolsAre DEF Going
<1>3. inv \in [Items -> Int]
  BY ToolsAre DEF Going
<1> QED  BY <1>1, <1>2, <1>3 DEF Still, Moves

(* The preparation is the first frame, and the only composite one.         *)
LEMMA Bottom ==
  ASSUME Going, stack # <<>>
  PROVE  /\ stack[1].do = "prepare" /\ stack[1] \in PrepareFrames
         /\ Len(stack) \in 1 .. 3 /\ Top = stack[Len(stack)]
         /\ Top.do = "prepare" <=> Len(stack) = 1
         /\ Top.do \notin {"supply", "restock", "harvest"}
<1>1. Own(stack[1]) /\ stack \in Seq(Frames) /\ stack[1].do = "prepare"
  BY DEF Going, ProvInv, Stacked, Own, Calm
<1>2. Len(stack) \in Nat /\ Len(stack) >= 1 /\ Top = stack[Len(stack)] /\ (Top.do \in Composite <=> Len(stack) = 1)
  BY TopIs DEF Going
<1>3. Len(stack) <= 3
  BY DEF Going, Course, Chain
<1>4. stack[1] \in Frames
  BY <1>1, <1>2
<1>5. stack[1] \in PrepareFrames
  <2>1. PICK t : t = stack[1]
    OBVIOUS
  <2> QED  BY <1>1, <1>4, <2>1 DEF Frames, LeafFrames, RetrieveFrames, ScanFrames, DepositFrames, MineFrames,
       ChopFrames, CraftFrames, EquipFrames, ToolFrames, SmeltFrames, SupplyFrames, RestockFrames, HarvestFrames
<1>6. Len(stack) = 1 => Top.do = "prepare"
  BY <1>1, <1>2
<1>7. Len(stack) # 1 => Top.do \notin {"prepare", "supply", "restock", "harvest"}
  BY <1>2 DEF Composite
<1>8. Len(stack) \in 1 .. 3
  <2>1. PICK n : n = Len(stack)
    OBVIOUS
  <2>2. n \in Nat /\ n >= 1 /\ n <= 3
    BY <1>2, <1>3, <2>1
  <2>3. n \in 1 .. 3
    BY <2>2
  <2> QED  BY <2>1, <2>3
<1> QED  BY <1>1, <1>2, <1>5, <1>6, <1>7, <1>8

(* An awaited skill goes on ...                                            *)
LEMMA LeafGoesOn ==
  ASSUME Going, Moves, inv' \in [Items -> Int], stack # <<>>, Len(stack) >= 2, NEW g, Goes(g),
         g.do = Top.do, g.item = Top.item, g.want = Top.want, g.do = "smeltItem" => g.input = Top.input,
         Knows(inv', g),
         Fair /\ Fair' => /\ Holds(inv', scene.req, Reached(stack[1]), stack[1])
                          /\ Sanded(inv', scene.req, stack[1], g)
  PROVE  Course'
<1>1. /\ Len(stack) \in 2 .. 3 /\ Len(stack') = Len(stack) /\ stack' # <<>>
      /\ stack'[Len(stack)] = g /\ \A i \in 1 .. Len(stack) - 1 : stack'[i] = stack[i]
  BY GoesTurns, Bottom DEF Going
<1>2. stack'[1] = stack[1]
  BY <1>1
<1>3. scene' = scene
  BY DEF Moves
<1>4. Chain(stack, inv, scene.req) /\ Top = stack[Len(stack)]
  BY Bottom DEF Going, Course
<1>5. Chain(stack', inv', scene.req)
  <2>1. stack[1].at # "asked" /\ stack[1].then \notin {"asked", "answered"} /\ Awaited(stack[1], stack[2], scene.req)
    BY <1>1, <1>4 DEF Chain
  <2>2. Awaited(stack[1], stack'[2], scene.req)
    <3>1. CASE Len(stack) = 2
      <4>1. stack'[2] = g /\ Top = stack[2]
        BY <1>1, <1>4, <3>1
      <4> QED  BY <2>1, <4>1 DEF Awaited
    <3>2. CASE Len(stack) = 3
      BY <1>1, <2>1, <3>2
    <3> QED  BY <1>1, <3>1, <3>2
  <2>3. ASSUME Len(stack) = 3
        PROVE  /\ stack'[2].do = "ensureTool"
               /\ stack'[3].do = "equipBestTool" \/ (stack'[3].do = "craftItem" /\ stack'[3].item \in Tools)
    BY <1>1, <1>4, <2>3 DEF Chain
  <2> QED  BY <1>1, <1>2, <2>1, <2>2, <2>3 DEF Chain
<1>6. Fair' => Reckons(stack', inv', scene.req, result')
  BY <1>1, <1>2, MovesOn DEF Reckons
<1> QED  BY <1>3, <1>5, <1>6, MovesOn DEF Course

(* ... answers ...                                                         *)
LEMMA LeafAnswers ==
  ASSUME Going, Moves, inv' \in [Items -> Int], stack # <<>>, Len(stack) >= 2, NEW code, Answer(code),
         Fair /\ Fair' =>
           /\ Holds(inv', scene.req, Reached(stack[1]), stack[1])
           /\ Len(stack) = 2 /\ stack[1].at = "answered" /\ code = "OK"
                => Holds(inv', scene.req, stack[1].then, stack[1])
  PROVE  Course'
<1>1. /\ Len(stack) \in 2 .. 3 /\ Len(stack') = Len(stack) - 1 /\ result' = code
      /\ \A i \in 1 .. Len(stack) - 1 : stack'[i] = stack[i]
  BY AnswerTurns, Bottom DEF Going
<1>2. stack'[1] = stack[1] /\ (Len(stack) = 3 => stack'[2] = stack[2]) /\ stack[1].do = "prepare"
  <2>1. stack[1].do = "prepare"
    BY Bottom
  <2>2. 1 \in 1 .. Len(stack) - 1 /\ (Len(stack) = 3 => 2 \in 1 .. Len(stack) - 1)
    <3>1. PICK n : n = Len(stack)
      OBVIOUS
    <3>2. n \in 2 .. 3
      BY <1>1, <3>1
    <3> QED  BY <3>1, <3>2
  <2> QED  BY <1>1, <2>1, <2>2
<1>3. scene' = scene
  BY DEF Moves
<1>4. Chain(stack, inv, scene.req)
  BY DEF Going, Course
<1>5. stack'[Len(stack')].do \in {"prepare", "ensureTool"}
  <2>1. CASE Len(stack) = 2
    BY <1>1, <1>2, <2>1
  <2>2. CASE Len(stack) = 3
    BY <1>1, <1>2, <1>4, <2>2 DEF Chain
  <2> QED  BY <1>1, <2>1, <2>2
<1>6. Chain(stack', inv', scene.req)
  BY <1>1, <1>2, <1>4, <1>5 DEF Chain, Knows
<1>7. Fair' => Reckons(stack', inv', scene.req, result')
  BY <1>1, <1>2, <1>5, MovesOn DEF Reckons, Sanded
<1> QED  BY <1>3, <1>6, <1>7, MovesOn DEF Course

(* ... and the preparation goes on ...                                     *)
LEMMA PreparationGoes ==
  ASSUME Going, Still, stack # <<>>, Len(stack) = 1, NEW f, Goes(f),
         f.do = "prepare", f.at \notin {"asked", "answered"}, f.then \notin {"asked", "answered"},
         Fair /\ Reckons(stack, inv, scene.req, result) => Holds(inv, scene.req, f.at, f)
  PROVE  Course'
<1>1. Len(stack') = 1 /\ stack' # <<>> /\ stack'[1] = f
  BY GoesTurns DEF Going
<1>2. scene' = scene /\ inv' = inv
  BY DEF Still
<1>3. Chain(stack', inv, scene.req)
  BY <1>1 DEF Chain, Knows
<1>4. ASSUME Fair'
      PROVE  Reckons(stack', inv, scene.req, result')
  <2>1. Holds(inv, scene.req, f.at, f)
    BY <1>4, MovesOn, StillMoves DEF Going, Course
  <2> QED  BY <1>1, <2>1 DEF Reckons, Sanded, Reached
<1> QED  BY <1>2, <1>3, <1>4, MovesOn, StillMoves DEF Course

(* ... awaits a skill ...                                                  *)
LEMMA PreparationCalls ==
  ASSUME Going, Still, stack # <<>>, Len(stack) = 1, NEW f, NEW g, Call(f, g),
         f.do = "prepare", f.at # "asked", f.then \notin {"asked", "answered"},
         Awaited(f, g, scene.req), Knows(inv, g),
         Fair /\ Reckons(stack, inv, scene.req, result) =>
           Holds(inv, scene.req, Reached(f), f) /\ Sanded(inv, scene.req, f, g)
  PROVE  Course'
<1>1. Len(stack') = 2 /\ stack' # <<>> /\ stack'[1] = f /\ stack'[2] = g
  BY CallTurns DEF Going
<1>2. scene' = scene /\ inv' = inv
  BY DEF Still
<1>3. Chain(stack', inv, scene.req)
  BY <1>1 DEF Chain
<1>4. ASSUME Fair'
      PROVE  Reckons(stack', inv, scene.req, result')
  <2>1. Holds(inv, scene.req, Reached(f), f) /\ Sanded(inv, scene.req, f, g)
    BY <1>4, MovesOn, StillMoves DEF Going, Course
  <2> QED  BY <1>1, <2>1 DEF Reckons
<1> QED  BY <1>2, <1>3, <1>4, MovesOn, StillMoves DEF Course

(* ... or ends.                                                            *)
LEMMA PreparationAnswers ==
  ASSUME Going, Still, stack # <<>>, Len(stack) = 1, NEW code, Answer(code)
  PROVE  Course'
<1>1. stack' = <<>> /\ Len(stack') = 0
  BY AnswerTurns DEF Going
<1>2. Chain(stack', inv, scene.req) /\ Reckons(stack', inv, scene.req, result')
  BY <1>1 DEF Chain, Reckons
<1> QED  BY <1>2, MovesOn, StillMoves DEF Course, Still
-----------------------------------------------------------------------------
(***************************************************************************)
(* What is awaited, and what an answer brings.                             *)
(***************************************************************************)
LEMMA Tops ==
  ASSUME Going, stack # <<>>, Len(stack) >= 2
  PROVE  /\ stack[1] \in PrepareFrames /\ stack[1].do = "prepare" /\ Top = stack[Len(stack)]
         /\ Len(stack) \in 2 .. 3 /\ Knows(inv, Top)
         /\ Len(stack) = 2 => Top = stack[2] /\ Awaited(stack[1], Top, scene.req)
         /\ Len(stack) = 3 => /\ stack[2].do = "ensureTool"
                              /\ Top.do = "equipBestTool" \/ (Top.do = "craftItem" /\ Top.item \in Tools)
         /\ Top.do \in {"retrieveItem", "chopTrees", "ensureTool", "mineUntil", "smeltItem", "craftItem"}
            \/ (Top.do = "equipBestTool" /\ Len(stack) = 3)
<1>1. /\ stack[1] \in PrepareFrames /\ stack[1].do = "prepare" /\ Top = stack[Len(stack)]
      /\ Len(stack) \in 2 .. 3
  BY Bottom
<1>2. /\ Knows(inv, stack[Len(stack)]) /\ Awaited(stack[1], stack[2], scene.req)
      /\ Len(stack) = 3 => /\ stack[2].do = "ensureTool"
                           /\ stack[3].do = "equipBestTool" \/ (stack[3].do = "craftItem" /\ stack[3].item \in Tools)
  BY <1>1 DEF Going, Course, Chain
<1>3. CASE Len(stack) = 2
  BY <1>1, <1>2, <1>3 DEF Awaited
<1>4. CASE Len(stack) = 3
  BY <1>1, <1>2, <1>4
<1> QED  BY <1>1, <1>3, <1>4

LEMMA StillGoes ==
  ASSUME Going, Still, stack # <<>>, Len(stack) >= 2, NEW g, Goes(g),
         g.do = Top.do, g.item = Top.item, g.want = Top.want, g.do = "smeltItem" => g.input = Top.input,
         Knows(inv, g),
         g.do = "smeltItem" => (g.at \in {"call", "reach", "load"} <=> Top.at \in {"call", "reach", "load"})
  PROVE  Course'
<1>1. inv' = inv
  BY DEF Still
<1>2. Fair => /\ Holds(inv, scene.req, Reached(stack[1]), stack[1])
              /\ Sanded(inv, scene.req, stack[1], Top)
  BY Bottom DEF Going, Course, Reckons
<1>3. Fair => Sanded(inv, scene.req, stack[1], g)
  BY <1>2 DEF Sanded
<1> QED  BY <1>1, <1>2, <1>3, StillMoves, LeafGoesOn

LEMMA StillAnswers ==
  ASSUME Going, Still, stack # <<>>, Len(stack) >= 2, NEW code, Answer(code),
         Fair /\ Len(stack) = 2 /\ stack[1].at = "answered" /\ code = "OK"
           /\ Holds(inv, scene.req, Reached(stack[1]), stack[1]) /\ Sanded(inv, scene.req, stack[1], Top)
           => Holds(inv, scene.req, stack[1].then, stack[1])
  PROVE  Course'
<1>1. inv' = inv
  BY DEF Still
<1>2. Fair => /\ Holds(inv, scene.req, Reached(stack[1]), stack[1])
              /\ Sanded(inv, scene.req, stack[1], Top)
  BY Bottom DEF Going, Course, Reckons
<1> QED  BY <1>1, <1>2, StillMoves, LeafAnswers

(* An answer that brings nothing new, or no OK.                            *)
LEMMA PlainAnswers ==
  ASSUME Going, Still, stack # <<>>, Len(stack) >= 2, NEW code, Answer(code),
         code = "OK" => Top.do \notin {"mineUntil", "smeltItem"}
  PROVE  Course'
<1>1. ASSUME Len(stack) = 2, stack[1].at = "answered", code = "OK"
      PROVE  Reached(stack[1]) = stack[1].then
  BY <1>1, Tops DEF Awaited, Reached
<1>2. Fair /\ Len(stack) = 2 /\ stack[1].at = "answered" /\ code = "OK"
      /\ Holds(inv, scene.req, Reached(stack[1]), stack[1]) /\ Sanded(inv, scene.req, stack[1], Top)
        => Holds(inv, scene.req, stack[1].then, stack[1])
  <2> SUFFICES ASSUME Len(stack) = 2, stack[1].at = "answered", code = "OK",
                      Holds(inv, scene.req, Reached(stack[1]), stack[1])
               PROVE  Holds(inv, scene.req, stack[1].then, stack[1])
    OBVIOUS
  <2>1. Reached(stack[1]) = stack[1].then
    BY <1>1
  <2> QED  BY <2>1
<1> QED  BY <1>2, StillAnswers

LEMMA NotAtFault == ASSUME Going, Fault, scene' = scene PROVE FALSE
<1>1. faults \in Nat /\ faults' = faults - 1 /\ faults = scene.faults /\ faults' = scene'.faults
  BY FaultIs DEF Going, Calm, Fault
<1> QED  BY <1>1

LEMMA LeafTop ==
  ASSUME Going, NEW skill, NEW at, Runs(skill, at), skill # "prepare"
  PROVE  stack # <<>> /\ Len(stack) >= 2 /\ Top.do = skill /\ Top.at = at
<1>1. stack # <<>> /\ Top.do = skill /\ Top.at = at
  BY DEF Runs
<1>2. Len(stack) \in 1 .. 3 /\ Len(stack) # 1
  BY <1>1, Bottom
<1> QED  BY <1>1, <1>2

LEMMA ThinksStill == Thinks => Still
  BY DEF Thinks, Still, world, Surroundings

-----------------------------------------------------------------------------
(***************************************************************************)
(* Fetching, mining and chopping.                                          *)
(***************************************************************************)
LEMMA NumbersIn ==
  ASSUME NEW v \in [Items -> Int], NEW r \in [Items -> Nat]
  PROVE  /\ PlanksOf(v, r) \in Int /\ LogsOf(v, r) \in Int /\ SandOf(v, r) \in Int
         /\ {"oak_log", "oak_planks", "oak_door", "cobblestone", "dirt", "sand", "glass", "coal"} \subseteq Items
<1>1. {"oak_log", "oak_planks", "oak_door", "cobblestone", "dirt", "sand", "glass", "coal"} \subseteq Items
  BY ProvisionsAssumption
<1>2. \A i \in {"oak_log", "oak_planks", "oak_door", "sand", "glass"} : v[i] \in Int /\ r[i] \in Int
  BY <1>1
<1>3. \A a, b \in Int : Most(0, a - b) \in Int
  BY DEF Most
<1>4. PlanksOf(v, r) \in Int
  <2>1. Upwards(Most(0, r["oak_door"] - v["oak_door"]), 3) \in Int
    BY <1>2, <1>3, UpwardsIs
  <2> QED  BY <1>2, <2>1 DEF PlanksOf
<1>5. LogsOf(v, r) \in Int
  <2>1. Most(0, PlanksOf(v, r) - v["oak_planks"]) \in Int
    BY <1>2, <1>3, <1>4
  <2>2. Upwards(Most(0, PlanksOf(v, r) - v["oak_planks"]), 4) \in Int
    BY <2>1, UpwardsIs
  <2> QED  BY <1>2, <2>2 DEF LogsOf
<1>6. SandOf(v, r) \in Int
  <2>1. Most(0, r["glass"] - v["glass"]) \in Int
    BY <1>2, <1>3
  <2> QED  BY <1>2, <2>1 DEF SandOf
<1> QED  BY <1>1, <1>4, <1>5, <1>6

LEMMA HoldsGrows ==
  ASSUME NEW v \in [Items -> Int], NEW w \in [Items -> Int], NEW r \in [Items -> Nat], NEW p, NEW f,
         \A i \in Items : w[i] >= v[i],
         w["oak_planks"] = v["oak_planks"], w["oak_door"] = v["oak_door"], w["glass"] = v["glass"],
         Holds(v, r, p, f)
  PROVE  Holds(w, r, p, f)
<1>1. PlanksOf(w, r) = PlanksOf(v, r)
  BY DEF PlanksOf
<1>2. LogsOf(w, r) = LogsOf(v, r)
  BY <1>1 DEF LogsOf
<1>3. SandOf(w, r) = SandOf(v, r)
  BY DEF SandOf
<1>4. \A S \in SUBSET Items : Has(v, r, S) => Has(w, r, S)
  <2> SUFFICES ASSUME NEW S \in SUBSET Items, \A i \in S : v[i] >= r[i], NEW i \in S
               PROVE  w[i] >= r[i]
    BY DEF Has
  <2>1. v[i] \in Int /\ w[i] \in Int /\ r[i] \in Int /\ w[i] >= v[i] /\ v[i] >= r[i]
    OBVIOUS
  <2> QED  BY <2>1
<1>5. /\ Given \subseteq Items /\ {"oak_log", "oak_planks", "oak_door"} \subseteq Items
      /\ {"cobblestone"} \subseteq Items /\ {"dirt"} \subseteq Items /\ {"sand", "glass"} \subseteq Items
      /\ "oak_log" \in Items /\ "sand" \in Items /\ "oak_planks" \in Items
  BY NumbersIn DEF Given
<1>6. /\ LogsOf(v, r) \in Int /\ SandOf(v, r) \in Int /\ r["oak_log"] \in Int /\ PlanksOf(v, r) \in Int
  BY <1>5, NumbersIn
<1>7. /\ \A n \in Int : v["oak_log"] >= n => w["oak_log"] >= n
      /\ \A n \in Int : v["sand"] >= n => w["sand"] >= n
  <2>1. \A a, b, n \in Int : a >= n /\ b >= a => b >= n
    OBVIOUS
  <2>2. \A i \in Items : v[i] \in Int /\ w[i] \in Int
    OBVIOUS
  <2> QED  BY <1>5, <2>1, <2>2
<1> QED  BY <1>1, <1>2, <1>3, <1>4, <1>5, <1>6, <1>7 DEF Holds

(* What was to be mined is there.                                          *)
LEMMA MinedIs ==
  ASSUME Going, stack # <<>>, Len(stack) = 2, Top.do = "mineUntil", inv[Top.item] >= Top.want,
         Holds(inv, scene.req, Reached(stack[1]), stack[1]), Sanded(inv, scene.req, stack[1], Top)
  PROVE  Holds(inv, scene.req, stack[1].then, stack[1])
<1>1. Awaited(stack[1], Top, scene.req)
  BY Tops
<1>2. PICK f, g, v, r : f = stack[1] /\ g = Top /\ v = inv /\ r = scene.req
  OBVIOUS
<1>3. /\ g.do = "mineUntil" /\ v[g.item] >= g.want /\ Holds(v, r, Reached(f), f) /\ Sanded(v, r, f, g)
      /\ Awaited(f, g, r)
  BY <1>1, <1>2
<1>4. CASE f.at = "answered" /\ f.then = "dirt" /\ g.item = "cobblestone" /\ g.want = r["cobblestone"]
  <2>1. Holds(v, r, "stone", f)
    BY <1>3, <1>4 DEF Reached
  <2>2. Has(v, r, {"cobblestone"})
    BY <1>3, <1>4 DEF Has
  <2>3. Holds(v, r, "dirt", f)
    BY <2>1, <2>2 DEF Holds, PastStore, PastOak, PastStone, PastDirt
  <2> QED  BY <1>2, <1>4, <2>3
<1>5. CASE f.at = "answered" /\ f.then = "sand" /\ g.item = "dirt" /\ g.want = r["dirt"]
  <2>1. Holds(v, r, "dirt", f)
    BY <1>3, <1>5 DEF Reached
  <2>2. Has(v, r, {"dirt"})
    BY <1>3, <1>5 DEF Has
  <2>3. Holds(v, r, "sand", f)
    BY <2>1, <2>2 DEF Holds, PastStore, PastOak, PastStone, PastDirt
  <2> QED  BY <1>2, <1>5, <2>3
<1>6. CASE f.at = "answered" /\ f.then = "fueltool" /\ g.item = "sand"
  <2>1. Holds(v, r, "sand", f)
    BY <1>3, <1>6 DEF Reached
  <2>2. v["sand"] >= SandOf(v, r)
    BY <1>3, <1>6 DEF Sanded
  <2>3. Holds(v, r, "fueltool", f)
    BY <2>1, <2>2 DEF Holds, PastStore, PastOak, PastStone, PastDirt
  <2> QED  BY <1>2, <1>6, <2>3
<1>7. CASE f.at = "answered" /\ f.then = "smelt"
  BY <1>2, <1>3, <1>7 DEF Reached
<1> QED  BY <1>3, <1>4, <1>5, <1>6, <1>7 DEF Awaited
LEMMA RetrieveBeginsKeeps == ASSUME Going, RetrieveBegins PROVE Course'
<1>1. stack # <<>> /\ Len(stack) >= 2 /\ Top.do = "retrieveItem" /\ Top \in RetrieveFrames /\ Still
  BY LeafTop, TopByName, ThinksStill DEF RetrieveBegins, Going
<1>2. \A held, have : LET g == [Top EXCEPT !.at = "next", !.todo = held, !.have = have]
                      IN g.do = "retrieveItem" /\ g.item = Top.item /\ g.want = Top.want /\ g.at = "next"
  BY <1>1 DEF RetrieveFrames
<1>3. \A held, have : Goes([Top EXCEPT !.at = "next", !.todo = held, !.have = have]) => Course'
  BY <1>1, <1>2, StillGoes DEF Knows
<1>4. \A code : Answer(code) => Course'
  BY <1>1, PlainAnswers
<1> QED  BY <1>3, <1>4 DEF RetrieveBegins

LEMMA RetrieveNextKeeps == ASSUME Going, RetrieveNext PROVE Course'
<1>1. stack # <<>> /\ Len(stack) >= 2 /\ Top.do = "retrieveItem" /\ Top \in RetrieveFrames /\ Still
  BY LeafTop, TopByName, ThinksStill DEF RetrieveNext, Going
<1>2. Top.have \in Int /\ Top.want \in Int
  BY <1>1 DEF RetrieveFrames
<1>3. \A c : LET g == [Top EXCEPT !.at = "open", !.todo = @ \ {c}, !.except = c]
             IN g.do = "retrieveItem" /\ g.item = Top.item /\ g.want = Top.want /\ g.have = Top.have
  BY <1>1 DEF RetrieveFrames
<1>4. ASSUME ~(Top.have >= Top.want), NEW c, Goes([Top EXCEPT !.at = "open", !.todo = @ \ {c}, !.except = c])
      PROVE  Course'
  <2>1. Knows(inv, [Top EXCEPT !.at = "open", !.todo = @ \ {c}, !.except = c])
    BY <1>2, <1>3, <1>4 DEF Knows
  <2> QED  BY <1>1, <1>3, <1>4, <2>1, StillGoes
<1>5. \A code : Answer(code) => Course'
  BY <1>1, PlainAnswers
<1> QED  BY <1>4, <1>5 DEF RetrieveNext

LEMMA RetrieveTakesKeeps == ASSUME Going, RetrieveTakes PROVE Course'
<1>1. /\ stack # <<>> /\ Len(stack) >= 2 /\ Top.do = "retrieveItem" /\ Top.at = "open" /\ Top \in RetrieveFrames
      /\ scene' = scene /\ ground' = ground
  BY LeafTop, TopByName DEF RetrieveTakes, Going, Surroundings
<1>2. Len(stack) = 2 /\ Awaited(stack[1], Top, scene.req) /\ Knows(inv, Top)
  BY <1>1, Tops
<1>3. Top.item \in Items /\ Top.have \in Int /\ Top.want \in Int /\ Top.except \in Chests /\ Top.have < Top.want
  BY <1>1, <1>2 DEF RetrieveFrames, Knows
<1>4. chest \in [Chests -> [Items -> Nat]] /\ ground \in [Blocks -> Int] /\ inv \in [Items -> Int]
  BY ToolsAre DEF Going, Course
<1>5. PICK n : n = Least(Top.want - Top.have, chest[Top.except][Top.item])
  OBVIOUS
<1>6. n \in Nat /\ n <= chest[Top.except][Top.item]
  <2>1. chest[Top.except][Top.item] \in Nat
    BY <1>3, <1>4
  <2> QED  BY <1>3, <1>5, <2>1 DEF Least
<1>7. /\ inv' = [inv EXCEPT ![Top.item] = @ + n]
      /\ chest' = [chest EXCEPT ![Top.except][Top.item] = @ - n]
      /\ Goes([Top EXCEPT !.at = "next", !.have = IF n > 0 THEN inv'[Top.item] ELSE @])
  BY <1>5 DEF RetrieveTakes
<1>8. inv' \in [Items -> Int] /\ \A i \in Items : inv'[i] >= inv[i]
  BY <1>3, <1>4, <1>6, <1>7
<1>9. chest' \in [Chests -> [Items -> Nat]]
  <2>1. PICK c, i : c = Top.except /\ i = Top.item
    OBVIOUS
  <2>2. chest[c] \in [Items -> Nat] /\ chest[c][i] - n \in Nat
    BY <1>3, <1>4, <1>6, <2>1
  <2>3. [chest[c] EXCEPT ![i] = @ - n] \in [Items -> Nat]
    BY <2>2
  <2>4. chest' = [chest EXCEPT ![c] = [chest[c] EXCEPT ![i] = @ - n]]
    BY <1>7, <2>1
  <2> QED  BY <1>4, <2>3, <2>4
<1>10. Moves
  <2>1. \A t \in Tools : inv'[t] >= inv[t]
    BY <1>8, ToolsAre DEF Going
  <2> QED  BY <1>1, <1>4, <1>9, <2>1 DEF Moves
<1> DEFINE g == [Top EXCEPT !.at = "next", !.have = IF n > 0 THEN inv'[Top.item] ELSE @]
<1>11. g.do = Top.do /\ g.do = "retrieveItem" /\ g.at = "next" /\ g.item = Top.item /\ g.want = Top.want
  BY <1>1 DEF RetrieveFrames
<1>12. Goes(g)
  BY <1>7
<1>13. stack[1].at = "answered" /\ stack[1].then = "store"
  BY <1>1, <1>2 DEF Awaited
<1>14. Holds(inv', scene.req, Reached(stack[1]), stack[1])
  BY <1>13 DEF Reached, Holds, PastStore, PastOak, PastStone, PastDirt
<1> HIDE DEF g
<1>15. Knows(inv', g) /\ Sanded(inv', scene.req, stack[1], g)
  BY <1>11 DEF Knows, Sanded
<1> QED  BY <1>1, <1>8, <1>10, <1>11, <1>12, <1>14, <1>15, LeafGoesOn

LEMMA MineBeginsKeeps == ASSUME Going, MineBegins PROVE Course'
<1>1. stack # <<>> /\ Len(stack) >= 2 /\ Top.do = "mineUntil" /\ Top \in MineFrames /\ Still
  BY LeafTop, TopByName, ThinksStill DEF MineBegins, Going
<1> DEFINE g == [Top EXCEPT !.at = "next", !.first = inv[Top.item], !.have = inv[Top.item]]
<1>2. g.do = "mineUntil" /\ g.item = Top.item /\ g.want = Top.want /\ g.have = inv[Top.item]
  BY <1>1 DEF MineFrames
<1>3. Goes(g) => Course'
  <2> HIDE DEF g
  <2>1. Knows(inv, g)
    BY <1>2 DEF Knows
  <2> QED  BY <1>1, <1>2, <2>1, StillGoes
<1>4. Answer("INVENTORY_FULL") => Course'
  BY <1>1, PlainAnswers
<1>5. inv[Top.item] >= Top.want /\ Answer("OK") => Course'
  BY <1>1, MinedIs, StillAnswers
<1> QED  BY <1>3, <1>4, <1>5 DEF MineBegins

LEMMA MineNextKeeps == ASSUME Going, MineNext PROVE Course'
<1>1. /\ stack # <<>> /\ Len(stack) >= 2 /\ Top.do = "mineUntil" /\ Top.at = "next" /\ Top \in MineFrames
      /\ Still
  BY LeafTop, TopByName, ThinksStill DEF MineNext, Going
<1> DEFINE g == [Top EXCEPT !.at = "collect"]
<1>2. /\ g.do = "mineUntil" /\ g.item = Top.item /\ g.want = Top.want /\ g.have = Top.have /\ Top.block \in Blocks
  BY <1>1 DEF MineFrames
<1>3. Top.have = inv[Top.item]
  BY <1>1, Tops DEF Knows
<1>4. GoesTo("collect") => Course'
  <2>1. GoesTo("collect") => Goes(g)
    BY DEF GoesTo
  <2> HIDE DEF g
  <2>2. Knows(inv, g)
    BY <1>2, <1>3 DEF Knows
  <2> QED  BY <1>1, <1>2, <2>1, <2>2, StillGoes
<1>5. Answer("INTERRUPTED") \/ Answer("NO_BLOCK_FOUND") => Course'
  BY <1>1, PlainAnswers
<1>6. Top.have >= Top.want /\ Answer("OK") => Course'
  BY <1>1, <1>3, MinedIs, StillAnswers
<1>7. ASSUME ground[Top.block] = 0, Answer("OK")
      PROVE  Course'
  <2>1. ~Fair
    BY <1>2, <1>7 DEF Fair, Undisturbed
  <2> QED  BY <1>1, <1>7, <2>1, StillAnswers
<1> QED  BY <1>4, <1>5, <1>6, <1>7 DEF MineNext

LEMMA MineCollectsKeeps == ASSUME Going, MineCollects PROVE Course'
<1>1. /\ stack # <<>> /\ Len(stack) >= 2 /\ Top.do = "mineUntil" /\ Top.at = "collect" /\ Top \in MineFrames
      /\ scene' = scene /\ chest' = chest
  BY LeafTop, TopByName DEF MineCollects, Going, Surroundings
<1>2. inv' = [inv EXCEPT ![Top.item] = @ + 1]
  BY <1>1, NotAtFault DEF MineCollects
<1>3. Top.item \in Items /\ Top.block \in Blocks /\ Top.want \in Int
  BY <1>1 DEF MineFrames
<1>4. /\ chest \in [Chests -> [Items -> Nat]] /\ ground \in [Blocks -> Int] /\ inv \in [Items -> Int]
      /\ scene.req \in [Items -> Nat]
  BY ToolsAre DEF Going, Course
<1>5. ground' \in [Blocks -> Int] /\ \A b \in Blocks : ground'[b] <= ground[b]
  BY <1>3, <1>4 DEF MineCollects
<1>6. /\ inv' \in [Items -> Int] /\ (\A i \in Items : inv'[i] >= inv[i])
      /\ (\A i \in Items \ {Top.item} : inv'[i] = inv[i])
  BY <1>2, <1>3, <1>4
<1>7. Moves
  <2>1. \A t \in Tools : inv'[t] >= inv[t]
    BY <1>6, ToolsAre DEF Going
  <2> QED  BY <1>1, <1>4, <1>5, <2>1 DEF Moves
<1>8. Len(stack) = 2 /\ Awaited(stack[1], Top, scene.req)
  BY <1>1, Tops
<1>9. Top.item \in {"cobblestone", "dirt", "sand", "coal"}
  BY <1>1, <1>8 DEF Awaited
<1> DEFINE g == [Top EXCEPT !.at = "next", !.have = inv'[Top.item]]
<1>10. g.do = Top.do /\ g.do = "mineUntil" /\ g.item = Top.item /\ g.want = Top.want /\ g.have = inv'[Top.item]
  BY <1>1 DEF MineFrames
<1>11. Goes(g)
  BY DEF MineCollects
<1> HIDE DEF g
<1>12. Knows(inv', g)
  BY <1>10 DEF Knows
<1>13. inv'["oak_planks"] = inv["oak_planks"] /\ inv'["oak_door"] = inv["oak_door"] /\ inv'["glass"] = inv["glass"]
  BY <1>6, <1>9, ProvisionsAssumption
<1>14. ASSUME Fair
       PROVE  Holds(inv', scene.req, Reached(stack[1]), stack[1]) /\ Sanded(inv', scene.req, stack[1], g)
  <2>1. Holds(inv, scene.req, Reached(stack[1]), stack[1]) /\ Sanded(inv, scene.req, stack[1], Top)
    BY <1>1, <1>14, Bottom DEF Going, Course, Reckons
  <2>2. Holds(inv', scene.req, Reached(stack[1]), stack[1])
    BY <1>4, <1>6, <1>13, <2>1, HoldsGrows
  <2>3. Sanded(inv', scene.req, stack[1], g)
    BY <1>10, <1>13, <2>1 DEF Sanded, SandOf
  <2> QED  BY <2>2, <2>3
<1> QED  BY <1>1, <1>6, <1>7, <1>10, <1>11, <1>12, <1>14, LeafGoesOn

LEMMA ChopGoesOn ==
  ASSUME Going, stack # <<>>, Len(stack) >= 2, Top.do = "chopTrees",
         Still \/ (UNCHANGED <<scene, chest, ground>> /\ inv' = [inv EXCEPT !["oak_log"] = @ + 1]),
         NEW p, GoesTo(p)
  PROVE  Course'
<1>1. /\ chest \in [Chests -> [Items -> Nat]] /\ ground \in [Blocks -> Int] /\ inv \in [Items -> Int]
      /\ scene.req \in [Items -> Nat]
  BY ToolsAre DEF Going, Course
<1>2. /\ inv' \in [Items -> Int] /\ (\A i \in Items : inv'[i] >= inv[i])
      /\ (\A i \in Items \ {"oak_log"} : inv'[i] = inv[i])
  <2>1. CASE Still
    BY <1>1, <2>1 DEF Still
  <2>2. CASE inv' = [inv EXCEPT !["oak_log"] = @ + 1]
    <3>1. "oak_log" \in Items
      BY ProvisionsAssumption
    <3> QED  BY <1>1, <2>2, <3>1
  <2> QED  BY <2>1, <2>2
<1>3. Moves
  <2>1. \A t \in Tools : inv'[t] >= inv[t]
    BY <1>2, ToolsAre DEF Going
  <2> QED  BY <1>1, <2>1 DEF Moves, Still
<1> DEFINE g == [Top EXCEPT !.at = p]
<1>4. g.do = "chopTrees" /\ g.item = Top.item /\ g.want = Top.want
  BY TopByName DEF Going, ChopFrames
<1>5. Goes(g)
  BY DEF GoesTo
<1> HIDE DEF g
<1>6. Knows(inv', g) /\ Sanded(inv', scene.req, stack[1], g)
  BY <1>4 DEF Knows, Sanded
<1>7. Fair => Holds(inv', scene.req, Reached(stack[1]), stack[1])
  <2>1. Fair => Holds(inv, scene.req, Reached(stack[1]), stack[1])
    BY DEF Going, Course, Reckons
  <2>2. inv'["oak_planks"] = inv["oak_planks"] /\ inv'["oak_door"] = inv["oak_door"] /\ inv'["glass"] = inv["glass"]
    BY <1>2, ProvisionsAssumption
  <2> QED  BY <1>1, <1>2, <2>1, <2>2, HoldsGrows
<1> QED  BY <1>2, <1>3, <1>4, <1>5, <1>6, <1>7, LeafGoesOn

LEMMA ChopBeginsKeeps == ASSUME Going, ChopBegins PROVE Course'
<1>1. stack # <<>> /\ Len(stack) >= 2 /\ Top.do = "chopTrees" /\ Still
  BY LeafTop, ThinksStill DEF ChopBegins
<1>2. \A code : Answer(code) => Course'
  BY <1>1, PlainAnswers
<1> QED  BY <1>1, <1>2, ChopGoesOn DEF ChopBegins

LEMMA ChopNextKeeps == ASSUME Going, ChopNext PROVE Course'
<1>1. stack # <<>> /\ Len(stack) >= 2 /\ Top.do = "chopTrees" /\ Still
  BY LeafTop DEF ChopNext, Still, Surroundings
<1>2. \A code : Answer(code) => Course'
  BY <1>1, PlainAnswers
<1> QED  BY <1>1, <1>2, ChopGoesOn DEF ChopNext

LEMMA ChopCollectsKeeps == ASSUME Going, ChopCollects PROVE Course'
<1>1. /\ stack # <<>> /\ Len(stack) >= 2 /\ Top.do = "chopTrees" /\ UNCHANGED <<scene, chest, ground>>
      /\ GoesTo("next")
  BY LeafTop DEF ChopCollects, Surroundings
<1>2. inv' = [inv EXCEPT !["oak_log"] = @ + 1]
  BY <1>1, NotAtFault DEF ChopCollects
<1> QED  BY <1>1, <1>2, ChopGoesOn

LEMMA CollectFailsKeeps == ASSUME Going, CollectFails PROVE Course'
<1>1. stack # <<>> /\ Len(stack) >= 2 /\ Still
  BY LeafTop DEF CollectFails, Still, world, Surroundings
<1>2. Answer("INTERRUPTED")
  BY <1>1, NotAtFault DEF CollectFails, Still
<1> QED  BY <1>1, <1>2, PlainAnswers

(* A walk stops; the containers are left to the other skills.              *)
LEMMA WalksKeep ==
  ASSUME Going, RetrieveFails \/ WalkStops \/ WalkFails \/ WalkBegins \/ Indexed \/ DepositOpens \/ DepositNext
                \/ DepositPuts \/ DepositFails
  PROVE  Course'
<1>1. ~RetrieveFails /\ ~WalkFails /\ ~DepositFails
  BY NotAtFault DEF RetrieveFails, WalkFails, DepositFails, Surroundings
<1>2. ASSUME Runs("scanContainer", Top.at) \/ Runs("chestDeposit", Top.at)
      PROVE  FALSE
  BY <1>2, LeafTop, Tops
<1>3. ~(WalkBegins \/ Indexed \/ DepositOpens \/ DepositNext \/ DepositPuts)
  BY <1>2 DEF WalkBegins, Indexed, DepositOpens, DepositNext, DepositPuts, Runs
<1>4. ASSUME WalkStops
      PROVE  Course'
  <2>1. stack # <<>> /\ Top.do # "prepare" /\ Still /\ Answer("INTERRUPTED")
    BY <1>4, ThinksStill DEF WalkStops, Walks, Interrupted
  <2>2. Len(stack) >= 2
    BY <2>1, LeafTop DEF Runs
  <2> QED  BY <2>1, <2>2, PlainAnswers
<1> QED  BY <1>1, <1>3, <1>4
-----------------------------------------------------------------------------
(***************************************************************************)
(* Crafting.                                                               *)
(***************************************************************************)
LEMMA CraftBeginsKeeps == ASSUME Going, CraftBegins \/ CraftAtTable PROVE Course'
<1>1. stack # <<>> /\ Len(stack) >= 2 /\ Top.do = "craftItem" /\ Top \in CraftFrames /\ Still /\ Knows(inv, Top)
      /\ Top.at \in {"call", "table"}
  BY LeafTop, TopByName, ThinksStill, Tops DEF CraftBegins, CraftAtTable, Going
<1>2. \A code : Answer(code) => Course'
  BY <1>1, PlainAnswers
<1>3. inv[Top.item] \in Int /\ Top.want \in Int
  BY <1>1, RecipeIs DEF CraftFrames, Going, ProvInv, Stocked
<1>4. ASSUME NEW p, GoesTo(p), inv[Top.item] < Top.want
      PROVE  Course'
  <2> DEFINE g == [Top EXCEPT !.at = p]
  <2>1. g.do = "craftItem" /\ g.item = Top.item /\ g.want = Top.want /\ Goes(g)
    BY <1>1, <1>4 DEF CraftFrames, GoesTo
  <2> HIDE DEF g
  <2>2. Knows(inv, g)
    BY <1>4, <2>1 DEF Knows
  <2> QED  BY <1>1, <2>1, <2>2, StillGoes
<1>5. CASE CraftBegins
  <2>1. CASE CraftDeficit <= 0
    BY <1>2, <1>5, <2>1 DEF CraftBegins
  <2>2. CASE ~(CraftDeficit <= 0)
    <3>1. inv[Top.item] < Top.want
      BY <1>3, <2>2 DEF CraftDeficit
    <3> QED  BY <1>2, <1>4, <1>5, <2>2, <3>1 DEF CraftBegins
  <2> QED  BY <2>1, <2>2
<1>6. CASE CraftAtTable
  <2>1. inv[Top.item] < Top.want
    BY <1>1, <1>6 DEF CraftAtTable, Runs, Knows
  <2> QED  BY <1>2, <1>4, <1>6, <2>1 DEF CraftAtTable
<1> QED  BY <1>5, <1>6

LEMMA NothingIs == \A i \in Items : Nothing[i] = 0
  BY DEF Nothing

LEMMA CraftedPlanks ==
  ASSUME ProvInv, Top.item = "oak_planks", NEW n \in Int
  PROVE  /\ Crafted(n)["oak_log"] = inv["oak_log"] - n
         /\ Crafted(n)["oak_planks"] = inv["oak_planks"] + 4 * n
         /\ \A i \in Items \ {"oak_log", "oak_planks"} : Crafted(n)[i] = inv[i]
<1>1. inv \in [Items -> Int] /\ {"oak_log", "oak_planks"} \subseteq Items
  BY ProvisionsAssumption DEF ProvInv, Stocked
<1>2. PICK u : u = Recipe("oak_planks").uses
  OBVIOUS
<1>3. u = [Nothing EXCEPT !["oak_log"] = 1] /\ Recipe("oak_planks").makes = 4
  BY <1>2 DEF Recipe
<1>4. Nothing \in [Items -> Int]
  BY DEF Nothing
<1>5. u["oak_log"] = 1 /\ \A i \in Items \ {"oak_log"} : u[i] = 0
  BY <1>1, <1>3, <1>4, NothingIs
<1>6. \A i \in Items : Crafted(n)[i] = inv[i] - n * u[i] + IF i = "oak_planks" THEN n * Recipe(i).makes ELSE 0
  BY <1>2 DEF Crafted
<1>7. \A i \in Items : inv[i] \in Int
  BY <1>1
<1>8. n * 1 = n /\ n * 0 = 0 /\ n * 4 = 4 * n
  OBVIOUS
<1>9. Crafted(n)["oak_log"] = inv["oak_log"] - n
  BY <1>1, <1>5, <1>6, <1>7, <1>8
<1>10. Crafted(n)["oak_planks"] = inv["oak_planks"] + 4 * n
  BY <1>1, <1>3, <1>5, <1>6, <1>7, <1>8
<1>11. ASSUME NEW i \in Items \ {"oak_log", "oak_planks"}
       PROVE  Crafted(n)[i] = inv[i]
  BY <1>5, <1>6, <1>7, <1>8
<1> QED  BY <1>9, <1>10, <1>11

LEMMA CraftedDoors ==
  ASSUME ProvInv, Top.item = "oak_door", NEW n \in Int
  PROVE  /\ Crafted(n)["oak_planks"] = inv["oak_planks"] - 6 * n
         /\ Crafted(n)["oak_door"] = inv["oak_door"] + 3 * n
         /\ \A i \in Items \ {"oak_planks", "oak_door"} : Crafted(n)[i] = inv[i]
<1>1. inv \in [Items -> Int] /\ {"oak_planks", "oak_door"} \subseteq Items
  BY ProvisionsAssumption DEF ProvInv, Stocked
<1>2. PICK u : u = Recipe("oak_door").uses
  OBVIOUS
<1>3. u = [Nothing EXCEPT !["oak_planks"] = 6] /\ Recipe("oak_door").makes = 3
  BY <1>2 DEF Recipe
<1>4. Nothing \in [Items -> Int]
  BY DEF Nothing
<1>5. u["oak_planks"] = 6 /\ \A i \in Items \ {"oak_planks"} : u[i] = 0
  BY <1>1, <1>3, <1>4, NothingIs
<1>6. \A i \in Items : Crafted(n)[i] = inv[i] - n * u[i] + IF i = "oak_door" THEN n * Recipe(i).makes ELSE 0
  BY <1>2 DEF Crafted
<1>7. \A i \in Items : inv[i] \in Int
  BY <1>1
<1>8. n * 6 = 6 * n /\ n * 0 = 0 /\ n * 3 = 3 * n
  OBVIOUS
<1>9. Crafted(n)["oak_planks"] = inv["oak_planks"] - 6 * n
  BY <1>1, <1>5, <1>6, <1>7, <1>8
<1>10. Crafted(n)["oak_door"] = inv["oak_door"] + 3 * n
  BY <1>1, <1>3, <1>5, <1>6, <1>7, <1>8
<1>11. ASSUME NEW i \in Items \ {"oak_planks", "oak_door"}
       PROVE  Crafted(n)[i] = inv[i]
  BY <1>5, <1>6, <1>7, <1>8
<1> QED  BY <1>9, <1>10, <1>11

LEMMA CraftedTool ==
  ASSUME ProvInv, NEW t \in Tools, Top.item = t, NEW n \in Int
  PROVE  Crafted(n)[t] = inv[t] + n /\ \A i \in Tools \ {t} : Crafted(n)[i] = inv[i]
<1>1. inv \in [Items -> Int] /\ Tools \subseteq Items /\ {"cobblestone", "oak_planks", "stick"} \subseteq Items
  BY ProvisionsAssumption DEF ProvInv, Stocked, Tools
<1>2. PICK u : u = Recipe(t).uses
  OBVIOUS
<1>3. Nothing \in [Items -> Int]
  BY DEF Nothing
<1>4. Recipe(t).makes = 1 /\ \A i \in Tools : u[i] = 0
  <2>1. CASE t = "stone_pickaxe"
    <3>1. u = [Nothing EXCEPT !["cobblestone"] = 3, !["stick"] = 2] /\ Recipe(t).makes = 1
      BY <1>2, <2>1 DEF Recipe
    <3>2. \A i \in Tools : i \in Items /\ i \notin {"cobblestone", "stick"}
      BY <1>1 DEF Tools
    <3> QED  BY <1>3, <3>1, <3>2, NothingIs
  <2>2. CASE t = "wooden_pickaxe"
    <3>1. u = [Nothing EXCEPT !["oak_planks"] = 3, !["stick"] = 2] /\ Recipe(t).makes = 1
      BY <1>2, <2>2 DEF Recipe
    <3>2. \A i \in Tools : i \in Items /\ i \notin {"oak_planks", "stick"}
      BY <1>1 DEF Tools
    <3> QED  BY <1>3, <3>1, <3>2, NothingIs
  <2> QED  BY <2>1, <2>2 DEF Tools
<1>5. \A i \in Items : Crafted(n)[i] = inv[i] - n * u[i] + IF i = t THEN n * Recipe(i).makes ELSE 0
  BY <1>2 DEF Crafted
<1>6. \A i \in Tools : i \in Items /\ inv[i] \in Int
  BY <1>1
<1>7. n * 1 = n /\ n * 0 = 0
  OBVIOUS
<1>8. Crafted(n)[t] = inv[t] + n
  BY <1>4, <1>5, <1>6, <1>7
<1>9. ASSUME NEW i \in Tools \ {t}
      PROVE  Crafted(n)[i] = inv[i]
  BY <1>4, <1>5, <1>6, <1>7
<1> QED  BY <1>8, <1>9

(* The arithmetic of batches.                                              *)
LEMMA BatchIs ==
  ASSUME NEW d \in Int, d > 0
  PROVE  /\ Upwards(d, 1) \in Int /\ Upwards(d, 1) >= 1
         /\ Upwards(d, 3) \in Int /\ Upwards(d, 3) >= 1 /\ 3 * Upwards(d, 3) >= d
         /\ Upwards(d, 4) \in Int /\ Upwards(d, 4) >= 1 /\ 4 * Upwards(d, 4) >= d
         /\ Upwards(0, 3) = 0 /\ Upwards(0, 4) = 0
  BY DEF Upwards

LEMMA HoldsPlanked ==
  ASSUME NEW v \in [Items -> Int], NEW w \in [Items -> Int], NEW r \in [Items -> Nat], NEW f, NEW n,
         v["oak_planks"] < f.planks, n = Upwards(f.planks - v["oak_planks"], 4),
         w["oak_log"] = v["oak_log"] - n, w["oak_planks"] = v["oak_planks"] + 4 * n,
         \A i \in Items \ {"oak_log", "oak_planks"} : w[i] = v[i],
         Holds(v, r, "planked", f)
  PROVE  Holds(w, r, "planked", f)
<1>1. /\ f.planks = PlanksOf(v, r) /\ v["oak_log"] >= LogsOf(v, r) /\ Has(v, r, Given)
  BY DEF Holds, PastStore
<1>2. {"oak_log", "oak_planks", "oak_door"} \subseteq Items /\ PlanksOf(v, r) \in Int
  BY NumbersIn
<1>3. /\ v["oak_planks"] \in Int /\ v["oak_log"] \in Int /\ r["oak_log"] \in Int
      /\ w["oak_door"] = v["oak_door"]
  BY <1>2
<1>4. n \in Int /\ 4 * n >= f.planks - v["oak_planks"]
  BY <1>1, <1>2, <1>3, BatchIs
<1>5. LogsOf(v, r) = r["oak_log"] + n
  BY <1>1, <1>2, <1>3 DEF LogsOf, Most
<1>6. PlanksOf(w, r) = PlanksOf(v, r)
  BY <1>3 DEF PlanksOf
<1>7. Most(0, PlanksOf(w, r) - w["oak_planks"]) = 0
  BY <1>1, <1>2, <1>3, <1>4, <1>6 DEF Most
<1>8. LogsOf(w, r) = r["oak_log"]
  BY <1>3, <1>7, BatchIs DEF LogsOf, Upwards
<1>9. w["oak_log"] >= LogsOf(w, r)
  BY <1>1, <1>3, <1>4, <1>5, <1>8
<1>10. Has(w, r, Given)
  BY <1>1 DEF Has, Given, Automatic
<1> QED  BY <1>1, <1>6, <1>9, <1>10 DEF Holds, PastStore, PastOak, PastStone, PastDirt

LEMMA HoldsDoored ==
  ASSUME NEW v \in [Items -> Int], NEW w \in [Items -> Int], NEW r \in [Items -> Nat], NEW f, NEW n,
         v["oak_door"] < r["oak_door"], n = Upwards(r["oak_door"] - v["oak_door"], 3),
         w["oak_planks"] = v["oak_planks"] - 6 * n, w["oak_door"] = v["oak_door"] + 3 * n,
         \A i \in Items \ {"oak_planks", "oak_door"} : w[i] = v[i],
         Holds(v, r, "doored", f)
  PROVE  Holds(w, r, "doored", f)
<1>1. /\ v["oak_log"] >= r["oak_log"] /\ v["oak_planks"] >= PlanksOf(v, r) /\ Has(v, r, Given)
  BY DEF Holds, PastStore
<1>2. {"oak_log", "oak_planks", "oak_door"} \subseteq Items
  BY NumbersIn
<1>3. /\ v["oak_planks"] \in Int /\ v["oak_door"] \in Int /\ r["oak_door"] \in Int /\ r["oak_planks"] \in Int
      /\ w["oak_log"] = v["oak_log"]
  BY <1>2
<1>4. n \in Int /\ 3 * n >= r["oak_door"] - v["oak_door"]
  BY <1>3, BatchIs
<1>5. PlanksOf(v, r) = r["oak_planks"] + 6 * n
  BY <1>3 DEF PlanksOf, Most
<1>6. Most(0, r["oak_door"] - w["oak_door"]) = 0
  BY <1>3, <1>4 DEF Most
<1>7. PlanksOf(w, r) = r["oak_planks"]
  BY <1>3, <1>6 DEF PlanksOf, Upwards
<1>8. w["oak_planks"] >= PlanksOf(w, r)
  BY <1>1, <1>3, <1>4, <1>5, <1>7
<1>9. Has(w, r, Given)
  BY <1>1 DEF Has, Given, Automatic
<1> QED  BY <1>1, <1>3, <1>8, <1>9 DEF Holds, PastStore, PastOak, PastStone, PastDirt
LEMMA CraftDoneKeeps == ASSUME Going, CraftDone PROVE Course'
<1>1. /\ stack # <<>> /\ Len(stack) >= 2 /\ Top.do = "craftItem" /\ Top.at = "craft" /\ Top \in CraftFrames
      /\ scene' = scene /\ chest' = chest /\ ground' = ground /\ Answer("OK")
  BY LeafTop, TopByName DEF CraftDone, Going, Surroundings
<1>2. Knows(inv, Top) /\ Len(stack) \in 2 .. 3
  BY <1>1, Tops
<1>3. /\ chest \in [Chests -> [Items -> Nat]] /\ ground \in [Blocks -> Int] /\ inv \in [Items -> Int]
      /\ scene.req \in [Items -> Nat] /\ Tools \subseteq Items
  BY ToolsAre DEF Going, Course
<1>4. Top.item \in Craftable /\ Top.item \in Items /\ Top.want \in Int /\ inv[Top.item] \in Int
      /\ inv[Top.item] < Top.want
  BY <1>1, <1>2, <1>3, RecipeIs DEF CraftFrames, Knows
<1>5. PICK n : n = CraftCount
  OBVIOUS
<1>6. inv' = Crafted(n) /\ n \in Int
  BY <1>1, <1>5, CraftCountIs DEF CraftDone, Going
<1>7. inv' \in [Items -> Int]
  BY <1>1, <1>6, CraftedIs DEF Going
<1>8. n = Upwards(Top.want - inv[Top.item], Recipe(Top.item).makes) /\ Top.want - inv[Top.item] \in Int
      /\ Top.want - inv[Top.item] > 0
  BY <1>4, <1>5 DEF CraftCount, CraftDeficit
<1>9. CASE Len(stack) = 3
  <2>1. Top.item \in Tools
    BY <1>1, <1>9, Tops
  <2>2. Recipe(Top.item).makes = 1
    BY <2>1 DEF Tools, Recipe
  <2>3. n >= 1
    BY <1>8, <2>2, BatchIs
  <2>4. inv'[Top.item] = inv[Top.item] + n /\ \A t \in Tools \ {Top.item} : inv'[t] = inv[t]
    BY <1>6, <2>1, CraftedTool DEF Going
  <2>5. \A t \in Tools : inv'[t] >= inv[t]
    BY <1>3, <1>4, <1>6, <2>1, <2>3, <2>4
  <2>6. Moves
    BY <1>1, <1>3, <2>5 DEF Moves
  <2>7. ~Fair'
    <3>1. inv[Top.item] >= scene.inv[Top.item] /\ scene.inv[Top.item] \in Int
      BY <2>1, ToolsAre DEF Going, Course
    <3>2. PICK t : t = Top.item
      OBVIOUS
    <3>3. inv'[t] # scene.inv[t] /\ t \in Tools
      BY <1>4, <1>6, <2>1, <2>3, <2>4, <3>1, <3>2
    <3> QED  BY <1>1, <3>3 DEF Fair, Undisturbed
  <2> QED  BY <1>1, <1>7, <2>6, <2>7, LeafAnswers
<1>10. CASE Len(stack) = 2
  <2>1. Awaited(stack[1], Top, scene.req)
    BY <1>1, <1>10, Tops
  <2>2. /\ \/ stack[1].at = "planked" /\ Top.item = "oak_planks" /\ Top.want = stack[1].planks
           \/ stack[1].at = "doored" /\ Top.item = "oak_door" /\ Top.want = scene.req["oak_door"]
        /\ Reached(stack[1]) = stack[1].at
    BY <1>1, <2>1 DEF Awaited, Reached
  <2>3. Fair => Holds(inv, scene.req, stack[1].at, stack[1])
    BY <1>1, <2>2 DEF Going, Course, Reckons
  <2>4. \A t \in Tools : t \in Items /\ t \notin {"oak_log", "oak_planks", "oak_door"}
    BY <1>3 DEF Tools
  <2>5. CASE stack[1].at = "planked"
    <3>1. Top.item = "oak_planks" /\ Top.want = stack[1].planks /\ Recipe(Top.item).makes = 4
      BY <2>2, <2>5 DEF Recipe
    <3>2. /\ inv'["oak_log"] = inv["oak_log"] - n /\ inv'["oak_planks"] = inv["oak_planks"] + 4 * n
          /\ \A i \in Items \ {"oak_log", "oak_planks"} : inv'[i] = inv[i]
      BY <1>6, <3>1, CraftedPlanks DEF Going
    <3>3. Moves
      <4>1. \A t \in Tools : inv'[t] >= inv[t]
        BY <1>3, <2>4, <3>2
      <4> QED  BY <1>1, <1>3, <4>1 DEF Moves
    <3>4. Fair => Holds(inv', scene.req, "planked", stack[1])
      <4>1. inv["oak_planks"] < stack[1].planks /\ n = Upwards(stack[1].planks - inv["oak_planks"], 4)
        BY <1>4, <1>8, <3>1
      <4> QED  BY <1>3, <1>7, <2>3, <2>5, <3>2, <4>1, HoldsPlanked
    <3> QED  BY <1>1, <1>7, <2>2, <2>5, <3>3, <3>4, LeafAnswers
  <2>6. CASE stack[1].at = "doored"
    <3>1. Top.item = "oak_door" /\ Top.want = scene.req["oak_door"] /\ Recipe(Top.item).makes = 3
      BY <2>2, <2>6 DEF Recipe
    <3>2. /\ inv'["oak_planks"] = inv["oak_planks"] - 6 * n /\ inv'["oak_door"] = inv["oak_door"] + 3 * n
          /\ \A i \in Items \ {"oak_planks", "oak_door"} : inv'[i] = inv[i]
      BY <1>6, <3>1, CraftedDoors DEF Going
    <3>3. Moves
      <4>1. \A t \in Tools : inv'[t] >= inv[t]
        BY <1>3, <2>4, <3>2
      <4> QED  BY <1>1, <1>3, <4>1 DEF Moves
    <3>4. Fair => Holds(inv', scene.req, "doored", stack[1])
      <4>1. inv["oak_door"] < scene.req["oak_door"] /\ n = Upwards(scene.req["oak_door"] - inv["oak_door"], 3)
        BY <1>4, <1>8, <3>1
      <4> QED  BY <1>3, <1>7, <2>3, <2>6, <3>2, <4>1, HoldsDoored
    <3> QED  BY <1>1, <1>7, <2>2, <2>6, <3>3, <3>4, LeafAnswers
  <2> QED  BY <2>2, <2>5, <2>6
<1> QED  BY <1>2, <1>9, <1>10

LEMMA CraftFallsKeeps == ASSUME Going, CraftFalls PROVE Course'
  BY NotAtFault DEF CraftFalls, Surroundings

-----------------------------------------------------------------------------
(***************************************************************************)
(* Tools.                                                                  *)
(***************************************************************************)
LEMMA EquipsKeep == ASSUME Going, EquipBegins \/ Equips PROVE Course'
<1>1. stack # <<>> /\ Len(stack) >= 2 /\ Top.do = "equipBestTool" /\ Top \in EquipFrames /\ Still
  BY LeafTop, TopByName, ThinksStill DEF EquipBegins, Equips, Going, Still, world, Surroundings
<1>2. \A code : Answer(code) => Course'
  BY <1>1, PlainAnswers
<1>3. ASSUME GoesTo("equip")
      PROVE  Course'
  <2> DEFINE g == [Top EXCEPT !.at = "equip"]
  <2>1. g.do = "equipBestTool" /\ g.item = Top.item /\ g.want = Top.want /\ Goes(g)
    BY <1>1, <1>3 DEF EquipFrames, GoesTo
  <2> HIDE DEF g
  <2>2. Knows(inv, g)
    BY <2>1 DEF Knows
  <2> QED  BY <1>1, <2>1, <2>2, StillGoes
<1> QED  BY <1>2, <1>3 DEF EquipBegins, Equips

LEMMA ToolCalls ==
  ASSUME Going, Still, stack # <<>>, Len(stack) >= 2, Top.do = "ensureTool", NEW f, NEW g, Call(f, g),
         f.do = "ensureTool", g.at = "call", g.do = "equipBestTool" \/ (g.do = "craftItem" /\ g.item \in Tools)
  PROVE  Course'
<1>1. Len(stack) = 2 /\ Awaited(stack[1], Top, scene.req)
  BY Tops
<1>2. Len(stack') = 3 /\ stack' # <<>> /\ stack'[1] = stack[1] /\ stack'[2] = f /\ stack'[3] = g
  BY <1>1, CallTurns DEF Going
<1>3. scene' = scene /\ inv' = inv
  BY DEF Still
<1>4. Chain(stack, inv, scene.req)
  BY DEF Going, Course
<1>5. Awaited(stack[1], f, scene.req)
  BY <1>1 DEF Awaited
<1>6. Chain(stack', inv, scene.req)
  <2>1. Knows(inv, g)
    BY DEF Knows
  <2> QED  BY <1>2, <1>4, <1>5, <2>1 DEF Chain
<1>7. ASSUME Fair'
      PROVE  Reckons(stack', inv, scene.req, result')
  <2>1. Holds(inv, scene.req, Reached(stack[1]), stack[1])
    BY <1>7, MovesOn, StillMoves DEF Going, Course, Reckons
  <2>2. Sanded(inv, scene.req, stack[1], g)
    BY DEF Sanded
  <2> QED  BY <1>2, <2>1, <2>2 DEF Reckons
<1> QED  BY <1>3, <1>6, <1>7, MovesOn, StillMoves DEF Course

LEMMA EnsureToolKeeps == ASSUME Going, EnsureToolStep PROVE Course'
<1>1. stack # <<>> /\ Len(stack) >= 2 /\ Top.do = "ensureTool" /\ Top \in ToolFrames /\ Still
  BY LeafTop, TopByName, ThinksStill DEF EnsureToolStep, Going
<1>2. \A code : Answer(code) => Course'
  BY <1>1, PlainAnswers
<1>3. ASSUME GoesTo("next")
      PROVE  Course'
  <2> DEFINE g == [Top EXCEPT !.at = "next"]
  <2>1. g.do = "ensureTool" /\ g.item = Top.item /\ g.want = Top.want /\ Goes(g)
    BY <1>1, <1>3 DEF ToolFrames, GoesTo
  <2> HIDE DEF g
  <2>2. Knows(inv, g)
    BY <2>1 DEF Knows
  <2> QED  BY <1>1, <2>1, <2>2, StillGoes
<1>4. ASSUME NEW p \in {"equipped", "again"}, Call([Top EXCEPT !.at = p], Equip(Top.item))
      PROVE  Course'
  <2>1. Equip(Top.item).do = "equipBestTool" /\ Equip(Top.item).at = "call"
    BY DEF Equip, Frame
  <2>2. [Top EXCEPT !.at = p].do = "ensureTool"
    BY <1>1 DEF ToolFrames
  <2> QED  BY <1>1, <1>4, <2>1, <2>2, ToolCalls
<1>5. ASSUME Top.todo # <<>>, Call([Top EXCEPT !.at = "crafted", !.todo = Tail(@)], Craft(Head(Top.todo), 1))
      PROVE  Course'
  <2>1. Top.todo \in Seq(Tools)
    BY <1>1 DEF ToolFrames
  <2>2. Head(Top.todo) \in Tools
    BY <1>5, <2>1
  <2>3. /\ Craft(Head(Top.todo), 1).do = "craftItem" /\ Craft(Head(Top.todo), 1).at = "call"
        /\ Craft(Head(Top.todo), 1).item \in Tools
    BY <2>2 DEF Craft, Frame
  <2>4. [Top EXCEPT !.at = "crafted", !.todo = Tail(@)].do = "ensureTool"
    BY <1>1 DEF ToolFrames
  <2> QED  BY <1>1, <1>5, <2>3, <2>4, ToolCalls
<1> QED  BY <1>2, <1>3, <1>4, <1>5 DEF EnsureToolStep

-----------------------------------------------------------------------------
(***************************************************************************)
(* Smelting.                                                               *)
(***************************************************************************)
LEMMA SmeltIs ==
  ASSUME Going, stack # <<>>, Len(stack) >= 2, Top.do = "smeltItem"
  PROVE  /\ Len(stack) = 2 /\ Top \in SmeltFrames /\ Knows(inv, Top)
         /\ stack[1].at = "answered" /\ stack[1].then = "final" /\ Reached(stack[1]) = "sand"
         /\ Top.item = "glass" /\ Top.input = "sand" /\ Top.want = scene.req["glass"]
<1>1. Len(stack) = 2 /\ Awaited(stack[1], Top, scene.req) /\ Knows(inv, Top) /\ Top \in SmeltFrames
  BY Tops, TopByName DEF Going
<1> QED  BY <1>1 DEF Awaited, Reached

(* The glass is there, and the sand that was not for it.                   *)
LEMMA SmeltedIs ==
  ASSUME Going, stack # <<>>, Len(stack) >= 2, Top.do = "smeltItem", inv["glass"] >= scene.req["glass"],
         Holds(inv, scene.req, Reached(stack[1]), stack[1]), Sanded(inv, scene.req, stack[1], Top)
  PROVE  Holds(inv, scene.req, stack[1].then, stack[1])
<1>1. stack[1].then = "final" /\ Reached(stack[1]) = "sand"
  BY SmeltIs
<1>2. PICK f, v, r : f = stack[1] /\ v = inv /\ r = scene.req
  OBVIOUS
<1>3. v \in [Items -> Int] /\ r \in [Items -> Nat] /\ v["glass"] >= r["glass"] /\ Holds(v, r, "sand", f)
  BY <1>1, <1>2, ToolsAre DEF Going
<1>4. v["sand"] >= r["sand"]
  <2>1. {"sand", "glass"} \subseteq Items
    BY NumbersIn, <1>3
  <2>2. v["sand"] \in Int /\ r["sand"] \in Int /\ v["glass"] \in Int /\ r["glass"] \in Int
    BY <1>3, <2>1
  <2>3. v["sand"] >= SandOf(v, r) \/ v["sand"] >= r["sand"]
    BY <1>2 DEF Sanded
  <2>4. SandOf(v, r) \in Int /\ SandOf(v, r) >= r["sand"]
    BY <2>2 DEF SandOf, Most
  <2> QED  BY <2>2, <2>3, <2>4
<1>5. Has(v, r, {"sand", "glass"})
  BY <1>3, <1>4 DEF Has
<1>6. Holds(v, r, "final", f)
  BY <1>3, <1>5 DEF Holds, PastStore, PastOak, PastStone, PastDirt
<1> QED  BY <1>1, <1>2, <1>6

LEMMA SmeltGoesTo ==
  ASSUME Going, Still, stack # <<>>, Len(stack) >= 2, Top.do = "smeltItem", NEW p, GoesTo(p),
         \/ Top.at = "reach" /\ p = "load"
         \/ Top.at \in {"next", "take", "burn"} /\ p \in {"next", "take", "burn"}
  PROVE  Course'
<1>1. Top \in SmeltFrames /\ Knows(inv, Top)
  BY SmeltIs
<1> DEFINE g == [Top EXCEPT !.at = p]
<1>2. /\ g.do = "smeltItem" /\ g.item = Top.item /\ g.want = Top.want /\ g.input = Top.input /\ g.at = p
      /\ g.need = Top.need /\ g.got = Top.got /\ Goes(g)
  BY <1>1 DEF SmeltFrames, GoesTo
<1> HIDE DEF g
<1>3. Knows(inv, g)
  BY <1>1, <1>2 DEF Knows
<1> QED  BY <1>2, <1>3, StillGoes

LEMMA SmeltBeginsKeeps == ASSUME Going, SmeltBegins PROVE Course'
<1>1. stack # <<>> /\ Len(stack) >= 2 /\ Top.do = "smeltItem" /\ Top.at = "call" /\ Still
  BY LeafTop, ThinksStill DEF SmeltBegins
<1>2. Top \in SmeltFrames /\ Knows(inv, Top) /\ Top.item = "glass" /\ Top.want = scene.req["glass"]
  BY <1>1, SmeltIs
<1>3. Top.want \in Int /\ inv[Top.item] \in Int
  BY <1>2, ToolsAre DEF SmeltFrames, Going
<1> DEFINE need == Top.want - inv[Top.item]
           g == [Top EXCEPT !.at = "reach", !.need = need]
<1>4. ASSUME ~(need <= 0), Goes(g)
      PROVE  Course'
  <2>1. /\ g.do = "smeltItem" /\ g.item = Top.item /\ g.want = Top.want /\ g.input = Top.input
        /\ g.at = "reach" /\ g.need = need /\ g.got = Top.got
    BY <1>2 DEF SmeltFrames
  <2>2. need > 0
    BY <1>3, <1>4
  <2>3. Top.got = 0
    BY <1>1, <1>2 DEF Knows
  <2>4. need = g.want - inv[g.item]
    BY <2>1
  <2> HIDE DEF g, need
  <2>5. Knows(inv, g)
    BY <2>1, <2>2, <2>3, <2>4 DEF Knows
  <2> QED  BY <1>1, <1>4, <2>1, <2>5, StillGoes
<1>5. ASSUME need <= 0, Answer("OK")
      PROVE  Course'
  <2>1. inv["glass"] >= scene.req["glass"]
    BY <1>2, <1>3, <1>5
  <2> QED  BY <1>1, <1>5, <2>1, SmeltedIs, StillAnswers
<1>6. \A code : code # "OK" /\ Answer(code) => Course'
  BY <1>1, PlainAnswers
<1> QED  BY <1>4, <1>5, <1>6 DEF SmeltBegins

LEMMA SmeltNextKeeps == ASSUME Going, SmeltNext PROVE Course'
<1>1. stack # <<>> /\ Len(stack) >= 2 /\ Top.do = "smeltItem" /\ Top.at = "next" /\ Still
  BY LeafTop, ThinksStill DEF SmeltNext
<1>2. Top \in SmeltFrames /\ Knows(inv, Top) /\ Top.item = "glass" /\ Top.want = scene.req["glass"]
  BY <1>1, SmeltIs
<1>3. Top.want \in Int /\ inv[Top.item] \in Int /\ Top.need \in Int /\ Top.got \in Int
  BY <1>2, ToolsAre DEF SmeltFrames, Going
<1>4. inv[Top.item] = Top.want - Top.need + Top.got
  BY <1>1, <1>2 DEF Knows
<1>5. ASSUME Top.got >= Top.need, Answer("OK")
      PROVE  Course'
  <2>1. inv["glass"] >= scene.req["glass"]
    BY <1>2, <1>3, <1>4, <1>5
  <2> QED  BY <1>1, <1>5, <2>1, SmeltedIs, StillAnswers
<1>6. \A p \in {"take", "burn"} : GoesTo(p) => Course'
  BY <1>1, SmeltGoesTo
<1>7. Answer("INTERRUPTED") => Course'
  BY <1>1, PlainAnswers
<1> QED  BY <1>5, <1>6, <1>7 DEF SmeltNext

LEMMA SmeltWaitsKeeps == ASSUME Going, SmeltReached \/ SmeltWaits PROVE Course'
<1>1. stack # <<>> /\ Len(stack) >= 2 /\ Top.do = "smeltItem" /\ Still
  BY LeafTop, ThinksStill DEF SmeltReached, SmeltWaits, Still, Surroundings
<1>2. CASE SmeltReached
  BY <1>1, <1>2, SmeltGoesTo DEF SmeltReached, Runs
<1>3. CASE SmeltWaits
  <2>1. GoesTo("next") /\ Top.at = "burn"
    BY <1>1, <1>3, NotAtFault DEF SmeltWaits, Runs, Still
  <2> QED  BY <1>1, <2>1, SmeltGoesTo
<1> QED  BY <1>2, <1>3

LEMMA SmeltFailsKeep == ASSUME Going, SmeltLoadFails \/ SmeltTakeFails PROVE Course'
  BY NotAtFault DEF SmeltLoadFails, SmeltTakeFails, Surroundings
LEMMA HoldsSanded ==
  ASSUME NEW v \in [Items -> Int], NEW w \in [Items -> Int], NEW r, NEW f,
         \A i \in Items \ {"sand", "coal", "glass"} : w[i] = v[i], Holds(v, r, "sand", f)
  PROVE  Holds(w, r, "sand", f)
<1>1. /\ Given \subseteq Items \ {"sand", "coal", "glass"}
      /\ {"oak_log", "oak_planks", "oak_door"} \subseteq Items \ {"sand", "coal", "glass"}
      /\ {"cobblestone"} \subseteq Items \ {"sand", "coal", "glass"}
      /\ {"dirt"} \subseteq Items \ {"sand", "coal", "glass"}
  BY ProvisionsAssumption DEF Given, Automatic
<1>2. \A S \in SUBSET (Items \ {"sand", "coal", "glass"}) : Has(v, r, S) => Has(w, r, S)
  BY DEF Has
<1>3. Has(v, r, Given) /\ Has(v, r, {"oak_log", "oak_planks", "oak_door"}) /\ Has(v, r, {"cobblestone"})
      /\ Has(v, r, {"dirt"})
  BY DEF Holds, PastStore, PastOak, PastStone, PastDirt
<1>4. Has(w, r, Given) /\ Has(w, r, {"oak_log", "oak_planks", "oak_door"}) /\ Has(w, r, {"cobblestone"})
      /\ Has(w, r, {"dirt"})
  BY <1>1, <1>2, <1>3
<1> QED  BY <1>4 DEF Holds, PastStore, PastOak, PastStone, PastDirt

LEMMA SmeltMoves ==
  ASSUME Going, UNCHANGED <<scene, chest, ground>>, inv' \in [Items -> Int],
         \A i \in Items \ {"sand", "coal", "glass"} : inv'[i] = inv[i]
  PROVE  Moves
<1>1. chest \in [Chests -> [Items -> Nat]] /\ ground \in [Blocks -> Int]
  BY DEF Going, Course
<1>2. \A t \in Tools : t \in Items \ {"sand", "coal", "glass"} /\ inv[t] \in Int
  BY ToolsAre DEF Tools, Going
<1>3. \A t \in Tools : inv'[t] >= inv[t]
  BY <1>2
<1> QED  BY <1>1, <1>3 DEF Moves

LEMMA SmeltLoadsKeeps == ASSUME Going, SmeltLoads PROVE Course'
<1>1. /\ stack # <<>> /\ Len(stack) >= 2 /\ Top.do = "smeltItem" /\ Top.at = "load"
      /\ UNCHANGED <<scene, chest, ground>> /\ GoesTo("fuel")
  BY LeafTop DEF SmeltLoads, Surroundings
<1>2. /\ Top \in SmeltFrames /\ Knows(inv, Top) /\ Top.item = "glass" /\ Top.input = "sand"
      /\ Top.want = scene.req["glass"] /\ Reached(stack[1]) = "sand" /\ stack[1].then = "final" /\ Len(stack) = 2
      /\ Top = stack[2]
  BY <1>1, SmeltIs, Tops
<1>3. inv \in [Items -> Int] /\ scene.req \in [Items -> Nat] /\ {"sand", "coal", "glass"} \subseteq Items
  BY ToolsAre, ProvisionsAssumption DEF Going
<1>4. Top.need \in Int /\ Top.got = 0 /\ Top.need = Top.want - inv["glass"] /\ Top.need > 0
  BY <1>1, <1>2 DEF SmeltFrames, Knows
<1>6. inv' = [inv EXCEPT !["sand"] = @ - Top.need]
  BY <1>2 DEF SmeltLoads
<1>7. /\ inv' \in [Items -> Int] /\ inv'["sand"] = inv["sand"] - Top.need
      /\ \A i \in Items \ {"sand"} : inv'[i] = inv[i]
  <2>1. PICK n : n = Top.need
    OBVIOUS
  <2>2. n \in Int /\ inv' = [inv EXCEPT !["sand"] = @ - n]
    BY <1>4, <1>6, <2>1
  <2> QED  BY <1>3, <1>6, <2>1, <2>2
<1> DEFINE g == [Top EXCEPT !.at = "fuel"]
<1>8. /\ g.do = "smeltItem" /\ g.item = Top.item /\ g.want = Top.want /\ g.input = Top.input /\ g.at = "fuel"
      /\ g.need = Top.need /\ g.got = Top.got /\ Goes(g)
  BY <1>1, <1>2 DEF SmeltFrames, GoesTo
<1> HIDE DEF g
<1>9. inv'["glass"] = inv["glass"] /\ inv["glass"] \in Int /\ scene.req["glass"] \in Int
      /\ inv["sand"] \in Int /\ scene.req["sand"] \in Int
  BY <1>3, <1>7
<1>10. Knows(inv', g)
  <2>1. inv'[g.item] = g.want - g.need + g.got
    BY <1>2, <1>4, <1>8, <1>9
  <2> QED  BY <1>8, <2>1 DEF Knows
<1>11. ASSUME Fair
       PROVE  Holds(inv', scene.req, Reached(stack[1]), stack[1]) /\ Sanded(inv', scene.req, stack[1], g)
  <2>1. Holds(inv, scene.req, "sand", stack[1]) /\ Sanded(inv, scene.req, stack[1], Top)
    BY <1>1, <1>2, <1>11 DEF Going, Course, Reckons
  <2>2. Holds(inv', scene.req, "sand", stack[1])
    BY <1>3, <1>7, <2>1, HoldsSanded
  <2>3. inv["sand"] >= SandOf(inv, scene.req)
    BY <1>1, <2>1 DEF Sanded
  <2>4. SandOf(inv, scene.req) = scene.req["sand"] + Top.need
    BY <1>2, <1>4, <1>9 DEF SandOf, Most
  <2>5. inv'["sand"] >= scene.req["sand"]
    BY <1>4, <1>7, <1>9, <2>3, <2>4
  <2> QED  BY <1>2, <1>8, <2>2, <2>5 DEF Sanded
<1>12. Moves
  BY <1>1, <1>7, SmeltMoves
<1> QED  BY <1>1, <1>7, <1>8, <1>10, <1>11, <1>12, LeafGoesOn

LEMMA SmeltFuelsKeeps == ASSUME Going, SmeltFuels PROVE Course'
<1>1. /\ stack # <<>> /\ Len(stack) >= 2 /\ Top.do = "smeltItem" /\ Top.at = "fuel"
      /\ UNCHANGED <<scene, chest, ground>> /\ GoesTo("next")
  BY LeafTop DEF SmeltFuels, Surroundings
<1>2. /\ Top \in SmeltFrames /\ Knows(inv, Top) /\ Top.item = "glass" /\ Top.input = "sand"
      /\ Reached(stack[1]) = "sand" /\ stack[1].then = "final" /\ Len(stack) = 2 /\ Top = stack[2]
  BY <1>1, SmeltIs, Tops
<1>3. inv \in [Items -> Int] /\ scene.req \in [Items -> Nat] /\ {"sand", "coal", "glass"} \subseteq Items
  BY ToolsAre, ProvisionsAssumption DEF Going
<1>4. Top.need \in Int /\ inv["glass"] = Top.want - Top.need + Top.got
  BY <1>1, <1>2 DEF SmeltFrames, Knows
<1>5. PICK fuel : fuel = Upwards(Top.need, FuelOperations)
  OBVIOUS
<1>6. fuel \in Int /\ inv' = [inv EXCEPT !["coal"] = @ - fuel]
  BY <1>4, <1>5, UpwardsIs DEF SmeltFuels
<1>7. inv' \in [Items -> Int] /\ \A i \in Items \ {"coal"} : inv'[i] = inv[i]
  BY <1>3, <1>6
<1> DEFINE g == [Top EXCEPT !.at = "next"]
<1>8. /\ g.do = "smeltItem" /\ g.item = Top.item /\ g.want = Top.want /\ g.input = Top.input /\ g.at = "next"
      /\ g.need = Top.need /\ g.got = Top.got /\ Goes(g)
  BY <1>1, <1>2 DEF SmeltFrames, GoesTo
<1> HIDE DEF g
<1>9. inv'["glass"] = inv["glass"] /\ inv'["sand"] = inv["sand"]
  BY <1>3, <1>7
<1>10. Knows(inv', g)
  BY <1>2, <1>4, <1>8, <1>9 DEF Knows
<1>11. ASSUME Fair
       PROVE  Holds(inv', scene.req, Reached(stack[1]), stack[1]) /\ Sanded(inv', scene.req, stack[1], g)
  <2>1. Holds(inv, scene.req, "sand", stack[1]) /\ Sanded(inv, scene.req, stack[1], Top)
    BY <1>1, <1>2, <1>11 DEF Going, Course, Reckons
  <2>2. Holds(inv', scene.req, "sand", stack[1])
    BY <1>3, <1>7, <2>1, HoldsSanded
  <2>3. inv'["sand"] >= scene.req["sand"]
    BY <1>1, <1>9, <2>1 DEF Sanded
  <2> QED  BY <1>2, <1>8, <2>2, <2>3 DEF Sanded
<1>12. Moves
  BY <1>1, <1>7, SmeltMoves
<1> QED  BY <1>1, <1>7, <1>8, <1>10, <1>11, <1>12, LeafGoesOn

LEMMA SmeltTakesKeeps == ASSUME Going, SmeltTakes PROVE Course'
<1>1. /\ stack # <<>> /\ Len(stack) >= 2 /\ Top.do = "smeltItem" /\ Top.at = "take"
      /\ UNCHANGED <<scene, chest, ground>>
  BY LeafTop DEF SmeltTakes, Surroundings
<1>2. /\ Top \in SmeltFrames /\ Knows(inv, Top) /\ Top.item = "glass" /\ Top.input = "sand"
      /\ Reached(stack[1]) = "sand" /\ stack[1].then = "final" /\ Len(stack) = 2 /\ Top = stack[2]
  BY <1>1, SmeltIs, Tops
<1>3. inv \in [Items -> Int] /\ scene.req \in [Items -> Nat] /\ {"sand", "coal", "glass"} \subseteq Items
  BY ToolsAre, ProvisionsAssumption DEF Going
<1>4. /\ Top.need \in Int /\ Top.got \in Int /\ Top.want \in Int /\ inv["glass"] = Top.want - Top.need + Top.got
  BY <1>1, <1>2 DEF SmeltFrames, Knows
<1>5. PICK n : n = furnace.output
  OBVIOUS
<1>6. n \in Int /\ inv' = [inv EXCEPT !["glass"] = @ + n]
  BY <1>2, <1>5 DEF SmeltTakes, Going, ProvInv, Stocked
<1>7. /\ inv' \in [Items -> Int] /\ inv'["glass"] = inv["glass"] + n
      /\ \A i \in Items \ {"glass"} : inv'[i] = inv[i]
  BY <1>3, <1>6
<1> DEFINE g == [Top EXCEPT !.at = "next", !.got = @ + furnace.output]
<1>8. /\ g.do = "smeltItem" /\ g.item = Top.item /\ g.want = Top.want /\ g.input = Top.input /\ g.at = "next"
      /\ g.need = Top.need /\ g.got = Top.got + n
  BY <1>2, <1>5 DEF SmeltFrames
<1>9. Goes(g)
  BY DEF SmeltTakes
<1> HIDE DEF g
<1>10. Knows(inv', g)
  <2>1. inv'[g.item] = g.want - g.need + g.got
    BY <1>2, <1>4, <1>6, <1>7, <1>8
  <2> QED  BY <1>8, <2>1 DEF Knows
<1>11. ASSUME Fair
       PROVE  Holds(inv', scene.req, Reached(stack[1]), stack[1]) /\ Sanded(inv', scene.req, stack[1], g)
  <2>1. Holds(inv, scene.req, "sand", stack[1]) /\ Sanded(inv, scene.req, stack[1], Top)
    BY <1>1, <1>2, <1>11 DEF Going, Course, Reckons
  <2>2. Holds(inv', scene.req, "sand", stack[1])
    BY <1>3, <1>7, <2>1, HoldsSanded
  <2>3. inv["sand"] >= scene.req["sand"] /\ inv'["sand"] = inv["sand"]
    BY <1>1, <1>3, <1>7, <2>1 DEF Sanded
  <2> QED  BY <1>2, <1>8, <2>2, <2>3 DEF Sanded
<1>12. Moves
  BY <1>1, <1>7, SmeltMoves
<1> QED  BY <1>1, <1>7, <1>8, <1>9, <1>10, <1>11, <1>12, LeafGoesOn

LEMMA LeavesCourse == ASSUME Going, Leaves PROVE Course'
  BY RetrieveBeginsKeeps, RetrieveNextKeeps, RetrieveTakesKeeps, WalksKeep, MineBeginsKeeps, MineNextKeeps,
     MineCollectsKeeps, ChopBeginsKeeps, ChopNextKeeps, ChopCollectsKeeps, CollectFailsKeeps, CraftBeginsKeeps,
     CraftDoneKeeps, CraftFallsKeeps, EquipsKeep, EnsureToolKeeps, SmeltBeginsKeeps, SmeltWaitsKeeps,
     SmeltLoadsKeeps, SmeltFuelsKeeps, SmeltFailsKeep, SmeltNextKeeps, SmeltTakesKeeps DEF Leaves

-----------------------------------------------------------------------------
(***************************************************************************)
(* The stages.                                                             *)
(***************************************************************************)
LEMMA StageIs ==
  ASSUME Going, Runs("prepare", Top.at)
  PROVE  /\ stack # <<>> /\ Len(stack) = 1 /\ Top = stack[1] /\ Top \in PrepareFrames /\ Top.do = "prepare"
         /\ Top.at # "asked" /\ Top.then \notin {"asked", "answered"}
         /\ Fair => Holds(inv, scene.req, Reached(Top), Top)
<1>1. stack # <<>> /\ Top.do = "prepare"
  BY DEF Runs
<1>2. Len(stack) = 1 /\ Top = stack[Len(stack)] /\ stack[1] \in PrepareFrames
  BY <1>1, Bottom
<1> QED  BY <1>1, <1>2 DEF Going, Course, Chain, Reckons

LEMMA StageGoes ==
  ASSUME Going, Thinks, NEW stage, Runs("prepare", stage), stage # "answered", NEW f, Goes(f),
         f.do = "prepare", f.at \notin {"asked", "answered"}, f.then = Top.then,
         Fair /\ Holds(inv, scene.req, stage, Top) => Holds(inv, scene.req, f.at, f)
  PROVE  Course'
<1>1. Top.at = stage
  BY DEF Runs
<1>2. /\ stack # <<>> /\ Len(stack) = 1 /\ Top.then \notin {"asked", "answered"}
      /\ Fair => Holds(inv, scene.req, Reached(Top), Top)
  BY <1>1, StageIs
<1>3. Reached(Top) = stage
  BY <1>1 DEF Reached
<1> QED  BY <1>2, <1>3, ThinksStill, PreparationGoes

LEMMA StageCalls ==
  ASSUME Going, Thinks, NEW stage, Runs("prepare", stage), stage # "answered", NEW f, NEW g, Delegates(f, g),
         f.do = "prepare", f.at # "asked", f.then \notin {"asked", "answered"},
         Awaited(f, g, scene.req), g.at = "call", g.do = "smeltItem" => g.got = 0,
         Fair /\ Holds(inv, scene.req, stage, Top) =>
           Holds(inv, scene.req, Reached(f), f) /\ Sanded(inv, scene.req, f, g)
  PROVE  Course'
<1>1. Top.at = stage
  BY DEF Runs
<1>2. stack # <<>> /\ Len(stack) = 1 /\ (Fair => Holds(inv, scene.req, Reached(Top), Top))
  BY <1>1, StageIs
<1>3. Reached(Top) = stage
  BY <1>1 DEF Reached
<1>4. Knows(inv, g)
  BY DEF Knows
<1>5. Call(f, g) => Course'
  BY <1>2, <1>3, <1>4, ThinksStill, PreparationCalls
<1>6. Answer(AuthCode) => Course'
  BY <1>2, ThinksStill, PreparationAnswers
<1> QED  BY <1>5, <1>6 DEF Delegates

LEMMA StageAnswers ==
  ASSUME Going, Thinks, NEW stage, Runs("prepare", stage), NEW code, Answer(code)
  PROVE  Course'
<1>1. stack # <<>> /\ Len(stack) = 1
  BY StageIs DEF Runs
<1> QED  BY <1>1, ThinksStill, PreparationAnswers

LEMMA AnsweredCourse == ASSUME Going, Answered PROVE Course'
<1>1. stack # <<>> /\ Top.do \in Composite /\ Top.at \in {"answered", "asked"} /\ Still
  BY ThinksStill DEF Answered
<1>2. Len(stack) = 1 /\ Top = stack[Len(stack)] /\ Top.do = "prepare"
  BY <1>1, Bottom DEF Composite
<1>3. /\ Top \in PrepareFrames /\ Top.at = "answered" /\ Top.then \notin {"asked", "answered"}
      /\ Top = stack[1]
  BY <1>1, <1>2, StageIs DEF Runs
<1>4. CASE GoesTo(Top.then) /\ (result = "OK" \/ Top.then = "store")
  <2> DEFINE f == [Top EXCEPT !.at = Top.then]
  <2>1. f.do = "prepare" /\ f.at = Top.then /\ f.then = Top.then /\ f.planks = Top.planks /\ f.logs = Top.logs
        /\ Goes(f)
    BY <1>3, <1>4 DEF PrepareFrames, GoesTo
  <2> HIDE DEF f
  <2>2. ASSUME Reckons(stack, inv, scene.req, result)
        PROVE  Holds(inv, scene.req, f.at, f)
    <3>1. CASE result = "OK"
      <4>1. Holds(inv, scene.req, Top.then, Top)
        BY <1>1, <1>2, <1>3, <2>2, <3>1 DEF Reckons
      <4> QED  BY <2>1, <4>1 DEF Holds
    <3>2. CASE Top.then = "store"
      BY <2>1, <3>2 DEF Holds, PastStore, PastOak, PastStone, PastDirt
    <3> QED  BY <1>4, <3>1, <3>2
  <2> QED  BY <1>1, <1>2, <1>3, <2>1, <2>2, PreparationGoes
<1>5. CASE Answer(result)
  BY <1>1, <1>2, <1>5, PreparationAnswers
<1> QED  BY <1>3, <1>4, <1>5 DEF Answered
LEMMA ReckonedAre ==
  ASSUME Going
  PROVE  /\ PlanksWanted = PlanksOf(inv, scene.req) /\ LogsWanted = LogsOf(inv, scene.req)
         /\ SandWanted = SandOf(inv, scene.req)
         /\ PlanksOf(inv, scene.req) \in Int /\ LogsOf(inv, scene.req) \in Int /\ SandOf(inv, scene.req) \in Int
         /\ \A i \in Items : inv[i] \in Int /\ scene.req[i] \in Int /\ Req(i) = scene.req[i]
<1>1. inv \in [Items -> Int] /\ scene.req \in [Items -> Nat]
  BY ToolsAre DEF Going
<1>2. PlanksWanted = PlanksOf(inv, scene.req) /\ SandWanted = SandOf(inv, scene.req)
  BY DEF PlanksWanted, PlanksOf, DoorCrafts, Req, SandWanted, SandOf, GlassWanted
<1>3. LogsWanted = LogsOf(inv, scene.req)
  BY <1>2 DEF LogsWanted, LogsOf, Req
<1> QED  BY <1>1, <1>2, <1>3, NumbersIn DEF Req

LEMMA StartsCourse == ASSUME Going, PrepareStarts PROVE Course'
<1>1. Runs("prepare", "call") /\ Thinks
  BY DEF PrepareStarts
<1>2. Top \in PrepareFrames
  BY <1>1, StageIs DEF Runs
<1>3. ASSUME NEW todo, Goes([Top EXCEPT !.at = "store", !.todo = todo])
      PROVE  Course'
  <2> DEFINE f == [Top EXCEPT !.at = "store", !.todo = todo]
  <2>1. f.do = "prepare" /\ f.at = "store" /\ f.then = Top.then
    BY <1>2 DEF PrepareFrames
  <2> HIDE DEF f
  <2>2. Holds(inv, scene.req, f.at, f)
    BY <2>1 DEF Holds, PastStore, PastOak, PastStone, PastDirt
  <2>3. Goes(f)
    BY <1>3 DEF f
  <2> QED  BY <1>1, <2>1, <2>2, <2>3, StageGoes
<1>4. \A code : Answer(code) => Course'
  BY <1>1, StageAnswers
<1> QED  BY <1>3, <1>4 DEF PrepareStarts

LEMMA StoreCourse == ASSUME Going, PrepareStore PROVE Course'
<1>1. Runs("prepare", "store") /\ Thinks
  BY DEF PrepareStore
<1>2. Top \in PrepareFrames
  BY <1>1, StageIs DEF Runs
<1>3. ASSUME NEW p \in {"final", "gather"}, GoesTo(p), p = "final" => scene.mission
      PROVE  Course'
  <2> DEFINE f == [Top EXCEPT !.at = p]
  <2>1. f.do = "prepare" /\ f.at = p /\ f.then = Top.then /\ Goes(f)
    BY <1>2, <1>3 DEF PrepareFrames, GoesTo
  <2> HIDE DEF f
  <2>2. Fair => Holds(inv, scene.req, f.at, f)
    BY <1>3, <2>1 DEF Holds, PastStore, PastOak, PastStone, PastDirt, Fair
  <2> QED  BY <1>1, <1>3, <2>1, <2>2, StageGoes
<1>4. ASSUME NEW i, Goes([Top EXCEPT !.todo = @ \ {i}])
      PROVE  Course'
  <2> DEFINE f == [Top EXCEPT !.todo = @ \ {i}]
  <2>1. f.do = "prepare" /\ f.at = "store" /\ f.then = Top.then /\ Goes(f)
    BY <1>1, <1>2, <1>4 DEF PrepareFrames, Runs
  <2> HIDE DEF f
  <2>2. Holds(inv, scene.req, f.at, f)
    BY <2>1 DEF Holds, PastStore, PastOak, PastStone, PastDirt
  <2> QED  BY <1>1, <2>1, <2>2, StageGoes
<1>5. ASSUME NEW i, Delegates(Then([Top EXCEPT !.todo = @ \ {i}], "store"),
                              Retrieve(i, Req(i), scene.storage, "none"))
      PROVE  Course'
  <2> DEFINE f == Then([Top EXCEPT !.todo = @ \ {i}], "store")
             g == Retrieve(i, Req(i), scene.storage, "none")
  <2>1. f.do = "prepare" /\ f.at = "answered" /\ f.then = "store"
    BY <1>2 DEF PrepareFrames, Then
  <2>2. g.do = "retrieveItem" /\ g.at = "call"
    BY DEF Retrieve
  <2>3. Delegates(f, g)
    BY <1>5
  <2> HIDE DEF f, g
  <2>4. Awaited(f, g, scene.req) /\ Sanded(inv, scene.req, f, g)
    BY <2>1, <2>2 DEF Awaited, Sanded
  <2>5. Holds(inv, scene.req, Reached(f), f)
    BY <2>1 DEF Holds, PastStore, PastOak, PastStone, PastDirt, Reached
  <2> QED  BY <1>1, <2>1, <2>2, <2>3, <2>4, <2>5, StageCalls
<1>6. CASE Top.todo = {}
  BY <1>3, <1>6 DEF PrepareStore
<1>7. CASE Top.todo # {}
  <2>1. PICK i \in Top.todo :
          \/ Goes([Top EXCEPT !.todo = @ \ {i}])
          \/ Delegates(Then([Top EXCEPT !.todo = @ \ {i}], "store"), Retrieve(i, Req(i), scene.storage, "none"))
    BY <1>7 DEF PrepareStore
  <2> QED  BY <1>4, <1>5, <2>1
<1> QED  BY <1>6, <1>7

LEMMA GathersCourse == ASSUME Going, PrepareGathers PROVE Course'
<1>1. Runs("prepare", "gather") /\ Thinks
  BY DEF PrepareGathers
<1>2. Top \in PrepareFrames
  BY <1>1, StageIs DEF Runs
<1>3. ASSUME ~\E i \in Items \ Automatic : inv[i] < Req(i),
             Goes([Top EXCEPT !.at = "logs", !.logs = LogsWanted, !.planks = PlanksWanted])
      PROVE  Course'
  <2> DEFINE f == [Top EXCEPT !.at = "logs", !.logs = LogsWanted, !.planks = PlanksWanted]
  <2>1. f.do = "prepare" /\ f.at = "logs" /\ f.then = Top.then /\ f.logs = LogsWanted /\ f.planks = PlanksWanted
    BY <1>2 DEF PrepareFrames
  <2>2. Goes(f)
    BY <1>3
  <2> HIDE DEF f
  <2>3. Has(inv, scene.req, Given)
    <3> SUFFICES ASSUME NEW i \in Given PROVE inv[i] >= scene.req[i]
      BY DEF Has
    <3>1. i \in Items \ Automatic
      BY DEF Given
    <3>2. ~(inv[i] < scene.req[i]) /\ inv[i] \in Int /\ scene.req[i] \in Int
      BY <1>3, <3>1, ReckonedAre
    <3> QED  BY <3>2
  <2>4. Holds(inv, scene.req, f.at, f)
    BY <2>1, <2>3, ReckonedAre DEF Holds, PastStore, PastOak, PastStone, PastDirt
  <2> QED  BY <1>1, <2>1, <2>2, <2>4, StageGoes
<1>4. \A code : Answer(code) => Course'
  BY <1>1, StageAnswers
<1> QED  BY <1>3, <1>4 DEF PrepareGathers

LEMMA LogsCourse == ASSUME Going, PrepareLogs PROVE Course'
<1>1. Thinks /\ (Runs("prepare", "logs") \/ Runs("prepare", "chopped"))
  BY DEF PrepareLogs
<1>2. Top \in PrepareFrames /\ Top.at \in {"logs", "chopped"} /\ Runs("prepare", Top.at)
  BY <1>1, StageIs DEF Runs
<1>3. \A code : Answer(code) => Course'
  BY <1>1, StageAnswers
<1>4. ASSUME Runs("prepare", "logs"), inv["oak_log"] >= Top.logs, Goes([Top EXCEPT !.at = "planks", !.tries = 0])
      PROVE  Course'
  <2> DEFINE f == [Top EXCEPT !.at = "planks", !.tries = 0]
  <2>1. f.do = "prepare" /\ f.at = "planks" /\ f.then = Top.then /\ f.logs = Top.logs /\ f.planks = Top.planks
        /\ Goes(f)
    BY <1>2, <1>4 DEF PrepareFrames
  <2> HIDE DEF f
  <2>2. Holds(inv, scene.req, "logs", Top) => Holds(inv, scene.req, f.at, f)
    BY <1>4, <2>1 DEF Holds, PastStore, PastOak, PastStone, PastDirt
  <2> QED  BY <1>1, <1>4, <2>1, <2>2, StageGoes
<1>5. ASSUME Runs("prepare", "logs"),
             Delegates([Then(Top, "chopped") EXCEPT !.tries = @ + 1, !.before = inv["oak_log"]], Chop)
      PROVE  Course'
  <2> DEFINE f == [Then(Top, "chopped") EXCEPT !.tries = @ + 1, !.before = inv["oak_log"]]
             g == Chop
  <2>1. f.do = "prepare" /\ f.at = "answered" /\ f.then = "chopped" /\ f.logs = Top.logs /\ f.planks = Top.planks
    BY <1>2 DEF PrepareFrames, Then
  <2>2. g.do = "chopTrees" /\ g.at = "call"
    BY DEF Chop, Frame
  <2>3. Delegates(f, g)
    BY <1>5
  <2> HIDE DEF f, g
  <2>4. Awaited(f, g, scene.req) /\ Sanded(inv, scene.req, f, g) /\ Reached(f) = "chopped"
    BY <2>1, <2>2 DEF Awaited, Sanded, Reached
  <2>5. Holds(inv, scene.req, "logs", Top) => Holds(inv, scene.req, "chopped", f)
    BY <2>1 DEF Holds, PastStore, PastOak, PastStone, PastDirt
  <2> QED  BY <1>1, <1>5, <2>1, <2>2, <2>3, <2>4, <2>5, StageCalls
<1>6. ASSUME Runs("prepare", "chopped"), GoesTo("logs")
      PROVE  Course'
  <2> DEFINE f == [Top EXCEPT !.at = "logs"]
  <2>1. f.do = "prepare" /\ f.at = "logs" /\ f.then = Top.then /\ f.logs = Top.logs /\ f.planks = Top.planks
        /\ Goes(f)
    BY <1>2, <1>6 DEF PrepareFrames, GoesTo
  <2> HIDE DEF f
  <2>2. Holds(inv, scene.req, "chopped", Top) => Holds(inv, scene.req, f.at, f)
    BY <2>1 DEF Holds, PastStore, PastOak, PastStone, PastDirt
  <2> QED  BY <1>1, <1>6, <2>1, <2>2, StageGoes
<1> QED  BY <1>3, <1>4, <1>5, <1>6 DEF PrepareLogs

(* Batches of what is crafted of the stage before.                         *)
LEMMA BatchesCourse ==
  ASSUME Going, NEW stage, NEW then, stage \notin {"asked", "answered"}, then \notin {"asked", "answered"},
         NEW i, NEW wanted, NEW next, next \notin {"asked", "answered"}, CraftsUntil(stage, then, i, wanted, next),
         \A f : f.planks = Top.planks /\ f.logs = Top.logs =>
           /\ Holds(inv, scene.req, stage, Top) <=> Holds(inv, scene.req, then, Top)
           /\ Holds(inv, scene.req, stage, Top) => Holds(inv, scene.req, stage, f) /\ Holds(inv, scene.req, then, f)
           /\ Holds(inv, scene.req, stage, Top) /\ inv[i] >= wanted => Holds(inv, scene.req, next, f),
         \A f : f.at = then /\ f.planks = Top.planks => Awaited(f, Craft(i, wanted), scene.req)
  PROVE  Course'
<1>1. Thinks /\ (Runs("prepare", stage) \/ Runs("prepare", then))
  BY DEF CraftsUntil
<1>2. Top \in PrepareFrames /\ Top.then \notin {"asked", "answered"}
  BY <1>1, StageIs DEF Runs
<1>3. \A code : Answer(code) => Course'
  BY <1>1, StageAnswers
<1>4. ASSUME Runs("prepare", stage), inv[i] >= wanted, Goes([Top EXCEPT !.at = next, !.tries = 0])
      PROVE  Course'
  <2> DEFINE f == [Top EXCEPT !.at = next, !.tries = 0]
  <2>1. f.do = "prepare" /\ f.at = next /\ f.then = Top.then /\ f.logs = Top.logs /\ f.planks = Top.planks
        /\ Goes(f)
    BY <1>2, <1>4 DEF PrepareFrames
  <2> HIDE DEF f
  <2>2. Holds(inv, scene.req, stage, Top) => Holds(inv, scene.req, f.at, f)
    BY <1>4, <2>1
  <2> QED  BY <1>1, <1>4, <2>1, <2>2, StageGoes
<1>5. ASSUME Runs("prepare", stage),
             Delegates([Top EXCEPT !.at = then, !.tries = @ + 1, !.before = inv[i]], Craft(i, wanted))
      PROVE  Course'
  <2> DEFINE f == [Top EXCEPT !.at = then, !.tries = @ + 1, !.before = inv[i]]
             g == Craft(i, wanted)
  <2>1. f.do = "prepare" /\ f.at = then /\ f.then = Top.then /\ f.logs = Top.logs /\ f.planks = Top.planks
    BY <1>2 DEF PrepareFrames
  <2>2. g.do = "craftItem" /\ g.at = "call"
    BY DEF Craft, Frame
  <2>3. Delegates(f, g)
    BY <1>5
  <2>6. Awaited(f, g, scene.req)
    BY <2>1
  <2> HIDE DEF f, g
  <2>4. Sanded(inv, scene.req, f, g) /\ Reached(f) = then
    BY <2>1, <2>2 DEF Sanded, Reached
  <2>5. Holds(inv, scene.req, stage, Top) => Holds(inv, scene.req, then, f)
    BY <2>1
  <2> QED  BY <1>1, <1>2, <1>5, <2>1, <2>2, <2>3, <2>4, <2>5, <2>6, StageCalls
<1>6. ASSUME Runs("prepare", then), GoesTo(stage)
      PROVE  Course'
  <2> DEFINE f == [Top EXCEPT !.at = stage]
  <2>1. f.do = "prepare" /\ f.at = stage /\ f.then = Top.then /\ f.logs = Top.logs /\ f.planks = Top.planks
        /\ Goes(f)
    BY <1>2, <1>6 DEF PrepareFrames, GoesTo
  <2> HIDE DEF f
  <2>2. Holds(inv, scene.req, then, Top) => Holds(inv, scene.req, f.at, f)
    BY <2>1
  <2> QED  BY <1>1, <1>6, <2>1, <2>2, StageGoes
<1> QED  BY <1>3, <1>4, <1>5, <1>6 DEF CraftsUntil

LEMMA PlanksCourse == ASSUME Going, PreparePlanks PROVE Course'
<1> DEFINE v == inv
           r == scene.req
<1>1. PlanksOf(v, r) \in Int /\ v["oak_log"] \in Int /\ v["oak_planks"] \in Int /\ r["oak_log"] \in Int
  BY ReckonedAre, ProvisionsAssumption
<1>2. ASSUME NEW f, f.planks = Top.planks, f.logs = Top.logs
      PROVE  /\ Holds(v, r, "planks", Top) <=> Holds(v, r, "planked", Top)
             /\ Holds(v, r, "planks", Top) => Holds(v, r, "planks", f) /\ Holds(v, r, "planked", f)
             /\ Holds(v, r, "planks", Top) /\ v["oak_planks"] >= Top.planks => Holds(v, r, "doors", f)
  <2>1. /\ Holds(v, r, "planks", Top) <=> Holds(v, r, "planked", Top)
        /\ Holds(v, r, "planks", Top) => Holds(v, r, "planks", f) /\ Holds(v, r, "planked", f)
    BY <1>2 DEF Holds, PastStore, PastOak, PastStone, PastDirt
  <2>2. ASSUME Holds(v, r, "planks", Top), v["oak_planks"] >= Top.planks
        PROVE  Holds(v, r, "doors", f)
    <3>1. Top.planks = PlanksOf(v, r) /\ v["oak_log"] >= LogsOf(v, r) /\ Has(v, r, Given)
      BY <2>2 DEF Holds, PastStore
    <3>2. Most(0, PlanksOf(v, r) - v["oak_planks"]) = 0
      BY <1>1, <2>2, <3>1 DEF Most
    <3>3. LogsOf(v, r) = r["oak_log"]
      BY <1>1, <3>2 DEF LogsOf, Upwards
    <3> QED  BY <2>2, <3>1, <3>3 DEF Holds, PastStore, PastOak, PastStone, PastDirt
  <2> QED  BY <2>1, <2>2
<1>3. \A f : f.at = "planked" /\ f.planks = Top.planks => Awaited(f, Craft("oak_planks", Top.planks), r)
  BY DEF Awaited, Craft, Frame
<1> HIDE <1>1
<1> QED  BY <1>2, <1>3, BatchesCourse DEF PreparePlanks

LEMMA DoorsCourse == ASSUME Going, PrepareDoors PROVE Course'
<1> DEFINE v == inv
           r == scene.req
<1>1. /\ v["oak_door"] \in Int /\ r["oak_door"] \in Int /\ r["oak_planks"] \in Int
      /\ Req("oak_door") = r["oak_door"]
  BY ReckonedAre, ProvisionsAssumption
<1>2. ASSUME NEW f, f.planks = Top.planks, f.logs = Top.logs
      PROVE  /\ Holds(v, r, "doors", Top) <=> Holds(v, r, "doored", Top)
             /\ Holds(v, r, "doors", Top) => Holds(v, r, "doors", f) /\ Holds(v, r, "doored", f)
             /\ Holds(v, r, "doors", Top) /\ v["oak_door"] >= r["oak_door"] => Holds(v, r, "pickaxe", f)
  <2>1. /\ Holds(v, r, "doors", Top) <=> Holds(v, r, "doored", Top)
        /\ Holds(v, r, "doors", Top) => Holds(v, r, "doors", f) /\ Holds(v, r, "doored", f)
    BY <1>2 DEF Holds, PastStore, PastOak, PastStone, PastDirt
  <2>2. ASSUME Holds(v, r, "doors", Top), v["oak_door"] >= r["oak_door"]
        PROVE  Holds(v, r, "pickaxe", f)
    <3>1. v["oak_log"] >= r["oak_log"] /\ v["oak_planks"] >= PlanksOf(v, r) /\ Has(v, r, Given)
      BY <2>2 DEF Holds, PastStore
    <3>2. Most(0, r["oak_door"] - v["oak_door"]) = 0
      BY <1>1, <2>2 DEF Most
    <3>3. PlanksOf(v, r) = r["oak_planks"]
      BY <1>1, <3>2 DEF PlanksOf, Upwards
    <3>4. Has(v, r, {"oak_log", "oak_planks", "oak_door"})
      BY <2>2, <3>1, <3>3 DEF Has
    <3> QED  BY <3>1, <3>4 DEF Holds, PastStore, PastOak, PastStone, PastDirt
  <2> QED  BY <2>1, <2>2
<1>3. \A f : f.at = "doored" /\ f.planks = Top.planks => Awaited(f, Craft("oak_door", Req("oak_door")), r)
  BY <1>1 DEF Awaited, Craft, Frame
<1> QED  BY <1>1, <1>2, <1>3, BatchesCourse DEF PrepareDoors

(* The stages that need no plan of their own.                              *)
LEMMA WorksCourse ==
  ASSUME Going, NEW stage \in PastOak, NEW needed, NEW g, NEW next \in PastOak, Works(stage, needed, g, next),
         \A f : f.at = "answered" /\ f.then = next =>
           /\ Awaited(f, g, scene.req)
           /\ needed /\ Fair /\ Holds(inv, scene.req, stage, Top) =>
                Holds(inv, scene.req, Reached(f), f) /\ Sanded(inv, scene.req, f, g),
         g.at = "call", g.do = "smeltItem" => g.got = 0,
         \A f : ~needed /\ Holds(inv, scene.req, stage, Top) => Holds(inv, scene.req, next, f)
  PROVE  Course'
<1>1. Thinks /\ Runs("prepare", stage) /\ stage # "answered" /\ next \notin {"asked", "answered"}
  BY DEF Works, PastOak, PastStone, PastDirt
<1>2. Top \in PrepareFrames
  BY <1>1, StageIs DEF Runs
<1>3. ASSUME ~needed, GoesTo(next)
      PROVE  Course'
  <2> DEFINE f == [Top EXCEPT !.at = next]
  <2>1. f.do = "prepare" /\ f.at = next /\ f.then = Top.then /\ Goes(f)
    BY <1>2, <1>3 DEF PrepareFrames, GoesTo
  <2> HIDE DEF f
  <2> QED  BY <1>1, <1>3, <2>1, StageGoes
<1>4. ASSUME needed, Delegates(Then(Top, next), g)
      PROVE  Course'
  <2> DEFINE f == Then(Top, next)
  <2>1. f.do = "prepare" /\ f.at = "answered" /\ f.then = next /\ Delegates(f, g)
    BY <1>2, <1>4 DEF PrepareFrames, Then
  <2> HIDE DEF f
  <2>2. Awaited(f, g, scene.req)
    BY <2>1
  <2>3. Fair /\ Holds(inv, scene.req, stage, Top) =>
          Holds(inv, scene.req, Reached(f), f) /\ Sanded(inv, scene.req, f, g)
    BY <1>4, <2>1
  <2> QED  BY <1>1, <2>1, <2>2, <2>3, StageCalls
<1> QED  BY <1>3, <1>4 DEF Works
LEMMA StoneCourse == ASSUME Going, PrepareStone PROVE Course'
<1> DEFINE v == inv
           r == scene.req
<1>1. CASE Works("pickaxe", Short("cobblestone"), EnsureTool("stone"), "stone")
  <2>1. \A f : f.at = "answered" /\ f.then = "stone" =>
          /\ Awaited(f, EnsureTool("stone"), r)
          /\ Holds(v, r, "pickaxe", Top) => Holds(v, r, Reached(f), f) /\ Sanded(v, r, f, EnsureTool("stone"))
    BY DEF Awaited, EnsureTool, Sanded, Reached, Holds, PastStore, PastOak, PastStone, PastDirt
  <2>2. \A f : Holds(v, r, "pickaxe", Top) => Holds(v, r, "stone", f)
    BY DEF Holds, PastStore, PastOak, PastStone, PastDirt
  <2>3. EnsureTool("stone").at = "call" /\ EnsureTool("stone").do # "smeltItem"
    BY DEF EnsureTool
  <2>4. "pickaxe" \in PastOak /\ "stone" \in PastOak
    BY DEF PastOak
  <2> QED  BY <1>1, <2>1, <2>2, <2>3, <2>4, WorksCourse
<1>2. CASE Works("stone", Short("cobblestone"), Mine("stone", "cobblestone", Req("cobblestone")), "dirt")
  <2> DEFINE g == Mine("stone", "cobblestone", Req("cobblestone"))
  <2>1. g.do = "mineUntil" /\ g.at = "call" /\ g.item = "cobblestone" /\ g.want = r["cobblestone"]
    BY DEF Mine, Req
  <2> HIDE DEF g
  <2>2. \A f : f.at = "answered" /\ f.then = "dirt" =>
          /\ Awaited(f, g, r)
          /\ Holds(v, r, "stone", Top) => Holds(v, r, Reached(f), f) /\ Sanded(v, r, f, g)
    BY <2>1 DEF Awaited, Sanded, Reached, Holds, PastStore, PastOak, PastStone, PastDirt
  <2>3. ASSUME ~Short("cobblestone"), NEW f, Holds(v, r, "stone", Top)
        PROVE  Holds(v, r, "dirt", f)
    <3>1. Has(v, r, {"cobblestone"})
      BY <2>3, ReckonedAre, ProvisionsAssumption DEF Short, Has
    <3> QED  BY <2>3, <3>1 DEF Holds, PastStore, PastOak, PastStone, PastDirt
  <2>4. "stone" \in PastOak /\ "dirt" \in PastOak
    BY DEF PastOak, PastStone
  <2> QED  BY <1>2, <2>1, <2>2, <2>3, <2>4, WorksCourse DEF g
<1> QED  BY <1>1, <1>2 DEF PrepareStone

LEMMA DirtCourse == ASSUME Going, PrepareDirt PROVE Course'
<1> DEFINE v == inv
           r == scene.req
           g == Mine("dirt", "dirt", Req("dirt"))
<1>1. g.do = "mineUntil" /\ g.at = "call" /\ g.item = "dirt" /\ g.want = r["dirt"]
  BY DEF Mine, Req
<1> HIDE DEF g
<1>2. \A f : f.at = "answered" /\ f.then = "sand" =>
        /\ Awaited(f, g, r)
        /\ Holds(v, r, "dirt", Top) => Holds(v, r, Reached(f), f) /\ Sanded(v, r, f, g)
  BY <1>1 DEF Awaited, Sanded, Reached, Holds, PastStore, PastOak, PastStone, PastDirt
<1>3. ASSUME ~Short("dirt"), NEW f, Holds(v, r, "dirt", Top)
      PROVE  Holds(v, r, "sand", f)
  <2>1. Has(v, r, {"dirt"})
    BY <1>3, ReckonedAre, ProvisionsAssumption DEF Short, Has
  <2> QED  BY <1>3, <2>1 DEF Holds, PastStore, PastOak, PastStone, PastDirt
<1>4. "dirt" \in PastOak /\ "sand" \in PastOak
  BY DEF PastOak, PastStone, PastDirt
<1> QED  BY <1>1, <1>2, <1>3, <1>4, WorksCourse DEF PrepareDirt, g

LEMMA SandCourse == ASSUME Going, PrepareSand PROVE Course'
<1> DEFINE v == inv
           r == scene.req
           g == Mine("sand", "sand", SandWanted)
<1>1. g.do = "mineUntil" /\ g.at = "call" /\ g.item = "sand" /\ g.want = SandOf(v, r)
  BY ReckonedAre DEF Mine
<1> HIDE DEF g
<1>2. \A f : f.at = "answered" /\ f.then = "fueltool" =>
        /\ Awaited(f, g, r)
        /\ Holds(v, r, "sand", Top) => Holds(v, r, Reached(f), f) /\ Sanded(v, r, f, g)
  BY <1>1 DEF Awaited, Sanded, Reached, Holds, PastStore, PastOak, PastStone, PastDirt
<1>3. ASSUME ~(inv["sand"] < SandWanted), NEW f, Holds(v, r, "sand", Top)
      PROVE  Holds(v, r, "fueltool", f)
  <2>1. v["sand"] >= SandOf(v, r)
    BY <1>3, ReckonedAre, ProvisionsAssumption
  <2> QED  BY <1>3, <2>1 DEF Holds, PastStore, PastOak, PastStone, PastDirt
<1>4. "sand" \in PastOak /\ "fueltool" \in PastOak
  BY DEF PastOak, PastStone, PastDirt
<1> QED  BY <1>1, <1>2, <1>3, <1>4, WorksCourse DEF PrepareSand, g

LEMMA FuelCourse == ASSUME Going, PrepareFuel PROVE Course'
<1> DEFINE v == inv
           r == scene.req
<1>1. CASE Works("fueltool", inv["coal"] < FuelWanted, EnsureTool("coal_ore"), "fuel")
  <2>1. \A f : f.at = "answered" /\ f.then = "fuel" =>
          /\ Awaited(f, EnsureTool("coal_ore"), r)
          /\ Holds(v, r, "fueltool", Top) => Holds(v, r, Reached(f), f) /\ Sanded(v, r, f, EnsureTool("coal_ore"))
    BY DEF Awaited, EnsureTool, Sanded, Reached, Holds, PastStore, PastOak, PastStone, PastDirt
  <2>2. \A f : Holds(v, r, "fueltool", Top) => Holds(v, r, "fuel", f)
    BY DEF Holds, PastStore, PastOak, PastStone, PastDirt
  <2>3. EnsureTool("coal_ore").at = "call" /\ EnsureTool("coal_ore").do # "smeltItem"
    BY DEF EnsureTool
  <2>4. "fueltool" \in PastOak /\ "fuel" \in PastOak
    BY DEF PastOak, PastStone, PastDirt
  <2> QED  BY <1>1, <2>1, <2>2, <2>3, <2>4, WorksCourse
<1>2. CASE Works("fuel", inv["coal"] < FuelWanted, Mine("coal_ore", "coal", FuelWanted), "smelt")
  <2> DEFINE g == Mine("coal_ore", "coal", FuelWanted)
  <2>1. g.do = "mineUntil" /\ g.at = "call" /\ g.item = "coal"
    BY DEF Mine
  <2> HIDE DEF g
  <2>2. \A f : f.at = "answered" /\ f.then = "smelt" =>
          /\ Awaited(f, g, r)
          /\ Holds(v, r, "fuel", Top) => Holds(v, r, Reached(f), f) /\ Sanded(v, r, f, g)
    BY <2>1 DEF Awaited, Sanded, Reached, Holds, PastStore, PastOak, PastStone, PastDirt
  <2>3. \A f : Holds(v, r, "fuel", Top) => Holds(v, r, "smelt", f)
    BY DEF Holds, PastStore, PastOak, PastStone, PastDirt
  <2>4. "fuel" \in PastOak /\ "smelt" \in PastOak
    BY DEF PastOak, PastStone, PastDirt
  <2> QED  BY <1>2, <2>1, <2>2, <2>3, <2>4, WorksCourse DEF g
<1> QED  BY <1>1, <1>2 DEF PrepareFuel

LEMMA GlassCourse == ASSUME Going, PrepareGlass PROVE Course'
<1> DEFINE v == inv
           r == scene.req
           g == Smelt("sand", "glass", Req("glass"))
<1>1. /\ g.do = "smeltItem" /\ g.at = "call" /\ g.item = "glass" /\ g.input = "sand" /\ g.want = r["glass"]
      /\ g.got = 0
  BY DEF Smelt, Req
<1> HIDE DEF g
<1>2. \A f : f.at = "answered" /\ f.then = "final" =>
        /\ Awaited(f, g, r)
        /\ Holds(v, r, "smelt", Top) => Holds(v, r, Reached(f), f) /\ Sanded(v, r, f, g)
  BY <1>1 DEF Awaited, Sanded, Reached, Holds, PastStore, PastOak, PastStone, PastDirt
<1>3. ASSUME ~(GlassWanted > 0), NEW f, Holds(v, r, "smelt", Top)
      PROVE  Holds(v, r, "final", f)
  <2>1. /\ v["glass"] \in Int /\ r["glass"] \in Int /\ v["sand"] \in Int /\ r["sand"] \in Int
        /\ Req("glass") = r["glass"]
    BY ReckonedAre, ProvisionsAssumption
  <2>2. Most(0, r["glass"] - v["glass"]) = 0 /\ v["glass"] >= r["glass"]
    BY <1>3, <2>1 DEF GlassWanted, Most
  <2>3. v["sand"] >= SandOf(v, r)
    BY <1>3 DEF Holds
  <2>4. Has(v, r, {"sand", "glass"})
    BY <2>1, <2>2, <2>3 DEF SandOf, Has
  <2> QED  BY <1>3, <2>4 DEF Holds, PastStore, PastOak, PastStone, PastDirt
<1>4. "smelt" \in PastOak /\ "final" \in PastOak
  BY DEF PastOak, PastStone, PastDirt
<1> QED  BY <1>1, <1>2, <1>3, <1>4, WorksCourse DEF PrepareGlass, g

LEMMA PreparationCourse == ASSUME Going, Preparation PROVE Course'
<1>1. PrepareEnds => Course'
  BY StageAnswers DEF PrepareEnds
<1> QED  BY <1>1, StartsCourse, StoreCourse, GathersCourse, LogsCourse, PlanksCourse, DoorsCourse, StoneCourse,
            DirtCourse, SandCourse, FuelCourse, GlassCourse DEF Preparation

-----------------------------------------------------------------------------
(***************************************************************************)
(* Everybody else; the invariant.                                          *)
(***************************************************************************)
LEMMA OthersNotCalm ==
  ASSUME Going
  PROVE  ~Supplying /\ ~RestockNext /\ ~Harvesting
<1>1. stack # <<>> => Top.do \notin {"supply", "restock", "harvest"}
  BY Bottom
<1>2. Supplying => stack # <<>> /\ Top.do = "supply"
  BY DEF Supplying, SupplyLooks, SupplyFound, SupplyProduces, SupplyVerifies, Supplies, Runs
<1>3. RestockNext => stack # <<>> /\ Top.do = "restock"
  BY DEF RestockNext, Runs
<1>4. Harvesting => stack # <<>> /\ Top.do = "harvest"
  BY DEF Harvesting, HarvestBegins, HarvestNext, HarvestReaps, HarvestFindsNoSoil, HarvestFails,
         HarvestPlants, HarvestEnds, Runs
<1> QED  BY <1>1, <1>2, <1>3, <1>4

Unmoved == UNCHANGED <<scene, stack, result, inv, chest, ground, faults, tries>>

LEMMA UnmovedKeeps == ASSUME Course, Unmoved PROVE Course'
  BY DEF Course, Unmoved, Fair, Undisturbed

LEMMA OutsideCourse == ASSUME Going, Outside PROVE Course'
<1>1. ~Player /\ ~Trample
  BY NotAtFault DEF Player, Trample
<1>2. Abort \/ HoldJob => Unmoved
  BY DEF Abort, HoldJob, Unmoved, world
<1> QED  BY <1>1, <1>2, UnmovedKeeps DEF Outside, Going

(* Only a fault takes from the faults to come, only a retry is a new try.  *)
LEMMA Counts ==
  ASSUME Next
  PROVE  scene' = scene /\ (faults' = faults \/ Fault) /\ (tries' = tries \/ (stack = <<>> /\ tries' = tries + 1))
<1>1. Leaves => scene' = scene /\ tries' = tries /\ (faults' = faults \/ Fault)
  BY DEF Leaves, RetrieveBegins, RetrieveNext, RetrieveTakes, RetrieveFails, WalkStops, WalkFails, WalkBegins,
         Indexed, DepositOpens, DepositNext, DepositPuts, DepositFails, MineBegins, MineNext, MineCollects,
         ChopBegins, ChopNext, ChopCollects, CollectFails, CraftBegins, CraftAtTable, CraftDone, CraftFalls,
         EquipBegins, Equips, EnsureToolStep, SmeltBegins, SmeltReached, SmeltLoads, SmeltFuels, SmeltLoadFails, SmeltNext,
         SmeltTakes, SmeltTakeFails, SmeltWaits, Thinks, Surroundings, NoFault
<1>2. Answered \/ Preparation \/ Supplying \/ RestockNext => Thinks
  BY DEF Answered, Preparation, PrepareStarts, PrepareStore, PrepareGathers, PrepareLogs, PreparePlanks, PrepareDoors,
         CraftsUntil, PrepareStone, PrepareDirt, PrepareSand, PrepareFuel, PrepareGlass, Works, PrepareEnds,
         Supplying, RestockNext
<1>3. Thinks => scene' = scene /\ tries' = tries /\ faults' = faults
  BY DEF Thinks, Surroundings
<1>4. Harvesting => scene' = scene /\ tries' = tries /\ (faults' = faults \/ Fault)
  BY DEF Harvesting, HarvestBegins, HarvestNext, HarvestReaps, HarvestFindsNoSoil, HarvestFails, HarvestPlants,
         HarvestEnds, Thinks, Surroundings
<1>5. Outside => scene' = scene /\ tries' = tries /\ (faults' = faults \/ Fault)
  BY DEF Outside, Abort, HoldJob, Player, Trample
<1>6. Retry => scene' = scene /\ stack = <<>> /\ tries' = tries + 1 /\ faults' = faults
  BY DEF Retry
<1> QED  BY <1>1, <1>2, <1>3, <1>4, <1>5, <1>6 DEF Next, Skill

LEMMA PlanInit == ASSUME Init PROVE PlanInv
<1>1. scene \in Scenario
  BY ProvisionsAssumption DEF Init
<1>2. /\ scene.inv \in [Items -> Nat] /\ scene.chest \in [Chests -> [Items -> Nat]]
      /\ scene.ground \in [Blocks -> Nat] /\ scene.faults \in Nat
  BY <1>1 DEF Scenario, Amounts
<1>3. inv = scene.inv /\ chest = scene.chest /\ ground = scene.ground /\ tries = 1 /\ faults = scene.faults
      /\ stack = <<Handler(scene)>>
  BY DEF Init
<1>4. ASSUME Calm
      PROVE  Course
  <2>1. Handler(scene) = Prepare
    BY <1>4 DEF Calm, Handler
  <2>2. stack = <<Prepare>>
    BY <1>3, <2>1
  <2>3. PICK f : f = Prepare
    OBVIOUS
  <2>4. f.do = "prepare" /\ f.at = "call" /\ f.then = "none"
    BY <2>3 DEF Prepare
  <2>5. stack # <<>> /\ Len(stack) = 1 /\ stack[1] = f
    BY <2>2, <2>3
  <2>6. Chain(stack, inv, scene.req)
    BY <2>4, <2>5 DEF Chain, Knows
  <2>7. Reckons(stack, inv, scene.req, result)
    BY <2>4, <2>5 DEF Reckons, Sanded, Reached, Holds, PastStore, PastOak, PastStone, PastDirt
  <2>8. \A t \in Tools : inv[t] >= scene.inv[t]
    <3>1. \A t \in Tools : scene.inv[t] \in Int
      BY <1>2, ProvisionsAssumption DEF Tools
    <3> QED  BY <1>3, <3>1
  <2>9. ground \in [Blocks -> Int]
    BY <1>2, <1>3
  <2> QED  BY <1>2, <1>3, <2>6, <2>7, <2>8, <2>9 DEF Course
<1> QED  BY <1>2, <1>3, <1>4 DEF PlanInv

LEMMA PlanStep == ASSUME ProvInv, PlanInv, [Next]_vars PROVE PlanInv'
<1>1. CASE Next
  <2>1. scene' = scene /\ (faults' = faults \/ Fault) /\ (tries' = tries \/ (stack = <<>> /\ tries' = tries + 1))
    BY <1>1, Counts
  <2>2. tries \in Nat \ {0} /\ faults <= scene.faults /\ (Calm => Course) /\ faults \in Nat /\ scene.faults \in Int
    <3>1. scene \in Scenario
      BY ProvisionsAssumption DEF ProvInv
    <3> QED  BY <3>1, FaultIs DEF PlanInv, Scenario
  <2>3. tries' \in Nat \ {0} /\ faults' <= scene'.faults
    BY <2>1, <2>2 DEF Fault
  <2>4. ASSUME Calm'
        PROVE  Course'
    <3>1. tries' = tries /\ faults' = faults
      BY <2>1, <2>2, <2>4 DEF Calm, Fault
    <3>2. Going
      BY <2>1, <2>2, <2>4, <3>1 DEF Going, Calm
    <3>3. ~Retry
      BY <2>2, <3>1 DEF Retry
    <3> QED  BY <1>1, <3>2, <3>3, LeavesCourse, AnsweredCourse, PreparationCourse, OthersNotCalm, OutsideCourse
             DEF Next, Skill
  <2> QED  BY <2>3, <2>4 DEF PlanInv
<1>2. CASE UNCHANGED vars
  <2>1. Unmoved
    BY <1>2 DEF vars, Unmoved
  <2>2. Calm' => Calm
    BY <2>1 DEF Calm, Unmoved
  <2>3. tries' \in Nat \ {0} /\ faults' <= scene'.faults
    BY <2>1 DEF PlanInv, Unmoved
  <2> QED  BY <2>1, <2>2, <2>3, UnmovedKeeps DEF PlanInv
<1> QED  BY <1>1, <1>2

(* What the invariant says at the last place of an undisturbed preparation. *)
LEMMA PlanEnough == ASSUME ProvInv, PlanInv PROVE PlanSuffices
<1> SUFFICES ASSUME Runs("prepare", "final"), ~scene.mission, Undisturbed, NEW i \in Items \ {"coal"}
             PROVE  ~Short(i)
  BY DEF PlanSuffices
<1>1. stack # <<>> /\ Top.do = "prepare" /\ Top.at = "final"
  BY DEF Runs
<1>2. Len(stack) = 1 /\ Own(Top) /\ Top = stack[1]
  BY <1>1, TopIs DEF Composite
<1>3. scene.skill = "prepareBlueprintMaterials"
  <2>1. scene.skill \in {"prepareBlueprintMaterials", "supplyContainer", "restockInventory", "harvestFarm"}
    BY ProvisionsAssumption DEF ProvInv, Scenario
  <2> QED  BY <1>1, <1>2, <2>1 DEF Own
<1>4. Course /\ Fair
  BY <1>3 DEF PlanInv, Calm, Undisturbed, Fair
<1>5. Holds(inv, scene.req, "final", Top)
  BY <1>1, <1>2, <1>4 DEF Course, Reckons, Reached
<1>6. /\ Has(inv, scene.req, Given) /\ Has(inv, scene.req, {"oak_log", "oak_planks", "oak_door"})
      /\ Has(inv, scene.req, {"cobblestone"}) /\ Has(inv, scene.req, {"dirt"})
      /\ Has(inv, scene.req, {"sand", "glass"})
  BY <1>5 DEF Holds, PastStore, PastOak, PastStone, PastDirt
<1>7. inv[i] >= scene.req[i]
  BY <1>6 DEF Has, Given, Automatic
<1>8. inv[i] \in Int /\ scene.req[i] \in Int
  BY ToolsAre
<1> QED  BY <1>7, <1>8 DEF Short, Req

(* What a preparation reckons before the first tree is felled - doors into *)
(* planks, planks into logs, glass into sand and coal - is enough for the  *)
(* whole bill, but for coal itself, when it has worked undisturbed         *)
(* (PlanSuffices): whatever the bill, the inventory it starts from, what   *)
(* the job's container adds to it and the batches of the recipes.          *)
THEOREM PlanIsEnough == Spec => []PlanSuffices
<1>1. Init => PlanInv
  BY PlanInit
<1>2. ProvInv /\ PlanInv /\ [Next]_vars => PlanInv'
  BY PlanStep
<1>3. ProvInv /\ PlanInv => PlanSuffices
  BY PlanEnough
<1> QED  BY <1>1, <1>2, <1>3, ProvInvariance, PTL DEF Spec
=============================================================================
