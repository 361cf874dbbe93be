------------------------------- MODULE BuildOps -------------------------------
(***************************************************************************)
(* The compiler of build definitions (src/construction/buildOps/) and the  *)
(* two judgements of a place in the world that the blueprint it makes is   *)
(* put to: before the first block (src/construction/site.ts) and after the *)
(* last (verifier.ts).                                                     *)
(*                                                                         *)
(* A definition is a list of operations, or of drawn layers, on a canvas   *)
(* that no operation leaves half done: each stages its cells, has them     *)
(* checked against the limits, and only then writes them.  Anything        *)
(* refused refuses the definition.                                         *)
(*                                                                         *)
(* The compiler's text form of a block is abstracted to Normalize, and its *)
(* list of diagnostics, a bounded sample, to the two counters.             *)
(***************************************************************************)
EXTENDS BuildGeometry

CONSTANTS
  Ops,        \* the operations a definition may hold
  Layers,     \* the layers a drawing may hold
  Normalize,  \* [block as written -> block of the registry, or "refused"]
  Stairs,     \* the blocks that are placed with a facing and a half
  Hazardous,  \* the blocks only an owner may ask for
  MaxOperations, MaxCellsPerOperation, MaxWorldCells, MaxRadius, \* limits.ts
  MinCoordinate, MaxCoordinate,                                  \* limits.ts
  Looks,      \* what the client may see in a cell, Unloaded included
  Replaceable \* REPLACEABLE_BUILD_BLOCKS

Blocks     == {Normalize[b] : b \in DOMAIN Normalize} \ {"refused"}
Halves     == {"top", "bottom", "none"}
Placement  == [block : Blocks, facing : Facings, half : Halves]
Coordinate == MinCoordinate .. MaxCoordinate
Drawable   == {"put", "box", "walls", "floor", "cylinder", "disc", "ring", "gableRoof", "dome",
               "spiralStairs"}
Moving     == {"copy", "rotate", "mirror"}

Unloaded == [name |-> "unloaded", facing |-> "none", half |-> "none", solid |-> FALSE]

ASSUME BuildAssumption ==
  /\ MaxOperations \in Nat /\ MaxCellsPerOperation \in Nat /\ MaxWorldCells \in Nat
  /\ MaxRadius \in Nat /\ MinCoordinate \in Int /\ MaxCoordinate \in Int
  /\ "refused" \notin Stairs /\ Unloaded \in Looks

Skip == {" ", ".", "_", "-"}

(* The schema's own conditions: a floor is level, a layer is rectangular,  *)
(* its palette names each of its characters, and a block is written as a   *)
(* name.  No stair is a plant or air that a build may replace.             *)
ASSUME OpsAssumption ==
  /\ \A op \in Ops : op.op \in Drawable \cup Moving \cup {"punch", "window"}
  /\ \A op \in Ops : op.op \in Drawable \cup {"window"} => op.block \in DOMAIN Normalize
  /\ \A op \in Ops : op.op = "spiralStairs" => OnQuarters(op.height, op.turns)
  /\ \A op \in Ops : op.op = "copy" => op.offset \in Cell
  /\ \A op \in Ops : op.op = "rotate" => op.pivot \in Cell /\ op.turns \in 1 .. 3
  /\ \A op \in Ops : op.op = "mirror" => op.pivot \in Cell /\ op.axis \in {"x", "z"}
  /\ \A op \in Ops : op.op = "floor" => op.from[2] = op.to[2]
  /\ \A layer \in Layers : layer.rows # <<>> /\ \A row \in {layer.rows[i] : i \in DOMAIN layer.rows} :
                                                  Len(row) = Len(layer.rows[1]) /\ row # <<>>
  /\ \A layer \in Layers : \A c \in LayerCells(layer.y, layer.rows) :
       CharacterAt(layer.rows, c) \notin Skip =>
         layer.palette[CharacterAt(layer.rows, c)] \in DOMAIN Normalize
  /\ Stairs \cap Replaceable = {}

VARIABLES
  form,       \* the schema of the definition: "ops" or "layers"
  count,      \* its operations compiled so far
  canvas,     \* [cell -> Placement] on the proposed cells
  overwrites, punches, \* the report's counters
  verdict,    \* "compiling", "built" or "rejected"
  site        \* a place looked at for the finished blueprint, or NoSite

opsVars == <<form, count, canvas, overwrites, punches, verdict, site>>

NoSite == [world |-> <<>>, rotation |-> 0]

OpsTypeOK ==
  /\ form \in {"ops", "layers"} /\ count \in 0 .. MaxOperations
  /\ DOMAIN canvas \subseteq Cell /\ \A c \in DOMAIN canvas : canvas[c] \in Placement
  /\ overwrites \in Nat /\ punches \in Nat
  /\ verdict \in {"compiling", "built", "rejected"}
  /\ site.rotation \in Rotations

(* What has been proposed fits in the limits after every operation.        *)
LimitsKept ==
  /\ DOMAIN canvas \subseteq Coordinate \X Coordinate \X Coordinate
  /\ IsFiniteSet(DOMAIN canvas) /\ Cardinality(DOMAIN canvas) <= MaxWorldCells

-----------------------------------------------------------------------------
(* The cells of an operation that draws.                                   *)

Plain(b) == [block |-> b, facing |-> "none", half |-> "none"]

RadiusOf(op) == IF op.op \in {"cylinder", "disc", "ring", "dome", "spiralStairs"} THEN op.radius ELSE 0

Shape(op) ==
  CASE op.op = "put"          -> {op.at}
    [] op.op = "box"          -> Box(op.from, op.to, op.mode)
    [] op.op = "walls"        -> Walls(op.from, op.to, op.thickness)
    [] op.op = "floor"        -> Floor(op.from, op.to)
    [] op.op = "cylinder"     -> Cylinder(op.center, op.radius, op.height, op.mode)
    [] op.op = "disc"         -> Cylinder(op.center, op.radius, 1, "filled")
    [] op.op = "ring"         -> Cylinder(op.center, op.radius, 1, "hollow")
    [] op.op = "gableRoof"    -> GableRoof(op.from, op.to, op.ridge)
    [] op.op = "dome"         -> Dome(op.center, op.radius, op.mode, op.thickness)
    [] op.op = "spiralStairs" -> {SpiralCell(op, step) : step \in 0 .. op.height - 1}

(* One step of a spiral is one level up, so the level tells the step.      *)
Drawn(op) ==
  LET b == Normalize[op.block]
  IN  [c \in Shape(op) |->
         IF op.op = "spiralStairs" /\ b \in Stairs
         THEN [block |-> b, facing |-> SpiralFacing(op, c[2] - op.center[2]), half |-> "bottom"]
         ELSE Plain(b)]

Within(op) == {c \in DOMAIN canvas : InBounds(c, op.from, op.to)}

(* The glass of a window never inherits the facing of a stair.             *)
Glazing(op) == [c \in Within(op) |-> Plain(Normalize[op.block])]

(* Every placement of a snapshot, where the operation takes it.  Two cells *)
(* never meet: TransformsKeepApart.                                        *)
MovedPlacement(op, p) == [p EXCEPT !.facing = MovedFacing(op, p.facing)]

Moved(op) ==
  [d \in {MovedCell(op, c) : c \in Within(op)} |->
     MovedPlacement(op, canvas[CHOOSE c \in Within(op) : MovedCell(op, c) = d])]

DrawnCells(layer) == {c \in LayerCells(layer.y, layer.rows) : CharacterAt(layer.rows, c) \notin Skip}
DrawnLayer(layer) ==
  [c \in DrawnCells(layer) |-> Plain(Normalize[layer.palette[CharacterAt(layer.rows, c)]])]

-----------------------------------------------------------------------------
(* The canvas.                                                             *)

Overlay(new, old) ==
  [c \in DOMAIN new \cup DOMAIN old |-> IF c \in DOMAIN new THEN new[c] ELSE old[c]]

Without(cells) == [c \in DOMAIN canvas \ cells |-> canvas[c]]

ProjectedSize(batch) == Cardinality(DOMAIN canvas) + Cardinality(DOMAIN batch \ DOMAIN canvas)

ValidStage(batch) ==
  /\ Cardinality(DOMAIN batch) <= MaxCellsPerOperation
  /\ DOMAIN batch \subseteq Coordinate \X Coordinate \X Coordinate
  /\ ProjectedSize(batch) <= MaxWorldCells

Apply(batch) ==
  /\ canvas' = Overlay(batch, canvas)
  /\ overwrites' = overwrites + Cardinality(DOMAIN batch \cap DOMAIN canvas)
  /\ punches' = punches

Reject ==
  /\ verdict' = "rejected"
  /\ UNCHANGED <<count, canvas, overwrites, punches>>

Write(batch) ==
  IF ValidStage(batch)
  THEN Apply(batch) /\ count' = count + 1 /\ verdict' = verdict
  ELSE Reject

Continue ==
  /\ count' = count + 1
  /\ UNCHANGED <<canvas, overwrites, punches, verdict>>

-----------------------------------------------------------------------------
(* One operation each (compileCompactDefinition, compileAsciiDefinition).  *)

Compiles(f) ==
  /\ verdict = "compiling" /\ form = f
  /\ UNCHANGED <<form, site>>

Punch(op) ==
  /\ op.op = "punch" /\ Compiles("ops") /\ count < MaxOperations
  /\ canvas' = Without(Within(op))
  /\ punches' = punches + Cardinality(Within(op))
  /\ count' = count + 1
  /\ UNCHANGED <<overwrites, verdict>>

(* Window removes its cells before it writes the glass: nothing is         *)
(* overwritten.                                                            *)
Window(op) ==
  /\ op.op = "window" /\ Compiles("ops") /\ count < MaxOperations
  /\ IF Normalize[op.block] = "refused" THEN Reject
     ELSE IF Within(op) = {} THEN Continue
     ELSE IF ~ValidStage(Glazing(op)) THEN Reject
     ELSE /\ canvas' = Overlay(Glazing(op), Without(Within(op)))
          /\ punches' = punches + Cardinality(Within(op))
          /\ count' = count + 1
          /\ UNCHANGED <<overwrites, verdict>>

Transform(op) ==
  /\ op.op \in Moving /\ Compiles("ops") /\ count < MaxOperations
  /\ IF Within(op) = {} THEN Continue ELSE Write(Moved(op))

Draw(op) ==
  /\ op.op \in Drawable /\ Compiles("ops") /\ count < MaxOperations
  /\ IF RadiusOf(op) > MaxRadius \/ Normalize[op.block] = "refused" THEN Reject
     ELSE Write(Drawn(op))

DrawLayer(layer) ==
  /\ Compiles("layers") /\ count < MaxOperations
  /\ IF \E c \in DrawnCells(layer) :
          Normalize[layer.palette[CharacterAt(layer.rows, c)]] = "refused"
     THEN Reject ELSE Write(DrawnLayer(layer))

(* No operation is left: a design without a cell is refused too.           *)
Finalize ==
  /\ verdict = "compiling"
  /\ verdict' = IF DOMAIN canvas = {} THEN "rejected" ELSE "built"
  /\ UNCHANGED <<form, count, canvas, overwrites, punches, site>>

RequiredAccess ==
  IF \E c \in DOMAIN canvas : canvas[c].block \in Hazardous THEN "owner" ELSE "operator"

-----------------------------------------------------------------------------
(* A place for the blueprint, at an origin of <<0, 0, 0>>: the judgements  *)
(* depend on positions only by their differences from the origin.          *)

Origin == <<0, 0, 0>>
At(c)    == WorldPosition(c, Origin, site.rotation)
Below(c) == Plus(At(c), <<0, -1, 0>>)
Seen(d)  == site.world[d]

MinimumAnchorY == CHOOSE y \in Coordinate : /\ \E c \in DOMAIN canvas : c[2] = y
                                            /\ \A c \in DOMAIN canvas : y <= c[2]
Lowest == {c \in DOMAIN canvas : c[2] = MinimumAnchorY}

MatchesPlacementHint(look, p, rotation) ==
  /\ p.facing # "none" => look.facing = RotateCardinal(p.facing, rotation)
  /\ p.half # "none" => look.half = p.half

(* Mutant of SiteMatches: the block's name is enough before the build.     *)
SiteMatchesName(c) == Seen(At(c)).name = canvas[c].block

SiteMatches(c) ==
  /\ Seen(At(c)).name = canvas[c].block
  /\ MatchesPlacementHint(Seen(At(c)), canvas[c], site.rotation)

(* analyzeBuildSite: the cells of each of its counts.                      *)
Correct == {c \in DOMAIN canvas : Seen(At(c)) # Unloaded /\ SiteMatches(c)}
Pending ==
  {c \in DOMAIN canvas : /\ Seen(At(c)) # Unloaded /\ ~SiteMatches(c)
                         /\ Seen(At(c)).name \in Replaceable}
Blocked ==
  {c \in DOMAIN canvas : /\ Seen(At(c)) # Unloaded /\ ~SiteMatches(c)
                         /\ Seen(At(c)).name \notin Replaceable}
Unsupported ==
  {c \in Pending \cap Lowest : ~Seen(Below(c)).solid \/ Seen(Below(c)).name \in Replaceable}
Safe ==
  /\ Blocked = {} /\ Unsupported = {}
  /\ \A c \in DOMAIN canvas : Seen(At(c)) # Unloaded

(* verifyBlueprintWorld: the cells of each of its counts.                  *)
NamedRight == {c \in DOMAIN canvas : Seen(At(c)) # Unloaded /\ Seen(At(c)).name = canvas[c].block}
StateMismatched ==
  {c \in NamedRight : ~MatchesPlacementHint(Seen(At(c)), canvas[c], site.rotation)}
NamedWrong  == {c \in DOMAIN canvas \ NamedRight : Seen(At(c)) # Unloaded}
Missing     == {c \in NamedWrong : Seen(At(c)).name \in Replaceable}
Conflicting == {c \in NamedWrong : Seen(At(c)).name \notin Replaceable}
Matches ==
  /\ Missing = {} /\ Conflicting = {} /\ StateMismatched = {}
  /\ \A c \in DOMAIN canvas : Seen(At(c)) # Unloaded

(* Somebody looks at a place, one in a behaviour: the client sees anything *)
(* there.                                                                  *)
Footprint(rotation) ==
  LET at(c) == WorldPosition(c, Origin, rotation)
  IN  {at(c) : c \in DOMAIN canvas} \cup {Plus(at(c), <<0, -1, 0>>) : c \in Lowest}

CONSTANT MaxSurveyed \* bound: only blueprints of so many cells are looked at

Survey ==
  /\ verdict = "built" /\ site = NoSite /\ Cardinality(DOMAIN canvas) <= MaxSurveyed
  /\ \E rotation \in Rotations : \E world \in [Footprint(rotation) -> Looks] :
       site' = [world |-> world, rotation |-> rotation]
  /\ UNCHANGED <<form, count, canvas, overwrites, punches, verdict>>

-----------------------------------------------------------------------------

OpsInit ==
  /\ form \in {"ops", "layers"} /\ count = 0
  /\ canvas = <<>> /\ overwrites = 0 /\ punches = 0
  /\ verdict = "compiling" /\ site = NoSite

OpsNext ==
  \/ \E op \in Ops : Punch(op) \/ Window(op) \/ Transform(op) \/ Draw(op)
  \/ \E layer \in Layers : DrawLayer(layer)
  \/ Finalize
  \/ Survey

OpsSpec == OpsInit /\ [][OpsNext]_opsVars

-----------------------------------------------------------------------------
(* Properties.                                                             *)

Turn(turns) == [op |-> "rotate", pivot |-> Origin, turns |-> turns]

(* A design that is turned by the definition's own rotate and one that is  *)
(* turned when it is placed stand in the same cells and face the same way, *)
(* and whatever is moved still faces the neighbour it faced: geometry.ts,  *)
(* site.ts and the skill turn positions and facings each in its own way.   *)
OneTurn ==
  \A c \in DOMAIN canvas :
    LET f == canvas[c].facing
    IN  /\ \A turns \in 1 .. 3 :
             /\ WorldPosition(c, Origin, 90 * turns) = MovedCell(Turn(turns), c)
             /\ RotateCardinal(f, 90 * turns) = MovedFacing(Turn(turns), f)
        /\ \A op \in {op \in Ops : op.op \in Moving} :
             MovedCell(op, Plus(c, Ahead(f))) = Plus(MovedCell(op, c), Ahead(MovedFacing(op, f)))

(* The look before the first block and the one after the last judge alike: *)
(* nothing that stops the build is a cell the verifier would have called   *)
(* built or merely missing, and a place is finished for the one exactly    *)
(* when it is for the other.                                               *)
SameJudgement ==
  site # NoSite =>
    /\ Matches <=> Correct = DOMAIN canvas
    /\ Pending = Missing /\ Blocked = Conflicting \cup StateMismatched
    /\ Matches => Safe

(* A hollow shape has no hole: a cell inside it has no neighbour outside.  *)
(* (A cylinder has neither floor nor ceiling, a dome has no floor.)  It is *)
(* about shapes alone, so one state is enough to look at it.               *)
Sideways == {<<1, 0, 0>>, <<-1, 0, 0>>, <<0, 0, 1>>, <<0, 0, -1>>}

Closed(hollow, filled, ways) ==
  /\ hollow \subseteq filled
  /\ \A c \in filled \ hollow : \A d \in ways : Plus(c, d) \in filled

HollowIsClosed ==
  count = 0 => \A r \in 1 .. MaxRadius :
    /\ Closed(Cylinder(Origin, r, 1, "hollow"), Cylinder(Origin, r, 1, "filled"), Sideways)
    /\ \A thickness \in 1 .. 2 :
         Closed(Dome(Origin, r, "hollow", thickness), Dome(Origin, r, "filled", thickness),
                Sideways \cup {<<0, 1, 0>>})

\* Every part of the code turns a position the same way, and the hollow shapes
\* have no hole at any radius (OneTurn and HollowIsClosed).
ShapesAreTrue == OneTurn /\ HollowIsClosed

=============================================================================
