----------------------------- MODULE PlansProofs -----------------------------
(***************************************************************************)
(* The two compilers.                                                      *)
(*                                                                         *)
(* First part (BuildOps): whatever operations a definition holds, its      *)
(* cells stay in the limits, the two judgements of a place agree, each     *)
(* part of the code turns a position the same way, and a hollow shape has  *)
(* no hole at any radius.                                                  *)
(*                                                                         *)
(* Second part (MissionCompiler): a script of any length is accepted       *)
(* exactly when its steps and its sums are, what is accepted is what the   *)
(* store takes, and a job builds what its script was compiled with, for a  *)
(* player whose role covers it, whatever happens to the tables in between. *)
(***************************************************************************)
EXTENDS Plans, FiniteSetTheorems, WellFoundedInduction, TLAPS

(* The invariant: what has been proposed is in the limits, and only stairs *)
(* were asked to face somewhere.                                           *)

Asked(p) == p.facing # "none" \/ p.half # "none" => p.block \in Stairs

\* What an operation may write: cells in the limits, and a hint only on stairs.
Sound(batch) ==
  /\ \A c \in DOMAIN batch : batch[c] \in Placement /\ Asked(batch[c])

HintsAreStairs == \A c \in DOMAIN canvas : Asked(canvas[c])

OpsIInv == OpsTypeOK /\ LimitsKept /\ HintsAreStairs

Space == Coordinate \X Coordinate \X Coordinate

LEMMA SpaceIsFinite == IsFiniteSet(Space) /\ Space \subseteq Cell
<1> DEFINE line == Coordinate
           f == [p \in (line \X line) \X line |-> <<p[1][1], p[1][2], p[2]>>]
<1>1. IsFiniteSet(line) /\ line \subseteq Int
  BY FS_Interval, BuildAssumption DEF Coordinate
<1>2. IsFiniteSet((line \X line) \X line)
  BY <1>1, FS_Product
<1>3. f \in Surjection((line \X line) \X line, Space)
  <2>1. f \in [(line \X line) \X line -> Space]
    BY DEF Space
  <2>2. ASSUME NEW t \in Space PROVE \E p \in (line \X line) \X line : f[p] = t
    <3> DEFINE q == <<<<t[1], t[2]>>, t[3]>>
    <3>1. q \in (line \X line) \X line /\ f[q] = t
      BY DEF Space
    <3> QED BY <3>1
  <2> QED BY <2>1, <2>2 DEF Surjection
<1>4. IsFiniteSet(Space)
  BY <1>2, <1>3, FS_Surjection
<1> QED BY <1>4, <1>1 DEF Space, Cell

LEMMA CanvasInSpace ==
  ASSUME OpsIInv
  PROVE  /\ IsFiniteSet(DOMAIN canvas) /\ Cardinality(DOMAIN canvas) \in Nat
         /\ \A c \in DOMAIN canvas : canvas[c] \in Placement
         /\ DOMAIN canvas \subseteq Space /\ DOMAIN canvas \subseteq Cell
BY FS_CardinalityType, SpaceIsFinite DEF OpsIInv, OpsTypeOK, LimitsKept, Space

LEMMA WriteKeeps ==
  ASSUME OpsIInv, NEW batch, Sound(batch), count < MaxOperations, Write(batch), form' = form, site' = site
  PROVE  OpsIInv'
<1>0. MaxOperations \in Nat /\ MaxWorldCells \in Nat
  BY BuildAssumption
<1> USE <1>0
<1>1. CASE ~ValidStage(batch)
  BY <1>1 DEF OpsIInv, OpsTypeOK, LimitsKept, HintsAreStairs, Write, Reject
<1>2. CASE ValidStage(batch)
  <2>0. canvas' = Overlay(batch, canvas) /\ count' = count + 1 /\ verdict' = verdict
        /\ overwrites' = overwrites + Cardinality(DOMAIN batch \cap DOMAIN canvas) /\ punches' = punches
    BY <1>2 DEF Write, Apply
  <2>1. DOMAIN canvas' = DOMAIN batch \cup DOMAIN canvas
    BY <2>0 DEF Overlay
  <2>2. \A c \in DOMAIN canvas' : canvas'[c] \in Placement /\ Asked(canvas'[c])
    BY <2>0, <2>1 DEF Overlay, Sound, OpsIInv, OpsTypeOK, HintsAreStairs
  <2>3. DOMAIN batch \subseteq Space
    BY <1>2 DEF ValidStage, Space
  <2>4. IsFiniteSet(DOMAIN batch)
    BY <2>3, SpaceIsFinite, FS_Subset
  <2>5. /\ IsFiniteSet(DOMAIN canvas') 
        /\ Cardinality(DOMAIN canvas') = Cardinality(DOMAIN canvas) + Cardinality(DOMAIN batch \ DOMAIN canvas)
    <3>1. DOMAIN canvas' = DOMAIN canvas \cup (DOMAIN batch \ DOMAIN canvas)
      BY <2>1
    <3>2. DOMAIN canvas \cap (DOMAIN batch \ DOMAIN canvas) = {}
      OBVIOUS
    <3>3. IsFiniteSet(DOMAIN batch \ DOMAIN canvas)
      BY <2>4, FS_Difference
    <3>4. Cardinality(DOMAIN canvas) \in Nat /\ Cardinality(DOMAIN batch \ DOMAIN canvas) \in Nat
      BY <3>3, CanvasInSpace, FS_CardinalityType
    <3>5. /\ IsFiniteSet(DOMAIN canvas \cup (DOMAIN batch \ DOMAIN canvas))
          /\ Cardinality(DOMAIN canvas \cup (DOMAIN batch \ DOMAIN canvas))
               = Cardinality(DOMAIN canvas) + Cardinality(DOMAIN batch \ DOMAIN canvas)
                 - Cardinality(DOMAIN canvas \cap (DOMAIN batch \ DOMAIN canvas))
      BY <3>3, CanvasInSpace, FS_Union
    <3>6. Cardinality(DOMAIN canvas \cap (DOMAIN batch \ DOMAIN canvas)) = 0
      BY <3>2, FS_EmptySet
    <3> QED BY <3>1, <3>4, <3>5, <3>6
  <2>6. LimitsKept'
    <3>1. Cardinality(DOMAIN canvas') <= MaxWorldCells
      BY <2>5, <1>2 DEF ValidStage, ProjectedSize
    <3> QED BY <3>1, <2>5, <2>1, <2>3, CanvasInSpace DEF LimitsKept, Space
  <2>7. overwrites' \in Nat /\ punches' \in Nat
    <3>1. Cardinality(DOMAIN batch \cap DOMAIN canvas) \in Nat
      BY <2>4, FS_Intersection, FS_CardinalityType
    <3> QED BY <3>1, <2>0 DEF OpsIInv, OpsTypeOK
  <2>8. OpsTypeOK'
    <3>1. DOMAIN canvas' \subseteq Cell
      BY <2>1, <2>3, SpaceIsFinite, CanvasInSpace
    <3>2. count' \in 0 .. MaxOperations
      BY <2>0 DEF OpsIInv, OpsTypeOK
    <3> QED BY <3>1, <3>2, <2>2, <2>7, <2>0 DEF OpsIInv, OpsTypeOK
  <2> QED BY <2>2, <2>6, <2>8 DEF OpsIInv, HintsAreStairs
<1> QED BY <1>1, <1>2

LEMMA FacingsStay ==
  ASSUME NEW op \in Ops, op.op \in Moving, NEW f \in Facings
  PROVE  MovedFacing(op, f) \in Facings /\ (MovedFacing(op, f) # "none" <=> f # "none")
<1>1. CASE op.op = "copy"
  BY <1>1 DEF MovedFacing
<1>2. CASE op.op = "rotate"
  <2>1. op.turns \in 1 .. 3
    BY <1>2, OpsAssumption
  <2>2. \A g \in Facings : RotateFacing(g) \in Facings /\ (RotateFacing(g) # "none" <=> g # "none")
    BY DEF RotateFacing, Facings, Cardinals
  <2>3. MovedFacing(op, f) = TurnFacing(f, op.turns)
    BY <1>2 DEF MovedFacing
  <2> QED BY <2>1, <2>2, <2>3 DEF TurnFacing
<1>3. CASE op.op = "mirror"
  <2>1. MovedFacing(op, f) = MirrorFacing(f, op.axis)
    BY <1>3 DEF MovedFacing
  <2> QED BY <2>1 DEF MirrorFacing, Facings, Cardinals
<1> QED BY <1>1, <1>2, <1>3 DEF Moving

LEMMA BlocksNamed ==
  ASSUME NEW b \in DOMAIN Normalize, Normalize[b] # "refused"
  PROVE  /\ Plain(Normalize[b]) \in Placement /\ Asked(Plain(Normalize[b]))
         /\ Normalize[b] \in Blocks
BY DEF Plain, Asked, Placement, Blocks, Facings, Halves

LEMMA PlainKeeps ==
  ASSUME NEW layer \in Layers,
         \A c \in DrawnCells(layer) : Normalize[layer.palette[CharacterAt(layer.rows, c)]] # "refused"
  PROVE  Sound(DrawnLayer(layer))
<1>1. ASSUME NEW c \in DrawnCells(layer)
      PROVE  LET p == Plain(Normalize[layer.palette[CharacterAt(layer.rows, c)]])
             IN  p \in Placement /\ Asked(p)
  <2>1. layer.palette[CharacterAt(layer.rows, c)] \in DOMAIN Normalize
    BY OpsAssumption DEF DrawnCells
  <2> QED BY <2>1, BlocksNamed
<1> QED BY <1>1 DEF DrawnLayer, Sound

LEMMA DrawnIsSound ==
  ASSUME NEW op \in Ops, op.op \in Drawable, Normalize[op.block] # "refused"
  PROVE  Sound(Drawn(op))
<1> DEFINE b == Normalize[op.block]
           p(c) == IF op.op = "spiralStairs" /\ b \in Stairs
                   THEN [block |-> b, facing |-> SpiralFacing(op, c[2] - op.center[2]), half |-> "bottom"]
                   ELSE Plain(b)
<1>1. b \in Blocks /\ Plain(b) \in Placement /\ Asked(Plain(b))
  BY BlocksNamed, OpsAssumption
<1>2. \A s : SpiralFacing(op, s) \in Facings
  BY DEF SpiralFacing, FacingFromTangent, Facings, Cardinals
<1>3. ASSUME NEW c PROVE p(c) \in Placement /\ Asked(p(c))
  <2>1. CASE op.op = "spiralStairs" /\ b \in Stairs
    <3>1. p(c) = [block |-> b, facing |-> SpiralFacing(op, c[2] - op.center[2]), half |-> "bottom"]
      BY <2>1
    <3> HIDE DEF b, p
    <3> QED BY <3>1, <2>1, <1>1, <1>2 DEF Placement, Halves, Asked
  <2>2. CASE ~(op.op = "spiralStairs" /\ b \in Stairs)
    BY <2>2, <1>1
  <2> QED BY <2>1, <2>2
<1>4. Drawn(op) = [c \in Shape(op) |-> p(c)]
  BY DEF Drawn
<1> HIDE DEF p
<1> QED BY <1>3, <1>4 DEF Sound

LEMMA MovedIsSound ==
  ASSUME OpsIInv, NEW op \in Ops, op.op \in Moving
  PROVE  Sound(Moved(op))
<1>1. ASSUME NEW c \in DOMAIN canvas
      PROVE  MovedPlacement(op, canvas[c]) \in Placement /\ Asked(MovedPlacement(op, canvas[c]))
  <2>1. canvas[c] \in Placement /\ Asked(canvas[c])
    BY DEF OpsIInv, OpsTypeOK, HintsAreStairs
  <2>2. MovedFacing(op, canvas[c].facing) \in Facings
        /\ (MovedFacing(op, canvas[c].facing) # "none" <=> canvas[c].facing # "none")
    BY <2>1, FacingsStay DEF Placement
  <2> QED BY <2>1, <2>2 DEF MovedPlacement, Placement, Asked
<1>2. ASSUME NEW d \in {MovedCell(op, c) : c \in Within(op)}
      PROVE  (CHOOSE c \in Within(op) : MovedCell(op, c) = d) \in DOMAIN canvas
  BY DEF Within
<1> QED BY <1>1, <1>2 DEF Moved, Sound

LEMMA PunchKeeps ==
  ASSUME OpsIInv, NEW op \in Ops, Punch(op)
  PROVE  OpsIInv'
<1>1. /\ canvas' = Without(Within(op)) /\ count < MaxOperations /\ count' = count + 1
      /\ punches' = punches + Cardinality(Within(op))
      /\ UNCHANGED <<form, site, overwrites, verdict>>
  BY DEF Punch, Compiles
<1>2. DOMAIN canvas' = DOMAIN canvas \ Within(op) /\ \A c \in DOMAIN canvas' : canvas'[c] = canvas[c]
  BY <1>1 DEF Without
<1>3. Cardinality(Within(op)) \in Nat
  BY CanvasInSpace, FS_Subset, FS_CardinalityType DEF Within
<1>4. IsFiniteSet(DOMAIN canvas') /\ Cardinality(DOMAIN canvas') <= Cardinality(DOMAIN canvas)
      /\ Cardinality(DOMAIN canvas') \in Nat
  BY <1>2, CanvasInSpace, FS_Subset, FS_CardinalityType
<1>5. LimitsKept'
  BY <1>2, <1>4, CanvasInSpace, BuildAssumption DEF LimitsKept, OpsIInv
<1>6. OpsTypeOK'
  BY <1>1, <1>2, <1>3, BuildAssumption DEF OpsIInv, OpsTypeOK
<1> QED BY <1>2, <1>5, <1>6 DEF OpsIInv, HintsAreStairs

\* A window removes its cells before it writes the same ones again.
LEMMA WindowKeeps ==
  ASSUME OpsIInv, NEW op \in Ops, Window(op)
  PROVE  OpsIInv'
<1>0. op.op = "window" /\ count < MaxOperations /\ form' = form /\ site' = site
      /\ MaxOperations \in Nat
  BY BuildAssumption DEF Window, Compiles
<1>1. CASE Normalize[op.block] = "refused"
  BY <1>0, <1>1 DEF Window, Reject, OpsIInv, OpsTypeOK, LimitsKept, HintsAreStairs
<1>2. CASE Normalize[op.block] # "refused" /\ Within(op) = {}
  BY <1>0, <1>2 DEF Window, Continue, OpsIInv, OpsTypeOK, LimitsKept, HintsAreStairs
<1>3. CASE Normalize[op.block] # "refused" /\ Within(op) # {} /\ ~ValidStage(Glazing(op))
  BY <1>0, <1>3 DEF Window, Reject, OpsIInv, OpsTypeOK, LimitsKept, HintsAreStairs
<1>4. CASE Normalize[op.block] # "refused" /\ Within(op) # {} /\ ValidStage(Glazing(op))
  <2>1. /\ canvas' = Overlay(Glazing(op), Without(Within(op))) /\ count' = count + 1
        /\ punches' = punches + Cardinality(Within(op))
        /\ UNCHANGED <<overwrites, verdict>>
    BY <1>4 DEF Window
  <2>2. DOMAIN canvas' = DOMAIN canvas
    BY <2>1 DEF Overlay, Glazing, Without, Within
  <2>3. Plain(Normalize[op.block]) \in Placement /\ Asked(Plain(Normalize[op.block]))
    BY <1>4, <1>0, OpsAssumption, BlocksNamed
  <2>4. \A c \in DOMAIN canvas' : canvas'[c] = canvas[c] \/ canvas'[c] = Plain(Normalize[op.block])
    BY <2>1, <2>2 DEF Overlay, Glazing, Without, Within
  <2>5. \A c \in DOMAIN canvas' : canvas'[c] \in Placement /\ Asked(canvas'[c])
    BY <2>2, <2>3, <2>4 DEF OpsIInv, OpsTypeOK, HintsAreStairs
  <2>6. Cardinality(Within(op)) \in Nat
    BY CanvasInSpace, FS_Subset, FS_CardinalityType DEF Within
  <2>7. OpsTypeOK'
    BY <2>1, <2>2, <2>5, <2>6, <1>0 DEF OpsIInv, OpsTypeOK
  <2> QED BY <2>2, <2>5, <2>7 DEF OpsIInv, LimitsKept, HintsAreStairs
<1> QED BY <1>1, <1>2, <1>3, <1>4

LEMMA ContinueOrRejectKeeps ==
  ASSUME OpsIInv, Continue \/ Reject, count < MaxOperations, form' = form, site' = site
  PROVE  OpsIInv'
BY BuildAssumption DEF Continue, Reject, OpsIInv, OpsTypeOK, LimitsKept, HintsAreStairs

LEMMA OpsNextKeeps ==
  ASSUME OpsIInv, [OpsNext]_opsVars
  PROVE  OpsIInv'
<1>1. ASSUME NEW op \in Ops, Punch(op) PROVE OpsIInv'
  BY <1>1, PunchKeeps
<1>2. ASSUME NEW op \in Ops, Window(op) PROVE OpsIInv'
  BY <1>2, WindowKeeps
<1>3. ASSUME NEW op \in Ops, Transform(op) PROVE OpsIInv'
  BY <1>3, MovedIsSound, WriteKeeps, ContinueOrRejectKeeps DEF Transform, Compiles
<1>4. ASSUME NEW op \in Ops, Draw(op) PROVE OpsIInv'
  BY <1>4, DrawnIsSound, WriteKeeps, ContinueOrRejectKeeps DEF Draw, Compiles
<1>5. ASSUME NEW layer \in Layers, DrawLayer(layer) PROVE OpsIInv'
  BY <1>5, PlainKeeps, WriteKeeps, ContinueOrRejectKeeps DEF DrawLayer, Compiles
<1>6. CASE Finalize
  BY <1>6 DEF Finalize, OpsIInv, OpsTypeOK, LimitsKept, HintsAreStairs
<1>7. CASE Survey
  BY <1>7 DEF Survey, OpsIInv, OpsTypeOK, LimitsKept, HintsAreStairs
<1>8. CASE UNCHANGED opsVars
  BY <1>8 DEF opsVars, OpsIInv, OpsTypeOK, LimitsKept, HintsAreStairs
<1> QED BY <1>1, <1>2, <1>3, <1>4, <1>5, <1>6, <1>7, <1>8 DEF OpsNext

LEMMA OpsInitKeeps == OpsInit => OpsIInv
<1> SUFFICES ASSUME OpsInit PROVE OpsIInv
  OBVIOUS
<1>1. DOMAIN canvas = {}
  BY DEF OpsInit
<1>2. MaxWorldCells \in Nat /\ MaxOperations \in Nat
  BY BuildAssumption
<1>3. LimitsKept
  BY <1>1, <1>2, FS_EmptySet DEF LimitsKept
<1> QED BY <1>1, <1>2, <1>3 DEF OpsInit, OpsIInv, OpsTypeOK, HintsAreStairs, NoSite, Rotations

LEMMA OpsInvariance == OpsSpec => []OpsIInv
BY OpsInitKeeps, OpsNextKeeps, PTL DEF OpsSpec

-----------------------------------------------------------------------------
(* Turning: positions are moved one to one, and the cell that is ahead of  *)
(* a facing moves with it.                                                 *)

LEMMA Cancelled ==
  /\ \A i, j, k \in Int : i + k = j + k => i = j
  /\ \A i, j, k \in Int : k - i = k - j => i = j
  /\ \A i, j, k \in Int : 2 * k - i = 2 * k - j => i = j
OBVIOUS

LEMMA CellParts ==
  ASSUME NEW c \in Cell
  PROVE  c[1] \in Int /\ c[2] \in Int /\ c[3] \in Int /\ c = <<c[1], c[2], c[3]>>
BY DEF Cell

LEMMA PlusApart ==
  ASSUME NEW c \in Cell, NEW d \in Cell, NEW o \in Cell, Plus(c, o) = Plus(d, o)
  PROVE  c = d
<1>1. PICK x \in Int, y \in Int, z \in Int : c[1] = x /\ c[2] = y /\ c[3] = z
  BY CellParts
<1>2. PICK u \in Int, v \in Int, w \in Int : d[1] = u /\ d[2] = v /\ d[3] = w
  BY CellParts
<1>3. PICK i \in Int, j \in Int, k \in Int : o[1] = i /\ o[2] = j /\ o[3] = k
  BY CellParts
<1>4. /\ c[1] + o[1] = d[1] + o[1] /\ c[2] + o[2] = d[2] + o[2] /\ c[3] + o[3] = d[3] + o[3]
  BY DEF Plus
<1>5. x + i = u + i /\ y + j = v + j /\ z + k = w + k
  BY <1>1, <1>2, <1>3, <1>4
<1>6. x = u /\ y = v /\ z = w
  BY <1>5
<1> QED BY <1>6, <1>1, <1>2, CellParts

\* A quarter turn, two and three, about a pivot.
LEMMA RotatedParts ==
  ASSUME NEW c, NEW pivot, NEW turns, c[1] \in Int, c[3] \in Int, pivot[1] \in Int, pivot[3] \in Int
  PROVE  LET m == RotateCell(c, pivot, turns)
             x == c[1] - pivot[1]
             z == c[3] - pivot[3]
         IN  /\ m[2] = c[2]
             /\ turns = 1 => m[1] = pivot[1] - z /\ m[3] = pivot[3] + x
             /\ turns = 2 => m[1] = pivot[1] - x /\ m[3] = pivot[3] - z
             /\ turns = 3 => m[1] = pivot[1] + z /\ m[3] = pivot[3] - x
<1> DEFINE p == <<c[1] - pivot[1], c[3] - pivot[3]>>
           q == TurnOffset(p, turns)
<1>1. RotateCell(c, pivot, turns) = <<pivot[1] + q[1], c[2], pivot[3] + q[2]>>
  BY DEF RotateCell
<1>2. \A e : Quarter(e)[1] = -e[2] /\ Quarter(e)[2] = e[1]
  BY DEF Quarter
<1>3. turns = 1 => q = Quarter(p)
  BY DEF TurnOffset
<1>4. turns = 2 => q = Quarter(Quarter(p))
  BY DEF TurnOffset
<1>5. turns = 3 => q = Quarter(Quarter(Quarter(p)))
  BY DEF TurnOffset
<1>6. p[1] = c[1] - pivot[1] /\ p[2] = c[3] - pivot[3] /\ p[1] \in Int /\ p[2] \in Int
  OBVIOUS
<1> HIDE DEF p, q
<1>7. /\ RotateCell(c, pivot, turns)[1] = pivot[1] + q[1] /\ RotateCell(c, pivot, turns)[2] = c[2]
      /\ RotateCell(c, pivot, turns)[3] = pivot[3] + q[2]
  BY <1>1
<1>8. turns = 1 => q[1] = -p[2] /\ q[2] = p[1]
  BY <1>2, <1>3
<1>9. turns = 2 => q[1] = -p[1] /\ q[2] = -p[2]
  BY <1>2, <1>4
<1>10. turns = 3 => q[1] = p[2] /\ q[2] = -p[1]
  BY <1>2, <1>5, <1>6
<1> QED BY <1>6, <1>7, <1>8, <1>9, <1>10

\* No transform puts two cells in one place: the order in which a snapshot is
\* written does not matter.
LEMMA TransformsKeepApart ==
  ASSUME NEW op \in Ops, op.op \in Moving, NEW c \in Cell, NEW d \in Cell,
         MovedCell(op, c) = MovedCell(op, d)
  PROVE  c = d
<1> SUFFICES c[1] = d[1] /\ c[2] = d[2] /\ c[3] = d[3]
  BY CellParts
<1>0. /\ c[1] \in Int /\ c[2] \in Int /\ c[3] \in Int
      /\ d[1] \in Int /\ d[2] \in Int /\ d[3] \in Int
  BY CellParts
<1>2. CASE op.op = "copy"
  <2>1. op.offset \in Cell
    BY <1>2, OpsAssumption
  <2>2. Plus(c, op.offset) = Plus(d, op.offset)
    BY <1>2 DEF MovedCell
  <2> QED BY <2>1, <2>2, PlusApart
<1>3. CASE op.op = "rotate"
  <2>1. op.pivot[1] \in Int /\ op.pivot[2] \in Int /\ op.pivot[3] \in Int
    BY <1>3, OpsAssumption, CellParts
  <2>2. \A e : MovedCell(op, e) = RotateCell(e, op.pivot, op.turns)
    BY <1>3 DEF MovedCell
  <2>3. op.turns \in 1 .. 3
    BY <1>3, OpsAssumption
  <2>4. \A e \in Cell :
          LET m == RotateCell(e, op.pivot, op.turns)
              x == e[1] - op.pivot[1]
              z == e[3] - op.pivot[3]
          IN  /\ m[2] = e[2]
              /\ op.turns = 1 => m[1] = op.pivot[1] - z /\ m[3] = op.pivot[3] + x
              /\ op.turns = 2 => m[1] = op.pivot[1] - x /\ m[3] = op.pivot[3] - z
              /\ op.turns = 3 => m[1] = op.pivot[1] + z /\ m[3] = op.pivot[3] - x
    <3> TAKE e \in Cell
    <3>1. e[1] \in Int /\ e[3] \in Int
      BY CellParts
    <3> QED BY <3>1, <2>1, RotatedParts
  <2> QED BY <2>1, <2>2, <2>3, <2>4, <1>0
<1>4. CASE op.op = "mirror"
  <2>1. op.pivot[1] \in Int /\ op.pivot[2] \in Int /\ op.pivot[3] \in Int
    BY <1>4, OpsAssumption, CellParts
  <2>2. \A e : MovedCell(op, e) = MirrorCell(e, op.pivot, op.axis)
    BY <1>4 DEF MovedCell
  <2>3. \A e : LET m == MirrorCell(e, op.pivot, op.axis)
               IN  /\ m[2] = e[2]
                   /\ m[1] = IF op.axis = "x" THEN 2 * op.pivot[1] - e[1] ELSE e[1]
                   /\ m[3] = IF op.axis = "x" THEN e[3] ELSE 2 * op.pivot[3] - e[3]
    BY DEF MirrorCell
  <2>4. c[2] = d[2]
    BY <2>2, <2>3
  <2>5. CASE op.axis = "x"
    <3>1. 2 * op.pivot[1] - c[1] = 2 * op.pivot[1] - d[1] /\ c[3] = d[3]
      BY <2>2, <2>3, <2>5
    <3> QED BY <3>1, <2>1, <2>4, <1>0, Cancelled
  <2>6. CASE op.axis # "x"
    <3>1. 2 * op.pivot[3] - c[3] = 2 * op.pivot[3] - d[3] /\ c[1] = d[1]
      BY <2>2, <2>3, <2>6
    <3> QED BY <3>1, <2>1, <2>4, <1>0, Cancelled
  <2> QED BY <2>5, <2>6
<1> QED BY <1>2, <1>3, <1>4 DEF Moving

LEMMA AheadParts ==
  ASSUME NEW f \in Facings
  PROVE  /\ Ahead(f)[1] \in Int /\ Ahead(f)[2] = 0 /\ Ahead(f)[3] \in Int
         /\ RotateFacing(f) \in Facings
         /\ Ahead(RotateFacing(f))[1] = -Ahead(f)[3] /\ Ahead(RotateFacing(f))[3] = Ahead(f)[1]
         /\ Ahead(MirrorFacing(f, "x"))[1] = -Ahead(f)[1]
         /\ Ahead(MirrorFacing(f, "x"))[3] = Ahead(f)[3]
         /\ Ahead(MirrorFacing(f, "z"))[1] = Ahead(f)[1]
         /\ Ahead(MirrorFacing(f, "z"))[3] = -Ahead(f)[3]
<1>1. CASE f = "north"
  <2>1. /\ RotateFacing(f) = "east" /\ MirrorFacing(f, "x") = f /\ MirrorFacing(f, "z") = "south"
    BY <1>1 DEF RotateFacing, MirrorFacing
  <2>2. Ahead("north") = <<0, 0, -1>> /\ Ahead("east") = <<1, 0, 0>> /\ Ahead("south") = <<0, 0, 1>>
    BY DEF Ahead
  <2> QED BY <2>1, <2>2, <1>1 DEF Facings, Cardinals
<1>2. CASE f = "east"
  <2>1. /\ RotateFacing(f) = "south" /\ MirrorFacing(f, "x") = "west" /\ MirrorFacing(f, "z") = f
    BY <1>2 DEF RotateFacing, MirrorFacing
  <2>2. Ahead("east") = <<1, 0, 0>> /\ Ahead("south") = <<0, 0, 1>> /\ Ahead("west") = <<-1, 0, 0>>
    BY DEF Ahead
  <2> QED BY <2>1, <2>2, <1>2 DEF Facings, Cardinals
<1>3. CASE f = "south"
  <2>1. /\ RotateFacing(f) = "west" /\ MirrorFacing(f, "x") = f /\ MirrorFacing(f, "z") = "north"
    BY <1>3 DEF RotateFacing, MirrorFacing
  <2>2. Ahead("north") = <<0, 0, -1>> /\ Ahead("south") = <<0, 0, 1>> /\ Ahead("west") = <<-1, 0, 0>>
    BY DEF Ahead
  <2> QED BY <2>1, <2>2, <1>3 DEF Facings, Cardinals
<1>4. CASE f = "west"
  <2>1. /\ RotateFacing(f) = "north" /\ MirrorFacing(f, "x") = "east" /\ MirrorFacing(f, "z") = f
    BY <1>4 DEF RotateFacing, MirrorFacing
  <2>2. Ahead("north") = <<0, 0, -1>> /\ Ahead("east") = <<1, 0, 0>> /\ Ahead("west") = <<-1, 0, 0>>
    BY DEF Ahead
  <2> QED BY <2>1, <2>2, <1>4 DEF Facings, Cardinals
<1>5. CASE f = "none"
  <2>1. /\ RotateFacing(f) = "none" /\ MirrorFacing(f, "x") = f /\ MirrorFacing(f, "z") = f
    BY <1>5 DEF RotateFacing, MirrorFacing
  <2>2. Ahead("none") = <<0, 0, 0>>
    BY DEF Ahead
  <2> QED BY <2>1, <2>2, <1>5 DEF Facings, Cardinals
<1> QED BY <1>1, <1>2, <1>3, <1>4, <1>5 DEF Facings, Cardinals

LEMMA TurnedAlike ==
  ASSUME NEW c \in Cell, NEW f \in Facings, NEW turns \in 1 .. 3
  PROVE  /\ WorldPosition(c, Origin, 90 * turns) = MovedCell(Turn(turns), c)
         /\ RotateCardinal(f, 90 * turns) = MovedFacing(Turn(turns), f)
<1>1. MovedCell(Turn(turns), c) = RotateCell(c, Origin, turns) /\ MovedFacing(Turn(turns), f) = TurnFacing(f, turns)
  BY DEF MovedCell, MovedFacing, Turn
<1>2. c[1] \in Int /\ c[2] \in Int /\ c[3] \in Int /\ Origin[1] = 0 /\ Origin[2] = 0 /\ Origin[3] = 0
  BY CellParts DEF Origin
<1>3. RotateCell(c, Origin, turns) = <<RotateCell(c, Origin, turns)[1], RotateCell(c, Origin, turns)[2],
                                       RotateCell(c, Origin, turns)[3]>>
  BY DEF RotateCell
<1>4. ASSUME NEW p, RotateBlueprintOffset(<<c[1], c[3]>>, 90 * turns) = p, p[1] \in Int, p[2] \in Int,
             RotateCell(c, Origin, turns)[1] = p[1], RotateCell(c, Origin, turns)[3] = p[2]
      PROVE  WorldPosition(c, Origin, 90 * turns) = RotateCell(c, Origin, turns)
  <2>1. WorldPosition(c, Origin, 90 * turns) = <<Origin[1] + p[1], Origin[2] + c[2], Origin[3] + p[2]>>
    BY <1>4 DEF WorldPosition
  <2>2. Origin[1] + p[1] = p[1] /\ Origin[2] + c[2] = c[2] /\ Origin[3] + p[2] = p[2]
    BY <1>4, <1>2
  <2>3. RotateCell(c, Origin, turns)[2] = c[2]
    BY <1>2, RotatedParts
  <2> QED BY <2>1, <2>2, <2>3, <1>3, <1>4
<1>5. WorldPosition(c, Origin, 90 * turns) = RotateCell(c, Origin, turns)
  <2>0. /\ turns = 1 => RotateCell(c, Origin, turns)[1] = -c[3] /\ RotateCell(c, Origin, turns)[3] = c[1]
        /\ turns = 2 => RotateCell(c, Origin, turns)[1] = -c[1] /\ RotateCell(c, Origin, turns)[3] = -c[3]
        /\ turns = 3 => RotateCell(c, Origin, turns)[1] = c[3] /\ RotateCell(c, Origin, turns)[3] = -c[1]
    BY <1>2, RotatedParts
  <2>1. CASE turns = 1
    <3>1. RotateBlueprintOffset(<<c[1], c[3]>>, 90 * turns) = <<-c[3], c[1]>>
      BY <2>1 DEF RotateBlueprintOffset
    <3> QED BY <3>1, <2>0, <2>1, <1>2, <1>4
  <2>2. CASE turns = 2
    <3>1. RotateBlueprintOffset(<<c[1], c[3]>>, 90 * turns) = <<-c[1], -c[3]>>
      BY <2>2 DEF RotateBlueprintOffset
    <3> QED BY <3>1, <2>0, <2>2, <1>2, <1>4
  <2>3. CASE turns = 3
    <3>1. RotateBlueprintOffset(<<c[1], c[3]>>, 90 * turns) = <<c[3], -c[1]>>
      BY <2>3 DEF RotateBlueprintOffset
    <3> QED BY <3>1, <2>0, <2>3, <1>2, <1>4
  <2> QED BY <2>1, <2>2, <2>3
<1>6. RotateCardinal(f, 90 * turns) = TurnFacing(f, turns)
  <2>1. /\ IndexOf("north") = 1 /\ IndexOf("east") = 2 /\ IndexOf("south") = 3 /\ IndexOf("west") = 4
    BY DEF IndexOf, Clockwise
  <2>2. (90 * turns) \div 90 = turns
    OBVIOUS
  <2>3. RotateCardinal(f, 90 * turns) = IF f = "none" THEN f ELSE Clockwise[((IndexOf(f) - 1 + turns) % 4) + 1]
    BY <2>2 DEF RotateCardinal
  <2>4. /\ Clockwise[1] = "north" /\ Clockwise[2] = "east" /\ Clockwise[3] = "south" /\ Clockwise[4] = "west"
    BY DEF Clockwise
  <2>5. /\ RotateFacing("north") = "east" /\ RotateFacing("east") = "south" /\ RotateFacing("south") = "west"
        /\ RotateFacing("west") = "north" /\ RotateFacing("none") = "none"
    BY DEF RotateFacing
  <2>6. /\ turns = 1 => TurnFacing(f, turns) = RotateFacing(f)
        /\ turns = 2 => TurnFacing(f, turns) = RotateFacing(RotateFacing(f))
        /\ turns = 3 => TurnFacing(f, turns) = RotateFacing(RotateFacing(RotateFacing(f)))
    BY DEF TurnFacing
  <2>7. CASE f = "none"
    BY <2>3, <2>5, <2>6, <2>7
  <2>8. CASE f = "north"
    BY <2>1, <2>3, <2>4, <2>5, <2>6, <2>8
  <2>9. CASE f = "east"
    BY <2>1, <2>3, <2>4, <2>5, <2>6, <2>9
  <2>10. CASE f = "south"
    BY <2>1, <2>3, <2>4, <2>5, <2>6, <2>10
  <2>11. CASE f = "west"
    BY <2>1, <2>3, <2>4, <2>5, <2>6, <2>11
  <2> QED BY <2>7, <2>8, <2>9, <2>10, <2>11 DEF Facings, Cardinals
<1> QED BY <1>1, <1>5, <1>6

LEMMA PlusParts ==
  ASSUME NEW c, NEW d
  PROVE  /\ Plus(c, d)[1] = c[1] + d[1] /\ Plus(c, d)[2] = c[2] + d[2] /\ Plus(c, d)[3] = c[3] + d[3]
         /\ Plus(c, d) = <<Plus(c, d)[1], Plus(c, d)[2], Plus(c, d)[3]>>
BY DEF Plus

\* Whatever an operation moves still faces the neighbour it faced.
LEMMA FacesTheSame ==
  ASSUME NEW op \in Ops, op.op \in Moving, NEW c \in Cell, NEW f \in Facings
  PROVE  MovedCell(op, Plus(c, Ahead(f))) = Plus(MovedCell(op, c), Ahead(MovedFacing(op, f)))
<1> DEFINE a == Ahead(f)
           b == Ahead(MovedFacing(op, f))
           m == MovedCell(op, c)
           n == MovedCell(op, Plus(c, Ahead(f)))
<1>0. /\ c[1] \in Int /\ c[2] \in Int /\ c[3] \in Int
      /\ a[1] \in Int /\ a[2] = 0 /\ a[3] \in Int
  BY CellParts, AheadParts
<1>1. /\ Plus(c, a)[1] = c[1] + a[1] /\ Plus(c, a)[2] = c[2] /\ Plus(c, a)[3] = c[3] + a[3]
      /\ Plus(c, a)[1] \in Int /\ Plus(c, a)[2] \in Int /\ Plus(c, a)[3] \in Int
  BY <1>0, PlusParts
<1>2. Plus(m, b) = <<m[1] + b[1], m[2] + b[2], m[3] + b[3]>>
  BY DEF Plus
<1>3. ASSUME n = <<n[1], n[2], n[3]>>, n[1] = m[1] + b[1], n[2] = m[2] + b[2], n[3] = m[3] + b[3]
      PROVE  n = Plus(m, b)
  BY <1>2, <1>3
<1>4. CASE op.op = "copy"
  <2>1. \A e : MovedCell(op, e) = Plus(e, op.offset)
    BY <1>4 DEF MovedCell
  <2>2. b = a
    BY <1>4 DEF MovedFacing
  <2>3. PICK o \in Cell : o = op.offset
    BY <1>4, OpsAssumption
  <2>4. o[1] \in Int /\ o[2] \in Int /\ o[3] \in Int
    BY CellParts
  <2>5. n = <<n[1], n[2], n[3]>>
    BY <2>1, PlusParts
  <2>6. /\ n[1] = Plus(c, a)[1] + o[1] /\ n[2] = Plus(c, a)[2] + o[2] /\ n[3] = Plus(c, a)[3] + o[3]
        /\ m[1] = c[1] + o[1] /\ m[2] = c[2] + o[2] /\ m[3] = c[3] + o[3]
    BY <2>1, <2>3, PlusParts
  <2> HIDE DEF a, b, m, n
  <2> QED BY <2>2, <2>4, <2>5, <2>6, <1>0, <1>1, <1>3 DEF a, b, m, n
<1>5. CASE op.op = "rotate"
  <2>1. \A e : MovedCell(op, e) = RotateCell(e, op.pivot, op.turns)
    BY <1>5 DEF MovedCell
  <2>2. PICK o \in Cell, turns \in 1 .. 3 : o = op.pivot /\ turns = op.turns
    BY <1>5, OpsAssumption
  <2>3. o[1] \in Int /\ o[2] \in Int /\ o[3] \in Int
    BY CellParts
  <2>4. MovedFacing(op, f) = TurnFacing(f, turns)
    BY <1>5, <2>2 DEF MovedFacing
  <2>5. m = RotateCell(c, o, turns) /\ n = RotateCell(Plus(c, a), o, turns)
    BY <2>1, <2>2
  <2>6. n = <<n[1], n[2], n[3]>>
    BY <2>5 DEF RotateCell
  <2>7. /\ turns = 1 => b[1] = -a[3] /\ b[2] = 0 /\ b[3] = a[1]
        /\ turns = 2 => b[1] = -a[1] /\ b[2] = 0 /\ b[3] = -a[3]
        /\ turns = 3 => b[1] = a[3] /\ b[2] = 0 /\ b[3] = -a[1]
    <3>1. /\ turns = 1 => MovedFacing(op, f) = RotateFacing(f)
          /\ turns = 2 => MovedFacing(op, f) = RotateFacing(RotateFacing(f))
          /\ turns = 3 => MovedFacing(op, f) = RotateFacing(RotateFacing(RotateFacing(f)))
      BY <2>4 DEF TurnFacing
    <3> DEFINE g == RotateFacing(f)
               h == RotateFacing(g)
               k == RotateFacing(h)
    <3>2. g \in Facings /\ Ahead(g)[1] = -a[3] /\ Ahead(g)[2] = 0 /\ Ahead(g)[3] = a[1]
      BY AheadParts
    <3>3. h \in Facings /\ Ahead(h)[1] = -Ahead(g)[3] /\ Ahead(h)[2] = 0 /\ Ahead(h)[3] = Ahead(g)[1]
      BY <3>2, AheadParts
    <3>4. Ahead(k)[1] = -Ahead(h)[3] /\ Ahead(k)[2] = 0 /\ Ahead(k)[3] = Ahead(h)[1]
      BY <3>3, AheadParts
    <3> HIDE DEF g, h, k, a
    <3> QED BY <3>1, <3>2, <3>3, <3>4, <1>0 DEF g, h, k
  <2>8. LET d == Plus(c, a) IN
        /\ m[2] = c[2] /\ n[2] = d[2]
        /\ turns = 1 => /\ m[1] = o[1] - (c[3] - o[3]) /\ m[3] = o[3] + (c[1] - o[1])
                        /\ n[1] = o[1] - (d[3] - o[3]) /\ n[3] = o[3] + (d[1] - o[1])
        /\ turns = 2 => /\ m[1] = o[1] - (c[1] - o[1]) /\ m[3] = o[3] - (c[3] - o[3])
                        /\ n[1] = o[1] - (d[1] - o[1]) /\ n[3] = o[3] - (d[3] - o[3])
        /\ turns = 3 => /\ m[1] = o[1] + (c[3] - o[3]) /\ m[3] = o[3] - (c[1] - o[1])
                        /\ n[1] = o[1] + (d[3] - o[3]) /\ n[3] = o[3] - (d[1] - o[1])
    BY <2>3, <2>5, <1>0, <1>1, RotatedParts
  <2> HIDE DEF a, b, m, n
  <2>9. n[1] = m[1] + b[1] /\ n[2] = m[2] + b[2] /\ n[3] = m[3] + b[3]
    BY <2>3, <2>7, <2>8, <1>0, <1>1
  <2> QED BY <2>6, <2>9, <1>3 DEF a, b, m, n
<1>6. CASE op.op = "mirror"
  <2>1. \A e : MovedCell(op, e) = MirrorCell(e, op.pivot, op.axis)
    BY <1>6 DEF MovedCell
  <2>2. PICK o \in Cell : o = op.pivot
    BY <1>6, OpsAssumption
  <2>3. o[1] \in Int /\ o[2] \in Int /\ o[3] \in Int
    BY CellParts
  <2>4. op.axis \in {"x", "z"} /\ MovedFacing(op, f) = MirrorFacing(f, op.axis)
    BY <1>6, OpsAssumption DEF MovedFacing
  <2>5. m = MirrorCell(c, o, op.axis) /\ n = MirrorCell(Plus(c, a), o, op.axis)
    BY <2>1, <2>2
  <2>6. n = <<n[1], n[2], n[3]>>
    BY <2>5 DEF MirrorCell
  <2>7. /\ op.axis = "x" => b[1] = -a[1] /\ b[3] = a[3]
        /\ op.axis = "z" => b[1] = a[1] /\ b[3] = -a[3]
    BY <2>4, AheadParts
  <2>8. b[2] = 0
    BY FacingsStay, AheadParts
  <2>9. \A e : LET q == MirrorCell(e, o, op.axis)
               IN  /\ q[2] = e[2]
                   /\ q[1] = IF op.axis = "x" THEN 2 * o[1] - e[1] ELSE e[1]
                   /\ q[3] = IF op.axis = "x" THEN e[3] ELSE 2 * o[3] - e[3]
    BY DEF MirrorCell
  <2> HIDE DEF a, b, m, n
  <2>10. n[1] = m[1] + b[1] /\ n[2] = m[2] + b[2] /\ n[3] = m[3] + b[3]
    BY <2>3, <2>4, <2>5, <2>7, <2>8, <2>9, <1>0, <1>1
  <2> QED BY <2>6, <2>10, <1>3 DEF a, b, m, n
<1> QED BY <1>4, <1>5, <1>6 DEF Moving

LEMMA TurnsAreOne ==
  ASSUME OpsIInv
  PROVE  OneTurn
<1>1. ASSUME NEW c \in DOMAIN canvas PROVE c \in Cell /\ canvas[c].facing \in Facings
  BY CanvasInSpace DEF Placement
<1> QED BY <1>1, TurnedAlike, FacesTheSame DEF OneTurn

-----------------------------------------------------------------------------
(* Shapes: the rim of a ring and the shell of a dome are where the filled   *)
(* shape ends.                                                             *)

LEMMA Squares ==
  /\ \A x \in Int : x * x \in Nat
  /\ \A x \in Int, r \in Nat : x * x < r * r => -r < x /\ x < r
  /\ \A x \in Int : (x + 1) * (x + 1) = x * x + 2 * x + 1
  /\ \A x \in Int : (x + (-1)) * (x + (-1)) = x * x - 2 * x + 1
<1>1. \A x \in Int : x * x \in Nat
  OBVIOUS
<1>2. ASSUME NEW x \in Int, NEW r \in Nat, x * x < r * r PROVE -r < x /\ x < r
  <2>1. ASSUME x >= r PROVE FALSE
    <3>1. x * x >= r * x /\ r * x >= r * r
      BY <2>1
    <3> QED BY <3>1, <1>2
  <2>2. ASSUME x <= -r PROVE FALSE
    <3>1. (-x) * (-x) >= r * (-x) /\ r * (-x) >= r * r /\ (-x) * (-x) = x * x
      BY <2>2
    <3> QED BY <3>1, <1>2
  <2> QED BY <2>1, <2>2
<1>3. \A x \in Int : (x + 1) * (x + 1) = x * x + 2 * x + 1
  OBVIOUS
<1>4. \A x \in Int : (x + (-1)) * (x + (-1)) = x * x - 2 * x + 1
  OBVIOUS
<1> QED BY <1>1, <1>2, <1>3, <1>4

LEMMA Inside ==
  ASSUME NEW x \in Int, NEW z \in Int, NEW r \in Nat \ {0},
         4 * (x * x + z * z) < (2 * r - 1) * (2 * r - 1)
  PROVE  /\ -r < x /\ x < r /\ -r < z /\ z < r
         /\ \A d \in {1, -1} :
              /\ 4 * ((x + d) * (x + d) + z * z) <= (2 * r + 1) * (2 * r + 1)
              /\ 4 * (x * x + (z + d) * (z + d)) <= (2 * r + 1) * (2 * r + 1)
<1> DEFINE X == x * x
           Z == z * z
           R == r * r
<1>1. (2 * r - 1) * (2 * r - 1) = 4 * R - 4 * r + 1 /\ (2 * r + 1) * (2 * r + 1) = 4 * R + 4 * r + 1
  OBVIOUS
<1>2. X \in Nat /\ Z \in Nat /\ R \in Nat
  BY Squares
<1>3. 4 * (X + Z) < 4 * R - 4 * r + 1
  BY <1>1
<1>4. X < R /\ Z < R
  <2> HIDE DEF X, Z, R
  <2> QED BY <1>2, <1>3
<1>5. -r < x /\ x < r /\ -r < z /\ z < r
  BY <1>4, Squares
<1>6. /\ (x + 1) * (x + 1) = X + 2 * x + 1 /\ (x + (-1)) * (x + (-1)) = X - 2 * x + 1
      /\ (z + 1) * (z + 1) = Z + 2 * z + 1 /\ (z + (-1)) * (z + (-1)) = Z - 2 * z + 1
  BY Squares
<1>7. /\ 4 * ((X + 2 * x + 1) + Z) <= 4 * R + 4 * r + 1 /\ 4 * ((X - 2 * x + 1) + Z) <= 4 * R + 4 * r + 1
      /\ 4 * (X + (Z + 2 * z + 1)) <= 4 * R + 4 * r + 1 /\ 4 * (X + (Z - 2 * z + 1)) <= 4 * R + 4 * r + 1
  <2> HIDE DEF X, Z, R
  <2> QED BY <1>2, <1>3, <1>5
<1> HIDE DEF R
<1> QED BY <1>1, <1>5, <1>6, <1>7

LEMMA FromOrigin == ASSUME NEW c \in Cell PROVE Plus(Origin, c) = c
BY DEF Plus, Origin, Cell

LEMMA CylinderCells ==
  ASSUME NEW r \in Nat, NEW mode, NEW S, S = IF mode = "filled" THEN DiscOffsets(r) ELSE RingOffsets(r)
  PROVE  Cylinder(Origin, r, 1, mode) = {<<p[1], 0, p[2]>> : p \in S}
<1>1. \A p \in S : p[1] \in Int /\ p[2] \in Int
  BY DEF DiscOffsets, RingOffsets, Square
<1>2. \A p \in S, y \in 0 .. 1 - 1 : y = 0 /\ Plus(Origin, <<p[1], y, p[2]>>) = <<p[1], 0, p[2]>>
  <2> TAKE p \in S, y \in 0 .. 1 - 1
  <2>1. y = 0 /\ <<p[1], y, p[2]>> \in Cell
    BY <1>1 DEF Cell
  <2> QED BY <2>1, FromOrigin
<1>3. ASSUME NEW c
      PROVE  c \in Cylinder(Origin, r, 1, mode) <=>
               \E p \in S, y \in 0 .. 1 - 1 : c = Plus(Origin, <<p[1], y, p[2]>>)
  BY DEF Cylinder
<1>4. 0 \in 0 .. 1 - 1
  OBVIOUS
<1>5. ASSUME NEW c
      PROVE  c \in Cylinder(Origin, r, 1, mode) <=> \E p \in S : c = <<p[1], 0, p[2]>>
  <2>1. ASSUME c \in Cylinder(Origin, r, 1, mode) PROVE \E p \in S : c = <<p[1], 0, p[2]>>
    <3>1. PICK p \in S, y \in 0 .. 1 - 1 : c = Plus(Origin, <<p[1], y, p[2]>>)
      BY <1>3, <2>1
    <3> QED BY <3>1, <1>2
  <2>2. ASSUME NEW p \in S, c = <<p[1], 0, p[2]>> PROVE c \in Cylinder(Origin, r, 1, mode)
    <3>1. c = Plus(Origin, <<p[1], 0, p[2]>>)
      BY <1>2, <1>4, <2>2
    <3> QED BY <3>1, <1>3, <1>4
  <2> QED BY <2>1, <2>2
<1> QED BY <1>5

LEMMA RingIsClosed ==
  ASSUME NEW r \in Nat \ {0}
  PROVE  Closed(Cylinder(Origin, r, 1, "hollow"), Cylinder(Origin, r, 1, "filled"), Sideways)
<1> DEFINE H == Cylinder(Origin, r, 1, "hollow")
           F == Cylinder(Origin, r, 1, "filled")
<1>1. H = {<<p[1], 0, p[2]>> : p \in RingOffsets(r)} /\ F = {<<p[1], 0, p[2]>> : p \in DiscOffsets(r)}
  BY CylinderCells
<1>2. RingOffsets(r) \subseteq DiscOffsets(r)
  BY DEF RingOffsets, DiscOffsets
<1>3. ASSUME NEW c \in F \ H, NEW d \in Sideways PROVE Plus(c, d) \in F
  <2>1. PICK p \in DiscOffsets(r) : c = <<p[1], 0, p[2]>>
    BY <1>1
  <2>2. p \notin RingOffsets(r)
    BY <2>1, <1>1
  <2>3. PICK x \in -r .. r, z \in -r .. r : p = <<x, z>>
    BY DEF DiscOffsets, Square
  <2>4. 4 * (x * x + z * z) < (2 * r - 1) * (2 * r - 1)
    <3>1. Distance4(p) = 4 * (x * x + z * z)
      BY <2>3 DEF Distance4
    <3>2. ~(Distance4(p) >= (2 * r - 1) * (2 * r - 1))
      BY <2>2 DEF DiscOffsets, RingOffsets
    <3>3. 4 * (x * x + z * z) \in Int /\ (2 * r - 1) * (2 * r - 1) \in Int
      OBVIOUS
    <3> QED BY <3>1, <3>2, <3>3
  <2>5. /\ -r < x /\ x < r /\ -r < z /\ z < r
        /\ \A e \in {1, -1} :
             /\ 4 * ((x + e) * (x + e) + z * z) <= (2 * r + 1) * (2 * r + 1)
             /\ 4 * (x * x + (z + e) * (z + e)) <= (2 * r + 1) * (2 * r + 1)
    BY <2>4, Inside
  <2>6. ASSUME NEW u \in Int, NEW v \in Int, -r <= u, u <= r, -r <= v, v <= r,
               4 * (u * u + v * v) <= (2 * r + 1) * (2 * r + 1)
        PROVE  <<u, 0, v>> \in F
    <3>1. <<u, v>> \in Square(r) /\ Distance4(<<u, v>>) = 4 * (u * u + v * v)
      BY <2>6 DEF Square, Distance4
    <3>2. <<u, v>> \in DiscOffsets(r)
      BY <3>1, <2>6 DEF DiscOffsets
    <3> QED BY <3>2, <1>1
  <2> HIDE DEF F, H
  <2>7. c = <<x, 0, z>>
    BY <2>1, <2>3
  <2>8. CASE d = <<1, 0, 0>> \/ d = <<-1, 0, 0>>
    <3>1. PICK e \in {1, -1} : d = <<e, 0, 0>>
      BY <2>8
    <3>2. Plus(c, d) = <<x + e, 0, z>>
      BY <2>7, <3>1 DEF Plus
    <3>3. x + e \in Int /\ -r <= x + e /\ x + e <= r
      BY <2>5
    <3> QED BY <3>2, <3>3, <2>5, <2>6
  <2>9. CASE d = <<0, 0, 1>> \/ d = <<0, 0, -1>>
    <3>1. PICK e \in {1, -1} : d = <<0, 0, e>>
      BY <2>9
    <3>2. Plus(c, d) = <<x, 0, z + e>>
      BY <2>7, <3>1 DEF Plus
    <3>3. z + e \in Int /\ -r <= z + e /\ z + e <= r
      BY <2>5
    <3> QED BY <3>2, <3>3, <2>5, <2>6
  <2> QED BY <2>8, <2>9 DEF Sideways
<1>4. H \subseteq F
  BY <1>1, <1>2
<1> QED BY <1>3, <1>4 DEF Closed

\* The test of a dome's shell, for the numbers the proof needs.
LEMMA RootNearFacts ==
  ASSUME NEW n \in Int, NEW m \in Int
  PROVE  /\ n <= m => RootNear(n, m)
         /\ ~RootNear(n, m) => m < n
BY DEF RootNear

InDome(r, mode, thickness, x, y, z) ==
  LET innerRadius == Hi(0, r - thickness)
      h == x * x + z * z
  IN  /\ x \in -r .. r /\ y \in 0 .. r /\ z \in -r .. r
      /\ RootNear(h, r * r - y * y)
      /\ mode = "filled" \/ y >= innerRadius \/ RootNear(innerRadius * innerRadius - y * y, h)

LEMMA DomeCells ==
  ASSUME NEW r \in Nat, NEW mode, NEW thickness, NEW x \in Int, NEW y \in Int, NEW z \in Int
  PROVE  <<x, y, z>> \in Dome(Origin, r, mode, thickness) <=> InDome(r, mode, thickness, x, y, z)
<1> DEFINE T == (-r .. r) \X (0 .. r) \X (-r .. r)
           innerRadius == Hi(0, r - thickness)
           outer(b) == r * r - b * b
           shell(h, b) == \/ mode = "filled" \/ b >= innerRadius
                          \/ RootNear(innerRadius * innerRadius - b * b, h)
           Q(c) == LET h == c[1] * c[1] + c[3] * c[3]
                   IN  RootNear(h, outer(c[2])) /\ shell(h, c[2])
           D == {c \in T : Q(c)}
<1>1. Dome(Origin, r, mode, thickness) = {Plus(Origin, c) : c \in D}
  BY DEF Dome
<1>2. \A c \in D : c \in Cell /\ Plus(Origin, c) = c
  <2>1. \A c \in D : c \in Cell
    BY DEF Cell
  <2> QED BY <2>1, FromOrigin
<1>3. <<x, y, z>> \in Dome(Origin, r, mode, thickness) <=> <<x, y, z>> \in D
  <2> HIDE DEF D
  <2> QED BY <1>1, <1>2
<1>4. Q(<<x, y, z>>) <=> /\ RootNear(x * x + z * z, r * r - y * y)
                         /\ shell(x * x + z * z, y)
  OBVIOUS
<1>5. <<x, y, z>> \in T <=> x \in -r .. r /\ y \in 0 .. r /\ z \in -r .. r
  OBVIOUS
<1> QED BY <1>3, <1>4, <1>5 DEF InDome

LEMMA DomeIsClosed ==
  ASSUME NEW r \in Nat \ {0}, NEW thickness \in {1, 2}
  PROVE  Closed(Dome(Origin, r, "hollow", thickness), Dome(Origin, r, "filled", thickness),
                Sideways \cup {<<0, 1, 0>>})
<1> DEFINE H == Dome(Origin, r, "hollow", thickness)
           F == Dome(Origin, r, "filled", thickness)
           i == Hi(0, r - thickness)
<1>1. ASSUME NEW c \in F \cup H
      PROVE  \E x \in -r .. r, y \in 0 .. r, z \in -r .. r : c = <<x, y, z>>
  <2>1. ASSUME NEW mode, c \in Dome(Origin, r, mode, thickness)
        PROVE  \E d \in (-r .. r) \X (0 .. r) \X (-r .. r) : c = Plus(Origin, d)
    BY <2>1 DEF Dome
  <2>2. PICK d \in (-r .. r) \X (0 .. r) \X (-r .. r) : c = Plus(Origin, d)
    BY <2>1
  <2>3. d \in Cell
    BY DEF Cell
  <2> QED BY <2>2, <2>3, FromOrigin
<1>2. ASSUME NEW c \in H PROVE c \in F
  <2>1. PICK x \in -r .. r, y \in 0 .. r, z \in -r .. r : c = <<x, y, z>>
    BY <1>1
  <2>2. InDome(r, "hollow", thickness, x, y, z)
    BY <2>1, DomeCells
  <2>3. InDome(r, "filled", thickness, x, y, z)
    BY <2>2 DEF InDome
  <2> QED BY <2>1, <2>3, DomeCells
<1>3. ASSUME NEW c \in F \ H, NEW d \in Sideways \cup {<<0, 1, 0>>} PROVE Plus(c, d) \in F
  <2>1. PICK x \in -r .. r, y \in 0 .. r, z \in -r .. r : c = <<x, y, z>>
    BY <1>1
  <2>2. InDome(r, "filled", thickness, x, y, z) /\ ~InDome(r, "hollow", thickness, x, y, z)
    BY <2>1, DomeCells
  <2> DEFINE h == x * x + z * z
  <2>3. ~(y >= i) /\ ~RootNear(i * i - y * y, h)
    BY <2>2 DEF InDome
  <2>4. i \in Nat /\ i <= r - 1
    <3>1. i = IF 0 <= r - thickness THEN r - thickness ELSE 0
      BY DEF Hi
    <3> HIDE DEF i
    <3> QED BY <3>1
  <2>5. h < i * i - y * y
    <3>1. h \in Int /\ i * i - y * y \in Int
      BY <2>4, Squares
    <3> HIDE DEF h, i
    <3> QED BY <3>1, <2>3, RootNearFacts
  <2>6. y < i
    BY <2>3, <2>4
  <2> HIDE DEF i, F, H
  <2>7. x * x \in Nat /\ z * z \in Nat /\ y * y \in Nat /\ x * x < i * i /\ z * z < i * i
    <3>1. x * x \in Nat /\ z * z \in Nat /\ y * y \in Nat /\ i * i \in Nat
      BY <2>4, Squares
    <3> QED BY <3>1, <2>5
  <2>8. -i < x /\ x < i /\ -i < z /\ z < i
    BY <2>7, <2>4, Squares
  <2>9. i * i <= r * r - 2 * r + 1
    <3>1. (r - 1) * (r - 1) = r * r - 2 * r + 1
      OBVIOUS
    <3>2. i * i <= (r - 1) * i /\ (r - 1) * i <= (r - 1) * (r - 1)
      BY <2>4
    <3>3. i * i \in Int /\ (r - 1) * i \in Int /\ (r - 1) * (r - 1) \in Int
      BY <2>4
    <3> QED BY <3>1, <3>2, <3>3
  <2>10. ASSUME NEW u \in -r .. r, NEW v \in 0 .. r, NEW w \in -r .. r, u * u + w * w <= r * r - v * v
         PROVE  <<u, v, w>> \in F
    <3>1. RootNear(u * u + w * w, r * r - v * v)
      <4>1. u * u + w * w \in Int /\ r * r - v * v \in Int
        OBVIOUS
      <4> QED BY <4>1, <2>10, RootNearFacts
    <3>2. InDome(r, "filled", thickness, u, v, w)
      BY <3>1 DEF InDome
    <3> QED BY <3>2, DomeCells DEF F
  <2>11. CASE d = <<1, 0, 0>> \/ d = <<-1, 0, 0>>
    <3>1. PICK e \in {1, -1} : d = <<e, 0, 0>>
      BY <2>11
    <3>2. Plus(c, d) = <<x + e, y, z>>
      BY <2>1, <3>1 DEF Plus
    <3>3. x + e \in -r .. r
      BY <2>8, <2>4
    <3>4. (x + e) * (x + e) = x * x + 2 * (e * x) + 1 /\ (e = 1 \/ e = -1)
      BY Squares
    <3>5. (x + e) * (x + e) + z * z <= r * r - y * y
      <4> DEFINE X == x * x
                 Z == z * z
                 Y == y * y
                 R == r * r
                 I == i * i
      <4>1. X \in Nat /\ Z \in Nat /\ Y \in Nat /\ X + Z < I - Y /\ I <= R - 2 * r + 1 /\ R \in Int /\ I \in Int
        BY <2>4, <2>5, <2>7, <2>9
      <4>2. e * x <= r - 2
        BY <2>8, <2>4
      <4>3. e * x \in Int
        OBVIOUS
      <4>4. X + 2 * (e * x) + 1 + Z <= R - Y
        <5> HIDE DEF X, Y, Z, R, I
        <5> QED BY <4>1, <4>2, <4>3
      <4> QED BY <4>4, <3>4
    <3> QED BY <3>2, <3>3, <3>5, <2>10
  <2>12. CASE d = <<0, 0, 1>> \/ d = <<0, 0, -1>>
    <3>1. PICK e \in {1, -1} : d = <<0, 0, e>>
      BY <2>12
    <3>2. Plus(c, d) = <<x, y, z + e>>
      BY <2>1, <3>1 DEF Plus
    <3>3. z + e \in -r .. r
      BY <2>8, <2>4
    <3>4. (z + e) * (z + e) = z * z + 2 * (e * z) + 1 /\ (e = 1 \/ e = -1)
      BY Squares
    <3>5. x * x + (z + e) * (z + e) <= r * r - y * y
      <4> DEFINE X == x * x
                 Z == z * z
                 Y == y * y
                 R == r * r
                 I == i * i
      <4>1. X \in Nat /\ Z \in Nat /\ Y \in Nat /\ X + Z < I - Y /\ I <= R - 2 * r + 1 /\ R \in Int /\ I \in Int
        BY <2>4, <2>5, <2>7, <2>9
      <4>2. e * z <= r - 2
        BY <2>8, <2>4
      <4>3. e * z \in Int
        OBVIOUS
      <4>4. X + (Z + 2 * (e * z) + 1) <= R - Y
        <5> HIDE DEF X, Y, Z, R, I
        <5> QED BY <4>1, <4>2, <4>3
      <4> QED BY <4>4, <3>4
    <3> QED BY <3>2, <3>3, <3>5, <2>10
  <2>13. CASE d = <<0, 1, 0>>
    <3>1. Plus(c, d) = <<x, y + 1, z>>
      BY <2>1, <2>13 DEF Plus
    <3>2. y + 1 \in 0 .. r
      BY <2>6, <2>4
    <3>3. (y + 1) * (y + 1) = y * y + 2 * y + 1
      BY Squares
    <3>4. x * x + z * z <= r * r - (y + 1) * (y + 1)
      <4> DEFINE X == x * x
                 Z == z * z
                 Y == y * y
                 R == r * r
                 I == i * i
      <4>1. X \in Nat /\ Z \in Nat /\ Y \in Nat /\ X + Z < I - Y /\ I <= R - 2 * r + 1 /\ R \in Int /\ I \in Int
        BY <2>4, <2>5, <2>7, <2>9
      <4>2. X + Z <= R - (Y + 2 * y + 1)
        <5> HIDE DEF X, Y, Z, R, I
        <5> QED BY <4>1, <2>6, <2>4
      <4> QED BY <4>2, <3>3
    <3> QED BY <3>1, <3>2, <3>4, <2>10
  <2> QED BY <2>11, <2>12, <2>13 DEF Sideways
<1> QED BY <1>2, <1>3 DEF Closed

LEMMA ShapesAreClosed == HollowIsClosed
<1>1. ASSUME NEW r \in 1 .. MaxRadius
      PROVE  /\ Closed(Cylinder(Origin, r, 1, "hollow"), Cylinder(Origin, r, 1, "filled"), Sideways)
             /\ \A thickness \in 1 .. 2 :
                  Closed(Dome(Origin, r, "hollow", thickness), Dome(Origin, r, "filled", thickness),
                         Sideways \cup {<<0, 1, 0>>})
  <2>1. r \in Nat \ {0} /\ 1 .. 2 = {1, 2}
    BY BuildAssumption
  <2> QED BY <2>1, RingIsClosed, DomeIsClosed
<1> QED BY <1>1 DEF HollowIsClosed

-----------------------------------------------------------------------------
(* The results.                                                            *)

\* The report, the canvas and a surveyed place keep their types, and the
\* cells proposed are within limits.ts after every operation, a transform of
\* the whole canvas included.
THEOREM OpsTypeCorrect == OpsSpec => [](OpsTypeOK /\ LimitsKept)
<1>1. OpsIInv => OpsTypeOK /\ LimitsKept
  BY DEF OpsIInv
<1> QED BY <1>1, OpsInvariance, PTL

\* SameJudgement: site.ts before the first block and verifier.ts after the
\* last agree on each cell of every definition that was ever compiled.
THEOREM JudgedAlike == OpsSpec => []SameJudgement
<1>1. ASSUME OpsIInv PROVE SameJudgement
  <2>1. SUFFICES ASSUME site # NoSite
                 PROVE  /\ Matches <=> Correct = DOMAIN canvas
                        /\ Pending = Missing /\ Blocked = Conflicting \cup StateMismatched
                        /\ Matches => Safe
    BY DEF SameJudgement
  <2>2. ASSUME NEW c \in NamedRight,
               ~MatchesPlacementHint(Seen(At(c)), canvas[c], site.rotation)
        PROVE  Seen(At(c)).name \notin Replaceable
    <3>0. canvas[c].facing # "none" \/ canvas[c].half # "none"
      BY <2>2 DEF MatchesPlacementHint
    <3>1. c \in DOMAIN canvas /\ Seen(At(c)).name = canvas[c].block
      BY DEF NamedRight
    <3>2. Asked(canvas[c])
      BY <1>1, <3>1 DEF OpsIInv, HintsAreStairs
    <3>3. canvas[c].block \in Stairs
      BY <3>0, <3>2 DEF Asked
    <3> QED BY <3>1, <3>3, OpsAssumption
  <2>3. Pending = Missing
    BY <2>2 DEF Pending, Missing, NamedWrong, NamedRight, SiteMatches
  <2>4. Blocked = Conflicting \cup StateMismatched
    BY <2>2 DEF Blocked, Conflicting, StateMismatched, NamedWrong, NamedRight, SiteMatches
  <2>5. Matches => Correct = DOMAIN canvas
    BY DEF Matches, Correct, Missing, Conflicting, StateMismatched, NamedWrong, NamedRight, SiteMatches
  <2>6. Correct = DOMAIN canvas => Matches
    BY DEF Matches, Correct, Missing, Conflicting, StateMismatched, NamedWrong, NamedRight, SiteMatches
  <2>7. Matches => Safe
    BY <2>3, <2>4 DEF Matches, Safe, Unsupported
  <2> QED BY <2>3, <2>4, <2>5, <2>6, <2>7
<1> QED BY <1>1, OpsInvariance, PTL

\* ShapesAreTrue: the compiler's transforms, the placement in the world and
\* the facing of a stair all turn the same way, for any pivot and any number
\* of quarter turns, and no ring or dome of any radius leaks.
THEOREM ShapesHold == OpsSpec => []ShapesAreTrue
<1>1. OpsIInv => ShapesAreTrue
  BY TurnsAreOne, ShapesAreClosed DEF ShapesAreTrue
<1> QED BY <1>1, OpsInvariance, PTL

-----------------------------------------------------------------------------
(* Second part: MissionCompiler.  Induction over the naturals, and the     *)
(* folds of the library, which are recursive functions over sets.          *)

LEMMA LeastOf ==
  ASSUME NEW S \in SUBSET Nat, S # {}
  PROVE  \E m \in S : \A k \in S : m <= k
<1>1. PICK m \in S : \A k \in S : ~(<<k, m>> \in OpToRel(<, Nat))
  BY NatLessThanWellFounded, WFMin
<1>2. \A k \in S : ~(k < m)
  BY <1>1 DEF OpToRel
<1> QED BY <1>2

LEMMA ByInduction ==
  ASSUME NEW S \in SUBSET Nat, 0 \in S, \A n \in S : n + 1 \in S
  PROVE  S = Nat
<1> SUFFICES ASSUME Nat \ S # {} PROVE FALSE
  OBVIOUS
<1>1. PICK m \in Nat \ S : \A k \in Nat \ S : m <= k
  BY LeastOf
<1>2. m # 0 /\ m - 1 \in Nat
  BY <1>1
<1>3. m - 1 \in S
  BY <1>1, <1>2
<1> QED BY <1>1, <1>3

LEMMA MaxOf ==
  ASSUME NEW n \in Nat, NEW s \in SUBSET (1 .. n), s # {}
  PROVE  Max(s) \in s /\ \A y \in s : Max(s) >= y
<1> DEFINE T == {b \in Nat : \A y \in s : b >= y}
<1>1. n \in T
  OBVIOUS
<1>2. PICK m \in T : \A k \in T : m <= k
  BY <1>1, LeastOf
<1>3. m \in s
  <2> SUFFICES ASSUME m \notin s PROVE FALSE
    OBVIOUS
  <2>1. m # 0
    <3>1. PICK y \in s : TRUE
      OBVIOUS
    <3> QED BY <1>2, <3>1
  <2>2. m - 1 \in T
    BY <1>2, <2>1
  <2> QED BY <1>2, <2>2
<1>4. \E x \in s : \A y \in s : x >= y
  BY <1>2, <1>3
<1> QED BY <1>4 DEF Max

LEMMA MaxOfInterval ==
  ASSUME NEW n \in Nat \ {0}
  PROVE  Max(1 .. n) = n /\ (1 .. n) \ {n} = 1 .. n - 1
<1>1. n \in 1 .. n /\ 1 .. n # {}
  OBVIOUS
<1>2. Max(1 .. n) \in 1 .. n /\ \A y \in 1 .. n : Max(1 .. n) >= y
  BY <1>1, MaxOf
<1>3. Max(1 .. n) >= n
  BY <1>1, <1>2
<1> QED BY <1>2, <1>3

HasFold(n, A, F, base) ==
  \E g \in [SUBSET (1 .. n) -> A] :
    \A s \in SUBSET (1 .. n) :
      g[s] = IF s = {} THEN base ELSE F[<<g[s \ {Max(s)}], Max(s)>>]

\* The fold of the library, for an operation given as a table, has the values
\* its recursion says it has.
LEMMA FoldExists ==
  ASSUME NEW n \in Nat, NEW A, NEW F, NEW base \in A,
         \A a \in A, k \in 1 .. n : F[<<a, k>>] \in A
  PROVE  HasFold(n, A, F, base)
<1> DEFINE Good(g, m) == \A s \in SUBSET (1 .. m) :
                           g[s] = IF s = {} THEN base ELSE F[<<g[s \ {Max(s)}], Max(s)>>]
           P(m) == m <= n => \E g \in [SUBSET (1 .. m) -> A] : Good(g, m)
           S == {m \in Nat : P(m)}
<1>1. P(0)
  <2> DEFINE g == [s \in SUBSET (1 .. 0) |-> base]
  <2>1. g \in [SUBSET (1 .. 0) -> A]
    OBVIOUS
  <2>2. \A s \in SUBSET (1 .. 0) : s = {}
    OBVIOUS
  <2>3. Good(g, 0)
    BY <2>2
  <2> QED BY <2>1, <2>3
<1>2. ASSUME NEW m \in Nat, P(m) PROVE P(m + 1)
  <2> SUFFICES ASSUME m + 1 <= n PROVE \E h \in [SUBSET (1 .. m + 1) -> A] : Good(h, m + 1)
    OBVIOUS
  <2>0. m + 1 \in 1 .. n /\ m <= n
    OBVIOUS
  <2>1. PICK g \in [SUBSET (1 .. m) -> A] : Good(g, m)
    BY <1>2, <2>0
  <2> DEFINE h == [s \in SUBSET (1 .. m + 1) |->
                     IF m + 1 \in s THEN F[<<g[s \ {m + 1}], m + 1>>] ELSE g[s]]
  <2>2. ASSUME NEW s \in SUBSET (1 .. m + 1), m + 1 \notin s PROVE s \in SUBSET (1 .. m)
    BY <2>2, <2>0
  <2>3. ASSUME NEW s \in SUBSET (1 .. m + 1), m + 1 \in s
        PROVE  /\ s \ {m + 1} \in SUBSET (1 .. m) /\ Max(s) = m + 1
               /\ s \ {m + 1} \in SUBSET (1 .. m + 1) /\ m + 1 \notin s \ {m + 1}
    <3>1. m + 1 \in Nat /\ s # {}
      BY <2>3, <2>0
    <3>2. Max(s) \in s /\ \A y \in s : Max(s) >= y
      BY <3>1, MaxOf
    <3>3. Max(s) >= m + 1 /\ Max(s) \in 1 .. m + 1
      BY <3>2, <2>3
    <3>4. Max(s) = m + 1
      BY <3>3, <2>0
    <3> QED BY <3>4, <2>0
  <2>4. h \in [SUBSET (1 .. m + 1) -> A]
    <3>1. ASSUME NEW s \in SUBSET (1 .. m + 1), m + 1 \in s PROVE F[<<g[s \ {m + 1}], m + 1>>] \in A
      <4>1. g[s \ {m + 1}] \in A
        BY <3>1, <2>1, <2>3
      <4> QED BY <4>1, <2>0
    <3>2. ASSUME NEW s \in SUBSET (1 .. m + 1), m + 1 \notin s PROVE g[s] \in A
      BY <3>2, <2>1, <2>2
    <3> QED BY <3>1, <3>2
  <2>5. ASSUME NEW s \in SUBSET (1 .. m + 1)
        PROVE  h[s] = IF s = {} THEN base ELSE F[<<h[s \ {Max(s)}], Max(s)>>]
    <3>1. CASE m + 1 \in s
      <4>1. h[s] = F[<<g[s \ {m + 1}], m + 1>>] /\ s # {}
        BY <3>1
      <4>2. h[s \ {m + 1}] = g[s \ {m + 1}]
        BY <3>1, <2>3
      <4> HIDE DEF h
      <4> QED BY <4>1, <4>2, <3>1, <2>3
    <3>2. CASE m + 1 \notin s /\ s # {}
      <4>1. s \in SUBSET (1 .. m) /\ s \ {Max(s)} \in SUBSET (1 .. m)
        BY <3>2, <2>2
      <4>2. s \ {Max(s)} \in SUBSET (1 .. m + 1) /\ m + 1 \notin s \ {Max(s)}
        BY <3>2
      <4>3. h[s] = g[s] /\ h[s \ {Max(s)}] = g[s \ {Max(s)}]
        BY <3>2, <4>2
      <4> HIDE DEF h
      <4> QED BY <4>1, <4>3, <3>2, <2>1
    <3>3. CASE s = {}
      <4>1. h[s] = g[s] /\ s \in SUBSET (1 .. m)
        BY <3>3
      <4> HIDE DEF h
      <4> QED BY <4>1, <3>3, <2>1
    <3> QED BY <3>1, <3>2, <3>3
  <2>6. Good(h, m + 1)
    BY <2>5
  <2> QED BY <2>4, <2>6
<1> HIDE DEF P
<1>3. S = Nat
  <2>1. S \in SUBSET Nat /\ 0 \in S /\ \A m \in S : m + 1 \in S
    BY <1>1, <1>2
  <2> HIDE DEF S
  <2> QED BY <2>1, ByInduction
<1>4. P(n)
  BY <1>3
<1>5. n <= n
  OBVIOUS
<1>6. \E g \in [SUBSET (1 .. n) -> A] : Good(g, n)
  <2> HIDE DEF Good
  <2> QED BY <1>4, <1>5 DEF P
<1> QED BY <1>6 DEF HasFold

\* Sums: what the folds of a mission's counts have in common.
IsSum(g, n, v) ==
  g = [s \in SUBSET (1 .. n) |-> IF s = {} THEN 0 ELSE g[s \ {Max(s)}] + v[Max(s)]]

LEMMA SumExists ==
  ASSUME NEW n \in Nat, NEW v \in [1 .. n -> Nat]
  PROVE  \E g : IsSum(g, n, v)
<1> DEFINE F == [p \in Nat \X (1 .. n) |-> p[1] + v[p[2]]]
           E(g) == [s \in SUBSET (1 .. n) |-> IF s = {} THEN 0 ELSE g[s \ {Max(s)}] + v[Max(s)]]
<1>1. \A a \in Nat, k \in 1 .. n : F[<<a, k>>] \in Nat
  OBVIOUS
<1>2. ASSUME NEW g \in [SUBSET (1 .. n) -> Nat]
      PROVE  E(g) = [s \in SUBSET (1 .. n) |-> IF s = {} THEN 0 ELSE F[<<g[s \ {Max(s)}], Max(s)>>]]
  <2>1. ASSUME NEW s \in SUBSET (1 .. n), s # {}
        PROVE  g[s \ {Max(s)}] + v[Max(s)] = F[<<g[s \ {Max(s)}], Max(s)>>]
    <3>1. Max(s) \in 1 .. n
      BY <2>1, MaxOf
    <3>2. g[s \ {Max(s)}] \in Nat
      OBVIOUS
    <3> QED BY <3>1, <3>2
  <2> HIDE DEF F
  <2> QED BY <2>1
<1>3. PICK g \in [SUBSET (1 .. n) -> Nat] :
        \A s \in SUBSET (1 .. n) : g[s] = IF s = {} THEN 0 ELSE F[<<g[s \ {Max(s)}], Max(s)>>]
  <2> HIDE DEF F
  <2>1. \A zero \in Nat : HasFold(n, Nat, F, zero)
    BY <1>1, FoldExists
  <2>2. HasFold(n, Nat, F, 0)
    BY <2>1
  <2> QED BY <2>2 DEF HasFold
<1>4. g = E(g)
  <2>1. g = [s \in SUBSET (1 .. n) |-> g[s]]
    OBVIOUS
  <2> HIDE DEF F, E
  <2> QED BY <2>1, <1>2, <1>3
<1> QED BY <1>4 DEF IsSum

LEMMA SumValues ==
  ASSUME NEW n \in Nat, NEW v \in [1 .. n -> Nat], NEW g, IsSum(g, n, v)
  PROVE  /\ g[{}] = 0 /\ \A k \in 1 .. n : g[1 .. k] = g[1 .. k - 1] + v[k]
         /\ \A k \in 0 .. n : g[1 .. k] \in Nat
<1>1. g[{}] = 0 /\ {} = 1 .. 0
  BY DEF IsSum
<1>2. ASSUME NEW k \in 1 .. n PROVE g[1 .. k] = g[1 .. k - 1] + v[k]
  <2>1. 1 .. k \in SUBSET (1 .. n) /\ 1 .. k # {}
    <3>1. k \in 1 .. k
      OBVIOUS
    <3> QED BY <3>1
  <2>2. Max(1 .. k) = k /\ (1 .. k) \ {k} = 1 .. k - 1
    BY MaxOfInterval
  <2> QED BY <2>1, <2>2 DEF IsSum
<1>3. \A k \in 0 .. n : g[1 .. k] \in Nat
  <2> DEFINE P(k) == k <= n => g[1 .. k] \in Nat
             S == {k \in Nat : P(k)}
  <2>1. P(0)
    BY <1>1
  <2>2. ASSUME NEW k \in Nat, P(k) PROVE P(k + 1)
    <3> SUFFICES ASSUME k + 1 <= n PROVE g[1 .. k + 1] \in Nat
      OBVIOUS
    <3>1. g[1 .. k] \in Nat /\ k + 1 \in 1 .. n /\ (k + 1) - 1 = k
      BY <2>2
    <3>2. g[1 .. k + 1] = g[1 .. (k + 1) - 1] + v[k + 1]
      BY <3>1, <1>2
    <3> QED BY <3>1, <3>2
  <2> HIDE DEF P
  <2>3. S \in SUBSET Nat /\ 0 \in S /\ \A k \in S : k + 1 \in S
    BY <2>1, <2>2
  <2>4. S = Nat
    <3> HIDE DEF S
    <3> QED BY <2>3, ByInduction
  <2> QED BY <2>4 DEF P
<1> QED BY <1>1, <1>2, <1>3


-----------------------------------------------------------------------------
Blueprints == Contents \cup {NoBlueprint}
RawRow     == [skill : DOMAIN Registry, job : BOOLEAN]
Entry      == [start : Nat, rows : Seq(RawRow), pin : Blueprints]
Acc        == [ok : BOOLEAN, logical : Seq(Entry), expanded : Nat, changes : Nat, role : Roles]

LEMMA Ranks ==
  /\ \A r \in Roles : Rank(r) \in 0 .. 2
  /\ \A r, s \in Roles : Higher(r, s) \in Roles /\ Rank(Higher(r, s)) >= Rank(r)
                         /\ Rank(Higher(r, s)) >= Rank(s)
<1>1. Rank("viewer") = 0 /\ Rank("operator") = 1 /\ Rank("owner") = 2
  BY DEF Rank
<1>2. \A r \in Roles : Rank(r) \in 0 .. 2
  BY <1>1 DEF Roles
<1>3. \A r, s \in Roles : Higher(r, s) \in Roles /\ Rank(Higher(r, s)) >= Rank(r)
                         /\ Rank(Higher(r, s)) >= Rank(s)
  BY <1>2 DEF Higher
<1> QED BY <1>2, <1>3

\* The forms a step of a script has.
LEMMA StepForms ==
  ASSUME NEW d \in Definitions
  PROVE  /\ Len(d.steps) \in 1 .. 32 /\ DOMAIN d.steps = 1 .. Len(d.steps)
         /\ Len(d.steps) <= d.maxExpanded /\ d.maxExpanded \in Nat /\ d.maxExpanded <= MaxExpanded
         /\ MaxExpanded \in Nat
         /\ d.maxChanges \in Nat /\ d.maxChanges <= MaxChanges /\ MaxChanges \in Nat
         /\ \A i \in DOMAIN d.steps :
              \/ d.steps[i].op = "skill"
              \/ d.steps[i].op = "clear" /\ d.steps[i].distance \in Nat \X Nat \X Nat
              \/ d.steps[i].op = "build" /\ d.steps[i].named = TRUE /\ d.steps[i].name \in Names
              \/ d.steps[i].op = "build" /\ d.steps[i].named = FALSE /\ d.steps[i].content \in Contents
<1>1. d.steps \in Seq(Steps) /\ Len(d.steps) <= 32
  BY ScriptAssumption
<1>2. d.steps # <<>> /\ Len(d.steps) <= d.maxExpanded
      /\ d.maxExpanded \in 1 .. MaxExpanded /\ d.maxChanges \in 1 .. MaxChanges
  BY CompilerAssumption
<1>3. Len(d.steps) \in 1 .. 32 /\ DOMAIN d.steps = 1 .. Len(d.steps)
  <2> HIDE DEF Steps
  <2>1. Len(d.steps) \in Nat /\ DOMAIN d.steps = 1 .. Len(d.steps)
    BY <1>1
  <2>2. Len(d.steps) # 0
    BY <1>1, <1>2
  <2>3. \A n \in Nat : n # 0 /\ n <= 32 => n \in 1 .. 32
    OBVIOUS
  <2> QED BY <1>1, <2>1, <2>2, <2>3
<1>4. MaxExpanded \in Nat /\ MaxChanges \in Nat
  BY CompilerAssumption
<1>5. \A i \in DOMAIN d.steps : d.steps[i] \in Steps
  BY <1>1
<1>6. \A i \in DOMAIN d.steps :
        \/ d.steps[i].op = "skill"
        \/ d.steps[i].op = "clear" /\ d.steps[i].distance \in Nat \X Nat \X Nat
        \/ d.steps[i].op = "build" /\ d.steps[i].named = TRUE /\ d.steps[i].name \in Names
        \/ d.steps[i].op = "build" /\ d.steps[i].named = FALSE /\ d.steps[i].content \in Contents
  BY <1>5, ScriptAssumption
<1>7. d.maxExpanded \in Nat /\ d.maxExpanded <= MaxExpanded /\ d.maxChanges \in Nat /\ d.maxChanges <= MaxChanges
  BY <1>2, <1>4
<1> QED BY <1>2, <1>3, <1>4, <1>6, <1>7

LEMMA NoBlueprintIsNone == NoBlueprint \notin Contents
BY CompilerAssumption DEF NoBlueprint

LEMMA SkillsKnown ==
  /\ "clearRegion" \in DOMAIN Registry /\ "prepareBlueprintMaterials" \in DOMAIN Registry
  /\ "buildBlueprint" \in DOMAIN Registry
  /\ \A k \in DOMAIN Registry : Registry[k].role \in Roles
  /\ InternalSkills[1] = "prepareBlueprintMaterials" /\ InternalSkills[2] = "buildBlueprint"
  /\ DOMAIN InternalSkills = 1 .. 2 /\ \A i \in DOMAIN InternalSkills : InternalSkills[i] \in DOMAIN Registry
BY CompilerAssumption DEF InternalSkills

SkillsOf(step) ==
  CASE step.op = "skill" -> {step.skill}
    [] step.op = "clear" -> {"clearRegion"}
    [] step.op = "build" -> {InternalSkills[i] : i \in DOMAIN InternalSkills}

\* What a step that is accepted gives, and what is refused.
LEMMA SkillStep ==
  ASSUME NEW d \in Definitions, NEW i \in DOMAIN d.steps, NEW actor \in Roles, NEW bps, d.steps[i].op = "skill"
  PROVE  LET r == CompileLogicalStep(d.steps[i], actor, bps)
         IN  /\ r = Refused \/ /\ r.ok = TRUE /\ r.rows = <<[skill |-> d.steps[i].skill, job |-> FALSE]>>
                               /\ r.changes = 0 /\ r.pin = NoBlueprint
                               /\ d.steps[i].skill \in DOMAIN Registry
                               /\ r.role = Registry[d.steps[i].skill].role
                               /\ Satisfies(actor, d.steps[i].skill)
BY DEF CompileLogicalStep, CompileSkillStep

LEMMA ClearStep ==
  ASSUME NEW d \in Definitions, NEW i \in DOMAIN d.steps, NEW actor \in Roles, NEW bps, d.steps[i].op = "clear"
  PROVE  LET r == CompileLogicalStep(d.steps[i], actor, bps)
         IN  /\ r = Refused \/ /\ r.ok = TRUE /\ r.rows = <<[skill |-> "clearRegion", job |-> FALSE]>>
                               /\ r.changes = InclusiveVolume(d.steps[i].distance)
                               /\ r.pin = NoBlueprint /\ r.role = "owner"
                               /\ Satisfies(actor, "clearRegion")
BY DEF CompileLogicalStep, CompileClearStep

BuildRows == [k \in DOMAIN InternalSkills |-> [skill |-> InternalSkills[k], job |-> TRUE]]

LEMMA BuildStep ==
  ASSUME NEW d \in Definitions, NEW i \in DOMAIN d.steps, NEW actor \in Roles,
         NEW bps \in [Keys -> Blueprints], d.steps[i].op = "build"
  PROVE  LET r == CompileLogicalStep(d.steps[i], actor, bps)
         IN  /\ r = Refused \/ /\ r.ok = TRUE /\ r.rows = BuildRows
                               /\ r.pin \in Contents /\ r.changes = r.pin.cells
                               /\ r.role = Higher(InternalRole, r.pin.role)
                               /\ \A k \in DOMAIN InternalSkills : Satisfies(actor, InternalSkills[k])
                               /\ Rank(actor) >= Rank(r.pin.role)
                               /\ d.steps[i].named => r.pin = bps[d.steps[i].name]
                               /\ ~d.steps[i].named => r.pin = d.steps[i].content
<1> DEFINE step == d.steps[i]
           build == IF step.named THEN CompileNamedBuild(step, actor, bps) ELSE CompileInlineBuild(step, actor)
<1>1. CompileLogicalStep(d.steps[i], actor, bps) =
        IF InternalUsable(actor) /\ build # NoBlueprint
        THEN [ok |-> TRUE, rows |-> BuildRows, changes |-> build.cells,
              role |-> Higher(InternalRole, build.role), pin |-> build]
        ELSE Refused
  BY DEF CompileLogicalStep, CompileBuildStep, BuildRows
<1>2. ASSUME build # NoBlueprint
      PROVE  /\ build \in Contents /\ Rank(actor) >= Rank(build.role)
             /\ step.named => build = bps[step.name]
             /\ ~step.named => build = step.content
  <2>1. CASE step.named
    <3>1. build = bps[step.name] /\ Rank(actor) >= Rank(bps[step.name].role) /\ step.name \in Names
      BY <1>2, <2>1, StepForms DEF CompileNamedBuild
    <3> QED BY <3>1, <1>2, <2>1 DEF Keys, Blueprints
  <2>2. CASE ~step.named
    <3>1. build = step.content /\ Rank(actor) >= Rank(step.content.role) /\ step.content \in Contents
      BY <1>2, <2>2, StepForms DEF CompileInlineBuild
    <3> QED BY <3>1, <2>2
  <2> QED BY <2>1, <2>2
<1>3. InternalUsable(actor) => \A k \in DOMAIN InternalSkills : Satisfies(actor, InternalSkills[k])
  BY DEF InternalUsable
<1> HIDE DEF build
<1> QED BY <1>1, <1>2, <1>3

IsResult(r) ==
  /\ r.rows \in Seq(RawRow) /\ Len(r.rows) \in Nat /\ r.changes \in Nat
  /\ r.role \in Roles /\ r.pin \in Blueprints
  /\ Len(r.rows) >= 1 \/ r = Refused

LEMMA BuildRowsKnown == BuildRows \in Seq(RawRow) /\ Len(BuildRows) = 2 /\ DOMAIN BuildRows = 1 .. 2
<1>1. \A k \in 1 .. 2 : [skill |-> InternalSkills[k], job |-> TRUE] \in RawRow
  BY SkillsKnown DEF RawRow
<1>2. BuildRows = [k \in 1 .. 2 |-> [skill |-> InternalSkills[k], job |-> TRUE]]
  BY SkillsKnown DEF BuildRows
<1> HIDE DEF RawRow
<1>3. BuildRows \in Seq(RawRow) /\ Len(BuildRows) = 2
  BY <1>1, <1>2
<1> QED BY <1>2, <1>3

LEMMA RefusedIsResult == IsResult(Refused)
<1>1. \A S : <<>> \in Seq(S) /\ Len(<<>>) = 0
  OBVIOUS
<1>2. Refused.rows = <<>> /\ Refused.changes = 0
      /\ Refused.role = "viewer" /\ Refused.pin = NoBlueprint
  BY DEF Refused
<1> QED BY <1>1, <1>2 DEF IsResult, Roles, Blueprints


LEMMA StepIsResult ==
  ASSUME NEW d \in Definitions, NEW i \in DOMAIN d.steps, NEW actor \in Roles,
         NEW bps \in [Keys -> Blueprints]
  PROVE  IsResult(CompileLogicalStep(d.steps[i], actor, bps))
<1> DEFINE r == CompileLogicalStep(d.steps[i], actor, bps)
<1>0. \A k \in DOMAIN Registry : <<[skill |-> k, job |-> FALSE]>> \in Seq(RawRow)
  <2>1. \A k \in DOMAIN Registry : [skill |-> k, job |-> FALSE] \in RawRow
    BY DEF RawRow
  <2> HIDE DEF RawRow
  <2>2. \A x \in RawRow : <<x>> \in Seq(RawRow)
    OBVIOUS
  <2> QED BY <2>1, <2>2
<1>1. CASE d.steps[i].op = "skill"
  <2>1. CASE r = Refused
    BY <2>1, RefusedIsResult
  <2>2. CASE r # Refused
    <3>1. /\ r.ok = TRUE /\ r.rows = <<[skill |-> d.steps[i].skill, job |-> FALSE]>>
          /\ r.changes = 0 /\ r.pin = NoBlueprint
          /\ d.steps[i].skill \in DOMAIN Registry
          /\ r.role = Registry[d.steps[i].skill].role
      BY ZenonT(60), <1>1, <2>2, SkillStep
    <3>2. r.rows \in Seq(RawRow) /\ Len(r.rows) = 1
      BY <3>1, <1>0
    <3>3. r.role \in Roles
      BY <3>1, SkillsKnown
    <3>10. Len(r.rows) >= 1 /\ r.changes \in Nat /\ r.pin \in Blueprints
      BY <3>1, <3>2 DEF Blueprints
    <3> QED BY <3>2, <3>3, <3>10 DEF IsResult
  <2> QED BY <2>1, <2>2
<1>2. CASE d.steps[i].op = "clear"
  <2>1. CASE r = Refused
    BY <2>1, RefusedIsResult
  <2>2. CASE r # Refused
    <3>1. /\ r.ok = TRUE /\ r.rows = <<[skill |-> "clearRegion", job |-> FALSE]>>
          /\ r.changes = InclusiveVolume(d.steps[i].distance)
          /\ r.pin = NoBlueprint /\ r.role = "owner"
      BY <1>2, <2>2, ClearStep
    <3>2. r.rows \in Seq(RawRow) /\ Len(r.rows) = 1
      BY <3>1, <1>0, SkillsKnown
    <3>3. InclusiveVolume(d.steps[i].distance) \in Nat
      <4>1. d.steps[i].distance \in Nat \X Nat \X Nat
        BY <1>2, StepForms
      <4>2. \A t \in Nat \X Nat \X Nat : InclusiveVolume(t) \in Nat
        <5> TAKE t \in Nat \X Nat \X Nat
        <5>1. PICK x \in Nat, y \in Nat, z \in Nat : t = <<x, y, z>>
          OBVIOUS
        <5>2. InclusiveVolume(t) = (x + 1) * (y + 1) * (z + 1)
          BY <5>1 DEF InclusiveVolume
        <5> QED BY <5>2
      <4> QED BY <4>1, <4>2
    <3>10. /\ Len(r.rows) >= 1 /\ r.changes \in Nat /\ r.pin \in Blueprints
           /\ r.role \in Roles
      BY <3>1, <3>2, <3>3 DEF Blueprints, Roles
    <3> QED BY <3>2, <3>10 DEF IsResult
  <2> QED BY <2>1, <2>2
<1>3. CASE d.steps[i].op = "build"
  <2>1. CASE r = Refused
    BY <2>1, RefusedIsResult
  <2>2. CASE r # Refused
    <3>1. /\ r.ok = TRUE /\ r.rows = BuildRows
          /\ r.pin \in Contents /\ r.changes = r.pin.cells
          /\ r.role = Higher(InternalRole, r.pin.role)
      BY <1>3, <2>2, BuildStep
    <3>3. InternalRole \in Roles
      BY SkillsKnown, Ranks DEF InternalRole
    <3>4. r.pin.cells \in Nat /\ r.pin.role \in Roles
      BY <3>1, CompilerAssumption DEF Roles
    <3>5. r.role \in Roles
      BY <3>1, <3>3, <3>4, Ranks
    <3>10. /\ r.rows \in Seq(RawRow) /\ Len(r.rows) >= 1 /\ r.changes \in Nat
           /\ r.pin \in Blueprints
      BY <3>1, <3>4, BuildRowsKnown DEF Blueprints
    <3> QED BY <3>5, <3>10 DEF IsResult
  <2> QED BY <2>1, <2>2
<1> QED BY <1>1, <1>2, <1>3, StepForms

-----------------------------------------------------------------------------
(* A script, step by step: what the compiler holds after k of them.        *)

Over(acc, d, r) ==
  \/ acc.expanded + Len(r.rows) > d.maxExpanded \/ acc.expanded + Len(r.rows) > MaxExpanded
  \/ acc.changes + r.changes > d.maxChanges     \/ acc.changes + r.changes > MaxChanges

Taking(acc, r) ==
  [ok       |-> acc.ok,
   logical  |-> Append(acc.logical, [start |-> acc.expanded, rows |-> r.rows, pin |-> r.pin]),
   expanded |-> acc.expanded + Len(r.rows),
   changes  |-> acc.changes + r.changes,
   role     |-> Higher(acc.role, r.role)]

LEMMA WithStepForms ==
  ASSUME NEW acc, NEW d, NEW r
  PROVE  WithStep(acc, d, r) = IF ~r.ok \/ Over(acc, d, r) THEN [acc EXCEPT !.ok = FALSE] ELSE Taking(acc, r)
BY DEF WithStep, Over, Taking

LEMMA TakingKeeps ==
  ASSUME NEW acc \in Acc, NEW r, IsResult(r)
  PROVE  Taking(acc, r) \in Acc
<1>1. acc.ok \in BOOLEAN
  BY DEF Acc
<1>2. acc.logical \in Seq(Entry) /\ acc.expanded \in Nat /\ acc.changes \in Nat /\ acc.role \in Roles
  BY DEF Acc
<1>3. [start |-> acc.expanded, rows |-> r.rows, pin |-> r.pin] \in Entry
  BY <1>2 DEF Entry, IsResult
<1>4. Append(acc.logical, [start |-> acc.expanded, rows |-> r.rows, pin |-> r.pin]) \in Seq(Entry)
  <2> HIDE DEF Entry
  <2> QED BY <1>2, <1>3
<1>5. acc.expanded + Len(r.rows) \in Nat /\ acc.changes + r.changes \in Nat
  BY <1>2 DEF IsResult
<1>6. Higher(acc.role, r.role) \in Roles
  BY <1>2, Ranks DEF IsResult
<1> QED BY <1>1, <1>4, <1>5, <1>6 DEF Taking, Acc

LEMMA WithStepKeeps ==
  ASSUME NEW acc \in Acc, NEW d, NEW r, IsResult(r)
  PROVE  WithStep(acc, d, r) \in Acc
<1>1. [acc EXCEPT !.ok = FALSE] \in Acc
  BY DEF Acc
<1> QED BY <1>1, TakingKeeps, WithStepForms

(* The script after its first k steps.                                     *)
Step(d, actor, bps, k) == CompileLogicalStep(d.steps[k], actor, bps)

IsIter(g, d, actor, bps) ==
  g = [s \in SUBSET DOMAIN d.steps |->
         IF s = {} THEN NothingYet
         ELSE WithStep(g[s \ {Max(s)}], d, CompileLogicalStep(d.steps[Max(s)], actor, bps))]

Iter(d, actor, bps) == CHOOSE g : IsIter(g, d, actor, bps)

After(d, actor, bps, k) == Iter(d, actor, bps)[1 .. k]

LEMMA CompileIsAfter ==
  ASSUME NEW d \in Definitions, NEW actor, NEW bps
  PROVE  Compile(d, actor, bps) = After(d, actor, bps, Len(d.steps))
<1>1. Compile(d, actor, bps) = Iter(d, actor, bps)[DOMAIN d.steps]
  BY DEF Compile, FoldLeft, MapThenFoldSet, Iter, IsIter
<1> QED BY <1>1, StepForms DEF After

LEMMA IterExists ==
  ASSUME NEW d \in Definitions, NEW actor \in Roles, NEW bps \in [Keys -> Blueprints]
  PROVE  IsIter(Iter(d, actor, bps), d, actor, bps)
<1> DEFINE n == Len(d.steps)
           F == [p \in Acc \X (1 .. n) |-> WithStep(p[1], d, CompileLogicalStep(d.steps[p[2]], actor, bps))]
           E(g) == [s \in SUBSET (1 .. n) |->
                      IF s = {} THEN NothingYet
                      ELSE WithStep(g[s \ {Max(s)}], d, CompileLogicalStep(d.steps[Max(s)], actor, bps))]
<1>0. n \in Nat /\ DOMAIN d.steps = 1 .. n
  BY StepForms
<1> HIDE DEF n
<1>1. \A a \in Acc, k \in 1 .. n : F[<<a, k>>] \in Acc
  BY <1>0, StepIsResult, WithStepKeeps
<1>2. NothingYet \in Acc
  <2>1. \A S : <<>> \in Seq(S)
    OBVIOUS
  <2>2. "viewer" \in Roles
    BY DEF Roles
  <2> QED BY <2>1, <2>2 DEF NothingYet, Acc
<1>3. ASSUME NEW g \in [SUBSET (1 .. n) -> Acc]
      PROVE  E(g) = [s \in SUBSET (1 .. n) |-> IF s = {} THEN NothingYet ELSE F[<<g[s \ {Max(s)}], Max(s)>>]]
  <2>1. ASSUME NEW s \in SUBSET (1 .. n), s # {}
        PROVE  WithStep(g[s \ {Max(s)}], d, CompileLogicalStep(d.steps[Max(s)], actor, bps))
               = F[<<g[s \ {Max(s)}], Max(s)>>]
    <3>1. Max(s) \in 1 .. n
      BY <2>1, <1>0, MaxOf
    <3>2. g[s \ {Max(s)}] \in Acc
      OBVIOUS
    <3> QED BY <3>1, <3>2
  <2> HIDE DEF F
  <2> QED BY <2>1
<1>4. PICK g \in [SUBSET (1 .. n) -> Acc] :
        \A s \in SUBSET (1 .. n) : g[s] = IF s = {} THEN NothingYet ELSE F[<<g[s \ {Max(s)}], Max(s)>>]
  <2> HIDE DEF F
  <2>1. \A zero \in Acc : HasFold(n, Acc, F, zero)
    BY <1>0, <1>1, FoldExists
  <2>2. HasFold(n, Acc, F, NothingYet)
    BY <2>1, <1>2
  <2> QED BY <2>2 DEF HasFold
<1>5. g = E(g)
  <2>1. g = [s \in SUBSET (1 .. n) |-> g[s]]
    OBVIOUS
  <2> HIDE DEF F, E
  <2> QED BY <2>1, <1>3, <1>4
<1>6. IsIter(g, d, actor, bps)
  BY <1>5, <1>0 DEF IsIter
<1> QED BY <1>6 DEF Iter

LEMMA AfterValues ==
  ASSUME NEW d \in Definitions, NEW actor \in Roles, NEW bps \in [Keys -> Blueprints]
  PROVE  /\ After(d, actor, bps, 0) = NothingYet
         /\ \A k \in 1 .. Len(d.steps) :
              After(d, actor, bps, k) = WithStep(After(d, actor, bps, k - 1), d, Step(d, actor, bps, k))
<1> DEFINE g == Iter(d, actor, bps)
<1>0. Len(d.steps) \in Nat /\ DOMAIN d.steps = 1 .. Len(d.steps)
  BY StepForms
<1>1. g = [s \in SUBSET DOMAIN d.steps |->
             IF s = {} THEN NothingYet
             ELSE WithStep(g[s \ {Max(s)}], d, CompileLogicalStep(d.steps[Max(s)], actor, bps))]
  BY IterExists DEF IsIter
<1> HIDE DEF g
<1>2. g[1 .. 0] = NothingYet
  <2>1. 1 .. 0 = {}
    OBVIOUS
  <2> QED BY <1>1, <2>1
<1>3. ASSUME NEW k \in 1 .. Len(d.steps)
      PROVE  g[1 .. k] = WithStep(g[1 .. k - 1], d, CompileLogicalStep(d.steps[k], actor, bps))
  <2>1. 1 .. k \in SUBSET (DOMAIN d.steps) /\ 1 .. k # {}
    <3>1. k \in 1 .. k
      OBVIOUS
    <3> QED BY SMTT(40), <3>1, <1>0
  <2>2. Max(1 .. k) = k /\ (1 .. k) \ {k} = 1 .. k - 1
    BY MaxOfInterval, <1>0
  <2> QED BY <2>1, <2>2, <1>1
<1> QED BY <1>2, <1>3 DEF g, After, Step

-----------------------------------------------------------------------------
(* What it holds while nothing was refused: the entries of the steps,      *)
(* one after another without a gap.                                        *)

\* The entries follow one another without a gap, total rows in all.
Chained(l, total) ==
  /\ l = <<>> => total = 0
  /\ l # <<>> => /\ l[1].start = 0
                 /\ total = l[Len(l)].start + Len(l[Len(l)].rows)
  /\ \A i \in 1 .. Len(l) - 1 : l[i + 1].start = l[i].start + Len(l[i].rows)

\* The entries are those of the first k steps.
EntriesOf(l, d, actor, bps, k) ==
  /\ Len(l) = k
  /\ \A i \in 1 .. k : /\ l[i].rows = Step(d, actor, bps, i).rows
                       /\ l[i].pin = Step(d, actor, bps, i).pin
                       /\ Step(d, actor, bps, i) # Refused

LEMMA TakingChains ==
  ASSUME NEW l \in Seq(Entry), NEW total \in Nat, Chained(l, total), NEW r, IsResult(r)
  PROVE  Chained(Append(l, [start |-> total, rows |-> r.rows, pin |-> r.pin]), total + Len(r.rows))
<1> DEFINE e == [start |-> total, rows |-> r.rows, pin |-> r.pin]
           m == Append(l, e)
           n == Len(l)
<1>1. e \in Entry
  BY DEF Entry, IsResult
<1>2. n \in Nat /\ DOMAIN l = 1 .. n
  OBVIOUS
<1>3. e.start = total /\ e.rows = r.rows
  OBVIOUS
<1>4. Len(m) = n + 1 /\ m[n + 1] = e /\ (\A i \in 1 .. n : m[i] = l[i]) /\ m # <<>>
  <2> HIDE DEF Entry, e
  <2> QED BY <1>1
<1> HIDE DEF m, e
<1>5. CASE n = 0
  <2>1. l = <<>> /\ total = 0
    BY <1>2, <1>5 DEF Chained
  <2> QED BY <1>3, <1>4, <1>5, <2>1 DEF Chained, m, e
<1>6. CASE n # 0
  <2>1. l # <<>> /\ n >= 1
    BY <1>2, <1>6
  <2>2. l[1].start = 0 /\ total = l[n].start + Len(l[n].rows)
        /\ \A i \in 1 .. n - 1 : l[i + 1].start = l[i].start + Len(l[i].rows)
    BY <2>1 DEF Chained
  <2>3. ASSUME NEW i \in 1 .. Len(m) - 1 PROVE m[i + 1].start = m[i].start + Len(m[i].rows)
    <3>1. CASE i = n
      BY <3>1, <2>2, <1>3, <1>4, <2>1
    <3>2. CASE i # n
      <4>1. i \in 1 .. n - 1 /\ i + 1 \in 1 .. n /\ i \in 1 .. n
        <5>1. Len(m) = n + 1
          BY <1>4
        <5>2. i \in Int /\ 1 <= i /\ i <= n
          BY <5>1, <1>2
        <5>3. \A p \in Nat, q \in Int : 1 <= q /\ q <= p /\ q # p => q \in 1 .. p - 1 /\ q + 1 \in 1 .. p /\ q \in 1 .. p
          OBVIOUS
        <5>4. n \in Nat
          BY <1>2
        <5> HIDE DEF n
        <5> QED BY <5>2, <5>3, <5>4, <3>2
      <4> QED BY <4>1, <2>2, <1>4
    <3> QED BY <3>1, <3>2
  <2>4. m[1].start = 0
    BY <2>1, <2>2, <1>4, <1>2
  <2>5. m[Len(m)] = e
    BY <1>4
  <2> QED BY <2>3, <2>4, <2>5, <1>3, <1>4 DEF Chained, m, e
<1> QED BY <1>5, <1>6

LEMMA TakingEntries ==
  ASSUME NEW l \in Seq(Entry), NEW d, NEW actor, NEW bps, NEW k \in Nat,
         EntriesOf(l, d, actor, bps, k), NEW total \in Nat,
         IsResult(Step(d, actor, bps, k + 1)), Step(d, actor, bps, k + 1) # Refused
  PROVE  LET r == Step(d, actor, bps, k + 1)
         IN  EntriesOf(Append(l, [start |-> total, rows |-> r.rows, pin |-> r.pin]), d, actor, bps, k + 1)
<1> DEFINE r == Step(d, actor, bps, k + 1)
           e == [start |-> total, rows |-> r.rows, pin |-> r.pin]
           m == Append(l, e)
<1>1. e \in Entry
  BY DEF Entry, IsResult
<1>2. e.pin = r.pin /\ e.rows = r.rows
  OBVIOUS
<1>3. Len(l) = k
  BY DEF EntriesOf
<1>4. Len(m) = k + 1 /\ m[k + 1] = e /\ (\A i \in 1 .. k : m[i] = l[i])
  <2> HIDE DEF Entry, e
  <2> QED BY <1>1, <1>3
<1> HIDE DEF m, e
<1>5. ASSUME NEW i \in 1 .. k + 1
      PROVE  /\ m[i].rows = Step(d, actor, bps, i).rows /\ m[i].pin = Step(d, actor, bps, i).pin
             /\ Step(d, actor, bps, i) # Refused
  <2>1. CASE i = k + 1
    BY <2>1, <1>2, <1>4
  <2>2. CASE i # k + 1
    <3>1. i \in 1 .. k
      BY <2>2
    <3> QED BY <3>1, <1>4 DEF EntriesOf
  <2> QED BY <2>1, <2>2
<1> QED BY <1>4, <1>5 DEF EntriesOf, m, e

AfterGood(d, actor, bps, k) ==
  LET a == After(d, actor, bps, k)
  IN  /\ a \in Acc
      /\ a.ok => /\ Chained(a.logical, a.expanded) /\ EntriesOf(a.logical, d, actor, bps, k)
                 /\ a.expanded <= d.maxExpanded

LEMMA AfterIsGood ==
  ASSUME NEW d \in Definitions, NEW actor \in Roles, NEW bps \in [Keys -> Blueprints]
  PROVE  \A k \in 0 .. Len(d.steps) : AfterGood(d, actor, bps, k)
<1>0. Len(d.steps) \in Nat /\ DOMAIN d.steps = 1 .. Len(d.steps) /\ d.maxExpanded \in Nat
  <2>1. Len(d.steps) \in 1 .. 32 /\ DOMAIN d.steps = 1 .. Len(d.steps) /\ d.maxExpanded \in Nat
    BY StepForms
  <2> QED BY <2>1
<1> DEFINE P(k) == k <= Len(d.steps) => AfterGood(d, actor, bps, k)
           S == {k \in Nat : P(k)}
<1>1. AfterGood(d, actor, bps, 0)
  <2>1. After(d, actor, bps, 0) = NothingYet
    BY AfterValues
  <2>2. /\ NothingYet.logical = <<>> /\ NothingYet.expanded = 0 /\ NothingYet.changes = 0
        /\ NothingYet.role = "viewer"
    BY DEF NothingYet
  <2>3. Chained(<<>>, 0) /\ EntriesOf(<<>>, d, actor, bps, 0)
    <3>1. Len(<<>>) = 0
      OBVIOUS
    <3> QED BY <3>1 DEF Chained, EntriesOf
  <2>4. NothingYet \in Acc
    <3>1. \A T : <<>> \in Seq(T)
      OBVIOUS
    <3>2. "viewer" \in Roles
      BY DEF Roles
    <3> QED BY <3>1, <3>2 DEF NothingYet, Acc
  <2>5. NothingYet.expanded <= d.maxExpanded
    BY <2>2, <1>0
  <2> QED BY <2>1, <2>2, <2>3, <2>4, <2>5 DEF AfterGood
<1>2. ASSUME NEW k \in Nat, k + 1 <= Len(d.steps), AfterGood(d, actor, bps, k)
      PROVE  AfterGood(d, actor, bps, k + 1)
  <2> DEFINE a == After(d, actor, bps, k)
             b == After(d, actor, bps, k + 1)
             r == Step(d, actor, bps, k + 1)
  <2>1. k + 1 \in 1 .. Len(d.steps) /\ (k + 1) - 1 = k
    BY <1>2, <1>0
  <2>2. b = WithStep(a, d, r)
    BY <2>1, AfterValues
  <2>3. IsResult(r)
    BY <2>1, <1>0, StepIsResult DEF Step
  <2>4. a \in Acc
    BY <1>2 DEF AfterGood
  <2>5. b \in Acc
    BY <2>2, <2>3, <2>4, WithStepKeeps
  <2>6. CASE r.ok /\ ~Over(a, d, r)
    <3>1. b = Taking(a, r)
      BY <2>2, <2>6, WithStepForms
    <3>2. /\ b.ok = a.ok /\ b.expanded = a.expanded + Len(r.rows)
          /\ b.logical = Append(a.logical, [start |-> a.expanded, rows |-> r.rows, pin |-> r.pin])
      BY <3>1 DEF Taking
    <3>3. r # Refused
      BY <2>6 DEF Refused
    <3>4. a.logical \in Seq(Entry) /\ a.expanded \in Nat /\ Len(r.rows) \in Nat
      BY <2>4, <2>3 DEF Acc, IsResult
    <3>5. b.expanded <= d.maxExpanded
      <4>1. ~(a.expanded + Len(r.rows) > d.maxExpanded)
        BY <2>6 DEF Over
      <4>2. b.expanded = a.expanded + Len(r.rows)
        BY <3>2
      <4> HIDE DEF a, b, r
      <4> QED BY <4>1, <4>2, <3>4, <1>0
    <3>6. ASSUME b.ok
          PROVE  Chained(b.logical, b.expanded) /\ EntriesOf(b.logical, d, actor, bps, k + 1)
      <4>1. Chained(a.logical, a.expanded) /\ EntriesOf(a.logical, d, actor, bps, k)
        BY <3>2, <3>6, <1>2 DEF AfterGood
      <4>2. Chained(b.logical, b.expanded)
        <5> HIDE DEF a, b, r
        <5> QED BY <4>1, <3>2, <3>4, <2>3, TakingChains
      <4>3. EntriesOf(b.logical, d, actor, bps, k + 1)
        <5> HIDE DEF a, b
        <5> QED BY <4>1, <3>2, <3>3, <3>4, <2>3, TakingEntries
      <4> QED BY <4>2, <4>3
    <3> QED BY <2>5, <3>5, <3>6 DEF AfterGood
  <2>7. CASE ~(r.ok /\ ~Over(a, d, r))
    <3>1. b = [a EXCEPT !.ok = FALSE]
      BY <2>2, <2>7, WithStepForms
    <3>2. b.ok = FALSE
      BY <3>1, <2>4 DEF Acc
    <3> QED BY <2>5, <3>2 DEF AfterGood
  <2> QED BY <2>6, <2>7
<1>3. P(0) /\ \A k \in Nat : P(k) => P(k + 1)
  BY <1>0, <1>1, <1>2
<1> HIDE DEF P
<1>4. S \in SUBSET Nat /\ 0 \in S /\ \A k \in S : k + 1 \in S
  BY <1>3
<1>5. S = Nat
  <2> HIDE DEF S
  <2> QED BY <1>4, ByInduction
<1> QED BY <1>0, <1>5 DEF P

\* What a script that is accepted is compiled to.
LEMMA CompiledScript ==
  ASSUME NEW d \in Definitions, NEW actor \in Roles, NEW bps \in [Keys -> Blueprints],
         Compile(d, actor, bps).ok
  PROVE  LET l == Compile(d, actor, bps).logical
         IN  /\ l \in Seq(Entry) /\ EntriesOf(l, d, actor, bps, Len(d.steps))
             /\ Chained(l, Compile(d, actor, bps).expanded)
             /\ Compile(d, actor, bps).expanded \in Nat
             /\ Compile(d, actor, bps).expanded <= d.maxExpanded
<1>1. Compile(d, actor, bps) = After(d, actor, bps, Len(d.steps))
  BY CompileIsAfter
<1>2. AfterGood(d, actor, bps, Len(d.steps))
  <2>1. Len(d.steps) \in 0 .. Len(d.steps)
    BY StepForms
  <2> QED BY <2>1, AfterIsGood
<1>3. Compile(d, actor, bps) \in Acc
  BY <1>1, <1>2 DEF AfterGood
<1>4. Compile(d, actor, bps).logical \in Seq(Entry) /\ Compile(d, actor, bps).expanded \in Nat
  BY <1>3 DEF Acc
<1> QED BY <1>1, <1>2, <1>4 DEF AfterGood

-----------------------------------------------------------------------------
(* The jobs are numbered in the order of the steps that build.             *)

LEMMA RankExists ==
  ASSUME NEW m \in Nat
  PROVE  \A T \in SUBSET (1 .. m) :
           \A n \in 1 .. Cardinality(T) : \E i \in T : Cardinality({k \in T : k <= i}) = n
<1> DEFINE P(x) == \A T \in SUBSET (1 .. x) :
                     \A n \in 1 .. Cardinality(T) : \E i \in T : Cardinality({k \in T : k <= i}) = n
           S == {x \in Nat : P(x)}
<1>1. P(0)
  <2>1. \A T \in SUBSET (1 .. 0) : T = {}
    OBVIOUS
  <2>2. Cardinality({}) = 0
    BY FS_EmptySet
  <2> QED BY <2>1, <2>2
<1>2. ASSUME NEW x \in Nat, P(x) PROVE P(x + 1)
  <2> SUFFICES ASSUME NEW T \in SUBSET (1 .. x + 1), NEW n \in 1 .. Cardinality(T)
               PROVE  \E i \in T : Cardinality({k \in T : k <= i}) = n
    OBVIOUS
  <2> DEFINE U == T \ {x + 1}
  <2>1. U \in SUBSET (1 .. x)
    OBVIOUS
  <2>2. IsFiniteSet(T) /\ IsFiniteSet(U) /\ Cardinality(T) \in Nat /\ Cardinality(U) \in Nat
    <3>1. IsFiniteSet(1 .. x + 1)
      BY FS_Interval
    <3> QED BY <3>1, FS_Subset, FS_CardinalityType
  <2>3. CASE x + 1 \notin T
    <3>1. T = U
      BY <2>3
    <3> QED BY <3>1, <2>1, <1>2
  <2>4. CASE x + 1 \in T
    <3>1. Cardinality(T) = Cardinality(U) + 1
      <4>1. T = U \cup {x + 1} /\ x + 1 \notin U
        BY <2>4
      <4> HIDE DEF U
      <4> QED BY <4>1, <2>2, FS_AddElement
    <3>2. CASE n = Cardinality(T)
      <4>1. {k \in T : k <= x + 1} = T
        <5>1. \A k \in 1 .. x + 1 : k <= x + 1
          OBVIOUS
        <5> QED BY <5>1
      <4> QED BY <4>1, <3>2, <2>4
    <3>3. CASE n # Cardinality(T)
      <4>1. n \in 1 .. Cardinality(U)
        BY <3>1, <3>3, <2>2
      <4>2. PICK i \in U : Cardinality({k \in U : k <= i}) = n
        BY <4>1, <2>1, <1>2
      <4>3. {k \in U : k <= i} = {k \in T : k <= i}
        OBVIOUS
      <4> QED BY <4>2, <4>3
    <3> QED BY <3>2, <3>3
  <2> QED BY <2>3, <2>4
<1> HIDE DEF P
<1>3. S \in SUBSET Nat /\ 0 \in S /\ \A x \in S : x + 1 \in S
  BY <1>1, <1>2
<1>4. S = Nat
  <2> HIDE DEF S
  <2> QED BY <1>3, ByInduction
<1> QED BY <1>4 DEF P

LEMMA RankIsOne ==
  ASSUME NEW m \in Nat, NEW T \in SUBSET (1 .. m), NEW i \in T, NEW j \in T,
         Cardinality({k \in T : k <= i}) = Cardinality({k \in T : k <= j})
  PROVE  i = j
<1>1. ASSUME NEW a \in T, NEW b \in T, a < b,
             Cardinality({k \in T : k <= a}) = Cardinality({k \in T : k <= b})
      PROVE  FALSE
  <2> DEFINE A == {k \in T : k <= a}
             B == {k \in T : k <= b}
  <2>0. IsFiniteSet(1 .. m) /\ B \in SUBSET (1 .. m)
    <3>1. IsFiniteSet(1 .. m)
      BY FS_Interval
    <3>2. B \in SUBSET (1 .. m)
      OBVIOUS
    <3> QED BY <3>1, <3>2
  <2>1. IsFiniteSet(B)
    BY <2>0, FS_Subset
  <2>2. A \in SUBSET B /\ b \in B /\ b \notin A
    <3>1. \A k \in T : k \in Int
      OBVIOUS
    <3>2. \A k \in T : k <= a => k <= b
      BY <3>1, <1>1
    <3>3. b <= b /\ ~(b <= a)
      BY <3>1, <1>1
    <3> QED BY <3>2, <3>3
  <2>3. Cardinality(B) = Cardinality(A) => B = A
    <3> HIDE DEF A, B
    <3> QED BY <2>1, <2>2, FS_Subset
  <2> QED BY <2>2, <2>3, <1>1
<1>2. i \in Int /\ j \in Int
  OBVIOUS
<1> QED BY <1>1, <1>2

\* The n-th step that builds is there, and is the one whose rows carry the
\* n-th job.
LEMMA BuildsAreFinite ==
  ASSUME NEW l \in Seq(Entry)
  PROVE  /\ Builds(l) \in SUBSET (1 .. Len(l)) /\ IsFiniteSet(Builds(l))
         /\ Cardinality(Builds(l)) \in Nat
<1>1. Builds(l) \in SUBSET (1 .. Len(l)) /\ Len(l) \in Nat
  BY DEF Builds
<1>2. IsFiniteSet(1 .. Len(l))
  BY <1>1, FS_Interval
<1> QED BY <1>1, <1>2, FS_Subset, FS_CardinalityType

LEMMA NthBuildIsThere ==
  ASSUME NEW l \in Seq(Entry), NEW n \in 1 .. Cardinality(Builds(l))
  PROVE  /\ NthBuild(l, n) \in Builds(l)
         /\ Cardinality({k \in Builds(l) : k <= NthBuild(l, n)}) = n
<1>1. \E i \in Builds(l) : Cardinality({k \in Builds(l) : k <= i}) = n
  <2>1. Len(l) \in Nat
    OBVIOUS
  <2> HIDE DEF Entry
  <2> QED BY <2>1, RankExists, BuildsAreFinite
<1> QED BY <1>1 DEF NthBuild

LEMMA JobsAreNumbered ==
  ASSUME NEW l \in Seq(Entry), NEW i \in DOMAIN l, NEW first \in Nat
  PROVE  /\ i \notin Builds(l) => JobOf(l, i, first) = 0
         /\ i \in Builds(l) => \E n \in 1 .. Cardinality(Builds(l)) :
                                 NthBuild(l, n) = i /\ JobOf(l, i, first) = first + n - 1
<1>1. ASSUME i \in Builds(l)
      PROVE  \E n \in 1 .. Cardinality(Builds(l)) :
               NthBuild(l, n) = i /\ JobOf(l, i, first) = first + n - 1
  <2> DEFINE B == Builds(l)
             C == {k \in B : k <= i}
             D == {k \in 1 .. i - 1 : l[k].pin # NoBlueprint}
  <2>0. Len(l) \in Nat /\ DOMAIN l = 1 .. Len(l) /\ i \in 1 .. Len(l)
    OBVIOUS
  <2>1. C = D \cup {i} /\ i \notin D
    BY <1>1, <2>0 DEF Builds
  <2>2. IsFiniteSet(B) /\ B \in SUBSET (1 .. Len(l))
    BY BuildsAreFinite
  <2>3. IsFiniteSet(C) /\ Cardinality(C) \in Nat /\ Cardinality(C) <= Cardinality(B)
    <3>1. C \in SUBSET B
      OBVIOUS
    <3> HIDE DEF B, C
    <3> QED BY <2>2, <3>1, FS_Subset, FS_CardinalityType
  <2>4. IsFiniteSet(D) /\ Cardinality(D) \in Nat
    <3>1. D \in SUBSET C
      BY <2>1
    <3> HIDE DEF C, D
    <3> QED BY <2>3, <3>1, FS_Subset, FS_CardinalityType
  <2>5. Cardinality(C) = Cardinality(D) + 1
    <3> HIDE DEF C, D
    <3> QED BY <2>1, <2>4, FS_AddElement
  <2>6. JobOf(l, i, first) = first + Cardinality(D)
    BY <1>1 DEF JobOf, Builds
  <2>7. Cardinality(C) \in 1 .. Cardinality(B)
    <3>1. Cardinality(B) \in Nat
      BY BuildsAreFinite
    <3> HIDE DEF B, C, D
    <3> QED BY <2>3, <2>4, <2>5, <3>1
  <2>8. NthBuild(l, Cardinality(C)) = i
    <3> DEFINE j == NthBuild(l, Cardinality(C))
    <3>1. j \in B /\ Cardinality({k \in B : k <= j}) = Cardinality(C)
      BY <2>7, NthBuildIsThere
    <3> HIDE DEF j
    <3>2. j = i
      <4> HIDE DEF B
      <4>1. i \in B
        BY <1>1 DEF B
      <4>2. Cardinality({k \in B : k <= j}) = Cardinality({k \in B : k <= i})
        BY <3>1
      <4>3. j \in B /\ Len(l) \in Nat
        BY <3>1, <2>0
      <4> QED BY ZenonT(60), <4>1, <4>2, <4>3, <2>2, RankIsOne
    <3> QED BY <3>2 DEF j
  <2>9. JobOf(l, i, first) = first + Cardinality(C) - 1
    <3> HIDE DEF C, D
    <3> QED BY <2>4, <2>5, <2>6
  <2> HIDE DEF C
  <2> QED BY <2>7, <2>8, <2>9
<1>2. i \notin Builds(l) => JobOf(l, i, first) = 0
  BY DEF Builds, JobOf
<1> QED BY <1>1, <1>2

-----------------------------------------------------------------------------
(* Rows put one after another.                                             *)

\* The rows of a script, put one after another.
IsFlat(f, seqs) ==
  f = [i \in 1 .. Len(seqs) |-> IF i = 1 THEN seqs[i] ELSE f[i - 1] \o seqs[i]]

FlatTo(seqs) == CHOOSE f : IsFlat(f, seqs)

LEMMA FlatExists ==
  ASSUME NEW S, NEW n \in Nat \ {0}, NEW seqs \in [1 .. n -> Seq(S)]
  PROVE  IsFlat(FlatTo(seqs), seqs) /\ FlattenSeq(seqs) = FlatTo(seqs)[n] /\ Len(seqs) = n
<1> DEFINE F == [p \in Seq(S) \X (1 .. n) |-> p[1] \o seqs[p[2]]]
<1>0. Len(seqs) = n
  OBVIOUS
<1>1. \A a \in Seq(S), k \in 1 .. n : F[<<a, k>>] \in Seq(S)
  OBVIOUS
<1>2. <<>> \in Seq(S)
  OBVIOUS
<1>3. HasFold(n, Seq(S), F, <<>>)
  <2> HIDE DEF F
  <2> DEFINE T == Seq(S)
  <2>1. \A e \in T : HasFold(n, T, F, e)
    <3>1. \A a \in T, k \in 1 .. n : F[<<a, k>>] \in T
      BY <1>1
    <3>2. n \in Nat
      OBVIOUS
    <3> HIDE DEF T
    <3> QED BY <3>1, <3>2, FoldExists
  <2>2. <<>> \in T
    BY <1>2
  <2> HIDE DEF T
  <2>3. HasFold(n, T, F, <<>>)
    BY <2>1, <2>2
  <2> QED BY <2>3 DEF T
<1>4. PICK g \in [SUBSET (1 .. n) -> Seq(S)] :
        \A s \in SUBSET (1 .. n) : g[s] = IF s = {} THEN <<>> ELSE F[<<g[s \ {Max(s)}], Max(s)>>]
  <2> HIDE DEF F
  <2> QED BY <1>3 DEF HasFold
<1>5. g[1 .. 0] = <<>>
  <2>1. 1 .. 0 = {}
    OBVIOUS
  <2> HIDE DEF F
  <2> QED BY <1>4, <2>1
<1>6. ASSUME NEW k \in 1 .. n PROVE g[1 .. k] = g[1 .. k - 1] \o seqs[k] /\ g[1 .. k - 1] \in Seq(S)
  <2>1. 1 .. k \in SUBSET (1 .. n) /\ 1 .. k # {} /\ 1 .. k - 1 \in SUBSET (1 .. n)
    <3>1. k \in 1 .. k
      OBVIOUS
    <3>2. 1 .. k \in SUBSET (1 .. n)
      OBVIOUS
    <3>3. 1 .. k - 1 \in SUBSET (1 .. n)
      OBVIOUS
    <3> QED BY <3>1, <3>2, <3>3
  <2>2. Max(1 .. k) = k /\ (1 .. k) \ {k} = 1 .. k - 1
    BY MaxOfInterval
  <2>3. g[1 .. k] = F[<<g[1 .. k - 1], k>>]
    <3> HIDE DEF F
    <3> QED BY <1>4, <2>1, <2>2
  <2>4. g[1 .. k - 1] \in Seq(S)
    BY <2>1
  <2> QED BY <2>3, <2>4
<1> DEFINE h == [i \in 1 .. n |-> g[1 .. i]]
<1>7. h = [i \in 1 .. n |-> IF i = 1 THEN seqs[i] ELSE h[i - 1] \o seqs[i]]
  <2>1. ASSUME NEW i \in 1 .. n
        PROVE  g[1 .. i] = IF i = 1 THEN seqs[i] ELSE h[i - 1] \o seqs[i]
    <3>1. CASE i = 1
      <4>0. 1 \in 1 .. n /\ 1 .. 1 - 1 = 1 .. 0
        OBVIOUS
      <4>1. g[1 .. 1] = g[1 .. 1 - 1] \o seqs[1]
        BY <1>6, <4>0
      <4>2. seqs[1] \in Seq(S)
        BY <4>0
      <4>3. <<>> \o seqs[1] = seqs[1]
        BY <4>2
      <4> HIDE DEF F
      <4> QED BY <4>0, <4>1, <4>3, <1>5, <3>1
    <3>2. CASE i # 1
      <4>1. i - 1 \in 1 .. n
        BY <3>2
      <4>2. h[i - 1] = g[1 .. i - 1]
        BY <4>1
      <4> HIDE DEF h
      <4> QED BY <3>2, <4>2, <1>6
    <3> QED BY <3>1, <3>2
  <2> QED BY <2>1
<1>8. IsFlat(h, seqs)
  <2> HIDE DEF h
  <2> QED BY <1>7, <1>0 DEF IsFlat
<1>9. IsFlat(FlatTo(seqs), seqs)
  <2> HIDE DEF h
  <2> QED BY <1>8 DEF FlatTo
<1>10. FlattenSeq(seqs) = FlatTo(seqs)[n]
  BY <1>0 DEF FlattenSeq, FlatTo, IsFlat
<1> QED BY <1>0, <1>9, <1>10

\* Sequences put one after another, that start where the others end.
Starts(st, seqs, n) == st[1] = 0 /\ \A i \in 1 .. n - 1 : st[i + 1] = st[i] + Len(seqs[i])

FlatAsTold(f, seqs, st, n, S) ==
  /\ f \in Seq(S) /\ Len(f) = st[n] + Len(seqs[n])
  /\ \A i \in 1 .. n : /\ st[i] + Len(seqs[i]) <= Len(f)
                       /\ \A j \in 1 .. Len(seqs[i]) : f[st[i] + j] = seqs[i][j]

LEMMA FlatParts ==
  ASSUME NEW S, NEW n \in Nat \ {0}, NEW seqs \in [1 .. n -> Seq(S)], NEW st \in [1 .. n -> Nat],
         Starts(st, seqs, n)
  PROVE  FlatAsTold(FlattenSeq(seqs), seqs, st, n, S)
<1> DEFINE f == FlatTo(seqs)
           Parts(k) == /\ f[k] \in Seq(S) /\ Len(f[k]) = st[k] + Len(seqs[k])
                       /\ \A i \in 1 .. k : /\ st[i] + Len(seqs[i]) <= Len(f[k])
                                            /\ \A j \in 1 .. Len(seqs[i]) : f[k][st[i] + j] = seqs[i][j]
           P(k) == k + 1 <= n => Parts(k + 1)
           T == {k \in Nat : P(k)}
<1>0. /\ FlattenSeq(seqs) = f[n]
      /\ f = [i \in 1 .. n |-> IF i = 1 THEN seqs[i] ELSE f[i - 1] \o seqs[i]]
  <2>1. IsFlat(FlatTo(seqs), seqs) /\ FlattenSeq(seqs) = FlatTo(seqs)[n] /\ Len(seqs) = n
    BY FlatExists
  <2>2. f = [i \in 1 .. Len(seqs) |-> IF i = 1 THEN seqs[i] ELSE f[i - 1] \o seqs[i]]
    BY <2>1 DEF IsFlat
  <2> HIDE DEF f
  <2>3. f = [i \in 1 .. n |-> IF i = 1 THEN seqs[i] ELSE f[i - 1] \o seqs[i]]
    BY <2>1, <2>2
  <2> QED BY <2>1, <2>3 DEF f
<1> HIDE DEF f
<1>1. 1 \in 1 .. n /\ n \in 1 .. n
  OBVIOUS
<1>12. st[1] = 0 /\ \A i \in 1 .. n - 1 : st[i + 1] = st[i] + Len(seqs[i])
  BY DEF Starts
<1>2. f[1] = seqs[1] /\ \A k \in 1 .. n : k # 1 => f[k] = f[k - 1] \o seqs[k]
  BY <1>0, <1>1
<1>3. P(0)
  <2>1. seqs[1] \in Seq(S) /\ Len(seqs[1]) \in Nat
    BY <1>1
  <2>2. Len(f[1]) = st[1] + Len(seqs[1])
    BY <1>2, <1>12, <2>1
  <2>3. ASSUME NEW i \in 1 .. 1
        PROVE  /\ st[i] + Len(seqs[i]) <= Len(f[1])
               /\ \A j \in 1 .. Len(seqs[i]) : f[1][st[i] + j] = seqs[i][j]
    <3>1. i = 1
      OBVIOUS
    <3>2. \A j \in 1 .. Len(seqs[1]) : 0 + j = j
      BY <2>1
    <3> QED BY <3>1, <3>2, <1>2, <1>12, <2>1
  <2>4. Parts(1)
    BY <1>2, <2>1, <2>2, <2>3
  <2>5. 0 + 1 = 1
    OBVIOUS
  <2> HIDE DEF Parts
  <2> QED BY <2>4, <2>5
<1>4. ASSUME NEW k \in Nat, P(k) PROVE P(k + 1)
  <2> DEFINE m == k + 1
  <2> SUFFICES ASSUME m + 1 <= n PROVE Parts(m + 1)
    OBVIOUS
  <2>0. m \in 1 .. n /\ m + 1 \in 1 .. n /\ m + 1 # 1 /\ (m + 1) - 1 = m /\ m \in 1 .. n - 1 /\ m \in Nat
    OBVIOUS
  <2>1. Parts(m)
    <3> HIDE DEF Parts
    <3> QED BY <1>4, <2>0
  <2> HIDE DEF m
  <2>2. f[m + 1] = f[m] \o seqs[m + 1] /\ st[m + 1] = Len(f[m])
    BY <2>0, <2>1, <1>2, <1>12
  <2> DEFINE s == f[m]
             t == seqs[m + 1]
  <2>3. s \in Seq(S) /\ t \in Seq(S)
    BY <2>0, <2>1
  <2>4. /\ s \o t \in Seq(S) /\ Len(s \o t) = Len(s) + Len(t)
        /\ Len(s) \in Nat /\ Len(t) \in Nat
        /\ \A x \in 1 .. Len(s) : (s \o t)[x] = s[x]
        /\ \A x \in 1 .. Len(t) : (s \o t)[Len(s) + x] = t[x]
    <3> HIDE DEF s, t
    <3> QED BY <2>3
  <2>5. ASSUME NEW i \in 1 .. m + 1
        PROVE  /\ st[i] + Len(seqs[i]) <= Len(s \o t)
               /\ \A j \in 1 .. Len(seqs[i]) : (s \o t)[st[i] + j] = seqs[i][j]
    <3>1. CASE i = m + 1
      <4>1. st[i] = Len(s) /\ seqs[i] = t
        BY <3>1, <2>2
      <4> HIDE DEF s, t
      <4> QED BY <4>1, <2>4
    <3>2. CASE i # m + 1
      <4>1. i \in 1 .. m /\ i \in 1 .. n
        BY <3>2, <2>0
      <4>2. st[i] + Len(seqs[i]) <= Len(s) /\ \A j \in 1 .. Len(seqs[i]) : s[st[i] + j] = seqs[i][j]
        BY <4>1, <2>1
      <4>3. st[i] \in Nat /\ Len(seqs[i]) \in Nat
        BY <4>1
      <4> HIDE DEF s, t
      <4>4. ASSUME NEW j \in 1 .. Len(seqs[i]) PROVE st[i] + j \in 1 .. Len(s)
        BY <4>2, <4>3, <2>4
      <4> QED BY SMTT(40), <4>2, <4>3, <4>4, <2>4
    <3> QED BY <3>1, <3>2
  <2>6. f[m + 1] = s \o t /\ Len(s \o t) = st[m + 1] + Len(seqs[m + 1])
    BY <2>2, <2>4
  <2> HIDE DEF s, t
  <2> QED BY <2>4, <2>5, <2>6
<1> HIDE DEF P
<1>5. T \in SUBSET Nat /\ 0 \in T /\ \A k \in T : k + 1 \in T
  BY <1>3, <1>4
<1>6. T = Nat
  <2> HIDE DEF T
  <2> QED BY <1>5, ByInduction
<1>7. Parts(n)
  <2>1. n - 1 \in Nat /\ (n - 1) + 1 = n
    OBVIOUS
  <2>2. P(n - 1)
    BY <2>1, <1>6
  <2> HIDE DEF Parts
  <2> QED BY <2>1, <2>2 DEF P
<1> QED BY ZenonT(60), <1>7, <1>0 DEF FlatAsTold

-----------------------------------------------------------------------------
(* What an accepted step says of its skills, its rows and its blueprint.   *)

LEMMA StepsFit ==
  ASSUME NEW d \in Definitions
  PROVE  MaxSteps \in Nat /\ Len(d.steps) <= MaxSteps
<1> DEFINE T == {Len(e.steps) : e \in Definitions}
<1>1. T \in SUBSET (1 .. 32) /\ Len(d.steps) \in T
  BY StepForms
<1>2. \E n \in T : \A y \in T : n >= y
  <2> HIDE DEF T
  <2>1. \A m \in Nat : T \in SUBSET (1 .. m) => Max(T) \in T /\ \A y \in T : Max(T) >= y
    <3>1. T # {}
      BY <1>1
    <3> QED BY <3>1, MaxOf
  <2> QED BY <1>1, <2>1
<1>3. \E n \in 0 .. 32 : /\ \E e \in Definitions : Len(e.steps) = n
                         /\ \A e \in Definitions : Len(e.steps) <= n
  <2>1. PICK n \in T : \A y \in T : n >= y
    BY <1>2
  <2>2. n \in 0 .. 32 /\ n \in Nat
    <3>1. n \in 1 .. 32
      BY <1>1
    <3> HIDE DEF T
    <3> QED BY <3>1
  <2>3. \A e \in Definitions : Len(e.steps) <= n
    <3> TAKE e \in Definitions
    <3>1. Len(e.steps) \in T
      OBVIOUS
    <3>2. Len(e.steps) \in Nat
      BY StepForms
    <3> HIDE DEF T
    <3> QED BY <2>1, <2>2, <3>1, <3>2
  <2>4. \E e \in Definitions : Len(e.steps) = n
    BY <2>1
  <2> QED BY <2>2, <2>3, <2>4
<1>4. MaxSteps \in 0 .. 32 /\ \A e \in Definitions : Len(e.steps) <= MaxSteps
  BY <1>3 DEF MaxSteps
<1>5. MaxSteps \in Nat
  BY <1>4
<1> QED BY <1>4, <1>5

LEMMA KeysOfSteps ==
  ASSUME NEW d \in Definitions, NEW i \in DOMAIN d.steps, NEW r \in 1 .. MaxRuns + 1
  PROVE  /\ <<r, i>> \in Inline /\ <<r, i>> \in Keys /\ Names \cap Inline = {}
         /\ d.steps[i].op = "build" => KeyOf(d, i, r) \in Keys
<1>1. <<r, i>> \in Inline
  <2>1. i \in 1 .. Len(d.steps) /\ Len(d.steps) \in Nat
    <3>1. DOMAIN d.steps = 1 .. Len(d.steps) /\ Len(d.steps) \in 1 .. 32
      BY StepForms
    <3> QED BY <3>1
  <2>2. i \in 1 .. MaxSteps
    BY <2>1, StepsFit
  <2> QED BY <2>2 DEF Inline
<1>2. Names \cap Inline = {}
  BY ScriptAssumption
<1>3. d.steps[i].op = "build" /\ d.steps[i].named => d.steps[i].name \in Names
  BY StepForms
<1> QED BY <1>1, <1>2, <1>3 DEF Keys, KeyOf

LEMMA StepSkills ==
  ASSUME NEW d \in Definitions, NEW i \in DOMAIN d.steps, NEW actor \in Roles,
         NEW bps \in [Keys -> Blueprints], Step(d, actor, bps, i) # Refused
  PROVE  /\ \A s \in SkillsOf(d.steps[i]) : s \in DOMAIN Registry /\ Satisfies(actor, s)
         /\ \A k \in DOMAIN Step(d, actor, bps, i).rows :
              /\ Step(d, actor, bps, i).rows[k].skill \in SkillsOf(d.steps[i])
              /\ Step(d, actor, bps, i).rows[k].job = (d.steps[i].op = "build")
<1> DEFINE r == Step(d, actor, bps, i)
           c == CompileLogicalStep(d.steps[i], actor, bps)
<1>0. r = c /\ c # Refused
  BY DEF Step
<1>1. CASE d.steps[i].op = "skill"
  <2>1. c.rows = <<[skill |-> d.steps[i].skill, job |-> FALSE]>> /\ d.steps[i].skill \in DOMAIN Registry
        /\ Satisfies(actor, d.steps[i].skill)
    BY ZenonT(60), <1>0, <1>1, SkillStep
  <2>2. SkillsOf(d.steps[i]) = {d.steps[i].skill}
    BY <1>1 DEF SkillsOf
  <2>3. r.rows = <<[skill |-> d.steps[i].skill, job |-> FALSE]>>
    BY <2>1, <1>0
  <2>4. \A k \in DOMAIN r.rows : r.rows[k].skill = d.steps[i].skill /\ r.rows[k].job = FALSE
    <3> HIDE DEF r
    <3> QED BY <2>3
  <2>5. (d.steps[i].op = "build") = FALSE
    BY <1>1
  <2> HIDE DEF r
  <2> QED BY <2>1, <2>2, <2>4, <2>5 DEF r
<1>2. CASE d.steps[i].op = "clear"
  <2>1. c.rows = <<[skill |-> "clearRegion", job |-> FALSE]>> /\ Satisfies(actor, "clearRegion")
    BY <1>0, <1>2, ClearStep
  <2>2. SkillsOf(d.steps[i]) = {"clearRegion"}
    BY <1>2 DEF SkillsOf
  <2>3. r.rows = <<[skill |-> "clearRegion", job |-> FALSE]>>
    BY <2>1, <1>0
  <2>4. \A k \in DOMAIN r.rows : r.rows[k].skill = "clearRegion" /\ r.rows[k].job = FALSE
    <3> HIDE DEF r
    <3> QED BY <2>3
  <2>5. (d.steps[i].op = "build") = FALSE
    BY <1>2
  <2> HIDE DEF r
  <2> QED BY <2>1, <2>2, <2>4, <2>5, SkillsKnown DEF r
<1>3. CASE d.steps[i].op = "build"
  <2>1. c.rows = BuildRows /\ \A k \in DOMAIN InternalSkills : Satisfies(actor, InternalSkills[k])
    BY <1>0, <1>3, BuildStep
  <2>2. SkillsOf(d.steps[i]) = {InternalSkills[k] : k \in DOMAIN InternalSkills}
    BY <1>3 DEF SkillsOf
  <2>3. r.rows = BuildRows
    BY <2>1, <1>0
  <2>4. \A k \in DOMAIN r.rows : r.rows[k].skill \in SkillsOf(d.steps[i]) /\ r.rows[k].job = TRUE
    <3> HIDE DEF r
    <3> QED BY <2>2, <2>3 DEF BuildRows
  <2>5. (d.steps[i].op = "build") = TRUE
    BY <1>3
  <2>6. \A s \in SkillsOf(d.steps[i]) : s \in DOMAIN Registry /\ Satisfies(actor, s)
    BY <2>1, <2>2, SkillsKnown
  <2> HIDE DEF r
  <2> QED BY <2>4, <2>5, <2>6 DEF r
<1> QED BY <1>1, <1>2, <1>3, StepForms

\* What is kept of each step of a script that is accepted.
LEMMA EntryFacts ==
  ASSUME NEW d \in Definitions, NEW actor \in Roles, NEW bps \in [Keys -> Blueprints],
         NEW l \in Seq(Entry), EntriesOf(l, d, actor, bps, Len(d.steps)), NEW i \in DOMAIN d.steps
  PROVE  /\ i \in DOMAIN l /\ l[i] \in Entry /\ Len(l[i].rows) >= 1
         /\ (d.steps[i].op = "build") <=> i \in Builds(l)
         /\ d.steps[i].op = "build" => /\ l[i].rows = BuildRows /\ l[i].pin \in Contents
                                       /\ Rank(actor) >= Rank(l[i].pin.role)
         /\ d.steps[i].op = "build" /\ d.steps[i].named => l[i].pin = bps[d.steps[i].name]
         /\ d.steps[i].op = "build" /\ ~d.steps[i].named => l[i].pin = d.steps[i].content
<1> DEFINE r == Step(d, actor, bps, i)
<1>1. Len(l) = Len(d.steps) /\ i \in 1 .. Len(d.steps) /\ Len(d.steps) \in Nat
  BY StepForms DEF EntriesOf
<1>2. i \in DOMAIN l /\ l[i] \in Entry
  <2> HIDE DEF Entry
  <2> QED BY <1>1
<1>3. l[i].rows = r.rows /\ l[i].pin = r.pin /\ r # Refused
  BY <1>1 DEF EntriesOf
<1>4. r = CompileLogicalStep(d.steps[i], actor, bps)
  BY DEF Step
<1> DEFINE c == CompileLogicalStep(d.steps[i], actor, bps)
<1>10. c # Refused /\ l[i].rows = c.rows /\ l[i].pin = c.pin
  BY <1>3, <1>4
<1> HIDE DEF r
<1>5. Len(l[i].rows) >= 1
  BY <1>10, StepIsResult DEF IsResult
<1>6. CASE d.steps[i].op = "skill"
  <2>1. c.pin = NoBlueprint
    BY <1>10, <1>6, SkillStep
  <2>2. l[i].pin = NoBlueprint
    BY <2>1, <1>10
  <2> HIDE DEF c
  <2> QED BY <1>2, <1>5, <1>6, <2>2 DEF Builds
<1>7. CASE d.steps[i].op = "clear"
  <2>1. c.pin = NoBlueprint
    BY <1>10, <1>7, ClearStep
  <2>2. l[i].pin = NoBlueprint
    BY <2>1, <1>10
  <2> HIDE DEF c
  <2> QED BY <1>2, <1>5, <1>7, <2>2 DEF Builds
<1>8. CASE d.steps[i].op = "build"
  <2>1. /\ c.rows = BuildRows /\ c.pin \in Contents
        /\ Rank(actor) >= Rank(c.pin.role)
        /\ d.steps[i].named => c.pin = bps[d.steps[i].name]
        /\ ~d.steps[i].named => c.pin = d.steps[i].content
    BY <1>10, <1>8, BuildStep
  <2>2. i \in Builds(l)
    BY <2>1, <1>2, <1>10, NoBlueprintIsNone DEF Builds
  <2> HIDE DEF c
  <2> QED BY <1>2, <1>10, <1>5, <1>8, <2>1, <2>2
<1> QED BY <1>6, <1>7, <1>8, StepForms

LEMMA AcceptedSkills ==
  ASSUME NEW d \in Definitions, NEW actor \in Roles, NEW bps \in [Keys -> Blueprints],
         NEW l, EntriesOf(l, d, actor, bps, Len(d.steps)),
         NEW i \in DOMAIN d.steps, NEW s \in SkillsOf(d.steps[i])
  PROVE  s \in DOMAIN Registry /\ Rank(actor) >= Rank(Registry[s].role)
<1>1. Step(d, actor, bps, i) # Refused
  BY StepForms DEF EntriesOf
<1> QED BY <1>1, StepSkills DEF Satisfies

-----------------------------------------------------------------------------
(* What is bound to an accepted script: its links and its rows.            *)

\* The rows that a script of its own may have, for jobs up to the n-th.
ScriptRows(d, n) ==
  {row \in [skill : DOMAIN Registry, job : 0 .. n] :
     \E i \in DOMAIN d.steps : row.skill \in SkillsOf(d.steps[i])}

BoundLink(n) == [start : Nat, count : Nat, job : 0 .. n, pin : Blueprints]

LEMMA JobsInRange ==
  ASSUME NEW l \in Seq(Entry), NEW i \in DOMAIN l, NEW n \in Nat
  PROVE  JobOf(l, i, n + 1) \in 0 .. n + Cardinality(Builds(l))
<1>1. Cardinality(Builds(l)) \in Nat
  BY BuildsAreFinite
<1>2. CASE i \notin Builds(l)
  <2>1. JobOf(l, i, n + 1) = 0
    BY <1>2, JobsAreNumbered
  <2> QED BY <2>1, <1>1
<1>3. CASE i \in Builds(l)
  <2>1. n + 1 \in Nat
    OBVIOUS
  <2>2. PICK m \in 1 .. Cardinality(Builds(l)) : JobOf(l, i, n + 1) = (n + 1) + m - 1
    BY <1>3, <2>1, JobsAreNumbered
  <2> QED BY <2>2, <1>1
<1> QED BY <1>2, <1>3

Resolved(l, i, first) == [k \in DOMAIN l[i].rows |-> ResolveTask(l[i].rows[k], JobOf(l, i, first))]

LEMMA BoundParts ==
  ASSUME NEW d \in Definitions, NEW actor \in Roles, NEW bps \in [Keys -> Blueprints],
         NEW l \in Seq(Entry), EntriesOf(l, d, actor, bps, Len(d.steps)), NEW total, Chained(l, total),
         NEW n \in Nat
  PROVE  LET b == Bind(l, n + 1)
             m == n + Cardinality(Builds(l))
         IN  /\ b.links \in Seq(BoundLink(m)) /\ Len(b.links) = Len(d.steps)
             /\ b.rows \in Seq(ScriptRows(d, m)) /\ Len(b.rows) = total
             /\ \A i \in 1 .. Len(d.steps) :
                  /\ b.links[i].start = l[i].start /\ b.links[i].count = Len(l[i].rows)
                  /\ b.links[i].job = JobOf(l, i, n + 1) /\ b.links[i].pin = l[i].pin
                  /\ l[i].start + Len(l[i].rows) <= total
                  /\ \A j \in 1 .. Len(l[i].rows) : b.rows[l[i].start + j] = Resolved(l, i, n + 1)[j]
<1> DEFINE b == Bind(l, n + 1)
           m == n + Cardinality(Builds(l))
           h == Len(d.steps)
           link(i) == [start |-> l[i].start, count |-> Len(l[i].rows), job |-> JobOf(l, i, n + 1), pin |-> l[i].pin]
           seqs == [i \in 1 .. h |-> Resolved(l, i, n + 1)]
           st == [i \in 1 .. h |-> l[i].start]
           S == ScriptRows(d, m)
<1>0. h \in Nat \ {0} /\ DOMAIN d.steps = 1 .. h /\ Len(l) = h /\ DOMAIN l = 1 .. h
  <2>1. Len(d.steps) \in 1 .. 32 /\ DOMAIN d.steps = 1 .. Len(d.steps)
    BY StepForms
  <2>2. Len(l) = h
    BY DEF EntriesOf
  <2>3. DOMAIN l = 1 .. Len(l)
    <3> HIDE DEF Entry
    <3> QED OBVIOUS
  <2>4. \A x \in 1 .. 32 : x \in Nat \ {0}
    OBVIOUS
  <2> QED BY <2>1, <2>2, <2>3, <2>4
<1>1. ASSUME NEW i \in 1 .. h PROVE l[i] \in Entry
  <2> HIDE DEF Entry, h
  <2> QED BY <1>0, <1>1
<1>2. ASSUME NEW i \in 1 .. h
      PROVE  /\ l[i].start \in Nat /\ l[i].rows \in Seq(RawRow) /\ l[i].pin \in Blueprints
             /\ Len(l[i].rows) \in Nat /\ DOMAIN l[i].rows = 1 .. Len(l[i].rows)
  <2>1. l[i].start \in Nat /\ l[i].rows \in Seq(RawRow) /\ l[i].pin \in Blueprints
    BY <1>1 DEF Entry
  <2> HIDE DEF h
  <2> QED BY <2>1
<1>3. m \in Nat /\ \A i \in 1 .. h : JobOf(l, i, n + 1) \in 0 .. m
  <2>1. Cardinality(Builds(l)) \in Nat
    BY BuildsAreFinite
  <2>2. \A i \in DOMAIN l : JobOf(l, i, n + 1) \in 0 .. m
    BY JobsInRange
  <2> QED BY <2>1, <2>2, <1>0
<1>4. b.links = [i \in 1 .. h |-> link(i)] /\ b.rows = FlattenSeq(seqs)
  BY <1>0 DEF Bind, Resolved
<1>5. ASSUME NEW i \in 1 .. h PROVE link(i) \in BoundLink(m)
  <2> HIDE DEF h
  <2> QED BY <1>2, <1>3 DEF BoundLink
<1>6. b.links \in Seq(BoundLink(m)) /\ Len(b.links) = h /\ \A i \in 1 .. h : b.links[i] = link(i)
  <2> HIDE DEF b, h, link, m
  <2> QED BY <1>0, <1>4, <1>5
<1>7. ASSUME NEW i \in 1 .. h PROVE Resolved(l, i, n + 1) \in Seq(S) /\ Len(Resolved(l, i, n + 1)) = Len(l[i].rows)
  <2> DEFINE r == Step(d, actor, bps, i)
             q == l[i].rows
             J == JobOf(l, i, n + 1)
  <2>1. q = r.rows /\ r # Refused
    BY <1>7 DEF EntriesOf
  <2>2. \A k \in DOMAIN q : q[k].skill \in SkillsOf(d.steps[i])
    BY <2>1, <1>0, StepSkills
  <2>3. \A k \in DOMAIN q : ResolveTask(q[k], J) \in S
    <3> TAKE k \in DOMAIN q
    <3>1. q[k] \in RawRow
      <4>1. q \in Seq(RawRow)
        BY <1>2
      <4> HIDE DEF q, RawRow
      <4> QED BY <4>1
    <3>2. q[k].skill \in DOMAIN Registry
      BY <3>1 DEF RawRow
    <3>3. 0 \in 0 .. m /\ J \in 0 .. m
      BY <1>3
    <3>4. ResolveTask(q[k], J).skill = q[k].skill /\ ResolveTask(q[k], J).job \in {0, J}
      BY DEF ResolveTask
    <3>5. ResolveTask(q[k], J) \in [skill : DOMAIN Registry, job : 0 .. m]
      <4> HIDE DEF q, J, m
      <4> QED BY <3>2, <3>3 DEF ResolveTask
    <3> HIDE DEF q, J, m
    <3> QED BY <2>2, <3>4, <3>5, <1>0 DEF ScriptRows
  <2>4. Resolved(l, i, n + 1) = [k \in 1 .. Len(q) |-> ResolveTask(q[k], J)] /\ Len(q) \in Nat
    BY <1>2 DEF Resolved
  <2>5. \A k \in 1 .. Len(q) : ResolveTask(q[k], J) \in S
    BY <2>3, <1>2
  <2> HIDE DEF S, J, q
  <2>6. Resolved(l, i, n + 1) \in Seq(S) /\ Len(Resolved(l, i, n + 1)) = Len(q)
    BY <2>4, <2>5
  <2> QED BY <2>6 DEF q
<1>8. seqs \in [1 .. h -> Seq(S)] /\ \A i \in 1 .. h : seqs[i] = Resolved(l, i, n + 1)
  <2> HIDE DEF S, h
  <2> QED BY <1>7
<1>9. st \in [1 .. h -> Nat] /\ st[1] = 0 /\ \A i \in 1 .. h - 1 : st[i + 1] = st[i] + Len(seqs[i])
  <2>1. l # <<>>
    BY <1>0
  <2>2. l[1].start = 0 /\ \A i \in 1 .. h - 1 : l[i + 1].start = l[i].start + Len(l[i].rows)
    BY <2>1, <1>0 DEF Chained
  <2>3. \A i \in 1 .. h : st[i] = l[i].start
    OBVIOUS
  <2>4. st \in [1 .. h -> Nat]
    BY <1>2
  <2>5. st[1] = 0
    BY <2>2, <2>3, <1>0
  <2>6. ASSUME NEW i \in 1 .. h - 1 PROVE st[i + 1] = st[i] + Len(seqs[i])
    <3>1. i \in 1 .. h /\ i + 1 \in 1 .. h
      BY <1>0
    <3> HIDE DEF st, seqs, h
    <3> QED BY <3>1, <2>2, <2>3, <1>7, <1>8
  <2> QED BY <2>4, <2>5, <2>6
<1>10. total = l[h].start + Len(l[h].rows)
  <2>1. l # <<>>
    BY <1>0
  <2> QED BY <2>1, <1>0 DEF Chained
<1>11. /\ b.rows \in Seq(S) /\ Len(b.rows) = st[h] + Len(seqs[h])
       /\ \A i \in 1 .. h : /\ st[i] + Len(seqs[i]) <= Len(b.rows)
                            /\ \A j \in 1 .. Len(seqs[i]) : b.rows[st[i] + j] = seqs[i][j]
  <2> HIDE DEF b, S, seqs, st, h
  <2>1. Starts(st, seqs, h)
    BY <1>9 DEF Starts
  <2>2. FlatAsTold(FlattenSeq(seqs), seqs, st, h, S)
    <3>1. h \in Nat \ {0}
      BY <1>0
    <3>2. seqs \in [1 .. h -> Seq(S)]
      BY <1>8
    <3>3. st \in [1 .. h -> Nat]
      BY <1>9
    <3> QED BY <2>1, <3>1, <3>2, <3>3, FlatParts
  <2>3. FlatAsTold(b.rows, seqs, st, h, S)
    BY <2>2, <1>4
  <2> QED BY <2>3 DEF FlatAsTold
<1>12. h \in 1 .. h /\ \A i \in 1 .. h : st[i] = l[i].start /\ Len(seqs[i]) = Len(l[i].rows)
  <2>1. \A i \in 1 .. h : st[i] = l[i].start
    OBVIOUS
  <2>2. h \in 1 .. h
    BY <1>0
  <2> HIDE DEF seqs, st, h
  <2> QED BY <2>1, <2>2, <1>7, <1>8
<1>13. Len(b.rows) = total
  <2> HIDE DEF b, seqs, st, h
  <2> QED BY <1>10, <1>11, <1>12
<1>14. \A i \in 1 .. h : /\ l[i].start + Len(l[i].rows) <= total
                         /\ \A j \in 1 .. Len(l[i].rows) : b.rows[l[i].start + j] = Resolved(l, i, n + 1)[j]
  <2> HIDE DEF b, seqs, st, h
  <2> TAKE i \in 1 .. h
  <2>1. st[i] = l[i].start /\ Len(seqs[i]) = Len(l[i].rows)
    BY <1>12
  <2>2. seqs[i] = Resolved(l, i, n + 1)
    BY <1>8
  <2>3. st[i] + Len(seqs[i]) <= Len(b.rows) /\ \A j \in 1 .. Len(seqs[i]) : b.rows[st[i] + j] = seqs[i][j]
    BY <1>11
  <2> QED BY <2>1, <2>2, <2>3, <1>13
<1> HIDE DEF S
<1>15. \A i \in 1 .. h : /\ b.links[i].start = l[i].start /\ b.links[i].count = Len(l[i].rows)
                         /\ b.links[i].job = JobOf(l, i, n + 1) /\ b.links[i].pin = l[i].pin
  <2> HIDE DEF b, h
  <2> TAKE i \in 1 .. h
  <2>1. b.links[i] = link(i)
    BY <1>6
  <2> QED BY <2>1
<1>16. b.rows \in Seq(ScriptRows(d, m))
  BY <1>11 DEF S
<1> QED BY <1>6, <1>13, <1>14, <1>15, <1>16

-----------------------------------------------------------------------------
(* The invariant of the tables, and the steps that keep it.                *)

JobRow == [of : Keys, total : Nat, status : JobStatus, run : 0 .. MaxRuns]
RunRow == [status : {"running", "paused", "cancelled"}, definition : Definitions,
           links : Seq(BoundLink(MaxJobs)), rows : Seq([skill : DOMAIN Registry, job : 0 .. MaxJobs])]

MTyped ==
  /\ blueprint \in [Keys -> Blueprints]
  /\ job \in Seq(JobRow) /\ Len(job) <= MaxJobs
  /\ run \in Seq(RunRow) /\ Len(run) <= MaxRuns
  /\ saved \in Missions \cup {NoDefinition}
  /\ role \in Roles /\ live \in Versions \cup {"none"}

\* A job has a blueprint, which as long as the job is not finished is the one
\* it was created for.
JobHolds(j, jobs, bps) ==
  /\ bps[jobs[j].of] # NoBlueprint
  /\ jobs[j].status \notin Finished => bps[jobs[j].of].cells = jobs[j].total

LinkHolds(link, jobs, bps) ==
  link.job # 0 => /\ link.job \in DOMAIN jobs
                  /\ jobs[link.job].status \notin Finished => bps[jobs[link.job].of] = link.pin

\* What a run keeps of its script.
Scripted(u) ==
  /\ Len(u.links) = Len(u.definition.steps)
  /\ \A i \in DOMAIN u.links : u.links[i].job # 0 =>
       /\ u.definition.steps[i].op = "build"
       /\ ~u.definition.steps[i].named => u.links[i].pin = u.definition.steps[i].content
  /\ \A k \in DOMAIN u.rows : \E i \in DOMAIN u.definition.steps :
       u.rows[k].skill \in SkillsOf(u.definition.steps[i])

JobsHold(jobs, bps) == \A j \in DOMAIN jobs : JobHolds(j, jobs, bps)

LinksHold(runs, jobs, bps) ==
  \A r \in DOMAIN runs : \A i \in DOMAIN runs[r].links : LinkHolds(runs[r].links[i], jobs, bps)

\* An inline build is stored with its run.
InlineKept(runs, bps) == \A k \in Inline : bps[k] # NoBlueprint => k[1] <= Len(runs)

ScriptsKept(runs) == \A r \in DOMAIN runs : Scripted(runs[r])

MInv == /\ MTyped /\ JobsHold(job, blueprint) /\ LinksHold(run, job, blueprint)
        /\ InlineKept(run, blueprint) /\ ScriptsKept(run)

LEMMA MInvInit == ASSUME Init PROVE MInv
<1>1. blueprint = [k \in Keys |-> NoBlueprint] /\ job = <<>> /\ run = <<>> /\ saved = NoDefinition
      /\ role = "owner" /\ live = "none"
  BY DEF Init
<1>2. \A S : <<>> \in Seq(S)
  OBVIOUS
<1>3. Len(<<>>) = 0 /\ DOMAIN <<>> = {}
  OBVIOUS
<1>4. MaxJobs \in Nat /\ MaxRuns \in Nat
  BY CompilerAssumption
<1>5. blueprint \in [Keys -> Blueprints] /\ \A k \in Keys : blueprint[k] = NoBlueprint
  BY <1>1 DEF Blueprints
<1>6. MTyped
  BY <1>1, <1>2, <1>3, <1>4, <1>5 DEF MTyped, Roles
<1>7. JobsHold(job, blueprint) /\ LinksHold(run, job, blueprint) /\ ScriptsKept(run)
  BY <1>1, <1>3 DEF JobsHold, LinksHold, ScriptsKept
<1>8. InlineKept(run, blueprint)
  BY <1>5 DEF InlineKept, Keys
<1> QED BY <1>6, <1>7, <1>8 DEF MInv

\* A name is registered again only when no unfinished job builds from it.
LEMMA RegistrationKeeps ==
  ASSUME MInv, NEW n \in Known, NEW c \in Contents, blueprint[n] # NoBlueprint => Mutable(n),
         blueprint' = [blueprint EXCEPT ![n] = c], UNCHANGED <<job, run, saved, role, live>>
  PROVE  MInv'
<1>0. blueprint \in [Keys -> Blueprints] /\ job \in Seq(JobRow) /\ run \in Seq(RunRow)
  BY DEF MInv, MTyped
<1>1. n \in Keys /\ (n \in Inline => blueprint[n] # NoBlueprint)
  <2>1. Names \cap Inline = {}
    BY ScriptAssumption
  <2> QED BY <2>1 DEF Known, Keys
<1>2. blueprint' \in [Keys -> Blueprints] /\ blueprint'[n] = c /\ c # NoBlueprint
      /\ \A k \in Keys : k # n => blueprint'[k] = blueprint[k]
  BY <1>0, <1>1, NoBlueprintIsNone DEF Blueprints
<1>3. \A j \in DOMAIN job : job[j].of \in Keys
  <2>1. \A j \in DOMAIN job : job[j] \in JobRow
    <3> HIDE DEF JobRow
    <3> QED BY <1>0
  <2> QED BY <2>1 DEF JobRow
<1>4. \A j \in DOMAIN job : job[j].of = n => job[j].status \in Finished
  <2>1. \A j \in DOMAIN job : blueprint[job[j].of] # NoBlueprint
    BY DEF MInv, JobsHold, JobHolds
  <2> QED BY <2>1 DEF Mutable
<1>5. JobsHold(job, blueprint')
  BY <1>2, <1>3, <1>4 DEF MInv, JobsHold, JobHolds
<1>6. LinksHold(run, job, blueprint')
  <2>1. ASSUME NEW link, LinkHolds(link, job, blueprint) PROVE LinkHolds(link, job, blueprint')
    BY <2>1, <1>2, <1>3, <1>4 DEF LinkHolds
  <2> QED BY <2>1 DEF MInv, LinksHold
<1>7. InlineKept(run, blueprint')
  BY <1>1, <1>2 DEF MInv, InlineKept, Keys
<1>8. MTyped'
  BY <1>2 DEF MInv, MTyped
<1> QED BY <1>5, <1>6, <1>7, <1>8 DEF MInv

\* Jobs move by their table of statuses: a finished one stays finished, and
\* nothing else about it changes.
JobsMoved(jobs, next) ==
  /\ next \in Seq(JobRow) /\ Len(next) = Len(jobs) /\ DOMAIN next = DOMAIN jobs
  /\ \A j \in DOMAIN jobs : /\ next[j].of = jobs[j].of /\ next[j].total = jobs[j].total
                            /\ jobs[j].status \in Finished => next[j].status \in Finished

\* Runs move, and keep their scripts.
Held(runs, next) ==
  /\ next \in Seq(RunRow) /\ Len(next) = Len(runs) /\ DOMAIN next = DOMAIN runs
  /\ \A r \in DOMAIN runs : /\ next[r].definition = runs[r].definition
                            /\ next[r].links = runs[r].links /\ next[r].rows = runs[r].rows

LEMMA MovingKeeps ==
  ASSUME MInv, JobsMoved(job, job'), Held(run, run'), UNCHANGED <<blueprint, saved, role, live>>
  PROVE  MInv'
<1>1. MTyped'
  BY DEF MInv, MTyped, JobsMoved, Held
<1>2. JobsHold(job', blueprint')
  BY DEF MInv, JobsHold, JobHolds, JobsMoved
<1>3. ASSUME NEW link, LinkHolds(link, job, blueprint) PROVE LinkHolds(link, job', blueprint')
  BY <1>3 DEF LinkHolds, JobsMoved
<1>4. LinksHold(run', job', blueprint')
  BY <1>3 DEF MInv, LinksHold, Held
<1>5. InlineKept(run', blueprint')
  BY DEF MInv, InlineKept, Held
<1>6. ScriptsKept(run')
  BY DEF MInv, ScriptsKept, Scripted, Held
<1> QED BY <1>1, <1>2, <1>4, <1>5, <1>6 DEF MInv


LEMMA ByPlanMoves ==
  ASSUME NEW jobs \in Seq(JobRow), NEW r, NEW s \in JobStatus
  PROVE  JobsMoved(jobs, ByPlan(jobs, r, s))
<1> DEFINE next == ByPlan(jobs, r, s)
<1>1. next = [j \in DOMAIN jobs |->
                IF jobs[j].run = r /\ jobs[j].status \in Sources(s) THEN [jobs[j] EXCEPT !.status = s]
                ELSE jobs[j]]
  BY DEF ByPlan
<1> HIDE DEF next
<1>2. ASSUME NEW j \in DOMAIN jobs
      PROVE  /\ next[j] \in JobRow /\ next[j].of = jobs[j].of /\ next[j].total = jobs[j].total
             /\ jobs[j].status \in Finished => next[j].status \in Finished
  <2>1. CASE jobs[j].run = r /\ jobs[j].status \in Sources(s)
    <3>1. next[j] = [jobs[j] EXCEPT !.status = s]
      BY <1>1, <2>1
    <3>2. jobs[j] \in JobRow
      <4> HIDE DEF JobRow
      <4> QED OBVIOUS
    <3>3. next[j] \in JobRow /\ next[j].of = jobs[j].of /\ next[j].total = jobs[j].total /\ next[j].status = s
      BY <3>1, <3>2 DEF JobRow
    <3>4. jobs[j].status \in Finished => s \in Finished
      BY <2>1 DEF JobStatus, Sources, Finished
    <3> QED BY <3>3, <3>4
  <2>2. CASE ~(jobs[j].run = r /\ jobs[j].status \in Sources(s))
    <3>1. next[j] = jobs[j]
      BY <1>1, <2>2
    <3>2. jobs[j] \in JobRow
      <4> HIDE DEF JobRow
      <4> QED OBVIOUS
    <3> QED BY <3>1, <3>2
  <2> QED BY <2>1, <2>2
<1>3. Len(jobs) \in Nat /\ DOMAIN jobs = 1 .. Len(jobs)
  <2> HIDE DEF JobRow
  <2> QED OBVIOUS
<1>4. DOMAIN next = 1 .. Len(jobs)
  BY <1>1, <1>3
<1>5. next \in Seq(JobRow) /\ Len(next) = Len(jobs)
  <2>1. next \in [1 .. Len(jobs) -> JobRow]
    <3> HIDE DEF JobRow
    <3> QED BY <1>1, <1>2, <1>3
  <2> HIDE DEF JobRow
  <2> QED BY <2>1, <1>3, <1>4
<1> QED BY <1>2, <1>3, <1>4, <1>5 DEF JobsMoved, next

LEMMA MovedTwice ==
  ASSUME NEW a, NEW b, NEW c, JobsMoved(a, b), JobsMoved(b, c)
  PROVE  JobsMoved(a, c)
BY DEF JobsMoved

LEMMA RunMoves ==
  ASSUME run \in Seq(RunRow), NEW r \in DOMAIN run, NEW s \in {"running", "paused", "cancelled"}
  PROVE  /\ Held(run, [run EXCEPT ![r].status = s])
         /\ [run EXCEPT ![r].status = s][r].status = s
         /\ \A x \in DOMAIN run : x # r => [run EXCEPT ![r].status = s][x] = run[x]
<1> DEFINE next == [run EXCEPT ![r].status = s]
<1>1. \A x \in DOMAIN run : run[x] \in RunRow
  <2> HIDE DEF RunRow
  <2> QED OBVIOUS
<1>2. DOMAIN next = DOMAIN run /\ next[r] = [run[r] EXCEPT !.status = s]
      /\ \A x \in DOMAIN run : x # r => next[x] = run[x]
  OBVIOUS
<1>3. [run[r] EXCEPT !.status = s] \in RunRow /\ next[r].definition = run[r].definition
      /\ next[r].links = run[r].links /\ next[r].rows = run[r].rows /\ next[r].status = s
  BY <1>1, <1>2 DEF RunRow
<1>4. next \in Seq(RunRow) /\ Len(next) = Len(run)
  <2>1. [run[r] EXCEPT !.status = s] \in RunRow
    BY <1>3
  <2> HIDE DEF RunRow
  <2> QED BY <2>1
<1> QED BY <1>2, <1>3, <1>4 DEF Held

LEMMA RunsStand ==
  ASSUME run \in Seq(RunRow)
  PROVE  Held(run, run)
BY DEF Held


\* A build outside a mission.
LEMMA StartBuildKeeps ==
  ASSUME MInv, NEW n \in Known, StartBuild(n)
  PROVE  MInv'
<1> DEFINE new == NewJob(n, blueprint[n], 0)
<1>1. /\ Len(job) < MaxJobs /\ blueprint[n] # NoBlueprint /\ job' = Append(job, new)
      /\ UNCHANGED <<blueprint, run, saved, role, live>>
  BY DEF StartBuild
<1>2. blueprint \in [Keys -> Blueprints] /\ job \in Seq(JobRow) /\ MaxJobs \in Nat /\ MaxRuns \in Nat
  BY CompilerAssumption DEF MInv, MTyped
<1>3. n \in Keys
  BY DEF Known, Keys
<1>4. blueprint[n] \in Contents /\ blueprint[n].cells \in Nat
  <2>1. blueprint[n] \in Contents
    BY <1>1, <1>2, <1>3 DEF Blueprints
  <2> QED BY <2>1, CompilerAssumption
<1>5. new \in JobRow /\ new.of = n /\ new.total = blueprint[n].cells
  BY <1>2, <1>3, <1>4 DEF NewJob, JobRow, JobStatus
<1>6. Len(job) \in Nat /\ DOMAIN job = 1 .. Len(job)
  <2> HIDE DEF JobRow
  <2> QED BY <1>2
<1>7. /\ job' \in Seq(JobRow) /\ Len(job') = Len(job) + 1 /\ DOMAIN job' = 1 .. Len(job) + 1
      /\ \A j \in DOMAIN job : job'[j] = job[j] /\ job'[Len(job) + 1] = new
  <2> HIDE DEF JobRow, new
  <2> QED BY <1>1, <1>2, <1>5
<1>8. job'[Len(job) + 1] = new
  <2> HIDE DEF JobRow, new
  <2> QED BY <1>1, <1>2, <1>5
<1> HIDE DEF new
<1>9. JobsHold(job', blueprint)
  <2> SUFFICES ASSUME NEW j \in DOMAIN job' PROVE JobHolds(j, job', blueprint)
    BY DEF JobsHold
  <2>1. CASE j \in DOMAIN job
    BY <2>1, <1>7 DEF MInv, JobsHold, JobHolds
  <2>2. CASE j = Len(job) + 1
    BY <2>2, <1>1, <1>5, <1>8 DEF JobHolds
  <2>3. j \in DOMAIN job \/ j = Len(job) + 1
    BY <1>6, <1>7
  <2> QED BY <2>1, <2>2, <2>3
<1>10. ASSUME NEW link, LinkHolds(link, job, blueprint) PROVE LinkHolds(link, job', blueprint)
  <2>1. DOMAIN job \in SUBSET DOMAIN job'
    BY <1>6, <1>7
  <2> QED BY <2>1, <1>10, <1>7 DEF LinkHolds
<1>11. LinksHold(run, job', blueprint)
  BY <1>10 DEF MInv, LinksHold
<1>12. MTyped'
  <2>1. Len(job') <= MaxJobs
    BY <1>1, <1>2, <1>6, <1>7
  <2> QED BY <2>1, <1>1, <1>7 DEF MInv, MTyped
<1> QED BY <1>1, <1>9, <1>11, <1>12 DEF MInv

LEMMA MoveJobMoves ==
  ASSUME job \in Seq(JobRow), NEW j \in DOMAIN job, NEW s \in JobStatus, job[j].status \in Sources(s),
         job' = [job EXCEPT ![j].status = s]
  PROVE  JobsMoved(job, job')
<1>1. \A x \in DOMAIN job : job[x] \in JobRow
  <2> HIDE DEF JobRow
  <2> QED OBVIOUS
<1>2. /\ DOMAIN job' = DOMAIN job /\ job'[j] = [job[j] EXCEPT !.status = s]
      /\ \A x \in DOMAIN job : x # j => job'[x] = job[x]
  OBVIOUS
<1>3. /\ job'[j] \in JobRow /\ job'[j].of = job[j].of /\ job'[j].total = job[j].total
      /\ job'[j].status = s
  BY <1>1, <1>2 DEF JobRow
<1>4. job[j].status \in Finished => s \in Finished
  BY DEF JobStatus, Sources, Finished
<1>5. job' \in Seq(JobRow) /\ Len(job') = Len(job)
  <2>1. [job[j] EXCEPT !.status = s] \in JobRow
    BY <1>2, <1>3
  <2> HIDE DEF JobRow
  <2> QED BY <2>1
<1> QED BY <1>2, <1>3, <1>4, <1>5 DEF JobsMoved

\* The tables a run is started with: its inline blueprints are new, its named
\* ones as they were, its jobs follow those that are there.
RunTables(d, l, r) ==
  LET bps == WithInline(d, l, r)
      jobs == WithJobs(d, l, r)
      more == Cardinality(Builds(l))
  IN  /\ bps \in [Keys -> Blueprints]
      /\ \A k \in Keys : blueprint[k] # NoBlueprint => bps[k] = blueprint[k]
      /\ \A k \in Inline : bps[k] # NoBlueprint => k[1] <= r
      /\ \A i \in Builds(l) : bps[KeyOf(d, i, r)] = l[i].pin
      /\ Len(jobs) = Len(job) + more /\ DOMAIN jobs = 1 .. Len(job) + more
      /\ jobs = [j \in DOMAIN jobs |-> jobs[j]]
      /\ \A j \in DOMAIN job : jobs[j] = job[j]
      /\ \A n \in 1 .. more : jobs[Len(job) + n] = NewJob(KeyOf(d, NthBuild(l, n), r), l[NthBuild(l, n)].pin, r)

LEMMA BlueprintsOfRun ==
  ASSUME MInv, NEW d \in Definitions, NEW actor \in Roles, NEW l \in Seq(Entry),
         EntriesOf(l, d, actor, blueprint, Len(d.steps)), NEW r \in 1 .. MaxRuns + 1, r = Len(run) + 1
  PROVE  LET bps == WithInline(d, l, r)
         IN  /\ bps \in [Keys -> Blueprints]
             /\ \A k \in Keys : blueprint[k] # NoBlueprint => bps[k] = blueprint[k]
             /\ \A k \in Inline : bps[k] # NoBlueprint => k[1] <= r
             /\ \A i \in Builds(l) : bps[KeyOf(d, i, r)] = l[i].pin
<1> DEFINE bps == WithInline(d, l, r)
           mine(k) == \E i \in Builds(l) : ~d.steps[i].named /\ k = <<r, i>>
<1>1. blueprint \in [Keys -> Blueprints] /\ Len(run) \in Nat
  <2>1. blueprint \in [Keys -> Blueprints] /\ run \in Seq(RunRow)
    BY DEF MInv, MTyped
  <2> HIDE DEF RunRow
  <2> QED BY <2>1
<1>2. bps = [k \in Keys |-> IF mine(k) THEN l[k[2]].pin ELSE blueprint[k]]
  BY DEF WithInline
<1> HIDE DEF bps
<1>3. ASSUME NEW i \in Builds(l)
      PROVE  /\ i \in DOMAIN d.steps /\ d.steps[i].op = "build" /\ l[i].pin \in Contents
             /\ <<r, i>> \in Inline /\ <<r, i>> \in Keys
             /\ d.steps[i].named => l[i].pin = blueprint[d.steps[i].name] /\ d.steps[i].name \in Names
  <2>1. i \in DOMAIN d.steps
    <3>1. Builds(l) \in SUBSET (1 .. Len(l)) /\ Len(l) = Len(d.steps)
      BY BuildsAreFinite DEF EntriesOf
    <3> QED BY <3>1, StepForms
  <2>2. d.steps[i].op = "build"
    BY <2>1, <1>1, <1>3, EntryFacts
  <2>3. l[i].pin \in Contents /\ (d.steps[i].named => l[i].pin = blueprint[d.steps[i].name])
    BY <2>1, <2>2, <1>1, EntryFacts
  <2>4. <<r, i>> \in Inline /\ <<r, i>> \in Keys
    BY <2>1, KeysOfSteps
  <2>5. d.steps[i].named => d.steps[i].name \in Names
    BY <2>1, <2>2, StepForms
  <2> QED BY <2>1, <2>2, <2>3, <2>4, <2>5
<1>4. ASSUME NEW k \in Keys, mine(k)
      PROVE  k \in Inline /\ k[1] = r /\ bps[k] = l[k[2]].pin /\ l[k[2]].pin \in Contents
  <2>1. PICK i \in Builds(l) : k = <<r, i>>
    BY <1>4
  <2>2. k[1] = r /\ k[2] = i
    BY <2>1
  <2>3. k \in Inline /\ l[i].pin \in Contents
    BY <2>1, <1>3
  <2>4. bps[k] = l[k[2]].pin
    BY <1>2, <1>4
  <2> QED BY <2>2, <2>3, <2>4
<1>5. \A k \in Keys : ~mine(k) => bps[k] = blueprint[k]
  BY <1>2
<1>6. bps \in [Keys -> Blueprints]
  <2>1. \A k \in Keys : bps[k] \in Blueprints
    <3> TAKE k \in Keys
    <3>1. CASE mine(k)
      BY <3>1, <1>4 DEF Blueprints
    <3>2. CASE ~mine(k)
      BY <3>2, <1>1, <1>5
    <3> QED BY <3>1, <3>2
  <2>2. bps = [k \in Keys |-> bps[k]]
    BY <1>2
  <2> HIDE DEF mine
  <2> QED BY <2>1, <2>2
<1>7. ASSUME NEW k \in Keys, blueprint[k] # NoBlueprint PROVE bps[k] = blueprint[k]
  <2>1. CASE mine(k)
    <3>1. k \in Inline /\ k[1] = r
      BY <2>1, <1>4
    <3>2. k[1] <= Len(run)
      BY <3>1, <1>7 DEF MInv, InlineKept
    <3>3. FALSE
      BY <3>1, <3>2, <1>1
    <3> QED BY <3>3
  <2>2. CASE ~mine(k)
    BY <2>2, <1>5
  <2> QED BY <2>1, <2>2
<1>8. ASSUME NEW k \in Inline, bps[k] # NoBlueprint PROVE k[1] <= r
  <2>0. k \in Keys /\ k[1] \in Int
    BY DEF Keys, Inline
  <2>1. CASE mine(k)
    <3>1. k[1] = r
      BY <2>0, <2>1, <1>4
    <3> QED BY <3>1
  <2>2. CASE ~mine(k)
    <3>1. bps[k] = blueprint[k]
      BY <2>0, <2>2, <1>5
    <3>2. k[1] <= Len(run)
      BY <3>1, <1>8 DEF MInv, InlineKept
    <3> HIDE DEF mine
    <3> QED BY <3>2, <2>0, <1>1
  <2> QED BY <2>1, <2>2
<1>9. ASSUME NEW i \in Builds(l) PROVE bps[KeyOf(d, i, r)] = l[i].pin
  <2>1. CASE d.steps[i].named
    <3>1. KeyOf(d, i, r) = d.steps[i].name
      BY <2>1 DEF KeyOf
    <3>2. d.steps[i].name \in Names /\ l[i].pin = blueprint[d.steps[i].name]
      BY <2>1, <1>3
    <3>3. d.steps[i].name \in Keys /\ d.steps[i].name \notin Inline
      BY <3>2, ScriptAssumption DEF Keys
    <3>4. ~mine(d.steps[i].name)
      BY <3>3, <1>4
    <3> HIDE DEF mine
    <3> QED BY <3>1, <3>2, <3>3, <3>4, <1>5
  <2>2. CASE ~d.steps[i].named
    <3>1. KeyOf(d, i, r) = <<r, i>> /\ <<r, i>> \in Keys /\ <<r, i>>[2] = i
      BY <2>2, <1>3 DEF KeyOf
    <3>2. mine(<<r, i>>)
      BY <2>2
    <3>3. bps[<<r, i>>] = l[<<r, i>>[2]].pin
      <4> HIDE DEF mine
      <4> QED BY <3>1, <3>2, <1>4
    <3> QED BY <3>1, <3>3
  <2> QED BY <2>1, <2>2
<1> QED BY <1>6, <1>7, <1>8, <1>9 DEF bps

LEMMA TablesOfRun ==
  ASSUME MInv, NEW d \in Definitions, NEW actor \in Roles, NEW l \in Seq(Entry),
         EntriesOf(l, d, actor, blueprint, Len(d.steps)), NEW r \in 1 .. MaxRuns + 1, r = Len(run) + 1
  PROVE  RunTables(d, l, r)
<1> DEFINE more == Cardinality(Builds(l))
           new == [n \in 1 .. more |-> NewJob(KeyOf(d, NthBuild(l, n), r), l[NthBuild(l, n)].pin, r)]
           jobs == WithJobs(d, l, r)
<1>1. more \in Nat
  BY BuildsAreFinite
<1>2. jobs = job \o new
  BY DEF WithJobs
<1>3. job \in Seq(JobRow)
  BY DEF MInv, MTyped
<1>4. Len(job) \in Nat /\ DOMAIN job = 1 .. Len(job)
  <2> HIDE DEF JobRow
  <2> QED BY <1>3
<1>5. Len(new) = more /\ \A n \in 1 .. more : new[n] = NewJob(KeyOf(d, NthBuild(l, n), r), l[NthBuild(l, n)].pin, r)
  <2> HIDE DEF more
  <2> QED BY <1>1
<1> HIDE DEF new, more
<1>6. /\ job \o new = [j \in DOMAIN (job \o new) |-> (job \o new)[j]]
      /\ Len(job \o new) = Len(job) + more /\ DOMAIN (job \o new) = 1 .. Len(job) + more
      /\ \A j \in DOMAIN job : (job \o new)[j] = job[j]
      /\ \A n \in 1 .. more : (job \o new)[Len(job) + n] = new[n]
  <2> DEFINE S == JobRow \cup {new[n] : n \in 1 .. more}
  <2>1. job \in Seq(S)
    <3>1. \A j \in 1 .. Len(job) : job[j] \in JobRow
      <4> HIDE DEF JobRow
      <4> QED BY <1>3
    <3>2. \A j \in 1 .. Len(job) : job[j] \in S
      BY <3>1
    <3> HIDE DEF S, JobRow
    <3> QED BY <3>2, <1>3, <1>4
  <2>2. new \in Seq(S) /\ DOMAIN new = 1 .. more
    <3>1. new \in [1 .. more -> S]
      BY DEF new
    <3> HIDE DEF S
    <3> QED BY <3>1, <1>1
  <2> HIDE DEF S
  <2>3. /\ Len(job \o new) = Len(job) + Len(new) /\ job \o new \in Seq(S)
        /\ \A x \in 1 .. Len(job) : (job \o new)[x] = job[x]
        /\ \A x \in 1 .. Len(new) : (job \o new)[Len(job) + x] = new[x]
    BY <2>1, <2>2
  <2>4. DOMAIN (job \o new) = 1 .. Len(job \o new)
        /\ job \o new = [j \in DOMAIN (job \o new) |-> (job \o new)[j]]
    <3> DEFINE w == job \o new
    <3>1. w \in Seq(S)
      BY <2>3
    <3> HIDE DEF w
    <3>2. DOMAIN w = 1 .. Len(w) /\ w \in [1 .. Len(w) -> S]
      BY <3>1
    <3>3. w = [j \in DOMAIN w |-> w[j]]
      BY <3>2
    <3> QED BY <3>2, <3>3 DEF w
  <2> QED BY <2>3, <2>4, <1>4, <1>5
<1>7. /\ Len(jobs) = Len(job) + more /\ DOMAIN jobs = 1 .. Len(job) + more
      /\ jobs = [j \in DOMAIN jobs |-> jobs[j]]
      /\ \A j \in DOMAIN job : jobs[j] = job[j]
      /\ \A n \in 1 .. more : jobs[Len(job) + n] = NewJob(KeyOf(d, NthBuild(l, n), r), l[NthBuild(l, n)].pin, r)
  BY <1>2, <1>5, <1>6
<1> HIDE DEF jobs
<1> QED BY <1>7, BlueprintsOfRun DEF RunTables, jobs, more

LEMMA ScriptOfRun ==
  ASSUME NEW d \in Definitions, NEW actor \in Roles, NEW bps \in [Keys -> Blueprints],
         NEW l \in Seq(Entry), EntriesOf(l, d, actor, bps, Len(d.steps)), NEW total, Chained(l, total),
         NEW n \in Nat
  PROVE  LET u == NewRun(d, Bind(l, n + 1))
         IN  /\ n + Cardinality(Builds(l)) <= MaxJobs => u \in RunRow
             /\ Scripted(u) /\ u.definition = d /\ u.status = "running"
             /\ u.links = Bind(l, n + 1).links /\ u.rows = Bind(l, n + 1).rows
             /\ DOMAIN u.links = 1 .. Len(d.steps)
             /\ \A i \in DOMAIN u.links :
                  /\ u.links[i].pin = l[i].pin /\ u.links[i].job = JobOf(l, i, n + 1)
                  /\ u.links[i].job # 0 => i \in Builds(l)
<1> DEFINE b == Bind(l, n + 1)
           u == NewRun(d, b)
           m == n + Cardinality(Builds(l))
<1>1. u.definition = d /\ u.links = b.links /\ u.rows = b.rows /\ u.status = "running"
      /\ u = [status |-> "running", definition |-> d, links |-> b.links, rows |-> b.rows]
  BY DEF NewRun
<1>2. /\ b.links \in Seq(BoundLink(m)) /\ Len(b.links) = Len(d.steps) /\ b.rows \in Seq(ScriptRows(d, m))
      /\ \A i \in 1 .. Len(d.steps) : b.links[i].job = JobOf(l, i, n + 1) /\ b.links[i].pin = l[i].pin
  BY ZenonT(60), BoundParts
<1>3. m \in Nat /\ MaxJobs \in Nat /\ MaxJobs \in Int
  <2>1. Cardinality(Builds(l)) \in Nat /\ MaxJobs \in Nat
    BY BuildsAreFinite, CompilerAssumption
  <2> QED BY <2>1
<1> HIDE DEF u, b, m
<1>4. Len(d.steps) \in Nat /\ DOMAIN d.steps = 1 .. Len(d.steps)
  <2>1. Len(d.steps) \in 1 .. 32 /\ DOMAIN d.steps = 1 .. Len(d.steps)
    BY StepForms
  <2> QED BY <2>1
<1>5. DOMAIN u.links = 1 .. Len(d.steps)
  <2> HIDE DEF BoundLink
  <2> QED BY <1>1, <1>2, <1>4
<1>6. ASSUME NEW i \in DOMAIN u.links
      PROVE  /\ u.links[i].pin = l[i].pin /\ u.links[i].job = JobOf(l, i, n + 1)
             /\ u.links[i].job # 0 => i \in Builds(l)
  <2>1. u.links[i].pin = l[i].pin /\ u.links[i].job = JobOf(l, i, n + 1)
    BY <1>1, <1>2, <1>5
  <2>2. JobOf(l, i, n + 1) # 0 => l[i].pin # NoBlueprint
    BY DEF JobOf
  <2>3. i \in DOMAIN l
    <3>1. Len(l) = Len(d.steps)
      BY DEF EntriesOf
    <3>2. DOMAIN l = 1 .. Len(l)
      <4> HIDE DEF Entry
      <4> QED OBVIOUS
    <3> QED BY <3>1, <3>2, <1>5
  <2> QED BY <2>1, <2>2, <2>3 DEF Builds
<1>7. ASSUME NEW i \in DOMAIN u.links, u.links[i].job # 0
      PROVE  d.steps[i].op = "build" /\ (~d.steps[i].named => u.links[i].pin = d.steps[i].content)
  <2>1. i \in DOMAIN d.steps /\ i \in Builds(l)
    BY <1>4, <1>5, <1>6, <1>7
  <2>2. d.steps[i].op = "build"
    BY <2>1, EntryFacts
  <2>3. ~d.steps[i].named => l[i].pin = d.steps[i].content
    BY <2>1, <2>2, EntryFacts
  <2> QED BY <2>2, <2>3, <1>6
<1>8. ASSUME NEW k \in DOMAIN u.rows
      PROVE  \E i \in DOMAIN d.steps : u.rows[k].skill \in SkillsOf(d.steps[i])
  <2>1. u.rows[k] \in ScriptRows(d, m)
    <3> HIDE DEF ScriptRows
    <3> QED BY <1>1, <1>2, <1>8
  <2> QED BY <2>1 DEF ScriptRows
<1>9. Scripted(u)
  BY <1>1, <1>2, <1>7, <1>8 DEF Scripted
<1>10. ASSUME m <= MaxJobs PROVE u \in RunRow
  <2>1. BoundLink(m) \in SUBSET BoundLink(MaxJobs)
    <3>1. \A x \in 0 .. m : x \in 0 .. MaxJobs
      BY <1>3, <1>10
    <3> QED BY <3>1 DEF BoundLink
  <2>2. ScriptRows(d, m) \in SUBSET [skill : DOMAIN Registry, job : 0 .. MaxJobs]
    <3>1. \A x \in 0 .. m : x \in 0 .. MaxJobs
      BY <1>3, <1>10
    <3> QED BY <3>1 DEF ScriptRows
  <2>3. b.links \in Seq(BoundLink(MaxJobs))
    <3> HIDE DEF BoundLink
    <3> QED BY <2>1, <1>2
  <2>4. b.rows \in Seq([skill : DOMAIN Registry, job : 0 .. MaxJobs])
    <3> DEFINE R == [skill : DOMAIN Registry, job : 0 .. MaxJobs]
    <3>1. ScriptRows(d, m) \in SUBSET R
      BY <2>2
    <3> HIDE DEF R
    <3>2. b.rows \in Seq(R)
      <4> HIDE DEF ScriptRows
      <4> QED BY <3>1, <1>2
    <3> QED BY <3>2 DEF R
  <2> QED BY <2>3, <2>4, <1>1 DEF RunRow
<1> QED BY <1>1, <1>5, <1>6, <1>9, <1>10 DEF u, b, m

\* A new run finds its blueprints and its jobs as it was compiled with them.
LEMMA NewJobsHold ==
  ASSUME MInv, NEW d \in Definitions, NEW actor \in Roles, NEW l \in Seq(Entry),
         EntriesOf(l, d, actor, blueprint, Len(d.steps)), NEW r \in 1 .. MaxRuns + 1, r = Len(run) + 1,
         NEW i \in Builds(l)
  PROVE  LET j == JobOf(l, i, Len(job) + 1)
             jobs == WithJobs(d, l, r)
         IN  /\ j \in DOMAIN jobs /\ j # 0
             /\ jobs[j] = NewJob(KeyOf(d, i, r), l[i].pin, r)
             /\ WithInline(d, l, r)[jobs[j].of] = l[i].pin
<1> DEFINE more == Cardinality(Builds(l))
           jobs == WithJobs(d, l, r)
           bps == WithInline(d, l, r)
<1>1. Len(job) \in Nat /\ more \in Nat
  <2>1. job \in Seq(JobRow)
    BY DEF MInv, MTyped
  <2>2. Len(job) \in Nat
    <3> HIDE DEF JobRow
    <3> QED BY <2>1
  <2> QED BY <2>2, BuildsAreFinite
<1>2. /\ bps[KeyOf(d, i, r)] = l[i].pin /\ DOMAIN jobs = 1 .. Len(job) + more
      /\ \A n \in 1 .. more : jobs[Len(job) + n] = NewJob(KeyOf(d, NthBuild(l, n), r), l[NthBuild(l, n)].pin, r)
  BY TablesOfRun DEF RunTables
<1>3. PICK n \in 1 .. more : NthBuild(l, n) = i /\ JobOf(l, i, Len(job) + 1) = (Len(job) + 1) + n - 1
  <2>1. i \in DOMAIN l
    BY DEF Builds
  <2>2. Len(job) + 1 \in Nat
    BY <1>1
  <2> QED BY <2>1, <2>2, JobsAreNumbered
<1>4. JobOf(l, i, Len(job) + 1) = Len(job) + n /\ Len(job) + n \in 1 .. Len(job) + more /\ Len(job) + n # 0
  <2> HIDE DEF more
  <2> QED BY <1>1, <1>3
<1>5. jobs[Len(job) + n] = NewJob(KeyOf(d, i, r), l[i].pin, r)
  BY <1>2, <1>3
<1>6. jobs[Len(job) + n].of = KeyOf(d, i, r)
  BY <1>5 DEF NewJob
<1> HIDE DEF jobs, bps
<1> QED BY <1>2, <1>4, <1>5, <1>6 DEF jobs, bps

LEMMA RunMissionKeeps ==
  ASSUME MInv, NEW d \in Definitions, RunMission(d)
  PROVE  MInv'
<1> DEFINE r == Len(run) + 1
           l == CompileForActor(d).logical
           more == Cardinality(Builds(l))
           u == NewRun(d, Bind(l, Len(job) + 1))
           jobs == WithJobs(d, l, r)
           bps == WithInline(d, l, r)
<1>0. /\ blueprint \in [Keys -> Blueprints] /\ role \in Roles /\ job \in Seq(JobRow) /\ run \in Seq(RunRow)
      /\ saved \in Missions \cup {NoDefinition} /\ live \in Versions \cup {"none"} /\ MaxJobs \in Nat /\ MaxRuns \in Nat
  BY CompilerAssumption DEF MInv, MTyped
<1>1. /\ r <= MaxRuns /\ CompileForActor(d).ok /\ Len(job) + more <= MaxJobs
      /\ blueprint' = bps /\ job' = jobs /\ run' = Append(run, u) /\ UNCHANGED <<saved, role, live>>
  BY DEF RunMission
<1>2. l \in Seq(Entry) /\ EntriesOf(l, d, role, blueprint, Len(d.steps))
      /\ Chained(l, CompileForActor(d).expanded)
  BY <1>0, <1>1, CompiledScript DEF CompileForActor
<1>3. Len(run) \in Nat /\ DOMAIN run = 1 .. Len(run) /\ Len(job) \in Nat /\ DOMAIN job = 1 .. Len(job)
  <2> HIDE DEF JobRow, RunRow
  <2> QED BY <1>0
<1>4. r \in 1 .. MaxRuns /\ r \in 1 .. MaxRuns + 1 /\ r = Len(run) + 1
  BY <1>0, <1>1, <1>3
<1> HIDE DEF l
<1>5. RunTables(d, l, r)
  <2> HIDE DEF r
  <2> QED BY <1>0, <1>2, <1>4, TablesOfRun
<1>6. /\ bps \in [Keys -> Blueprints]
      /\ \A k \in Keys : blueprint[k] # NoBlueprint => bps[k] = blueprint[k]
      /\ \A k \in Inline : bps[k] # NoBlueprint => k[1] <= r
      /\ \A i \in Builds(l) : bps[KeyOf(d, i, r)] = l[i].pin
      /\ Len(jobs) = Len(job) + more /\ DOMAIN jobs = 1 .. Len(job) + more
      /\ jobs = [j \in DOMAIN jobs |-> jobs[j]]
      /\ \A j \in DOMAIN job : jobs[j] = job[j]
      /\ \A n \in 1 .. more : jobs[Len(job) + n] = NewJob(KeyOf(d, NthBuild(l, n), r), l[NthBuild(l, n)].pin, r)
  BY <1>5 DEF RunTables
<1>7. /\ u \in RunRow /\ Scripted(u) /\ DOMAIN u.links = 1 .. Len(d.steps)
      /\ \A i \in DOMAIN u.links : /\ u.links[i].pin = l[i].pin /\ u.links[i].job = JobOf(l, i, Len(job) + 1)
                                   /\ u.links[i].job # 0 => i \in Builds(l)
  <2>1. /\ Len(job) + more <= MaxJobs => u \in RunRow
        /\ Scripted(u) /\ u.definition = d /\ u.status = "running"
        /\ u.links = Bind(l, Len(job) + 1).links /\ u.rows = Bind(l, Len(job) + 1).rows
        /\ DOMAIN u.links = 1 .. Len(d.steps)
        /\ \A i \in DOMAIN u.links :
             /\ u.links[i].pin = l[i].pin /\ u.links[i].job = JobOf(l, i, Len(job) + 1)
             /\ u.links[i].job # 0 => i \in Builds(l)
    BY <1>0, <1>2, <1>3, ScriptOfRun
  <2> QED BY <2>1, <1>1
<1> HIDE DEF u, jobs, bps
<1>8. /\ run' \in Seq(RunRow) /\ Len(run') = Len(run) + 1 /\ DOMAIN run' = 1 .. Len(run) + 1
      /\ run'[Len(run) + 1] = u /\ \A x \in DOMAIN run : run'[x] = run[x]
  <2> HIDE DEF RunRow
  <2> QED BY <1>0, <1>1, <1>7
<1>9. more \in Nat
  BY <1>2, BuildsAreFinite
<1>10. ASSUME NEW n \in 1 .. more
       PROVE  /\ NthBuild(l, n) \in Builds(l) /\ KeyOf(d, NthBuild(l, n), r) \in Keys
              /\ l[NthBuild(l, n)].pin \in Contents /\ l[NthBuild(l, n)].pin.cells \in Nat
  <2> DEFINE i == NthBuild(l, n)
  <2>1. i \in Builds(l)
    BY <1>2, NthBuildIsThere
  <2> HIDE DEF i
  <2>2. i \in DOMAIN d.steps
    <3>1. Builds(l) \in SUBSET (1 .. Len(l)) /\ Len(l) = Len(d.steps)
      BY <1>2, BuildsAreFinite DEF EntriesOf
    <3> QED BY <3>1, <2>1, StepForms
  <2>3. d.steps[i].op = "build"
    BY <2>1, <2>2, <1>0, <1>2, EntryFacts
  <2>4. l[i].pin \in Contents
    BY <2>2, <2>3, <1>0, <1>2, EntryFacts
  <2>5. KeyOf(d, i, r) \in Keys
    <3> HIDE DEF r
    <3> QED BY <2>2, <2>3, <1>4, KeysOfSteps
  <2>6. l[i].pin.cells \in Nat
    BY <2>4, CompilerAssumption
  <2> QED BY <2>1, <2>4, <2>5, <2>6 DEF i
<1>11. ASSUME NEW j \in DOMAIN jobs, j \notin DOMAIN job
       PROVE  \E n \in 1 .. more : j = Len(job) + n
  <2>1. j \in 1 .. Len(job) + more /\ j \notin 1 .. Len(job)
    BY <1>3, <1>6, <1>11
  <2>2. j - Len(job) \in 1 .. more /\ j = Len(job) + (j - Len(job))
    <3> HIDE DEF more
    <3> QED BY <2>1, <1>3, <1>9
  <2> QED BY <2>2
<1>12. ASSUME NEW j \in DOMAIN jobs PROVE jobs[j] \in JobRow /\ JobHolds(j, jobs, bps)
  <2>1. CASE j \in DOMAIN job
    <3>1. job[j] \in JobRow
      <4> HIDE DEF JobRow
      <4> QED BY <2>1, <1>0
    <3>2. jobs[j] = job[j] /\ JobHolds(j, job, blueprint) /\ job[j].of \in Keys
      BY <2>1, <3>1, <1>6 DEF MInv, JobsHold, JobRow
    <3> QED BY <3>1, <3>2, <1>6 DEF JobHolds
  <2>2. CASE j \notin DOMAIN job
    <3>1. PICK n \in 1 .. more : j = Len(job) + n
      BY <2>2, <1>11
    <3> DEFINE i == NthBuild(l, n)
    <3>2. /\ i \in Builds(l) /\ KeyOf(d, i, r) \in Keys
          /\ l[i].pin \in Contents /\ l[i].pin.cells \in Nat
      BY <1>10
    <3>3. jobs[j] = NewJob(KeyOf(d, i, r), l[i].pin, r) /\ bps[KeyOf(d, i, r)] = l[i].pin
      BY <3>1, <3>2, <1>6
    <3> HIDE DEF i
    <3>4. jobs[j] \in JobRow
      <4>1. r \in 0 .. MaxRuns
        BY <1>4
      <4> HIDE DEF r
      <4> QED BY <3>2, <3>3, <4>1 DEF NewJob, JobRow, JobStatus
    <3>5. jobs[j].of = KeyOf(d, i, r) /\ jobs[j].total = l[i].pin.cells
      BY <3>3 DEF NewJob
    <3> QED BY <3>2, <3>3, <3>4, <3>5, NoBlueprintIsNone DEF JobHolds
  <2> QED BY <2>1, <2>2
<1>13. job' \in Seq(JobRow) /\ Len(job') <= MaxJobs
  <2>1. jobs = [j \in 1 .. Len(job) + more |-> jobs[j]]
    <3> HIDE DEF more
    <3> QED BY <1>6
  <2>2. jobs \in [1 .. Len(job) + more -> JobRow]
    <3> HIDE DEF JobRow, more
    <3> QED BY <2>1, <1>6, <1>12
  <2>3. Len(job) + more \in Nat
    BY <1>3, <1>9
  <2>4. jobs \in Seq(JobRow)
    <3> HIDE DEF JobRow, more
    <3> QED BY <2>2, <2>3
  <2> QED BY <2>4, <1>1, <1>6
<1>14. JobsHold(job', blueprint')
  BY <1>1, <1>12 DEF JobsHold
<1>15. ASSUME NEW link, LinkHolds(link, job, blueprint) PROVE LinkHolds(link, jobs, bps)
  <2> SUFFICES ASSUME link.job # 0
               PROVE  link.job \in DOMAIN jobs
                      /\ (jobs[link.job].status \notin Finished => bps[jobs[link.job].of] = link.pin)
    BY DEF LinkHolds
  <2>1. link.job \in DOMAIN job /\ (job[link.job].status \notin Finished => blueprint[job[link.job].of] = link.pin)
    BY <1>15 DEF LinkHolds
  <2>2. jobs[link.job] = job[link.job] /\ link.job \in DOMAIN jobs
    <3>1. link.job \in DOMAIN jobs
      <4>1. \A j \in 1 .. Len(job) : j \in 1 .. Len(job) + more
        <5> HIDE DEF more
        <5> QED BY <1>3, <1>9
      <4> QED BY <4>1, <2>1, <1>3, <1>6
    <3> QED BY <3>1, <2>1, <1>6
  <2>3. job[link.job].of \in Keys /\ blueprint[job[link.job].of] # NoBlueprint
    <3>1. job[link.job] \in JobRow
      <4> HIDE DEF JobRow
      <4> QED BY <2>1, <1>0
    <3> QED BY <3>1, <2>1 DEF JobRow, MInv, JobsHold, JobHolds
  <2>4. bps[job[link.job].of] = blueprint[job[link.job].of]
    BY <2>3, <1>6
  <2> QED BY <2>1, <2>2, <2>4
<1>16. ASSUME NEW i \in DOMAIN u.links PROVE LinkHolds(u.links[i], jobs, bps)
  <2> SUFFICES ASSUME u.links[i].job # 0
               PROVE  u.links[i].job \in DOMAIN jobs /\ bps[jobs[u.links[i].job].of] = u.links[i].pin
    BY DEF LinkHolds
  <2>1. i \in Builds(l) /\ u.links[i].pin = l[i].pin /\ u.links[i].job = JobOf(l, i, Len(job) + 1)
    BY <1>7
  <2>2. /\ JobOf(l, i, Len(job) + 1) \in DOMAIN WithJobs(d, l, r)
        /\ WithInline(d, l, r)[WithJobs(d, l, r)[JobOf(l, i, Len(job) + 1)].of] = l[i].pin
    <3> HIDE DEF r
    <3> QED BY <2>1, <1>0, <1>2, <1>4, NewJobsHold
  <2> QED BY <2>1, <2>2 DEF jobs, bps
<1>17. LinksHold(run', job', blueprint')
  <2> SUFFICES ASSUME NEW x \in DOMAIN run', NEW i \in DOMAIN run'[x].links
               PROVE  LinkHolds(run'[x].links[i], jobs, bps)
    BY <1>1 DEF LinksHold
  <2>1. CASE x \in DOMAIN run
    <3>1. run'[x] = run[x]
      BY <2>1, <1>8
    <3>2. LinkHolds(run[x].links[i], job, blueprint)
      BY <2>1, <3>1 DEF MInv, LinksHold
    <3> QED BY <3>1, <3>2, <1>15
  <2>2. CASE x = Len(run) + 1
    BY <2>2, <1>8, <1>16
  <2>3. x \in DOMAIN run \/ x = Len(run) + 1
    BY <1>3, <1>8
  <2> QED BY <2>1, <2>2, <2>3
<1>18. ScriptsKept(run')
  <2> SUFFICES ASSUME NEW x \in DOMAIN run' PROVE Scripted(run'[x])
    BY DEF ScriptsKept
  <2>1. CASE x \in DOMAIN run
    BY <2>1, <1>8 DEF MInv, ScriptsKept
  <2>2. CASE x = Len(run) + 1
    BY <2>2, <1>7, <1>8
  <2>3. x \in DOMAIN run \/ x = Len(run) + 1
    BY <1>3, <1>8
  <2> QED BY <2>1, <2>2, <2>3
<1>19. InlineKept(run', blueprint')
  BY <1>1, <1>6, <1>8 DEF InlineKept
<1>20. MTyped'
  <2>1. Len(run') <= MaxRuns
    BY <1>1, <1>8
  <2>2. blueprint' \in [Keys -> Blueprints]
    BY <1>1, <1>6
  <2> QED BY <2>1, <2>2, <1>0, <1>1, <1>8, <1>13 DEF MTyped
<1> QED BY <1>14, <1>17, <1>18, <1>19, <1>20 DEF MInv

-----------------------------------------------------------------------------
(* The role of the player, and one step per action.                        *)

Covered(u, actor) ==
  /\ \A k \in DOMAIN u.rows : Rank(actor) >= Rank(Registry[u.rows[k].skill].role)
  /\ \A i \in DOMAIN u.links : u.links[i].job # 0 => Rank(actor) >= Rank(u.links[i].pin.role)

\* A script that compiles for a player has only rows of that player's role.
LEMMA RowsCovered ==
  ASSUME NEW u, u.definition \in Definitions, Scripted(u), NEW actor \in Roles,
         NEW bps \in [Keys -> Blueprints], NEW l, EntriesOf(l, u.definition, actor, bps, Len(u.definition.steps))
  PROVE  \A k \in DOMAIN u.rows : Rank(actor) >= Rank(Registry[u.rows[k].skill].role)
<1> SUFFICES ASSUME NEW k \in DOMAIN u.rows PROVE Rank(actor) >= Rank(Registry[u.rows[k].skill].role)
  OBVIOUS
<1>1. PICK i \in DOMAIN u.definition.steps : u.rows[k].skill \in SkillsOf(u.definition.steps[i])
  BY DEF Scripted
<1>2. \A d \in Definitions : EntriesOf(l, d, actor, bps, Len(d.steps)) =>
        \A x \in DOMAIN d.steps : \A s \in SkillsOf(d.steps[x]) : Rank(actor) >= Rank(Registry[s].role)
  BY AcceptedSkills
<1> QED BY <1>1, <1>2

LEMMA StartCovered ==
  ASSUME MInv, NEW d \in Definitions, RunMission(d), NEW x \in DOMAIN run', x \notin DOMAIN run
  PROVE  Covered(run'[x], role)
<1> DEFINE l == CompileForActor(d).logical
           u == NewRun(d, Bind(l, Len(job) + 1))
<1>0. blueprint \in [Keys -> Blueprints] /\ role \in Roles /\ job \in Seq(JobRow) /\ run \in Seq(RunRow)
  BY DEF MInv, MTyped
<1>1. CompileForActor(d).ok /\ run' = Append(run, u)
      /\ Len(job) + Cardinality(Builds(l)) <= MaxJobs
  BY DEF RunMission
<1>2. l \in Seq(Entry) /\ EntriesOf(l, d, role, blueprint, Len(d.steps))
      /\ Chained(l, CompileForActor(d).expanded)
  BY <1>0, <1>1, CompiledScript DEF CompileForActor
<1>3. Len(job) \in Nat
  <2> HIDE DEF JobRow
  <2> QED BY <1>0
<1> HIDE DEF l
<1>4. /\ Len(job) + Cardinality(Builds(l)) <= MaxJobs => u \in RunRow
      /\ Scripted(u) /\ u.definition = d /\ u.status = "running"
      /\ u.links = Bind(l, Len(job) + 1).links /\ u.rows = Bind(l, Len(job) + 1).rows
      /\ DOMAIN u.links = 1 .. Len(d.steps)
      /\ \A i \in DOMAIN u.links :
           /\ u.links[i].pin = l[i].pin /\ u.links[i].job = JobOf(l, i, Len(job) + 1)
           /\ u.links[i].job # 0 => i \in Builds(l)
  BY ZenonT(60), <1>0, <1>2, <1>3, ScriptOfRun
<1> HIDE DEF u
<1>5. run'[x] = u
  <2>1. u \in RunRow
    BY <1>1, <1>4
  <2>2. Len(run) \in Nat /\ DOMAIN run = 1 .. Len(run)
    <3> HIDE DEF RunRow
    <3> QED BY <1>0
  <2>3. DOMAIN run' = 1 .. Len(run) + 1 /\ run'[Len(run) + 1] = u
    <3> HIDE DEF RunRow
    <3> QED BY <1>0, <1>1, <2>1, <2>2
  <2>4. x = Len(run) + 1
    BY <2>2, <2>3
  <2> QED BY <2>3, <2>4
<1>6. \A k \in DOMAIN u.rows : Rank(role) >= Rank(Registry[u.rows[k].skill].role)
  <2>1. u.definition \in Definitions /\ EntriesOf(l, u.definition, role, blueprint, Len(u.definition.steps))
    BY <1>2, <1>4
  <2> QED BY <2>1, <1>0, <1>4, RowsCovered
<1>7. ASSUME NEW i \in DOMAIN u.links, u.links[i].job # 0 PROVE Rank(role) >= Rank(u.links[i].pin.role)
  <2>1. i \in Builds(l) /\ u.links[i].pin = l[i].pin
    BY <1>4, <1>7
  <2>2. i \in DOMAIN d.steps
    BY <1>4, StepForms
  <2>3. d.steps[i].op = "build"
    BY <2>1, <2>2, <1>0, <1>2, EntryFacts
  <2>4. Rank(role) >= Rank(l[i].pin.role)
    BY <2>2, <2>3, <1>0, <1>2, EntryFacts
  <2> QED BY <2>1, <2>4
<1> QED BY <1>5, <1>6, <1>7 DEF Covered

\* A run that the store takes again has the blueprints the player may build.
LEMMA ResumeCovered ==
  ASSUME MInv, NEW r \in DOMAIN run, NEW jobs, CompileForActor(run[r].definition).ok, StillTaken(r, jobs)
  PROVE  Covered(run[r], role)
<1> DEFINE u == run[r]
           d == run[r].definition
           l == CompileForActor(d).logical
<1>0. blueprint \in [Keys -> Blueprints] /\ role \in Roles /\ run \in Seq(RunRow)
  BY DEF MInv, MTyped
<1>1. u \in RunRow
  <2> HIDE DEF RunRow
  <2> QED BY <1>0
<1>2. d \in Definitions /\ u.links \in Seq(BoundLink(MaxJobs))
  BY <1>1 DEF RunRow
<1>3. Scripted(u) /\ u.definition = d
  BY DEF MInv, ScriptsKept
<1>4. LinksFit(d, u.links, jobs, blueprint)
  BY DEF StillTaken, StoreTakes
<1> HIDE DEF u, d
<1>5. l \in Seq(Entry) /\ EntriesOf(l, d, role, blueprint, Len(d.steps))
  <2>1. CompileForActor(d).ok
    BY DEF d
  <2> QED BY <2>1, <1>0, <1>2, CompiledScript DEF CompileForActor
<1> HIDE DEF l
<1>6. \A k \in DOMAIN u.rows : Rank(role) >= Rank(Registry[u.rows[k].skill].role)
  <2>1. u.definition \in Definitions /\ EntriesOf(l, u.definition, role, blueprint, Len(u.definition.steps))
    BY <1>2, <1>3, <1>5
  <2> QED BY <2>1, <1>0, <1>3, RowsCovered
<1>7. ASSUME NEW i \in DOMAIN u.links, u.links[i].job # 0 PROVE Rank(role) >= Rank(u.links[i].pin.role)
  <2>1. /\ d.steps[i].op = "build" /\ (~d.steps[i].named => u.links[i].pin = d.steps[i].content)
    BY <1>3, <1>7 DEF Scripted
  <2>2. JobMatchesStep(d.steps[i], u.links[i], jobs, blueprint)
    BY <1>4, <1>7 DEF LinksFit
  <2>3. i \in DOMAIN d.steps
    <3>1. Len(u.links) = Len(d.steps)
      BY <1>3 DEF Scripted
    <3>2. DOMAIN u.links = 1 .. Len(u.links)
      <4> HIDE DEF BoundLink
      <4> QED BY <1>2
    <3> QED BY <3>1, <3>2, <1>2, StepForms
  <2>4. /\ Rank(role) >= Rank(l[i].pin.role)
        /\ d.steps[i].named => l[i].pin = blueprint[d.steps[i].name]
        /\ ~d.steps[i].named => l[i].pin = d.steps[i].content
    BY <2>1, <2>3, <1>0, <1>2, <1>5, EntryFacts
  <2>5. u.links[i].pin = l[i].pin
    <3>1. d.steps[i].named => u.links[i].pin = blueprint[d.steps[i].name]
      BY <2>2 DEF JobMatchesStep
    <3> QED BY <3>1, <2>1, <2>4
  <2> QED BY <2>4, <2>5
<1> QED BY <1>6, <1>7 DEF Covered, u

MayStart(r) == run'[r].status = "running" /\ (r \in DOMAIN run => run[r].status = "paused")

\* One step of the compiler's world.
StepHolds == MInv' /\ \A r \in DOMAIN run' : MayStart(r) => Covered(run'[r], role)

LEMMA SameRuns ==
  ASSUME run' = run
  PROVE  \A r \in DOMAIN run' : ~MayStart(r)
BY DEF MayStart

LEMMA RegistrationStep ==
  ASSUME MInv, NEW n \in Known, NEW c \in Contents,
         UpsertBlueprint(n, c) \/ RegisterBuildDefinition(n, c)
  PROVE  StepHolds
<1>1. /\ blueprint[n] # NoBlueprint => Mutable(n)
      /\ blueprint' = [blueprint EXCEPT ![n] = c] /\ UNCHANGED <<job, run, saved, role, live>>
  BY DEF UpsertBlueprint, RegisterBuildDefinition, RegisterCompiledBlueprint
<1>2. MInv'
  BY <1>1, RegistrationKeeps
<1> QED BY <1>1, <1>2, SameRuns DEF StepHolds

LEMMA StartBuildStep ==
  ASSUME MInv, NEW n \in Known, StartBuild(n)
  PROVE  StepHolds
<1>1. run' = run
  BY DEF StartBuild
<1> QED BY <1>1, StartBuildKeeps, SameRuns DEF StepHolds

LEMMA MoveJobStep ==
  ASSUME MInv, NEW j \in DOMAIN job, NEW s \in JobStatus, MoveJob(j, s)
  PROVE  StepHolds
<1>1. job \in Seq(JobRow) /\ run \in Seq(RunRow)
  BY DEF MInv, MTyped
<1>2. /\ job[j].status \in Sources(s) /\ job' = [job EXCEPT ![j].status = s] /\ run' = run
      /\ UNCHANGED <<blueprint, saved, role, live>>
  BY DEF MoveJob
<1>3. JobsMoved(job, job')
  BY <1>1, <1>2, MoveJobMoves
<1>4. Held(run, run')
  BY <1>1, <1>2, RunsStand
<1>5. MInv'
  BY <1>2, <1>3, <1>4, MovingKeeps
<1> QED BY <1>2, <1>5, SameRuns DEF StepHolds

LEMMA SaveStep ==
  ASSUME MInv, NEW d \in Missions, SaveMission(d)
  PROVE  StepHolds
<1>1. saved' = d /\ UNCHANGED <<blueprint, job, run, role, live>>
  BY DEF SaveMission
<1>2. MInv'
  BY <1>1 DEF MInv, MTyped, JobsHold, JobHolds, LinksHold, LinkHolds, InlineKept, ScriptsKept, Scripted
<1> QED BY <1>1, <1>2, SameRuns DEF StepHolds

LEMMA RoleStep ==
  ASSUME MInv, NEW r \in Roles, SetPlayerRole(r)
  PROVE  StepHolds
<1>1. role' = r /\ UNCHANGED <<blueprint, job, run, saved, live>>
  BY DEF SetPlayerRole
<1>2. MInv'
  BY <1>1 DEF MInv, MTyped, JobsHold, JobHolds, LinksHold, LinkHolds, InlineKept, ScriptsKept, Scripted
<1> QED BY <1>1, <1>2, SameRuns DEF StepHolds

LEMMA ConnectionStep ==
  ASSUME MInv, NEW v \in Versions \cup {"none"}, Connection(v)
  PROVE  StepHolds
<1>1. live' = v /\ UNCHANGED <<blueprint, job, run, saved, role>>
  BY DEF Connection
<1>2. MInv'
  BY <1>1 DEF MInv, MTyped, JobsHold, JobHolds, LinksHold, LinkHolds, InlineKept, ScriptsKept, Scripted
<1> QED BY <1>1, <1>2, SameRuns DEF StepHolds

LEMMA RunMissionStep ==
  ASSUME MInv, NEW d \in Definitions, RunMission(d)
  PROVE  StepHolds
<1>1. MInv'
  BY RunMissionKeeps
<1>2. ASSUME NEW x \in DOMAIN run', MayStart(x) PROVE x \notin DOMAIN run
  <2> DEFINE u == NewRun(d, Bind(CompileForActor(d).logical, Len(job) + 1))
  <2>1. run' = Append(run, u)
    BY DEF RunMission
  <2>2. run \in Seq(RunRow) /\ run' \in Seq(RunRow)
    BY <1>1 DEF MInv, MTyped
  <2> HIDE DEF u
  <2>3. \A y \in DOMAIN run : run'[y] = run[y]
    <3>1. run = [y \in 1 .. Len(run) |-> run[y]] /\ Len(run) \in Nat /\ DOMAIN run = 1 .. Len(run)
      <4> HIDE DEF RunRow
      <4> QED BY <2>2
    <3> HIDE DEF RunRow
    <3> QED BY <3>1, <2>1, <2>2
  <2> QED BY <2>3, <1>2 DEF MayStart
<1> QED BY <1>1, <1>2, StartCovered DEF StepHolds

LEMMA RunSavedStep ==
  ASSUME MInv, RunSaved
  PROVE  StepHolds
<1>1. saved \in Definitions /\ RunMission(saved)
  BY CompilerAssumption DEF RunSaved, MInv, MTyped
<1> QED BY <1>1, RunMissionStep

LEMMA HoldingStep ==
  ASSUME MInv, NEW r \in DOMAIN run, NEW s \in {"paused", "cancelled"},
         run' = [run EXCEPT ![r].status = s], job' = ByPlan(job, r, s), UNCHANGED <<blueprint, saved, role, live>>
  PROVE  StepHolds
<1>1. job \in Seq(JobRow) /\ run \in Seq(RunRow)
  BY DEF MInv, MTyped
<1>2. s \in JobStatus /\ s \in {"running", "paused", "cancelled"} /\ s # "running"
  BY DEF JobStatus
<1>3. JobsMoved(job, job')
  BY <1>1, <1>2, ByPlanMoves
<1>4. Held(run, run') /\ run'[r].status = s /\ \A x \in DOMAIN run : x # r => run'[x] = run[x]
  BY <1>1, <1>2, RunMoves
<1>5. MInv'
  BY <1>3, <1>4, MovingKeeps
<1>6. \A x \in DOMAIN run' : ~MayStart(x)
  BY <1>2, <1>4 DEF MayStart, Held
<1> QED BY <1>5, <1>6 DEF StepHolds

LEMMA ResumeStep ==
  ASSUME MInv, NEW r \in DOMAIN run, ResumeRun(r)
  PROVE  StepHolds
<1> DEFINE resumed == ByPlan(job, r, "running")
<1>1. job \in Seq(JobRow) /\ run \in Seq(RunRow) /\ "running" \in JobStatus /\ "paused" \in JobStatus
  BY DEF MInv, MTyped, JobStatus
<1>2. JobsMoved(job, resumed)
  BY <1>1, ByPlanMoves
<1>3. /\ CompileForActor(run[r].definition).ok /\ UNCHANGED <<blueprint, saved, role, live>>
      /\ \/ StillTaken(r, resumed) /\ run' = [run EXCEPT ![r].status = "running"] /\ job' = resumed
         \/ job' = ByPlan(resumed, r, "paused") /\ run' = run
  BY DEF ResumeRun
<1> HIDE DEF resumed
<1>4. CASE StillTaken(r, resumed) /\ run' = [run EXCEPT ![r].status = "running"] /\ job' = resumed
  <2>1. Held(run, run') /\ \A x \in DOMAIN run : x # r => run'[x] = run[x]
    BY <1>1, <1>4, RunMoves
  <2>2. MInv'
    BY <1>2, <1>3, <1>4, <2>1, MovingKeeps
  <2>3. Covered(run[r], role)
    BY <1>3, <1>4, ResumeCovered
  <2>4. ASSUME NEW x \in DOMAIN run', MayStart(x) PROVE Covered(run'[x], role)
    <3>1. x = r
      BY <2>1, <2>4 DEF MayStart, Held
    <3>2. run'[r].links = run[r].links /\ run'[r].rows = run[r].rows
      BY <2>1 DEF Held
    <3> QED BY <3>1, <3>2, <2>3 DEF Covered
  <2> QED BY <2>2, <2>4 DEF StepHolds
<1>5. CASE job' = ByPlan(resumed, r, "paused") /\ run' = run
  <2>1. resumed \in Seq(JobRow)
    BY <1>2 DEF JobsMoved
  <2>2. JobsMoved(resumed, job')
    BY <1>1, <1>5, <2>1, ByPlanMoves
  <2>3. JobsMoved(job, job')
    BY <1>2, <2>2, MovedTwice
  <2>4. Held(run, run')
    BY <1>1, <1>5, RunsStand
  <2>5. MInv'
    BY <1>3, <2>3, <2>4, MovingKeeps
  <2> QED BY <1>5, <2>5, SameRuns DEF StepHolds
<1> QED BY <1>3, <1>4, <1>5

LEMMA MNextHolds ==
  ASSUME MInv, Next
  PROVE  StepHolds
<1>1. CASE \E n \in Known, c \in Contents : UpsertBlueprint(n, c) \/ RegisterBuildDefinition(n, c)
  BY <1>1, RegistrationStep
<1>2. CASE \E n \in Known : StartBuild(n)
  BY <1>2, StartBuildStep
<1>3. CASE \E j \in DOMAIN job, s \in JobStatus : MoveJob(j, s)
  BY <1>3, MoveJobStep
<1>4. CASE \E d \in Missions : SaveMission(d)
  BY <1>4, SaveStep
<1>5. CASE \E d \in Missions : RunMission(d)
  BY <1>5, RunMissionStep, CompilerAssumption
<1>6. CASE RunSaved
  BY <1>6, RunSavedStep
<1>7. CASE \E r \in DOMAIN run : PauseRun(r)
  <2>1. PICK r \in DOMAIN run : PauseRun(r)
    BY <1>7
  <2>2. /\ run' = [run EXCEPT ![r].status = "paused"] /\ job' = ByPlan(job, r, "paused")
        /\ UNCHANGED <<blueprint, saved, role, live>>
    BY <2>1 DEF PauseRun
  <2> QED BY <2>2, HoldingStep
<1>8. CASE \E r \in DOMAIN run : ResumeRun(r)
  BY <1>8, ResumeStep
<1>9. CASE \E r \in DOMAIN run : CancelRun(r)
  <2>1. PICK r \in DOMAIN run : CancelRun(r)
    BY <1>9
  <2>2. /\ run' = [run EXCEPT ![r].status = "cancelled"] /\ job' = ByPlan(job, r, "cancelled")
        /\ UNCHANGED <<blueprint, saved, role, live>>
    BY <2>1 DEF CancelRun
  <2> QED BY <2>2, HoldingStep
<1>10. CASE \E r \in Roles : SetPlayerRole(r)
  BY <1>10, RoleStep
<1>11. CASE \E v \in Versions \cup {"none"} : Connection(v)
  BY <1>11, ConnectionStep
<1> QED BY <1>1, <1>2, <1>3, <1>4, <1>5, <1>6, <1>7, <1>8, <1>9, <1>10, <1>11 DEF Next

LEMMA MInvStutters ==
  ASSUME MInv, UNCHANGED vars
  PROVE  MInv'
BY DEF vars, MInv, MTyped, JobsHold, JobHolds, LinksHold, LinkHolds, InlineKept, ScriptsKept, Scripted

\* The tables of missions, jobs and blueprints hold together in every reachable
\* state, whatever is registered, built, run, held and resumed in between.
THEOREM ScriptsAreKept == Spec => []MInv
<1>1. Init => MInv
  BY MInvInit
<1>2. MInv /\ [Next]_vars => MInv'
  BY MNextHolds, MInvStutters DEF StepHolds
<1> QED BY <1>1, <1>2, PTL DEF Spec

LEMMA MInvTyped ==
  ASSUME MInv
  PROVE  TypeOK
<1>0. /\ blueprint \in [Keys -> Blueprints] /\ job \in Seq(JobRow) /\ run \in Seq(RunRow)
      /\ saved \in Missions \cup {NoDefinition} /\ role \in Roles /\ live \in Versions \cup {"none"}
  BY DEF MInv, MTyped
<1>1. \A r \in DOMAIN run : run[r] \in RunRow
  <2> HIDE DEF RunRow
  <2> QED BY <1>0
<1>2. BoundLink(MaxJobs) = Link
  BY DEF BoundLink, Link, Blueprints
<1>3. \A r \in DOMAIN run :
        /\ run[r].status \in {"running", "paused", "cancelled"} /\ run[r].definition \in Definitions
        /\ run[r].links \in Seq(Link) /\ run[r].rows \in Seq(Row)
  BY <1>1, <1>2 DEF RunRow, Row
<1> QED BY <1>0, <1>3 DEF TypeOK, Blueprints, JobRow

LEMMA MInvBuilds ==
  ASSUME MInv
  PROVE  BuildsWhatWasCompiled
BY DEF MInv, JobsHold, JobHolds, LinksHold, LinkHolds, BuildsWhatWasCompiled

\* The rows of runs, jobs and blueprints keep their types, as the tables of the
\* two stores declare them (missions/store.ts and construction/store.ts).
THEOREM CompilerTypeCorrect == Spec => []TypeOK
BY ScriptsAreKept, MInvTyped, PTL

\* A job that can still lay a block builds the blueprint it was created for, and
\* a mission's job the one its script was compiled with (assertBlueprintMutable
\* and the names of inline builds).
THEOREM BuildsAsCompiled == Spec => []BuildsWhatWasCompiled
BY ScriptsAreKept, MInvBuilds, PTL

\* A run starts or resumes only when the player's role of the moment covers every
\* skill and every blueprint of its rows.
THEOREM RunsWithinTheRole == Spec => NothingBeyondTheRole
<1>1. MInv /\ [Next]_vars =>
        [\A r \in DOMAIN run' :
           run'[r].status = "running" /\ (r \in DOMAIN run => run[r].status = "paused") =>
             /\ \A k \in DOMAIN run'[r].rows : Rank(role) >= Rank(Registry[run'[r].rows[k].skill].role)
             /\ \A i \in DOMAIN run'[r].links :
                  run'[r].links[i].job # 0 => Rank(role) >= Rank(run'[r].links[i].pin.role)]_vars
  BY MNextHolds DEF StepHolds, MayStart, Covered
<1> QED BY <1>1, ScriptsAreKept, PTL DEF Spec, NothingBeyondTheRole

-----------------------------------------------------------------------------
(* AcceptedExactly: the running totals are sums.                           *)

LEMMA SumGrows ==
  ASSUME NEW n \in Nat, NEW v \in [1 .. n -> Nat], NEW g, IsSum(g, n, v)
  PROVE  \A k \in 0 .. n : \A i \in 0 .. k : g[1 .. i] <= g[1 .. k]
<1>1. /\ \A k \in 1 .. n : g[1 .. k] = g[1 .. k - 1] + v[k]
      /\ \A k \in 0 .. n : g[1 .. k] \in Nat
  BY SumValues
<1> DEFINE P(k) == k <= n => \A i \in 0 .. k : g[1 .. i] <= g[1 .. k]
           S == {k \in Nat : P(k)}
<1>2. P(0)
  <2>1. \A i \in 0 .. 0 : i = 0
    OBVIOUS
  <2>2. 0 \in 0 .. n
    OBVIOUS
  <2>3. \A z \in 0 .. n : g[1 .. z] <= g[1 .. z]
    BY <1>1
  <2> QED BY <2>1, <2>2, <2>3
<1>3. ASSUME NEW k \in Nat, P(k) PROVE P(k + 1)
  <2> SUFFICES ASSUME k + 1 <= n, NEW i \in 0 .. k + 1 PROVE g[1 .. i] <= g[1 .. k + 1]
    OBVIOUS
  <2>1. k + 1 \in 1 .. n /\ (k + 1) - 1 = k /\ k \in 0 .. n /\ k + 1 \in 0 .. n /\ i \in 0 .. n /\ k <= n
    OBVIOUS
  <2>2. g[1 .. k + 1] = g[1 .. (k + 1) - 1] + v[k + 1] /\ v[k + 1] \in Nat
    BY <2>1, <1>1
  <2>3. g[1 .. k] \in Nat /\ g[1 .. k + 1] \in Nat /\ g[1 .. i] \in Nat
    BY <2>1, <1>1
  <2>4. CASE i = k + 1
    BY <2>3, <2>4
  <2>5. CASE i # k + 1
    <3>1. i \in 0 .. k
      BY <2>5
    <3>2. g[1 .. i] <= g[1 .. k]
      BY <3>1, <2>1, <1>3
    <3> QED BY <3>2, <2>1, <2>2, <2>3
  <2> QED BY <2>4, <2>5
<1> HIDE DEF P
<1>4. S \in SUBSET Nat /\ 0 \in S /\ \A k \in S : k + 1 \in S
  BY <1>2, <1>3
<1>5. S = Nat
  <2> HIDE DEF S
  <2> QED BY <1>4, ByInduction
<1> QED BY <1>5 DEF P

\* The sums that AcceptedExactly speaks of.
IsRowSum(g, d, actor, bps) ==
  g = [s \in SUBSET DOMAIN [i \in DOMAIN d.steps |-> i] |->
         IF s = {} THEN 0
         ELSE g[s \ {Max(s)}]
              + Len(CompileLogicalStep(d.steps[[i \in DOMAIN d.steps |-> i][Max(s)]], actor, bps).rows)]

RowSum(d, actor, bps) == CHOOSE g : IsRowSum(g, d, actor, bps)

IsChangeSum(g, d, actor, bps) ==
  g = [s \in SUBSET DOMAIN [i \in DOMAIN d.steps |-> i] |->
         IF s = {} THEN 0
         ELSE g[s \ {Max(s)}]
              + CompileLogicalStep(d.steps[[i \in DOMAIN d.steps |-> i][Max(s)]], actor, bps).changes]

ChangeSum(d, actor, bps) == CHOOSE g : IsChangeSum(g, d, actor, bps)

RowCounts(d, actor, bps) == [i \in 1 .. Len(d.steps) |-> Len(Step(d, actor, bps, i).rows)]
ChangeCounts(d, actor, bps) == [i \in 1 .. Len(d.steps) |-> Step(d, actor, bps, i).changes]

LEMMA CountsAreNumbers ==
  ASSUME NEW d \in Definitions, NEW actor \in Roles, NEW bps \in [Keys -> Blueprints]
  PROVE  /\ RowCounts(d, actor, bps) \in [1 .. Len(d.steps) -> Nat]
         /\ ChangeCounts(d, actor, bps) \in [1 .. Len(d.steps) -> Nat]
         /\ Len(d.steps) \in Nat /\ DOMAIN d.steps = 1 .. Len(d.steps)
<1>1. Len(d.steps) \in Nat /\ DOMAIN d.steps = 1 .. Len(d.steps)
  <2>1. Len(d.steps) \in 1 .. 32 /\ DOMAIN d.steps = 1 .. Len(d.steps)
    BY StepForms
  <2> QED BY <2>1
<1>2. \A i \in 1 .. Len(d.steps) : IsResult(Step(d, actor, bps, i))
  BY <1>1, StepIsResult DEF Step
<1>3. \A i \in 1 .. Len(d.steps) : Len(Step(d, actor, bps, i).rows) \in Nat /\ Step(d, actor, bps, i).changes \in Nat
  BY <1>2 DEF IsResult
<1> QED BY <1>1, <1>3 DEF RowCounts, ChangeCounts

LEMMA RowSumIsSum ==
  ASSUME NEW d \in Definitions, NEW actor \in Roles, NEW bps \in [Keys -> Blueprints]
  PROVE  IsSum(RowSum(d, actor, bps), Len(d.steps), RowCounts(d, actor, bps))
<1> DEFINE n == Len(d.steps)
           v == RowCounts(d, actor, bps)
<1>1. n \in Nat /\ DOMAIN d.steps = 1 .. n /\ v \in [1 .. n -> Nat]
  BY CountsAreNumbers
<1> HIDE DEF n
<1>2. DOMAIN [i \in DOMAIN d.steps |-> i] = 1 .. n
  BY <1>1
<1>3. ASSUME NEW s \in SUBSET (1 .. n), s # {}
      PROVE  Len(CompileLogicalStep(d.steps[[i \in DOMAIN d.steps |-> i][Max(s)]], actor, bps).rows) = v[Max(s)]
  <2>1. Max(s) \in 1 .. n
    BY <1>1, <1>3, MaxOf
  <2>2. [i \in DOMAIN d.steps |-> i][Max(s)] = Max(s)
    BY <2>1, <1>1
  <2>3. v[Max(s)] = Len(Step(d, actor, bps, Max(s)).rows)
    BY <2>1 DEF RowCounts, n
  <2> QED BY <2>2, <2>3 DEF Step
<1> HIDE DEF v
<1>4. ASSUME NEW g
      PROVE  [s \in SUBSET DOMAIN [i \in DOMAIN d.steps |-> i] |->
               IF s = {} THEN 0
               ELSE g[s \ {Max(s)}]
                    + Len(CompileLogicalStep(d.steps[[i \in DOMAIN d.steps |-> i][Max(s)]], actor, bps).rows)]
             = [s \in SUBSET (1 .. n) |-> IF s = {} THEN 0 ELSE g[s \ {Max(s)}] + v[Max(s)]]
  <2> DEFINE tally(s) == Len(CompileLogicalStep(d.steps[[i \in DOMAIN d.steps |-> i][Max(s)]], actor, bps).rows)
  <2>1. \A s \in SUBSET (1 .. n) : s # {} => tally(s) = v[Max(s)]
    BY <1>3
  <2> HIDE DEF tally
  <2>2. [s \in SUBSET (1 .. n) |-> IF s = {} THEN 0 ELSE g[s \ {Max(s)}] + tally(s)]
        = [s \in SUBSET (1 .. n) |-> IF s = {} THEN 0 ELSE g[s \ {Max(s)}] + v[Max(s)]]
    BY <2>1
  <2> QED BY <2>2, <1>2 DEF tally
<1>5. \A g : IsRowSum(g, d, actor, bps) <=> IsSum(g, n, v)
  BY <1>4 DEF IsRowSum, IsSum
<1>6. \E g : IsRowSum(g, d, actor, bps)
  BY <1>1, <1>5, SumExists
<1>7. IsRowSum(RowSum(d, actor, bps), d, actor, bps)
  BY <1>6 DEF RowSum
<1> QED BY <1>5, <1>7 DEF n, v

LEMMA ChangeSumIsSum ==
  ASSUME NEW d \in Definitions, NEW actor \in Roles, NEW bps \in [Keys -> Blueprints]
  PROVE  IsSum(ChangeSum(d, actor, bps), Len(d.steps), ChangeCounts(d, actor, bps))
<1> DEFINE n == Len(d.steps)
           v == ChangeCounts(d, actor, bps)
<1>1. n \in Nat /\ DOMAIN d.steps = 1 .. n /\ v \in [1 .. n -> Nat]
  BY CountsAreNumbers
<1> HIDE DEF n
<1>2. DOMAIN [i \in DOMAIN d.steps |-> i] = 1 .. n
  BY <1>1
<1>3. ASSUME NEW s \in SUBSET (1 .. n), s # {}
      PROVE  CompileLogicalStep(d.steps[[i \in DOMAIN d.steps |-> i][Max(s)]], actor, bps).changes = v[Max(s)]
  <2>1. Max(s) \in 1 .. n
    BY <1>1, <1>3, MaxOf
  <2>2. [i \in DOMAIN d.steps |-> i][Max(s)] = Max(s)
    BY <2>1, <1>1
  <2>3. v[Max(s)] = Step(d, actor, bps, Max(s)).changes
    BY <2>1 DEF ChangeCounts, n
  <2> QED BY <2>2, <2>3 DEF Step
<1> HIDE DEF v
<1>4. ASSUME NEW g
      PROVE  [s \in SUBSET DOMAIN [i \in DOMAIN d.steps |-> i] |->
               IF s = {} THEN 0
               ELSE g[s \ {Max(s)}]
                    + CompileLogicalStep(d.steps[[i \in DOMAIN d.steps |-> i][Max(s)]], actor, bps).changes]
             = [s \in SUBSET (1 .. n) |-> IF s = {} THEN 0 ELSE g[s \ {Max(s)}] + v[Max(s)]]
  <2> DEFINE tally(s) == CompileLogicalStep(d.steps[[i \in DOMAIN d.steps |-> i][Max(s)]], actor, bps).changes
  <2>1. \A s \in SUBSET (1 .. n) : s # {} => tally(s) = v[Max(s)]
    BY <1>3
  <2> HIDE DEF tally
  <2>2. [s \in SUBSET (1 .. n) |-> IF s = {} THEN 0 ELSE g[s \ {Max(s)}] + tally(s)]
        = [s \in SUBSET (1 .. n) |-> IF s = {} THEN 0 ELSE g[s \ {Max(s)}] + v[Max(s)]]
    BY <2>1
  <2> QED BY <2>2, <1>2 DEF tally
<1>5. \A g : IsChangeSum(g, d, actor, bps) <=> IsSum(g, n, v)
  BY <1>4 DEF IsChangeSum, IsSum
<1>6. \E g : IsChangeSum(g, d, actor, bps)
  BY <1>1, <1>5, SumExists
<1>7. IsChangeSum(ChangeSum(d, actor, bps), d, actor, bps)
  BY <1>6 DEF ChangeSum
<1> QED BY <1>5, <1>7 DEF n, v

Summed(g, n, v) ==
  /\ g[1 .. 0] = 0
  /\ \A k \in 1 .. n : g[1 .. k] = g[1 .. k - 1] + v[k]
  /\ \A k \in 0 .. n : g[1 .. k] \in Nat /\ \A i \in 0 .. k : g[1 .. i] <= g[1 .. k]

LEMMA SumsAdd ==
  ASSUME NEW n \in Nat, NEW v \in [1 .. n -> Nat], NEW g, IsSum(g, n, v)
  PROVE  Summed(g, n, v)
<1>1. {} = 1 .. 0
  OBVIOUS
<1>2. g[1 .. 0] = 0 /\ \A k \in 1 .. n : g[1 .. k] = g[1 .. k - 1] + v[k]
  BY <1>1, SumValues
<1>3. \A k \in 0 .. n : g[1 .. k] \in Nat
  BY SumValues
<1> QED BY <1>2, <1>3, SumGrows DEF Summed

LEMMA StepsAdd ==
  ASSUME NEW d \in Definitions, NEW actor \in Roles, NEW bps \in [Keys -> Blueprints]
  PROVE  /\ Summed(RowSum(d, actor, bps), Len(d.steps), RowCounts(d, actor, bps))
         /\ Summed(ChangeSum(d, actor, bps), Len(d.steps), ChangeCounts(d, actor, bps))
<1>1. /\ RowCounts(d, actor, bps) \in [1 .. Len(d.steps) -> Nat]
      /\ ChangeCounts(d, actor, bps) \in [1 .. Len(d.steps) -> Nat]
      /\ Len(d.steps) \in Nat
  BY CountsAreNumbers
<1>2. IsSum(RowSum(d, actor, bps), Len(d.steps), RowCounts(d, actor, bps))
  BY RowSumIsSum
<1>3. IsSum(ChangeSum(d, actor, bps), Len(d.steps), ChangeCounts(d, actor, bps))
  BY ChangeSumIsSum
<1> QED BY <1>1, <1>2, <1>3, SumsAdd

\* The running totals of the compiler are the sums of what it has accepted.
Fitting(d, actor, bps, i) ==
  /\ Step(d, actor, bps, i).ok
  /\ RowSum(d, actor, bps)[1 .. i] <= d.maxExpanded
  /\ ChangeSum(d, actor, bps)[1 .. i] <= d.maxChanges

Totals(d, actor, bps, k) ==
  LET a == After(d, actor, bps, k)
  IN  /\ a.ok <=> \A i \in 1 .. k : Fitting(d, actor, bps, i)
      /\ a.ok => /\ a.expanded = RowSum(d, actor, bps)[1 .. k]
                 /\ a.changes = ChangeSum(d, actor, bps)[1 .. k]

LEMMA TotalsAdd ==
  ASSUME NEW d \in Definitions, NEW actor \in Roles, NEW bps \in [Keys -> Blueprints],
         NEW k \in Nat, k + 1 <= Len(d.steps), Totals(d, actor, bps, k)
  PROVE  Totals(d, actor, bps, k + 1)
<1> DEFINE a == After(d, actor, bps, k)
           b == After(d, actor, bps, k + 1)
           r == Step(d, actor, bps, k + 1)
           R(i) == RowSum(d, actor, bps)[1 .. i]
           C(i) == ChangeSum(d, actor, bps)[1 .. i]
<1>1. k + 1 \in 1 .. Len(d.steps) /\ (k + 1) - 1 = k /\ k \in 0 .. Len(d.steps) /\ k + 1 \in 0 .. Len(d.steps)
  BY CountsAreNumbers
<1>2. b = WithStep(a, d, r) /\ a \in Acc /\ b \in Acc
  <2>1. AfterGood(d, actor, bps, k) /\ AfterGood(d, actor, bps, k + 1)
    BY <1>1, AfterIsGood
  <2> QED BY <2>1, <1>1, AfterValues DEF AfterGood
<1>3. IsResult(r)
  BY <1>1, CountsAreNumbers, StepIsResult DEF Step
<1>4. /\ R(k + 1) = R(k) + Len(r.rows) /\ C(k + 1) = C(k) + r.changes
      /\ R(k) \in Nat /\ C(k) \in Nat
  <2>2. R(k + 1) = R((k + 1) - 1) + RowCounts(d, actor, bps)[k + 1] /\ R(k) \in Nat
    BY <1>1, StepsAdd DEF Summed
  <2>3. C(k + 1) = C((k + 1) - 1) + ChangeCounts(d, actor, bps)[k + 1] /\ C(k) \in Nat
    BY <1>1, StepsAdd DEF Summed
  <2>4. RowCounts(d, actor, bps)[k + 1] = Len(r.rows) /\ ChangeCounts(d, actor, bps)[k + 1] = r.changes
    BY <1>1 DEF RowCounts, ChangeCounts
  <2> QED BY <2>2, <2>3, <2>4, <1>1
<1>5. /\ a.expanded \in Nat /\ a.changes \in Nat /\ Len(r.rows) \in Nat /\ r.changes \in Nat
      /\ d.maxExpanded \in Nat /\ d.maxChanges \in Nat /\ MaxExpanded \in Nat /\ MaxChanges \in Nat
      /\ d.maxExpanded <= MaxExpanded /\ d.maxChanges <= MaxChanges
  BY <1>2, <1>3, StepForms DEF Acc, IsResult
<1>6. a.ok <=> \A i \in 1 .. k : Fitting(d, actor, bps, i)
  BY DEF Totals
<1>7. a.ok => a.expanded = R(k) /\ a.changes = C(k)
  BY DEF Totals
<1>8. (\A i \in 1 .. k + 1 : Fitting(d, actor, bps, i))
        <=> a.ok /\ r.ok /\ R(k + 1) <= d.maxExpanded /\ C(k + 1) <= d.maxChanges
  <2>1. \A i \in 1 .. k + 1 : i \in 1 .. k \/ i = k + 1
    OBVIOUS
  <2>2. \A i \in 1 .. k : i \in 1 .. k + 1
    OBVIOUS
  <2>3. k + 1 \in 1 .. k + 1
    OBVIOUS
  <2>4. (\A i \in 1 .. k + 1 : Fitting(d, actor, bps, i))
          <=> (\A i \in 1 .. k : Fitting(d, actor, bps, i)) /\ Fitting(d, actor, bps, k + 1)
    BY <2>1, <2>2, <2>3
  <2>5. Fitting(d, actor, bps, k + 1) <=> r.ok /\ R(k + 1) <= d.maxExpanded /\ C(k + 1) <= d.maxChanges
    BY DEF Fitting
  <2> QED BY <2>4, <2>5, <1>6
<1> HIDE DEF a, b, r, R, C
<1>9. a.ok => (Over(a, d, r) <=> ~(R(k + 1) <= d.maxExpanded /\ C(k + 1) <= d.maxChanges))
  <2> SUFFICES ASSUME a.ok PROVE Over(a, d, r) <=> ~(R(k + 1) <= d.maxExpanded /\ C(k + 1) <= d.maxChanges)
    OBVIOUS
  <2>1. a.expanded + Len(r.rows) = R(k + 1) /\ a.changes + r.changes = C(k + 1)
    BY <1>4, <1>7
  <2>2. R(k + 1) \in Nat /\ C(k + 1) \in Nat
    BY <1>4, <1>5
  <2> QED BY <2>1, <2>2, <1>5 DEF Over
<1>10. CASE r.ok /\ ~Over(a, d, r)
  <2>1. b = Taking(a, r)
    BY <1>2, <1>10, WithStepForms
  <2>2. b.ok = a.ok /\ b.expanded = a.expanded + Len(r.rows) /\ b.changes = a.changes + r.changes
    BY <2>1 DEF Taking
  <2>3. b.ok <=> \A i \in 1 .. k + 1 : Fitting(d, actor, bps, i)
    BY <2>2, <1>8, <1>9, <1>10
  <2>4. b.ok => b.expanded = R(k + 1) /\ b.changes = C(k + 1)
    BY <2>2, <1>4, <1>7
  <2> QED BY <2>3, <2>4 DEF Totals, b, R, C
<1>11. CASE ~(r.ok /\ ~Over(a, d, r))
  <2>1. b = [a EXCEPT !.ok = FALSE]
    BY <1>2, <1>11, WithStepForms
  <2>2. b.ok = FALSE
    BY <2>1, <1>2 DEF Acc
  <2>3. ~(\A i \in 1 .. k + 1 : Fitting(d, actor, bps, i))
    BY <1>8, <1>9, <1>11
  <2> QED BY <2>2, <2>3 DEF Totals, b
<1> QED BY <1>10, <1>11

LEMMA TotalsHold ==
  ASSUME NEW d \in Definitions, NEW actor \in Roles, NEW bps \in [Keys -> Blueprints]
  PROVE  Totals(d, actor, bps, Len(d.steps))
<1> DEFINE P(k) == k <= Len(d.steps) => Totals(d, actor, bps, k)
           S == {k \in Nat : P(k)}
<1>0. Len(d.steps) \in Nat
  BY CountsAreNumbers
<1>1. Totals(d, actor, bps, 0)
  <2>1. After(d, actor, bps, 0) = NothingYet
    BY AfterValues
  <2>2. NothingYet.ok = TRUE /\ NothingYet.expanded = 0 /\ NothingYet.changes = 0
    BY DEF NothingYet
  <2>3. \A i \in 1 .. 0 : FALSE
    OBVIOUS
  <2>5. RowSum(d, actor, bps)[1 .. 0] = 0 /\ ChangeSum(d, actor, bps)[1 .. 0] = 0
    BY StepsAdd DEF Summed
  <2> QED BY <2>1, <2>2, <2>3, <2>5 DEF Totals
<1>2. \A k \in Nat : P(k) => P(k + 1)
  <2> SUFFICES ASSUME NEW k \in Nat, P(k), k + 1 <= Len(d.steps) PROVE Totals(d, actor, bps, k + 1)
    OBVIOUS
  <2>1. k <= Len(d.steps)
    BY <1>0
  <2> QED BY <2>1, TotalsAdd
<1>3. P(0)
  BY <1>1
<1> HIDE DEF P
<1>4. S \in SUBSET Nat /\ 0 \in S /\ \A k \in S : k + 1 \in S
  BY <1>2, <1>3
<1>5. S = Nat
  <2> HIDE DEF S
  <2> QED BY <1>4, ByInduction
<1>6. P(Len(d.steps))
  BY <1>0, <1>5
<1> QED BY <1>0, <1>6 DEF P

LEMMA SumsDecide ==
  ASSUME NEW d \in Definitions, NEW actor \in Roles, NEW bps \in [Keys -> Blueprints]
  PROVE  Compile(d, actor, bps).ok <=>
           /\ \A i \in DOMAIN d.steps : CompileLogicalStep(d.steps[i], actor, bps).ok
           /\ RowSum(d, actor, bps)[DOMAIN d.steps] <= d.maxExpanded
           /\ ChangeSum(d, actor, bps)[DOMAIN d.steps] <= d.maxChanges
<1> DEFINE n == Len(d.steps)
           R(i) == RowSum(d, actor, bps)[1 .. i]
           C(i) == ChangeSum(d, actor, bps)[1 .. i]
<1>1. n \in Nat /\ DOMAIN d.steps = 1 .. n /\ n \in 1 .. n /\ n \in 0 .. n
  <2>1. n \in 1 .. 32 /\ DOMAIN d.steps = 1 .. n
    BY StepForms
  <2>2. \A x \in 1 .. 32 : x \in Nat /\ x \in 1 .. x /\ x \in 0 .. x
    OBVIOUS
  <2> QED BY <2>1, <2>2
<1>2. Compile(d, actor, bps).ok <=> \A i \in 1 .. n : Fitting(d, actor, bps, i)
  BY TotalsHold, CompileIsAfter DEF Totals
<1>3. \A i \in 1 .. n : /\ R(i) \in Nat /\ R(i) <= R(n) /\ C(i) \in Nat /\ C(i) <= C(n)
  <2>2. \A i \in 1 .. n : i \in 0 .. n
    BY <1>1
  <2>3. \A i \in 0 .. n : R(i) \in Nat /\ R(i) <= R(n)
    BY <1>1, StepsAdd DEF Summed
  <2>4. \A i \in 0 .. n : C(i) \in Nat /\ C(i) <= C(n)
    BY <1>1, StepsAdd DEF Summed
  <2> QED BY <2>2, <2>3, <2>4
<1>4. d.maxExpanded \in Nat /\ d.maxChanges \in Nat
  BY StepForms
<1> HIDE DEF n
<1>5. \A i \in 1 .. n : Fitting(d, actor, bps, i) <=> Step(d, actor, bps, i).ok /\ R(i) <= d.maxExpanded /\ C(i) <= d.maxChanges
  BY DEF Fitting
<1> HIDE DEF R, C
<1>6. (\A i \in 1 .. n : R(i) <= d.maxExpanded /\ C(i) <= d.maxChanges)
        <=> R(n) <= d.maxExpanded /\ C(n) <= d.maxChanges
  <2>1. ASSUME R(n) <= d.maxExpanded /\ C(n) <= d.maxChanges, NEW i \in 1 .. n
        PROVE  R(i) <= d.maxExpanded /\ C(i) <= d.maxChanges
    <3>1. R(i) \in Nat /\ R(i) <= R(n) /\ C(i) \in Nat /\ C(i) <= C(n) /\ R(n) \in Nat /\ C(n) \in Nat
      BY <1>1, <1>3
    <3> QED BY <3>1, <2>1, <1>4
  <2> QED BY <2>1, <1>1
<1>7. Compile(d, actor, bps).ok <=>
        /\ \A i \in 1 .. n : Step(d, actor, bps, i).ok
        /\ R(n) <= d.maxExpanded /\ C(n) <= d.maxChanges
  BY <1>2, <1>5, <1>6
<1> QED BY <1>1, <1>7 DEF Step, R, C

LEMMA AcceptedByItsSums ==
  ASSUME role \in Roles, blueprint \in [Keys -> Blueprints]
  PROVE  AcceptedExactly
<1> SUFFICES ASSUME NEW d \in Definitions
             PROVE  LET step(i) == CompileLogicalStep(d.steps[i], role, blueprint)
                        sum(n(_)) == FoldLeft(LAMBDA t, i : t + n(i), 0, [i \in DOMAIN d.steps |-> i])
                    IN  CompileForActor(d).ok <=>
                          /\ \A i \in DOMAIN d.steps : step(i).ok
                          /\ sum(LAMBDA i : Len(step(i).rows)) <= d.maxExpanded
                          /\ sum(LAMBDA i : step(i).changes) <= d.maxChanges
  BY DEF AcceptedExactly
<1>1. FoldLeft(LAMBDA t, i : t + Len(CompileLogicalStep(d.steps[i], role, blueprint).rows), 0,
               [i \in DOMAIN d.steps |-> i])
      = RowSum(d, role, blueprint)[DOMAIN [i \in DOMAIN d.steps |-> i]]
  BY DEF FoldLeft, MapThenFoldSet, RowSum, IsRowSum
<1>2. FoldLeft(LAMBDA t, i : t + CompileLogicalStep(d.steps[i], role, blueprint).changes, 0,
               [i \in DOMAIN d.steps |-> i])
      = ChangeSum(d, role, blueprint)[DOMAIN [i \in DOMAIN d.steps |-> i]]
  BY DEF FoldLeft, MapThenFoldSet, ChangeSum, IsChangeSum
<1>3. DOMAIN [i \in DOMAIN d.steps |-> i] = DOMAIN d.steps
  OBVIOUS
<1>4. CompileForActor(d).ok <=>
        /\ \A i \in DOMAIN d.steps : CompileLogicalStep(d.steps[i], role, blueprint).ok
        /\ RowSum(d, role, blueprint)[DOMAIN d.steps] <= d.maxExpanded
        /\ ChangeSum(d, role, blueprint)[DOMAIN d.steps] <= d.maxChanges
  BY SumsDecide DEF CompileForActor
<1> QED BY <1>1, <1>2, <1>3, <1>4

-----------------------------------------------------------------------------
(* AcceptedIsTaken: links and rows are those the store expects.            *)

\* How many rows come before a step.
IsBefore(g, w) ==
  g = [s \in SUBSET DOMAIN w |-> IF s = {} THEN 0 ELSE g[s \ {Max(s)}] + w[Max(s)].count]

BeforeSum(w) == CHOOSE g : IsBefore(g, w)

StartsAre(st, links, n) ==
  /\ n = Len(links) /\ st[1] = 0 /\ \A i \in 1 .. n : st[i] \in Nat
  /\ \A i \in 1 .. n - 1 : st[i + 1] = st[i] + links[i].count

BeforeAt(st, links, n, k) ==
  /\ k + 1 <= n => Before(links, k + 1) = st[k + 1]
  /\ k # 0 => Before(links, k + 1) = st[k] + links[k].count

LEMMA BeforeIsStart ==
  ASSUME NEW m \in Nat, NEW links \in Seq(BoundLink(m)), NEW n \in Nat,
         NEW st, StartsAre(st, links, n), NEW k \in 0 .. n
  PROVE  BeforeAt(st, links, n, k)
<1> DEFINE w == SubSeq(links, 1, (k + 1) - 1)
           v == [x \in 1 .. k |-> links[x].count]
<1>told. /\ n = Len(links) /\ st[1] = 0 /\ \A i \in 1 .. n : st[i] \in Nat
      /\ \A i \in 1 .. n - 1 : st[i + 1] = st[i] + links[i].count
  BY DEF StartsAre
<1>0. k \in Nat /\ (k + 1) - 1 = k /\ \A x \in 1 .. k : x \in 1 .. n
  OBVIOUS
<1>1. w = [x \in 1 .. k |-> links[x]]
  <2>1. w = SubSeq(links, 1, k)
    BY <1>0
  <2> HIDE DEF BoundLink
  <2> QED BY <2>1, <1>0, <1>told
<1>2. Before(links, k + 1) = BeforeSum(w)[DOMAIN w]
  BY DEF Before, FoldLeft, MapThenFoldSet, BeforeSum, IsBefore
<1>3. DOMAIN w = 1 .. k /\ \A x \in 1 .. k : w[x] = links[x]
  BY <1>1
<1> HIDE DEF w
<1>4. \A x \in 1 .. n : links[x].count \in Nat
  <2>1. \A x \in 1 .. n : links[x] \in BoundLink(m)
    <3> HIDE DEF BoundLink
    <3> QED BY <1>told
  <2> QED BY <2>1 DEF BoundLink
<1>5. v \in [1 .. k -> Nat] /\ \A x \in 1 .. k : v[x] = links[x].count
  BY <1>0, <1>4
<1> HIDE DEF v
<1>6. ASSUME NEW s \in SUBSET (1 .. k), s # {} PROVE w[Max(s)].count = v[Max(s)]
  <2>1. Max(s) \in 1 .. k
    BY <1>0, <1>6, MaxOf
  <2> QED BY <2>1, <1>3, <1>5
<1>7. ASSUME NEW g
      PROVE  [s \in SUBSET DOMAIN w |-> IF s = {} THEN 0 ELSE g[s \ {Max(s)}] + w[Max(s)].count]
             = [s \in SUBSET (1 .. k) |-> IF s = {} THEN 0 ELSE g[s \ {Max(s)}] + v[Max(s)]]
  <2> DEFINE tally(s) == w[Max(s)].count
  <2>1. \A s \in SUBSET (1 .. k) : s # {} => tally(s) = v[Max(s)]
    BY <1>6
  <2> HIDE DEF tally
  <2>2. [s \in SUBSET (1 .. k) |-> IF s = {} THEN 0 ELSE g[s \ {Max(s)}] + tally(s)]
        = [s \in SUBSET (1 .. k) |-> IF s = {} THEN 0 ELSE g[s \ {Max(s)}] + v[Max(s)]]
    BY <2>1
  <2> QED BY <2>2, <1>3 DEF tally
<1>8. \A g : IsBefore(g, w) <=> IsSum(g, k, v)
  BY <1>7 DEF IsBefore, IsSum
<1>9. IsSum(BeforeSum(w), k, v)
  <2>1. \E g : IsBefore(g, w)
    BY <1>0, <1>5, <1>8, SumExists
  <2>2. IsBefore(BeforeSum(w), w)
    BY <2>1 DEF BeforeSum
  <2> QED BY <2>2, <1>8
<1> DEFINE g == BeforeSum(w)
<1>10. Summed(g, k, v)
  BY <1>0, <1>5, <1>9, SumsAdd
<1>11. g[1 .. 0] = 0 /\ \A x \in 1 .. k : g[1 .. x] = g[1 .. x - 1] + v[x]
  BY <1>10 DEF Summed
<1>12. Before(links, k + 1) = g[1 .. k]
  BY <1>2, <1>3
<1> HIDE DEF g
<1> DEFINE P(x) == x + 1 <= k => g[1 .. x] = st[x + 1]
           S == {x \in Nat : P(x)}
<1>13. P(0)
  <2>1. 0 + 1 = 1
    OBVIOUS
  <2> QED BY <2>1, <1>11, <1>told
<1>14. ASSUME NEW x \in Nat, P(x) PROVE P(x + 1)
  <2> SUFFICES ASSUME (x + 1) + 1 <= k PROVE g[1 .. x + 1] = st[(x + 1) + 1]
    OBVIOUS
  <2>1. x + 1 \in 1 .. k /\ (x + 1) - 1 = x /\ x + 1 <= k /\ x + 1 \in 1 .. n - 1
    BY <1>0
  <2>2. g[1 .. x] = st[x + 1]
    BY <2>1, <1>14
  <2>3. g[1 .. x + 1] = g[1 .. (x + 1) - 1] + v[x + 1]
    BY <2>1, <1>11
  <2>4. st[(x + 1) + 1] = st[x + 1] + links[x + 1].count /\ v[x + 1] = links[x + 1].count
    BY <2>1, <1>5, <1>told
  <2> QED BY <2>1, <2>2, <2>3, <2>4
<1> HIDE DEF P
<1>15. S \in SUBSET Nat /\ 0 \in S /\ \A x \in S : x + 1 \in S
  BY <1>13, <1>14
<1>16. S = Nat
  <2> HIDE DEF S
  <2> QED BY <1>15, ByInduction
<1>17. ASSUME k # 0 PROVE g[1 .. k] = st[k] + links[k].count
  <2>1. k - 1 \in Nat /\ (k - 1) + 1 = k /\ k \in 1 .. k /\ k <= k
    BY <1>0, <1>17
  <2>2. P(k - 1)
    BY <2>1, <1>16
  <2>3. g[1 .. k - 1] = st[k]
    BY <2>1, <2>2 DEF P
  <2> QED BY <2>1, <2>3, <1>5, <1>11
<1>18. ASSUME k + 1 <= n PROVE g[1 .. k] = st[k + 1]
  <2>1. CASE k = 0
    <3>1. k + 1 = 1
      BY <2>1
    <3> QED BY <2>1, <3>1, <1>11, <1>told
  <2>2. CASE k # 0
    <3>1. k \in 1 .. n - 1
      BY <1>0, <1>18, <2>2
    <3> QED BY <3>1, <2>2, <1>17, <1>told
  <2> QED BY <2>1, <2>2
<1> QED BY <1>12, <1>17, <1>18 DEF BeforeAt

Told(rows, j) == [k \in DOMAIN rows |-> ResolveTask(rows[k], j)]

\* The rows of a step are those the store expects of it.
LEMMA RowsAreExpected ==
  ASSUME NEW d \in Definitions, NEW actor \in Roles, NEW bps \in [Keys -> Blueprints],
         NEW i \in DOMAIN d.steps, Step(d, actor, bps, i) # Refused,
         NEW rows, rows = Step(d, actor, bps, i).rows, NEW j
  PROVE  Told(rows, IF d.steps[i].op = "build" THEN j ELSE 0) = ExpectedRows(d.steps[i], j)
<1> DEFINE c == CompileLogicalStep(d.steps[i], actor, bps)
           J == IF d.steps[i].op = "build" THEN j ELSE 0
           got == Told(rows, J)
<1>0. c # Refused /\ rows = c.rows
  BY DEF Step
<1>1. CASE d.steps[i].op = "skill"
  <2>1. c.rows = <<[skill |-> d.steps[i].skill, job |-> FALSE]>>
    BY <1>0, <1>1, SkillStep
  <2>2. ExpectedRows(d.steps[i], j) = <<[skill |-> d.steps[i].skill, job |-> 0]>>
    BY <1>1 DEF ExpectedRows
  <2>3. rows = <<[skill |-> d.steps[i].skill, job |-> FALSE]>>
    BY <2>1, <1>0
  <2>4. DOMAIN rows = {1} /\ rows[1].skill = d.steps[i].skill /\ rows[1].job = FALSE
    BY <2>3
  <2>5. ResolveTask(rows[1], J) = [skill |-> d.steps[i].skill, job |-> 0]
    BY <2>4 DEF ResolveTask
  <2>6. got = [k \in {1} |-> [skill |-> d.steps[i].skill, job |-> 0]]
    <3> HIDE DEF J
    <3> QED BY <2>4, <2>5 DEF Told
  <2>7. \A e : <<e>> = [k \in {1} |-> e]
    OBVIOUS
  <2> QED BY <2>2, <2>6, <2>7
<1>2. CASE d.steps[i].op = "clear"
  <2>1. c.rows = <<[skill |-> "clearRegion", job |-> FALSE]>>
    BY <1>0, <1>2, ClearStep
  <2>2. ExpectedRows(d.steps[i], j) = <<[skill |-> "clearRegion", job |-> 0]>>
    BY <1>2 DEF ExpectedRows
  <2>3. rows = <<[skill |-> "clearRegion", job |-> FALSE]>>
    BY <2>1, <1>0
  <2>4. DOMAIN rows = {1} /\ rows[1].skill = "clearRegion" /\ rows[1].job = FALSE
    BY <2>3
  <2>5. ResolveTask(rows[1], J) = [skill |-> "clearRegion", job |-> 0]
    BY <2>4 DEF ResolveTask
  <2>6. got = [k \in {1} |-> [skill |-> "clearRegion", job |-> 0]]
    <3> HIDE DEF J
    <3> QED BY <2>4, <2>5 DEF Told
  <2>7. \A e : <<e>> = [k \in {1} |-> e]
    OBVIOUS
  <2> QED BY <2>2, <2>6, <2>7
<1>3. CASE d.steps[i].op = "build"
  <2>1. c.rows = BuildRows
    BY <1>0, <1>3, BuildStep
  <2>2. ExpectedRows(d.steps[i], j) = [k \in DOMAIN InternalSkills |-> [skill |-> InternalSkills[k], job |-> j]]
    BY <1>3 DEF ExpectedRows
  <2>3. rows = [k \in DOMAIN InternalSkills |-> [skill |-> InternalSkills[k], job |-> TRUE]]
    BY <2>1, <1>0 DEF BuildRows
  <2>4. DOMAIN rows = DOMAIN InternalSkills
        /\ \A k \in DOMAIN InternalSkills : rows[k] = [skill |-> InternalSkills[k], job |-> TRUE]
    BY <2>3
  <2>5. \A k \in DOMAIN InternalSkills : ResolveTask(rows[k], J) = [skill |-> InternalSkills[k], job |-> j]
    <3>1. J = j
      BY <1>3
    <3> HIDE DEF J
    <3> TAKE k \in DOMAIN InternalSkills
    <3>2. rows[k].skill = InternalSkills[k] /\ rows[k].job = TRUE
      <4>1. rows[k] = [skill |-> InternalSkills[k], job |-> TRUE]
        BY <2>4
      <4>2. rows[k].skill = InternalSkills[k]
        BY <4>1
      <4>3. rows[k].job = TRUE
        BY <4>1
      <4> QED BY <4>2, <4>3
    <3> QED BY <3>1, <3>2 DEF ResolveTask
  <2>6. got = [k \in DOMAIN InternalSkills |-> [skill |-> InternalSkills[k], job |-> j]]
    <3> HIDE DEF J
    <3> QED BY <2>4, <2>5 DEF Told
  <2> QED BY <2>2, <2>6
<1> QED BY <1>1, <1>2, <1>3, StepForms

\* What is bound to an accepted script fits it, row by row.
LEMMA BoundRowsFit ==
  ASSUME NEW d \in Definitions, NEW actor \in Roles, NEW bps \in [Keys -> Blueprints],
         NEW l \in Seq(Entry), EntriesOf(l, d, actor, bps, Len(d.steps)), NEW total, Chained(l, total),
         NEW n \in Nat, NEW i \in DOMAIN d.steps
  PROVE  RowsFit(d.steps[i], Bind(l, n + 1).links[i], Bind(l, n + 1).rows)
<1> DEFINE b == Bind(l, n + 1)
           m == n + Cardinality(Builds(l))
           rows == l[i].rows
           s == l[i].start
           J == JobOf(l, i, n + 1)
<1>0. i \in 1 .. Len(d.steps)
  BY StepForms
<1>1. /\ b.rows \in Seq(ScriptRows(d, m)) /\ Len(b.rows) = total
      /\ b.links[i].start = s /\ b.links[i].count = Len(rows) /\ b.links[i].job = J
      /\ s + Len(rows) <= total
      /\ \A j \in 1 .. Len(rows) : b.rows[s + j] = Resolved(l, i, n + 1)[j]
  <2>1. /\ b.links \in Seq(BoundLink(m)) /\ Len(b.links) = Len(d.steps)
        /\ b.rows \in Seq(ScriptRows(d, m)) /\ Len(b.rows) = total
        /\ \A x \in 1 .. Len(d.steps) :
             /\ b.links[x].start = l[x].start /\ b.links[x].count = Len(l[x].rows)
             /\ b.links[x].job = JobOf(l, x, n + 1) /\ b.links[x].pin = l[x].pin
             /\ l[x].start + Len(l[x].rows) <= total
             /\ \A j \in 1 .. Len(l[x].rows) : b.rows[l[x].start + j] = Resolved(l, x, n + 1)[j]
    BY BoundParts
  <2> HIDE DEF b, m
  <2> QED BY <2>1, <1>0
<1> HIDE DEF b
<1>2. i \in DOMAIN l /\ l[i] \in Entry
  BY EntryFacts
<1>3. rows \in Seq(RawRow) /\ s \in Nat
  BY <1>2 DEF Entry
<1>4. rows = Step(d, actor, bps, i).rows /\ Step(d, actor, bps, i) # Refused
  BY <1>0 DEF EntriesOf
<1>5. J = IF d.steps[i].op = "build" THEN J ELSE 0
  <2>1. d.steps[i].op # "build" => i \notin Builds(l)
    BY EntryFacts
  <2>2. n + 1 \in Nat
    OBVIOUS
  <2>3. i \notin Builds(l) => J = 0
    BY <1>2, <2>2, JobsAreNumbered
  <2> QED BY <2>1, <2>3
<1>6. Resolved(l, i, n + 1) = Told(rows, J)
  BY DEF Resolved, Told
<1> HIDE DEF rows, s, J
<1>7. Told(rows, IF d.steps[i].op = "build" THEN J ELSE 0) = ExpectedRows(d.steps[i], J)
  BY <1>4, RowsAreExpected
<1>8. Resolved(l, i, n + 1) = ExpectedRows(d.steps[i], J)
  BY <1>5, <1>6, <1>7
<1>9. Len(rows) \in Nat /\ DOMAIN rows = 1 .. Len(rows)
  <2> HIDE DEF RawRow
  <2> QED BY <1>3
<1>10. SubSeq(b.rows, s + 1, s + Len(rows)) = [k \in 1 .. Len(rows) |-> b.rows[s + k]]
  <2>1. \A S : \A q \in Seq(S) : \A x \in Nat, y \in Nat :
          SubSeq(q, x + 1, x + y) = [k \in 1 .. y |-> q[x + k]]
    OBVIOUS
  <2> QED BY <2>1, <1>1, <1>3, <1>9
<1>11. [k \in 1 .. Len(rows) |-> b.rows[s + k]] = Resolved(l, i, n + 1)
  <2>1. DOMAIN Resolved(l, i, n + 1) = 1 .. Len(rows)
    BY <1>6, <1>9 DEF Told
  <2>2. Resolved(l, i, n + 1) = [k \in 1 .. Len(rows) |-> Resolved(l, i, n + 1)[k]]
    BY <1>6, <2>1 DEF Told
  <2> QED BY <2>2, <1>1
<1> QED BY <1>1, <1>8, <1>10, <1>11 DEF RowsFit, b

LEMMA BoundStarts ==
  ASSUME NEW d \in Definitions, NEW actor \in Roles, NEW bps \in [Keys -> Blueprints],
         NEW l \in Seq(Entry), EntriesOf(l, d, actor, bps, Len(d.steps)), NEW total, Chained(l, total),
         NEW n \in Nat
  PROVE  LET links == Bind(l, n + 1).links
         IN  /\ Len(links) = Len(d.steps) /\ DOMAIN links = 1 .. Len(d.steps)
             /\ \A i \in DOMAIN links : links[i].start = Before(links, i)
             /\ Before(links, Len(links) + 1) = total
<1> DEFINE links == Bind(l, n + 1).links
           h == Len(d.steps)
           m == n + Cardinality(Builds(l))
           st == [i \in 1 .. h |-> l[i].start]
<1>1. /\ links \in Seq(BoundLink(m)) /\ Len(links) = h
      /\ \A i \in 1 .. h : links[i].start = l[i].start /\ links[i].count = Len(l[i].rows)
  <2> DEFINE b == Bind(l, n + 1)
  <2>1. /\ b.links \in Seq(BoundLink(m)) /\ Len(b.links) = Len(d.steps)
        /\ b.rows \in Seq(ScriptRows(d, m)) /\ Len(b.rows) = total
        /\ \A x \in 1 .. Len(d.steps) :
             /\ b.links[x].start = l[x].start /\ b.links[x].count = Len(l[x].rows)
             /\ b.links[x].job = JobOf(l, x, n + 1) /\ b.links[x].pin = l[x].pin
             /\ l[x].start + Len(l[x].rows) <= total
             /\ \A j \in 1 .. Len(l[x].rows) : b.rows[l[x].start + j] = Resolved(l, x, n + 1)[j]
    BY BoundParts
  <2> QED BY <2>1
<1>2. m \in Nat /\ h \in Nat \ {0} /\ DOMAIN d.steps = 1 .. h
  <2>1. Cardinality(Builds(l)) \in Nat
    BY BuildsAreFinite
  <2>2. h \in 1 .. 32 /\ DOMAIN d.steps = 1 .. h
    BY StepForms
  <2>3. \A x \in 1 .. 32 : x \in Nat \ {0}
    OBVIOUS
  <2>4. h \in Nat \ {0}
    BY <2>2, <2>3
  <2>5. m \in Nat
    BY <2>1
  <2> QED BY <2>2, <2>4, <2>5
<1>3. Len(l) = h /\ l # <<>> /\ \A i \in 1 .. h : l[i] \in Entry
  <2>1. Len(l) = h
    BY DEF EntriesOf
  <2> HIDE DEF Entry, h
  <2> QED BY <2>1, <1>2
<1>4. /\ l[1].start = 0 /\ total = l[h].start + Len(l[h].rows)
      /\ \A i \in 1 .. h - 1 : l[i + 1].start = l[i].start + Len(l[i].rows)
  BY <1>3 DEF Chained
<1> HIDE DEF links, h, m
<1>5. DOMAIN links = 1 .. h
  <2> HIDE DEF BoundLink
  <2> QED BY <1>1
<1>6. \A i \in 1 .. h : st[i] = l[i].start /\ st[i] \in Nat
  <2>1. \A i \in 1 .. h : l[i].start \in Nat
    BY <1>3 DEF Entry
  <2> QED BY <2>1
<1> HIDE DEF st
<1>7. st[1] = 0 /\ \A i \in 1 .. h - 1 : st[i + 1] = st[i] + links[i].count
  <2>1. 1 \in 1 .. h
    BY <1>2
  <2>2. \A i \in 1 .. h - 1 : i \in 1 .. h /\ i + 1 \in 1 .. h
    BY <1>2
  <2> QED BY <2>1, <2>2, <1>1, <1>4, <1>6
<1>8. \A k \in 0 .. h : /\ k + 1 <= h => Before(links, k + 1) = st[k + 1]
                        /\ k # 0 => Before(links, k + 1) = st[k] + links[k].count
  <2>1. h \in Nat /\ h = Len(links) /\ \A i \in 1 .. h : st[i] \in Nat
    BY <1>1, <1>2, <1>6
  <2>2. StartsAre(st, links, h)
    BY <2>1, <1>7 DEF StartsAre
  <2> HIDE DEF BoundLink
  <2>3. \A k \in 0 .. h : BeforeAt(st, links, h, k)
    BY <2>1, <2>2, <1>1, <1>2, BeforeIsStart
  <2> QED BY <2>3 DEF BeforeAt
<1>9. ASSUME NEW i \in DOMAIN links PROVE links[i].start = Before(links, i)
  <2>1. i \in 1 .. h /\ i - 1 \in 0 .. h /\ (i - 1) + 1 = i /\ (i - 1) + 1 <= h
    BY <1>2, <1>5
  <2>2. Before(links, (i - 1) + 1) = st[(i - 1) + 1]
    BY <2>1, <1>8
  <2> QED BY <2>1, <2>2, <1>1, <1>6
<1>10. Before(links, h + 1) = total
  <2>1. h \in 0 .. h /\ h # 0 /\ h \in 1 .. h
    BY <1>2
  <2>2. Before(links, h + 1) = st[h] + links[h].count
    BY <2>1, <1>8
  <2> QED BY <2>1, <2>2, <1>1, <1>4, <1>6
<1> QED BY <1>1, <1>5, <1>9, <1>10 DEF links, h

\* Every build has a job of its own.
LEMMA JobsAreApart ==
  ASSUME NEW l \in Seq(Entry), NEW first \in Nat, NEW i \in DOMAIN l, NEW k \in DOMAIN l, k # i,
         JobOf(l, i, first) # 0
  PROVE  JobOf(l, k, first) # JobOf(l, i, first)
<1>1. i \in Builds(l)
  BY JobsAreNumbered
<1>2. PICK p \in 1 .. Cardinality(Builds(l)) : NthBuild(l, p) = i /\ JobOf(l, i, first) = first + p - 1
  BY <1>1, JobsAreNumbered
<1>3. CASE k \notin Builds(l)
  BY <1>3, JobsAreNumbered
<1>4. CASE k \in Builds(l)
  <2>1. PICK q \in 1 .. Cardinality(Builds(l)) : NthBuild(l, q) = k /\ JobOf(l, k, first) = first + q - 1
    BY <1>4, JobsAreNumbered
  <2>2. p # q
    BY <1>2, <2>1
  <2>3. first + p - 1 # first + q - 1
    BY <2>2
  <2> QED BY <1>2, <2>1, <2>3
<1> QED BY <1>3, <1>4

\* The store takes what is bound to an accepted script.
LEMMA AcceptedFits ==
  ASSUME MInv, NEW d \in Definitions, CompileForActor(d).ok
  PROVE  LET l == CompileForActor(d).logical
             r == Len(run) + 1
             b == Bind(l, Len(job) + 1)
         IN  StoreTakes(d, b.links, b.rows, WithJobs(d, l, r), WithInline(d, l, r))
<1> DEFINE l == CompileForActor(d).logical
           total == CompileForActor(d).expanded
           r == Len(run) + 1
           b == Bind(l, Len(job) + 1)
           links == b.links
           jobs == WithJobs(d, l, r)
           bps == WithInline(d, l, r)
<1>0. /\ blueprint \in [Keys -> Blueprints] /\ role \in Roles /\ job \in Seq(JobRow) /\ run \in Seq(RunRow)
      /\ Len(run) <= MaxRuns /\ MaxRuns \in Nat
  BY CompilerAssumption DEF MInv, MTyped
<1>1. /\ l \in Seq(Entry) /\ EntriesOf(l, d, role, blueprint, Len(d.steps)) /\ Chained(l, total)
      /\ total \in Nat /\ total <= d.maxExpanded
  BY <1>0, CompiledScript DEF CompileForActor
<1>2. Len(job) \in Nat /\ Len(job) + 1 \in Nat /\ r \in 1 .. MaxRuns + 1 /\ r = Len(run) + 1
  <2>1. Len(job) \in Nat /\ Len(run) \in Nat
    <3> HIDE DEF JobRow, RunRow
    <3> QED BY <1>0
  <2> QED BY <2>1, <1>0
<1> HIDE DEF l, total
<1>3. Len(l) = Len(d.steps) /\ DOMAIN d.steps = 1 .. Len(d.steps) /\ DOMAIN l = 1 .. Len(d.steps)
  <2>1. Len(l) = Len(d.steps) /\ DOMAIN d.steps = 1 .. Len(d.steps)
    BY <1>1, StepForms DEF EntriesOf
  <2> HIDE DEF Entry
  <2> QED BY <2>1, <1>1
<1>4. /\ Len(links) = Len(d.steps) /\ DOMAIN links = 1 .. Len(d.steps)
      /\ \A i \in DOMAIN links : links[i].start = Before(links, i)
      /\ Before(links, Len(links) + 1) = total
  BY ZenonT(60), <1>0, <1>1, <1>2, BoundStarts
<1>5. /\ Len(b.rows) = total
      /\ \A i \in 1 .. Len(d.steps) : /\ links[i].count = Len(l[i].rows)
                                      /\ links[i].job = JobOf(l, i, Len(job) + 1) /\ links[i].pin = l[i].pin
  <2> DEFINE m == Len(job) + Cardinality(Builds(l))
  <2>1. /\ b.links \in Seq(BoundLink(m)) /\ Len(b.links) = Len(d.steps)
        /\ b.rows \in Seq(ScriptRows(d, m)) /\ Len(b.rows) = total
        /\ \A x \in 1 .. Len(d.steps) :
             /\ b.links[x].start = l[x].start /\ b.links[x].count = Len(l[x].rows)
             /\ b.links[x].job = JobOf(l, x, Len(job) + 1) /\ b.links[x].pin = l[x].pin
             /\ l[x].start + Len(l[x].rows) <= total
             /\ \A j \in 1 .. Len(l[x].rows) : b.rows[l[x].start + j] = Resolved(l, x, Len(job) + 1)[j]
    <3>1. blueprint \in [Keys -> Blueprints] /\ role \in Roles
      BY <1>0
    <3>2. l \in Seq(Entry) /\ EntriesOf(l, d, role, blueprint, Len(d.steps)) /\ Chained(l, total)
      BY <1>1
    <3>3. Len(job) \in Nat
      BY <1>2
    <3> QED BY ZenonT(60), <3>1, <3>2, <3>3, BoundParts
  <2> QED BY <2>1
<1>6. ASSUME NEW i \in DOMAIN links
      PROVE  /\ links[i].count >= 1
             /\ (d.steps[i].op = "build") <=> (links[i].job # 0)
             /\ \A k \in DOMAIN links : k # i /\ links[i].job # 0 => links[k].job # links[i].job
             /\ links[i].job # 0 => /\ links[i].job \in DOMAIN jobs
                                    /\ JobMatchesStep(d.steps[i], links[i], jobs, bps)
  <2>1. i \in 1 .. Len(d.steps) /\ i \in DOMAIN d.steps /\ i \in DOMAIN l
    BY <1>3, <1>4
  <2>2. links[i].count = Len(l[i].rows) /\ links[i].job = JobOf(l, i, Len(job) + 1) /\ links[i].pin = l[i].pin
    BY <2>1, <1>5
  <2>3. Len(l[i].rows) >= 1
    BY <2>1, <1>0, <1>1, EntryFacts
  <2>4. d.steps[i].op = "build" <=> i \in Builds(l)
    BY <2>1, <1>0, <1>1, EntryFacts
  <2>5. i \notin Builds(l) => JobOf(l, i, Len(job) + 1) = 0
    BY <2>1, <1>1, <1>2, JobsAreNumbered
  <2>6. ASSUME i \in Builds(l)
        PROVE  /\ JobOf(l, i, Len(job) + 1) \in DOMAIN jobs /\ JobOf(l, i, Len(job) + 1) # 0
               /\ jobs[JobOf(l, i, Len(job) + 1)] = NewJob(KeyOf(d, i, r), l[i].pin, r)
               /\ bps[jobs[JobOf(l, i, Len(job) + 1)].of] = l[i].pin
    <3> HIDE DEF r
    <3> QED BY <2>6, <1>0, <1>1, <1>2, NewJobsHold
  <2>7. ASSUME NEW k \in DOMAIN links, k # i, links[i].job # 0
        PROVE  links[k].job # links[i].job
    <3>1. k \in DOMAIN l /\ links[k].job = JobOf(l, k, Len(job) + 1)
      BY <1>3, <1>4, <1>5
    <3> QED BY <3>1, <2>1, <2>2, <2>7, <1>1, <1>2, JobsAreApart
  <2>8. ASSUME i \in Builds(l) PROVE JobMatchesStep(d.steps[i], links[i], jobs, bps)
    <3> DEFINE of == jobs[links[i].job].of
    <3>1. of = KeyOf(d, i, r) /\ bps[of] = links[i].pin
      BY <2>2, <2>6, <2>8 DEF NewJob
    <3>2. d.steps[i].named => of = d.steps[i].name
      BY <3>1 DEF KeyOf
    <3>3. ~d.steps[i].named => links[i].pin = d.steps[i].content
      <4>1. d.steps[i].op = "build"
        BY <2>4, <2>8
      <4>2. ~d.steps[i].named => l[i].pin = d.steps[i].content
        BY <4>1, <2>1, <1>0, <1>1, EntryFacts
      <4> QED BY <4>2, <2>2
    <3> QED BY <3>1, <3>2, <3>3 DEF JobMatchesStep
  <2>9. links[i].count >= 1
    BY <2>2, <2>3
  <2>10. (d.steps[i].op = "build") <=> (links[i].job # 0)
    BY <2>2, <2>4, <2>5, <2>6
  <2>11. links[i].job # 0 => links[i].job \in DOMAIN jobs /\ JobMatchesStep(d.steps[i], links[i], jobs, bps)
    BY <2>2, <2>5, <2>6, <2>8
  <2> QED BY <2>7, <2>9, <2>10, <2>11
<1>7. \A i \in DOMAIN links : RowsFit(d.steps[i], links[i], b.rows)
  <2> SUFFICES ASSUME NEW i \in DOMAIN links PROVE RowsFit(d.steps[i], links[i], b.rows)
    OBVIOUS
  <2>1. i \in DOMAIN d.steps
    BY <1>3, <1>4
  <2> QED BY <2>1, <1>0, <1>1, <1>2, BoundRowsFit
<1>8. LinksFit(d, links, jobs, bps)
  <2>1. Before(links, Len(links) + 1) <= d.maxExpanded
    BY <1>1, <1>4
  <2> HIDE DEF b, jobs, bps
  <2> QED BY <2>1, <1>4, <1>6 DEF LinksFit
<1>9. StoreTakes(d, links, b.rows, jobs, bps)
  <2> HIDE DEF b, jobs, bps
  <2> QED BY <1>4, <1>5, <1>7, <1>8 DEF StoreTakes
<1> QED BY <1>9 DEF l

LEMMA TakenWhenAccepted ==
  ASSUME MInv
  PROVE  AcceptedIsTaken
<1> SUFFICES ASSUME NEW d \in Definitions, CompileForActor(d).ok, live # "none",
                    \A i \in Builds(CompileForActor(d).logical) :
                      CompileForActor(d).logical[i].pin.sourced =>
                        CompileForActor(d).logical[i].pin.version = Configured /\ live = Configured
             PROVE  Taken(d, CompileForActor(d).logical)
  BY DEF AcceptedIsTaken
<1> DEFINE l == CompileForActor(d).logical
<1>1. blueprint \in [Keys -> Blueprints] /\ role \in Roles
  BY DEF MInv, MTyped
<1>2. l \in Seq(Entry) /\ EntriesOf(l, d, role, blueprint, Len(d.steps))
  BY <1>1, CompiledScript DEF CompileForActor
<1>3. \A i \in Builds(l) : l[i].pin.sourced => l[i].pin.version = Configured /\ live = Configured
  OBVIOUS
<1>4. LET r == Len(run) + 1
          b == Bind(l, Len(job) + 1)
      IN  StoreTakes(d, b.links, b.rows, WithJobs(d, l, r), WithInline(d, l, r))
  BY AcceptedFits
<1> HIDE DEF l
<1>5. ASSUME NEW i \in Builds(l) PROVE SourceAccess(l[i].pin)
  <2>1. i \in DOMAIN d.steps
    <3>1. Builds(l) \in SUBSET (1 .. Len(l)) /\ Len(l) = Len(d.steps)
      BY <1>2, BuildsAreFinite DEF EntriesOf
    <3> QED BY <3>1, StepForms
  <2>2. d.steps[i].op = "build"
    BY <2>1, <1>1, <1>2, <1>5, EntryFacts
  <2>3. Rank(role) >= Rank(l[i].pin.role)
    BY <2>1, <2>2, <1>1, <1>2, EntryFacts
  <2> QED BY <2>3, <1>3 DEF SourceAccess, RoleMeetsSource
<1> QED BY <1>4, <1>5 DEF Taken, l

LEMMA ScriptsAreJudged ==
  ASSUME MInv
  PROVE  AcceptedExactly /\ AcceptedIsTaken
<1>1. role \in Roles /\ blueprint \in [Keys -> Blueprints]
  BY DEF MInv, MTyped
<1> QED BY <1>1, AcceptedByItsSums, TakenWhenAccepted

\* The two sides of Plans keep their own invariants.
PlansIInv == /\ MInv /\ (asked = "design" => OpsIInv)
             /\ (asked = "script" => DOMAIN canvas = {} /\ site = NoSite)

LEMMA PlansInitKeeps == PlansInit => PlansIInv
BY MInvInit, OpsInitKeeps DEF PlansInit, PlansIInv

LEMMA PlansNextKeeps == PlansIInv /\ [PlansNext]_<<asked, vars, opsVars>> => PlansIInv'
<1> SUFFICES ASSUME PlansIInv, [PlansNext]_<<asked, vars, opsVars>> PROVE PlansIInv'
  OBVIOUS
<1>1. CASE asked = "script" /\ Next /\ UNCHANGED <<asked, opsVars>>
  <2>1. MInv'
    BY <1>1, MNextHolds DEF PlansIInv, StepHolds
  <2> QED BY <2>1, <1>1 DEF PlansIInv, opsVars
<1>2. CASE asked = "design" /\ OpsNext /\ UNCHANGED <<asked, vars>>
  <2>1. MInv'
    BY <1>2, MInvStutters DEF PlansIInv
  <2>2. OpsIInv'
    BY <1>2, OpsNextKeeps DEF PlansIInv
  <2> QED BY <2>1, <2>2, <1>2 DEF PlansIInv
<1>3. CASE UNCHANGED <<asked, vars, opsVars>>
  <2>1. MInv'
    BY <1>3, MInvStutters DEF PlansIInv
  <2>2. OpsIInv => OpsIInv'
    BY <1>3, OpsNextKeeps
  <2> QED BY <2>1, <2>2, <1>3 DEF PlansIInv, opsVars
<1> QED BY <1>1, <1>2, <1>3 DEF PlansNext

LEMMA PlansInvariance == PlansSpec => []PlansIInv
BY PlansInitKeeps, PlansNextKeeps, PTL DEF PlansSpec

\* ScriptsAreJudgedOnce: a script of any length is accepted exactly when each of
\* its steps is and the sums of their rows and changes are within its limits
\* (compileMissionDefinition), and an accepted one is taken by the store as its
\* binder numbers it (AcceptedExactly and AcceptedIsTaken).
THEOREM JudgedOnce == PlansSpec => []ScriptsAreJudgedOnce
<1>1. PlansIInv => ScriptsAreJudgedOnce
  BY ScriptsAreJudged DEF PlansIInv, ScriptsAreJudgedOnce
<1> QED BY <1>1, PlansInvariance, PTL
=============================================================================
