---------------------------- MODULE BuildGeometry ----------------------------
(***************************************************************************)
(* The shapes of a build definition and the ways a design is turned        *)
(* (src/construction/buildOps/compiler.ts, canvas.ts, geometry.ts,         *)
(* ascii.ts) and the ways a finished blueprint is turned when it is placed *)
(* (src/construction/site.ts, verifier.ts, buildBlueprint.ts).             *)
(*                                                                         *)
(* A cell is <<x, y, z>> with y upwards, north is -z and east is +x.       *)
(* A design is a function from cells to what is to be placed there.        *)
(***************************************************************************)
EXTENDS Integers, Sequences, FiniteSets

Cell == Int \X Int \X Int

Lo(a, b)  == IF a <= b THEN a ELSE b
Hi(a, b)  == IF a <= b THEN b ELSE a
Abs(n)    == IF n < 0 THEN -n ELSE n
Plus(c, d) == <<c[1] + d[1], c[2] + d[2], c[3] + d[3]>>

(* The cells between two corners, both included.                           *)
InBounds(c, from, to) ==
  \A i \in 1 .. 3 : Lo(from[i], to[i]) <= c[i] /\ c[i] <= Hi(from[i], to[i])

Bounds(from, to) ==
  (Lo(from[1], to[1]) .. Hi(from[1], to[1])) \X (Lo(from[2], to[2]) .. Hi(from[2], to[2]))
    \X (Lo(from[3], to[3]) .. Hi(from[3], to[3]))

-----------------------------------------------------------------------------
(* Shapes.                                                                 *)

(* Along how many axes the cell is on a side of the box.                   *)
BoundaryAxes(c, from, to) == Cardinality({i \in 1 .. 3 : c[i] \in {from[i], to[i]}})

Box(from, to, mode) ==
  LET sides == CASE mode = "solid" -> 0 [] mode = "hollow" -> 1 [] mode = "outline" -> 2
  IN  {c \in Bounds(from, to) : BoundaryAxes(c, from, to) >= sides}

Walls(from, to, thickness) ==
  {c \in Bounds(from, to) :
     \E i \in {1, 3} : \/ c[i] - Lo(from[i], to[i]) < thickness
                       \/ Hi(from[i], to[i]) - c[i] < thickness}

Floor(from, to) == {c \in Bounds(from, to) : c[2] = Lo(from[2], to[2])}

(* Circles: distances are compared with r + 1/2 and r - 1/2; here twice    *)
(* the distance, squared.                                                  *)
Square(r) == (-r .. r) \X (-r .. r)
Distance4(p) == 4 * (p[1] * p[1] + p[2] * p[2])

DiscOffsets(r) == {p \in Square(r) : Distance4(p) <= (2 * r + 1) * (2 * r + 1)}

(* Mutant of RingOffsets: the inner bound is the radius itself.            *)
RingOfTheRadius(r) ==
  {p \in Square(r) : /\ Distance4(p) <= (2 * r + 1) * (2 * r + 1)
                     /\ Distance4(p) >= 4 * r * r}

RingOffsets(r) ==
  {p \in Square(r) : /\ Distance4(p) <= (2 * r + 1) * (2 * r + 1)
                     /\ Distance4(p) >= (2 * r - 1) * (2 * r - 1)}

Cylinder(center, r, height, mode) ==
  {Plus(center, <<p[1], y, p[2]>>) :
     p \in IF mode = "filled" THEN DiscOffsets(r) ELSE RingOffsets(r), y \in 0 .. height - 1}

(* The height above each point of the base rises from the eaves to the     *)
(* ridge, rounded to the nearest block.                                    *)
GableRoof(from, to, ridge) ==
  LET i    == IF ridge = "x" THEN 3 ELSE 1
      half == (Hi(from[i], to[i]) - Lo(from[i], to[i])) \div 2
      rise == Hi(from[2], to[2]) - Lo(from[2], to[2])
      fromEave(c) == Lo(c[i] - Lo(from[i], to[i]), Hi(from[i], to[i]) - c[i])
      height(c) == IF half = 0 THEN rise ELSE (2 * rise * fromEave(c) + half) \div (2 * half)
  IN  {c \in Bounds(from, to) : c[2] = Lo(from[2], to[2]) + Lo(rise, height(c))}

(* sqrt(n) <= sqrt(m) + 0.35 in whole numbers, for n and m of at most some *)
(* thousands; sqrt(n) >= sqrt(m) - 0.35 is RootNear(m, n).                 *)
RootNear(n, m) ==
  LET excess == 400 * (n - m) - 49
  IN  excess <= 0 \/ (excess <= 280 * 33 /\ excess * excess <= 78400 * m)

Dome(center, r, mode, thickness) ==
  LET innerRadius == Hi(0, r - thickness)
      outer(y) == r * r - y * y
      shell(h, y) == \/ mode = "filled" \/ y >= innerRadius
                     \/ RootNear(innerRadius * innerRadius - y * y, h)
  IN  {Plus(center, c) : c \in
         {c \in (-r .. r) \X (0 .. r) \X (-r .. r) :
            LET h == c[1] * c[1] + c[3] * c[3]
            IN  RootNear(h, outer(c[2])) /\ shell(h, c[2])}}

(* The cells of one drawing, row by row about the middle of the sheet.     *)
LayerCells(y, rows) ==
  {<<i - 1 - (Len(rows[1]) \div 2), y, k - 1 - (Len(rows) \div 2)>> :
     i \in DOMAIN rows[1], k \in DOMAIN rows}

CharacterAt(rows, c) ==
  rows[c[3] + 1 + (Len(rows) \div 2)][c[1] + 1 + (Len(rows[1]) \div 2)]

-----------------------------------------------------------------------------
(* Facings and turns of a definition's own operations (geometry.ts).       *)

Cardinals == {"north", "east", "south", "west"}
Facings   == Cardinals \cup {"none"}  \* "none": no facing is asked for

RotateFacing(f) ==
  CASE f = "north" -> "east" [] f = "east" -> "south" [] f = "south" -> "west"
    [] f = "west" -> "north" [] f = "none" -> "none"

TurnFacing(f, turns) ==
  CASE turns = 0 -> f
    [] turns = 1 -> RotateFacing(f)
    [] turns = 2 -> RotateFacing(RotateFacing(f))
    [] turns = 3 -> RotateFacing(RotateFacing(RotateFacing(f)))

MirrorFacing(f, axis) ==
  CASE axis = "x" /\ f = "east"  -> "west"
    [] axis = "x" /\ f = "west"  -> "east"
    [] axis = "z" /\ f = "north" -> "south"
    [] axis = "z" /\ f = "south" -> "north"
    [] OTHER -> f

Quarter(p) == <<-p[2], p[1]>>

TurnOffset(p, turns) ==
  CASE turns = 0 -> p
    [] turns = 1 -> Quarter(p)
    [] turns = 2 -> Quarter(Quarter(p))
    [] turns = 3 -> Quarter(Quarter(Quarter(p)))

RotateCell(c, pivot, turns) ==
  LET p == TurnOffset(<<c[1] - pivot[1], c[3] - pivot[3]>>, turns)
  IN  <<pivot[1] + p[1], c[2], pivot[3] + p[2]>>

MirrorCell(c, pivot, axis) ==
  IF axis = "x" THEN <<2 * pivot[1] - c[1], c[2], c[3]>>
  ELSE <<c[1], c[2], 2 * pivot[3] - c[3]>>

(* Where an operation takes a cell and what it asks for there.             *)
MovedCell(op, c) ==
  CASE op.op = "copy"   -> Plus(c, op.offset)
    [] op.op = "rotate" -> RotateCell(c, op.pivot, op.turns)
    [] op.op = "mirror" -> MirrorCell(c, op.pivot, op.axis)

MovedFacing(op, f) ==
  CASE op.op = "copy"   -> f
    [] op.op = "rotate" -> TurnFacing(f, op.turns)
    [] op.op = "mirror" -> MirrorFacing(f, op.axis)

-----------------------------------------------------------------------------
(* Turning a finished blueprint: site.ts turns positions; site.ts,         *)
(* verifier.ts and buildBlueprint.ts each turn facings, by an index into   *)
(* the same list.                                                          *)

Rotations == {0, 90, 180, 270}
Clockwise == <<"north", "east", "south", "west">>
IndexOf(f) == CHOOSE i \in 1 .. 4 : Clockwise[i] = f

RotateBlueprintOffset(p, rotation) ==
  CASE rotation = 0   -> p
    [] rotation = 90  -> <<-p[2], p[1]>>
    [] rotation = 180 -> <<-p[1], -p[2]>>
    [] rotation = 270 -> <<p[2], -p[1]>>

WorldPosition(c, origin, rotation) ==
  LET p == RotateBlueprintOffset(<<c[1], c[3]>>, rotation)
  IN  <<origin[1] + p[1], origin[2] + c[2], origin[3] + p[2]>>

(* Mutant of RotateCardinal: the list is walked the other way.             *)
RotateBack(f, rotation) ==
  IF f = "none" THEN f ELSE Clockwise[((IndexOf(f) - 1 + 4 - rotation \div 90) % 4) + 1]

RotateCardinal(f, rotation) ==
  IF f = "none" THEN f ELSE Clockwise[((IndexOf(f) - 1 + rotation \div 90) % 4) + 1]

(* The cell in front of one that faces f.                                  *)
Ahead(f) ==
  CASE f = "north" -> <<0, 0, -1>> [] f = "east" -> <<1, 0, 0>>
    [] f = "south" -> <<0, 0, 1>>  [] f = "west" -> <<-1, 0, 0>> [] f = "none" -> <<0, 0, 0>>

-----------------------------------------------------------------------------
(* Stairs that wind about a centre.  Only those are described of which     *)
(* each step is at a whole number of quarter turns.                        *)

OnQuarters(height, turns) == height = 1 \/ (4 * turns) % (height - 1) = 0

Direction(clockwise) == IF clockwise THEN -1 ELSE 1

QuarterOf(step, height, turns) ==
  IF height = 1 THEN 0 ELSE ((4 * turns * step) \div (height - 1)) % 4

(* <<cos, sin>> at q quarter turns.                                        *)
Unit(q, clockwise) ==
  CASE q = 0 -> <<1, 0>> [] q = 1 -> <<0, Direction(clockwise)>>
    [] q = 2 -> <<-1, 0>> [] q = 3 -> <<0, -Direction(clockwise)>>

FacingFromTangent(t) ==
  IF Abs(t[1]) > Abs(t[2]) THEN (IF t[1] > 0 THEN "east" ELSE "west")
  ELSE IF t[2] > 0 THEN "south" ELSE "north"

SpiralCell(op, step) ==
  LET u == Unit(QuarterOf(step, op.height, op.turns), op.clockwise)
  IN  Plus(op.center, <<u[1] * op.radius, step, u[2] * op.radius>>)

SpiralFacing(op, step) ==
  LET u == Unit(QuarterOf(step, op.height, op.turns), op.clockwise)
      d == Direction(op.clockwise)
  IN  FacingFromTangent(<<-u[2] * d, u[1] * d>>)

=============================================================================
