----------------------------- MODULE MCBuildOps ------------------------------
(* Operations, layers and looks for TLC.                                   *)
EXTENDS BuildOps, TLC

MCNormalize ==
  [stone |-> "stone", planks |-> "planks", plank |-> "planks", tnt |-> "tnt",
   fern |-> "fern", oak_stairs |-> "oak_stairs", air |-> "refused"]

Put(at, b)      == [op |-> "put", at |-> at, block |-> b]
Boxed(mode)     == [op |-> "box", from |-> <<1, 1, 1>>, to |-> <<-1, 0, 0>>, block |-> "plank", mode |-> mode]
Round(op, r)    == [op |-> op, center |-> <<0, 0, 0>>, radius |-> r, block |-> "stone",
                    height |-> 2, mode |-> "hollow", thickness |-> 1]
Spiral(at, height, clockwise) ==
  [op |-> "spiralStairs", center |-> at, radius |-> 1, height |-> height, turns |-> 1,
   clockwise |-> clockwise, block |-> "oak_stairs"]
In(op, from, to) == [op |-> op, from |-> from, to |-> to]
All == [from |-> <<-2, -2, -2>>, to |-> <<2, 2, 2>>]

MCOps ==
  {Put(<<0, 0, 0>>, "stone"), Put(<<1, 1, 0>>, "tnt"), Put(<<0, 0, 1>>, "fern"),
   Put(<<0, 0, 0>>, "air"),
   Boxed("hollow"), Boxed("outline"),
   [op |-> "walls", from |-> <<-1, 0, -1>>, to |-> <<1, 0, 1>>, thickness |-> 1, block |-> "stone"],
   [op |-> "floor", from |-> <<-2, 1, 0>>, to |-> <<0, 1, 1>>, block |-> "planks"],
   [op |-> "gableRoof", from |-> <<-1, 0, -2>>, to |-> <<1, 2, 2>>, ridge |-> "x", block |-> "stone"],
   Round("cylinder", 1), Round("disc", 1), Round("ring", 2), Round("ring", 13), Round("dome", 1),
   Spiral(<<0, -2, 0>>, 5, TRUE), Spiral(<<0, 0, 0>>, 1, FALSE), Spiral(<<1, 0, 0>>, 2, FALSE),
   In("punch", <<0, 0, 0>>, <<2, -2, 1>>),
   In("window", <<-1, 0, -1>>, <<1, 1, 0>>) @@ [block |-> "planks"],
   All @@ [op |-> "copy", offset |-> <<1, 0, 0>>],
   All @@ [op |-> "rotate", pivot |-> <<1, 0, 0>>, turns |-> 1],
   All @@ [op |-> "rotate", pivot |-> <<0, 0, 0>>, turns |-> 2],
   All @@ [op |-> "mirror", pivot |-> <<0, 0, 1>>, axis |-> "x"],
   All @@ [op |-> "mirror", pivot |-> <<1, 0, 0>>, axis |-> "z"]}

Palette == [s |-> "stone", f |-> "fern", a |-> "air"]
MCLayers ==
  {[y |-> 0, rows |-> <<<<"s", ".">>, <<".", "f">>>>, palette |-> Palette],
   [y |-> 1, rows |-> <<<<"s", "s", "f">>>>, palette |-> Palette],
   [y |-> 1, rows |-> <<<<"a">>>>, palette |-> Palette],
   [y |-> 0, rows |-> <<<<".">>>>, palette |-> Palette]}

Look(name, facing, half, solid) == [name |-> name, facing |-> facing, half |-> half, solid |-> solid]
MCLooks ==
  {Unloaded, Look("air", "none", "none", FALSE), Look("stone", "none", "none", TRUE),
   Look("fern", "none", "none", FALSE), Look("oak_stairs", "north", "bottom", TRUE),
   Look("oak_stairs", "east", "bottom", TRUE)}


MCMinCoordinate == -2  \* a .cfg has no negative numbers

==============================================================================
