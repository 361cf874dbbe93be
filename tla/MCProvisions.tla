---------------------------- MODULE MCProvisions -----------------------------
(* Worlds and requests for TLC.                                            *)
EXTENDS Provisions, TLC

CONSTANTS store, shed

MCItems ==
  {"oak_log", "oak_planks", "oak_door", "cobblestone", "dirt", "sand", "glass", "coal", "stick",
   "stone_pickaxe", "wooden_pickaxe", "raw_iron", "iron_ingot", "wheat", "wheat_seeds", "carrot",
   "wool"}

Of(f) == [i \in MCItems |-> IF i \in DOMAIN f THEN f[i] ELSE 0]
None  == Of(<<>>)
Empty == [c \in {store, shed} |-> None]

World ==
  [skill |-> "none", item |-> "none", req |-> None, storage |-> "none", reserve |-> 0,
   mission |-> FALSE, direct |-> FALSE, sourced |-> FALSE, room |-> 60, table |-> TRUE,
   furnace |-> TRUE, inv |-> None, chest |-> Empty, index |-> Empty,
   ground |-> [stone |-> 4, dirt |-> 3, sand |-> 12, coal_ore |-> 3, iron_ore |-> 3],
   trees |-> <<3, 2, 4>>, field |-> <<>>, faults |-> 0, aborts |-> FALSE, held |-> FALSE]

Building == [World EXCEPT !.skill = "prepareBlueprintMaterials"]

\* The arithmetic of doors, planks and logs, and of glass, sand and coal.
Oak ==
  {[Building EXCEPT !.req = Of([oak_log |-> l, oak_planks |-> p, oak_door |-> d]),
                    !.inv = Of([oak_planks |-> q, oak_door |-> e])] :
     l \in 0 .. 1, p \in {0, 1, 2, 4, 5}, d \in {0, 1, 3, 4, 7}, q \in {0, 1, 2, 3, 7}, e \in 0 .. 1}
Glass ==
  {[Building EXCEPT !.req = Of([glass |-> g, sand |-> s]),
                    !.inv = Of([glass |-> h, coal |-> c, stone_pickaxe |-> 1, sand |-> 1])] :
     g \in {0, 1, 8, 9}, s \in {0, 2}, h \in 0 .. 1, c \in 0 .. 1}
  \cup {[Building EXCEPT !.req = Of([glass |-> 1, coal |-> 1, dirt |-> 1]), !.inv = Of([coal |-> 1, sand |-> 1])]}

\* Everything at once, disturbed, with too little of this and that.
Mixed ==
  [Building EXCEPT !.req = Of([oak_planks |-> 2, oak_door |-> 1, cobblestone |-> 2, glass |-> 1]),
                   !.inv = Of([stick |-> 2]), !.aborts = TRUE, !.held = TRUE, !.sourced = TRUE]
Disturbed ==
  {[Mixed EXCEPT !.faults = 1], [Mixed EXCEPT !.held = FALSE, !.faults = 2],
   [Mixed EXCEPT !.direct = TRUE, !.ground["coal_ore"] = 0],
   [Mixed EXCEPT !.trees = <<1>>], [Mixed EXCEPT !.room = 9], [Mixed EXCEPT !.table = FALSE],
   [Mixed EXCEPT !.furnace = FALSE, !.faults = 1],
   [Building EXCEPT !.req = Of([oak_planks |-> 8, dirt |-> 4]), !.faults = 2, !.aborts = TRUE],
   [Building EXCEPT !.req = Of([wool |-> 1])]}

Kept(s, d) == [c \in {store, shed} |-> Of(IF c = store THEN s ELSE d)]
Stored2 ==
  [Building EXCEPT !.req = Of([dirt |-> 3, oak_planks |-> 4]), !.storage = store, !.aborts = TRUE,
                   !.chest = Kept([dirt |-> 2, oak_planks |-> 3], [dirt |-> 1]),
                   !.index = Kept([dirt |-> 3, oak_planks |-> 3], [dirt |-> 1]),
                   !.faults = 1, !.held = TRUE]
Stocked == {Stored2, [Stored2 EXCEPT !.mission = TRUE],
            [Stored2 EXCEPT !.mission = TRUE, !.req = Of([dirt |-> 2])]}

Supplied1 ==
  [World EXCEPT !.skill = "supplyContainer", !.item = "iron_ingot", !.storage = store,
                !.req = Of([iron_ingot |-> 3]), !.aborts = TRUE, !.faults = 2,
                !.inv = Of([iron_ingot |-> 1, cobblestone |-> 3, stick |-> 2]),
                !.chest = Kept(<<>>, [iron_ingot |-> 1, raw_iron |-> 1]),
                !.index = Kept([iron_ingot |-> 1], [iron_ingot |-> 1, raw_iron |-> 1])]
Supply2 ==
  {Supplied1, [Supplied1 EXCEPT !.req = Of([iron_ingot |-> 1])],
   [Supplied1 EXCEPT !.req = Of([iron_ingot |-> 2])],
   [Supplied1 EXCEPT !.inv = Of([wheat |-> 1, wheat_seeds |-> 1]), !.item = "wheat",
                     !.req = Of([wheat |-> 2])]}

Restocked ==
  {[World EXCEPT !.skill = "restockInventory", !.req = Of([dirt |-> 2, coal |-> 1]), !.storage = s,
                 !.chest = Kept([dirt |-> 1], [dirt |-> 1, coal |-> 1]),
                 !.index = Kept([dirt |-> 1], [dirt |-> 1, coal |-> 1]),
                 !.aborts = TRUE, !.faults = 1] : s \in {"none", store}}

Harvested ==
  {[World EXCEPT !.skill = "harvestFarm", !.item = crop, !.storage = s, !.reserve = 1,
                 !.inv = Of([i \in {Seed(crop)} |-> n]), !.field = <<"ripe", "sown", "ripe", "ripe">>,
                 !.aborts = TRUE, !.faults = 2] :
     crop \in {"wheat", "carrot"}, n \in 0 .. 1, s \in {"none", store}}

MCScenarios == Oak \cup Glass \cup Disturbed \cup Stocked \cup Supply2 \cup Restocked \cup Harvested

==============================================================================
