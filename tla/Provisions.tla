----------------------------- MODULE Provisions -----------------------------
(***************************************************************************)
(* Where building material and stock come from: the composite skills       *)
(* prepareBlueprintMaterials, supplyContainer, restockInventory and        *)
(* harvestFarm, and the skills they delegate to (retrieveItem,             *)
(* scanContainer, chestDeposit, mineUntil, chopTrees, craftItem,           *)
(* ensureTool, equipBestTool, smeltItem).                                  *)
(*                                                                         *)
(* A handler is a stack of frames, one per skill that awaits another: the  *)
(* top one runs.  Between two awaits JavaScript runs alone, so the world   *)
(* (an abort, another player, the control plane) acts only at an await.    *)
(* A frame's "at" names the place in the skill's code; the ones in Awaits  *)
(* are awaits.  A skill's answer is its code, "OK" for ok: true.           *)
(***************************************************************************)
EXTENDS Integers, Sequences, FiniteSets, SequencesExt

CONSTANTS
  Items,       \* item names
  Chests,      \* remembered containers
  Blocks,      \* block names that are mined
  Scenarios,   \* what a handler is asked, in which world, with how many faults
  MaxTries     \* handlers of one scenario, one after the other

Amounts == [Items -> Nat]

(* A request in a world.  The name "none" stands for an argument that the *)
(* skill does not have.                                                    *)
Scenario ==
  [skill : {"prepareBlueprintMaterials", "supplyContainer", "restockInventory", "harvestFarm"},
   item : Items \cup {"none"}, req : Amounts, storage : Chests \cup {"none"}, reserve : Nat,
   mission : BOOLEAN, direct : BOOLEAN, sourced : BOOLEAN, room : Nat, table : BOOLEAN, furnace : BOOLEAN,
   inv : Amounts, chest : [Chests -> Amounts], index : [Chests -> Amounts], ground : [Blocks -> Nat],
   trees : Seq(Nat), field : Seq({"ripe", "sown"}), faults : Nat, aborts : BOOLEAN, held : BOOLEAN]

ASSUME ProvisionsAssumption ==
  /\ MaxTries \in Nat
  /\ {"oak_log", "oak_planks", "oak_door", "cobblestone", "dirt", "sand", "glass", "coal", "stick",
      "stone_pickaxe", "wooden_pickaxe", "raw_iron", "iron_ingot"} \subseteq Items
  /\ {"stone", "dirt", "sand", "coal_ore", "iron_ore"} \subseteq Blocks
  /\ {"any", "none"} \cap Chests = {}
  /\ Scenarios \subseteq Scenario
  /\ \A s \in Scenarios :
       /\ s.skill = "supplyContainer" => s.item \in Items /\ s.storage # "none"
       /\ s.skill = "harvestFarm" => s.item \in Items /\ (s.item = "wheat" => "wheat_seeds" \in Items)

VARIABLES
  scene,    \* the scenario
  stack,    \* the frames of the handler, the running skill last
  result,   \* what the last skill answered
  inv,      \* the bot's inventory: item -> count
  chest,    \* what stands in the containers
  index,    \* container_items: what the last look at a container saw
  ground,   \* minable blocks in reach
  trees,    \* logs of each tree in reach
  furnace,  \* input, operations of fuel left, output
  field,    \* the farm's cells: "ripe", "bare", "sown", or "spoilt" soil
  aborted,  \* the handler's signal
  job,      \* the construction job: its status, its plan, whether the source is allowed
  faults,   \* failures and interferences still to come
  late,     \* effects of the handler after its signal was aborted
  tries     \* handlers started

vars == <<scene, stack, result, inv, chest, index, ground, trees, furnace, field,
          aborted, job, faults, late, tries>>
world == <<inv, chest, index, ground, trees, furnace, field>>

Nothing == [i \in Items |-> 0]
Least(a, b) == IF a < b THEN a ELSE b
Most(a, b) == IF a > b THEN a ELSE b
Upwards(a, b) == (a + b - 1) \div b     \* Math.ceil(a / b)

-----------------------------------------------------------------------------
(***************************************************************************)
(* What the skills know of Minecraft.                                      *)
(***************************************************************************)
\* Recipes the crafting skills meet: ingredients of one craft, what it makes,
\* and whether it takes a table.
Recipe(i) ==
  CASE i = "oak_planks"     -> [uses |-> [Nothing EXCEPT !["oak_log"] = 1], makes |-> 4, table |-> FALSE]
    [] i = "oak_door"       -> [uses |-> [Nothing EXCEPT !["oak_planks"] = 6], makes |-> 3, table |-> TRUE]
    [] i = "stone_pickaxe"  -> [uses |-> [Nothing EXCEPT !["cobblestone"] = 3, !["stick"] = 2],
                                makes |-> 1, table |-> TRUE]
    [] i = "wooden_pickaxe" -> [uses |-> [Nothing EXCEPT !["oak_planks"] = 3, !["stick"] = 2],
                                makes |-> 1, table |-> TRUE]

Tiers == <<"stone_pickaxe", "wooden_pickaxe">>

FuelOperations == 8    \* of a piece of coal

\* chestDeposit's filter: item.name.includes(filter).
Includes(name, filter) ==
  \/ name = filter
  \/ <<name, filter>> \in {<<"cobblestone", "stone">>, <<"stone_pickaxe", "stone">>,
                           <<"poisonous_potato", "potato">>, <<"wheat_seeds", "wheat">>}

SmeltingRecipe(i) ==
  CASE i = "iron_ingot" -> [input |-> "raw_iron", block |-> "iron_ore"]
    [] i = "stone"      -> [input |-> "cobblestone", block |-> "stone"]
Smelted == {"iron_ingot", "stone"} \cap Items

\* CROP_RULES: what is planted and what is reaped.
Seed(crop)   == IF crop = "wheat" THEN "wheat_seeds" ELSE crop
Reaped(crop) == crop

\* estimateInventorySpace(): the room left, in pieces.
Carried == FoldFunction(+, 0, inv)
Space == Most(0, scene.room - Carried)

-----------------------------------------------------------------------------
(***************************************************************************)
(* Frames, calls and answers.                                              *)
(***************************************************************************)
Top == stack[Len(stack)]
Runs(skill, at) == stack # <<>> /\ Top.do = skill /\ Top.at = at

Awaits == {"open", "look", "reach", "put", "collect", "craft", "table", "equip", "load", "fuel", "burn",
           "take", "plant"}
Awaiting == stack # <<>> /\ Top.at \in Awaits

Goes(f)       == stack' = Append(Front(stack), f)           \* the frame goes on as f
GoesTo(place) == Goes([Top EXCEPT !.at = place])
Call(f, g)    == stack' = Front(stack) \o <<f, g>>          \* as f it awaits g
Answer(code)  == stack' = Front(stack) /\ result' = code

Frame(skill, item, want) == [do |-> skill, at |-> "call", item |-> item, want |-> want]

Retrieve(i, n, only, except) ==
  [do |-> "retrieveItem", at |-> "call", item |-> i, want |-> n, only |-> only, except |-> except,
   todo |-> {}, have |-> 0]
Scan(c)          == Frame("scanContainer", c, 0)
Deposit(c, i, n) ==
  [do |-> "chestDeposit", at |-> "call", item |-> i, want |-> n, chest |-> c, todo |-> {}, piece |-> <<i, 0>>]
Mine(b, i, n)    ==
  [do |-> "mineUntil", at |-> "call", item |-> i, want |-> n, block |-> b, first |-> 0, have |-> 0]
Chop             == Frame("chopTrees", "oak_log", 1)
Craft(i, n)      == Frame("craftItem", i, n)
Equip(b)         == Frame("equipBestTool", b, 0)
EnsureTool(b)    == [do |-> "ensureTool", at |-> "call", item |-> b, want |-> 0, todo |-> Tiers]
Smelt(i, o, n)   ==
  [do |-> "smeltItem", at |-> "call", item |-> o, want |-> n, input |-> i, need |-> 0, got |-> 0]

\* Something goes wrong, from the scenario's store of faults.
Fault == faults > 0 /\ faults' = faults - 1
NoFault == UNCHANGED faults

\* The running skill does something to the world.
Acts == late' = late + (IF aborted THEN 1 ELSE 0)
Idle == UNCHANGED late

Surroundings == <<scene, aborted, job, tries>>
Thinks == UNCHANGED <<world, Surroundings, faults, late>>     \* nothing but the stack

-----------------------------------------------------------------------------
(***************************************************************************)
(* Containers.                                                             *)
(***************************************************************************)
Interrupted == aborted /\ Answer("INTERRUPTED")

ContainersWith(i) == {c \in Chests : index[c][i] > 0}
Reindex(c) == index' = [index EXCEPT ![c] = chest'[c]]    \* what is seen in it now

RetrieveBegins ==
  /\ Runs("retrieveItem", "call")
  /\ LET held == {c \in ContainersWith(Top.item) : Top.only \in {"any", c} /\ Top.except # c}
     IN IF inv[Top.item] >= Top.want THEN Answer("OK")
        ELSE IF held = {} THEN Answer("NO_MATERIAL")
        ELSE Goes([Top EXCEPT !.at = "next", !.todo = held, !.have = inv[Top.item]])
             /\ UNCHANGED result
  /\ Thinks

\* The loop over the candidates; "have" is what the handler knows it carries.
RetrieveNext ==
  /\ Runs("retrieveItem", "next")
  /\ IF Top.have >= Top.want THEN Answer("OK")
     ELSE IF Top.todo = {} THEN Answer("NO_MATERIAL")
     ELSE IF aborted THEN Answer("INTERRUPTED")
     ELSE \E c \in Top.todo :
            Goes([Top EXCEPT !.at = "open", !.todo = @ \ {c}, !.except = c]) /\ UNCHANGED result
  /\ Thinks

\* From the walk to the chest until it is closed again; the chest is Top.except.
RetrieveTakes ==
  /\ Runs("retrieveItem", "open")
  /\ LET c == Top.except
         n == Least(Top.want - Top.have, chest[c][Top.item])
     IN /\ inv' = [inv EXCEPT ![Top.item] = @ + n]
        /\ chest' = [chest EXCEPT ![c][Top.item] = @ - n]
        /\ Reindex(c)
        /\ Goes([Top EXCEPT !.at = "next", !.have = IF n > 0 THEN inv'[Top.item] ELSE @])
        /\ IF n > 0 THEN Acts ELSE Idle
  /\ UNCHANGED <<result, ground, trees, furnace, field, Surroundings, faults>>

\* Not opened, or the withdrawal throws: the next candidate.
RetrieveFails ==
  /\ Runs("retrieveItem", "open")
  /\ Fault /\ GoesTo("next")
  /\ UNCHANGED <<result, world, Surroundings, late>>

Walks == {<<"retrieveItem", "open">>, <<"scanContainer", "look">>, <<"chestDeposit", "reach">>,
          <<"craftItem", "table">>, <<"smeltItem", "reach">>}

\* pathfindTo() notices the abort.
WalkStops ==
  /\ stack # <<>> /\ <<Top.do, Top.at>> \in Walks
  /\ Interrupted
  /\ Thinks

\* pathfindTo() gives up after its three profiles, or what should be there is not.
WalkFails ==
  /\ stack # <<>> /\ <<Top.do, Top.at>> \in Walks \ {<<"retrieveItem", "open">>}
  /\ Fault /\ Answer("NO_PATH")
  /\ UNCHANGED <<world, Surroundings, late>>

\* A walk is not begun under an aborted signal.
WalkBegins ==
  /\ \/ Runs("scanContainer", "call") /\ (IF aborted THEN Answer("INTERRUPTED")
                                         ELSE GoesTo("look") /\ UNCHANGED result)
     \/ Runs("chestDeposit", "call") /\ (IF aborted THEN Answer("INTERRUPTED")
                                        ELSE GoesTo("reach") /\ UNCHANGED result)
  /\ Thinks

Indexed ==
  /\ Runs("scanContainer", "look")
  /\ UNCHANGED chest /\ Reindex(Top.item)
  /\ Answer("OK")
  /\ UNCHANGED <<inv, ground, trees, furnace, field, Surroundings, faults, late>>

\* The chest is open: every carried stack that matches the filter is looked at.
DepositOpens ==
  /\ Runs("chestDeposit", "reach")
  /\ Goes([Top EXCEPT !.at = "next", !.todo = {i \in Items : inv[i] > 0 /\ Includes(i, Top.item)}])
  /\ UNCHANGED result /\ Thinks

\* The reserve is kept from the stacks that come first, whatever they are.
DepositNext ==
  /\ Runs("chestDeposit", "next")
  /\ IF aborted \/ Top.todo = {} THEN Answer("OK")
     ELSE \E i \in Top.todo :
            LET kept == Least(Top.want, inv[i])
            IN /\ Goes([Top EXCEPT !.at = IF inv[i] > kept THEN "put" ELSE "next", !.want = @ - kept,
                                   !.todo = @ \ {i}, !.piece = <<i, inv[i] - kept>>])
               /\ UNCHANGED result
  /\ Thinks

DepositPuts ==
  /\ Runs("chestDeposit", "put")
  /\ LET i == Top.piece[1]  n == Top.piece[2]
     IN inv' = [inv EXCEPT ![i] = @ - n] /\ chest' = [chest EXCEPT ![Top.chest][i] = @ + n]
  /\ GoesTo("next") /\ Acts
  /\ UNCHANGED <<result, index, ground, trees, furnace, field, Surroundings, faults>>

\* The chest is full: what was deposited is answered as a success.
DepositFails ==
  /\ Runs("chestDeposit", "put")
  /\ Fault /\ Answer("OK")
  /\ UNCHANGED <<world, Surroundings, late>>

-----------------------------------------------------------------------------
(***************************************************************************)
(* Gathering.                                                              *)
(***************************************************************************)
MineBegins ==
  /\ Runs("mineUntil", "call")
  /\ LET have == inv[Top.item]
     IN IF have >= Top.want THEN Answer("OK")
        ELSE IF Space < Top.want - have THEN Answer("INVENTORY_FULL")
        ELSE Goes([Top EXCEPT !.at = "next", !.first = have, !.have = have]) /\ UNCHANGED result
  /\ Thinks

\* (mutant: the loop does not look at the signal)
MineNextUnstopped ==
  /\ Runs("mineUntil", "next")
  /\ IF Top.have >= Top.want THEN Answer("OK")
     ELSE IF ground[Top.block] = 0
          THEN Answer(IF Top.have > Top.first THEN "OK" ELSE "NO_BLOCK_FOUND")
     ELSE GoesTo("collect") /\ UNCHANGED result
  /\ Thinks

\* When there are no more blocks, a part of the target is a success too.
MineNext ==
  /\ Runs("mineUntil", "next")
  /\ IF Top.have >= Top.want THEN Answer("OK")
     ELSE IF aborted THEN Answer("INTERRUPTED")
     ELSE IF ground[Top.block] = 0
          THEN Answer(IF Top.have > Top.first THEN "OK" ELSE "NO_BLOCK_FOUND")
     ELSE GoesTo("collect") /\ UNCHANGED result
  /\ Thinks

MineCollects ==
  /\ Runs("mineUntil", "collect")
  /\ \/ NoFault /\ inv' = [inv EXCEPT ![Top.item] = @ + 1]
     \/ Fault /\ UNCHANGED inv             \* the drop is lost
  /\ ground' = [ground EXCEPT ![Top.block] = @ - 1]
  /\ Goes([Top EXCEPT !.at = "next", !.have = inv'[Top.item]])
  /\ Acts
  /\ UNCHANGED <<result, chest, index, trees, furnace, field, Surroundings>>

ChopBegins ==
  /\ Runs("chopTrees", "call")
  /\ IF aborted THEN Answer("INTERRUPTED")
     ELSE IF Space = 0 THEN Answer("INVENTORY_FULL")
     ELSE IF trees = <<>> THEN Answer("NO_BLOCK_FOUND")
     ELSE GoesTo("next") /\ UNCHANGED result
  /\ Thinks

\* One tree, log by log; after the last the signal is not looked at.
ChopNext ==
  /\ Runs("chopTrees", "next")
  /\ IF Head(trees) = 0 THEN Answer("OK") /\ trees' = Tail(trees)
     ELSE IF aborted THEN Answer("INTERRUPTED") /\ UNCHANGED trees
     ELSE GoesTo("collect") /\ UNCHANGED <<result, trees>>
  /\ UNCHANGED <<inv, chest, index, ground, furnace, field, Surroundings, faults, late>>

ChopCollects ==
  /\ Runs("chopTrees", "collect")
  /\ \/ NoFault /\ inv' = [inv EXCEPT !["oak_log"] = @ + 1]
     \/ Fault /\ UNCHANGED inv
  /\ trees' = [trees EXCEPT ![1] = @ - 1]
  /\ GoesTo("next") /\ Acts
  /\ UNCHANGED <<result, chest, index, ground, furnace, field, Surroundings>>

\* collectBlockWithRecovery() gives up after its second attempt, or sees the abort.
CollectFails ==
  /\ Runs("mineUntil", "collect") \/ Runs("chopTrees", "collect")
  /\ IF aborted THEN NoFault /\ Answer("INTERRUPTED") ELSE Fault /\ Answer("NO_PATH")
  /\ UNCHANGED <<world, Surroundings, late>>

-----------------------------------------------------------------------------
(***************************************************************************)
(* Crafting, tools and smelting.                                           *)
(***************************************************************************)
CraftDeficit == Top.want - inv[Top.item]
CraftCount   == Upwards(CraftDeficit, Recipe(Top.item).makes)
Crafted(n)   ==
  [i \in Items |-> inv[i] - n * Recipe(Top.item).uses[i]
                    + IF i = Top.item THEN n * Recipe(i).makes ELSE 0]
Ingredients  == \A i \in Items : inv[i] >= CraftCount * Recipe(Top.item).uses[i]

CraftBegins ==
  /\ Runs("craftItem", "call")
  /\ IF CraftDeficit <= 0 THEN Answer("OK")
     ELSE IF aborted THEN Answer("INTERRUPTED")
     ELSE IF Space < CraftDeficit THEN Answer("INVENTORY_FULL")
     ELSE IF ~Recipe(Top.item).table /\ Ingredients THEN GoesTo("craft") /\ UNCHANGED result
     ELSE IF scene.table THEN GoesTo("table") /\ UNCHANGED result
     ELSE Answer("NO_MATERIAL")
  /\ Thinks

CraftAtTable ==
  /\ Runs("craftItem", "table")
  /\ IF Ingredients THEN GoesTo("craft") /\ UNCHANGED result ELSE Answer("NO_MATERIAL")
  /\ Thinks

CraftDone ==
  /\ Runs("craftItem", "craft")
  /\ inv' = Crafted(CraftCount)
  /\ Answer("OK") /\ Acts
  /\ UNCHANGED <<chest, index, ground, trees, furnace, field, Surroundings, faults>>

\* The server completes a part of the batch, or none of it.
CraftFalls ==
  /\ Runs("craftItem", "craft")
  /\ Fault
  /\ \E n \in 0 .. CraftCount - 1 :
       /\ inv' = Crafted(n)
       /\ Answer("NO_MATERIAL") \/ (aborted /\ Answer("INTERRUPTED"))
       /\ IF n > 0 THEN Acts ELSE Idle
  /\ UNCHANGED <<chest, index, ground, trees, furnace, field, Surroundings>>

Tools == {"stone_pickaxe", "wooden_pickaxe"}

EquipBegins ==
  /\ Runs("equipBestTool", "call")
  /\ IF ground[Top.item] = 0 THEN Answer("NO_BLOCK_FOUND")
     ELSE IF \A t \in Tools : inv[t] = 0 THEN Answer("NO_TOOL")
     ELSE GoesTo("equip") /\ UNCHANGED result
  /\ Thinks

Equips ==
  /\ Runs("equipBestTool", "equip")
  /\ \/ NoFault /\ Answer("OK")
     \/ Fault /\ Answer("UNKNOWN")
  /\ UNCHANGED <<world, Surroundings, late>>

EnsureToolStep ==
  /\ \/ /\ Runs("ensureTool", "call")
        /\ Call([Top EXCEPT !.at = "equipped"], Equip(Top.item)) /\ UNCHANGED result
     \/ /\ Runs("ensureTool", "equipped")
        /\ IF result = "NO_TOOL" THEN GoesTo("next") /\ UNCHANGED result ELSE Answer(result)
     \/ /\ Runs("ensureTool", "next")
        /\ IF aborted THEN Answer("INTERRUPTED")
           ELSE IF Top.todo = <<>> THEN Answer("NO_MATERIAL")
           ELSE Call([Top EXCEPT !.at = "crafted", !.todo = Tail(@)], Craft(Head(Top.todo), 1))
                /\ UNCHANGED result
     \/ /\ Runs("ensureTool", "crafted")
        /\ IF result = "OK" THEN Call([Top EXCEPT !.at = "again"], Equip(Top.item))
                             ELSE GoesTo("next")
        /\ UNCHANGED result
     \/ /\ Runs("ensureTool", "again")
        /\ IF result = "OK" THEN Answer("OK") ELSE GoesTo("next") /\ UNCHANGED result
  /\ Thinks

SmeltBegins ==
  /\ Runs("smeltItem", "call")
  /\ LET need == Top.want - inv[Top.item]
     IN IF need <= 0 THEN Answer("OK")
        ELSE IF inv[Top.input] < need THEN Answer("NO_MATERIAL")
        ELSE IF inv["coal"] < Upwards(need, FuelOperations) THEN Answer("NO_FUEL")
        ELSE IF ~scene.furnace THEN Answer("NOT_CONFIGURED")
        ELSE IF aborted THEN Answer("INTERRUPTED")
        ELSE Goes([Top EXCEPT !.at = "reach", !.need = need]) /\ UNCHANGED result
  /\ Thinks

SmeltReached == Runs("smeltItem", "reach") /\ GoesTo("load") /\ UNCHANGED result /\ Thinks

\* The furnace is opened and its input put in.  The fuel follows whatever the
\* signal says: the loading is one act, counted at its end.
SmeltLoads ==
  /\ Runs("smeltItem", "load")
  /\ inv' = [inv EXCEPT ![Top.input] = @ - Top.need]
  /\ furnace' = [furnace EXCEPT !.input = @ + Top.need]
  /\ GoesTo("fuel") /\ Idle
  /\ UNCHANGED <<result, chest, index, ground, trees, field, Surroundings, faults>>

SmeltFuels ==
  /\ Runs("smeltItem", "fuel")
  /\ LET fuel == Upwards(Top.need, FuelOperations)
     IN /\ inv' = [inv EXCEPT !["coal"] = @ - fuel]
        /\ furnace' = [furnace EXCEPT !.fuel = @ + fuel * FuelOperations]
  /\ GoesTo("next") /\ Acts
  /\ UNCHANGED <<result, chest, index, ground, trees, field, Surroundings, faults>>

\* Not opened, or one of the two throws; the input stays where it is.
SmeltLoadFails ==
  /\ Runs("smeltItem", "load") \/ Runs("smeltItem", "fuel")
  /\ Fault
  /\ \/ Top.at = "load" /\ Answer("TARGET_UNAVAILABLE")
     \/ Answer(IF aborted THEN "INTERRUPTED" ELSE "UNKNOWN")
  /\ IF Top.at = "fuel" THEN Acts ELSE Idle
  /\ UNCHANGED <<world, Surroundings>>

Burns == furnace.input > 0 /\ furnace.fuel > 0

\* What is in the furnace when the handler leaves stays there.
SmeltNext ==
  /\ Runs("smeltItem", "next")
  /\ IF Top.got >= Top.need THEN Answer("OK")
     ELSE IF aborted THEN Answer("INTERRUPTED")
     ELSE GoesTo(IF furnace.output > 0 THEN "take" ELSE "burn") /\ UNCHANGED result
  /\ Thinks

SmeltTakes ==
  /\ Runs("smeltItem", "take")
  /\ inv' = [inv EXCEPT ![Top.item] = @ + furnace.output]
  /\ Goes([Top EXCEPT !.at = "next", !.got = @ + furnace.output])
  /\ furnace' = [furnace EXCEPT !.output = 0]
  /\ Acts
  /\ UNCHANGED <<result, chest, index, ground, trees, field, Surroundings, faults>>

SmeltTakeFails ==
  /\ Runs("smeltItem", "take")
  /\ Fault /\ Answer(IF aborted THEN "INTERRUPTED" ELSE "UNKNOWN")
  /\ UNCHANGED <<world, Surroundings, late>>

\* The furnace's own work, the update that wakes the handler, and its deadline.
SmeltWaits ==
  /\ Runs("smeltItem", "burn")
  /\ \/ /\ Burns /\ NoFault /\ GoesTo("next") /\ UNCHANGED result
        /\ furnace' = [furnace EXCEPT !.input = @ - 1, !.fuel = @ - 1, !.output = @ + 1]
     \/ aborted /\ NoFault /\ GoesTo("next") /\ UNCHANGED <<result, furnace>>
     \/ Burns /\ Fault /\ Answer("TIMED_OUT") /\ UNCHANGED furnace
  /\ UNCHANGED <<inv, chest, index, ground, trees, field, Surroundings, late>>

Leaves ==
  \/ RetrieveBegins \/ RetrieveNext \/ RetrieveTakes \/ RetrieveFails
  \/ WalkStops \/ WalkFails \/ WalkBegins \/ Indexed
  \/ DepositOpens \/ DepositNext \/ DepositPuts \/ DepositFails
  \/ MineBegins \/ MineNext \/ MineCollects \/ ChopBegins \/ ChopNext \/ ChopCollects \/ CollectFails
  \/ CraftBegins \/ CraftAtTable \/ CraftDone \/ CraftFalls
  \/ EquipBegins \/ Equips \/ EnsureToolStep
  \/ SmeltBegins \/ SmeltReached \/ SmeltLoads \/ SmeltFuels \/ SmeltLoadFails \/ SmeltNext \/ SmeltTakes \/ SmeltTakeFails
  \/ SmeltWaits

-----------------------------------------------------------------------------
(***************************************************************************)
(* Composite skills.  A stage either delegates and names the stage it goes *)
(* on with, or goes on at once.  "answered" hands a failure on, "asked"    *)
(* takes any answer.                                                       *)
(***************************************************************************)
Composite == {"prepare", "supply", "restock", "harvest"}

Answered ==
  /\ stack # <<>> /\ Top.do \in Composite /\ Top.at \in {"answered", "asked"}
  /\ IF Top.at = "asked" \/ result = "OK" \/ (result = "NO_MATERIAL" /\ Top.then = "store")
     THEN GoesTo(Top.then) /\ UNCHANGED result
     ELSE Answer(result)
  /\ Thinks

Then(f, place) == [f EXCEPT !.at = "answered", !.then = place]
Whatever(f, place) == [f EXCEPT !.at = "asked", !.then = place]

-----------------------------------------------------------------------------
(***************************************************************************)
(* prepareBlueprintMaterials.                                              *)
(***************************************************************************)
Prepare ==
  [do |-> "prepare", at |-> "call", then |-> "none", todo |-> {}, tries |-> 0, before |-> 0,
   logs |-> 0, planks |-> 0]

Req(i) == scene.req[i]
Automatic == {"oak_log", "oak_planks", "oak_door", "cobblestone", "dirt", "sand", "glass"}
MaxTrees == 16
MaxCrafts == 4

\* assertCurrentPreparationSourceAccess(): "OK", or why nothing more is done.
AuthCode ==
  IF aborted THEN "INTERRUPTED"
  ELSE IF ~job.own THEN "TARGET_UNAVAILABLE"
  ELSE IF job.status # "running" /\ ~(scene.direct /\ job.status = "pending")
       THEN IF job.status = "cancelled" THEN "TARGET_UNAVAILABLE" ELSE "INTERRUPTED"
  ELSE IF scene.sourced /\ ~job.allowed THEN "PERMISSION_DENIED"
  ELSE "OK"

\* (mutant: no look at the job before a delegated skill)
DelegatesBlindly(f, g) == Call(f, g) /\ UNCHANGED result

Delegates(f, g) == IF AuthCode = "OK" THEN Call(f, g) /\ UNCHANGED result ELSE Answer(AuthCode)

\* A stage of the preparation: its delegated skill only with leave.
Works(place, needed, g, next) ==
  /\ Runs("prepare", place)
  /\ IF needed THEN Delegates(Then(Top, next), g) ELSE GoesTo(next) /\ UNCHANGED result
  /\ Thinks

PrepareStarts ==
  /\ Runs("prepare", "call")
  /\ IF ~job.own THEN Answer("TARGET_UNAVAILABLE")
     ELSE IF AuthCode # "OK" THEN Answer(AuthCode)
     ELSE Goes([Top EXCEPT !.at = "store",
                           !.todo = IF scene.storage = "none" THEN {} ELSE {i \in Items : Req(i) > 0}])
          /\ UNCHANGED result
  /\ Thinks

\* What the job's container is known to hold; a mission may do no more than that.
PrepareStore ==
  /\ Runs("prepare", "store")
  /\ IF Top.todo = {} THEN GoesTo(IF scene.mission THEN "final" ELSE "gather") /\ UNCHANGED result
     ELSE \E i \in Top.todo :
            LET f == [Top EXCEPT !.todo = @ \ {i}]
            IN IF inv[i] >= Req(i) THEN Goes(f) /\ UNCHANGED result
               ELSE Delegates(Then(f, "store"), Retrieve(i, Req(i), scene.storage, "none"))
  /\ Thinks

\* (mutant: the doors of a batch that is not used up are not counted)
DoorCraftsFull == Most(0, Req("oak_door") - inv["oak_door"]) \div 3

DoorCrafts == Upwards(Most(0, Req("oak_door") - inv["oak_door"]), 3)
PlanksWanted == Req("oak_planks") + 6 * DoorCrafts
LogsWanted == Req("oak_log") + Upwards(Most(0, PlanksWanted - inv["oak_planks"]), 4)

\* The oak is reckoned once, before the first tree.
PrepareGathers ==
  /\ Runs("prepare", "gather")
  /\ IF \E i \in Items \ Automatic : inv[i] < Req(i) THEN Answer("NO_MATERIAL")
     ELSE Goes([Top EXCEPT !.at = "logs", !.logs = LogsWanted, !.planks = PlanksWanted])
          /\ UNCHANGED result
  /\ Thinks

PrepareLogs ==
  /\ \/ /\ Runs("prepare", "logs")
        /\ IF inv["oak_log"] >= Top.logs THEN Goes([Top EXCEPT !.at = "planks", !.tries = 0]) /\ UNCHANGED result
           ELSE IF aborted THEN Answer("INTERRUPTED")
           ELSE IF Top.tries = MaxTrees THEN Answer("NO_BLOCK_FOUND")
           ELSE Delegates([Then(Top, "chopped") EXCEPT !.tries = @ + 1, !.before = inv["oak_log"]], Chop)
     \/ /\ Runs("prepare", "chopped")
        /\ IF inv["oak_log"] > Top.before THEN GoesTo("logs") /\ UNCHANGED result
                                          ELSE Answer("NO_MATERIAL")
  /\ Thinks

\* craftUntilTarget(): again after a batch the server completed in part.
CraftsUntil(place, then, i, target, next) ==
  /\ \/ /\ Runs("prepare", place)
        /\ IF inv[i] >= target THEN Goes([Top EXCEPT !.at = next, !.tries = 0]) /\ UNCHANGED result
           ELSE IF Top.tries = MaxCrafts THEN Answer(result)
           ELSE Delegates([Top EXCEPT !.at = then, !.tries = @ + 1, !.before = inv[i]],
                          Craft(i, target))
     \/ /\ Runs("prepare", then)
        /\ IF inv[i] < target /\ (aborted \/ inv[i] <= Top.before) THEN Answer(result)
                                                                  ELSE GoesTo(place) /\ UNCHANGED result
  /\ Thinks

PreparePlanks == CraftsUntil("planks", "planked", "oak_planks", Top.planks, "doors")
PrepareDoors  == CraftsUntil("doors", "doored", "oak_door", Req("oak_door"), "pickaxe")

Short(i)    == inv[i] < Req(i)
GlassWanted == Most(0, Req("glass") - inv["glass"])
SandWanted  == Req("sand") + GlassWanted
FuelWanted  == Upwards(GlassWanted, FuelOperations)

PrepareStone   == \/ Works("pickaxe", Short("cobblestone"), EnsureTool("stone"), "stone")
                  \/ Works("stone", Short("cobblestone"), Mine("stone", "cobblestone", Req("cobblestone")), "dirt")
PrepareDirt    == Works("dirt", Short("dirt"), Mine("dirt", "dirt", Req("dirt")), "sand")
PrepareSand    == Works("sand", inv["sand"] < SandWanted, Mine("sand", "sand", SandWanted), "fueltool")
PrepareFuel    == \/ Works("fueltool", inv["coal"] < FuelWanted, EnsureTool("coal_ore"), "fuel")
                  \/ Works("fuel", inv["coal"] < FuelWanted, Mine("coal_ore", "coal", FuelWanted), "smelt")
PrepareGlass   == Works("smelt", GlassWanted > 0, Smelt("sand", "glass", Req("glass")), "final")

PrepareEnds ==
  /\ Runs("prepare", "final")
  /\ Answer(IF \E i \in Items : Short(i) THEN "NO_MATERIAL" ELSE "OK")
  /\ Thinks

Preparation ==
  \/ PrepareStarts \/ PrepareStore \/ PrepareGathers \/ PrepareLogs \/ PreparePlanks \/ PrepareDoors
  \/ PrepareStone \/ PrepareDirt \/ PrepareSand \/ PrepareFuel \/ PrepareGlass \/ PrepareEnds

-----------------------------------------------------------------------------
(***************************************************************************)
(* supplyContainer.  storedCount() is what the last scan indexed.          *)
(***************************************************************************)
Supply(c, i, n) ==
  [do |-> "supply", at |-> "call", item |-> i, want |-> n, then |-> "none", chest |-> c]

Stored   == index[Top.chest][Top.item]
Needed   == Top.want - Stored
ScanIt   == Scan(Top.chest)
BringIt  == Deposit(Top.chest, Top.item, 0)
Input    == SmeltingRecipe(Top.item).input
Source   == SmeltingRecipe(Top.item).block

Supplies(place) == Runs("supply", place)

SupplyLooks ==
  \/ Supplies("call") /\ Call(Then(Top, "found"), ScanIt) /\ UNCHANGED result
  \/ \E p \in {<<"brought", "found2">>, <<"brought2", "found3">>, <<"brought3", "verify">>} :
       Supplies(p[1]) /\ Call(Then(Top, p[2]), ScanIt) /\ UNCHANGED result

\* After a scan: enough, or on with what is carried, or with what stands elsewhere.
SupplyFound ==
  \/ /\ Supplies("found")
     /\ IF Needed <= 0 THEN Answer("OK")
        ELSE /\ IF inv[Top.item] > 0 THEN Call(Then(Top, "brought"), BringIt) ELSE GoesTo("elsewhere")
             /\ UNCHANGED result
  \/ /\ Supplies("found2")
     /\ IF Needed <= 0 THEN Answer("OK") ELSE GoesTo("elsewhere") /\ UNCHANGED result
  \/ /\ Supplies("elsewhere")
     /\ Call(Whatever(Top, "bring"), Retrieve(Top.item, inv[Top.item] + Needed, "any", Top.chest))
     /\ UNCHANGED result
  \/ /\ Supplies("bring")
     /\ IF inv[Top.item] > 0 THEN Call(Then(Top, "brought2"), BringIt) ELSE GoesTo("produce")
     /\ UNCHANGED result
  \/ /\ Supplies("found3")
     /\ IF Needed <= 0 THEN Answer("OK") ELSE GoesTo("produce") /\ UNCHANGED result

SupplyProduces ==
  \/ /\ Supplies("produce")
     /\ IF Top.item \notin Smelted THEN Answer("NO_MATERIAL")
        ELSE Call(Whatever(Top, "tool"), Retrieve(Input, Needed, "any", Top.chest)) /\ UNCHANGED result
  \/ /\ UNCHANGED result
     /\ \/ /\ Supplies("tool")
           /\ IF inv[Input] < Needed THEN Call(Then(Top, "input"), EnsureTool(Source))
                                     ELSE GoesTo("fuelstock")
        \/ Supplies("input") /\ Call(Then(Top, "fuelstock"), Mine(Source, Input, Needed))
        \/ /\ Supplies("fuelstock")
           /\ Call(Whatever(Top, "fueltool"),
                   Retrieve("coal", Upwards(Needed, FuelOperations), "any", Top.chest))
        \/ /\ Supplies("fueltool")
           /\ IF inv["coal"] < Upwards(Needed, FuelOperations)
              THEN Call(Then(Top, "fuel"), EnsureTool("coal_ore"))
              ELSE GoesTo("smelt")
        \/ /\ Supplies("fuel")
           /\ Call(Then(Top, "smelt"), Mine("coal_ore", "coal", Upwards(Needed, FuelOperations)))
        \/ Supplies("smelt") /\ Call(Then(Top, "bringit"), Smelt(Input, Top.item, Needed))
        \/ Supplies("bringit") /\ Call(Then(Top, "brought3"), BringIt)

SupplyVerifies == Supplies("verify") /\ Answer(IF Needed <= 0 THEN "OK" ELSE "NO_MATERIAL")

Supplying == (SupplyLooks \/ SupplyFound \/ SupplyProduces \/ SupplyVerifies) /\ Thinks

-----------------------------------------------------------------------------
(***************************************************************************)
(* restockInventory and harvestFarm.                                       *)
(***************************************************************************)
Restock == [do |-> "restock", at |-> "call", then |-> "none", todo |-> {}, failed |-> FALSE]

RestockNext ==
  /\ \/ Runs("restock", "call")
        /\ Goes([Top EXCEPT !.at = "next", !.todo = {i \in Items : Req(i) > 0}]) /\ UNCHANGED result
     \/ /\ Runs("restock", "next")
        /\ IF Top.todo = {} THEN Answer(IF Top.failed THEN "NO_MATERIAL" ELSE "OK")
           ELSE IF aborted THEN Answer("INTERRUPTED")
           ELSE \E i \in Top.todo :
                  /\ Call(Whatever([Top EXCEPT !.todo = @ \ {i}], "note"),
                          Retrieve(i, Req(i), IF scene.storage = "none" THEN "any" ELSE scene.storage, "none"))
                  /\ UNCHANGED result
     \/ Runs("restock", "note")
        /\ Goes([Top EXCEPT !.at = "next", !.failed = @ \/ result # "OK"]) /\ UNCHANGED result
  /\ Thinks

Harvest(crop) ==
  [do |-> "harvest", at |-> "call", item |-> crop, then |-> "none", todo |-> {}, cell |-> 0]
SeedOf == Seed(Top.item)

HarvestBegins ==
  /\ Runs("harvest", "call")
  /\ LET mature == {c \in DOMAIN field : field[c] = "ripe"}
     IN IF mature = {} THEN Answer("OK")
        ELSE IF inv[SeedOf] < 1 THEN Answer("NO_MATERIAL")
        ELSE Goes([Top EXCEPT !.at = "next", !.todo = mature]) /\ UNCHANGED result
  /\ Thinks

HarvestNext ==
  /\ Runs("harvest", "next")
  /\ IF Top.todo = {}
     THEN IF scene.storage = "none" THEN Answer("OK")
          ELSE /\ Call(Then(Top, "done"),
                       Deposit(scene.storage, Reaped(Top.item),
                               IF SeedOf = Reaped(Top.item) THEN scene.reserve ELSE 0))
               /\ UNCHANGED result
     ELSE IF aborted THEN Answer("INTERRUPTED")
     ELSE IF inv[SeedOf] < 1 THEN Answer("NO_MATERIAL")
     ELSE LET c == CHOOSE x \in Top.todo : \A y \in Top.todo : x <= y
          IN Goes([Top EXCEPT !.at = "collect", !.cell = c, !.todo = @ \ {c}]) /\ UNCHANGED result
  /\ Thinks

\* (mutant: the signal is looked at again before the seed goes in)
HarvestReapsAndStops ==
  /\ Runs("harvest", "collect") /\ field[Top.cell] = "ripe"
  /\ \E n \in 0 .. 1 : inv' = [i \in Items |-> inv[i] + (IF i = Reaped(Top.item) THEN 1 ELSE 0)
                                                     + IF i = SeedOf THEN n ELSE 0]
  /\ field' = [field EXCEPT ![Top.cell] = "bare"]
  /\ IF aborted THEN Answer("INTERRUPTED")
     ELSE IF inv'[SeedOf] < 1 THEN Answer("NO_MATERIAL")
     ELSE GoesTo("plant") /\ UNCHANGED result
  /\ Acts
  /\ UNCHANGED <<chest, index, ground, trees, furnace, Surroundings, faults>>

\* The crop and a seed more or less; whatever the signal says, the seed goes in next.
HarvestReaps ==
  /\ Runs("harvest", "collect") /\ field[Top.cell] = "ripe"
  /\ \E n \in 0 .. 1 : inv' = [i \in Items |-> inv[i] + (IF i = Reaped(Top.item) THEN 1 ELSE 0)
                                                     + IF i = SeedOf THEN n ELSE 0]
  /\ field' = [field EXCEPT ![Top.cell] = "bare"]
  /\ IF inv'[SeedOf] < 1 THEN Answer("NO_MATERIAL") ELSE GoesTo("plant") /\ UNCHANGED result
  /\ Acts
  /\ UNCHANGED <<chest, index, ground, trees, furnace, Surroundings, faults>>

\* Somebody trampled the field meanwhile: no soil to plant on, or the placing throws.
HarvestFindsNoSoil ==
  /\ \/ Runs("harvest", "collect") /\ Answer("AREA_UNSAFE")
     \/ Runs("harvest", "plant") /\ Answer(IF aborted THEN "INTERRUPTED" ELSE "UNKNOWN")
  /\ field[Top.cell] = "spoilt"
  /\ UNCHANGED <<world, Surroundings, faults, late>>

\* The plugin throws, before the crop is broken or on the way to the drops.
HarvestFails ==
  /\ Runs("harvest", "collect") \/ Runs("harvest", "plant")
  /\ Fault
  /\ Answer(IF aborted THEN "INTERRUPTED" ELSE "UNKNOWN")
  /\ \/ UNCHANGED field /\ Idle
     \/ /\ Top.at = "collect" /\ field[Top.cell] = "ripe"
        /\ field' = [field EXCEPT ![Top.cell] = "bare"] /\ Acts
  /\ UNCHANGED <<inv, chest, index, ground, trees, furnace, Surroundings>>

HarvestPlants ==
  /\ Runs("harvest", "plant") /\ field[Top.cell] = "bare"
  /\ inv' = [inv EXCEPT ![SeedOf] = @ - 1]
  /\ field' = [field EXCEPT ![Top.cell] = "sown"]
  /\ GoesTo("next") /\ Acts
  /\ UNCHANGED <<result, chest, index, ground, trees, furnace, Surroundings, faults>>

HarvestEnds == Runs("harvest", "done") /\ Answer("OK") /\ Thinks

Harvesting ==
  \/ HarvestBegins \/ HarvestNext \/ HarvestReaps \/ HarvestFindsNoSoil \/ HarvestFails
  \/ HarvestPlants \/ HarvestEnds

-----------------------------------------------------------------------------
(***************************************************************************)
(* Everybody else, at an await; and the handlers of one scenario.          *)
(***************************************************************************)
Abort ==
  /\ scene.aborts /\ ~aborted /\ aborted' = TRUE
  /\ UNCHANGED <<scene, stack, result, world, job, faults, late, tries>>

\* The control plane pauses or cancels the job, gives it to another plan, or
\* takes away the actor's access to the source.
HoldJob ==
  /\ scene.held /\ stack[1].do = "prepare"
  /\ \/ \E s \in {"paused", "cancelled"} : job.status \in {"running", "pending"} /\ job' = [job EXCEPT !.status = s]
     \/ job' = [job EXCEPT !.own = FALSE]
     \/ job' = [job EXCEPT !.allowed = FALSE]
  /\ UNCHANGED <<scene, stack, result, world, aborted, faults, late, tries>>

\* A player takes a piece out of a container, or puts one in.
Player ==
  /\ Fault
  /\ \E c \in Chests, i \in Items :
       \/ chest[c][i] > 0 /\ chest' = [chest EXCEPT ![c][i] = @ - 1]
       \/ chest[c][i] = 0 /\ index[c][i] > 0 /\ chest' = [chest EXCEPT ![c][i] = @ + 1]
  /\ UNCHANGED <<scene, stack, result, inv, index, ground, trees, furnace, field, aborted, job, late, tries>>

Trample ==
  /\ Fault
  /\ \E c \in DOMAIN field : field[c] # "spoilt" /\ field' = [field EXCEPT ![c] = "spoilt"]
  /\ UNCHANGED <<scene, stack, result, inv, chest, index, ground, trees, furnace, aborted, job, late, tries>>

Outside == Awaiting /\ (Abort \/ HoldJob \/ Player \/ Trample)

Handler(s) ==
  CASE s.skill = "prepareBlueprintMaterials" -> Prepare
    [] s.skill = "supplyContainer"  -> Supply(s.storage, s.item, s.req[s.item])
    [] s.skill = "restockInventory" -> Restock
    [] s.skill = "harvestFarm"      -> Harvest(s.item)

\* The same skill again, with a signal of its own and a job that is running.
Retry ==
  /\ stack = <<>> /\ tries < MaxTries /\ result # "OK"
  /\ stack' = <<Handler(scene)>> /\ tries' = tries + 1
  /\ aborted' = FALSE /\ late' = 0 /\ result' = "none"
  /\ job' = [status |-> IF scene.direct THEN "pending" ELSE "running", own |-> TRUE, allowed |-> TRUE]
  /\ UNCHANGED <<scene, world, faults>>

Init ==
  /\ scene \in Scenarios
  /\ stack = <<Handler(scene)>> /\ result = "none" /\ tries = 1
  /\ inv = scene.inv /\ chest = scene.chest /\ index = scene.index
  /\ ground = scene.ground /\ trees = scene.trees /\ field = scene.field
  /\ furnace = [input |-> 0, fuel |-> 0, output |-> 0]
  /\ aborted = FALSE /\ late = 0 /\ faults = scene.faults
  /\ job = [status |-> IF scene.direct THEN "pending" ELSE "running", own |-> TRUE, allowed |-> TRUE]

Skill == Leaves \/ Answered \/ Preparation \/ Supplying \/ RestockNext \/ Harvesting

Next == Skill \/ Outside \/ Retry

Spec == Init /\ [][Next]_vars

-----------------------------------------------------------------------------
(***************************************************************************)
(* Properties.                                                             *)
(***************************************************************************)
\* Nothing went wrong, nobody interfered, no tool had to be made and nothing in
\* reach was used up.
Undisturbed ==
  /\ faults = scene.faults /\ tries = 1
  /\ \A t \in Tools : inv[t] = scene.inv[t]
  /\ \A b \in Blocks : ground[b] > 0

\* Then what the preparation reckons at its start (doors into planks, planks into
\* logs, glass into sand and coal) is enough for every requirement at its end, but
\* for coal itself: what a bill asks of it may burn for the glass.
PlanSuffices ==
  Runs("prepare", "final") /\ ~scene.mission /\ Undisturbed => \A i \in Items \ {"coal"} : ~Short(i)

\* An aborted handler ends its current act (a furnace is loaded with input and
\* fuel) and does no other; a harvest still sows the cell it has reaped.
StopIsPrompt == late <= (IF scene.skill = "harvestFarm" THEN 2 ELSE 1)

\* Every cell that is left without its crop is one of which a call failed: an
\* abort at any await, or a lack of seed, leaves none.
NoBareSoil ==
  Cardinality({c \in DOMAIN field : field[c] = "bare"})
    <= scene.faults - faults + IF Runs("harvest", "plant") THEN 1 ELSE 0

\* A preparation begins no skill once its signal is aborted, its job is held or
\* another plan's, or its actor has lost the source; in a mission it begins none
\* that changes anything but the inventory and the job's container.
WorksOnlyWithLeave ==
  [][Runs("prepare", Top.at) /\ Len(stack') > Len(stack)
       => /\ ~aborted /\ job.own /\ job.status \in {"running", "pending"}
          /\ scene.sourced => job.allowed
          /\ scene.mission => stack'[Len(stack')].do = "retrieveItem"]_vars

=============================================================================
