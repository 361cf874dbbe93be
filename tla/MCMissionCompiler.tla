-------------------------- MODULE MCMissionCompiler --------------------------
(* A small registry, blueprints and scripts for TLC.                       *)
EXTENDS MissionCompiler

CONSTANT hut  \* the name of a blueprint

Skill(exposure, minimum, effect, denied, reserved) ==
  [exposure |-> exposure, role |-> minimum, effect |-> effect, denied |-> denied,
   reserved |-> reserved]

MCRegistry ==
  [gotoCoords                |-> Skill("public", "viewer", "read", FALSE, FALSE),
   mineUntil                 |-> Skill("public", "operator", "world-change", TRUE, FALSE),
   clearRegion               |-> Skill("public", "owner", "destructive", FALSE, TRUE),
   prepareBlueprintMaterials |-> Skill("internal", "operator", "world-change", FALSE, FALSE),
   buildBlueprint            |-> Skill("internal", "operator", "world-change", FALSE, FALSE)]

Content(cells, sourced, minimum, version, sound) ==
  [cells |-> cells, sourced |-> sourced, role |-> minimum, version |-> version, sound |-> sound]

Shed   == Content(2, FALSE, "operator", "v1", TRUE)
Lava   == Content(1, FALSE, "operator", "v1", FALSE)
Tower  == Content(3, TRUE, "operator", "v1", TRUE)
Cannon == Content(2, TRUE, "owner", "v1", TRUE)
Newer  == Content(2, TRUE, "operator", "v2", TRUE)
MCContents == {Shed, Lava, Tower, Cannon, Newer}

Walk   == [op |-> "skill", skill |-> "gotoCoords", valid |-> TRUE]
Badly  == [op |-> "skill", skill |-> "gotoCoords", valid |-> FALSE]
Mine   == [op |-> "skill", skill |-> "mineUntil", valid |-> TRUE]
Nobody == [op |-> "skill", skill |-> "dance", valid |-> TRUE]
Raze   == [op |-> "skill", skill |-> "clearRegion", valid |-> TRUE]
Clear  == [op |-> "clear", distance |-> <<1, 0, 0>>]
Wide   == [op |-> "clear", distance |-> <<1, 1, 2>>]
Named  == [op |-> "build", named |-> TRUE, name |-> hut]
BuildOf(c) == [op |-> "build", named |-> FALSE, content |-> c]

Script(steps, expanded, changes) ==
  [steps |-> steps, maxExpanded |-> expanded, maxChanges |-> changes]

Single == {Badly, Mine, Nobody, Raze, Wide, BuildOf(Newer)}
Paired == {Walk, Clear, Named, BuildOf(Tower)}

MCMissions ==
  {Script(<<Named, Walk>>, 4, 6), Script(<<Named, BuildOf(Cannon)>>, 4, 6)}

MCDefinitions ==
  MCMissions \cup
  {Script(<<s>>, 2, 6) : s \in Single} \cup
  {Script(<<s, t>>, 3, 4) : s \in Paired, t \in Paired} \cup
  {Script(<<Clear, s, Walk>>, 4, 5) : s \in Paired}

=============================================================================
