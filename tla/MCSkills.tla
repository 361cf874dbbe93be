------------------------------ MODULE MCSkills -------------------------------
(* The skills that gather and the skills that move in one run: each        *)
(* behaviour is about the one or the other, and of the skills that move    *)
(* either the other players move or the block changes.                     *)
EXTENDS MCProvisions, Movement, TLC

VARIABLE about  \* "stuff", "people" or "blocks"

OneScene == CHOOSE s \in Scenarios : TRUE
OnePlace == CHOOSE k \in Kinds : TRUE
OneEntity == CHOOSE e \in Entities : TRUE

SkillsInit ==
  /\ Init /\ MoveInit
  /\ about \in {"stuff", "people", "blocks"}
  /\ about # "stuff" => scene = OneScene
  /\ about # "blocks" => place = OnePlace
  /\ target.who = OneEntity

SkillsNext ==
  /\ UNCHANGED about
  /\ \/ about = "stuff" /\ Next /\ UNCHANGED moveVars
     \/ about # "stuff" /\ MoveNext /\ UNCHANGED vars
  /\ about # "people" => UNCHANGED target
  /\ about # "blocks" => UNCHANGED place

Alike == Permutations(Invocations)

SkillsSpec == SkillsInit /\ [][SkillsNext]_<<about, vars, moveVars>>

==============================================================================
