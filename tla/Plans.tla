-------------------------------- MODULE Plans --------------------------------
(***************************************************************************)
(* The two compilers side by side: in each behaviour either scripts are    *)
(* compiled and run, or a design is compiled and its place looked at.  The *)
(* one reads the other's blueprints only, which are its Contents.          *)
(***************************************************************************)
EXTENDS MissionCompiler, BuildOps

VARIABLE asked  \* "script" or "design"

PlansInit ==
  \/ asked = "script" /\ Init /\ form = "none" /\ count = 1 /\ canvas = <<>> /\ overwrites = 0
     /\ punches = 0 /\ verdict = "none" /\ site = NoSite
  \/ asked = "design" /\ OpsInit /\ Init

PlansNext ==
  \/ asked = "script" /\ Next /\ UNCHANGED <<asked, opsVars>>
  \/ asked = "design" /\ OpsNext /\ UNCHANGED <<asked, vars>>

PlansSpec == PlansInit /\ [][PlansNext]_<<asked, vars, opsVars>>

\* A script is accepted exactly when each of its steps and its sums are
\* acceptable, and what the compiler accepts and the binder numbers, the store
\* takes (AcceptedExactly and AcceptedIsTaken, where scripts are compiled).
ScriptsAreJudgedOnce == asked = "script" => AcceptedExactly /\ AcceptedIsTaken
==============================================================================
