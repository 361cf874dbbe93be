------------------------------ MODULE MCPlans -------------------------------
(* Values for the constants of both compilers.                             *)
EXTENDS Plans, MCMissionCompiler, MCBuildOps
=============================================================================
