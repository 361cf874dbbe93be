--------------------------- MODULE MCSkillRunner ---------------------------
(* The instance of SkillRunner that TLC checks.                            *)
EXTENDS SkillRunner, TLC

CONSTANTS r1, r2, r3, w1, w2

MCRuns == {r1, r2, r3}
MCWork == {w1, w2}

Symmetry == Permutations(MCRuns) \cup Permutations(MCWork)

=============================================================================
