------------------------ MODULE MCWorldTransactions ------------------------
(***************************************************************************)
(* Small instances of WorldTransactions.                                   *)
(***************************************************************************)
EXTENDS WorldTransactions, TLC

Symmetry == Permutations(Ops) \cup Permutations(Solids)

=============================================================================
