---------------------------- MODULE MCMasterPool ----------------------------
(* Small instances of MasterPool. *)
EXTENDS MasterPool, TLC

Symmetry == Permutations(Conns) \union Permutations(Workers)
=============================================================================
