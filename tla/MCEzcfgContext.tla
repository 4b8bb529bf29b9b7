--------------------------- MODULE MCEzcfgContext ---------------------------
(* Small instances of EzcfgContext. *)
EXTENDS EzcfgContext, TLC

Symmetry == Permutations(Objects) \union Permutations(Contexts)
=============================================================================
