--------------------------- MODULE MCRuntimeState ---------------------------
(* An instance of RuntimeState for TLC. *)
EXTENDS RuntimeState, TLC

Symmetry == Permutations(Updaters)
=============================================================================
