--------------------------- MODULE MCTaskChaining ---------------------------
(* Instances of TaskChaining for TLC. *)
EXTENDS TaskChaining, TLC

\* A policy that would go on for ever, with one terminal stage beside it.
StepHeads == {"step", "repair", "deploy"}
StepForever == [step |-> "step", repair |-> "step"]

Symmetry == Permutations(Tasks) \cup Permutations(Handlers)
=============================================================================
