--------------------------- MODULE MCSelfHealing ----------------------------
(* Instances of SelfHealing for TLC. *)
EXTENDS SelfHealing, TLC

Output(exc, phrases, number) ==
  [exc |-> exc, phrases |-> phrases, location |-> "lib.py:7",
   text |-> "failed after N s", number |-> number]

\* A timeout whose message varies in a number, a lint error, a runtime error.
MixedOutputs ==
  {Output("", {"timed out"}, 30), Output("", {"timed out"}, 60),
   Output("", {"ruff"}, 1), Output("ValueError", {}, 1)}

Symmetry == Permutations(Handlers)
=============================================================================
