------------------------- MODULE MCArchitectWorker --------------------------
(* An instance of ArchitectWorker for TLC: scores exactly one drift
   threshold apart once clamped to 0..100. *)
EXTENDS ArchitectWorker

SomeKeys == {[target |-> "hookclose", kind |-> "spec_generation"],
             [target |-> "hookclose", kind |-> "refactor_review"]}

EdgeScores == {-5, 85, 120}
=============================================================================
