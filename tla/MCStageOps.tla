----------------------------- MODULE MCStageOps -----------------------------
(* StageOps on small instances.  Operations are interchangeable, and so are *)
(* processes; the safety runs use that symmetry.                            *)
EXTENDS StageOps, TLC

Symmetry == Permutations(Ops) \union Permutations(Procs)

=============================================================================
