---------------------------- MODULE MCTaskRuntime -----------------------------
(* Instances of the runtime for TLC: two or three Inputs and one compaction.  *)
EXTENDS TaskRuntimeRefinement, TLC

CONSTANTS i1, i2, i3, c1

MCInputs2 == {i1, i2}
MCInputs3 == {i1, i2, i3}
MCCompacts == {c1}

(* Inputs are interchangeable: no definition tells one from another.          *)
Symmetry == Permutations(MCInputs3)

=============================================================================
