-------------------------- MODULE MCMergePipeline ---------------------------
EXTENDS MergePipeline, TLC
Symmetry == Permutations(Runs)
=============================================================================
