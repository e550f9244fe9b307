--------------------------- MODULE MCExperimentOps ---------------------------
EXTENDS ExperimentOps, TLC
Symmetry == Permutations(Ops)
=============================================================================
