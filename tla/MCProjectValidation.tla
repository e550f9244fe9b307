------------------------ MODULE MCProjectValidation ------------------------
EXTENDS ProjectValidation, TLC
Symmetry == Permutations(Ops)
=============================================================================
