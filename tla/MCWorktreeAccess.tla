-------------------------- MODULE MCWorktreeAccess --------------------------
EXTENDS WorktreeAccess, TLC
Sym == Permutations(Ops) \cup Permutations(Paths)
=============================================================================
