----------------------------- MODULE MCCatalogue -----------------------------
(***************************************************************************)
(* Sources, worktree access and rankings checked in one run, as MCProject  *)
(* does it: the three modules share no variable, and the first step picks  *)
(* one of them.                                                            *)
(***************************************************************************)
EXTENDS SourceLibrary, WorktreeAccess, RunRanking, TLC

CONSTANTS a1, a2, a3

VARIABLE component

\* Both modules have the same processes; the sources a2 and a3 (a1 is that of
\* the project's creation) also name the paths of the worktrees, which spares
\* permutations.
Sym == Permutations(Ops) \cup Permutations({a2, a3})

CatalogueInit ==
    /\ component = "none"
    /\ SourceInit /\ Init /\ RankingInit

Chosen(c) == component \in {"none", c} /\ component' = c

CatalogueNext ==
    \/ Chosen("sources") /\ SourceNext /\ UNCHANGED <<vars, rankingVars>>
    \/ Chosen("access") /\ Next /\ UNCHANGED <<sourceVars, rankingVars>>
    \/ Chosen("ranking") /\ RankingNext /\ UNCHANGED <<sourceVars, vars>>

CatalogueSpec == CatalogueInit /\ [][CatalogueNext]_<<component, sourceVars, vars, rankingVars>>

=============================================================================
