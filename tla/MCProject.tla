----------------------------- MODULE MCProject -----------------------------
(***************************************************************************)
(* Validations, artifacts, runners and visibility checked in one run.  The *)
(* four modules share no variable and no action of one reads the state of  *)
(* another, so that interleaving them adds no behaviour that a property    *)
(* could tell apart; it would only multiply the numbers of states.  The    *)
(* first step picks a component, and the others stay as they were.         *)
(***************************************************************************)
EXTENDS ProjectValidation, ArtifactStore, RunnerAttempt, Collaboration, TLC

VARIABLE component

\* Ops and Calls are the same processes.
Sym == Permutations(Ops)

ProjectInit ==
    /\ component = "none"
    /\ Init /\ StoreInit /\ RunnerInit /\ CollaborationInit

Chosen(c) == component \in {"none", c} /\ component' = c

ProjectNext ==
    \/ Chosen("validation") /\ Next /\ UNCHANGED <<storeVars, runnerVars, collaborationVars>>
    \/ Chosen("storage") /\ StoreNext /\ UNCHANGED <<vars, runnerVars, collaborationVars>>
    \/ Chosen("runner") /\ RunnerNext /\ UNCHANGED <<vars, storeVars, collaborationVars>>
    \/ Chosen("collaboration") /\ CollaborationNext /\ UNCHANGED <<vars, storeVars, runnerVars>>

ProjectSpec ==
    ProjectInit /\ [][ProjectNext]_<<component, vars, storeVars, runnerVars, collaborationVars>>

=============================================================================
