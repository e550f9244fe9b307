------------------------ MODULE ExperimentLifecycle ------------------------
(***************************************************************************)
(* What the lifecycle of an experiment promises, whatever runs in between: *)
(* one submission closes it, an archive only hides it, a closed experiment *)
(* never reopens and keeps its result, a removed one never comes back.     *)
(***************************************************************************)
CONSTANTS Exps, Results, None

VARIABLES
    life,      \* open, closed or removed
    shelved,   \* archived or not
    result     \* the final run and commit of a closed experiment

vars == <<life, shelved, result>>

Init ==
    /\ life = [e \in Exps |-> "open"]
    /\ shelved = [e \in Exps |-> FALSE]
    /\ result = [e \in Exps |-> None]

Submit(e) ==
    /\ life[e] = "open"
    /\ ~shelved[e]
    /\ life' = [life EXCEPT ![e] = "closed"]
    /\ UNCHANGED shelved
    /\ \E x \in Results : result' = [result EXCEPT ![e] = x]

Shelve(e) ==
    /\ life[e] # "removed"
    /\ shelved' = [shelved EXCEPT ![e] = ~@]
    /\ UNCHANGED <<life, result>>

Remove(e) ==
    /\ life[e] # "removed"
    /\ life' = [life EXCEPT ![e] = "removed"]
    /\ shelved' = [shelved EXCEPT ![e] = FALSE]
    /\ result' = [result EXCEPT ![e] = None]

Next == \E e \in Exps : Submit(e) \/ Shelve(e) \/ Remove(e)

Spec == Init /\ [][Next]_vars
=============================================================================
