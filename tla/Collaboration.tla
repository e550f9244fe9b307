---------------------------- MODULE Collaboration ----------------------------
(***************************************************************************)
(* What the token of an experiment gets to see of the other experiments of *)
(* its project, and of the annotations on them.  An experiment keeps the   *)
(* visibility it was granted when it was created; every observation        *)
(* intersects that with the policy of the latest attempted configuration.  *)
(* exp list and search, annotations list and annotations show each apply   *)
(* the rule in code of their own: SQL clauses, LIKE patterns on stored     *)
(* JSON, and Python.                                                       *)
(*                                                                         *)
(* Experiments here are those that are not archived.  Old revisions of an  *)
(* annotation are only printed, so that a body stands for all of them.     *)
(***************************************************************************)
EXTENDS Naturals, FiniteSets

CONSTANTS
    Exps,           \* experiments
    AnnotationIds,  \* bound: annotations
    ListedSets,     \* bound: the values of visibility.experiment_ids
    Admin,          \* the creator of an annotation made with an admin key
    NoExp           \* no private experiment, no override

ASSUME CollaborationConstants ==
    /\ ListedSets \subseteq SUBSET Exps
    /\ Admin \notin Exps /\ NoExp \notin Exps

VARIABLES
    policy,         \* [visibility] of the latest attempted configuration
    granted,        \* policy_json.visibility_upper_bound of each experiment row
    notes,          \* rows of annotations
    adding,         \* an annotation whose target is resolved and not yet inserted
    ceiling         \* history: the policies an experiment was created under

collaborationVars == <<policy, granted, notes, adding, ceiling>>

NoExperiments == [scope |-> "none", ids |-> {}]
SameProject == [scope |-> "same_project", ids |-> {}]
Policies == {NoExperiments, SameProject} \cup {[scope |-> "explicit", ids |-> s] : s \in ListedSets}
NoRow == [scope |-> "no row", ids |-> {}]
NoNote == [status |-> "no row"]
ExpRows == {e \in Exps : granted[e] # NoRow}
NoteRows == {n \in AnnotationIds : notes[n] # NoNote}

---------------------------------------------------------------------------
(* Who sees which experiment                                               *)

\* Mutant: the current policy wins unless it is same_project.
IntersectionOfCurrent(current, upper) ==
    IF current.scope = "same_project" THEN upper ELSE current

\* _intersect_visibility
Intersection(current, upper) ==
    IF "none" \in {current.scope, upper.scope} THEN NoExperiments
    ELSE IF current.scope = "same_project" THEN upper
    ELSE IF upper.scope = "same_project" THEN current
    ELSE [scope |-> "explicit", ids |-> current.ids \cap upper.ids]

\* _current_visibility_policy and the experiment's upper bound
Effective(e) == Intersection(policy, granted[e])

\* _visible_exp_ids
VisibleExps(e) ==
    {e} \cup CASE Effective(e).scope = "same_project" -> ExpRows
               [] Effective(e).scope = "explicit" -> Effective(e).ids
               [] OTHER -> {}

\* _append_visible_exp_clause: the rows exp list, best and search select from
SelectedRows(e) ==
    IF Effective(e).scope = "same_project" THEN ExpRows
    ELSE ExpRows \cap ({e} \cup Effective(e).ids)

\* _public_from_exp_visible: exp create --from-exp e without a key.  The
\* bound it is held to is that of the experiment it wants to copy.
PubliclyInherited(e) ==
    \/ Effective(e).scope = "same_project"
    \/ Effective(e).scope = "explicit" /\ e \in Effective(e).ids

---------------------------------------------------------------------------
(* Who sees which annotation                                               *)

\* _annotation_target_visible, _annotation_visible: annotations show
Shown(e, n) ==
    /\ notes[n].target \in VisibleExps(e)
    /\ notes[n].private # NoExp => notes[n].private = e

\* Mutant: its creator may edit an annotation whatever it is about.
EditableByCreator(e, n) ==
    IF notes[n].private # NoExp THEN notes[n].private = e ELSE notes[n].by = e

\* _annotation_editable, for the token of e
EditableBy(e, n) ==
    /\ notes[n].target \in VisibleExps(e)
    /\ IF notes[n].private # NoExp THEN notes[n].private = e ELSE notes[n].by = e

\* annotations list: a LIKE pattern on target_json for each visible
\* experiment, and two on visibility_json
Listed(e) ==
    {n \in NoteRows :
        /\ \E v \in VisibleExps(e) : notes[n].target = v
        /\ notes[n].private = NoExp \/ notes[n].private = e}

ListedActive(e) == {n \in Listed(e) : notes[n].status = "active"}

\* Mutant: search does not look at the annotation's visibility.
SearchHitsOfAll(e) ==
    {n \in NoteRows :
        /\ notes[n].status = "active" /\ notes[n].matches
        /\ \E row \in SelectedRows(e) : notes[n].target = row}

\* _append_experiment_search_clause: the annotations that make a selected
\* experiment row a hit for the query
SearchHits(e) ==
    {n \in NoteRows :
        /\ notes[n].status = "active" /\ notes[n].matches
        /\ \E row \in SelectedRows(e) : notes[n].target = row
        /\ notes[n].private \in {NoExp, e}}

---------------------------------------------------------------------------
(* Actions                                                                 *)

CollaborationInit ==
    /\ policy = NoExperiments
    /\ granted = [e \in Exps |-> NoRow]
    /\ notes = [n \in AnnotationIds |-> NoNote]
    /\ adding = NoNote
    /\ ceiling = [e \in Exps |-> {}]

\* A configuration is attempted; the latest one decides, valid or not.
AttemptConfig(p) ==
    /\ policy' = p
    /\ UNCHANGED <<granted, notes, adding, ceiling>>

\* exp create: active is the policy of the active valid configuration, which
\* need not be the latest one; --visibility can only restrict it.
CreateExp(e, active, override) ==
    /\ granted[e] = NoRow
    /\ granted' = [granted EXCEPT ![e] =
                     IF override = NoRow THEN active ELSE Intersection(active, override)]
    /\ ceiling' = [ceiling EXCEPT ![e] = {active, override} \ {NoRow}]
    /\ UNCHANGED <<policy, notes, adding>>

\* exp create --from-exp without a key
CreateFromExp(e, source, active) ==
    /\ source \in ExpRows /\ PubliclyInherited(source)
    /\ CreateExp(e, active, NoRow)

\* exp remove: the annotations about the experiment go with it; those
\* private to it, about other experiments, stay
RemoveExp(e) ==
    /\ e \in ExpRows
    /\ granted' = [granted EXCEPT ![e] = NoRow]
    /\ ceiling' = [ceiling EXCEPT ![e] = {}]
    /\ notes' = [n \in AnnotationIds |->
                    IF n \in NoteRows /\ notes[n].target = e THEN NoNote ELSE notes[n]]
    /\ UNCHANGED <<policy, adding>>

\* annotate add, first connection: the target is resolved and, for a token,
\* must be visible; --private is the token's, --private-to-exp the admin's.
ResolveTarget(by, target, private, matches) ==
    /\ adding = NoNote
    /\ target \in ExpRows
    /\ IF by = Admin
       THEN private \in ExpRows \cup {NoExp}
       ELSE by \in ExpRows /\ target \in VisibleExps(by) /\ private \in {by, NoExp}
    /\ adding' = [target |-> target, private |-> private, by |-> by,
                  status |-> "active", matches |-> matches]
    /\ UNCHANGED <<policy, granted, notes, ceiling>>

\* annotate add, transaction: nothing is looked at again
InsertNote(n) ==
    /\ adding # NoNote
    /\ notes[n] = NoNote
    /\ notes' = [notes EXCEPT ![n] = adding]
    /\ adding' = NoNote
    /\ UNCHANGED <<policy, granted, ceiling>>

MayEdit(by, n) == by = Admin \/ (by \in ExpRows /\ EditableBy(by, n))

EditNote(by, n) ==
    /\ n \in NoteRows /\ MayEdit(by, n)
    /\ notes' = [notes EXCEPT ![n].matches = ~@]
    /\ UNCHANGED <<policy, granted, adding, ceiling>>

SetNoteStatus(by, n) ==
    /\ n \in NoteRows /\ MayEdit(by, n)
    /\ \E s \in {"active", "archived"} : notes' = [notes EXCEPT ![n].status = s]
    /\ UNCHANGED <<policy, granted, adding, ceiling>>

RemoveNote(by, n) ==
    /\ n \in NoteRows /\ MayEdit(by, n)
    /\ notes[n].status = "archived"
    /\ notes' = [notes EXCEPT ![n] = NoNote]
    /\ UNCHANGED <<policy, granted, adding, ceiling>>

Authors == Exps \cup {Admin}

CollaborationNext ==
    \/ \E p \in Policies : AttemptConfig(p)
    \/ \E e \in Exps, p \in Policies, o \in Policies \cup {NoRow} : CreateExp(e, p, o)
    \/ \E e, s \in Exps, p \in Policies : CreateFromExp(e, s, p)
    \/ \E e \in Exps : RemoveExp(e)
    \/ \E by \in Authors, e \in Exps, p \in Exps \cup {NoExp}, m \in BOOLEAN :
           ResolveTarget(by, e, p, m)
    \/ \E n \in AnnotationIds : InsertNote(n)
    \/ \E by \in Authors, n \in AnnotationIds :
           EditNote(by, n) \/ SetNoteStatus(by, n) \/ RemoveNote(by, n)

CollaborationSpec == CollaborationInit /\ [][CollaborationNext]_collaborationVars

---------------------------------------------------------------------------
(* Properties                                                              *)

\* A policy, read by itself: the other experiments it lets one see.
Admitted(p) ==
    CASE p.scope = "none" -> {}
      [] p.scope = "same_project" -> Exps
      [] p.scope = "explicit" -> p.ids

\* An experiment sees exactly itself and the experiments that the current
\* policy, the policy it was created under and the --visibility it was created
\* with all admit: no later policy widens a bound, no bound narrows further
\* than it says (_intersect_visibility applied at creation and again at every
\* observation).
VisibleWithinBounds ==
    \A e \in ExpRows :
        /\ SelectedRows(e) = VisibleExps(e) \cap ExpRows
        /\ SelectedRows(e) \ {e} =
             {f \in ExpRows \ {e} : \A p \in ceiling[e] \cup {policy} : f \in Admitted(p)}

\* annotations list, annotations show and annotate edit agree for the token
\* of every experiment: what is listed can be shown, what is shown is listed,
\* and nothing can be edited that cannot be shown; and an annotation private
\* to one experiment is listed to no other.
ListedIsShown ==
    \A e \in ExpRows :
        /\ Listed(e) = {n \in NoteRows : Shown(e, n)}
        /\ {n \in NoteRows : EditableBy(e, n)} \subseteq Listed(e)
        /\ \A n \in Listed(e), f \in ExpRows \ {e} :
               notes[n].private # NoExp => n \notin Listed(f)

\* A search hit tells a token nothing about an annotation that annotations
\* list would keep from it: no private annotation of another experiment, no
\* archived one and none on an experiment out of sight makes a hit.
SearchShowsNoMore ==
    \A e \in ExpRows : SearchHits(e) \subseteq ListedActive(e)

=============================================================================
