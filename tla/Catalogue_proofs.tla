-------------------------- MODULE Catalogue_proofs --------------------------
(***************************************************************************)
(* Proofs about what queries show: visibility, and the best run.           *)
(***************************************************************************)
EXTENDS Collaboration, RunRanking, FiniteSetTheorems, TLAPS

-----------------------------------------------------------------------------
(***************************************************************************)
(* Visibility.  _intersect_visibility computes what both of its arguments  *)
(* admit; the invariant BoundsOK keeps that true of the bound an           *)
(* experiment was granted, for every policy tried since.                   *)
(***************************************************************************)

(* Visibilities: configured ones and what intersections make of them.      *)
Visibilities ==
    {p \in [scope : {"none", "same_project", "explicit"}, ids : SUBSET Exps] :
        p.scope # "explicit" => p.ids = {}}

Bound(e) == {f \in Exps : \A p \in ceiling[e] : f \in Admitted(p)}

BoundsOK ==
    /\ policy \in Visibilities
    /\ granted \in [Exps -> Visibilities \cup {NoRow}]
    /\ ceiling \in [Exps -> SUBSET Visibilities]
    /\ \A e \in ExpRows : Admitted(granted[e]) = Bound(e)

(* Configured policies are visibilities, and the absence of a row is none. *)
LEMMA PoliciesAreVisibilities == Policies \subseteq Visibilities /\ NoRow \notin Visibilities
BY CollaborationConstants DEF Policies, Visibilities, NoExperiments, SameProject, NoRow

(* A visibility admits some of the experiments.                            *)
LEMMA AdmittedExps == ASSUME NEW p \in Visibilities
                      PROVE  Admitted(p) \subseteq Exps
BY DEF Visibilities, Admitted

(* _intersect_visibility admits what both of its arguments admit.          *)
LEMMA IntersectionAdmits == ASSUME NEW p \in Visibilities, NEW q \in Visibilities
                            PROVE  /\ Intersection(p, q) \in Visibilities
                                   /\ Admitted(Intersection(p, q)) = Admitted(p) \cap Admitted(q)
<1>1. CASE "none" \in {p.scope, q.scope}
  BY <1>1 DEF Intersection, Admitted, NoExperiments, Visibilities
<1>2. CASE p.scope = "same_project" /\ q.scope # "none"
  BY <1>2, AdmittedExps DEF Intersection, Admitted, Visibilities
<1>3. CASE p.scope = "explicit" /\ q.scope = "same_project"
  BY <1>3, AdmittedExps DEF Intersection, Admitted, Visibilities
<1>4. CASE p.scope = "explicit" /\ q.scope = "explicit"
  <2>1. Intersection(p, q) = [scope |-> "explicit", ids |-> p.ids \cap q.ids]
    BY <1>4 DEF Intersection
  <2>2. QED
    BY <1>4, <2>1 DEF Admitted, Visibilities
<1>5. QED
  BY <1>1, <1>2, <1>3, <1>4 DEF Visibilities

(* The initial state satisfies the invariant.                              *)
LEMMA InitBounds == CollaborationInit => BoundsOK
<1> SUFFICES ASSUME CollaborationInit PROVE BoundsOK
  OBVIOUS
<1>1. policy \in Visibilities
  BY PoliciesAreVisibilities DEF CollaborationInit, Policies
<1>2. QED
  BY <1>1 DEF CollaborationInit, BoundsOK, ExpRows

(* An experiment is granted what the active policy and the override admit. *)
LEMMA CreateBounds ==
    ASSUME BoundsOK, NEW e \in Exps, NEW p \in Policies, NEW o \in Policies \cup {NoRow},
           CreateExp(e, p, o)
    PROVE  BoundsOK'
<1> DEFINE grant == IF o = NoRow THEN p ELSE Intersection(p, o)
           limits == {p, o} \ {NoRow}
<1>1. p \in Visibilities /\ p # NoRow /\ (o # NoRow => o \in Visibilities)
  BY PoliciesAreVisibilities
<1>2. grant \in Visibilities /\ limits \in SUBSET Visibilities
  BY <1>1, IntersectionAdmits
<1>3. \A f \in Exps : f \in Admitted(grant) <=> \A q \in limits : f \in Admitted(q)
  BY <1>1, IntersectionAdmits
<1>4. Admitted(grant) = {f \in Exps : \A q \in limits : f \in Admitted(q)}
  BY <1>2, <1>3, AdmittedExps
<1>5. granted' = [granted EXCEPT ![e] = grant] /\ ceiling' = [ceiling EXCEPT ![e] = limits] /\ policy' = policy
  BY DEF CreateExp
<1>6. ASSUME NEW f \in Exps, granted'[f] # NoRow
      PROVE  Admitted(granted[f])' = Bound(f)'
  <2>1. CASE f = e
    <3>1. granted'[f] = grant /\ ceiling'[f] = limits
      BY <1>5, <2>1 DEF BoundsOK
    <3>2. QED
      BY <1>4, <3>1 DEF Bound, Admitted
  <2>2. CASE f # e
    <3>1. granted'[f] = granted[f] /\ ceiling'[f] = ceiling[f]
      BY <1>5, <2>2 DEF BoundsOK
    <3>2. QED
      BY <1>6, <3>1 DEF Bound, Admitted, BoundsOK, ExpRows
  <2>3. QED
    BY <2>1, <2>2
<1>7. QED
  BY <1>2, <1>5, <1>6 DEF BoundsOK, ExpRows

(* Every step preserves the invariant.                                     *)
LEMMA NextBounds == BoundsOK /\ [CollaborationNext]_collaborationVars => BoundsOK'
<1> SUFFICES ASSUME BoundsOK, [CollaborationNext]_collaborationVars
             PROVE  BoundsOK'
  OBVIOUS
<1>1. ASSUME granted' = granted, ceiling' = ceiling, policy' \in Visibilities
      PROVE  BoundsOK'
  BY <1>1 DEF BoundsOK, ExpRows, Bound, Admitted
<1>2. ASSUME NEW p \in Policies, AttemptConfig(p)
      PROVE  BoundsOK'
  BY <1>1, <1>2, PoliciesAreVisibilities DEF AttemptConfig
<1>3. ASSUME NEW e \in Exps, NEW s \in Exps, NEW p \in Policies, CreateFromExp(e, s, p)
      PROVE  BoundsOK'
  BY <1>3, CreateBounds DEF CreateFromExp
<1>4. ASSUME NEW e \in Exps, RemoveExp(e)
      PROVE  BoundsOK'
  <2>1. /\ granted' = [granted EXCEPT ![e] = NoRow] /\ ceiling' = [ceiling EXCEPT ![e] = {}]
        /\ policy' = policy
    BY <1>4 DEF RemoveExp
  <2>2. ASSUME NEW f \in Exps, granted'[f] # NoRow
        PROVE  Admitted(granted[f])' = Bound(f)'
    <3>1. granted'[f] = granted[f] /\ ceiling'[f] = ceiling[f] /\ granted[f] # NoRow
      BY <2>1, <2>2 DEF BoundsOK
    <3>2. QED
      BY <3>1 DEF Bound, Admitted, BoundsOK, ExpRows
  <2>3. QED
    BY <2>1, <2>2 DEF BoundsOK, ExpRows
<1>5. ASSUME \/ \E by \in Authors, e \in Exps, p \in Exps \cup {NoExp}, m \in BOOLEAN :
                   ResolveTarget(by, e, p, m)
             \/ \E n \in AnnotationIds : InsertNote(n)
             \/ \E by \in Authors, n \in AnnotationIds :
                   EditNote(by, n) \/ SetNoteStatus(by, n) \/ RemoveNote(by, n)
      PROVE  BoundsOK'
  BY <1>1, <1>5 DEF ResolveTarget, InsertNote, EditNote, SetNoteStatus, RemoveNote, BoundsOK
<1>6. CASE UNCHANGED collaborationVars
  BY <1>1, <1>6 DEF collaborationVars, BoundsOK
<1>7. QED
  BY <1>2, <1>3, <1>4, <1>5, <1>6, CreateBounds DEF CollaborationNext

(* The bounds hold in every reachable state.                               *)
LEMMA BoundsInvariance == CollaborationSpec => []BoundsOK
BY InitBounds, NextBounds, PTL DEF CollaborationSpec

-----------------------------------------------------------------------------
(* The rows that queries select are those of the visible experiments.      *)
LEMMA SelectedAreVisible ==
    ASSUME BoundsOK, NEW e \in ExpRows
    PROVE  /\ SelectedRows(e) = VisibleExps(e) \cap ExpRows
           /\ SelectedRows(e) \ {e} = (ExpRows \ {e}) \cap Admitted(Effective(e))
           /\ Admitted(Effective(e)) = Admitted(policy) \cap Bound(e)
<1>1. policy \in Visibilities /\ granted[e] \in Visibilities /\ e \in Exps
  BY DEF BoundsOK, ExpRows
<1>2. Effective(e) \in Visibilities /\ Admitted(Effective(e)) = Admitted(policy) \cap Bound(e)
  BY <1>1, IntersectionAdmits DEF Effective, BoundsOK
<1>3. CASE Effective(e).scope = "same_project"
  BY <1>2, <1>3 DEF SelectedRows, VisibleExps, Admitted, ExpRows
<1>4. CASE Effective(e).scope = "explicit"
  BY <1>2, <1>4 DEF SelectedRows, VisibleExps, Admitted, ExpRows
<1>5. CASE Effective(e).scope = "none"
  BY <1>2, <1>5 DEF SelectedRows, VisibleExps, Admitted, ExpRows, Visibilities
<1>6. QED
  BY <1>2, <1>3, <1>4, <1>5 DEF Visibilities

(* An experiment sees itself and what the current policy, the policy it    *)
(* was created under and its --visibility all admit, for any sequence of   *)
(* configurations, creations and removals.                                 *)
THEOREM VisibilityBounded == CollaborationSpec => []VisibleWithinBounds
<1>1. BoundsOK => VisibleWithinBounds
  <2> SUFFICES ASSUME BoundsOK, NEW e \in ExpRows
               PROVE  /\ SelectedRows(e) = VisibleExps(e) \cap ExpRows
                      /\ SelectedRows(e) \ {e} =
                           {f \in ExpRows \ {e} : \A p \in ceiling[e] \cup {policy} : f \in Admitted(p)}
    BY DEF VisibleWithinBounds
  <2>1. \A f \in Exps : f \in Admitted(policy) \cap Bound(e)
                           <=> \A p \in ceiling[e] \cup {policy} : f \in Admitted(p)
    BY DEF Bound
  <2>2. ExpRows \subseteq Exps
    BY DEF ExpRows
  <2>3. QED
    BY <2>1, <2>2, SelectedAreVisible
<1>2. QED
  BY <1>1, BoundsInvariance, PTL

(* The three rules for annotations, in SQL, LIKE patterns and Python, say  *)
(* the same of every state: what is listed is what can be shown, and what  *)
(* can be edited is among it.                                              *)
THEOREM ListsAgree == CollaborationSpec => []ListedIsShown
<1>1. ListedIsShown
  BY DEF ListedIsShown, Listed, Shown, EditableBy
<1>2. QED
  BY <1>1, PTL

(* Search makes hits of annotations that the token could list as well, and *)
(* of no others.                                                           *)
THEOREM SearchIsBounded == CollaborationSpec => []SearchShowsNoMore
<1>1. BoundsOK => SearchShowsNoMore
  BY SelectedAreVisible DEF SearchShowsNoMore, SearchHits, ListedActive, Listed
<1>2. QED
  BY <1>1, BoundsInvariance, PTL

-----------------------------------------------------------------------------
(***************************************************************************)
(* The best run.  Its three computations look for the first row of a       *)
(* finite set, by an order; that there is one follows from the well-       *)
(* founded order of the finite sets of rows that come before a row.        *)
(***************************************************************************)

(* The versions of runs and experiments are among those imported.          *)
RankingTypes ==
    /\ identity \in Seq(Identities) /\ activeConfig \in 0..Len(identity)
    /\ bound \in [Exp -> 0..Len(identity)]
    /\ runs \in Seq(Run) /\ \A i \in RowIds : VersionOf(i) \in Versions

(* What any run has.                                                       *)
LEMMA RunFields ==
    ASSUME RankingTypes, NEW i \in RowIds
    PROVE  /\ runs[i].exp \in Exp /\ runs[i].exp \in Nat /\ i \in Nat
           /\ runs[i].reward \in Nat /\ runs[i].ended \in Nat
<1>1. runs[i] \in Run
  BY DEF RankingTypes, RowIds
<1>2. runs[i].exp \in 1..Ranked /\ runs[i].reward \in Rewards \cup {0} /\ runs[i].ended \in Times \cup {0}
  BY <1>1 DEF Run, Exp
<1>3. Rewards \cup {0} \subseteq Nat /\ Times \cup {0} \subseteq Nat /\ 1..Ranked \subseteq Nat
  BY RankingConstants
<1>4. i \in Nat
  BY DEF RowIds
<1>5. QED
  BY <1>2, <1>3, <1>4 DEF Exp

(* A finite set has a first element, by any strict order.                  *)
LEMMA FirstExists ==
    ASSUME NEW T, IsFiniteSet(T), T # {}, NEW R,
           \A i \in T : <<i, i>> \notin R,
           \A i, j, k \in T : <<i, j>> \in R /\ <<j, k>> \in R => <<i, k>> \in R
    PROVE  \E i \in T : \A j \in T : <<j, i>> \notin R
<1> DEFINE before == [i \in T |-> {j \in T : <<j, i>> \in R}]
           Before == {before[i] : i \in T}
           S == StrictSubsetOrdering(T)
<1>1. IsWellFoundedOn(S, FiniteSubsetsOf(T))
  BY FS_StrictSubsetOrderingWellFounded
<1>2. Before \subseteq FiniteSubsetsOf(T) /\ Before # {}
  <2>1. \A i \in T : before[i] \in SUBSET T /\ IsFiniteSet(before[i])
    BY FS_Subset
  <2> HIDE DEF before
  <2>2. QED
    BY <2>1 DEF FiniteSubsetsOf
<1>3. \E B \in Before : \A C \in Before : ~(<<C, B>> \in S)
  <2> HIDE DEF S, Before
  <2>1. QED
    BY <1>1, <1>2, WFMin
<1>4. PICK i \in T : \A j \in T : <<before[j], before[i]>> \notin S
  <2> HIDE DEF before, S
  <2>1. QED
    BY <1>3
<1>5. ASSUME NEW j \in T, <<j, i>> \in R PROVE FALSE
  <2>1. before[j] \subseteq before[i] /\ before[j] # before[i]
    BY <1>5
  <2>2. before[j] \in SUBSET T /\ before[i] \in SUBSET T
    OBVIOUS
  <2> HIDE DEF before
  <2>3. <<before[j], before[i]>> \in S
    BY <2>1, <2>2 DEF StrictSubsetOrdering
  <2>4. QED
    BY <1>4, <2>3
<1>6. QED
  BY <1>5

(* _best_run_window_order orders the rows strictly, and all of them.       *)
LEMMA WindowOrder ==
    ASSUME RankingTypes, NEW d
    PROVE  /\ \A i \in RowIds : ~Precedes(d, i, i)
           /\ \A i, j \in RowIds : i = j \/ Precedes(d, i, j) \/ Precedes(d, j, i)
           /\ \A i, j, k \in RowIds :
                Precedes(d, i, j) /\ Precedes(d, j, k) => Precedes(d, i, k)
           /\ \A i, j \in RowIds : Precedes(d, i, j) =>
                /\ ~Better(d, runs[j].reward, runs[i].reward)
                /\ runs[j].reward = runs[i].reward => runs[j].ended <= runs[i].ended
BY RunFields DEF Precedes, Better

(* Of any rows there is one that comes first, if there is any.             *)
LEMMA FirstRow ==
    ASSUME RankingTypes, NEW d, NEW rows \in SUBSET RowIds, rows # {}
    PROVE  \E i \in rows : \A j \in rows \ {i} : Precedes(d, i, j)
<1> DEFINE R == {ij \in RowIds \X RowIds : Precedes(d, ij[1], ij[2])}
<1>1. IsFiniteSet(rows)
  <2>1. Len(runs) \in Nat /\ 1 \in Int
    BY DEF RankingTypes
  <2>2. IsFiniteSet(RowIds)
    BY <2>1, FS_Interval DEF RowIds
  <2>3. QED
    BY <2>2, FS_Subset
<1>2. \A i, j \in rows : <<i, j>> \in R <=> Precedes(d, i, j)
  OBVIOUS
<1> HIDE DEF R
<1>3. \A i \in rows : <<i, i>> \notin R
  BY <1>2, WindowOrder
<1>4. \A i, j, k \in rows : <<i, j>> \in R /\ <<j, k>> \in R => <<i, k>> \in R
  BY <1>2, WindowOrder
<1>5. PICK i \in rows : \A j \in rows : <<j, i>> \notin R
  BY <1>1, <1>3, <1>4, FirstExists
<1>6. QED
  BY <1>2, <1>5, WindowOrder

(* A config version is imported, activated or bound, a run finishes or is  *)
(* archived: the types stay.                                               *)
LEMMA RankingTypesInvariant == RankingSpec => []RankingTypes
<1>1. RankingInit => RankingTypes
  BY DEF RankingInit, RankingTypes, RowIds, Versions, NoVersion
<1>2. RankingTypes /\ [RankingNext]_rankingVars => RankingTypes'
  <2> SUFFICES ASSUME RankingTypes, [RankingNext]_rankingVars PROVE RankingTypes'
    OBVIOUS
  <2> USE DEF RankingTypes, RowIds, Versions, VersionOf
  <2>1. ASSUME NEW i \in Identities, ImportConfig(i) PROVE RankingTypes'
    <3>1. /\ identity' \in Seq(Identities) /\ Len(identity') = Len(identity) + 1
          /\ UNCHANGED <<runs, bound, activeConfig>>
      BY <2>1 DEF ImportConfig
    <3>2. 0..Len(identity) \subseteq 0..Len(identity') /\ 1..Len(identity) \subseteq 1..Len(identity')
      BY <3>1
    <3>3. QED
      BY <3>1, <3>2
  <2>2. ASSUME NEW v \in Versions, ActivateConfig(v) PROVE RankingTypes'
    BY <2>2 DEF ActivateConfig
  <2>3. ASSUME NEW e \in Exp, BindExperiment(e) PROVE RankingTypes'
    <3>1. /\ bound' = [bound EXCEPT ![e] = activeConfig] /\ bound[e] = NoVersion
          /\ UNCHANGED <<runs, activeConfig, identity>>
      BY <2>3 DEF BindExperiment
    <3>2. \A i \in 1..Len(runs) : runs[i].exp # e
      BY <3>1 DEF NoVersion
    <3>3. \A i \in 1..Len(runs) : runs[i].exp \in Exp
      BY RunFields
    <3>4. QED
      BY <3>1, <3>2, <3>3
  <2>4. ASSUME NEW r \in Run, FinishRun(r) PROVE RankingTypes'
    <3>1. /\ runs' = Append(runs, r) /\ bound[r.exp] # NoVersion
          /\ UNCHANGED <<bound, activeConfig, identity>>
      BY <2>4 DEF FinishRun
    <3>2. r.exp \in Exp
      BY DEF Run
    <3>3. bound[r.exp] \in 1..Len(identity)
      BY <3>1, <3>2 DEF NoVersion
    <3>4. /\ runs' \in Seq(Run) /\ Len(runs') = Len(runs) + 1
          /\ \A i \in 1..Len(runs') : runs'[i] = IF i <= Len(runs) THEN runs[i] ELSE r
      BY <3>1
    <3>5. QED
      BY <3>1, <3>3, <3>4
  <2>5. ASSUME NEW i \in RowIds, SetRunArchived(i) PROVE RankingTypes'
    <3>1. /\ runs' = [runs EXCEPT ![i].archived = ~@] /\ runs[i].status = "passed"
          /\ UNCHANGED <<bound, activeConfig, identity>>
      BY <2>5 DEF SetRunArchived
    <3> DEFINE r == [runs[i] EXCEPT !.archived = ~@]
    <3>2. r \in Run /\ r.exp = runs[i].exp
      <4>1. runs[i] \in [exp : Exp, status : {"passed"}, reward : Rewards, ended : Times,
                         archived : BOOLEAN]
        <5>1. runs[i] \in Run
          OBVIOUS
        <5>2. QED
          BY <3>1, <5>1 DEF Run
      <4>2. r \in [exp : Exp, status : {"passed"}, reward : Rewards, ended : Times,
                   archived : BOOLEAN] /\ r.exp = runs[i].exp
        BY <4>1
      <4>3. QED
        BY <4>2 DEF Run
    <3> HIDE DEF r
    <3>3. runs' = [runs EXCEPT ![i] = r]
      BY <3>1 DEF r
    <3>4. runs' \in Seq(Run) /\ Len(runs') = Len(runs)
      BY <3>2, <3>3
    <3>5. \A j \in 1..Len(runs) : runs'[j].exp = runs[j].exp
      BY <3>2, <3>3
    <3>6. QED
      BY <3>1, <3>4, <3>5
  <2>6. CASE UNCHANGED rankingVars
    BY <2>6 DEF rankingVars
  <2>7. QED
    BY <2>1, <2>2, <2>3, <2>4, <2>5, <2>6 DEF RankingNext
<1>3. QED
  BY <1>1, <1>2, PTL DEF RankingSpec

(* The rows that SQL ranks and those that Python sorts are the same.       *)
LEMMA SameRows ==
    ASSUME RankingTypes, NEW e \in Exp
    PROVE  ShowRows(e, FALSE) =
             {i \in RowIds : runs[i].exp = e
                             /\ Qualifies(i, ComparableVersions(activeConfig), FALSE)}
<1>1. \A i \in RowIds : VersionOf(i) \in ComparableVersions(activeConfig)
                        <=> (activeConfig # NoVersion =>
                               identity[VersionOf(i)] = identity[activeConfig])
  BY DEF RankingTypes, ComparableVersions
<1>2. QED
  BY <1>1 DEF ShowRows, Qualifies

(* exp list, search and exp show agree on the best run of an experiment,   *)
(* for any runs, config versions, rewards and times: _best_run_window_order*)
(* and _best_run_for_experiment pick of the same rows by the same order.   *)
THEOREM BestRunsAgree == RankingSpec => []RankingsAgree
<1>1. RankingTypes => RankingsAgree
  <2> SUFFICES ASSUME RankingTypes, NEW e \in Exp
               PROVE  /\ ListBest(e) \subseteq ShowBest(e, FALSE)
                      /\ ListBest(e) = {} => ShowBest(e, FALSE) = {}
                      /\ {i \in ExcludedRuns(ComparableVersions(activeConfig)) : runs[i].exp = e}
                           = ShowExcluded(e)
                      /\ \A i \in ShowBest(e, TRUE), j \in ShowBest(e, FALSE) :
                           ~Better(DirectionOf(activeConfig), runs[j].reward, runs[i].reward)
    BY DEF RankingsAgree
  <2> DEFINE d == DirectionOf(activeConfig)
             rows == ShowRows(e, FALSE)
  <2>1. rows \in SUBSET RowIds
    BY DEF ShowRows
  <2>2. ListBest(e) = {i \in rows : \A j \in rows \ {i} : Precedes(d, i, j)}
    BY SameRows DEF ListBest, RankOne
  <2>3. ShowBest(e, FALSE) =
          {i \in rows : \A j \in rows :
             /\ ~Better(d, runs[j].reward, runs[i].reward)
             /\ runs[j].reward = runs[i].reward => runs[j].ended <= runs[i].ended}
    BY DEF ShowBest
  <2> HIDE DEF d, rows
  <2>4. ListBest(e) \subseteq ShowBest(e, FALSE)
    <3>1. ASSUME NEW i \in rows, \A j \in rows \ {i} : Precedes(d, i, j), NEW j \in rows
          PROVE  /\ ~Better(d, runs[j].reward, runs[i].reward)
                 /\ runs[j].reward = runs[i].reward => runs[j].ended <= runs[i].ended
      <4>1. CASE j = i
        BY <2>1, <4>1, RunFields DEF Better
      <4>2. CASE j # i
        BY <2>1, <3>1, <4>2, WindowOrder
      <4>3. QED
        BY <4>1, <4>2
    <3>2. QED
      BY <2>2, <2>3, <3>1
  <2>5. ListBest(e) = {} => ShowBest(e, FALSE) = {}
    BY <2>1, <2>2, <2>3, FirstRow
  <2>6. {i \in ExcludedRuns(ComparableVersions(activeConfig)) : runs[i].exp = e} = ShowExcluded(e)
    BY SameRows DEF ExcludedRuns, ShowExcluded, Qualifies, RankingTypes
  <2>7. \A i \in ShowBest(e, TRUE), j \in ShowBest(e, FALSE) :
          ~Better(d, runs[j].reward, runs[i].reward)
    BY DEF ShowBest, ShowRows, d
  <2>8. QED
    BY <2>4, <2>5, <2>6, <2>7 DEF d
<1>2. QED
  BY <1>1, RankingTypesInvariant, PTL

(* Whichever direction and config versions: the best of the experiments'   *)
(* best runs is one that no run beats.                                     *)
LEMMA FirstOfAll ==
    ASSUME RankingTypes, NEW versions, NEW d
    PROVE  LET all == {i \in RowIds : Qualifies(i, versions, FALSE)} IN
           /\ BestFirst(d, versions) = {} <=> all = {}
           /\ \A i \in BestFirst(d, versions), j \in all :
                ~Better(d, runs[j].reward, runs[i].reward)
<1> DEFINE all == {i \in RowIds : Qualifies(i, versions, FALSE)}
           best == BestRows(d, versions)
           rows(e) == {i \in all : runs[i].exp = e}
<1>1. \A e \in Exp : RankOne(e, d, versions, FALSE) =
        {i \in rows(e) : \A j \in rows(e) \ {i} : Precedes(d, i, j)}
  BY DEF RankOne
<1>2. best \subseteq all /\ all \in SUBSET RowIds /\ best \in SUBSET RowIds
  <2>1. \A i : i \in best <=> \E e \in Exp : i \in RankOne(e, d, versions, FALSE)
    BY DEF BestRows
  <2>2. \A e \in Exp : RankOne(e, d, versions, FALSE) \subseteq all
    BY <1>1
  <2>3. all \in SUBSET RowIds
    OBVIOUS
  <2> HIDE DEF all, best
  <2>4. best \subseteq all
    BY <2>1, <2>2
  <2>5. QED
    BY <2>3, <2>4
<1>3. \A j \in all : \E k \in best : k = j \/ Precedes(d, k, j)
  <2> SUFFICES ASSUME NEW j \in all PROVE \E k \in best : k = j \/ Precedes(d, k, j)
    OBVIOUS
  <2> DEFINE e == runs[j].exp
  <2>1. e \in Exp /\ j \in rows(e) /\ rows(e) \in SUBSET RowIds
    BY RunFields
  <2>2. PICK k \in rows(e) : \A m \in rows(e) \ {k} : Precedes(d, k, m)
    <3> HIDE DEF rows, e
    <3>1. QED
      BY <2>1, FirstRow
  <2>3. k \in best
    <3>1. k \in RankOne(e, d, versions, FALSE)
      BY <1>1, <2>1, <2>2
    <3> HIDE DEF e
    <3>2. QED
      BY <2>1, <3>1 DEF BestRows
  <2>4. QED
    BY <2>1, <2>2, <2>3
<1> HIDE DEF all, best, rows
<1>4. BestFirst(d, versions) = {i \in best : \A j \in best \ {i} : Precedes(d, i, j)}
  BY DEF BestFirst, best
<1>5. BestFirst(d, versions) = {} <=> all = {}
  BY <1>2, <1>3, <1>4, FirstRow
<1>6. ASSUME NEW i \in BestFirst(d, versions), NEW j \in all
      PROVE  ~Better(d, runs[j].reward, runs[i].reward)
  <2>1. PICK k \in best : k = j \/ Precedes(d, k, j)
    BY <1>3
  <2>2. i \in RowIds /\ j \in RowIds /\ k \in RowIds
    BY <1>2, <1>4
  <2>3. i = k \/ Precedes(d, i, k)
    BY <1>4
  <2>4. i = j \/ Precedes(d, i, j)
    BY <2>1, <2>2, <2>3, WindowOrder
  <2>5. ~Better(d, runs[i].reward, runs[i].reward)
    BY <2>2, RunFields DEF Better
  <2>6. QED
    BY <2>2, <2>4, <2>5, WindowOrder
<1>7. QED
  BY <1>5, <1>6 DEF all

(* exp best names a best run of the whole project, ranking the best runs   *)
(* of the experiments, and names one if any run qualifies.                 *)
THEOREM BestOfAll == RankingSpec => []BestIsGlobal
<1>1. RankingTypes => BestIsGlobal
  BY FirstOfAll DEF BestIsGlobal
<1>2. QED
  BY <1>1, RankingTypesInvariant, PTL
=============================================================================
