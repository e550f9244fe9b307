----------------------------- MODULE RunRanking -----------------------------
(***************************************************************************)
(* Which run of an experiment is its best one.  The question is answered   *)
(* three times: exp list and search join a ranking made in SQL, exp best   *)
(* ranks experiments by the same SQL, exp show (and --from-exp best) sorts *)
(* rows in Python.  All three compare only runs whose config version has   *)
(* the reward identity of the project's active config version.             *)
(*                                                                         *)
(* Rewards and times are small numbers: ended_at has a resolution of one   *)
(* second, so that runs with equal reward and equal time do occur.         *)
(***************************************************************************)
EXTENDS Naturals, Sequences, FiniteSets

CONSTANTS
    Ranked,     \* number of experiments; their numbers stand for the order of ids
    Rewards,    \* values of runs.reward_value
    Times,      \* values of runs.ended_at
    MaxConfigs, \* bound: config versions
    MaxRuns     \* bound: rows of runs

ASSUME RankingConstants ==
    /\ Ranked \in Nat \ {0} /\ MaxConfigs \in Nat /\ MaxRuns \in Nat
    /\ Rewards \subseteq Nat /\ Times \subseteq Nat

VARIABLES
    runs,       \* finished runs, in rowid order
    bound,      \* experiments.bound_config_version, which its runs carry
    activeConfig,  \* projects.active_valid_config_version; NoVersion: none
    identity    \* of each config version: what its rewards mean

rankingVars == <<runs, bound, activeConfig, identity>>

Exp == 1..Ranked
Versions == 1..Len(identity)
NoVersion == 0
Identities == {"maximize", "minimize"}   \* they differ in the direction, at least
\* The reward of a run that did not pass is never compared; it is left out.
Run == [exp : Exp, status : {"passed"}, reward : Rewards, ended : Times, archived : BOOLEAN]
         \cup [exp : Exp, status : {"failed"}, reward : {0}, ended : {0}, archived : {FALSE}]
RowIds == 1..Len(runs)
VersionOf(i) == bound[runs[i].exp]

RankingInit ==
    /\ runs = <<>>
    /\ bound = [e \in Exp |-> NoVersion]
    /\ activeConfig = NoVersion
    /\ identity = <<>>

ImportConfig(i) ==
    /\ Len(identity) < MaxConfigs
    /\ identity' = Append(identity, i)
    /\ UNCHANGED <<runs, bound, activeConfig>>

ActivateConfig(v) ==
    /\ activeConfig' = v
    /\ UNCHANGED <<runs, bound, identity>>

BindExperiment(e) ==
    /\ bound[e] = NoVersion /\ activeConfig # NoVersion
    /\ bound' = [bound EXCEPT ![e] = activeConfig]
    /\ UNCHANGED <<runs, activeConfig, identity>>

\* A run finishes under the config version its experiment is bound to; it may
\* have started, and got its row, before runs that finished earlier.
FinishRun(r) ==
    /\ Len(runs) < MaxRuns
    /\ ~r.archived /\ bound[r.exp] # NoVersion
    /\ runs' = Append(runs, r)
    /\ UNCHANGED <<bound, activeConfig, identity>>

SetRunArchived(i) ==
    /\ runs[i].status = "passed"
    /\ runs' = [runs EXCEPT ![i].archived = ~@]
    /\ UNCHANGED <<bound, activeConfig, identity>>

RankingNext ==
    \/ \E i \in Identities : ImportConfig(i)
    \/ \E e \in Exp : BindExperiment(e)
    \/ \E r \in Run : FinishRun(r)
    \/ \E i \in RowIds : SetRunArchived(i)
    \/ \E v \in Versions : ActivateConfig(v)

RankingSpec == RankingInit /\ [][RankingNext]_rankingVars

---------------------------------------------------------------------------
(* The context: _optional_best_context, _best_context                      *)

DirectionOf(v) == IF v = NoVersion THEN "maximize" ELSE identity[v]

\* _reward_identity_config_versions: NoVersion means no restriction
ComparableVersions(v) ==
    IF v = NoVersion THEN Versions ELSE {w \in Versions : identity[w] = identity[v]}

Better(direction, a, b) == IF direction = "maximize" THEN a > b ELSE a < b

---------------------------------------------------------------------------
(* SQL                                                                     *)

\* _best_run_sql_clauses
Qualifies(i, versions, includeArchived) ==
    /\ runs[i].status = "passed"
    /\ VersionOf(i) \in versions
    /\ includeArchived \/ ~runs[i].archived

\* Mutant: the oldest of equal rewards comes first.
PrecedesByAge(direction, i, j) ==
    LET a == runs[i]
        b == runs[j]
    IN \/ Better(direction, a.reward, b.reward)
       \/ a.reward = b.reward /\ (a.ended < b.ended \/ (a.ended = b.ended /\ i < j))

\* _best_run_window_order: reward, then ended_at DESC, exp_id, rowid
Precedes(direction, i, j) ==
    LET a == runs[i]
        b == runs[j]
    IN \/ Better(direction, a.reward, b.reward)
       \/ /\ a.reward = b.reward
          /\ \/ a.ended > b.ended
             \/ /\ a.ended = b.ended
                /\ a.exp < b.exp \/ (a.exp = b.exp /\ i < j)

\* Mutant: a partition without an order.
RankFirst(e, direction, versions, includeArchived) ==
    LET rows == {i \in RowIds : runs[i].exp = e /\ Qualifies(i, versions, includeArchived)}
    IN {i \in rows : \A j \in rows : i <= j}

\* Rank 1 of the partition of experiment e, none if it is empty.
RankOne(e, direction, versions, includeArchived) ==
    LET rows == {i \in RowIds : runs[i].exp = e /\ Qualifies(i, versions, includeArchived)}
    IN {i \in rows : \A j \in rows \ {i} : Precedes(direction, i, j)}

ListBest(e) ==
    RankOne(e, DirectionOf(activeConfig), ComparableVersions(activeConfig), FALSE)

\* exp best: one row per experiment that has a best run, best first.  An
\* explicit config version takes the place of the identity.
BestRows(direction, versions) ==
    UNION {RankOne(e, direction, versions, FALSE) : e \in Exp}

BestFirst(direction, versions) ==
    {i \in BestRows(direction, versions) :
        \A j \in BestRows(direction, versions) \ {i} : Precedes(direction, i, j)}

\* _incomparable_best_run_count
ExcludedRuns(versions) ==
    {i \in RowIds : Qualifies(i, Versions, FALSE) /\ VersionOf(i) \notin versions}

---------------------------------------------------------------------------
(* Python                                                                  *)

\* _best_run_for_experiment: rows in whatever order SELECT returns them, the
\* incomparable ones dropped, then sorted by reward and, among equals, by
\* ended_at.  The sort is stable: among rows equal in both, any may be first.
ShowRows(e, includeArchived) ==
    {i \in RowIds :
        /\ runs[i].exp = e /\ runs[i].status = "passed"
        /\ includeArchived \/ ~runs[i].archived
        /\ activeConfig # NoVersion => identity[VersionOf(i)] = identity[activeConfig]}

\* the incomparable rows, counted as they are dropped
ShowExcluded(e) ==
    {i \in RowIds : runs[i].exp = e /\ runs[i].status = "passed" /\ ~runs[i].archived}
        \ ShowRows(e, FALSE)

ShowBest(e, includeArchived) ==
    LET rows == ShowRows(e, includeArchived)
        direction == DirectionOf(activeConfig)
    IN {i \in rows : \A j \in rows :
            /\ ~Better(direction, runs[j].reward, runs[i].reward)
            /\ runs[j].reward = runs[i].reward => runs[j].ended <= runs[i].ended}

---------------------------------------------------------------------------
(* Properties                                                              *)

\* exp list, search and exp show name the same best run, up to runs that are
\* equal in reward and time: the ranking in SQL and the one in Python, and the
\* two ways they leave out and count incomparable runs, agree.  Showing an
\* experiment with its archived runs can only better its best run.
RankingsAgree ==
    \A e \in Exp :
        /\ ListBest(e) \subseteq ShowBest(e, FALSE)
        /\ ListBest(e) = {} => ShowBest(e, FALSE) = {}
        /\ {i \in ExcludedRuns(ComparableVersions(activeConfig)) : runs[i].exp = e} = ShowExcluded(e)
        /\ \A i \in ShowBest(e, TRUE), j \in ShowBest(e, FALSE) :
               ~Better(DirectionOf(activeConfig), runs[j].reward, runs[i].reward)

\* The first row of exp best is a best run of the whole project: no run that
\* qualifies beats it, in any experiment, with the active config's identity or
\* with an explicit config version; and there is one if any run qualifies.
BestIsGlobal ==
    \A versions \in {{v} : v \in Versions} \cup {ComparableVersions(activeConfig)} :
        LET v == IF activeConfig # NoVersion /\ versions = ComparableVersions(activeConfig)
                 THEN activeConfig ELSE CHOOSE w \in versions : TRUE
            all == {i \in RowIds : Qualifies(i, versions, FALSE)}
        IN (activeConfig # NoVersion \/ Cardinality(versions) = 1) =>
              /\ BestFirst(DirectionOf(v), versions) = {} <=> all = {}
              /\ \A i \in BestFirst(DirectionOf(v), versions), j \in all :
                     ~Better(DirectionOf(v), runs[j].reward, runs[i].reward)

=============================================================================
