--------------------------- MODULE SourceLibrary ---------------------------
(***************************************************************************)
(* The sources of one project: snapshots imported under alab/source/<id>,  *)
(* each a row of table sources and a ref of the project's repository.      *)
(* Sources are imported, archived, unarchived and removed while config     *)
(* versions name one of them as the default source and experiments are     *)
(* created from them.                                                      *)
(*                                                                         *)
(* A command reads in one connection and writes in a later transaction;    *)
(* what it has read is in held.  Git refs are outside any transaction: an  *)
(* import pushes its ref before the row is inserted, a removal deletes the *)
(* ref before the row and puts it back when the transaction fails.         *)
(***************************************************************************)
EXTENDS Naturals, Sequences, FiniteSets

CONSTANTS
    Processes,     \* CLI processes
    Sources,       \* source ids
    First,         \* the one project init imports
    Trees,         \* contents of an imported tree, as its hash
    FirstTree,     \* what First contains
    Experiments,   \* experiment ids
    NoSource,
    MaxVersions    \* bound: config versions

ASSUME SourceConstants ==
    /\ First \in Sources /\ FirstTree \in Trees
    /\ NoSource \notin Sources \cup Experiments
    /\ MaxVersions \in Nat \ {0}

VARIABLES
    source,     \* rows: status (none: no row yet; removed: deleted) and tree hash
    refs,       \* sources whose ref is in the repository
    defaults,   \* the source that each config version names as its default
    byId,       \* versions whose source.default_source_ref is its id, not its ref
    user,       \* rows of experiments: status and source_id
    held,       \* of a process: the command it is in and what it read
    stale,      \* a source was archived on the word of an older config version
    lost        \* refs deleted by a removal that died before it was done

sourceVars == <<source, refs, defaults, byId, user, held, stale, lost>>
libraryRows == <<source, defaults, byId, user>>

Statuses == {"active", "archived"}
HasRow(s) == source[s].status \in Statuses
Latest == Len(defaults)
Nothing == [cmd |-> "none", src |-> NoSource, tree |-> FirstTree, exp |-> NoSource,
            version |-> 0, flag |-> FALSE]
Free(o) == held[o] = Nothing

SourceInit ==
    /\ source = [s \in Sources |->
                    [status |-> IF s = First THEN "active" ELSE "none", tree |-> FirstTree]]
    /\ refs = {First}
    /\ defaults = <<First>> /\ byId = {}      \* project init injects the ref
    /\ user = [e \in Experiments |-> [status |-> "none", src |-> NoSource]]
    /\ held = [o \in Processes |-> Nothing]
    /\ stale = FALSE /\ lost = {}

Hold(o, h) == held' = [held EXCEPT ![o] = h]
Release(o) == held' = [held EXCEPT ![o] = Nothing]

\* git worktree add of exp create starts at the source's ref, and fails
\* without it.
WorktreeAdded(o, e, s) ==
    /\ user[e].status = "none" /\ s \in refs
    /\ Hold(o, [Nothing EXCEPT !.cmd = "create", !.src = s, !.exp = e])

---------------------------------------------------------------------------
(* Import                                                                  *)

\* Mutant: only the default source is compared with.
TreeOfDefault(t) ==
    source[defaults[Latest]].status = "active" /\ source[defaults[Latest]].tree = t

\* idx_source_project_active_tree
TreeTaken(t) == \E s \in Sources : source[s].status = "active" /\ source[s].tree = t

\* The tree is not there as an active source: mint an id, commit the snapshot
\* and push its ref.  (If it is, the import only adds an origin to the row it
\* has read, in a transaction that does not look at the row again.)
ImportPushed(o, t) ==
    /\ Free(o) /\ ~TreeTaken(t)
    /\ \E s \in Sources :
         /\ source[s].status = "none" /\ s \notin refs
         /\ \A p \in Processes : held[p].src # s
         /\ Hold(o, [Nothing EXCEPT !.cmd = "insert", !.src = s, !.tree = t])
         /\ refs' = refs \cup {s}
    /\ UNCHANGED <<libraryRows, stale, lost>>

\* The row.  When another import of the tree was faster the index refuses
\* it, and the pushed ref stays behind.
ImportInsert(o) ==
    /\ held[o].cmd = "insert"
    /\ IF TreeTaken(held[o].tree)
       THEN UNCHANGED source
       ELSE source' = [source EXCEPT ![held[o].src] =
                           [status |-> "active", tree |-> held[o].tree]]
    /\ Release(o)
    /\ UNCHANGED <<refs, defaults, byId, user, stale, lost>>

---------------------------------------------------------------------------
(* Archive, unarchive, remove                                              *)

\* The project row, with the number of its latest config version, is read
\* before the transaction that archives.
ArchiveBegin(o) ==
    /\ Free(o)
    /\ \E s \in Sources : HasRow(s) /\ Hold(o, [Nothing EXCEPT !.cmd = "archive", !.src = s, !.version = Latest])
    /\ UNCHANGED <<libraryRows, refs, stale, lost>>

\* Whoever asks for defaults compares the ref of the source.
IsDefault(s, v) == defaults[v] = s /\ v \notin byId

ArchiveSource(o) ==
    /\ held[o].cmd = "archive"
    /\ LET s == held[o].src IN
       IF source[s].status = "active" /\ ~IsDefault(s, held[o].version)
       THEN /\ source' = [source EXCEPT ![s].status = "archived"]
            /\ stale' = (stale \/ held[o].version # Latest)
       ELSE UNCHANGED <<source, stale>>
    /\ Release(o)
    /\ UNCHANGED <<refs, defaults, byId, user, lost>>

UnarchiveSource(s) ==
    /\ source[s].status = "archived"
    /\ ~TreeTaken(source[s].tree)
    /\ source' = [source EXCEPT ![s].status = "active"]
    /\ UNCHANGED <<refs, defaults, byId, user, held, stale, lost>>

\* Mutant: only the latest config version is asked for its default.
BlockedByLatest(s, cascade) ==
    \/ source[s].status # "archived"
    \/ IsDefault(s, Latest)
    \/ \E e \in Experiments :
         /\ user[e].src = s /\ user[e].status # "none"
         /\ ~cascade \/ user[e].status # "archived"

\* _source_remove_blockers
Blocked(s, cascade) ==
    \/ source[s].status # "archived"
    \/ \E v \in 1..Latest : IsDefault(s, v)
    \/ \E e \in Experiments :
         /\ user[e].src = s /\ user[e].status # "none"
         /\ ~cascade \/ user[e].status # "archived"

RemoveSourceBegin(o, cascade) ==
    /\ Free(o)
    /\ \E s \in Sources :
         /\ HasRow(s) /\ ~Blocked(s, cascade)
         /\ Hold(o, [Nothing EXCEPT !.cmd = "deleteref", !.src = s, !.flag = cascade])
    /\ UNCHANGED <<libraryRows, refs, stale, lost>>

\* version 1: this process deleted the ref and will restore it; 0: it was absent
DeleteRef(o) ==
    /\ held[o].cmd = "deleteref"
    /\ refs' = refs \ {held[o].src}
    /\ held' = [held EXCEPT ![o].cmd = "deleterow",
                            ![o].version = IF held[o].src \in refs THEN 1 ELSE 0]
    /\ UNCHANGED <<libraryRows, stale, lost>>

RemoveSource(o) ==
    /\ held[o].cmd = "deleterow"
    /\ LET s == held[o].src IN
       IF HasRow(s) /\ ~Blocked(s, held[o].flag)
       THEN /\ source' = [source EXCEPT ![s] = [status |-> "removed", tree |-> FirstTree]]
            /\ Release(o)
       ELSE /\ held' = [held EXCEPT ![o].cmd = "restoreref"]
            /\ UNCHANGED source
    /\ UNCHANGED <<refs, defaults, byId, user, stale, lost>>

\* _restore_source_ref puts back only what this process deleted.
Restores(o) == held[o].cmd \in {"deleterow", "restoreref"} /\ held[o].version = 1
RefsLeft(o) == refs    \* mutant: a failed removal restores nothing
RefsRestored(o) == IF Restores(o) THEN refs \cup {held[o].src} ELSE refs

RestoreRef(o) ==
    /\ held[o].cmd = "restoreref"
    /\ refs' = RefsRestored(o)
    /\ Release(o)
    /\ UNCHANGED <<libraryRows, stale, lost>>

---------------------------------------------------------------------------
(* Config versions                                                         *)

\* A new config version, with the base's default source or another one, named
\* by its ref or its id; the source must be active in the transaction that
\* writes the version.
UsableDefault(s) == source[s].status = "active"

NewVersion(s) ==
    /\ Latest < MaxVersions
    /\ UsableDefault(s)
    /\ defaults' = Append(defaults, s)
    /\ byId' \in {byId, byId \cup {Latest + 1}}
    /\ UNCHANGED <<source, refs, user, held, stale, lost>>

---------------------------------------------------------------------------
(* Experiments                                                             *)

\* exp create reads the source row and adds the worktree: the active config's
\* default or a public choice must be active, root and admins may name an
\* archived one, and so may become a source that the command's own import
\* found active before (seen).  (Read and worktree are one step: a change
\* between them either fails the command or could as well come after it.)
CreateFromSource(o, e, s, seen) ==
    /\ Free(o)
    /\ source[s].status = "active" \/ (seen /\ HasRow(s))
    /\ WorktreeAdded(o, e, s)
    /\ UNCHANGED <<libraryRows, refs, stale, lost>>

\* --from-exp starts at a commit of another experiment, not at the ref; that
\* experiment's source row must be there, archived or not.  The experiment
\* copied may be archived and removed before the insert, so it is left out.
CreateFromExperiment(o, e, s) ==
    /\ Free(o) /\ user[e].status = "none"
    /\ HasRow(s)
    /\ Hold(o, [Nothing EXCEPT !.cmd = "create", !.src = s, !.exp = e])
    /\ UNCHANGED <<libraryRows, refs, stale, lost>>

\* Mutant: the row does not say where it came from.
InsertWithoutSource(o) ==
    /\ held[o].cmd = "create"
    /\ user[held[o].exp].status = "none"
    /\ user' = [user EXCEPT ![held[o].exp] = [status |-> "open", src |-> NoSource]]
    /\ Release(o)
    /\ UNCHANGED <<source, refs, defaults, byId, stale, lost>>

\* The row is inserted without another look at the source.
InsertExperiment(o) ==
    /\ held[o].cmd = "create"
    /\ user[held[o].exp].status = "none"
    /\ user' = [user EXCEPT ![held[o].exp] = [status |-> "open", src |-> held[o].src]]
    /\ Release(o)
    /\ UNCHANGED <<source, refs, defaults, byId, stale, lost>>

\* exp archive, unarchive and remove, as far as sources care.
SetExperiment(e) ==
    /\ \/ user[e].status = "open" /\ user' = [user EXCEPT ![e].status = "archived"]
       \/ user[e].status = "archived"
          /\ \/ user' = [user EXCEPT ![e].status = "open"]
             \/ user' = [user EXCEPT ![e] = [status |-> "none", src |-> NoSource]]
    /\ UNCHANGED <<source, refs, defaults, byId, held, stale, lost>>

\* The process dies, or its transaction fails (a name conflict, a busy
\* database).  A removal that fails restores the ref; one that dies does not.
Dies(o) ==
    /\ ~Free(o)
    /\ \/ /\ Release(o)
          /\ lost' = IF Restores(o) THEN lost \cup {held[o].src} ELSE lost
       \/ /\ held[o].cmd = "deleterow"
          /\ held' = [held EXCEPT ![o].cmd = "restoreref"]
          /\ UNCHANGED lost
    /\ UNCHANGED <<libraryRows, refs, stale>>

SourceNext ==
    \/ \E o \in Processes :
         \/ \E t \in Trees : ImportPushed(o, t)
         \/ ImportInsert(o)
         \/ ArchiveBegin(o) \/ ArchiveSource(o)
         \/ \E cascade \in BOOLEAN : RemoveSourceBegin(o, cascade)
         \/ DeleteRef(o) \/ RemoveSource(o) \/ RestoreRef(o)
         \/ \E e \in Experiments, s \in Sources :
              \/ \E seen \in BOOLEAN : CreateFromSource(o, e, s, seen)
              \/ CreateFromExperiment(o, e, s)
         \/ InsertExperiment(o)
         \/ Dies(o)
    \/ \E s \in Sources : UnarchiveSource(s) \/ NewVersion(s)
    \/ \E e \in Experiments : SetExperiment(e)

SourceSpec == SourceInit /\ [][SourceNext]_sourceVars

---------------------------------------------------------------------------
(* Properties                                                              *)

\* Rows and refs that the schema admits; every experiment row names a source.
SourceTypeOK ==
    /\ source \in [Sources -> [status : Statuses \cup {"none", "removed"}, tree : Trees]]
    /\ refs \subseteq Sources /\ lost \subseteq Sources
    /\ defaults \in Seq(Sources) /\ byId \subseteq 2..Latest
    /\ user \in [Experiments -> [status : {"none", "open", "archived"},
                                 src : Sources \cup {NoSource}]]
    /\ \A e \in Experiments : user[e].src = NoSource <=> user[e].status = "none"
    /\ held \in [Processes ->
          [cmd : {"none", "insert", "archive", "deleteref", "deleterow",
                  "restoreref", "create"},
           src : Sources \cup {NoSource}, tree : Trees,
           exp : Experiments \cup {NoSource}, version : 0..MaxVersions, flag : BOOLEAN]]
    /\ stale \in BOOLEAN

\* A source with a row has its ref, so that experiments can start from it,
\* unless a removal under way holds the ref's commit or died holding it:
\* two removals of a source, one of which fails, must not lose the ref.
RefKept ==
    \A s \in Sources :
        HasRow(s) => \/ s \in refs
                     \/ s \in lost
                     \/ \E o \in Processes : held[o].src = s /\ Restores(o)

\* docs/spec_lifecycle.md:103: "If a source is referenced by any project config
\* version, remove always fails", so that a version can be shown and validated
\* again.  Not so if the version names it by its id.
DefaultsExist == \A v \in 1..Latest : HasRow(defaults[v])

\* It is so for the versions that name it by its ref, however imports, new
\* versions and removals overlap: removal looks at all versions, not the latest.
RefDefaultsExist == \A v \in (1..Latest) \ byId : HasRow(defaults[v])

\* Imports, however they overlap, and unarchive leave one active source per
\* tree: the promise of deduplication.
OneActivePerTree ==
    \A s, r \in Sources :
        source[s].status = "active" /\ source[r].status = "active" /\ s # r
            => source[s].tree # source[r].tree

\* docs/spec_project_source_experiment.md:355: "Source archive is allowed only
\* when the source is not the active default source."  So the latest config
\* version's default source is active if the version names it by its ref (by
\* its id: DefaultsExist), unless a source was archived by a process whose
\* project row was older than that version.
LatestRefDefaultActive ==
    ~stale /\ Latest \notin byId => source[defaults[Latest]].status = "active"

===========================================================================
