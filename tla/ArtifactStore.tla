--------------------------- MODULE ArtifactStore ---------------------------
(***************************************************************************)
(* The files of one project: artifact blobs, named by their content and    *)
(* shared by every row that captured it, log files, and the worktrees and  *)
(* branches of experiments; and their removal.                             *)
(*                                                                         *)
(* Files and rows change in separate steps.  A removal reads what it will  *)
(* take, moves the paths to a trash directory of its own, deletes the rows *)
(* in a transaction, and then deletes the trash; if the transaction fails  *)
(* it moves the paths back, as far as it can.  A process may be killed     *)
(* between any two.                                                        *)
(***************************************************************************)
EXTENDS Naturals, FiniteSets

CONSTANTS
    Calls,         \* of the CLI; a run or validation has the name of its creator
    Experiments,   \* of the project
    Files,         \* contents of artifacts (a log file is one that only one owner has)
    NoExperiment,  \* that of a validation
    Concurrent     \* TRUE: outputs may be captured while a removal is going on

VARIABLES
    exps,      \* experiments that have a row
    owners,    \* runs and validations that have a row, with their experiment
    outputs,   \* rows of artifacts and log_streams
    archived,  \* what of the three is archived
    store,     \* paths that are there: blobs, and worktrees by experiment
    branches,  \* experiments whose branch ref is there
    trash,     \* paths in the trash, by the removal that put them there
    entries,   \* cache_entries of kind trash: removal, path, whether active
    phase,     \* where each invocation stands
    work       \* what it is about, and has still to do

storeVars == <<exps, owners, outputs, archived, store, branches, trash, entries, phase, work>>
rows == <<exps, owners, outputs, archived>>

Paths == Files \cup Experiments
Owner == [id : Calls, exp : Experiments \cup {NoExperiment}]
Output == [owner : Owner, file : Files]
Entry == [op : Calls, path : Paths, active : BOOLEAN]
Targets == Output \cup Owner \cup Experiments      \* what a removal can be of
NoWork == [target |-> NoExperiment, paths |-> {}, branch |-> FALSE, strict |-> FALSE]
\* branch: has deleted that of its target and not put it back
Work == [target : Targets \cup {NoExperiment}, paths : SUBSET Paths,
         branch : BOOLEAN, strict : BOOLEAN]
\* unrestored: ended with an error, and with something not put back;
\* unrecorded: ended because it could not record what is left in its trash
Phases == {"idle", "capturing", "staging", "unbranching", "deleting", "restoring",
           "finalizing", "ended", "unrestored", "unrecorded", "crashed"}
Removing == {"staging", "unbranching", "deleting", "restoring", "finalizing"}

ASSUME StoreConstants ==
    /\ Files \cap Experiments = {}
    /\ Experiments \cap (Owner \cup Output) = {}    \* an id is no row
    /\ NoExperiment \notin Experiments
    /\ Concurrent \in BOOLEAN

StoreInit ==
    /\ exps = Experiments /\ owners = {} /\ outputs = {} /\ archived = {}
    /\ store = Experiments /\ branches = Experiments
    /\ trash = {} /\ entries = {}
    /\ phase = [o \in Calls |-> "idle"]
    /\ work = [o \in Calls |-> NoWork]

Proceed(o, label) == phase' = [phase EXCEPT ![o] = label]
Finish(o) == Proceed(o, "ended") /\ work' = [work EXCEPT ![o] = NoWork]

Busy(e) == \E o \in Calls : phase[o] = "capturing" /\ work[o].target.exp = e

(***************************************************************************)
(* A run or a validation records its outputs: each file is written unless  *)
(* one of that content exists; the rows come later, in the transaction of  *)
(* the result.                                                             *)
(***************************************************************************)
StartCapture(o, e) ==
    LET owner == [id |-> o, exp |-> e] IN
    /\ phase[o] = "idle" /\ e \in exps \cup {NoExperiment} /\ e \notin archived
    /\ ~Concurrent => \A p \in Calls : phase[p] \notin Removing
    /\ owners' = owners \cup {owner}
    /\ work' = [work EXCEPT ![o].target = owner]
    /\ Proceed(o, "capturing")
    /\ UNCHANGED <<exps, outputs, archived, store, branches, trash, entries>>

CaptureFile(o, f) ==
    /\ phase[o] = "capturing" /\ f \notin work[o].paths
    /\ store' = store \cup {f}
    /\ work' = [work EXCEPT ![o].paths = @ \cup {f}]
    /\ UNCHANGED <<rows, branches, trash, entries, phase>>

RecordOutputs(o) ==
    /\ phase[o] = "capturing"
    /\ outputs' = outputs \cup [owner : {work[o].target}, file : work[o].paths]
    /\ Finish(o)
    /\ UNCHANGED <<exps, owners, archived, store, branches, trash, entries>>

(***************************************************************************)
(* Archive and unarchive of an artifact or log, a run or validation, or an *)
(* experiment: each is a transaction.  The lock of a run keeps its         *)
(* experiment from being archived.                                         *)
(***************************************************************************)
SetArchived(x) ==
    /\ x \in outputs \cup owners \cup exps
    /\ x \in exps => ~Busy(x)
    /\ archived' = IF x \in archived THEN archived \ {x} ELSE archived \cup {x}
    /\ UNCHANGED <<exps, owners, outputs, store, branches, trash, entries, phase, work>>

(***************************************************************************)
(* Removal.  The rows that go with an artifact or log, with a run or       *)
(* validation, and with an experiment:                                     *)
(***************************************************************************)
(* Mutant of OutputRows: an experiment leaves its outputs behind.           *)
OutputRowsOfOwner(x) == {r \in outputs : r = x \/ r.owner = x}

OutputRows(x) == {r \in outputs : r = x \/ r.owner = x \/ r.owner.exp = x}

(* Mutant of Unshared: whoever else refers to a file, it goes.             *)
FilesOf(x) == {r.file : r \in OutputRows(x)}

(* The files to remove: those that no row outside refers to.               *)
Unshared(x) ==
    {r.file : r \in OutputRows(x)} \ {r.file : r \in outputs \ OutputRows(x)}

RemovePreflight(o, x) ==
    /\ phase[o] = "idle" /\ x \in archived
    /\ ~Concurrent => \A p \in Calls : phase[p] # "capturing"
    /\ x \in exps => ~Busy(x)
    /\ x \in owners => OutputRows(x) \subseteq archived
    /\ work' = [work EXCEPT ![o].target = x,
                          ![o].paths = Unshared(x) \cup ({x} \cap exps)]
    /\ Proceed(o, "staging")
    /\ UNCHANGED <<rows, store, branches, trash, entries>>

Staged(o) == {p \in Paths : <<o, p>> \in trash}

(* One path is renamed into the trash, or is not there any more.           *)
Stage(o, p) ==
    /\ phase[o] = "staging" /\ p \in work[o].paths
    /\ store' = store \ {p}
    /\ trash' = IF p \in store THEN trash \cup {<<o, p>>} ELSE trash
    /\ work' = [work EXCEPT ![o].paths = @ \ {p}]
    /\ UNCHANGED <<rows, branches, entries, phase>>

(* A rename fails: what was moved is moved back, as far as it goes.        *)
StageFails(o) ==
    /\ phase[o] = "staging" /\ work[o].paths # {}
    /\ work' = [work EXCEPT ![o].paths = Staged(o)]
    /\ Proceed(o, "restoring")
    /\ UNCHANGED <<rows, store, branches, trash, entries>>

AllStaged(o) ==
    /\ phase[o] = "staging" /\ work[o].paths = {}
    /\ Proceed(o, IF work[o].target \in Experiments THEN "unbranching" ELSE "deleting")
    /\ UNCHANGED <<rows, store, branches, trash, entries, work>>

DeleteBranch(o) ==
    /\ phase[o] = "unbranching"
    /\ work' = [work EXCEPT ![o].branch = work[o].target \in branches]
    /\ branches' = branches \ {work[o].target}
    /\ Proceed(o, "deleting")
    /\ UNCHANGED <<rows, store, trash, entries>>

(* The transaction reads no blocker again.                                 *)
DeleteRows(o) ==
    LET x == work[o].target
        gone == OutputRows(x) \cup {x} \cup {w \in owners : w.exp = x}
    IN
    /\ phase[o] = "deleting"
    /\ exps' = exps \ gone
    /\ owners' = owners \ gone
    /\ outputs' = outputs \ gone
    /\ archived' = archived \ gone
    /\ work' = [work EXCEPT ![o].paths = Staged(o)]
    /\ Proceed(o, "finalizing")
    /\ UNCHANGED <<store, branches, trash, entries>>

(* Mutant of Rebranched: a deleted branch is not put back.                 *)
NotRebranched(o) == branches

Rebranched(o) == IF work[o].branch THEN branches \cup {work[o].target} ELSE branches

(***************************************************************************)
(* The branch cannot be deleted, or the transaction fails.  The branch is  *)
(* put back if it was deleted; when that fails the paths are moved back    *)
(* all the same.                                                           *)
(***************************************************************************)
DeleteFails(o) ==
    /\ phase[o] \in {"unbranching", "deleting"}
    /\ \/ /\ branches' = Rebranched(o)
          /\ work' = [work EXCEPT ![o].paths = Staged(o), ![o].strict = TRUE, ![o].branch = FALSE]
       \/ /\ work[o].branch /\ UNCHANGED branches
          /\ work' = [work EXCEPT ![o].paths = Staged(o), ![o].strict = TRUE]
    /\ Proceed(o, "restoring")
    /\ UNCHANGED <<rows, store, trash, entries>>

(***************************************************************************)
(* A staged path is renamed back.  If something is there again, or the     *)
(* rename fails, a failed staging leaves it in the trash and goes on with  *)
(* the others, and a failed transaction gives up.                          *)
(***************************************************************************)
Restore(o, p) ==
    /\ phase[o] = "restoring" /\ p \in work[o].paths
    /\ UNCHANGED <<rows, branches, entries>>
    /\ \/ /\ p \notin store
          /\ store' = store \cup {p} /\ trash' = trash \ {<<o, p>>}
          /\ work' = [work EXCEPT ![o].paths = @ \ {p}] /\ UNCHANGED phase
       \/ /\ ~work[o].strict
          /\ work' = [work EXCEPT ![o].paths = @ \ {p}] /\ UNCHANGED <<store, trash, phase>>
       \/ /\ work[o].strict
          /\ Proceed(o, "unrestored") /\ UNCHANGED <<store, trash, work>>

AllRestored(o) ==
    /\ phase[o] = "restoring" /\ work[o].paths = {}
    /\ \/ /\ work[o].branch \/ Staged(o) # {}
          /\ Proceed(o, "unrestored") /\ UNCHANGED work
       \/ ~work[o].branch /\ Staged(o) = {} /\ Finish(o)
    /\ UNCHANGED <<rows, store, branches, trash, entries>>

Finalized(o) ==
    /\ phase[o] = "finalizing" /\ work[o].paths = {}
    /\ Finish(o) /\ UNCHANGED <<rows, store, branches, trash, entries>>

DeleteTrash(o, p) ==
    /\ phase[o] = "finalizing" /\ p \in work[o].paths
    /\ trash' = trash \ {<<o, p>>}
    /\ work' = [work EXCEPT ![o].paths = @ \ {p}]
    /\ UNCHANGED <<rows, store, branches, entries, phase>>

(* Mutant of Pending: the failure is not recorded.                         *)
NotPending(o, p) == entries

Pending(o, p) == entries \cup {[op |-> o, path |-> p, active |-> TRUE]}

(***************************************************************************)
(* Its deletion fails: a cache entry remembers it.  The key of the entry   *)
(* is the removal, and active keys are unique: the row of a second failure *)
(* cannot be inserted, which ends the command, as any failure to write it. *)
(***************************************************************************)
DeleteTrashFails(o, p) ==
    /\ phase[o] = "finalizing" /\ p \in work[o].paths
    /\ \/ /\ ~\E e \in entries : e.op = o /\ e.active
          /\ entries' = Pending(o, p)
          /\ work' = [work EXCEPT ![o].paths = @ \ {p}] /\ UNCHANGED phase
       \/ Proceed(o, "unrecorded") /\ UNCHANGED <<entries, work>>
    /\ UNCHANGED <<rows, store, branches, trash>>

(***************************************************************************)
(* cache prune, in one transaction: some active entries (old enough) lose  *)
(* their paths, then they are marked; when it fails the marks are undone   *)
(* and the paths are gone all the same.                                    *)
(***************************************************************************)
PruneTrash(S) == trash \ {<<e.op, e.path>> : e \in S}

CachePrune(S, fails) ==
    /\ S # {} /\ \A e \in S : e.active
    /\ trash' = PruneTrash(S)
    /\ entries' = IF fails THEN entries
                  ELSE (entries \ S) \cup {[e EXCEPT !.active = FALSE] : e \in S}
    /\ UNCHANGED <<rows, store, branches, phase, work>>

Killed(o) ==
    /\ phase[o] \in Removing \cup {"capturing"}
    /\ Proceed(o, "crashed")
    /\ UNCHANGED <<rows, store, branches, trash, entries, work>>

StoreStep(o) ==
    \/ \E e \in Experiments \cup {NoExperiment} : StartCapture(o, e)
    \/ \E f \in Files : CaptureFile(o, f)
    \/ RecordOutputs(o)
    \/ \E x \in archived : RemovePreflight(o, x)
    \/ \E p \in Paths : Stage(o, p) \/ Restore(o, p) \/ DeleteTrash(o, p) \/ DeleteTrashFails(o, p)
    \/ StageFails(o) \/ AllStaged(o) \/ DeleteBranch(o)
    \/ DeleteRows(o) \/ DeleteFails(o) \/ AllRestored(o) \/ Finalized(o) \/ Killed(o)

StoreNext ==
    \/ \E o \in Calls : StoreStep(o)
    \/ \E x \in outputs \cup owners \cup exps : SetArchived(x)
    \/ \E S \in SUBSET entries, fails \in BOOLEAN : CachePrune(S, fails)

StoreSpec == StoreInit /\ [][StoreNext]_storeVars

-----------------------------------------------------------------------------
(***************************************************************************)
(* Properties.                                                             *)
(***************************************************************************)

(* Every variable has its type, and every row has the rows it belongs to.  *)
StoreTypeOK ==
    /\ exps \subseteq Experiments /\ owners \subseteq Owner /\ outputs \subseteq Output
    /\ \A r \in outputs : r.owner \in owners
    /\ \A w \in owners : w.exp \in exps \cup {NoExperiment}
    /\ archived \subseteq outputs \cup owners \cup exps
    /\ store \subseteq Paths /\ branches \subseteq Experiments
    /\ trash \subseteq Calls \X Paths /\ entries \subseteq Entry
    /\ phase \in [Calls -> Phases] /\ work \in [Calls -> Work]

(* The bytes that a row refers to are in the store or at least in a trash, *)
(* whatever removals share them, overlap, fail or are killed: a removal    *)
(* takes no file that another row needs (`_artifact_log_filesystem_targets`*)
(* and the queries of an experiment's removal).  Not so if outputs are     *)
(* captured while a removal is going on.                                   *)
BytesKept ==
    ~Concurrent =>
        \A r \in outputs : r.file \in store \/ \E o \in Calls : <<o, r.file>> \in trash

(* The worktree of an experiment that has its row is there, or in the      *)
(* trash of a removal of it that goes on, was killed, or failed and could  *)
(* not put it back; and so with its branch, which only such a removal has  *)
(* deleted.  Nothing else takes them, and nothing, a prune included,       *)
(* destroys the worktree before the row.  (Unless outputs are captured     *)
(* meanwhile: a blob that is there again stops the restoration before the  *)
(* worktree's turn.)                                                       *)
Unfinished(o, e) ==
    work[o].target = e /\ phase[o] \in Removing \cup {"crashed", "unrestored"}

ExperimentIntact ==
    ~Concurrent =>
        \A e \in exps :
            /\ e \in store \/ \E o \in Calls : Unfinished(o, e) /\ <<o, e>> \in trash
            /\ e \in branches \/ \E o \in Calls : Unfinished(o, e) /\ work[o].branch

Recorded(o, p) == [op |-> o, path |-> p, active |-> TRUE] \in entries

(* A removal that ended, and neither failed to put back what it had moved  *)
(* nor to record what it could not delete, has left nothing in its trash   *)
(* but what an active entry names: also after other removals, prunes and   *)
(* failed prunes.                                                          *)
TrashRecorded ==
    ~Concurrent => \A o \in Calls : phase[o] = "ended" => \A p \in Staged(o) : Recorded(o, p)
=============================================================================
