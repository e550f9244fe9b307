------------------------ MODULE ArtifactStore_proofs ------------------------
(***************************************************************************)
(* Proofs about the files of a project, for projects in which no outputs   *)
(* are captured while a removal is going on.  A path that is being removed *)
(* is in one place, and a removal takes nothing that a row outside it      *)
(* needs: the rows can not change under it.                                *)
(***************************************************************************)
EXTENDS ArtifactStore, TLAPS

Before == {"staging", "unbranching", "deleting"}

(* Captures and removals keep apart.                                       *)
Apart == \A o, p \in Calls : ~(phase[o] = "capturing" /\ phase[p] \in Removing)

(* What a removal may take: the worktree of the experiment it is of, and   *)
(* files that only rows refer to that go with it.                          *)
MayTake(x, p) ==
    IF p \in Experiments THEN p = x ELSE \A r \in outputs : r.file = p => r \in OutputRows(x)

(* What an invocation has done and knows.                                  *)
WorkOK(o) ==
    /\ phase[o] = "idle" => work[o] = NoWork
    /\ phase[o] \in {"idle", "capturing"} => Staged(o) = {}
    /\ phase[o] = "capturing" => work[o].target \in owners /\ work[o].paths \subseteq Files \cap store
    /\ phase[o] \in Removing => work[o].target \in Targets
    /\ work[o].branch => work[o].target \in Experiments
    /\ phase[o] \in Before => \A p \in work[o].paths \cup Staged(o) : MayTake(work[o].target, p)
    /\ phase[o] = "restoring" => work[o].paths \subseteq Staged(o)
    /\ phase[o] = "finalizing" =>
          /\ work[o].target \notin exps
          /\ \A p \in Staged(o) : p \in work[o].paths \/ Recorded(o, p)
          /\ \A e \in entries : e.op = o => e.path \notin work[o].paths
    /\ phase[o] = "ended" => \A p \in Staged(o) : Recorded(o, p)

(* While it is being removed a path is in one place.                       *)
OneCopy ==
    \A o \in Calls : phase[o] \in Removing =>
        \A p \in Staged(o) :
            /\ p \notin store
            /\ \A q \in Calls : phase[q] \in Removing /\ p \in Staged(q) => q = o

(* Only a removal that has deleted its rows leaves an entry.               *)
Late == {"finalizing", "ended", "unrecorded", "crashed"}

EntriesLate ==
    \A e \in entries :
        /\ phase[e.op] \in Late
        /\ phase[e.op] # "ended" => work[e.op].target \notin exps

(* The bytes of a row are in the store, or in a trash that nobody empties. *)
Kept(o, f) ==
    /\ <<o, f>> \in trash /\ phase[o] # "finalizing"
    /\ \A e \in entries : e.op = o => e.path # f

BytesOK == \A r \in outputs : r.file \in store \/ \E o \in Calls : Kept(o, r.file)

(* The worktree and the branch of an experiment are there, or a removal    *)
(* that has not deleted its row has taken them.                            *)
HoldsTree(o, e) ==
    /\ phase[o] \in Before \cup {"restoring", "crashed", "unrestored"}
    /\ work[o].target = e /\ <<o, e>> \in trash

HoldsBranch(o, e) ==
    /\ phase[o] \in {"deleting", "restoring", "crashed", "unrestored"}
    /\ work[o].target = e /\ work[o].branch

TreesOK == \A e \in exps : e \in store \/ \E o \in Calls : HoldsTree(o, e)

BranchesOK == \A e \in exps : e \in branches \/ \E o \in Calls : HoldsBranch(o, e)

Inv == /\ StoreTypeOK /\ Apart /\ (\A o \in Calls : WorkOK(o)) /\ OneCopy /\ EntriesLate
       /\ BytesOK /\ TreesOK /\ BranchesOK

(* What is in the trash of an invocation.                                  *)
LEMMA StagedIs ==
    ASSUME StoreTypeOK, NEW o \in Calls
    PROVE  /\ \A p \in Paths : p \in Staged(o) <=> <<o, p>> \in trash
           /\ Staged(o) \subseteq Paths
           /\ \A p : <<o, p>> \in trash => p \in Staged(o)
BY DEF Staged, StoreTypeOK

(* What an invocation knows stays true while another one takes a step: a   *)
(* capture is not disturbed by a removal, nor a removal by a capture.      *)
LEMMA WorkStays ==
    ASSUME NEW o \in Calls, WorkOK(o), phase'[o] = phase[o], work'[o] = work[o], Staged(o)' = Staged(o),
           \A e \in entries \cup entries' : e.op = o => e \in entries /\ e \in entries',
           exps' \subseteq exps,
           phase[o] = "capturing" => owners \subseteq owners' /\ store \subseteq store',
           phase[o] \in Removing => outputs' \subseteq outputs
    PROVE  WorkOK(o)'
<1>1. phase[o] \in Before => outputs' \subseteq outputs
  BY DEF Before, Removing
<1>2. ASSUME phase[o] \in Before, NEW p \in work[o].paths \cup Staged(o)
      PROVE  MayTake(work[o].target, p)'
  <2>1. MayTake(work[o].target, p)
    BY <1>2 DEF WorkOK
  <2>2. PICK x : x = work[o].target
    OBVIOUS
  <2>3. \A r \in outputs' : r \in OutputRows(x) => r \in OutputRows(x)'
    BY DEF OutputRows
  <2>4. MayTake(x, p)'
    BY <1>1, <1>2, <2>1, <2>2, <2>3 DEF MayTake
  <2>5. QED
    BY <2>2, <2>4 DEF MayTake, OutputRows
<1>3. phase'[o] \in Before => \A p \in work'[o].paths \cup Staged(o)' : MayTake(work[o].target, p)'
  BY <1>2
<1>4. phase'[o] = "finalizing" =>
          /\ work'[o].target \notin exps'
          /\ \A p \in Staged(o)' : p \in work'[o].paths \/ Recorded(o, p)'
          /\ \A e \in entries' : e.op = o => e.path \notin work'[o].paths
  BY DEF WorkOK, Recorded
<1>5. phase'[o] = "ended" => \A p \in Staged(o)' : Recorded(o, p)'
  BY DEF WorkOK, Recorded
<1>6. QED
  BY <1>3, <1>4, <1>5 DEF WorkOK

(* Nothing comes back into the store under a removal, and no removal finds *)
(* what another one has moved.                                             *)
LEMMA OneCopyStays ==
    ASSUME OneCopy,
           \A p \in Calls : phase'[p] \in Removing =>
              \/ Staged(p)' = {}
              \/ phase[p] \in Removing /\ Staged(p)' \subseteq Staged(p),
           store' \subseteq store \/ \A p \in Calls : phase'[p] \notin Removing
    PROVE  OneCopy'
BY DEF OneCopy

(* Entries stay late as long as none is added.                             *)
LEMMA EntriesStay ==
    ASSUME StoreTypeOK, EntriesLate, exps' \subseteq exps,
           \A e \in entries' : \E d \in entries : d.op = e.op,
           \A p \in Calls : phase[p] \in Late =>
               /\ phase'[p] \in Late
               /\ phase'[p] # "ended" => phase[p] # "ended" /\ work'[p].target = work[p].target
    PROVE  EntriesLate'
<1> SUFFICES ASSUME NEW e \in entries'
    PROVE  /\ phase'[e.op] \in Late
           /\ phase'[e.op] # "ended" => work'[e.op].target \notin exps'
  BY DEF EntriesLate, Late
<1>1. PICK d \in entries : d.op = e.op
  OBVIOUS
<1>2. d.op \in Calls
  BY DEF StoreTypeOK, Entry
<1>3. QED
  BY <1>1, <1>2 DEF EntriesLate, Late

(* The bytes stay where they are, but for rows that are deleted.           *)
LEMMA BytesStay ==
    ASSUME BytesOK, outputs' \subseteq outputs,
           \A r \in outputs' : r.file \in store =>
               r.file \in store' \/ \E o \in Calls : Kept(o, r.file)',
           \A r \in outputs', o \in Calls : Kept(o, r.file) => r.file \in store' \/ Kept(o, r.file)'
    PROVE  BytesOK'
<1> SUFFICES ASSUME NEW r \in outputs'
    PROVE  r.file \in store' \/ \E o \in Calls : Kept(o, r.file)'
  BY DEF BytesOK
<1>1. r.file \in store \/ \E o \in Calls : Kept(o, r.file)
  BY DEF BytesOK
<1>2. QED
  BY <1>1

(* Worktrees stay where they are.                                          *)
LEMMA TreesStay ==
    ASSUME TreesOK, exps' \subseteq exps,
           \A e \in exps' : e \in store => e \in store' \/ \E o \in Calls : HoldsTree(o, e)',
           \A e \in exps', o \in Calls : HoldsTree(o, e) => e \in store' \/ HoldsTree(o, e)'
    PROVE  TreesOK'
<1> SUFFICES ASSUME NEW e \in exps' PROVE e \in store' \/ \E o \in Calls : HoldsTree(o, e)'
  BY DEF TreesOK
<1>1. e \in store \/ \E o \in Calls : HoldsTree(o, e)
  BY DEF TreesOK
<1>2. QED
  BY <1>1

(* And so do branches.                                                     *)
LEMMA BranchesStay ==
    ASSUME BranchesOK, exps' \subseteq exps,
           \A e \in exps' : e \in branches => e \in branches' \/ \E o \in Calls : HoldsBranch(o, e)',
           \A e \in exps', o \in Calls : HoldsBranch(o, e) => e \in branches' \/ HoldsBranch(o, e)'
    PROVE  BranchesOK'
<1> SUFFICES ASSUME NEW e \in exps' PROVE e \in branches' \/ \E o \in Calls : HoldsBranch(o, e)'
  BY DEF BranchesOK
<1>1. e \in branches \/ \E o \in Calls : HoldsBranch(o, e)
  BY DEF BranchesOK
<1>2. QED
  BY <1>1

(* The initial state.                                                      *)
LEMMA InitInv == ASSUME StoreInit PROVE Inv
<1>1. StoreTypeOK
  BY DEF StoreInit, StoreTypeOK, Paths, Phases, Work, NoWork
<1>2. QED
  BY <1>1 DEF StoreInit, Inv, Apart, WorkOK, NoWork, OneCopy, EntriesLate, BytesOK, TreesOK, BranchesOK,
     Removing, Before, Staged

(* An invocation that moves no file and deletes no row goes on.            *)
LEMMA GoesOn ==
    ASSUME Inv, NEW o \in Calls, UNCHANGED <<exps, outputs, store, trash, entries>>,
           owners \subseteq owners',
           \A p \in Calls \ {o} : phase'[p] = phase[p] /\ work'[p] = work[p],
           StoreTypeOK', BranchesOK', WorkOK(o)',
           phase'[o] = "capturing" => phase[o] = "capturing" \/ \A p \in Calls : phase[p] \notin Removing,
           phase'[o] \in Removing => \/ phase[o] \in Removing
                                     \/ Staged(o) = {} /\ \A p \in Calls : phase[p] # "capturing",
           phase'[o] = "finalizing" => phase[o] = "finalizing",
           phase[o] \in Late => /\ phase'[o] \in Late
                                /\ phase'[o] # "ended" => phase[o] # "ended" /\ work'[o].target = work[o].target,
           \A e \in exps : HoldsTree(o, e) => HoldsTree(o, e)'
    PROVE  Inv'
<1>1. \A p \in Calls : Staged(p)' = Staged(p)
  BY DEF Staged
<1>2. Apart'
  BY DEF Inv, Apart, Removing
<1>3. \A p \in Calls : WorkOK(p)'
  <2>1. ASSUME NEW p \in Calls \ {o} PROVE WorkOK(p)'
    BY <1>1, WorkStays DEF Inv
  <2>2. QED
    BY <2>1
<1>4. OneCopy'
  BY <1>1, OneCopyStays DEF Inv
<1>5. EntriesLate'
  BY EntriesStay DEF Inv
<1>6. BytesOK'
  <2>1. \A r \in outputs', p \in Calls : Kept(p, r.file) => Kept(p, r.file)'
    BY DEF Kept
  <2>2. QED
    BY <2>1, BytesStay DEF Inv
<1>7. TreesOK'
  <2>1. \A e \in exps', p \in Calls : HoldsTree(p, e) => HoldsTree(p, e)'
    BY DEF HoldsTree
  <2>2. QED
    BY <2>1, TreesStay DEF Inv
<1>8. QED
  BY <1>2, <1>3, <1>4, <1>5, <1>6, <1>7 DEF Inv

(* Where an invocation goes, the others stay.                              *)
LEMMA Gone ==
    ASSUME StoreTypeOK, NEW o \in Calls, NEW label \in Phases, Proceed(o, label)
    PROVE  phase' \in [Calls -> Phases] /\ phase'[o] = label /\ \A p \in Calls \ {o} : phase'[p] = phase[p]
BY DEF StoreTypeOK, Proceed

(* An invocation that ends forgets what it knew.                           *)
LEMMA Ended ==
    ASSUME StoreTypeOK, NEW o \in Calls, Finish(o)
    PROVE  /\ phase' \in [Calls -> Phases] /\ phase'[o] = "ended"
           /\ work' \in [Calls -> Work] /\ work'[o] = NoWork
           /\ \A p \in Calls \ {o} : phase'[p] = phase[p] /\ work'[p] = work[p]
<1>1. NoWork \in Work
  BY DEF NoWork, Work
<1>2. QED
  BY <1>1 DEF StoreTypeOK, Finish, Proceed, Phases

(* Branches that nobody touches stay.                                      *)
LEMMA SameBranches ==
    ASSUME BranchesOK, UNCHANGED <<exps, branches>>,
           \A e \in exps, p \in Calls : HoldsBranch(p, e) => HoldsBranch(p, e)'
    PROVE  BranchesOK'
BY BranchesStay

(* A run or a validation begins.                                           *)
LEMMA StartCaptureInv ==
    ASSUME ~Concurrent, Inv, NEW o \in Calls, NEW e \in Experiments \cup {NoExperiment}, StartCapture(o, e)
    PROVE  Inv'
<1> DEFINE owner == [id |-> o, exp |-> e]
<1>1. owner \in Owner
  BY DEF Owner
<1>2. /\ phase[o] = "idle" /\ \A p \in Calls : phase[p] \notin Removing
      /\ e \in exps \cup {NoExperiment} /\ owners' = owners \cup {owner}
      /\ Proceed(o, "capturing") /\ work' = [work EXCEPT ![o].target = owner]
      /\ UNCHANGED <<exps, outputs, archived, store, branches, trash, entries>>
  BY DEF StartCapture
<1>3. phase' \in [Calls -> Phases] /\ phase'[o] = "capturing" /\ \A p \in Calls \ {o} : phase'[p] = phase[p]
  BY <1>2, Gone DEF Inv, Phases
<1>4. work[o] = NoWork /\ Staged(o) = {}
  BY <1>2 DEF Inv, WorkOK
<1>5. /\ [work[o] EXCEPT !.target = owner] \in Work
      /\ [work[o] EXCEPT !.target = owner].target = owner
      /\ [work[o] EXCEPT !.target = owner].paths = {}
      /\ ~[work[o] EXCEPT !.target = owner].branch
  <2>1. work[o] \in Work
    BY DEF Inv, StoreTypeOK
  <2>2. work[o].paths = {} /\ ~work[o].branch
    BY <1>4 DEF NoWork
  <2>3. owner \in Targets
    BY <1>1 DEF Targets
  <2> HIDE DEF owner
  <2>4. QED
    BY <2>1, <2>2, <2>3 DEF Work
<1>6. /\ work' \in [Calls -> Work] /\ work'[o].target = owner /\ work'[o].paths = {}
      /\ ~work'[o].branch
      /\ \A p \in Calls \ {o} : work'[p] = work[p]
  BY <1>2, <1>5 DEF Inv, StoreTypeOK
<1>7. StoreTypeOK'
  BY <1>1, <1>2, <1>3, <1>6 DEF Inv, StoreTypeOK, Owner
<1>8. WorkOK(o)'
  <2>1. Staged(o)' = {}
    BY <1>2, <1>4 DEF Staged
  <2>2. QED
    BY <1>2, <1>3, <1>6, <2>1 DEF WorkOK, Removing, Before
<1>9. BranchesOK'
  BY <1>2, <1>3, <1>6, SameBranches DEF Inv, HoldsBranch
<1>10. \A x \in exps : HoldsTree(o, x) => HoldsTree(o, x)'
  BY <1>2 DEF HoldsTree, Before
<1>11. QED
  BY <1>2, <1>3, <1>6, <1>7, <1>8, <1>9, <1>10, GoesOn DEF Late, Removing

(* A removal begins: it may take what it read.                             *)
LEMMA PreflightInv ==
    ASSUME ~Concurrent, Inv, NEW o \in Calls, NEW x \in archived, RemovePreflight(o, x)
    PROVE  Inv'
<1> DEFINE l == [work[o] EXCEPT !.target = x, !.paths = Unshared(x) \cup ({x} \cap exps)]
<1>1. /\ phase[o] = "idle" /\ \A p \in Calls : phase[p] # "capturing"
      /\ Proceed(o, "staging") /\ work' = [work EXCEPT ![o] = l]
      /\ UNCHANGED <<exps, owners, outputs, archived, store, branches, trash, entries>>
  BY DEF RemovePreflight, rows
<1>2. phase' \in [Calls -> Phases] /\ phase'[o] = "staging" /\ \A p \in Calls \ {o} : phase'[p] = phase[p]
  BY <1>1, Gone DEF Inv, Phases
<1>3. work[o] \in Work /\ Staged(o) = {} /\ ~work[o].branch
  BY <1>1 DEF Inv, WorkOK, StoreTypeOK, NoWork
<1>4. x \in Targets
  BY DEF Inv, StoreTypeOK, Targets
<1>5. Unshared(x) \subseteq Files
  BY DEF Unshared, OutputRows, Inv, StoreTypeOK, Output
<1>6. l \in Work /\ l.target = x /\ l.paths = Unshared(x) \cup ({x} \cap exps) /\ ~l.branch
  BY <1>3, <1>4, <1>5 DEF Work, Paths, Inv, StoreTypeOK
<1>7. work' \in [Calls -> Work] /\ work'[o] = l /\ \A p \in Calls \ {o} : work'[p] = work[p]
  BY <1>1, <1>6 DEF Inv, StoreTypeOK
<1>8. StoreTypeOK'
  BY <1>1, <1>2, <1>7 DEF Inv, StoreTypeOK
<1>9. \A p \in l.paths : MayTake(x, p)
  <2>1. \A p \in Unshared(x) : MayTake(x, p)
    BY <1>5, StoreConstants DEF Unshared, MayTake
  <2>2. \A p \in {x} \cap exps : MayTake(x, p)
    BY DEF MayTake, Inv, StoreTypeOK
  <2>3. QED
    BY <1>6, <2>1, <2>2
<1>10. WorkOK(o)'
  <2>1. Staged(o)' = {}
    BY <1>1, <1>3 DEF Staged
  <2>2. \A p \in l.paths : MayTake(x, p)'
    BY <1>1, <1>9 DEF MayTake, OutputRows
  <2>3. \A p \in work'[o].paths \cup Staged(o)' : MayTake(work[o].target, p)'
    BY <1>6, <1>7, <2>1, <2>2 DEF MayTake, OutputRows
  <2>4. QED
    BY <1>2, <1>4, <1>6, <1>7, <2>3 DEF WorkOK, Removing, Before
<1>11. BranchesOK'
  BY <1>1, <1>2, <1>7, SameBranches DEF Inv, HoldsBranch
<1>12. \A e \in exps : HoldsTree(o, e) => HoldsTree(o, e)'
  BY <1>1 DEF HoldsTree, Before
<1>13. QED
  BY <1>1, <1>2, <1>3, <1>7, <1>8, <1>10, <1>11, <1>12, GoesOn DEF Late, Removing

(* The removal goes on to the branch, or gives up, or the process ends.    *)
LEMMA StepsInv ==
    ASSUME ~Concurrent, Inv, NEW o \in Calls,
           StageFails(o) \/ AllStaged(o) \/ AllRestored(o) \/ Finalized(o) \/ Killed(o)
    PROVE  Inv'
<1>1. UNCHANGED <<exps, owners, outputs, archived, store, branches, trash, entries>>
  BY DEF StageFails, AllStaged, AllRestored, Finalized, Killed, rows
<1>2. work[o] \in Work /\ WorkOK(o) /\ StoreTypeOK
  BY DEF Inv, StoreTypeOK
<1>3. Staged(o) \subseteq Paths /\ Staged(o)' = Staged(o)
  BY <1>1, <1>2, StagedIs DEF Staged
<1>4. ASSUME phase' \in [Calls -> Phases], work' \in [Calls -> Work] PROVE StoreTypeOK'
  BY <1>1, <1>2, <1>4 DEF StoreTypeOK
<1>5. CASE StageFails(o)
  <2> DEFINE l == [work[o] EXCEPT !.paths = Staged(o)]
  <2>1. phase[o] = "staging" /\ Proceed(o, "restoring") /\ work' = [work EXCEPT ![o] = l]
    BY <1>5 DEF StageFails
  <2>2. l \in Work /\ l.paths = Staged(o) /\ l.target = work[o].target
        /\ l.branch = work[o].branch
    BY <1>2, <1>3 DEF Work
  <2>3. /\ work' \in [Calls -> Work] /\ work'[o] = l /\ \A p \in Calls \ {o} : work'[p] = work[p]
    BY <1>2, <2>1, <2>2 DEF StoreTypeOK
  <2>4. phase' \in [Calls -> Phases] /\ phase'[o] = "restoring" /\ \A p \in Calls \ {o} : phase'[p] = phase[p]
    BY <1>2, <2>1, Gone DEF Phases
  <2>5. WorkOK(o)'
    BY <1>2, <1>3, <2>1, <2>2, <2>3, <2>4 DEF WorkOK, Before, Removing
  <2>6. BranchesOK'
    BY <1>1, <2>1, <2>3, <2>4, SameBranches DEF Inv, HoldsBranch
  <2>7. \A e \in exps : HoldsTree(o, e) => HoldsTree(o, e)'
    BY <1>1, <2>2, <2>3, <2>4 DEF HoldsTree
  <2>8. QED
    BY <1>1, <1>4, <2>1, <2>3, <2>4, <2>5, <2>6, <2>7, GoesOn DEF Late, Removing
<1>6. CASE AllStaged(o)
  <2>1. phase[o] = "staging" /\ work' = work
        /\ Proceed(o, IF work[o].target \in Experiments THEN "unbranching" ELSE "deleting")
    BY <1>6 DEF AllStaged
  <2>2. /\ phase' \in [Calls -> Phases] /\ phase'[o] \in {"unbranching", "deleting"}
        /\ \A p \in Calls \ {o} : phase'[p] = phase[p]
    BY <1>2, <2>1, Gone DEF Phases
  <2>3. WorkOK(o)'
    <3>1. \A p \in work[o].paths \cup Staged(o) : MayTake(work[o].target, p)
      BY <1>2, <2>1 DEF WorkOK, Before
    <3>2. \A p \in work'[o].paths \cup Staged(o)' : MayTake(work[o].target, p)'
      BY <1>1, <1>3, <2>1, <3>1 DEF MayTake, OutputRows
    <3>3. work[o].target \in Targets
      BY <1>2, <2>1 DEF WorkOK, Removing
    <3>4. QED
      BY <1>2, <2>1, <2>2, <3>2, <3>3 DEF WorkOK
  <2>4. BranchesOK'
    BY <1>1, <2>1, <2>2, SameBranches DEF Inv, HoldsBranch
  <2>5. \A e \in exps : HoldsTree(o, e) => HoldsTree(o, e)'
    BY <1>1, <2>1, <2>2 DEF HoldsTree, Before
  <2>6. QED
    BY <1>1, <1>2, <1>4, <2>1, <2>2, <2>3, <2>4, <2>5, GoesOn DEF Late, Removing, StoreTypeOK
<1>7. CASE AllRestored(o)
  <2>0. /\ phase[o] = "restoring" /\ work[o].paths = {}
        /\ IF work[o].branch \/ Staged(o) # {} THEN Proceed(o, "unrestored") /\ UNCHANGED work
           ELSE Finish(o)
    BY <1>7 DEF AllRestored
  <2>1. CASE work[o].branch \/ Staged(o) # {}
    <3>1. Proceed(o, "unrestored") /\ work' = work
      BY <2>0, <2>1
    <3>2. phase' \in [Calls -> Phases] /\ phase'[o] = "unrestored" /\ \A p \in Calls \ {o} : phase'[p] = phase[p]
      BY <1>2, <3>1, Gone DEF Phases
    <3>3. WorkOK(o)'
      BY <1>2, <3>1, <3>2 DEF WorkOK, Removing, Before
    <3>4. BranchesOK'
      BY <1>1, <3>1, <3>2, SameBranches DEF Inv, HoldsBranch
    <3>5. \A e \in exps : HoldsTree(o, e) => HoldsTree(o, e)'
      BY <1>1, <3>1, <3>2 DEF HoldsTree
    <3>6. QED
      BY <1>1, <1>2, <1>4, <2>0, <3>1, <3>2, <3>3, <3>4, <3>5, GoesOn DEF Late, Removing, StoreTypeOK
  <2>2. CASE ~work[o].branch /\ Staged(o) = {}
    <3>1. /\ phase' \in [Calls -> Phases] /\ phase'[o] = "ended" /\ work' \in [Calls -> Work]
          /\ work'[o] = NoWork /\ \A p \in Calls \ {o} : phase'[p] = phase[p] /\ work'[p] = work[p]
      BY <1>2, <2>0, <2>2, Ended
    <3>2. WorkOK(o)'
      BY <1>3, <2>2, <3>1 DEF WorkOK, NoWork, Removing, Before
    <3>3. BranchesOK'
      BY <1>1, <2>2, <3>1, SameBranches DEF Inv, HoldsBranch
    <3>4. \A e \in exps : ~HoldsTree(o, e)
      BY <1>2, <2>2, StagedIs DEF HoldsTree
    <3>5. QED
      BY <1>1, <1>4, <2>0, <3>1, <3>2, <3>3, <3>4, GoesOn DEF Late, Removing
  <2>3. QED
    BY <2>1, <2>2
<1>8. CASE Killed(o)
  <2>1. phase[o] \in Removing \cup {"capturing"} /\ Proceed(o, "crashed") /\ work' = work
    BY <1>8 DEF Killed
  <2>2. phase' \in [Calls -> Phases] /\ phase'[o] = "crashed" /\ \A p \in Calls \ {o} : phase'[p] = phase[p]
    BY <1>2, <2>1, Gone DEF Phases
  <2>3. WorkOK(o)'
    BY <1>2, <2>1, <2>2 DEF WorkOK, Removing, Before
  <2>4. BranchesOK'
    BY <1>1, <2>1, <2>2, SameBranches DEF Inv, HoldsBranch
  <2>5. \A e \in exps : HoldsTree(o, e) => HoldsTree(o, e)'
    BY <1>1, <2>1, <2>2 DEF HoldsTree
  <2>6. QED
    BY <1>1, <1>2, <1>4, <2>1, <2>2, <2>3, <2>4, <2>5, GoesOn DEF Late, Removing, StoreTypeOK
<1>9. CASE Finalized(o)
  <2>1. phase[o] = "finalizing" /\ work[o].paths = {} /\ Finish(o)
    BY <1>9 DEF Finalized
  <2>2. /\ phase' \in [Calls -> Phases] /\ phase'[o] = "ended" /\ work' \in [Calls -> Work]
        /\ work'[o] = NoWork /\ \A p \in Calls \ {o} : phase'[p] = phase[p] /\ work'[p] = work[p]
    BY <1>2, <2>1, Ended
  <2>3. \A p \in Staged(o)' : Recorded(o, p)'
    BY <1>1, <1>2, <1>3, <2>1 DEF WorkOK, Recorded
  <2>4. WorkOK(o)'
    BY <2>2, <2>3 DEF WorkOK, NoWork, Removing, Before
  <2>5. BranchesOK'
    BY <1>1, <2>1, <2>2, SameBranches DEF Inv, HoldsBranch
  <2>6. \A e \in exps : ~HoldsTree(o, e)
    BY <2>1 DEF HoldsTree, Before
  <2>7. QED
    BY <1>1, <1>4, <2>1, <2>2, <2>4, <2>5, <2>6, GoesOn DEF Late, Removing
<1>10. QED
  BY <1>5, <1>6, <1>7, <1>8, <1>9

(* The branch is deleted, or put back when the rows can not be deleted.    *)
LEMMA BranchInv ==
    ASSUME ~Concurrent, Inv, NEW o \in Calls, DeleteBranch(o) \/ DeleteFails(o) PROVE Inv'
<1>1. UNCHANGED <<exps, owners, outputs, archived, store, trash, entries>>
  BY DEF DeleteBranch, DeleteFails, rows
<1>2. work[o] \in Work /\ WorkOK(o) /\ StoreTypeOK
  BY DEF Inv, StoreTypeOK
<1>3. Staged(o) \subseteq Paths /\ Staged(o)' = Staged(o)
  BY <1>1, <1>2, StagedIs DEF Staged
<1>4. CASE DeleteBranch(o)
  <2> DEFINE l == [work[o] EXCEPT !.branch = work[o].target \in branches]
  <2>1. /\ phase[o] = "unbranching" /\ Proceed(o, "deleting") /\ work' = [work EXCEPT ![o] = l]
        /\ branches' = branches \ {work[o].target}
    BY <1>4 DEF DeleteBranch
  <2>2. l \in Work /\ l.paths = work[o].paths /\ l.target = work[o].target
        /\ (l.branch <=> work[o].target \in branches)
    <3>1. (work[o].target \in branches) \in BOOLEAN
      OBVIOUS
    <3>2. \A b \in BOOLEAN : LET m == [work[o] EXCEPT !.branch = b]
             IN m \in Work /\ m.paths = work[o].paths /\ m.target = work[o].target /\ m.branch = b
      BY <1>2 DEF Work
    <3>3. l \in Work /\ l.paths = work[o].paths /\ l.target = work[o].target
          /\ l.branch = (work[o].target \in branches)
      BY <3>1, <3>2
    <3>4. QED
      BY <3>3
  <2>3. /\ work' \in [Calls -> Work] /\ work'[o] = l /\ \A p \in Calls \ {o} : work'[p] = work[p]
    BY <1>2, <2>1, <2>2 DEF StoreTypeOK
  <2>4. phase' \in [Calls -> Phases] /\ phase'[o] = "deleting" /\ \A p \in Calls \ {o} : phase'[p] = phase[p]
    BY <1>2, <2>1, Gone DEF Phases
  <2>5. StoreTypeOK'
    BY <1>1, <1>2, <2>1, <2>3, <2>4 DEF StoreTypeOK
  <2>6. WorkOK(o)'
    <3>1. \A p \in work[o].paths \cup Staged(o) : MayTake(work[o].target, p)
      BY <1>2, <2>1 DEF WorkOK, Before
    <3>2. \A p \in work'[o].paths \cup Staged(o)' : MayTake(work[o].target, p)'
      BY <1>1, <1>3, <2>2, <2>3, <3>1 DEF MayTake, OutputRows
    <3>3. work'[o].target = work[o].target /\ work[o].target \in Targets
      BY <1>2, <2>1, <2>2, <2>3 DEF WorkOK, Removing
    <3>4. \A p \in work'[o].paths \cup Staged(o)' : MayTake(work[o].target, p)'
      BY <3>2
    <3>5. QED
      BY <1>2, <2>2, <2>3, <2>4, <3>3, <3>4 DEF WorkOK, StoreTypeOK
  <2>7. BranchesOK'
    <3>1. \A e \in exps : e \in branches => e \in branches' \/ HoldsBranch(o, e)'
      BY <2>1, <2>2, <2>3, <2>4 DEF HoldsBranch
    <3>2. \A e \in exps, p \in Calls : HoldsBranch(p, e) => HoldsBranch(p, e)'
      BY <2>1, <2>3, <2>4 DEF HoldsBranch
    <3>3. QED
      BY <1>1, <3>1, <3>2, BranchesStay DEF Inv
  <2>8. \A e \in exps : HoldsTree(o, e) => HoldsTree(o, e)'
    BY <1>1, <2>2, <2>3, <2>4 DEF HoldsTree, Before
  <2>9. QED
    BY <1>1, <2>1, <2>3, <2>4, <2>5, <2>6, <2>7, <2>8, GoesOn DEF Late, Removing
<1>5. CASE DeleteFails(o)
  <2>1. /\ phase[o] \in {"unbranching", "deleting"} /\ Proceed(o, "restoring")
        /\ \/ /\ branches' = Rebranched(o)
              /\ work' = [work EXCEPT ![o].paths = Staged(o), ![o].strict = TRUE, ![o].branch = FALSE]
           \/ /\ branches' = branches
              /\ work' = [work EXCEPT ![o].paths = Staged(o), ![o].strict = TRUE]
    BY <1>5 DEF DeleteFails
  <2>2. PICK l \in Work :
          /\ work' = [work EXCEPT ![o] = l] /\ l.paths = Staged(o) /\ l.target = work[o].target
          /\ \/ branches' = Rebranched(o) /\ ~l.branch
             \/ branches' = branches /\ l.branch = work[o].branch
    <3>1. CASE /\ branches' = Rebranched(o)
               /\ work' = [work EXCEPT ![o].paths = Staged(o), ![o].strict = TRUE, ![o].branch = FALSE]
      <4> DEFINE m == [work[o] EXCEPT !.paths = Staged(o), !.strict = TRUE, !.branch = FALSE]
      <4>1. m \in Work /\ m.paths = Staged(o) /\ m.target = work[o].target /\ ~m.branch
        BY <1>2, <1>3 DEF Work
      <4>2. work' = [work EXCEPT ![o] = m]
        BY <1>2, <3>1 DEF StoreTypeOK
      <4> HIDE DEF m
      <4>3. QED
        BY <3>1, <4>1, <4>2
    <3>2. CASE /\ branches' = branches
               /\ work' = [work EXCEPT ![o].paths = Staged(o), ![o].strict = TRUE]
      <4> DEFINE m == [work[o] EXCEPT !.paths = Staged(o), !.strict = TRUE]
      <4>1. /\ m \in Work /\ m.paths = Staged(o) /\ m.target = work[o].target
            /\ m.branch = work[o].branch
        BY <1>2, <1>3 DEF Work
      <4>2. work' = [work EXCEPT ![o] = m]
        BY <1>2, <3>2 DEF StoreTypeOK
      <4> HIDE DEF m
      <4>3. QED
        BY <3>2, <4>1, <4>2
    <3>3. QED
      BY <2>1, <3>1, <3>2
  <2>3. /\ work' \in [Calls -> Work] /\ work'[o] = l /\ \A p \in Calls \ {o} : work'[p] = work[p]
    BY <1>2, <2>2 DEF StoreTypeOK
  <2>4. phase' \in [Calls -> Phases] /\ phase'[o] = "restoring" /\ \A p \in Calls \ {o} : phase'[p] = phase[p]
    BY <1>2, <2>1, Gone DEF Phases
  <2>5. work[o].branch => work[o].target \in Experiments
    BY <1>2 DEF WorkOK
  <2>6. branches' \subseteq Experiments /\ branches \subseteq branches'
    BY <1>2, <2>2, <2>5 DEF Rebranched, StoreTypeOK
  <2>7. StoreTypeOK'
    BY <1>1, <1>2, <2>3, <2>4, <2>6 DEF StoreTypeOK
  <2>8. WorkOK(o)'
    BY <1>2, <1>3, <2>1, <2>2, <2>3, <2>4 DEF WorkOK, Before, Removing
  <2>9. BranchesOK'
    <3>1. \A e \in exps : e \in branches => e \in branches'
      BY <2>6
    <3>2. \A e \in exps : HoldsBranch(o, e) => e \in branches' \/ HoldsBranch(o, e)'
      BY <2>2, <2>3, <2>4 DEF HoldsBranch, Rebranched
    <3>3. \A e \in exps, p \in Calls \ {o} : HoldsBranch(p, e) => HoldsBranch(p, e)'
      BY <2>3, <2>4 DEF HoldsBranch
    <3>4. QED
      BY <1>1, <3>1, <3>2, <3>3, BranchesStay DEF Inv
  <2>10. \A e \in exps : HoldsTree(o, e) => HoldsTree(o, e)'
    BY <1>1, <2>1, <2>2, <2>3, <2>4 DEF HoldsTree, Before
  <2>11. QED
    BY <1>1, <2>1, <2>3, <2>4, <2>7, <2>8, <2>9, <2>10, GoesOn DEF Late, Removing
<1>6. QED
  BY <1>4, <1>5

(* A file is written: it was not there, or it is shared.                   *)
LEMMA CaptureFileInv ==
    ASSUME ~Concurrent, Inv, NEW o \in Calls, NEW f \in Files, CaptureFile(o, f) PROVE Inv'
<1> DEFINE l == [work[o] EXCEPT !.paths = @ \cup {f}]
<1>1. /\ phase[o] = "capturing" /\ store' = store \cup {f} /\ work' = [work EXCEPT ![o] = l]
      /\ UNCHANGED <<exps, owners, outputs, archived, branches, trash, entries, phase>>
  BY DEF CaptureFile, rows
<1>2. work[o] \in Work /\ WorkOK(o) /\ StoreTypeOK /\ \A p \in Calls : phase[p] \notin Removing
  BY <1>1 DEF Inv, StoreTypeOK, Apart
<1>3. /\ l \in Work /\ l.paths = work[o].paths \cup {f} /\ l.target = work[o].target
      /\ l.branch = work[o].branch
  BY <1>2 DEF Work, Paths
<1>4. work' \in [Calls -> Work] /\ work'[o] = l /\ \A p \in Calls \ {o} : work'[p] = work[p]
  BY <1>1, <1>2, <1>3 DEF StoreTypeOK
<1>5. StoreTypeOK'
  BY <1>1, <1>2, <1>4 DEF StoreTypeOK, Paths
<1>6. \A p \in Calls : Staged(p)' = Staged(p)
  BY <1>1 DEF Staged
<1>7. Apart'
  BY <1>1 DEF Inv, Apart
<1>8. \A p \in Calls : WorkOK(p)'
  <2>1. WorkOK(o)'
    BY <1>1, <1>2, <1>3, <1>4, <1>6 DEF WorkOK, Before, Removing
  <2>2. ASSUME NEW p \in Calls \ {o} PROVE WorkOK(p)'
    BY <1>1, <1>4, <1>6, WorkStays DEF Inv
  <2>3. QED
    BY <2>1, <2>2
<1>9. OneCopy'
  BY <1>1, <1>2 DEF OneCopy
<1>10. EntriesLate'
  <2>1. \A p \in Calls : phase[p] \in Late => p # o
    BY <1>1 DEF Late
  <2>2. QED
    BY <1>1, <1>2, <1>4, <2>1, EntriesStay DEF Inv
<1>11. BytesOK'
  <2>1. \A r \in outputs', p \in Calls : Kept(p, r.file) => Kept(p, r.file)'
    BY <1>1 DEF Kept
  <2>2. QED
    BY <1>1, <2>1, BytesStay DEF Inv
<1>12. TreesOK'
  <2>1. \A e \in exps', p \in Calls : HoldsTree(p, e) => HoldsTree(p, e)'
    BY <1>1, <1>4 DEF HoldsTree, Before
  <2>2. QED
    BY <1>1, <2>1, TreesStay DEF Inv
<1>13. BranchesOK'
  BY <1>1, <1>4, SameBranches DEF Inv, HoldsBranch
<1>14. QED
  BY <1>5, <1>7, <1>8, <1>9, <1>10, <1>11, <1>12, <1>13 DEF Inv

(* The rows of the outputs refer to files that are there.                  *)
LEMMA RecordOutputsInv ==
    ASSUME ~Concurrent, Inv, NEW o \in Calls, RecordOutputs(o) PROVE Inv'
<1> DEFINE new == [owner : {work[o].target}, file : work[o].paths]
<1>1. /\ phase[o] = "capturing" /\ outputs' = outputs \cup new /\ Finish(o)
      /\ UNCHANGED <<exps, owners, archived, store, branches, trash, entries>>
  BY DEF RecordOutputs
<1>2. work[o] \in Work /\ WorkOK(o) /\ StoreTypeOK /\ \A p \in Calls : phase[p] \notin Removing
  BY <1>1 DEF Inv, StoreTypeOK, Apart
<1>3. /\ phase' \in [Calls -> Phases] /\ phase'[o] = "ended" /\ work' \in [Calls -> Work] /\ work'[o] = NoWork
      /\ \A p \in Calls \ {o} : phase'[p] = phase[p] /\ work'[p] = work[p]
  BY <1>1, <1>2, Ended
<1>4. work[o].target \in owners /\ work[o].paths \subseteq Files \cap store
  BY <1>1, <1>2 DEF WorkOK
<1>5. \A r \in new : r \in Output /\ r.owner \in owners /\ r.file \in store
  BY <1>2, <1>4 DEF Output, StoreTypeOK
<1> HIDE DEF new
<1>6. StoreTypeOK'
  BY <1>1, <1>2, <1>3, <1>5 DEF StoreTypeOK
<1>7. \A p \in Calls : Staged(p)' = Staged(p)
  BY <1>1 DEF Staged
<1>8. \A p \in Calls : phase'[p] \notin Removing
  BY <1>2, <1>3 DEF Removing
<1>9. \A p \in Calls : WorkOK(p)'
  <2>1. WorkOK(o)'
    BY <1>1, <1>2, <1>3, <1>7 DEF WorkOK, NoWork, Before, Removing
  <2>2. ASSUME NEW p \in Calls \ {o} PROVE WorkOK(p)'
    BY <1>1, <1>2, <1>3, <1>7, WorkStays DEF Inv
  <2>3. QED
    BY <2>1, <2>2
<1>10. Apart' /\ OneCopy'
  BY <1>8 DEF Apart, OneCopy
<1>11. EntriesLate'
  BY <1>1, <1>2, <1>3, EntriesStay DEF Inv, Late
<1>12. BytesOK'
  <2>1. \A r \in outputs, p \in Calls : Kept(p, r.file) => Kept(p, r.file)'
    BY <1>1, <1>3 DEF Kept
  <2>2. \A r \in outputs : r.file \in store' \/ \E p \in Calls : Kept(p, r.file)'
    BY <1>1, <2>1 DEF Inv, BytesOK
  <2>3. QED
    BY <1>1, <1>5, <2>2 DEF BytesOK
<1>13. TreesOK'
  <2>1. \A e \in exps', p \in Calls : HoldsTree(p, e) => HoldsTree(p, e)'
    BY <1>1, <1>3 DEF HoldsTree, Before
  <2>2. QED
    BY <1>1, <2>1, TreesStay DEF Inv
<1>14. BranchesOK'
  BY <1>1, <1>3, SameBranches DEF Inv, HoldsBranch
<1>15. QED
  BY <1>6, <1>9, <1>10, <1>11, <1>12, <1>13, <1>14 DEF Inv

(* Nothing but the preflight of a removal reads what is archived.          *)
LEMMA SetArchivedInv ==
    ASSUME Inv, NEW x, SetArchived(x) PROVE Inv'
<1>1. UNCHANGED <<exps, owners, outputs, store, branches, trash, entries, phase, work>>
  BY DEF SetArchived
<1>2. archived' \subseteq outputs \cup owners \cup exps
  BY DEF SetArchived, Inv, StoreTypeOK
<1>3. StoreTypeOK'
  BY <1>1, <1>2 DEF Inv, StoreTypeOK
<1>4. \A o \in Calls : Staged(o)' = Staged(o)
  BY <1>1 DEF Staged
<1>5. \A o \in Calls : WorkOK(o)'
  BY <1>1, <1>4, WorkStays DEF Inv
<1>6. Apart' /\ OneCopy'
  BY <1>1, <1>4 DEF Inv, Apart, OneCopy
<1>7. BytesOK' /\ EntriesLate'
  BY <1>1 DEF Inv, BytesOK, Kept, EntriesLate
<1>8. TreesOK'
  BY <1>1 DEF Inv, TreesOK, HoldsTree
<1>9. BranchesOK'
  BY <1>1 DEF Inv, BranchesOK, HoldsBranch
<1>10. QED
  BY <1>3, <1>5, <1>6, <1>7, <1>8, <1>9 DEF Inv

(* A path that moves into the trash was in the store, so in no other trash *)
(* of a removal; it is one the removal may take.                           *)
LEMMA StageInv ==
    ASSUME Inv, NEW o \in Calls, NEW p \in Paths, Stage(o, p) PROVE Inv'
<1> DEFINE l == [work[o] EXCEPT !.paths = @ \ {p}]
<1>1. /\ phase[o] = "staging" /\ p \in work[o].paths /\ store' = store \ {p}
      /\ trash' = IF p \in store THEN trash \cup {<<o, p>>} ELSE trash
      /\ work' = [work EXCEPT ![o] = l]
      /\ UNCHANGED <<exps, owners, outputs, archived, branches, entries, phase>>
  BY DEF Stage, rows
<1>2. work[o] \in Work /\ WorkOK(o) /\ StoreTypeOK /\ \A q \in Calls : phase[q] # "capturing"
  BY <1>1 DEF Inv, StoreTypeOK, Apart, Removing
<1>3. /\ l \in Work /\ l.paths = work[o].paths \ {p} /\ l.target = work[o].target
      /\ l.branch = work[o].branch
  BY <1>2 DEF Work
<1>4. work' \in [Calls -> Work] /\ work'[o] = l /\ \A q \in Calls \ {o} : work'[q] = work[q]
  BY <1>1, <1>2, <1>3 DEF StoreTypeOK
<1>5. StoreTypeOK'
  BY <1>1, <1>2, <1>4 DEF StoreTypeOK
<1>6. \A q \in Calls \ {o} : Staged(q)' = Staged(q)
  BY <1>1 DEF Staged
<1>7. Staged(o)' = IF p \in store THEN Staged(o) \cup {p} ELSE Staged(o)
  BY <1>1 DEF Staged
<1>8. Apart'
  BY <1>1 DEF Inv, Apart
<1>9. \A q \in work[o].paths \cup Staged(o) : MayTake(work[o].target, q)
  BY <1>1, <1>2 DEF WorkOK, Before
<1>10. \A q \in Calls : WorkOK(q)'
  <2>1. WorkOK(o)'
    <3>1. work'[o].paths \cup Staged(o)' \subseteq work[o].paths \cup Staged(o)
      BY <1>1, <1>3, <1>4, <1>7
    <3>2. \A q \in work'[o].paths \cup Staged(o)' : MayTake(work[o].target, q)'
      BY <1>1, <1>9, <1>3, <1>4, <3>1 DEF MayTake, OutputRows
    <3>3. work'[o].target = work[o].target /\ work'[o].branch = work[o].branch
      BY <1>3, <1>4
    <3>4. QED
      BY <1>1, <1>2, <3>2, <3>3 DEF WorkOK, Removing
  <2>2. ASSUME NEW q \in Calls \ {o} PROVE WorkOK(q)'
    BY <1>1, <1>2, <1>4, <1>6, WorkStays DEF Inv
  <2>3. QED
    BY <2>1, <2>2
<1>11. OneCopy'
  <2>1. OneCopy /\ phase[o] \in Removing
    BY <1>1 DEF Inv, Removing
  <2>2. ASSUME NEW q \in Calls, phase[q] \in Removing, NEW r \in Staged(q)'
        PROVE  /\ r \notin store'
               /\ \A s \in Calls : phase[s] \in Removing /\ r \in Staged(s)' => s = q
    <3>1. CASE p \in store
      BY <1>1, <1>6, <1>7, <2>1, <2>2, <3>1 DEF OneCopy
    <3>2. CASE p \notin store
      BY <1>1, <1>6, <1>7, <2>1, <2>2, <3>2 DEF OneCopy
    <3>3. QED
      BY <3>1, <3>2
  <2>3. QED
    BY <1>1, <2>2 DEF OneCopy
<1>12. EntriesLate'
  BY <1>1, <1>2, <1>3, <1>4, EntriesStay DEF Inv
<1>13. \A e \in entries : e.op # o
  BY <1>1 DEF Inv, EntriesLate, Late
<1>14. BytesOK'
  <2>1. \A f \in Files : f \in store => f \in store' \/ Kept(o, f)'
    BY <1>1, <1>13 DEF Kept
  <2>2. \A r \in outputs', q \in Calls : Kept(q, r.file) => Kept(q, r.file)'
    BY <1>1 DEF Kept
  <2>3. \A r \in outputs' : r.file \in Files
    BY <1>1, <1>2 DEF StoreTypeOK, Output
  <2>4. QED
    BY <1>1, <2>1, <2>2, <2>3, BytesStay DEF Inv
<1>15. TreesOK'
  <2>1. p \in Experiments => p = work[o].target
    BY <1>1, <1>9 DEF MayTake
  <2>2. \A e \in exps' : e \in store => e \in store' \/ HoldsTree(o, e)'
    <3>1. \A e \in exps' : e \in Experiments
      BY <1>1, <1>2 DEF StoreTypeOK
    <3>2. QED
      BY <1>1, <1>3, <1>4, <2>1, <3>1 DEF HoldsTree, Before
  <2>3. \A e \in exps', q \in Calls : HoldsTree(q, e) => HoldsTree(q, e)'
    BY <1>1, <1>3, <1>4 DEF HoldsTree
  <2>4. QED
    BY <1>1, <2>2, <2>3, TreesStay DEF Inv
<1>16. BranchesOK'
  BY <1>1, <1>3, <1>4, SameBranches DEF Inv, HoldsBranch
<1>17. QED
  BY <1>5, <1>8, <1>10, <1>11, <1>12, <1>14, <1>15, <1>16 DEF Inv

(* A row is neither an artifact or log and a run or validation.            *)
LEMMA RowsApart == \A w \in Owner, r \in Output : w # r
<1> SUFFICES ASSUME NEW w \in Owner, NEW r \in Output PROVE w # r
  OBVIOUS
<1>1. DOMAIN w = {"id", "exp"}
  BY DEF Owner
<1>2. DOMAIN r = {"owner", "file"}
  BY DEF Output
<1>3. QED
  BY <1>1, <1>2

(* The rows that refer to what a removal has moved go with it.             *)
LEMMA DeleteRowsInv ==
    ASSUME Inv, NEW o \in Calls, DeleteRows(o) PROVE Inv'
<1>0. PICK x : x = work[o].target
  OBVIOUS
<1> DEFINE gone == OutputRows(x) \cup {x} \cup {w \in owners : w.exp = x}
           l == [work[o] EXCEPT !.paths = Staged(o)]
<1>1. /\ phase[o] = "deleting" /\ exps' = exps \ gone /\ owners' = owners \ gone
      /\ outputs' = outputs \ gone /\ archived' = archived \ gone
      /\ work' = [work EXCEPT ![o] = l] /\ Proceed(o, "finalizing")
      /\ UNCHANGED <<store, branches, trash, entries>>
  BY <1>0 DEF DeleteRows
<1>2. work[o] \in Work /\ WorkOK(o) /\ StoreTypeOK /\ \A q \in Calls : phase[q] # "capturing"
  BY <1>1 DEF Inv, StoreTypeOK, Apart, Removing
<1>3. Staged(o) \subseteq Paths /\ \A q \in Calls : Staged(q)' = Staged(q)
  BY <1>1, <1>2 DEF Staged
<1>4. /\ l \in Work /\ l.paths = Staged(o) /\ l.target = x /\ l.branch = work[o].branch
  BY <1>0, <1>2, <1>3 DEF Work
<1>5. work' \in [Calls -> Work] /\ work'[o] = l /\ \A q \in Calls \ {o} : work'[q] = work[q]
  BY <1>1, <1>2, <1>4 DEF StoreTypeOK
<1>6. phase' \in [Calls -> Phases] /\ phase'[o] = "finalizing" /\ \A q \in Calls \ {o} : phase'[q] = phase[q]
  BY <1>1, <1>2, Gone DEF Phases
<1>7. \A r \in outputs : r \in OutputRows(x) <=> r = x \/ r.owner = x \/ r.owner.exp = x
  BY DEF OutputRows
<1>8. OutputRows(x) \subseteq Output
  BY <1>2 DEF OutputRows, StoreTypeOK
<1>9. StoreTypeOK'
  <2>1. \A r \in outputs' : r.owner \in owners'
    <3> SUFFICES ASSUME NEW r \in outputs, r \notin gone PROVE r.owner \in owners /\ r.owner \notin gone
      BY <1>1
    <3>1. r.owner \in owners /\ r.owner \in Owner
      BY <1>2 DEF StoreTypeOK
    <3>2. r.owner \notin OutputRows(x)
      BY <1>8, <3>1, RowsApart
    <3>3. QED
      BY <1>7, <3>1, <3>2
  <2>2. \A w \in owners' : w.exp \in exps' \cup {NoExperiment}
    <3> SUFFICES ASSUME NEW w \in owners, w \notin gone, w.exp # NoExperiment
                 PROVE  w.exp \in exps /\ w.exp \notin gone
      BY <1>1
    <3>1. w.exp \in exps /\ w.exp \in Experiments /\ owners \subseteq Owner
      BY <1>2 DEF StoreTypeOK
    <3>2. w.exp \notin OutputRows(x) /\ w.exp \notin owners
      BY <1>8, <3>1, StoreConstants
    <3>3. QED
      BY <3>1, <3>2
  <2>3. QED
    BY <1>1, <1>2, <1>5, <1>6, <2>1, <2>2 DEF StoreTypeOK
<1>10. Apart'
  BY <1>2, <1>6 DEF Apart, Removing
<1>11. x \notin exps' /\ exps' \subseteq exps /\ outputs' \subseteq outputs
  BY <1>1
<1> HIDE DEF gone
<1>12. \A e \in entries : e.op # o
  BY <1>1 DEF Inv, EntriesLate, Late
<1>13. \A q \in Calls : WorkOK(q)'
  <2>1. WorkOK(o)'
    BY <1>1, <1>2, <1>3, <1>4, <1>5, <1>6, <1>0, <1>11, <1>12 DEF WorkOK, Removing, Before
  <2>2. ASSUME NEW q \in Calls \ {o} PROVE WorkOK(q)'
    BY <1>1, <1>2, <1>3, <1>5, <1>6, <1>11, WorkStays DEF Inv
  <2>3. QED
    BY <2>1, <2>2
<1>14. OneCopy'
  BY <1>1, <1>3, <1>6, OneCopyStays DEF Inv, Removing
<1>15. EntriesLate'
  BY <1>1, <1>2, <1>5, <1>6, <1>11, EntriesStay DEF Inv, Late
<1>16. \A q \in Staged(o) : MayTake(x, q)
  BY <1>0, <1>1, <1>2 DEF WorkOK, Before
<1>17. BytesOK'
  <2>1. ASSUME NEW r \in outputs', NEW q \in Calls, Kept(q, r.file) PROVE Kept(q, r.file)'
    <3>1. CASE q = o
      <4>1. r \in outputs /\ r.file \in Files /\ r.file \notin Experiments /\ r.file \in Staged(o)
        BY <1>2, <1>11, <2>1, <3>1, StagedIs, StoreConstants DEF Kept, StoreTypeOK, Output
      <4>2. r \in OutputRows(x)
        BY <1>16, <4>1 DEF MayTake
      <4>3. QED
        BY <1>1, <4>2 DEF gone
    <3>2. CASE q # o
      BY <1>1, <1>6, <2>1, <3>2 DEF Kept
    <3>3. QED
      BY <3>1, <3>2
  <2>2. QED
    BY <1>1, <1>11, <2>1, BytesStay DEF Inv
<1>18. TreesOK'
  <2>1. \A e \in exps', q \in Calls : HoldsTree(q, e) => HoldsTree(q, e)'
    BY <1>0, <1>1, <1>5, <1>6, <1>11 DEF HoldsTree
  <2>2. QED
    BY <1>1, <1>11, <2>1, TreesStay DEF Inv
<1>19. BranchesOK'
  <2>1. \A e \in exps', q \in Calls : HoldsBranch(q, e) => HoldsBranch(q, e)'
    BY <1>0, <1>1, <1>5, <1>6, <1>11 DEF HoldsBranch
  <2>2. QED
    BY <1>1, <1>11, <2>1, BranchesStay DEF Inv
<1>20. QED
  BY <1>9, <1>10, <1>13, <1>14, <1>15, <1>17, <1>18, <1>19 DEF Inv

(* A path is left in the trash: the removal goes on without it, or ends.   *)
LEMMA RestoreFailsInv ==
    ASSUME Inv, NEW o \in Calls, NEW p \in Paths, phase[o] = "restoring",
           UNCHANGED <<rows, store, branches, trash, entries>>,
           \/ work' = [work EXCEPT ![o].paths = @ \ {p}] /\ UNCHANGED phase
           \/ Proceed(o, "unrestored") /\ UNCHANGED work
    PROVE  Inv'
<1>1. UNCHANGED <<exps, owners, outputs, archived, store, branches, trash, entries>>
  BY DEF rows
<1>2. work[o] \in Work /\ WorkOK(o) /\ StoreTypeOK
  BY DEF Inv, StoreTypeOK
<1>3. Staged(o)' = Staged(o)
  BY <1>1 DEF Staged
<1>4. CASE work' = [work EXCEPT ![o].paths = @ \ {p}] /\ UNCHANGED phase
  <2> DEFINE l == [work[o] EXCEPT !.paths = @ \ {p}]
  <2>1. /\ l \in Work /\ l.paths = work[o].paths \ {p} /\ l.target = work[o].target
        /\ l.branch = work[o].branch
    BY <1>2 DEF Work
  <2>2. work' = [work EXCEPT ![o] = l] /\ phase' = phase
    BY <1>4
  <2> HIDE DEF l
  <2>3. work' \in [Calls -> Work] /\ work'[o] = l /\ \A q \in Calls \ {o} : work'[q] = work[q]
    BY <1>2, <2>1, <2>2 DEF StoreTypeOK
  <2>4. StoreTypeOK'
    BY <1>1, <1>2, <2>2, <2>3 DEF StoreTypeOK
  <2>5. WorkOK(o)'
    BY <1>2, <1>3, <2>1, <2>2, <2>3 DEF WorkOK, Before, Removing
  <2>6. BranchesOK'
    BY <1>1, <2>1, <2>2, <2>3, SameBranches DEF Inv, HoldsBranch
  <2>7. \A e \in exps : HoldsTree(o, e) => HoldsTree(o, e)'
    BY <1>1, <2>1, <2>2, <2>3 DEF HoldsTree
  <2>8. QED
    BY <1>1, <2>2, <2>3, <2>4, <2>5, <2>6, <2>7, GoesOn DEF Late, Removing
<1>5. CASE Proceed(o, "unrestored") /\ UNCHANGED work
  <2>1. /\ phase' \in [Calls -> Phases] /\ phase'[o] = "unrestored" /\ \A q \in Calls \ {o} : phase'[q] = phase[q]
    BY <1>2, <1>5, Gone DEF Phases
  <2>2. StoreTypeOK'
    BY <1>1, <1>2, <1>5, <2>1 DEF StoreTypeOK
  <2>3. WorkOK(o)'
    BY <1>2, <1>5, <2>1 DEF WorkOK, Before, Removing
  <2>4. BranchesOK'
    BY <1>1, <1>5, <2>1, SameBranches DEF Inv, HoldsBranch
  <2>5. \A e \in exps : HoldsTree(o, e) => HoldsTree(o, e)'
    BY <1>1, <1>5, <2>1 DEF HoldsTree
  <2>6. QED
    BY <1>1, <1>5, <2>1, <2>2, <2>3, <2>4, <2>5, GoesOn DEF Late, Removing
<1>6. QED
  BY <1>4, <1>5

(* A path that is moved back is not there: no one has written it since.    *)
LEMMA RestoreMovesInv ==
    ASSUME Inv, NEW o \in Calls, NEW p \in Paths, Restore(o, p),
           store' = store \cup {p}, trash' = trash \ {<<o, p>>},
           work' = [work EXCEPT ![o].paths = @ \ {p}], UNCHANGED phase
    PROVE  Inv'
<1> DEFINE l == [work[o] EXCEPT !.paths = @ \ {p}]
<1>1. /\ phase[o] = "restoring" /\ p \in work[o].paths
      /\ UNCHANGED <<exps, owners, outputs, archived, branches, entries>>
  BY DEF Restore, rows
<1>2. work[o] \in Work /\ WorkOK(o) /\ StoreTypeOK /\ OneCopy /\ \A q \in Calls : phase[q] # "capturing"
  BY <1>1 DEF Inv, StoreTypeOK, Apart, Removing
<1>3. work[o].paths \subseteq Staged(o)
  BY <1>1, <1>2 DEF WorkOK
<1>4. p \notin store /\ \A q \in Calls \ {o} : phase[q] \in Removing => p \notin Staged(q)
  BY <1>1, <1>2, <1>3 DEF OneCopy, Removing
<1>5. /\ store' = store \cup {p} /\ trash' = trash \ {<<o, p>>}
      /\ work' = [work EXCEPT ![o] = l] /\ UNCHANGED phase
  OBVIOUS
<1>6. /\ l \in Work /\ l.paths = work[o].paths \ {p} /\ l.target = work[o].target
      /\ l.branch = work[o].branch
  BY <1>2 DEF Work
<1>7. work' \in [Calls -> Work] /\ work'[o] = l /\ \A q \in Calls \ {o} : work'[q] = work[q]
  BY <1>2, <1>5, <1>6 DEF StoreTypeOK
<1>8. StoreTypeOK'
  BY <1>1, <1>2, <1>5, <1>7 DEF StoreTypeOK
<1>9. Staged(o)' = Staged(o) \ {p} /\ \A q \in Calls \ {o} : Staged(q)' = Staged(q)
  BY <1>5 DEF Staged
<1>10. Apart'
  BY <1>5 DEF Inv, Apart
<1>11. \A q \in Calls : WorkOK(q)'
  <2>1. WorkOK(o)'
    BY <1>1, <1>2, <1>3, <1>5, <1>6, <1>7, <1>9 DEF WorkOK, Before, Removing
  <2>2. ASSUME NEW q \in Calls \ {o} PROVE WorkOK(q)'
    BY <1>1, <1>2, <1>5, <1>7, <1>9, WorkStays DEF Inv
  <2>3. QED
    BY <2>1, <2>2
<1>12. OneCopy'
  BY <1>2, <1>4, <1>5, <1>9 DEF OneCopy
<1>13. EntriesLate'
  BY <1>1, <1>2, <1>5, <1>6, <1>7, EntriesStay DEF Inv
<1>14. BytesOK'
  <2>1. \A r \in outputs', q \in Calls : Kept(q, r.file) => r.file \in store' \/ Kept(q, r.file)'
    BY <1>1, <1>5 DEF Kept
  <2>2. QED
    BY <1>1, <1>5, <2>1, BytesStay DEF Inv
<1>15. TreesOK'
  <2>1. \A e \in exps', q \in Calls : HoldsTree(q, e) => e \in store' \/ HoldsTree(q, e)'
    BY <1>1, <1>5, <1>6, <1>7 DEF HoldsTree
  <2>2. QED
    BY <1>1, <1>5, <2>1, TreesStay DEF Inv
<1>16. BranchesOK'
  BY <1>1, <1>5, <1>6, <1>7, SameBranches DEF Inv, HoldsBranch
<1>17. QED
  BY <1>8, <1>10, <1>11, <1>12, <1>13, <1>14, <1>15, <1>16 DEF Inv

(* Either way.                                                             *)
LEMMA RestoreInv ==
    ASSUME Inv, NEW o \in Calls, NEW p \in Paths, Restore(o, p) PROVE Inv'
<1>1. phase[o] = "restoring" /\ UNCHANGED <<rows, branches, entries>>
  BY DEF Restore
<1>2. \/ /\ store' = store \cup {p} /\ trash' = trash \ {<<o, p>>}
         /\ work' = [work EXCEPT ![o].paths = @ \ {p}] /\ UNCHANGED phase
      \/ /\ UNCHANGED <<store, trash>>
         /\ \/ work' = [work EXCEPT ![o].paths = @ \ {p}] /\ UNCHANGED phase
            \/ Proceed(o, "unrestored") /\ UNCHANGED work
  BY DEF Restore
<1>3. QED
  BY <1>1, <1>2, RestoreFailsInv, RestoreMovesInv

(* A path of a trash that is being emptied is nobody's any more.           *)
LEMMA DeleteTrashInv ==
    ASSUME Inv, NEW o \in Calls, NEW p \in Paths, DeleteTrash(o, p) PROVE Inv'
<1> DEFINE l == [work[o] EXCEPT !.paths = @ \ {p}]
<1>1. /\ phase[o] = "finalizing" /\ trash' = trash \ {<<o, p>>} /\ work' = [work EXCEPT ![o] = l]
      /\ UNCHANGED <<exps, owners, outputs, archived, store, branches, entries, phase>>
  BY DEF DeleteTrash, rows
<1>2. work[o] \in Work /\ WorkOK(o) /\ StoreTypeOK /\ \A q \in Calls : phase[q] # "capturing"
  BY <1>1 DEF Inv, StoreTypeOK, Apart, Removing
<1>3. /\ l \in Work /\ l.paths = work[o].paths \ {p} /\ l.target = work[o].target
      /\ l.branch = work[o].branch
  BY <1>2 DEF Work
<1>4. work' \in [Calls -> Work] /\ work'[o] = l /\ \A q \in Calls \ {o} : work'[q] = work[q]
  BY <1>1, <1>2, <1>3 DEF StoreTypeOK
<1>5. StoreTypeOK'
  BY <1>1, <1>2, <1>4 DEF StoreTypeOK
<1>6. Staged(o)' = Staged(o) \ {p} /\ \A q \in Calls \ {o} : Staged(q)' = Staged(q)
  BY <1>1 DEF Staged
<1>7. Apart'
  BY <1>1 DEF Inv, Apart
<1>8. \A q \in Calls : WorkOK(q)'
  <2>1. WorkOK(o)'
    BY <1>1, <1>2, <1>3, <1>4, <1>6 DEF WorkOK, Recorded, Before, Removing
  <2>2. ASSUME NEW q \in Calls \ {o} PROVE WorkOK(q)'
    BY <1>1, <1>2, <1>4, <1>6, WorkStays DEF Inv
  <2>3. QED
    BY <2>1, <2>2
<1>9. OneCopy'
  <2>1. \A q \in Calls : Staged(q)' \subseteq Staged(q)
    BY <1>6
  <2>2. QED
    BY <1>1, <2>1, OneCopyStays DEF Inv
<1>10. EntriesLate'
  BY <1>1, <1>2, <1>3, <1>4, EntriesStay DEF Inv
<1>11. BytesOK'
  <2>1. \A r \in outputs', q \in Calls : Kept(q, r.file) => Kept(q, r.file)'
    BY <1>1 DEF Kept
  <2>2. QED
    BY <1>1, <2>1, BytesStay DEF Inv
<1>12. TreesOK'
  <2>1. \A e \in exps', q \in Calls : HoldsTree(q, e) => HoldsTree(q, e)'
    BY <1>1, <1>4 DEF HoldsTree, Before
  <2>2. QED
    BY <1>1, <2>1, TreesStay DEF Inv
<1>13. BranchesOK'
  BY <1>1, <1>4, SameBranches DEF Inv, HoldsBranch
<1>14. QED
  BY <1>5, <1>7, <1>8, <1>9, <1>10, <1>11, <1>12, <1>13 DEF Inv

(* The deletion of a path fails: it is recorded, or the command ends.      *)
LEMMA DeleteTrashFailsInv ==
    ASSUME ~Concurrent, Inv, NEW o \in Calls, NEW p \in Paths, DeleteTrashFails(o, p) PROVE Inv'
<1>1. /\ phase[o] = "finalizing" /\ p \in work[o].paths
      /\ UNCHANGED <<exps, owners, outputs, archived, store, branches, trash>>
  BY DEF DeleteTrashFails, rows
<1>2. work[o] \in Work /\ WorkOK(o) /\ StoreTypeOK /\ \A q \in Calls : phase[q] # "capturing"
  BY <1>1 DEF Inv, StoreTypeOK, Apart, Removing
<1>3. \A q \in Calls : Staged(q)' = Staged(q)
  BY <1>1 DEF Staged
<1>4. CASE Proceed(o, "unrecorded") /\ UNCHANGED <<entries, work>>
  <2>1. /\ phase' \in [Calls -> Phases] /\ phase'[o] = "unrecorded"
        /\ \A q \in Calls \ {o} : phase'[q] = phase[q] /\ work'[q] = work[q]
    BY <1>2, <1>4, Gone DEF Phases
  <2>2. StoreTypeOK'
    BY <1>1, <1>2, <1>4, <2>1 DEF StoreTypeOK
  <2>3. WorkOK(o)'
    BY <1>2, <1>4, <2>1 DEF WorkOK, Removing, Before
  <2>4. BranchesOK'
    BY <1>1, <1>4, <2>1, SameBranches DEF Inv, HoldsBranch
  <2>5. \A e \in exps : ~HoldsTree(o, e)
    BY <1>1 DEF HoldsTree, Before
  <2>6. QED
    BY <1>1, <1>4, <2>1, <2>2, <2>3, <2>4, <2>5, GoesOn DEF Late, Removing
<1>5. CASE entries' = Pending(o, p) /\ work' = [work EXCEPT ![o].paths = @ \ {p}] /\ UNCHANGED phase
  <2> DEFINE l == [work[o] EXCEPT !.paths = @ \ {p}]
             new == [op |-> o, path |-> p, active |-> TRUE]
  <2>1. entries' = entries \cup {new} /\ work' = [work EXCEPT ![o] = l] /\ UNCHANGED phase
    BY <1>5 DEF Pending
  <2>2. /\ l \in Work /\ l.paths = work[o].paths \ {p} /\ l.target = work[o].target
        /\ l.branch = work[o].branch
    BY <1>2 DEF Work
  <2>3. work' \in [Calls -> Work] /\ work'[o] = l /\ \A q \in Calls \ {o} : work'[q] = work[q]
    BY <1>2, <2>1, <2>2 DEF StoreTypeOK
  <2>4. new \in Entry /\ new.op = o /\ new.path = p
    BY DEF Entry
  <2>5. StoreTypeOK'
    BY <1>1, <1>2, <2>1, <2>3, <2>4 DEF StoreTypeOK
  <2>6. Apart'
    BY <2>1 DEF Inv, Apart
  <2>7. \A q \in Calls : WorkOK(q)'
    <3>1. WorkOK(o)'
      <4>1. work'[o].target \notin exps'
        BY <1>1, <1>2, <2>2, <2>3 DEF WorkOK
      <4>2. \A q \in Staged(o)' : q \in work'[o].paths \/ Recorded(o, q)'
        BY <1>1, <1>2, <1>3, <2>1, <2>2, <2>3 DEF WorkOK, Recorded
      <4>3. \A e \in entries' : e.op = o => e.path \notin work'[o].paths
        BY <1>1, <1>2, <2>1, <2>2, <2>3, <2>4 DEF WorkOK
      <4>4. work'[o].target \in Targets /\ (work'[o].branch => work'[o].target \in Experiments)
        BY <1>1, <1>2, <2>2, <2>3 DEF WorkOK, Removing
      <4>5. phase'[o] = "finalizing"
        BY <1>1, <2>1
      <4>6. QED
        BY <4>1, <4>2, <4>3, <4>4, <4>5 DEF WorkOK, Before
    <3>2. ASSUME NEW q \in Calls \ {o} PROVE WorkOK(q)'
      <4>1. \A e \in entries \cup entries' : e.op = q => e \in entries /\ e \in entries'
        BY <2>1, <2>4
      <4>2. QED
        BY <1>1, <1>3, <2>1, <2>3, <4>1, WorkStays DEF Inv
    <3>3. QED
      BY <3>1, <3>2
  <2>8. OneCopy'
    BY <1>1, <1>3, <2>1, OneCopyStays DEF Inv
  <2>9. EntriesLate'
    <3>1. work'[o].target \notin exps'
      BY <1>1, <1>2, <2>2, <2>3 DEF WorkOK
    <3>2. \A e \in entries : e.op \in Calls
      BY <1>2 DEF StoreTypeOK, Entry
    <3>3. \A e \in entries : /\ phase'[e.op] \in Late
                             /\ phase'[e.op] # "ended" => work'[e.op].target \notin exps'
      BY <1>1, <2>1, <2>2, <2>3, <3>1, <3>2 DEF Inv, EntriesLate
    <3>4. QED
      BY <1>1, <2>1, <2>4, <3>1, <3>3 DEF EntriesLate, Late
  <2>10. BytesOK'
    <3>1. \A r \in outputs', q \in Calls : Kept(q, r.file) => Kept(q, r.file)'
      BY <1>1, <2>1, <2>4 DEF Kept
    <3>2. QED
      BY <1>1, <3>1, BytesStay DEF Inv
  <2>11. TreesOK'
    <3>1. \A e \in exps', q \in Calls : HoldsTree(q, e) => HoldsTree(q, e)'
      BY <1>1, <2>1, <2>3 DEF HoldsTree, Before
    <3>2. QED
      BY <1>1, <3>1, TreesStay DEF Inv
  <2>12. BranchesOK'
    BY <1>1, <2>1, <2>2, <2>3, SameBranches DEF Inv, HoldsBranch
  <2>13. QED
    BY <2>5, <2>6, <2>7, <2>8, <2>9, <2>10, <2>11, <2>12 DEF Inv
<1>6. QED
  BY <1>4, <1>5 DEF DeleteTrashFails

(* Pruning takes what has an entry: nothing a removal could still put back,*)
(* and of a removal that ended nothing without a trace.                    *)
LEMMA CachePruneInv ==
    ASSUME Inv, NEW S \in SUBSET entries, NEW fails \in BOOLEAN, CachePrune(S, fails)
    PROVE  Inv'
<1> DEFINE off(e) == [e EXCEPT !.active = FALSE]
<1>1. /\ \A e \in S : e.active
      /\ trash' = trash \ {<<e.op, e.path>> : e \in S}
      /\ entries' = IF fails THEN entries ELSE (entries \ S) \cup {off(e) : e \in S}
      /\ UNCHANGED <<exps, owners, outputs, archived, store, branches, phase, work>>
  BY DEF CachePrune, PruneTrash, rows
<1>2. StoreTypeOK /\ \A o \in Calls : WorkOK(o)
  BY DEF Inv
<1>3. \A e \in entries : off(e) \in Entry /\ off(e).op = e.op /\ off(e).path = e.path
  BY <1>2 DEF StoreTypeOK, Entry
<1> HIDE DEF off
<1>4. /\ \A e \in S : off(e) \in entries' \/ e \in entries'
      /\ \A e \in entries : e \notin S => e \in entries'
      /\ \A e \in entries' : e \in entries \/ \E d \in S : e = off(d)
  BY <1>1
<1>5. \A e \in entries' : \E d \in entries : d.op = e.op /\ d.path = e.path
  BY <1>3, <1>4
<1>6. StoreTypeOK'
  <2>1. entries' \subseteq Entry
    BY <1>2, <1>3, <1>4 DEF StoreTypeOK
  <2>2. trash' \subseteq Calls \X Paths
    BY <1>1, <1>2 DEF StoreTypeOK
  <2>3. QED
    BY <1>1, <1>2, <2>1, <2>2 DEF StoreTypeOK
<1>7. \A o \in Calls : Staged(o)' \subseteq Staged(o)
  BY <1>1 DEF Staged
<1>8. \A e \in S : <<e.op, e.path>> \notin trash'
  BY <1>1
<1>9. ASSUME NEW o \in Calls, NEW p \in Paths, \A e \in entries : e.op = o => e.path # p,
             <<o, p>> \in trash
      PROVE  <<o, p>> \in trash'
  BY <1>1, <1>9
<1>10. \A o \in Calls : phase[o] \notin Late => \A e \in entries : e.op # o
  BY DEF Inv, EntriesLate, Late
<1>11. \A o \in Calls : phase[o] \notin Late => Staged(o)' = Staged(o)
  <2>1. ASSUME NEW o \in Calls, phase[o] \notin Late PROVE Staged(o) \subseteq Staged(o)'
    BY <1>9, <1>10, <2>1 DEF Staged
  <2>2. QED
    BY <1>7, <2>1
<1>12. Apart'
  BY <1>1 DEF Inv, Apart
<1>13. ASSUME NEW o \in Calls PROVE WorkOK(o)'
  <2>1. \A p \in work'[o].paths \cup Staged(o)' : p \in work[o].paths \cup Staged(o)
    BY <1>1, <1>7
  <2>2. phase'[o] \in Before => \A p \in work'[o].paths \cup Staged(o)' : MayTake(work[o].target, p)'
    <3>1. PICK x : x = work[o].target
      OBVIOUS
    <3>2. \A p : MayTake(x, p) => MayTake(x, p)'
      BY <1>1 DEF MayTake, OutputRows
    <3>3. work'[o].target = x
      BY <1>1, <3>1
    <3>4. phase[o] \in Before => \A p \in work[o].paths \cup Staged(o) : MayTake(x, p)
      BY <1>2, <3>1 DEF WorkOK
    <3>5. phase[o] \in Before => \A p \in work'[o].paths \cup Staged(o)' : MayTake(x, p)'
      BY <2>1, <3>2, <3>4
    <3>6. phase[o] \in Before => \A p \in work'[o].paths \cup Staged(o)' : MayTake(work[o].target, p)'
      BY <3>3, <3>5 DEF MayTake, OutputRows
    <3>7. QED
      BY <1>1, <3>6
  <2>3. ASSUME NEW p \in Staged(o)', Recorded(o, p) PROVE Recorded(o, p)'
    <3> DEFINE d == [op |-> o, path |-> p, active |-> TRUE]
    <3>1. <<o, p>> \in trash' /\ d.op = o /\ d.path = p
      BY DEF Staged
    <3>2. d \in entries /\ d \notin S
      BY <1>8, <2>3, <3>1 DEF Recorded
    <3>3. QED
      BY <1>4, <3>2 DEF Recorded
  <2>4. phase'[o] = "finalizing" => \A e \in entries' : e.op = o => e.path \notin work'[o].paths
    BY <1>1, <1>2, <1>5 DEF WorkOK
  <2>5. /\ phase'[o] = "ended" => \A p \in Staged(o)' : Recorded(o, p)'
        /\ phase'[o] = "finalizing" =>
              \A p \in Staged(o)' : p \in work'[o].paths \/ Recorded(o, p)'
    BY <1>1, <1>2, <1>7, <2>3 DEF WorkOK
  <2>6. phase'[o] \in {"idle", "capturing"} => Staged(o)' = {}
    BY <1>1, <1>2, <1>7 DEF WorkOK
  <2>7. phase'[o] = "restoring" => work'[o].paths \subseteq Staged(o)'
    BY <1>1, <1>2, <1>11 DEF WorkOK, Late
  <2>8. /\ phase'[o] = "idle" => work'[o] = NoWork
        /\ phase'[o] = "capturing" =>
              work'[o].target \in owners' /\ work'[o].paths \subseteq Files \cap store'
        /\ phase'[o] \in Removing => work'[o].target \in Targets
        /\ work'[o].branch => work'[o].target \in Experiments
        /\ phase'[o] = "finalizing" => work'[o].target \notin exps'
    BY <1>1, <1>2 DEF WorkOK
  <2>9. QED
    BY <2>2, <2>4, <2>5, <2>6, <2>7, <2>8 DEF WorkOK
<1>14. OneCopy'
  BY <1>1, <1>7, OneCopyStays DEF Inv
<1>15. EntriesLate'
  BY <1>1, <1>5, EntriesStay DEF Inv
<1>16. BytesOK'
  <2>1. ASSUME NEW r \in outputs', NEW o \in Calls, Kept(o, r.file) PROVE Kept(o, r.file)'
    <3>1. r.file \in Paths
      BY <1>1, <1>2 DEF StoreTypeOK, Output, Paths
    <3>2. <<o, r.file>> \in trash'
      BY <1>9, <2>1, <3>1 DEF Kept
    <3>3. QED
      BY <1>1, <1>5, <2>1, <3>2 DEF Kept
  <2>2. QED
    BY <1>1, <2>1, BytesStay DEF Inv
<1>17. TreesOK'
  <2>1. ASSUME NEW e \in exps', NEW o \in Calls, HoldsTree(o, e) PROVE HoldsTree(o, e)'
    <3>1. e \in exps /\ e \in Paths /\ work[o].target = e /\ <<o, e>> \in trash
      BY <1>1, <1>2, <2>1 DEF StoreTypeOK, Paths, HoldsTree
    <3>2. \A d \in entries : d.op # o
      BY <2>1, <3>1 DEF HoldsTree, Before, Inv, EntriesLate
    <3>3. <<o, e>> \in trash'
      BY <1>9, <3>1, <3>2
    <3>4. QED
      BY <1>1, <2>1, <3>3 DEF HoldsTree
  <2>2. QED
    BY <1>1, <2>1, TreesStay DEF Inv
<1>18. BranchesOK'
  BY <1>1, SameBranches DEF Inv, HoldsBranch
<1>19. QED
  BY <1>6, <1>12, <1>13, <1>14, <1>15, <1>16, <1>17, <1>18 DEF Inv

(* A step that changes nothing.                                            *)
LEMMA StutterInv == ASSUME Inv, UNCHANGED storeVars PROVE Inv'
<1>1. UNCHANGED <<exps, owners, outputs, archived, store, branches, trash, entries, phase, work>>
  BY DEF storeVars
<1>2. StoreTypeOK' /\ Apart'
  BY <1>1 DEF Inv, StoreTypeOK, Apart
<1>3. \A o \in Calls : Staged(o)' = Staged(o)
  BY <1>1 DEF Staged
<1>4. \A o \in Calls : WorkOK(o)'
  BY <1>1, <1>3, WorkStays DEF Inv
<1>5. OneCopy' /\ EntriesLate' /\ TreesOK' /\ BranchesOK'
  BY <1>1, <1>3 DEF Inv, OneCopy, EntriesLate, TreesOK, HoldsTree, BranchesOK, HoldsBranch
<1>6. BytesOK'
  BY <1>1 DEF Inv, BytesOK, Kept
<1>7. QED
  BY <1>2, <1>4, <1>5, <1>6 DEF Inv

(* Every step keeps the invariant.                                         *)
LEMMA StepInv == ASSUME ~Concurrent, Inv, [StoreNext]_storeVars PROVE Inv'
<1>1. ASSUME NEW o \in Calls, StoreStep(o) PROVE Inv'
  <2>1. CASE \E e \in Experiments \cup {NoExperiment} : StartCapture(o, e)
    BY <2>1, StartCaptureInv
  <2>2. CASE \E f \in Files : CaptureFile(o, f)
    BY <2>2, CaptureFileInv
  <2>3. CASE RecordOutputs(o)
    BY <2>3, RecordOutputsInv
  <2>4. CASE \E x \in archived : RemovePreflight(o, x)
    BY <2>4, PreflightInv
  <2>5. CASE \E p \in Paths : Stage(o, p) \/ Restore(o, p) \/ DeleteTrash(o, p)
                              \/ DeleteTrashFails(o, p)
    BY <2>5, StageInv, RestoreInv, DeleteTrashInv, DeleteTrashFailsInv
  <2>6. CASE StageFails(o) \/ AllStaged(o) \/ AllRestored(o) \/ Finalized(o) \/ Killed(o)
    BY <2>6, StepsInv
  <2>7. CASE DeleteBranch(o) \/ DeleteFails(o)
    BY <2>7, BranchInv
  <2>8. CASE DeleteRows(o)
    BY <2>8, DeleteRowsInv
  <2>9. QED
    BY <1>1, <2>1, <2>2, <2>3, <2>4, <2>5, <2>6, <2>7, <2>8 DEF StoreStep
<1>2. CASE \E x \in outputs \cup owners \cup exps : SetArchived(x)
  BY <1>2, SetArchivedInv
<1>3. CASE \E S \in SUBSET entries, fails \in BOOLEAN : CachePrune(S, fails)
  BY <1>3, CachePruneInv
<1>4. CASE UNCHANGED storeVars
  BY <1>4, StutterInv
<1>5. QED
  BY <1>1, <1>2, <1>3, <1>4 DEF StoreNext

(* The invariant holds for every set of invocations, experiments and files,*)
(* when no outputs are captured while a removal is going on (the hypothesis*)
(* of every theorem below).                                                *)
THEOREM Invariance == ASSUME ~Concurrent PROVE StoreSpec => []Inv
<1>1. StoreInit => Inv
  BY InitInv
<1>2. Inv /\ [StoreNext]_storeVars => Inv'
  BY StepInv
<1>3. QED
  BY <1>1, <1>2, PTL DEF StoreSpec

(* Every variable has its type, and every row of an output, of a run or of *)
(* a validation has the rows it belongs to: `remove` deletes them together.*)
THEOREM TypeCorrect == ASSUME ~Concurrent PROVE StoreSpec => []StoreTypeOK
<1>1. Inv => StoreTypeOK
  BY DEF Inv
<1>2. QED
  BY <1>1, Invariance, PTL

(* However removals share files, overlap, fail or are killed, the bytes    *)
(* that a row of an artifact or log refers to are in the store or in a     *)
(* trash (`_artifact_log_filesystem_targets`, `_stage_targets_to_trash`).  *)
THEOREM BytesStayKept == ASSUME ~Concurrent PROVE StoreSpec => []BytesKept
<1>1. Inv => BytesKept
  BY DEF Inv, BytesOK, Kept, BytesKept
<1>2. QED
  BY <1>1, Invariance, PTL

(* The worktree of an experiment that has its row is there or in the trash *)
(* of a removal of it that goes on, was killed, or failed and could not    *)
(* put it back; its branch is there, or such a removal has deleted it      *)
(* (`cmd_exp_remove`, `_restore_staged_trashes`).                         *)
THEOREM ExperimentsIntact == ASSUME ~Concurrent PROVE StoreSpec => []ExperimentIntact
<1>1. Inv => ExperimentIntact
  BY DEF Inv, TreesOK, HoldsTree, BranchesOK, HoldsBranch, ExperimentIntact, Unfinished,
     Before, Removing
<1>2. QED
  BY <1>1, Invariance, PTL

(* What is in the trash of a removal that ended, and did not fail over it, *)
(* has an active cache entry (`_finalize_staged_trashes`).                 *)
THEOREM TrashIsRecorded == ASSUME ~Concurrent PROVE StoreSpec => []TrashRecorded
<1>1. Inv => TrashRecorded
  BY DEF Inv, WorkOK, TrashRecorded
<1>2. QED
  BY <1>1, Invariance, PTL
=============================================================================
