------------------------ MODULE ExperimentOps_proofs ------------------------
(***************************************************************************)
(* Theorems about ExperimentOps, for any experiments, invocations, user    *)
(* commits and commands.                                                   *)
(***************************************************************************)
EXTENDS ExperimentOps, TLAPS

(* A process at work knows its experiment, the commit it records and, when *)
(* it removes a run, the run.                                              *)
HoldsCommit == {"inserting", "staging", "settling", "violating", "recording",
                "executing", "seeking", "closing"}

LocalsOK ==
    \A o \in Ops :
        /\ pc[o] \notin {"idle", "ended"} => job[o].exp \in Exps
        /\ pc[o] \in HoldsCommit \ {"staging", "settling"} => loc[o].commit \in Commits
        /\ pc[o] = "removing run" => loc[o].run \in Ops

(* The CHECK of the experiments table on pre_archive_status.               *)
RowsOK ==
    \A e \in Exps : exps[e] # None => (exps[e].status = "archived" <=> exps[e].pre # None)

(* The baseline is not blocked, so a blocked commit has a parent.          *)
TreeOK == \A c \in Commits : tree[c].bad => tree[c].parent \in Commits

Inv == TypeOK /\ LocalsOK /\ RowsOK /\ TreeOK

(* The initial state satisfies the invariant.                              *)
LEMMA InitInv == Init => Inv
BY ConstantsAssumption, NoneAssumption
   DEF Init, Inv, TypeOK, LocalsOK, RowsOK, TreeOK, NewExp, NoJob, NoLoc, HoldsCommit,
       ExpRow, Commits, PC, Job, Loc

(* Admit preserves the invariant.                                          *)
LEMMA AdmitInv == ASSUME Inv, NEW o \in Ops, NEW k \in Commands, NEW e \in Exps, Admit(o, k, e)
                  PROVE  Inv'
BY DEF Admit, Inv, TypeOK, LocalsOK, RowsOK, TreeOK, HoldsCommit, Goto, tables, git,
       PC, Job

(* Acquire preserves the invariant.                                        *)
LEMMA AcquireInv == ASSUME Inv, NEW o \in Ops, Acquire(o)
                    PROVE  Inv'
BY DEF Acquire, Inv, TypeOK, LocalsOK, RowsOK, TreeOK, HoldsCommit, Goto, tables, git,
       PC, Critical, RunPC, SubmitPC, LockRow

(* Every process that ends leaves well-typed locals behind.                *)
LEMMA EndOK == ASSUME Inv, NEW o \in Ops, End(o)
               PROVE  /\ pc' \in [Ops -> PC]
                      /\ job' \in [Ops -> Job]
                      /\ loc' \in [Ops -> Loc]
                      /\ LocalsOK'
BY DEF End, Goto, Inv, TypeOK, LocalsOK, PC, Job, Loc, NoJob, NoLoc, HoldsCommit

(* A process at work that moves on: its locals stay complete.              *)
LEMMA MovesOK == ASSUME Inv, NEW o \in Ops, NEW label \in Critical, Goto(o, label),
                        pc[o] \notin {"idle", "ended"}, job' = job,
                        loc' \in [Ops -> Loc], \A p \in Ops \ {o} : loc'[p] = loc[p],
                        label \in HoldsCommit \ {"staging", "settling"} => loc'[o].commit \in Commits
                 PROVE  pc' \in [Ops -> PC] /\ LocalsOK'
<1>1. pc' \in [Ops -> PC] /\ pc'[o] = label /\ \A p \in Ops \ {o} : pc'[p] = pc[p]
  BY DEF Inv, TypeOK, Goto, PC
<1>2. label \notin {"idle", "ended", "removing run"}
  BY DEF Critical, RunPC, SubmitPC
<1>3. QED
  BY <1>1, <1>2 DEF Inv, LocalsOK

(* An interruption leaves the runs table well typed.                       *)
LEMMA InterruptedType == ASSUME TypeOK, NEW S
                         PROVE  Interrupted(S) \in [Ops -> RunRow \cup {None}]
BY DEF TypeOK, Interrupted, RunRow

(* What a commit leaves in the worktree and the commit graph.              *)
LEMMA GitCommitOK == ASSUME Inv, NEW e \in Exps, NEW c \in Commits, GitCommit(e, c)
                     PROVE  /\ tree' \in [Commits -> [parent : Commits \cup {None}, bad : BOOLEAN]]
                            /\ head' \in [Exps -> Commits]
                            /\ dirty' \in [Exps -> {"clean", "allowed", "blocked"}]
                            /\ TreeOK'
<1>1. PICK bad \in BOOLEAN :
           /\ tree' = [tree EXCEPT ![c] = [parent |-> head[e], bad |-> bad]]
           /\ head' = [head EXCEPT ![e] = c]
           /\ dirty' = [dirty EXCEPT ![e] = "clean"]
  BY DEF GitCommit, Inv, TypeOK
<1>2. head[e] \in Commits
  BY DEF Inv, TypeOK
<1>3. tree' \in [Commits -> [parent : Commits \cup {None}, bad : BOOLEAN]]
  BY <1>1, <1>2 DEF Inv, TypeOK
<1>4. TreeOK'
  BY <1>1, <1>2 DEF Inv, TypeOK, TreeOK
<1>5. QED
  BY <1>1, <1>3, <1>4 DEF Inv, TypeOK

(* A rollback moves HEAD to a commit.                                      *)
LEMMA RollbackOK == ASSUME Inv, NEW e \in Exps, tree[head[e]].bad, Rollback(e)
                    PROVE  /\ head' \in [Exps -> Commits]
                           /\ dirty' \in [Exps -> {"clean", "allowed", "blocked"}]
BY DEF Rollback, Inv, TypeOK, TreeOK

(* The update of the latest pointers keeps the row well typed.             *)
LEMMA WithLatestOK == ASSUME Inv, NEW o \in Ops, job[o].exp \in Exps, loc[o].commit \in Commits,
                             exps' = WithLatest(o)
                      PROVE  exps' \in [Exps -> ExpRow \cup {None}] /\ RowsOK'
BY DEF WithLatest, Inv, TypeOK, RowsOK, ExpRow

(* Busy preserves the invariant.                                           *)
LEMMA BusyInv == ASSUME Inv, NEW o \in Ops, Busy(o)
                  PROVE  Inv'
BY EndOK
   DEF Busy, Inv, TypeOK, LocalsOK, RowsOK, TreeOK, HoldsCommit, Goto, tables, git,
       PC, Critical, RunPC, SubmitPC

(* Screen preserves the invariant.                                         *)
LEMMA ScreenInv == ASSUME Inv, NEW o \in Ops, Screen(o)
                    PROVE  Inv'
BY InterruptedType
   DEF Screen, Inv, TypeOK, LocalsOK, RowsOK, TreeOK, HoldsCommit, Goto, tables, git,
       PC, Critical, RunPC, SubmitPC, OwnScope

(* Decide preserves the invariant.                                         *)
LEMMA DecideInv == ASSUME Inv, NEW o \in Ops, Decide(o)
                    PROVE  Inv'
<1>1. head[job[o].exp] \in Commits
  BY DEF Decide, Inv, TypeOK, LocalsOK
<1>2. PICK label \in {"checking", "entering", "seeking"} :
         Goto(o, label) /\ (label = "seeking" => loc' = [loc EXCEPT ![o].commit = head[job[o].exp]])
  BY DEF Decide
<1>3. /\ loc' \in [Ops -> Loc] /\ \A p \in Ops \ {o} : loc'[p] = loc[p]
      /\ label = "seeking" => loc'[o].commit \in Commits
  BY <1>1, <1>2 DEF Decide, Inv, TypeOK, Loc
<1>4. label \in Critical /\ (label \in HoldsCommit => label = "seeking")
  BY <1>2 DEF HoldsCommit, Critical, RunPC, SubmitPC
<1>5. pc' \in [Ops -> PC] /\ LocalsOK'
  BY <1>2, <1>3, <1>4, MovesOK DEF Decide
<1>6. QED
  BY <1>3, <1>5 DEF Decide, Inv, TypeOK, RowsOK, TreeOK, tables, git

(* Seek preserves the invariant.                                           *)
LEMMA SeekInv == ASSUME Inv, NEW o \in Ops, Seek(o)
                  PROVE  Inv'
<1>1. CASE Goto(o, "releasing") /\ loc' = loc
  <2>1. pc' \in [Ops -> PC] /\ LocalsOK'
    BY <1>1, MovesOK DEF Seek, HoldsCommit, Critical, Inv, TypeOK
  <2>2. QED
    BY <1>1, <2>1 DEF Seek, Inv, TypeOK, RowsOK, TreeOK, tables, git
<1>2. ASSUME NEW r \in Ops, Goto(o, "closing"), loc' = [loc EXCEPT ![o].run = r]
      PROVE  Inv'
  <2>1. loc' \in [Ops -> Loc] /\ loc'[o].commit = loc[o].commit
                             /\ \A p \in Ops \ {o} : loc'[p] = loc[p]
    BY <1>2 DEF Inv, TypeOK, Loc
  <2>2. loc[o].commit \in Commits
    BY DEF Seek, Inv, LocalsOK, HoldsCommit
  <2>3. pc' \in [Ops -> PC] /\ LocalsOK'
    BY <1>2, <2>1, <2>2, MovesOK DEF Seek, Critical, SubmitPC
  <2>4. QED
    BY <1>2, <2>1, <2>3 DEF Seek, Inv, TypeOK, RowsOK, TreeOK, tables, git
<1>3. QED
  BY <1>1, <1>2 DEF Seek, Reusable

(* Close preserves the invariant.                                          *)
LEMMA CloseInv == ASSUME Inv, NEW o \in Ops, Close(o)
                   PROVE  Inv'
<1> DEFINE e == job[o].exp
<1>1. e \in Exps /\ loc[o].commit \in Commits /\ loc[o].run \in Ops \cup {None}
  BY DEF Close, Inv, TypeOK, LocalsOK, HoldsCommit, Loc
<1>2. pc' \in [Ops -> PC] /\ LocalsOK'
  BY MovesOK DEF Close, Critical, HoldsCommit, Inv, TypeOK
<1>3. subs' \in [Exps -> SubRow \cup {None}]
  BY <1>1 DEF Close, Inv, TypeOK, SubRow
<1>4. exps' \in [Exps -> ExpRow \cup {None}] /\ RowsOK'
  <2>1. CASE exps' = exps
    BY <2>1 DEF Inv, TypeOK, RowsOK
  <2>2. CASE exps[e] # None /\ exps' # exps
    <3>1. exps' = [exps EXCEPT ![e].status = "closed", ![e].final = loc[o].run,
                               ![e].finalCommit = loc[o].commit]
      BY <2>2 DEF Close
    <3>2. exps[e].status # "archived"
      BY <2>2 DEF Close, Closable
    <3>3. QED
      BY <1>1, <2>2, <3>1, <3>2 DEF Inv, TypeOK, RowsOK, ExpRow
  <2>3. QED
    BY <2>1, <2>2 DEF Close
<1>5. QED
  BY <1>2, <1>3, <1>4 DEF Close, Inv, TypeOK, TreeOK, git

(* Enter preserves the invariant.                                          *)
LEMMA EnterInv == ASSUME Inv, NEW o \in Ops, Enter(o)
                   PROVE  Inv'
BY DEF Enter, Inv, TypeOK, LocalsOK, RowsOK, TreeOK, HoldsCommit, Goto, tables, git,
       PC, Critical, RunPC, SubmitPC

(* InterruptStale preserves the invariant.                                 *)
LEMMA InterruptStaleInv == ASSUME Inv, NEW o \in Ops, InterruptStale(o)
                            PROVE  Inv'
BY InterruptedType
   DEF InterruptStale, Inv, TypeOK, LocalsOK, RowsOK, TreeOK, HoldsCommit, Goto,
       tables, git, PC, Critical, RunPC, SubmitPC, OwnScope

(* CheckScope preserves the invariant.                                     *)
LEMMA CheckScopeInv == ASSUME Inv, NEW o \in Ops, CheckScope(o)
                        PROVE  Inv'
<1> DEFINE e == job[o].exp
<1>1. e \in Exps /\ head[e] \in Commits
  BY DEF CheckScope, Inv, TypeOK, LocalsOK
<1>2. PICK label \in Critical : Goto(o, label)
  BY DEF CheckScope, Inv, TypeOK, Critical, RunPC
<1>3. /\ loc' \in [Ops -> Loc]
      /\ loc'[o].commit = head[e]
      /\ \A p \in Ops \ {o} : loc'[p] = loc[p]
  BY <1>1 DEF CheckScope, Inv, TypeOK, Loc
<1>4. pc' \in [Ops -> PC] /\ LocalsOK'
  BY <1>1, <1>2, <1>3, MovesOK DEF CheckScope
<1>5. QED
  BY <1>3, <1>4 DEF CheckScope, Inv, TypeOK, RowsOK, TreeOK, tables, git

(* InsertRunning preserves the invariant.                                  *)
LEMMA InsertRunningInv == ASSUME Inv, NEW o \in Ops, InsertRunning(o)
                           PROVE  Inv'
BY DEF InsertRunning, Inv, TypeOK, LocalsOK, RowsOK, TreeOK, HoldsCommit, Goto,
       tables, git, PC, Critical, RunPC, SubmitPC, RunningRow, RunRow, Loc

(* Stage preserves the invariant.                                          *)
LEMMA StageInv == ASSUME Inv, NEW o \in Ops, Stage(o)
                   PROVE  Inv'
<1>1. job[o].exp \in Exps /\ o \in Commits
  BY DEF Stage, Inv, LocalsOK, Commits
<1>2. GitCommit(job[o].exp, o)
  BY DEF Stage
<1>3. loc' \in [Ops -> Loc] /\ \A p \in Ops \ {o} : loc'[p] = loc[p]
  BY DEF Stage, Inv, TypeOK, Loc
<1>4. pc' \in [Ops -> PC] /\ LocalsOK'
  BY <1>3, MovesOK DEF Stage, Critical, RunPC, HoldsCommit
<1>5. QED
  BY <1>1, <1>2, <1>3, <1>4, GitCommitOK DEF Stage, Inv, TypeOK, RowsOK, tables

(* Settle preserves the invariant.                                         *)
LEMMA SettleInv == ASSUME Inv, NEW o \in Ops, Settle(o)
                    PROVE  Inv'
<1> DEFINE e == job[o].exp
<1>1. e \in Exps /\ head[e] \in Commits
  BY DEF Settle, Inv, TypeOK, LocalsOK
<1>2. PICK label \in Critical : Goto(o, label)
  BY DEF Settle, Critical, RunPC, SubmitPC
<1>3. /\ loc' \in [Ops -> Loc]
      /\ loc'[o].commit = head[e]
      /\ \A p \in Ops \ {o} : loc'[p] = loc[p]
  BY <1>1 DEF Settle, Inv, TypeOK, Loc
<1>4. pc' \in [Ops -> PC] /\ LocalsOK'
  BY <1>1, <1>2, <1>3, MovesOK DEF Settle
<1>5. head' \in [Exps -> Commits] /\ dirty' \in [Exps -> {"clean", "allowed", "blocked"}]
  <2>1. CASE Rollback(e) /\ tree[head[e]].bad
    BY <1>1, <2>1, RollbackOK
  <2>2. CASE UNCHANGED <<head, dirty>>
    BY <2>2 DEF Inv, TypeOK
  <2>3. QED
    BY <2>1, <2>2 DEF Settle, Blocked
<1>6. QED
  BY <1>3, <1>4, <1>5 DEF Settle, Inv, TypeOK, RowsOK, TreeOK, tables

(* Record preserves the invariant.                                         *)
LEMMA RecordInv == ASSUME Inv, NEW o \in Ops, Record(o)
                    PROVE  Inv'
<1>1. loc[o].commit \in Commits /\ job[o].exp \in Exps
  BY DEF Record, Inv, LocalsOK, HoldsCommit
<1>2. RunningRow(o) \in RunRow
  BY <1>1 DEF RunningRow, RunRow
<1>3. runs' \in [Ops -> RunRow \cup {None}]
  <2>1. CASE runs' = [runs EXCEPT ![o] = RunningRow(o)]
    BY <1>2, <2>1 DEF Inv, TypeOK
  <2>2. CASE runs' = runs
    BY <2>2 DEF Inv, TypeOK
  <2>3. CASE runs[o] # None /\ runs' = [runs EXCEPT ![o].commit = loc[o].commit]
    BY <1>1, <2>3 DEF Inv, TypeOK, RunRow
  <2>4. QED
    BY <2>1, <2>2, <2>3 DEF Record
<1>4. pc' \in [Ops -> PC] /\ LocalsOK'
  BY <1>1, MovesOK DEF Record, Critical, RunPC, Inv, TypeOK
<1>5. QED
  BY <1>3, <1>4 DEF Record, Inv, TypeOK, RowsOK, TreeOK, git

(* Execute preserves the invariant.                                        *)
LEMMA ExecuteInv == ASSUME Inv, NEW o \in Ops, NEW result \in Finished, Execute(o, result)
                     PROVE  Inv'
<1>1. loc[o].commit \in Commits /\ job[o].exp \in Exps
  BY DEF Execute, Inv, LocalsOK, HoldsCommit
<1>2. runs' \in [Ops -> RunRow \cup {None}]
  <2>1. CASE runs[o] = None
    BY <2>1 DEF Execute, Inv, TypeOK
  <2>2. CASE runs[o] # None
    <3>1. runs' = [runs EXCEPT ![o].status = result, ![o].commit = loc[o].commit]
      BY <2>2 DEF Execute
    <3>2. runs[o] \in RunRow
      BY <2>2 DEF Inv, TypeOK
    <3>3. [runs[o] EXCEPT !.status = result, !.commit = loc[o].commit] \in RunRow
      BY <1>1, <3>2 DEF RunRow
    <3>4. QED
      BY <3>1, <3>3 DEF Inv, TypeOK
  <2>3. QED
    BY <2>1, <2>2
<1>3. exps' \in [Exps -> ExpRow \cup {None}] /\ RowsOK'
  BY <1>1, WithLatestOK DEF Execute
<1>4. /\ loc' \in [Ops -> Loc]
      /\ loc'[o].commit = loc[o].commit
      /\ \A p \in Ops \ {o} : loc'[p] = loc[p]
  BY DEF Execute, Inv, TypeOK, Loc
<1>5. PICK label \in {"closing", "releasing"} : Goto(o, label)
  BY DEF Execute
<1>6. pc' \in [Ops -> PC] /\ LocalsOK'
  BY <1>1, <1>4, <1>5, MovesOK DEF Execute, Critical, SubmitPC
<1>7. outputs' \subseteq OutputRow
  BY <1>1 DEF Execute, Inv, TypeOK, OutputRow
<1>8. QED
  BY <1>2, <1>3, <1>4, <1>6, <1>7 DEF Execute, Inv, TypeOK, TreeOK, git

(* Violate preserves the invariant.                                        *)
LEMMA ViolateInv == ASSUME Inv, NEW o \in Ops, Violate(o)
                     PROVE  Inv'
<1>1. loc[o].commit \in Commits /\ job[o].exp \in Exps
  BY DEF Violate, Inv, LocalsOK, HoldsCommit
<1>2. runs' \in [Ops -> RunRow \cup {None}]
  <2>1. [RunningRow(o) EXCEPT !.status = "error"] \in RunRow
    BY <1>1 DEF RunningRow, RunRow, Finished
  <2>2. runs[o] # None =>
          [runs[o] EXCEPT !.status = "error", !.commit = loc[o].commit] \in RunRow
    BY <1>1 DEF Inv, TypeOK, RunRow, Finished
  <2>3. QED
    BY <2>1, <2>2 DEF Violate, Inv, TypeOK
<1>3. exps' \in [Exps -> ExpRow \cup {None}] /\ RowsOK'
  BY <1>1, WithLatestOK DEF Violate
<1>4. pc' \in [Ops -> PC] /\ LocalsOK'
  BY MovesOK DEF Violate, Critical, HoldsCommit, Inv, TypeOK
<1>5. QED
  BY <1>2, <1>3, <1>4 DEF Violate, Inv, TypeOK, TreeOK, git

(* Abort preserves the invariant.                                          *)
LEMMA AbortInv == ASSUME Inv, NEW o \in Ops, Abort(o)
                   PROVE  Inv'
BY DEF Abort, Inv, TypeOK, LocalsOK, RowsOK, TreeOK, HoldsCommit, Goto, tables, git,
       PC, Critical, RunPC, SubmitPC

(* Release preserves the invariant.                                        *)
LEMMA ReleaseInv == ASSUME Inv, NEW o \in Ops, Release(o)
                     PROVE  Inv'
BY EndOK
   DEF Release, Inv, TypeOK, LocalsOK, RowsOK, TreeOK, HoldsCommit, Goto, tables, git,
       PC, Critical, RunPC, SubmitPC, LockRow

(* Crash preserves the invariant.                                          *)
LEMMA CrashInv == ASSUME Inv, NEW o \in Ops, Crash(o)
                   PROVE  Inv'
BY EndOK
   DEF Crash, Inv, TypeOK, LocalsOK, RowsOK, TreeOK, HoldsCommit, Goto, tables, git,
       PC, Critical, RunPC, SubmitPC

(* Expire preserves the invariant.                                         *)
LEMMA ExpireInv == ASSUME Inv, NEW e \in Exps, Expire(e)
                    PROVE  Inv'
BY DEF Expire, Inv, TypeOK, LocalsOK, RowsOK, TreeOK, HoldsCommit, Goto, tables, git,
       PC, Critical, RunPC, SubmitPC, LockRow

(* ClearStale preserves the invariant.                                     *)
LEMMA ClearStaleInv == ASSUME Inv, ClearStale
                        PROVE  Inv'
BY DEF ClearStale, Inv, TypeOK, LocalsOK, RowsOK, TreeOK, HoldsCommit, Goto, tables,
       git, PC, Critical, RunPC, SubmitPC

(* ExpArchive preserves the invariant.                                     *)
LEMMA ExpArchiveInv == ASSUME Inv, NEW e \in Exps, ExpArchive(e)
                        PROVE  Inv'
<1>1. exps[e] \in ExpRow /\ exps[e].status \in {"open", "closed"}
  BY DEF ExpArchive, NotYetArchived, Inv, TypeOK, ExpRow
<1>2. exps[e].status # None
  BY <1>1, NoneAssumption
<1>3. exps' \in [Exps -> ExpRow \cup {None}] /\ RowsOK'
  BY <1>1, <1>2 DEF ExpArchive, Inv, TypeOK, RowsOK, ExpRow
<1>4. QED
  BY <1>3 DEF ExpArchive, Inv, TypeOK, LocalsOK, TreeOK, git

(* ExpUnarchive preserves the invariant.                                   *)
LEMMA ExpUnarchiveInv == ASSUME Inv, NEW e \in Exps, ExpUnarchive(e)
                          PROVE  Inv'
<1>1. exps[e] \in ExpRow /\ exps[e].pre \in {"open", "closed"}
  BY DEF ExpUnarchive, Inv, TypeOK, RowsOK, ExpRow
<1>2. exps' \in [Exps -> ExpRow \cup {None}] /\ RowsOK'
  BY <1>1 DEF ExpUnarchive, Restored, Inv, TypeOK, RowsOK, ExpRow
<1>3. QED
  BY <1>2 DEF ExpUnarchive, Inv, TypeOK, LocalsOK, TreeOK, git

(* ProjectArchive preserves the invariant.                                 *)
LEMMA ProjectArchiveInv == ASSUME Inv, ProjectArchive
                            PROVE  Inv'
BY DEF ProjectArchive, Inv, TypeOK, LocalsOK, RowsOK, TreeOK, HoldsCommit, Goto,
       tables, git, PC, Critical, RunPC, SubmitPC

(* ProjectUnarchive preserves the invariant.                               *)
LEMMA ProjectUnarchiveInv == ASSUME Inv, ProjectUnarchive
                              PROVE  Inv'
BY DEF ProjectUnarchive, Inv, TypeOK, LocalsOK, RowsOK, TreeOK, HoldsCommit, Goto,
       tables, git, PC, Critical, RunPC, SubmitPC

(* Status preserves the invariant.                                         *)
LEMMA StatusInv == ASSUME Inv, Status
                    PROVE  Inv'
BY InterruptedType
   DEF Status, Inv, TypeOK, LocalsOK, RowsOK, TreeOK, HoldsCommit, Goto, tables, git,
       PC, Critical, RunPC, SubmitPC

(* RunArchive preserves the invariant.                                     *)
LEMMA RunArchiveInv == ASSUME Inv, NEW r \in Ops, NEW flag \in BOOLEAN, RunArchive(r, flag)
                        PROVE  Inv'
<1>1. Interrupted(Exps) \in [Ops -> RunRow \cup {None}] /\ Interrupted(Exps)[r] # None
  BY InterruptedType, NoneAssumption DEF RunArchive, Inv, Interrupted, TypeOK, RunRow
<1>2. runs' \in [Ops -> RunRow \cup {None}]
  BY <1>1 DEF RunArchive, RunRow
<1>3. QED
  BY <1>2 DEF RunArchive, Inv, TypeOK, LocalsOK, RowsOK, TreeOK, git

(* ExpRemovePreflight preserves the invariant.                             *)
LEMMA ExpRemovePreflightInv == ASSUME Inv, NEW o \in Ops, NEW e \in Exps, ExpRemovePreflight(o, e)
                                PROVE  Inv'
BY DEF ExpRemovePreflight, Inv, TypeOK, LocalsOK, RowsOK, TreeOK, HoldsCommit, Goto,
       tables, git, PC, Critical, RunPC, SubmitPC, Job

(* ExpRemove preserves the invariant.                                      *)
LEMMA ExpRemoveInv == ASSUME Inv, NEW o \in Ops, ExpRemove(o)
                       PROVE  Inv'
BY EndOK
   DEF ExpRemove, Inv, TypeOK, LocalsOK, RowsOK, TreeOK, HoldsCommit, Goto, tables,
       git, PC, Critical, RunPC, SubmitPC

(* RunRemovePreflight preserves the invariant.                             *)
LEMMA RunRemovePreflightInv == ASSUME Inv, NEW o \in Ops, NEW r \in Ops, RunRemovePreflight(o, r)
                                PROVE  Inv'
<1>1. runs' \in [Ops -> RunRow \cup {None}]
  BY InterruptedType DEF RunRemovePreflight, Inv
<1>2. CASE End(o)
  BY <1>1, <1>2, EndOK DEF RunRemovePreflight, Inv, TypeOK, RowsOK, TreeOK, git
<1>3. CASE ~End(o)
  <2>1. runs[r].exp \in Exps
    BY DEF RunRemovePreflight, Inv, TypeOK, RunRow
  <2>2. /\ job' = [job EXCEPT ![o] = [cmd |-> "run remove", exp |-> runs[r].exp]]
        /\ loc' = [loc EXCEPT ![o].run = r]
        /\ pc' = [pc EXCEPT ![o] = "removing run"]
    BY <1>3 DEF RunRemovePreflight, Goto
  <2>3. job' \in [Ops -> Job] /\ loc' \in [Ops -> Loc] /\ pc' \in [Ops -> PC]
    BY <2>1, <2>2 DEF Inv, TypeOK, Job, Loc, PC
  <2>4. LocalsOK'
    <3>1. pc'[o] = "removing run" /\ job'[o].exp \in Exps /\ loc'[o].run \in Ops
      BY <2>1, <2>2 DEF Inv, TypeOK, Loc
    <3>2. \A p \in Ops \ {o} : pc'[p] = pc[p] /\ job'[p] = job[p] /\ loc'[p] = loc[p]
      BY <2>2 DEF Inv, TypeOK
    <3>3. QED
      BY <3>1, <3>2 DEF Inv, LocalsOK, HoldsCommit
  <2>5. QED
    BY <1>1, <2>3, <2>4 DEF RunRemovePreflight, Inv, TypeOK, RowsOK, TreeOK, git
<1>4. QED
  BY <1>2, <1>3

(* RunRemove preserves the invariant.                                      *)
LEMMA RunRemoveInv == ASSUME Inv, NEW o \in Ops, RunRemove(o)
                       PROVE  Inv'
<1> DEFINE e == job[o].exp
           r == loc[o].run
<1>1. e \in Exps /\ r \in Ops
  BY DEF RunRemove, Inv, LocalsOK
<1>2. exps' \in [Exps -> ExpRow \cup {None}] /\ RowsOK'
  <2>1. CASE exps' = exps
    BY <2>1 DEF Inv, TypeOK, RowsOK
  <2>2. CASE exps[e] # None /\ exps' # exps
    <3>1. PICK p \in LatestAfter(e, r) :
             exps' = [exps EXCEPT ![e].latest = p[1], ![e].latestCommit = p[2],
                                  ![e].finalRemoved = @ \/ FinalGone(e, r)]
      BY <2>2 DEF RunRemove
    <3>2. exps[e] \in ExpRow
      BY <1>1, <2>2 DEF Inv, TypeOK
    <3>3. p[1] \in Ops \cup {None} /\ p[2] \in Commits
      BY <1>1, <3>2 DEF LatestAfter, Inv, TypeOK, ExpRow, RunRow
    <3>4. FinalGone(e, r) \in BOOLEAN
      BY DEF FinalGone
    <3>5. exps'[e] = [exps[e] EXCEPT !.latest = p[1], !.latestCommit = p[2],
                                     !.finalRemoved = @ \/ FinalGone(e, r)]
          /\ exps' \in [Exps -> ExpRow \cup {None, exps'[e]}]
          /\ \A x \in Exps \ {e} : exps'[x] = exps[x]
      BY <1>1, <3>1 DEF Inv, TypeOK
    <3>6. exps'[e] \in ExpRow /\ exps'[e].status = exps[e].status /\ exps'[e].pre = exps[e].pre
      BY <3>2, <3>3, <3>4, <3>5 DEF ExpRow
    <3>7. exps' \in [Exps -> ExpRow \cup {None}]
      BY <3>5, <3>6
    <3>8. ASSUME NEW x \in Exps, exps'[x] # None
          PROVE  exps'[x].status = "archived" <=> exps'[x].pre # None
      <4>1. exps[x] # None /\ exps'[x].status = exps[x].status /\ exps'[x].pre = exps[x].pre
        BY <2>2, <3>5, <3>6, <3>8
      <4>2. QED
        BY <4>1 DEF Inv, RowsOK
    <3>9. QED
      BY <3>7, <3>8 DEF RowsOK
  <2>3. QED
    BY <2>1, <2>2 DEF RunRemove
<1>3. runs' \in [Ops -> RunRow \cup {None}] /\ outputs' \subseteq OutputRow
  BY DEF RunRemove, Inv, TypeOK
<1>4. QED
  BY <1>2, <1>3, EndOK DEF RunRemove, Inv, TypeOK, TreeOK, git

(* RemoveFails preserves the invariant.                                    *)
LEMMA RemoveFailsInv == ASSUME Inv, NEW o \in Ops, RemoveFails(o)
                         PROVE  Inv'
BY EndOK
   DEF RemoveFails, Inv, TypeOK, LocalsOK, RowsOK, TreeOK, HoldsCommit, Goto, tables,
       git, PC, Critical, RunPC, SubmitPC

(* UserEdit preserves the invariant.                                       *)
LEMMA UserEditInv == ASSUME Inv, NEW e \in Exps, NEW d \in {"clean", "allowed", "blocked"}, UserEdit(e, d)
                      PROVE  Inv'
BY DEF UserEdit, Inv, TypeOK, LocalsOK, RowsOK, TreeOK, HoldsCommit, Goto, tables,
       git, PC, Critical, RunPC, SubmitPC

(* UserCommit preserves the invariant.                                     *)
LEMMA UserCommitInv == ASSUME Inv, NEW e \in Exps, NEW c \in UserCommits, UserCommit(e, c)
                        PROVE  Inv'
BY GitCommitOK
   DEF UserCommit, Inv, TypeOK, LocalsOK, RowsOK, TreeOK, HoldsCommit, Goto, tables,
       git, PC, Critical, RunPC, SubmitPC, Commits

-----------------------------------------------------------------------------
(* Every step of run and submit preserves the invariant.                   *)
LEMMA OpStepInv == ASSUME Inv, NEW o \in Ops, OpStep(o)
                   PROVE  Inv'
BY AcquireInv, BusyInv, ScreenInv, DecideInv, SeekInv, CloseInv, EnterInv, InterruptStaleInv,
   CheckScopeInv, InsertRunningInv, StageInv, SettleInv, RecordInv, ViolateInv, ExecuteInv,
   AbortInv, ReleaseInv
   DEF OpStep

(* Every administrative command preserves the invariant.                   *)
LEMMA AdminInv == ASSUME Inv, Admin
                  PROVE  Inv'
BY ExpArchiveInv, ExpUnarchiveInv, ProjectArchiveInv, ProjectUnarchiveInv, ClearStaleInv,
   StatusInv, RunArchiveInv
   DEF Admin

(* Every step, and a stutter, preserves the invariant.                     *)
LEMMA NextInv == Inv /\ [Next]_vars => Inv'
<1> SUFFICES ASSUME Inv, [Next]_vars
             PROVE  Inv'
  OBVIOUS
<1>1. ASSUME NEW o \in Ops, OpStart(o)
      PROVE  Inv'
  BY <1>1, AdmitInv, ExpRemovePreflightInv, RunRemovePreflightInv DEF OpStart
<1>2. ASSUME NEW o \in Ops, OpStep(o)
      PROVE  Inv'
  BY <1>2, OpStepInv
<1>3. ASSUME NEW o \in Ops, OpRemove(o)
      PROVE  Inv'
  BY <1>3, ExpRemoveInv, RunRemoveInv, RemoveFailsInv DEF OpRemove
<1>4. ASSUME NEW o \in Ops, Crash(o)
      PROVE  Inv'
  BY <1>4, CrashInv
<1>5. ASSUME NEW e \in Exps, Expire(e)
      PROVE  Inv'
  BY <1>5, ExpireInv
<1>6. CASE Admin
  BY <1>6, AdminInv
<1>7. CASE User
  BY <1>7, UserEditInv, UserCommitInv DEF User
<1>8. CASE UNCHANGED vars
  BY <1>8 DEF vars, Inv, TypeOK, LocalsOK, RowsOK, TreeOK
<1>9. QED
  BY <1>1, <1>2, <1>3, <1>4, <1>5, <1>6, <1>7, <1>8 DEF Next

(* Every reachable state satisfies the inductive invariant.                *)
THEOREM Invariance == Spec => []Inv
BY InitInv, NextInv, PTL DEF Spec

(* The rows, the worktrees and the locals of every process have the types  *)
(* the schema and the code give them, whatever is interleaved or killed.   *)
THEOREM TypeCorrect == Spec => []TypeOK
<1>1. Inv => TypeOK
  BY DEF Inv
<1>2. QED
  BY <1>1, Invariance, PTL

-----------------------------------------------------------------------------
(* Mutual exclusion, as long as no live invocation outlasts its lock: who  *)
(* is in the critical section owns the unexpired row of its experiment.    *)
LockHeld(o) ==
    /\ locks[job[o].exp] # None
    /\ locks[job[o].exp].owner = o
    /\ ~locks[job[o].exp].expired

LocksOK == \A o \in Ops : InCritical(o) => LockHeld(o)

(* A step of a process other than its acquiring or ending leaves the locks *)
(* and jobs alone, and enters the critical section from within it only.    *)
Moves(o) ==
    /\ locks' = locks
    /\ job' = job
    /\ InCritical(o)
    /\ \E label \in PC : Goto(o, label)

(* A process that moves on inside its section keeps what the locks say.    *)
LEMMA MovesLocks == ASSUME Inv, LocksOK, NEW o \in Ops, Moves(o)
                    PROVE  LocksOK'
BY DEF Moves, Inv, TypeOK, LocksOK, LockHeld, InCritical, Goto

(* A process that ends leaves the section without touching a lock.         *)
LEMMA EndLocks == ASSUME Inv, LocksOK, NEW o \in Ops, End(o), locks' = locks
                  PROVE  LocksOK'
BY DEF End, Goto, Inv, TypeOK, LocksOK, LockHeld, InCritical, Critical, RunPC, SubmitPC

(* The row acquired belongs to the one process in the section.             *)
LEMMA AcquireLocks == ASSUME Inv, LocksOK, NEW o \in Ops, Acquire(o)
                      PROVE  LocksOK'
<1>1. job[o].exp \in Exps /\ (locks[job[o].exp] # None => locks[job[o].exp].expired)
  BY DEF Acquire, Inv, LocalsOK, LockFree
<1>2. ASSUME NEW p \in Ops, InCritical(p)'
      PROVE  LockHeld(p)'
  <2>1. CASE p = o
    <3>1. locks'[job[o].exp] = [owner |-> o, expired |-> FALSE] /\ job' = job
      BY <1>1 DEF Acquire, Inv, TypeOK
    <3>2. [owner |-> o, expired |-> FALSE] # None
      <4>1. [owner |-> o, expired |-> FALSE] \in LockRow
        BY DEF LockRow
      <4>2. QED
        BY <4>1, NoneAssumption
    <3>3. QED
      BY <2>1, <3>1, <3>2 DEF LockHeld
  <2>2. CASE p # o
    <3>1. InCritical(p) /\ LockHeld(p) /\ job'[p] = job[p]
      BY <1>2, <2>2 DEF Acquire, Goto, Inv, TypeOK, InCritical, LocksOK
    <3>2. job[p].exp # job[o].exp
      BY <1>1, <3>1 DEF LockHeld
    <3>3. QED
      BY <3>1, <3>2 DEF Acquire, Inv, TypeOK, LockHeld
  <2>3. QED
    BY <2>1, <2>2
<1>3. QED
  BY <1>2 DEF LocksOK

(* The owner deletes its row as it leaves the section.                     *)
LEMMA ReleaseLocks == ASSUME Inv, LocksOK, NEW o \in Ops, Release(o)
                      PROVE  LocksOK'
<1>1. ASSUME NEW p \in Ops, InCritical(p)'
      PROVE  LockHeld(p)'
  <2>1. p # o /\ InCritical(p) /\ LockHeld(p) /\ job'[p] = job[p]
    BY <1>1
       DEF Release, End, Goto, Inv, TypeOK, InCritical, LocksOK, Critical, RunPC,
           SubmitPC
  <2>2. locks'[job[p].exp] = locks[job[p].exp]
    <3>1. CASE locks' = locks
      BY <3>1
    <3>2. CASE locks[job[o].exp].owner = o /\ locks' = [locks EXCEPT ![job[o].exp] = None]
      <4>1. job[p].exp # job[o].exp
        BY <2>1, <3>2 DEF LockHeld
      <4>2. job[p].exp \in Exps
        BY <2>1 DEF Inv, LocalsOK, InCritical, Critical, RunPC, SubmitPC
      <4>3. QED
        BY <3>2, <4>1, <4>2 DEF Inv, TypeOK
    <3>3. QED
      BY <3>1, <3>2 DEF Release
  <2>3. QED
    BY <2>1, <2>2 DEF LockHeld
<1>2. QED
  BY <1>1 DEF LocksOK

(* Without slow processes, only rows of ended processes expire.            *)
LEMMA ExpireLocks == ASSUME Inv, LocksOK, ~SlowOps, NEW e \in Exps, Expire(e)
                     PROVE  LocksOK'
<1>1. ASSUME NEW p \in Ops, InCritical(p)'
      PROVE  LockHeld(p)'
  <2>1. InCritical(p) /\ LockHeld(p) /\ job' = job
    BY <1>1 DEF Expire, InCritical, LocksOK
  <2>2. job[p].exp # e
    BY <2>1 DEF Expire, LockHeld, InCritical, Critical, RunPC, SubmitPC
  <2>3. QED
    BY <2>1, <2>2 DEF Expire, Inv, TypeOK, LockHeld
<1>2. QED
  BY <1>1 DEF LocksOK

(* locks clear-stale deletes only rows nobody in the section owns.         *)
LEMMA ClearStaleLocks == ASSUME Inv, LocksOK, ClearStale
                         PROVE  LocksOK'
<1>1. ASSUME NEW p \in Ops, InCritical(p)'
      PROVE  LockHeld(p)'
  <2>1. InCritical(p) /\ LockHeld(p) /\ job' = job
    BY <1>1 DEF ClearStale, InCritical, LocksOK
  <2>2. job[p].exp \in Exps
    BY <2>1 DEF Inv, LocalsOK, InCritical, Critical, RunPC, SubmitPC
  <2>3. QED
    BY <2>1, <2>2 DEF ClearStale, LockHeld
<1>2. QED
  BY <1>1 DEF LocksOK

(* Whoever is not in the critical section may change its own locals.       *)
LEMMA OutsideLocks == ASSUME Inv, LocksOK, NEW o \in Ops, NEW label \in PC \ Critical,
                             Goto(o, label), locks' = locks, \A p \in Ops \ {o} : job'[p] = job[p]
                      PROVE  LocksOK'
BY DEF Goto, Inv, TypeOK, LocksOK, LockHeld, InCritical

(* Every step of run and submit preserves the lock invariant.              *)
LEMMA OpStepLocks == ASSUME Inv, LocksOK, NEW o \in Ops, OpStep(o)
                     PROVE  LocksOK'
<1>1. CASE Acquire(o)
  BY <1>1, AcquireLocks
<1>2. CASE Release(o)
  BY <1>2, ReleaseLocks
<1>3. CASE Busy(o)
  BY <1>3, EndLocks DEF Busy
<1>4. CASE Screen(o) \/ Decide(o) \/ Seek(o) \/ Close(o) \/ Enter(o) \/ InterruptStale(o)
  <2>1. Moves(o)
    BY <1>4 DEF Screen, Decide, Seek, Close, Enter, InterruptStale, Moves, InCritical,
                PC, Critical, RunPC, SubmitPC
  <2>2. QED
    BY <2>1, MovesLocks
<1>5. CASE CheckScope(o) \/ InsertRunning(o) \/ Stage(o) \/ Settle(o)
  <2>1. Moves(o)
    BY <1>5 DEF CheckScope, InsertRunning, Stage, Settle, Moves, InCritical,
                PC, Critical, RunPC, SubmitPC
  <2>2. QED
    BY <2>1, MovesLocks
<1>6. CASE Record(o) \/ Violate(o) \/ Abort(o) \/ \E result \in Finished : Execute(o, result)
  <2>1. Moves(o)
    BY <1>6 DEF Record, Violate, Abort, Execute, Moves, InCritical,
                PC, Critical, RunPC, SubmitPC
  <2>2. QED
    BY <2>1, MovesLocks
<1>7. QED
  BY <1>1, <1>2, <1>3, <1>4, <1>5, <1>6 DEF OpStep

(* Every step preserves the lock invariant when no process is slow.        *)
LEMMA NextLocks == ASSUME ~SlowOps
                   PROVE  Inv /\ LocksOK /\ [Next]_vars => LocksOK'
<1> SUFFICES ASSUME Inv, LocksOK, [Next]_vars
             PROVE  LocksOK'
  OBVIOUS
<1>1. ASSUME NEW o \in Ops, OpStart(o)
      PROVE  LocksOK'
  <2>1. ASSUME NEW k \in Commands, NEW e \in Exps, Admit(o, k, e)
        PROVE  LocksOK'
    <3>1. "admitted" \in PC \ Critical
      BY DEF PC, Critical, RunPC, SubmitPC
    <3>2. QED
      BY <2>1, <3>1, OutsideLocks DEF Admit, Inv, TypeOK
  <2>2. ASSUME NEW e \in Exps, ExpRemovePreflight(o, e)
        PROVE  LocksOK'
    <3>1. "removing exp" \in PC \ Critical
      BY DEF PC, Critical, RunPC, SubmitPC
    <3>2. QED
      BY <2>2, <3>1, OutsideLocks DEF ExpRemovePreflight, Inv, TypeOK
  <2>3. ASSUME NEW r \in Ops, RunRemovePreflight(o, r)
        PROVE  LocksOK'
    <3>1. "removing run" \in PC \ Critical
      BY DEF PC, Critical, RunPC, SubmitPC
    <3>2. CASE End(o)
      BY <2>3, <3>2, EndLocks DEF RunRemovePreflight
    <3>3. CASE ~End(o)
      BY <2>3, <3>1, <3>3, OutsideLocks DEF RunRemovePreflight, Inv, TypeOK
    <3>4. QED
      BY <3>2, <3>3
  <2>4. QED
    BY <1>1, <2>1, <2>2, <2>3 DEF OpStart
<1>2. ASSUME NEW o \in Ops, OpStep(o)
      PROVE  LocksOK'
  BY <1>2, OpStepLocks
<1>3. ASSUME NEW o \in Ops, OpRemove(o) \/ Crash(o)
      PROVE  LocksOK'
  BY <1>3, EndLocks DEF OpRemove, ExpRemove, RunRemove, RemoveFails, Crash
<1>4. ASSUME NEW e \in Exps, Expire(e)
      PROVE  LocksOK'
  BY <1>4, ExpireLocks
<1>5. CASE Admin
  <2>1. CASE ClearStale
    BY <2>1, ClearStaleLocks
  <2>2. CASE ~ClearStale
    <3>1. UNCHANGED <<locks, pc, job>>
      BY <1>5, <2>2
         DEF Admin, ExpArchive, ExpUnarchive, ProjectArchive, ProjectUnarchive,
                        Status, RunArchive
    <3>2. QED
      BY <3>1 DEF LocksOK, LockHeld, InCritical
  <2>3. QED
    BY <2>1, <2>2
<1>6. CASE User
  <2>1. UNCHANGED <<locks, pc, job>>
    BY <1>6 DEF User, UserEdit, UserCommit
  <2>2. QED
    BY <2>1 DEF LocksOK, LockHeld, InCritical
<1>7. CASE UNCHANGED vars
  BY <1>7 DEF vars, LocksOK, LockHeld, InCritical
<1>8. QED
  BY <1>1, <1>2, <1>3, <1>4, <1>5, <1>6, <1>7 DEF Next

(* Run and submit of one experiment are serialized, whatever crashes, is   *)
(* archived or cleared, provided that no live invocation outlasts          *)
(* locks.stale_after_ms.                                                   *)
THEOREM Serialized == ASSUME ~SlowOps
                      PROVE  Spec => []RunSubmitSerialized
<1>1. Init => LocksOK
  BY DEF Init, LocksOK, InCritical, Critical, RunPC, SubmitPC
<1>2. Inv /\ LocksOK => RunSubmitSerialized
  BY DEF Inv, LocksOK, LockHeld, RunSubmitSerialized
<1>3. Inv /\ LocksOK /\ [Next]_vars => LocksOK'
  BY NextLocks
<1>4. QED
  BY <1>1, <1>2, <1>3, Invariance, PTL DEF Spec

-----------------------------------------------------------------------------
(* What a step does to an experiment, as its lifecycle sees it: nothing,   *)
(* or it closes, (un)archives or removes it.                               *)
Kept(e) ==
    \/ exps[e] = None /\ exps'[e] = None
    \/ /\ exps[e] # None /\ exps'[e] # None
       /\ Life(e)' = Life(e)
       /\ Shelved(e)' = Shelved(e)
       /\ exps'[e].final = exps[e].final
       /\ exps'[e].finalCommit = exps[e].finalCommit
       /\ subs'[e] = subs[e]

Closes(e) ==
    /\ exps[e] # None /\ exps'[e] # None
    /\ subs[e] = None /\ subs'[e] # None
    /\ exps[e].status # "archived" /\ exps'[e].status = "closed"
    /\ exps'[e].final = subs'[e].run
    /\ exps'[e].finalCommit = subs'[e].commit
    /\ subs'[e] \in SubRow

Toggles(e) ==
    /\ exps[e] # None /\ exps'[e] # None
    /\ Life(e)' = Life(e)
    /\ Shelved(e)' = ~Shelved(e)
    /\ exps'[e].final = exps[e].final
    /\ exps'[e].finalCommit = exps[e].finalCommit
    /\ subs'[e] = subs[e]

Removes(e) == exps[e] # None /\ exps'[e] = None

LifecycleStep ==
    \/ \A e \in Exps : Kept(e)
    \/ \E e \in Exps : /\ Closes(e) \/ Toggles(e) \/ Removes(e)
                       /\ \A x \in Exps \ {e} : Kept(x)

(* Nothing happens to the lifecycle while both tables are unchanged.       *)
LEMMA SameRows == ASSUME UNCHANGED <<exps, subs>>
                  PROVE  LifecycleStep
BY DEF LifecycleStep, Kept, Life, Shelved

(* The last transaction of submit is a Submit or a stutter.                *)
LEMMA CloseStep == ASSUME Inv, NEW o \in Ops, Close(o)
                   PROVE  LifecycleStep
<1> DEFINE e == job[o].exp
           row == [run |-> loc[o].run, commit |-> loc[o].commit]
<1>1. e \in Exps
  BY DEF Close, Inv, LocalsOK
<1>2. CASE UNCHANGED <<subs, exps>>
  BY <1>2, SameRows
<1>3. CASE Closable(e) /\ ~UNCHANGED <<subs, exps>>
  <2>1. subs' = [subs EXCEPT ![e] = row]
    BY <1>3 DEF Close
  <2>2. row \in SubRow
    BY DEF Close, Inv, TypeOK, LocalsOK, HoldsCommit, Loc, SubRow
  <2>3. row # None
    BY <2>2, NoneAssumption
  <2>4. subs'[e] = row
    BY <1>1, <2>1 DEF Inv, TypeOK
  <2>5. \A x \in Exps \ {e} : Kept(x)
    BY <1>3, <2>1 DEF Close, Inv, TypeOK, Kept, Life, Shelved
  <2>6. CASE exps[e] = None
    <3>1. exps' = exps
      BY <1>3, <2>6 DEF Close
    <3>2. Kept(e)
      BY <2>6, <3>1 DEF Kept
    <3>3. QED
      BY <2>5, <3>2 DEF LifecycleStep
  <2>7. CASE exps[e] # None
    <3>1. exps' = [exps EXCEPT ![e].status = "closed", ![e].final = loc[o].run,
                               ![e].finalCommit = loc[o].commit]
      BY <1>3, <2>7 DEF Close
    <3>2. exps[e] \in ExpRow /\ exps[e].status # "archived" /\ subs[e] = None
      BY <1>1, <1>3, <2>7 DEF Inv, TypeOK, Closable
    <3>3. exps'[e] = [exps[e] EXCEPT !.status = "closed", !.final = loc[o].run,
                                     !.finalCommit = loc[o].commit]
      BY <1>1, <3>1 DEF Inv, TypeOK
    <3>4. /\ exps'[e].status = "closed"
          /\ exps'[e].final = loc[o].run
          /\ exps'[e].finalCommit = loc[o].commit
      BY <3>2, <3>3 DEF ExpRow
    <3>5. exps'[e] # None
      <4>1. exps'[e] \in ExpRow
        BY <3>2, <3>3 DEF Close, Inv, TypeOK, LocalsOK, HoldsCommit, Loc, ExpRow
      <4>2. QED
        BY <4>1, NoneAssumption
    <3>6. Closes(e)
      BY <2>2, <2>3, <2>4, <2>7, <3>2, <3>4, <3>5 DEF Closes
    <3>7. QED
      BY <1>1, <2>5, <3>6 DEF LifecycleStep
  <2>8. QED
    BY <2>6, <2>7
<1>4. QED
  BY <1>2, <1>3 DEF Close

(* A change of other fields of one experiment keeps it.                    *)
LEMMA SetRowStep == ASSUME Inv, subs' = subs, NEW e \in Exps, exps[e] # None, NEW row \in ExpRow,
                           row.status = exps[e].status, row.pre = exps[e].pre,
                           row.final = exps[e].final, row.finalCommit = exps[e].finalCommit,
                           exps' = [exps EXCEPT ![e] = row]
                    PROVE  LifecycleStep
<1>1. row # None
  BY NoneAssumption
<1>2. exps'[e] = row /\ \A x \in Exps \ {e} : exps'[x] = exps[x]
  BY DEF Inv, TypeOK
<1>3. Kept(e)
  BY <1>1, <1>2 DEF Kept, Life, Shelved
<1>4. \A x \in Exps \ {e} : Kept(x)
  BY <1>2 DEF Kept, Life, Shelved
<1>5. QED
  BY <1>3, <1>4 DEF LifecycleStep

(* The latest pointers are no part of the lifecycle.                       *)
LEMMA WithLatestStep == ASSUME Inv, NEW o \in Ops, exps' = WithLatest(o), subs' = subs,
                               job[o].exp \in Exps, loc[o].commit \in Commits
                        PROVE  LifecycleStep
<1> DEFINE e == job[o].exp
<1>1. CASE exps[e] = None
  BY <1>1, SameRows DEF WithLatest
<1>2. CASE exps[e] # None
  <2>1. exps[e] \in ExpRow
    BY <1>2 DEF Inv, TypeOK
  <2>2. exps' = [exps EXCEPT ![e] = [exps[e] EXCEPT !.latest = o, !.latestCommit = loc[o].commit]]
    BY <1>2 DEF WithLatest
  <2>3. PICK row \in ExpRow :
           /\ row.status = exps[e].status /\ row.pre = exps[e].pre
           /\ row.final = exps[e].final /\ row.finalCommit = exps[e].finalCommit
           /\ exps' = [exps EXCEPT ![e] = row]
    <3> DEFINE row == [exps[e] EXCEPT !.latest = o, !.latestCommit = loc[o].commit]
    <3>1. row \in ExpRow
      BY <2>1 DEF ExpRow
    <3>2. /\ row.status = exps[e].status /\ row.pre = exps[e].pre
          /\ row.final = exps[e].final /\ row.finalCommit = exps[e].finalCommit
      BY <2>1 DEF ExpRow
    <3>3. QED
      BY <2>2, <3>1, <3>2
  <2>4. QED
    BY <1>2, <2>3, SetRowStep
<1>3. QED
  BY <1>1, <1>2

(* The removal of a run is a stutter of the lifecycle.                     *)
LEMMA RunRemoveStep == ASSUME Inv, NEW o \in Ops, RunRemove(o)
                       PROVE  LifecycleStep
<1> DEFINE e == job[o].exp
           r == loc[o].run
<1>1. e \in Exps /\ r \in Ops
  BY DEF RunRemove, Inv, LocalsOK
<1>2. CASE exps' = exps
  BY <1>2, SameRows DEF RunRemove
<1>3. CASE exps[e] # None /\ exps' # exps
  <2>1. PICK p \in LatestAfter(e, r) :
           exps' = [exps EXCEPT ![e].latest = p[1], ![e].latestCommit = p[2],
                                ![e].finalRemoved = @ \/ FinalGone(e, r)]
    BY <1>3 DEF RunRemove
  <2>2. exps[e] \in ExpRow
    BY <1>1, <1>3 DEF Inv, TypeOK
  <2>3. p[1] \in Ops \cup {None} /\ p[2] \in Commits
    BY <1>1, <2>2 DEF LatestAfter, Inv, TypeOK, ExpRow, RunRow
  <2>4. (exps[e].finalRemoved \/ FinalGone(e, r)) \in BOOLEAN
    BY DEF FinalGone
  <2>5. PICK row \in ExpRow :
           /\ row.status = exps[e].status /\ row.pre = exps[e].pre
           /\ row.final = exps[e].final /\ row.finalCommit = exps[e].finalCommit
           /\ exps' = [exps EXCEPT ![e] = row]
    <3> DEFINE row == [exps[e] EXCEPT !.latest = p[1], !.latestCommit = p[2],
                                      !.finalRemoved = exps[e].finalRemoved \/ FinalGone(e, r)]
    <3>1. row \in ExpRow
      BY <2>2, <2>3, <2>4 DEF ExpRow
    <3>2. /\ row.status = exps[e].status /\ row.pre = exps[e].pre
          /\ row.final = exps[e].final /\ row.finalCommit = exps[e].finalCommit
      BY <2>2 DEF ExpRow
    <3>3. QED
      BY <2>1, <3>1, <3>2
  <2>6. QED
    BY <1>1, <1>3, <2>5, SetRowStep DEF RunRemove
<1>4. QED
  BY <1>2, <1>3 DEF RunRemove

(* An archive or unarchive is a Shelve.                                    *)
LEMMA ArchiveStep == ASSUME Inv, NEW e \in Exps, ExpArchive(e) \/ ExpUnarchive(e)
                     PROVE  LifecycleStep
<1> DEFINE row == exps'[e]
<1>1. exps[e] \in ExpRow /\ exps[e] # None
  BY DEF ExpArchive, NotYetArchived, ExpUnarchive, Inv, TypeOK
<1>2. \A x \in Exps \ {e} : exps'[x] = exps[x]
  BY DEF ExpArchive, ExpUnarchive, Inv, TypeOK
<1>3. subs' = subs
  BY DEF ExpArchive, ExpUnarchive
<1>4. CASE ExpArchive(e)
  <2>1. row = [exps[e] EXCEPT !.status = "archived", !.pre = exps[e].status]
    BY <1>4 DEF ExpArchive, Inv, TypeOK
  <2>2. exps[e].status \in {"open", "closed"}
    BY <1>1, <1>4 DEF ExpArchive, NotYetArchived, ExpRow
  <2>3. row \in ExpRow
    BY <1>1, <2>1, <2>2 DEF ExpRow
  <2>4. /\ row.status = "archived" /\ row.pre = exps[e].status
        /\ row.final = exps[e].final /\ row.finalCommit = exps[e].finalCommit
    BY <1>1, <2>1 DEF ExpRow
  <2>5. Toggles(e)
    BY <1>1, <1>3, <2>2, <2>3, <2>4, NoneAssumption DEF Toggles, Life, Shelved
  <2>6. QED
    BY <1>2, <1>3, <2>5 DEF LifecycleStep, Kept, Life, Shelved
<1>5. CASE ExpUnarchive(e)
  <2>1. row = [exps[e] EXCEPT !.status = exps[e].pre, !.pre = None]
    BY <1>5 DEF ExpUnarchive, Restored, Inv, TypeOK
  <2>2. exps[e].pre \in {"open", "closed"} /\ exps[e].status = "archived"
    BY <1>1, <1>5 DEF ExpUnarchive, ExpRow, Inv, RowsOK
  <2>3. row \in ExpRow
    BY <1>1, <2>1, <2>2 DEF ExpRow
  <2>4. /\ row.status = exps[e].pre
        /\ row.final = exps[e].final /\ row.finalCommit = exps[e].finalCommit
    BY <1>1, <2>1 DEF ExpRow
  <2>5. Toggles(e)
    BY <1>1, <1>3, <2>2, <2>3, <2>4, NoneAssumption DEF Toggles, Life, Shelved
  <2>6. QED
    BY <1>2, <1>3, <2>5 DEF LifecycleStep, Kept, Life, Shelved
<1>6. QED
  BY <1>4, <1>5

(* The removal of an experiment is a Remove, or a stutter if it is gone.   *)
LEMMA ExpRemoveStep == ASSUME Inv, NEW o \in Ops, ExpRemove(o)
                       PROVE  LifecycleStep
<1> DEFINE e == job[o].exp
<1>1. e \in Exps /\ exps'[e] = None
  BY DEF ExpRemove, Inv, TypeOK, LocalsOK
<1>2. \A x \in Exps \ {e} : Kept(x)
  BY DEF ExpRemove, Inv, TypeOK, Kept, Life, Shelved
<1>3. QED
  BY <1>1, <1>2 DEF LifecycleStep, Removes, Kept

(* Every step is a lifecycle step or a stutter.                            *)
LEMMA NextStep == ASSUME Inv, [Next]_vars
                  PROVE  LifecycleStep
<1>1. ASSUME NEW o \in Ops, OpStart(o) \/ Crash(o)
      PROVE  LifecycleStep
  BY <1>1, SameRows
     DEF OpStart, Admit, ExpRemovePreflight, RunRemovePreflight, Crash, tables
<1>2. ASSUME NEW o \in Ops, OpStep(o)
      PROVE  LifecycleStep
  <2>1. CASE Close(o)
    BY <2>1, CloseStep
  <2>2. CASE Violate(o)
    BY <2>2, WithLatestStep DEF Violate, Inv, LocalsOK, HoldsCommit
  <2>3. CASE \E result \in Finished : Execute(o, result)
    BY <2>3, WithLatestStep DEF Execute, Inv, LocalsOK, HoldsCommit
  <2>4. CASE ~(Close(o) \/ Violate(o) \/ \E result \in Finished : Execute(o, result))
    <3>1. UNCHANGED <<exps, subs>>
      BY <1>2, <2>4
         DEF OpStep, Acquire, Busy, Screen, Decide, Seek, Enter, InterruptStale,
           CheckScope, InsertRunning, Stage, Settle, Record, Abort, Release, tables
    <3>2. QED
      BY <3>1, SameRows
  <2>5. QED
    BY <2>1, <2>2, <2>3, <2>4
<1>3. ASSUME NEW o \in Ops, OpRemove(o)
      PROVE  LifecycleStep
  BY <1>3, ExpRemoveStep, RunRemoveStep, SameRows DEF OpRemove, RemoveFails, tables
<1>4. ASSUME NEW e \in Exps, Expire(e)
      PROVE  LifecycleStep
  BY <1>4, SameRows DEF Expire, tables
<1>5. CASE Admin
  <2>1. CASE \E e \in Exps : ExpArchive(e) \/ ExpUnarchive(e)
    BY <2>1, ArchiveStep
  <2>2. CASE ~\E e \in Exps : ExpArchive(e) \/ ExpUnarchive(e)
    <3>1. UNCHANGED <<exps, subs>>
      BY <1>5, <2>2 DEF Admin, ProjectArchive, ProjectUnarchive, ClearStale, Status,
                        RunArchive, tables
    <3>2. QED
      BY <3>1, SameRows
  <2>3. QED
    BY <2>1, <2>2
<1>6. CASE User
  BY <1>6, SameRows DEF User, UserEdit, UserCommit, tables
<1>7. CASE UNCHANGED vars
  BY <1>7, SameRows DEF vars
<1>8. QED
  BY <1>1, <1>2, <1>3, <1>4, <1>5, <1>6, <1>7 DEF Next

(* A submission and the closed status of its experiment come and go        *)
(* together and name the same result, for any invocations and removals.    *)
THEOREM SubmissionsMatch == Spec => []SubmissionMatchesStatus
<1>1. Init => SubmissionMatchesStatus
  BY NoneAssumption DEF Init, SubmissionMatchesStatus, Life, NewExp
<1>2. Inv /\ SubmissionMatchesStatus /\ [Next]_vars => SubmissionMatchesStatus'
  <2> SUFFICES ASSUME Inv, SubmissionMatchesStatus, [Next]_vars,
                      NEW e \in Exps, exps'[e] # None
               PROVE  /\ subs'[e] # None <=> Life(e)' = "closed"
                      /\ subs'[e] # None => /\ exps'[e].final = subs'[e].run
                                            /\ exps'[e].finalCommit = subs'[e].commit
    BY DEF SubmissionMatchesStatus
  <2>1. Kept(e) \/ Closes(e) \/ Toggles(e)
    BY NextStep DEF LifecycleStep, Removes
  <2>2. QED
    BY <2>1 DEF Kept, Closes, Toggles, SubmissionMatchesStatus, Life
<1>3. QED
  BY <1>1, <1>2, Invariance, PTL DEF Spec

-----------------------------------------------------------------------------
(* Run, submit, archive and remove implement the lifecycle: an experiment  *)
(* is submitted once, while it is open and not archived, a closed one      *)
(* never reopens and keeps its result, and a removed one never comes back. *)
THEOREM Refinement == Spec => ImplementsLifecycle
<1>1. Init => Lifecycle!Init
  <2> SUFFICES ASSUME Init
               PROVE  Lifecycle!Init
    OBVIOUS
  <2>1. NewExp # None
    <3>1. NewExp \in ExpRow
      BY DEF NewExp, ExpRow, Commits
    <3>2. QED
      BY <3>1, NoneAssumption
  <2>2. \A e \in Exps : Life(e) = "open" /\ Shelved(e) = FALSE /\ Result(e) = None
    BY <2>1 DEF Init, Life, Shelved, Result, NewExp
  <2>3. QED
    BY <2>2 DEF Lifecycle!Init
<1>2. ASSUME Inv, SubmissionMatchesStatus, [Next]_vars
      PROVE  [Lifecycle!Next]_Lifecycle!vars
  <2>1. ASSUME NEW x \in Exps, Kept(x)
        PROVE  Life(x)' = Life(x) /\ Shelved(x)' = Shelved(x) /\ Result(x)' = Result(x)
    BY <2>1 DEF Kept, Life, Shelved, Result
  <2>2. CASE \A x \in Exps : Kept(x)
    <3>1. UNCHANGED Lifecycle!vars
      BY <2>1, <2>2 DEF Lifecycle!vars
    <3>2. QED
      BY <3>1
  <2>3. ASSUME NEW e \in Exps, Toggles(e), \A x \in Exps \ {e} : Kept(x)
        PROVE  Lifecycle!Shelve(e)
    <3>1. Life(e) # "removed" /\ Life(e)' = Life(e) /\ Result(e)' = Result(e)
      BY <1>2, <2>3 DEF Toggles, Life, Result, Inv, TypeOK, RowsOK, ExpRow
    <3>2. Shelved(e)' = ~Shelved(e)
      BY <2>3 DEF Toggles
    <3>3. QED
      BY <2>1, <2>3, <3>1, <3>2 DEF Lifecycle!Shelve
  <2>4. ASSUME NEW e \in Exps, Removes(e), \A x \in Exps \ {e} : Kept(x)
        PROVE  Lifecycle!Remove(e)
    <3>1. /\ Life(e) # "removed" /\ Life(e)' = "removed"
          /\ Shelved(e)' = FALSE /\ Result(e)' = None
      BY <1>2, <2>4 DEF Removes, Life, Shelved, Result, Inv, TypeOK, RowsOK, ExpRow
    <3>2. QED
      BY <2>1, <2>4, <3>1 DEF Lifecycle!Remove
  <2>5. ASSUME NEW e \in Exps, Closes(e), \A x \in Exps \ {e} : Kept(x)
        PROVE  Lifecycle!Submit(e)
    <3>1. Life(e) = "open" /\ Life(e)' = "closed"
      BY <1>2, <2>5 DEF Closes, Life, SubmissionMatchesStatus, Inv, TypeOK, ExpRow
    <3>2. Shelved(e) = FALSE /\ Shelved(e)' = FALSE
      BY <2>5 DEF Closes, Shelved
    <3>3. Result(e)' \in [run : Ops \cup {None}, commit : Commits]
      BY <2>5 DEF Closes, Result, SubRow
    <3>4. [x \in Exps |-> Life(x)]' = [[x \in Exps |-> Life(x)] EXCEPT ![e] = "closed"]
      BY <2>1, <2>5, <3>1
    <3>5. [x \in Exps |-> Shelved(x)]' = [x \in Exps |-> Shelved(x)]
      BY <2>1, <2>5, <3>2
    <3>6. [x \in Exps |-> Result(x)]' = [[x \in Exps |-> Result(x)] EXCEPT ![e] = Result(e)']
      BY <2>1, <2>5
    <3>7. QED
      BY <3>1, <3>2, <3>3, <3>4, <3>5, <3>6 DEF Lifecycle!Submit
  <2>6. QED
    BY <1>2, <2>2, <2>3, <2>4, <2>5, NextStep DEF LifecycleStep, Lifecycle!Next
<1>3. QED
  BY <1>1, <1>2, Invariance, SubmissionsMatch, PTL
     DEF Spec, ImplementsLifecycle, Lifecycle!Spec
=============================================================================
