----------------------- MODULE ExperimentRuns_proofs -----------------------
(***************************************************************************)
(* What run and submit leave in the tables: results are final, blocked     *)
(* commits are never passed nor submitted, experiments are closed with     *)
(* passed runs, the latest pointers agree with their run; and, under the   *)
(* lock, an experiment stays open and its live runs are not interrupted.   *)
(*                                                                         *)
(* Each part strengthens the invariant of ExperimentOps_proofs by what it  *)
(* needs to be inductive: RunsOK on the rows of runs, MadeOK on commits,   *)
(* FinalOK and LatestOK on the pointers, OpenOK on who may be at work.     *)
(***************************************************************************)
EXTENDS ExperimentOps_proofs

(* The life of a run.  Its row is inserted, and its result written, by its *)
(* own invocation only; everybody else interrupts, archives or removes it. *)
NotInserted == {"idle", "admitted", "screening", "deciding", "seeking", "entering",
                "interrupting", "refusing", "checking", "inserting"}
NoResultYet == NotInserted \cup {"staging", "settling", "violating", "recording", "executing"}
Done(o) == pc[o] \notin NoResultYet

Own(o) == OpStart(o) \/ OpStep(o) \/ OpRemove(o) \/ Crash(o)
Writes(o) == InsertRunning(o) \/ Record(o) \/ Violate(o) \/ \E result \in Finished : Execute(o, result)

(* What others, and an invocation's other steps, do to the row of a run.   *)
RunKept(r) ==
    \/ runs'[r] = None
    \/ /\ runs[r] # None /\ runs'[r] # None
       /\ runs'[r].exp = runs[r].exp
       /\ runs'[r].commit = runs[r].commit
       /\ \/ runs'[r].status = runs[r].status
          \/ runs[r].status = "running" /\ runs'[r].status = "interrupted"

(* A process stays where it is while the others step.                      *)
LEMMA OthersKeepLocals ==
    ASSUME Inv, [Next]_vars, NEW o \in Ops, ~Own(o)
    PROVE  pc'[o] = pc[o] /\ job'[o] = job[o] /\ loc'[o] = loc[o]
<1>1. ASSUME NEW p \in Ops, Own(p)
      PROVE  pc'[o] = pc[o] /\ job'[o] = job[o] /\ loc'[o] = loc[o]
  <2>0. p # o
    BY <1>1
  <2>1. CASE OpStart(p)
    BY <2>0, <2>1 DEF OpStart, Admit, ExpRemovePreflight, RunRemovePreflight, End, Goto, Inv, TypeOK
  <2>2. CASE OpRemove(p) \/ Crash(p)
    BY <2>0, <2>2 DEF OpRemove, ExpRemove, RunRemove, RemoveFails, Crash, End, Goto, Inv, TypeOK
  <2>3. CASE OpStep(p)
    BY <2>0, <2>3
       DEF OpStep, Acquire, Busy, Screen, Decide, Seek, Close, Enter, InterruptStale,
           CheckScope, InsertRunning, Stage, Settle, Record, Violate, Execute, Abort,
           Release, End, Goto, Inv, TypeOK
  <2>4. QED
    BY <1>1, <2>1, <2>2, <2>3 DEF Own
<1>2. ASSUME NEW e \in Exps, Expire(e)
      PROVE  UNCHANGED <<pc, job, loc>>
  BY <1>2 DEF Expire
<1>3. CASE Admin
  BY <1>3 DEF Admin, ExpArchive, ExpUnarchive, ProjectArchive, ProjectUnarchive, ClearStale,
              Status, RunArchive
<1>4. CASE User
  BY <1>4 DEF User, UserEdit, UserCommit
<1>5. CASE UNCHANGED vars
  BY <1>5 DEF vars
<1>6. QED
  BY <1>1, <1>2, <1>3, <1>4, <1>5 DEF Next, Own

(* An interruption keeps every row, whatever its scope.                    *)
LEMMA InterruptedKeeps == ASSUME Inv, NEW S, runs' = Interrupted(S), NEW r \in Ops
                          PROVE  RunKept(r)
<1>1. CASE runs[r] = None
  BY <1>1 DEF RunKept, Interrupted
<1>2. CASE runs[r] # None
  <2>1. runs[r] \in RunRow
    BY <1>2 DEF Inv, TypeOK
  <2>2. /\ [runs[r] EXCEPT !.status = "interrupted"] \in RunRow
        /\ [runs[r] EXCEPT !.status = "interrupted"].exp = runs[r].exp
        /\ [runs[r] EXCEPT !.status = "interrupted"].commit = runs[r].commit
        /\ [runs[r] EXCEPT !.status = "interrupted"].status = "interrupted"
    BY <2>1 DEF RunRow
  <2>3. runs'[r] = IF runs[r].status = "running" /\ runs[r].exp \in S
                   THEN [runs[r] EXCEPT !.status = "interrupted"] ELSE runs[r]
    BY <1>2 DEF Interrupted
  <2>4. QED
    BY <1>2, <2>2, <2>3, NoneAssumption DEF RunKept
<1>3. QED
  BY <1>1, <1>2

(* Only its own invocation, by four of its steps, writes the row of a run. *)
LEMMA RunSteps == ASSUME Inv, [Next]_vars, NEW r \in Ops, ~Writes(r)
                  PROVE  RunKept(r)
<1>1. CASE runs'[r] = runs[r]
  BY <1>1 DEF RunKept
<1>2. ASSUME NEW o \in Ops, OpStart(o)
      PROVE  RunKept(r)
  BY <1>1, <1>2, InterruptedKeeps
     DEF OpStart, Admit, ExpRemovePreflight, RunRemovePreflight, tables
<1>3. ASSUME NEW o \in Ops, OpStep(o)
      PROVE  RunKept(r)
  <2>1. CASE Screen(o) \/ InterruptStale(o)
    BY <2>1, InterruptedKeeps DEF Screen, InterruptStale
  <2>2. CASE Writes(o)
    <3>1. o # r
      BY <2>2
    <3>2. runs'[r] = runs[r]
      BY <2>2, <3>1 DEF Writes, InsertRunning, Record, Violate, Execute, Inv, TypeOK
    <3>3. QED
      BY <1>1, <3>2
  <2>3. CASE ~(Screen(o) \/ InterruptStale(o) \/ Writes(o))
    <3>1. runs' = runs
      BY <1>3, <2>3
         DEF OpStep, Writes, Acquire, Busy, Decide, Seek, Close, Enter, CheckScope, Stage,
             Settle, Abort, Release, tables
    <3>2. QED
      BY <1>1, <3>1
  <2>4. QED
    BY <2>1, <2>2, <2>3
<1>4. ASSUME NEW o \in Ops, OpRemove(o) \/ Crash(o)
      PROVE  RunKept(r)
  <2>1. runs'[r] = None \/ runs'[r] = runs[r]
    BY <1>4 DEF OpRemove, ExpRemove, RunRemove, RemoveFails, Crash, tables, Inv, TypeOK, LocalsOK
  <2>2. QED
    BY <1>1, <2>1 DEF RunKept
<1>5. ASSUME NEW e \in Exps, Expire(e)
      PROVE  RunKept(r)
  BY <1>1, <1>5 DEF Expire, tables
<1>6. CASE Admin
  <2>1. CASE Status
    BY <2>1, InterruptedKeeps DEF Status
  <2>2. ASSUME NEW q \in Ops, NEW flag \in BOOLEAN, RunArchive(q, flag)
        PROVE  RunKept(r)
    <3> DEFINE row == Interrupted(Exps)[r]
    <3>1. Interrupted(Exps) \in [Ops -> RunRow \cup {None}]
      BY InterruptedType DEF Inv
    <3>2. CASE runs[r] = None
      <4>1. row = None /\ r # q
        BY <2>2, <3>2 DEF Interrupted, RunArchive
      <4>2. runs'[r] = None
        BY <2>2, <3>1, <4>1 DEF RunArchive
      <4>3. QED
        BY <4>2 DEF RunKept
    <3>3. CASE runs[r] # None
      <4>1. runs[r] \in RunRow
        BY <3>3 DEF Inv, TypeOK
      <4>2. /\ row \in RunRow /\ row.exp = runs[r].exp /\ row.commit = runs[r].commit
            /\ \/ row.status = runs[r].status
               \/ runs[r].status = "running" /\ row.status = "interrupted"
        BY <3>3, <4>1 DEF Interrupted, RunRow
      <4>3. runs'[r] = IF r = q THEN [row EXCEPT !.archived = flag] ELSE row
        BY <2>2, <3>1 DEF RunArchive
      <4>4. /\ runs'[r] \in RunRow /\ runs'[r].exp = row.exp
            /\ runs'[r].commit = row.commit /\ runs'[r].status = row.status
        BY <4>2, <4>3 DEF RunRow
      <4>5. QED
        BY <3>3, <4>2, <4>4, NoneAssumption DEF RunKept
    <3>4. QED
      BY <3>2, <3>3
  <2>3. CASE ~(Status \/ \E q \in Ops, flag \in BOOLEAN : RunArchive(q, flag))
    BY <1>1, <1>6, <2>3 DEF Admin, ExpArchive, ExpUnarchive, ProjectArchive, ProjectUnarchive,
                     ClearStale, tables
  <2>4. QED
    BY <2>1, <2>2, <2>3
<1>7. CASE User
  BY <1>1, <1>7 DEF User, UserEdit, UserCommit, tables
<1>8. CASE UNCHANGED vars
  BY <1>1, <1>8 DEF vars
<1>9. QED
  BY <1>2, <1>3, <1>4, <1>5, <1>6, <1>7, <1>8 DEF Next

-----------------------------------------------------------------------------
(* What is known of the run of an invocation from where that stands: no    *)
(* row before the insertion, no result before the result transaction, and  *)
(* the row is of the experiment the invocation works on.                   *)
RunOK(o) ==
    /\ pc[o] \in NotInserted => runs[o] = None
    /\ runs[o] # None /\ ~Done(o) => runs[o].status \in {"running", "interrupted"}
    /\ runs[o] # None /\ InCritical(o) => runs[o].exp = job[o].exp
    /\ ~Done(o) => loc[o].run = None

RunsOK == \A o \in Ops : RunOK(o)

(* A write of the row inserts it, or gives a result to one without.        *)
LEMMA WritesRun == ASSUME Inv, RunsOK, NEW o \in Ops, Writes(o)
                   PROVE  RunOK(o)'
<1>1. o \in Ops /\ RunOK(o) /\ job[o].exp \in Exps /\ loc[o] \in Loc /\ pc[o] \in PC
  BY DEF RunsOK, Inv, TypeOK, LocalsOK, Writes, InsertRunning, Record, Violate, Execute
<1>2. runs[o] # None => runs[o] \in RunRow
  BY DEF Inv, TypeOK
<1>3. loc[o].commit \in Commits
  BY DEF Writes, InsertRunning, Record, Violate, Execute, Inv, LocalsOK, HoldsCommit
<1>4. RunningRow(o).status = "running" /\ RunningRow(o).exp = job[o].exp /\ RunningRow(o) \in RunRow
  BY <1>1, <1>3 DEF RunningRow, RunRow
<1>5. CASE InsertRunning(o)
  <2>1. runs'[o] = RunningRow(o) /\ pc'[o] = "staging" /\ job' = job /\ loc' = loc
    BY <1>5 DEF InsertRunning, Goto, Inv, TypeOK
  <2>2. loc[o].run = None
    BY <1>1, <1>5 DEF InsertRunning, RunOK, Done, NoResultYet, NotInserted
  <2>3. QED
    BY <1>4, <2>1, <2>2 DEF RunOK, NotInserted
<1>6. CASE Record(o)
  <2>1. pc'[o] = "executing" /\ job' = job /\ loc' = loc /\ pc[o] = "recording"
    BY <1>6 DEF Record, Goto, Inv, TypeOK
  <2>2. \/ runs'[o] = RunningRow(o)
        \/ runs[o] # None /\ runs'[o] = [runs[o] EXCEPT !.commit = loc[o].commit]
        \/ runs'[o] = None
    BY <1>6 DEF Record, Inv, TypeOK
  <2>3. ~Done(o) /\ InCritical(o)
    BY <2>1 DEF Done, NoResultYet, InCritical, Critical, RunPC
  <2>4. runs'[o] # None => runs'[o].status \in {"running", "interrupted"} /\ runs'[o].exp = job[o].exp
    BY <1>1, <1>2, <1>4, <2>2, <2>3 DEF RunOK, RunRow
  <2>5. QED
    BY <1>1, <2>1, <2>3, <2>4 DEF RunOK, NotInserted
<1>7. CASE Violate(o)
  <2>1. pc'[o] = "releasing" /\ job' = job /\ pc[o] = "violating"
    BY <1>7 DEF Violate, Goto, Inv, TypeOK
  <2>2. \/ runs'[o] = [RunningRow(o) EXCEPT !.status = "error"]
        \/ runs[o] # None /\ runs'[o] = [runs[o] EXCEPT !.status = "error", !.commit = loc[o].commit]
    BY <1>7 DEF Violate, Inv, TypeOK
  <2>3. InCritical(o)
    BY <2>1 DEF InCritical, Critical, RunPC
  <2>4. runs'[o].exp = job[o].exp
    BY <1>1, <1>2, <1>4, <2>2, <2>3 DEF RunOK, RunRow
  <2>5. QED
    BY <2>1, <2>4 DEF RunOK, NotInserted, NoResultYet, Done
<1>8. CASE \E result \in Finished : Execute(o, result)
  <2>1. pc'[o] \in {"closing", "releasing"} /\ job' = job /\ pc[o] = "executing"
    BY <1>8 DEF Execute, Goto, Inv, TypeOK
  <2>2. PICK result \in Finished : runs' = IF runs[o] = None THEN runs
               ELSE [runs EXCEPT ![o].status = result, ![o].commit = loc[o].commit]
    BY <1>8 DEF Execute
  <2>3. InCritical(o)
    BY <2>1 DEF InCritical, Critical, RunPC
  <2>4. CASE runs[o] = None
    BY <2>1, <2>2, <2>4 DEF RunOK, NotInserted, NoResultYet, Done
  <2>5. CASE runs[o] # None
    <3>1. runs'[o] = [runs[o] EXCEPT !.status = result, !.commit = loc[o].commit]
      BY <2>2, <2>5 DEF Inv, TypeOK
    <3>2. runs'[o].exp = job[o].exp
      BY <1>1, <1>2, <2>3, <2>5, <3>1 DEF RunOK, RunRow
    <3>3. QED
      BY <2>1, <3>2 DEF RunOK, NotInserted, NoResultYet, Done
  <2>6. QED
    BY <2>4, <2>5
<1>9. QED
  BY <1>5, <1>6, <1>7, <1>8 DEF Writes

(* How an invocation moves by the steps that write no row: it goes on to   *)
(* insert, or past it, only from before it; once done it stays done.       *)
LEMMA OwnMoves == ASSUME Inv, NEW o \in Ops, Own(o), ~Writes(o)
                  PROVE  /\ pc'[o] \in NotInserted => pc[o] \in NotInserted
                         /\ ~Done(o)' => ~Done(o) /\ loc'[o].run = loc[o].run
                         /\ InCritical(o)' => /\ InCritical(o) \/ pc[o] = "admitted"
                                              /\ job'[o] = job[o]
<1> USE DEF Done, NoResultYet, NotInserted, InCritical, Critical, RunPC, SubmitPC
<1>1. CASE OpStart(o)
  BY <1>1 DEF OpStart, Admit, ExpRemovePreflight, RunRemovePreflight, End, Goto, Inv, TypeOK
<1>2. CASE OpRemove(o) \/ Crash(o)
  BY <1>2 DEF OpRemove, ExpRemove, RunRemove, RemoveFails, Crash, End, Goto, Inv, TypeOK
<1>3. CASE Acquire(o) \/ Busy(o) \/ Screen(o) \/ Seek(o)
  BY <1>3 DEF Acquire, Busy, Screen, Seek, End, Goto, Inv, TypeOK
<1>4. CASE Close(o) \/ Enter(o) \/ InterruptStale(o) \/ Abort(o) \/ Release(o)
  BY <1>4 DEF Close, Enter, InterruptStale, Abort, Release, End, Goto, Inv, TypeOK
<1>5. CASE Decide(o) \/ CheckScope(o)
  <2>1. loc'[o].run = loc[o].run
    BY <1>5 DEF Decide, CheckScope, Inv, TypeOK, Loc
  <2>2. QED
    BY <1>5, <2>1 DEF Decide, CheckScope, Goto, Inv, TypeOK
<1>6. CASE Stage(o) \/ Settle(o)
  <2>1. loc'[o].run = loc[o].run
    BY <1>6 DEF Stage, Settle, Inv, TypeOK, Loc
  <2>2. QED
    BY <1>6, <2>1 DEF Stage, Settle, Goto, Inv, TypeOK
<1>7. QED
  BY <1>1, <1>2, <1>3, <1>4, <1>5, <1>6 DEF Own, OpStep, Writes

(* Every step preserves what is known of every run.                        *)
LEMMA NextRuns == Inv /\ RunsOK /\ [Next]_vars => RunsOK'
<1> SUFFICES ASSUME Inv, RunsOK, [Next]_vars, NEW o \in Ops
             PROVE  RunOK(o)'
  BY DEF RunsOK
<1>1. CASE Writes(o)
  BY <1>1, WritesRun
<1>2. CASE ~Writes(o)
  <2>1. RunKept(o) /\ RunOK(o)
    BY <1>2, RunSteps DEF RunsOK
  <2>2. CASE Own(o)
    <3>1. runs'[o] # None /\ InCritical(o)' => InCritical(o)
      BY <1>2, <2>1, <2>2, OwnMoves DEF RunKept, RunOK, NotInserted
    <3>2. QED
      BY <1>2, <2>1, <2>2, <3>1, OwnMoves DEF RunKept, RunOK
  <2>3. CASE ~Own(o)
    <3>1. pc'[o] = pc[o] /\ job'[o] = job[o] /\ loc'[o] = loc[o]
      BY <2>3, OthersKeepLocals
    <3>2. QED
      BY <2>1, <3>1 DEF RunKept, RunOK, Done, InCritical
  <2>4. QED
    BY <2>2, <2>3
<1>3. QED
  BY <1>1, <1>2

(* No run has a row, and no invocation a run, at first.                    *)
LEMMA InitRuns == Init => RunsOK
BY DEF Init, RunsOK, RunOK, NoLoc

(* An invocation that has nothing more to write stays so.                  *)
LEMMA DoneStays == ASSUME Inv, [Next]_vars, NEW o \in Ops, Done(o)
                   PROVE  Done(o)'
<1>1. ~Writes(o)
  BY DEF Done, NoResultYet, NotInserted, Writes, InsertRunning, Record, Violate, Execute
<1>2. QED
  BY <1>1, OwnMoves, OthersKeepLocals DEF Done

(* run and submit write a result once, and nothing else they or status or  *)
(* observe do changes it afterwards, even when locks expire under live     *)
(* invocations.                                                            *)
THEOREM ResultsAreFinal == Spec => ResultsFinal
<1>1. ASSUME Inv, RunsOK, [Next]_vars
      PROVE  [\A r \in Ops : runs[r] # None /\ runs[r].status \in Finished =>
                 \/ runs'[r] = None
                 \/ /\ runs'[r].status = runs[r].status
                    /\ runs'[r].commit = runs[r].commit]_vars
  <2> SUFFICES ASSUME NEW r \in Ops, runs[r] # None, runs[r].status \in Finished
               PROVE  \/ runs'[r] = None
                      \/ /\ runs'[r].status = runs[r].status
                         /\ runs'[r].commit = runs[r].commit
    OBVIOUS
  <2>1. Done(r)
    BY <1>1 DEF RunsOK, RunOK, Finished
  <2>2. ~Writes(r)
    BY <2>1 DEF Done, NoResultYet, NotInserted, Writes, InsertRunning, Record, Violate, Execute
  <2>3. QED
    BY <1>1, <2>2, RunSteps DEF RunKept, Finished
<1>2. QED
  BY <1>1, Invariance, InitRuns, NextRuns, PTL DEF Spec, ResultsFinal

-----------------------------------------------------------------------------
(* The commits that anything refers to have been made, and nothing is said *)
(* of a commit that was made changes: git commit adds new ones only.       *)
Made(c) == c = Base \/ tree[c].parent # None
Unstaged == NotInserted \cup {"staging"}

LocalCommitOK(o) ==
    /\ loc[o].commit # None => Made(loc[o].commit)
    /\ pc[o] \in {"recording", "executing", "closing"} => ~tree[loc[o].commit].bad
    /\ pc[o] \in Unstaged => tree[o].parent = None

MadeOK ==
    /\ \A c \in Commits : tree[c].parent # None => Made(tree[c].parent)
    /\ \A e \in Exps : Made(head[e])
    /\ \A r \in Ops : runs[r] # None => Made(runs[r].commit)
    /\ \A e \in Exps : subs[e] # None => Made(subs[e].commit)
    /\ \A o \in Ops : LocalCommitOK(o)

Committed(e, c) == GitCommit(e, c) /\ ~Made(c)
TreeKept == \A c \in Commits : Made(c) => Made(c)' /\ tree'[c] = tree[c]

(* A commit adds itself below HEAD, and HEAD moves to it.                  *)
LEMMA CommittedOK == ASSUME Inv, MadeOK, NEW e \in Exps, NEW c \in Commits, Committed(e, c)
                     PROVE  /\ TreeKept
                            /\ \A d \in Commits : tree'[d].parent # None => Made(tree[d].parent)'
                            /\ \A x \in Exps : Made(head[x])'
                            /\ \A d \in Commits \ {c} : tree'[d] = tree[d]
<1>1. PICK bad \in BOOLEAN :
           /\ tree' = [tree EXCEPT ![c] = [parent |-> head[e], bad |-> bad]]
           /\ head' = [head EXCEPT ![e] = c]
  BY DEF Committed, GitCommit, Inv, TypeOK
<1>2. head[e] \in Commits /\ Made(head[e]) /\ c # Base /\ head[e] # c
  BY DEF Inv, TypeOK, MadeOK, Committed, Made
<1>3. tree'[c].parent = head[e] /\ head[e] # None
  BY <1>1, <1>2, NoneAssumption DEF Inv, TypeOK
<1>4. \A d \in Commits \ {c} : tree'[d] = tree[d]
  BY <1>1 DEF Inv, TypeOK
<1>5. TreeKept
  BY <1>4 DEF TreeKept, Committed, Made
<1>6. \A d \in Commits : tree'[d].parent # None => Made(tree[d].parent)'
  <2> SUFFICES ASSUME NEW d \in Commits, tree'[d].parent # None
               PROVE  Made(tree[d].parent)'
    OBVIOUS
  <2>1. tree'[d].parent \in Commits /\ Made(tree'[d].parent)
    BY <1>2, <1>3, <1>4 DEF MadeOK, Inv, TypeOK
  <2>2. QED
    BY <1>5, <2>1 DEF TreeKept
<1>7. \A x \in Exps : Made(head[x])'
  <2> SUFFICES ASSUME NEW x \in Exps PROVE Made(head[x])'
    OBVIOUS
  <2>1. CASE x = e
    BY <1>1, <1>3, <2>1 DEF Inv, TypeOK, Made
  <2>2. CASE x # e
    <3>1. head'[x] = head[x] /\ head[x] \in Commits /\ Made(head[x])
      BY <1>1, <2>2 DEF Inv, TypeOK, MadeOK
    <3>2. QED
      BY <1>5, <3>1 DEF TreeKept
  <2>3. QED
    BY <2>1, <2>2
<1>8. QED
  BY <1>4, <1>5, <1>6, <1>7

(* The commit graph only grows: by an invocation that stages and by users. *)
LEMMA TreeSteps == ASSUME Inv, MadeOK, [Next]_vars
                   PROVE  \/ /\ tree' = tree
                             /\ \/ head' = head
                                \/ \E e \in Exps : tree[head[e]].bad /\ Rollback(e)
                          \/ \E o \in Ops : Stage(o) /\ job[o].exp \in Exps /\ Committed(job[o].exp, o)
                          \/ \E e \in Exps, c \in UserCommits : Committed(e, c)
<1>1. ASSUME NEW o \in Ops, OpStep(o)
      PROVE  \/ /\ tree' = tree
                /\ \/ head' = head
                   \/ \E e \in Exps : tree[head[e]].bad /\ Rollback(e)
             \/ Stage(o) /\ job[o].exp \in Exps /\ Committed(job[o].exp, o)
  <2>1. CASE Stage(o)
    <3>1. tree[o].parent = None /\ o # Base /\ job[o].exp \in Exps
      BY <2>1, ConstantsAssumption
         DEF Stage, MadeOK, LocalCommitOK, Unstaged, Inv, LocalsOK
    <3>2. QED
      BY <2>1, <3>1 DEF Stage, Committed, Made
  <2>2. CASE Settle(o)
    BY <2>2 DEF Settle, Blocked, Inv, LocalsOK
  <2>3. CASE ~(Stage(o) \/ Settle(o))
    BY <1>1, <2>3
       DEF OpStep, Acquire, Busy, Screen, Decide, Seek, Close, Enter, InterruptStale,
           CheckScope, InsertRunning, Record, Violate, Execute, Abort, Release, git
  <2>4. QED
    BY <2>1, <2>2, <2>3
<1>2. ASSUME NEW o \in Ops, OpStart(o) \/ OpRemove(o) \/ Crash(o)
      PROVE  UNCHANGED <<tree, head>>
  BY <1>2 DEF OpStart, Admit, ExpRemovePreflight, RunRemovePreflight, OpRemove, ExpRemove, RunRemove,
              RemoveFails, Crash, git
<1>3. ASSUME NEW e \in Exps, Expire(e)
      PROVE  UNCHANGED <<tree, head>>
  BY <1>3 DEF Expire, git
<1>4. CASE Admin
  BY <1>4 DEF Admin, ExpArchive, ExpUnarchive, ProjectArchive, ProjectUnarchive, ClearStale,
              Status, RunArchive, git
<1>5. CASE User
  <2>1. ASSUME NEW e \in Exps, NEW c \in UserCommits, UserCommit(e, c)
        PROVE  Committed(e, c)
    BY <2>1, ConstantsAssumption DEF UserCommit, Committed, Made
  <2>2. QED
    BY <1>5, <2>1 DEF User, UserEdit
<1>6. CASE UNCHANGED vars
  BY <1>6 DEF vars
<1>7. QED
  BY <1>1, <1>2, <1>3, <1>4, <1>5, <1>6 DEF Next

(* No commit that was made changes, and the graph and HEAD stay among such.*)
LEMMA NextTree == ASSUME Inv, MadeOK, [Next]_vars
                  PROVE  /\ TreeKept
                         /\ \A d \in Commits : tree'[d].parent # None => Made(tree[d].parent)'
                         /\ \A x \in Exps : Made(head[x])'
                         /\ \A o \in Ops : ~Stage(o) => tree'[o] = tree[o]
<1>1. ASSUME tree' = tree, head' = head \/ \E e \in Exps : tree[head[e]].bad /\ Rollback(e)
      PROVE  /\ TreeKept
             /\ \A d \in Commits : tree'[d].parent # None => Made(tree[d].parent)'
             /\ \A x \in Exps : Made(head[x])'
  <2>1. \A c : Made(c)' <=> Made(c)
    BY <1>1 DEF Made
  <2>2. \A x \in Exps : Made(head'[x])
    <3>1. ASSUME NEW e \in Exps, tree[head[e]].bad, Rollback(e)
          PROVE  \A x \in Exps : Made(head'[x])
      <4>1. tree[head[e]].parent \in Commits /\ head[e] \in Commits
        BY <3>1 DEF Inv, TypeOK, TreeOK
      <4>2. Made(tree[head[e]].parent)
        BY <4>1, NoneAssumption DEF MadeOK
      <4>3. QED
        BY <3>1, <4>2 DEF Rollback, Inv, TypeOK, MadeOK
    <3>2. QED
      BY <1>1, <3>1 DEF MadeOK
  <2>3. QED
    BY <1>1, <2>1, <2>2 DEF TreeKept, MadeOK
<1>2. ASSUME NEW o \in Ops, Stage(o), job[o].exp \in Exps, Committed(job[o].exp, o)
      PROVE  /\ TreeKept
             /\ \A d \in Commits : tree'[d].parent # None => Made(tree[d].parent)'
             /\ \A x \in Exps : Made(head[x])'
             /\ \A p \in Ops : ~Stage(p) => tree'[p] = tree[p]
  BY <1>2, CommittedOK DEF Commits
<1>3. ASSUME NEW e \in Exps, NEW c \in UserCommits, Committed(e, c)
      PROVE  /\ TreeKept
             /\ \A d \in Commits : tree'[d].parent # None => Made(tree[d].parent)'
             /\ \A x \in Exps : Made(head[x])'
             /\ \A o \in Ops : tree'[o] = tree[o]
  BY <1>3, CommittedOK, ConstantsAssumption DEF Commits
<1>4. QED
  BY <1>1, <1>2, <1>3, TreeSteps

(* What a write leaves in the row: the commit of its invocation, and a     *)
(* pass only from the result transaction.                                  *)
LEMMA WritesCommit == ASSUME Inv, RunsOK, NEW o \in Ops, Writes(o), runs'[o] # None
                      PROVE  /\ loc[o].commit \in Commits
                             /\ loc'[o].commit = loc[o].commit
                             /\ runs'[o].commit = loc[o].commit
                             /\ runs'[o].status = "passed" => pc[o] = "executing"
<1>1. loc[o].commit \in Commits /\ job[o].exp \in Exps /\ loc[o] \in Loc
  BY DEF Writes, InsertRunning, Record, Violate, Execute, Inv, TypeOK, LocalsOK, HoldsCommit
<1>2. loc'[o].commit = loc[o].commit
  BY <1>1 DEF Writes, InsertRunning, Record, Violate, Execute, Inv, TypeOK, Loc
<1>3. RunningRow(o) \in RunRow /\ RunningRow(o).commit = loc[o].commit
  BY <1>1 DEF RunningRow, RunRow
<1>4. runs[o] # None => runs[o] \in RunRow
  BY DEF Inv, TypeOK
<1>5. runs'[o].commit = loc[o].commit
  <2>1. CASE InsertRunning(o)
    BY <1>3, <2>1 DEF InsertRunning, Inv, TypeOK
  <2>2. CASE Record(o)
    <3>1. \/ runs'[o] = RunningRow(o)
          \/ runs[o] # None /\ runs'[o] = [runs[o] EXCEPT !.commit = loc[o].commit]
      BY <2>2 DEF Record, Inv, TypeOK
    <3>2. QED
      BY <1>3, <1>4, <3>1 DEF RunRow
  <2>3. CASE Violate(o)
    <3>1. \/ runs'[o] = [RunningRow(o) EXCEPT !.status = "error"]
          \/ runs[o] # None /\ runs'[o] = [runs[o] EXCEPT !.status = "error", !.commit = loc[o].commit]
      BY <2>3 DEF Violate, Inv, TypeOK
    <3>2. QED
      BY <1>3, <1>4, <3>1 DEF RunRow
  <2>4. ASSUME NEW result \in Finished, Execute(o, result)
        PROVE  runs'[o].commit = loc[o].commit
    <3>1. runs[o] # None /\ runs'[o] = [runs[o] EXCEPT !.status = result, !.commit = loc[o].commit]
      BY <2>4 DEF Execute, Inv, TypeOK
    <3>2. QED
      BY <1>4, <3>1 DEF RunRow
  <2>5. QED
    BY <2>1, <2>2, <2>3, <2>4 DEF Writes
<1>6. runs'[o].status = "passed" => pc[o] = "executing"
  <2>1. CASE InsertRunning(o) \/ Record(o)
    <3>1. ~Done(o)'
      BY <2>1 DEF InsertRunning, Record, Goto, Inv, TypeOK, Done, NoResultYet
    <3>2. QED
      BY <2>1, <3>1, WritesRun DEF RunOK
  <2>2. CASE Violate(o)
    <3>1. \/ runs'[o] = [RunningRow(o) EXCEPT !.status = "error"]
          \/ runs[o] # None /\ runs'[o] = [runs[o] EXCEPT !.status = "error", !.commit = loc[o].commit]
      BY <2>2 DEF Violate, Inv, TypeOK
    <3>2. QED
      BY <1>3, <1>4, <3>1 DEF RunRow
  <2>3. CASE \E result \in Finished : Execute(o, result)
    BY <2>3 DEF Execute
  <2>4. QED
    BY <2>1, <2>2, <2>3 DEF Writes
<1>7. QED
  BY <1>1, <1>2, <1>5, <1>6

(* What a step does to the submission of an experiment.                    *)
LEMMA SubmissionSteps == ASSUME Inv, [Next]_vars, NEW e \in Exps
                         PROVE  \/ subs'[e] = subs[e]
                                \/ subs'[e] = None
                                \/ \E o \in Ops : /\ Close(o) /\ job[o].exp = e
                                                  /\ subs'[e] = [run |-> loc[o].run, commit |-> loc[o].commit]
<1>1. ASSUME NEW o \in Ops, OpStep(o)
      PROVE  subs'[e] = subs[e] \/ (/\ Close(o) /\ job[o].exp = e
                                    /\ subs'[e] = [run |-> loc[o].run, commit |-> loc[o].commit])
  <2>1. CASE Close(o)
    BY <2>1 DEF Close, Inv, TypeOK
  <2>2. CASE ~Close(o)
    BY <1>1, <2>2
       DEF OpStep, Acquire, Busy, Screen, Decide, Seek, Enter, InterruptStale, CheckScope,
           InsertRunning, Stage, Settle, Record, Violate, Execute, Abort, Release, tables
  <2>3. QED
    BY <2>1, <2>2
<1>2. ASSUME NEW o \in Ops, OpStart(o) \/ OpRemove(o) \/ Crash(o)
      PROVE  subs'[e] = subs[e] \/ subs'[e] = None
  BY <1>2 DEF OpStart, Admit, ExpRemovePreflight, RunRemovePreflight, OpRemove, ExpRemove, RunRemove,
              RemoveFails, Crash, tables, Inv, TypeOK
<1>3. ASSUME NEW x \in Exps, Expire(x)
      PROVE  subs' = subs
  BY <1>3 DEF Expire, tables
<1>4. CASE Admin
  BY <1>4 DEF Admin, ExpArchive, ExpUnarchive, ProjectArchive, ProjectUnarchive, ClearStale,
              Status, RunArchive, tables
<1>5. CASE User
  BY <1>5 DEF User, UserEdit, UserCommit, tables
<1>6. CASE UNCHANGED vars
  BY <1>6 DEF vars
<1>7. QED
  BY <1>1, <1>2, <1>3, <1>4, <1>5, <1>6 DEF Next

(* Where an invocation takes its commit from, and when it may record it.   *)
LEMMA LocalCommitSteps ==
    ASSUME Inv, NEW o \in Ops, Own(o)
    PROVE  /\ \/ loc'[o].commit \in {loc[o].commit, None}
              \/ job[o].exp \in Exps /\ loc'[o].commit = head[job[o].exp]
           /\ pc'[o] \in {"recording", "executing", "closing"} =>
                \/ /\ pc[o] \in {"recording", "executing"}
                   /\ loc'[o].commit = loc[o].commit
                \/ ~tree[loc'[o].commit].bad
                \/ /\ pc[o] = "seeking" /\ loc'[o].commit = loc[o].commit
                   /\ \E r \in Ops : runs[r] # None /\ runs[r].status = "passed" /\ runs[r].commit = loc[o].commit
           /\ pc'[o] \in Unstaged => pc[o] \in Unstaged /\ ~Stage(o)
<1> USE DEF Unstaged, NotInserted
<1>1. loc[o] \in Loc /\ pc[o] \in PC /\ (pc[o] \notin {"idle", "ended"} => job[o].exp \in Exps)
  BY DEF Inv, TypeOK, LocalsOK
<1>2. CASE OpStart(o)
  <2>1. pc[o] = "idle" /\ pc'[o] \in {"admitted", "removing exp", "removing run", "ended"}
    BY <1>2 DEF OpStart, Admit, ExpRemovePreflight, RunRemovePreflight, End, Goto, Inv, TypeOK
  <2>2. loc' = loc \/ loc'[o] = NoLoc \/ \E r \in Ops : loc' = [loc EXCEPT ![o].run = r]
    BY <1>2 DEF OpStart, Admit, ExpRemovePreflight, RunRemovePreflight, End, Inv, TypeOK
  <2>3. loc'[o].commit \in {loc[o].commit, None}
    BY <1>1, <2>2 DEF Inv, TypeOK, Loc, NoLoc
  <2>4. QED
    BY <2>1, <2>3 DEF Stage
<1>3. CASE OpRemove(o) \/ Crash(o)
  <2>1. End(o)
    BY <1>3 DEF OpRemove, ExpRemove, RunRemove, RemoveFails, Crash
  <2>2. loc'[o].commit = None /\ pc'[o] = "ended"
    BY <2>1 DEF End, Goto, NoLoc, Inv, TypeOK
  <2>3. QED
    BY <2>2
<1>4. CASE Acquire(o) \/ Busy(o) \/ Screen(o) \/ Enter(o) \/ InterruptStale(o) \/ Abort(o) \/ Release(o)
  BY <1>1, <1>4 DEF Acquire, Busy, Screen, Enter, InterruptStale, Abort, Release, End, Goto, Inv, TypeOK, NoLoc,
                    Stage, Critical, RunPC, SubmitPC
<1>5. CASE Decide(o) \/ CheckScope(o)
  BY <1>1, <1>5 DEF Decide, CheckScope, Goto, Inv, TypeOK, Loc, Stage
<1>6. CASE Seek(o)
  <2>1. loc'[o].commit = loc[o].commit
    BY <1>1, <1>6 DEF Seek, Inv, TypeOK, Loc
  <2>2. QED
    BY <1>1, <1>6, <2>1 DEF Seek, Reusable, Goto, Inv, TypeOK, Stage
<1>7. CASE Stage(o) \/ Settle(o)
  BY <1>1, <1>7 DEF Stage, Settle, Blocked, Goto, Inv, TypeOK, Loc
<1>8. CASE Close(o) \/ InsertRunning(o) \/ Record(o) \/ Violate(o)
  BY <1>1, <1>8 DEF Close, InsertRunning, Record, Violate, Goto, Inv, TypeOK, Stage
<1>9. ASSUME NEW result \in Finished, Execute(o, result)
      PROVE  /\ loc'[o].commit = loc[o].commit
             /\ pc[o] = "executing" /\ pc'[o] \in {"closing", "releasing"}
  BY <1>1, <1>9 DEF Execute, Goto, Inv, TypeOK, Loc
<1>10. CASE \E result \in Finished : Execute(o, result)
  BY <1>1, <1>9, <1>10 DEF Stage
<1>11. QED
  BY <1>2, <1>3, <1>4, <1>5, <1>6, <1>7, <1>8, <1>10 DEF Own, OpStep

ScopeInv == RunsOK /\ MadeOK /\ ScopeHeld

(* Every step keeps references to made commits, and blocked commits out of *)
(* passed runs and submissions.                                            *)
LEMMA NextScope == Inv /\ ScopeInv /\ [Next]_vars => ScopeInv'
<1> SUFFICES ASSUME Inv, RunsOK, MadeOK, ScopeHeld, [Next]_vars
             PROVE  MadeOK' /\ ScopeHeld'
  BY NextRuns DEF ScopeInv
<1>1. /\ TreeKept
      /\ \A d \in Commits : tree'[d].parent # None => Made(tree[d].parent)'
      /\ \A x \in Exps : Made(head[x])'
      /\ \A o \in Ops : ~Stage(o) => tree'[o] = tree[o]
  BY NextTree
<1>2. ASSUME NEW r \in Ops, runs'[r] # None
      PROVE  /\ Made(runs[r].commit)'
             /\ runs'[r].status = "passed" => ~tree'[runs'[r].commit].bad
  <2>1. CASE Writes(r)
    <3>1. /\ loc[r].commit \in Commits /\ runs'[r].commit = loc[r].commit
          /\ runs'[r].status = "passed" => pc[r] = "executing"
      BY <1>2, <2>1, WritesCommit
    <3>2. Made(loc[r].commit)
      BY <3>1, NoneAssumption DEF MadeOK, LocalCommitOK
    <3>3. pc[r] = "executing" => ~tree[loc[r].commit].bad
      BY DEF MadeOK, LocalCommitOK
    <3>4. QED
      BY <1>1, <3>1, <3>2, <3>3 DEF TreeKept
  <2>2. CASE ~Writes(r)
    <3>1. /\ runs[r] # None /\ runs'[r].commit = runs[r].commit
          /\ runs'[r].status = "passed" => runs[r].status = "passed"
      BY <1>2, <2>2, RunSteps DEF RunKept
    <3>2. runs[r].commit \in Commits
      BY <3>1 DEF Inv, TypeOK, RunRow
    <3>3. QED
      BY <1>1, <3>1, <3>2 DEF TreeKept, MadeOK, ScopeHeld
  <2>3. QED
    BY <2>1, <2>2
<1>3. ASSUME NEW e \in Exps, subs'[e] # None
      PROVE  Made(subs[e].commit)' /\ ~tree'[subs'[e].commit].bad
  <2>1. CASE subs'[e] = subs[e]
    <3>1. subs[e].commit \in Commits
      BY <1>3, <2>1 DEF Inv, TypeOK, SubRow
    <3>2. QED
      BY <1>1, <1>3, <2>1, <3>1 DEF TreeKept, MadeOK, ScopeHeld
  <2>2. ASSUME NEW o \in Ops, Close(o), subs'[e] = [run |-> loc[o].run, commit |-> loc[o].commit]
        PROVE  Made(subs[e].commit)' /\ ~tree'[subs'[e].commit].bad
    <3>1. loc[o].commit \in Commits /\ pc[o] = "closing"
      BY <2>2 DEF Close, Inv, LocalsOK, HoldsCommit
    <3>2. Made(loc[o].commit) /\ ~tree[loc[o].commit].bad
      BY <3>1, NoneAssumption DEF MadeOK, LocalCommitOK
    <3>3. QED
      BY <1>1, <2>2, <3>1, <3>2 DEF TreeKept
  <2>3. QED
    BY <1>3, <2>1, <2>2, SubmissionSteps
<1>4. ASSUME NEW o \in Ops
      PROVE  LocalCommitOK(o)'
  <2>1. LocalCommitOK(o) /\ loc[o] \in Loc
    BY DEF MadeOK, Inv, TypeOK
  <2>2. CASE ~Own(o)
    <3>1. pc'[o] = pc[o] /\ loc'[o] = loc[o] /\ ~Stage(o)
      BY <2>2, OthersKeepLocals DEF Own, OpStep
    <3>2. loc[o].commit # None => loc[o].commit \in Commits
      BY <2>1 DEF Loc
    <3>3. pc[o] \in {"recording", "executing", "closing"} => loc[o].commit \in Commits
      BY DEF Inv, LocalsOK, HoldsCommit
    <3>4. QED
      BY <1>1, <2>1, <3>1, <3>2, <3>3, NoneAssumption DEF LocalCommitOK, TreeKept
  <2>3. CASE Own(o)
    <3>1. loc'[o].commit # None => loc'[o].commit \in Commits /\ Made(loc'[o].commit)
      BY <2>1, <2>3, LocalCommitSteps DEF LocalCommitOK, MadeOK, Loc, Inv, TypeOK
    <3>2. pc'[o] \in {"recording", "executing", "closing"} => ~tree[loc'[o].commit].bad
      <4>1. ASSUME NEW r \in Ops, runs[r] # None, runs[r].status = "passed",
                   runs[r].commit = loc[o].commit
            PROVE  ~tree[loc[o].commit].bad
        BY <4>1 DEF ScopeHeld
      <4>2. QED
        BY <2>1, <2>3, <4>1, LocalCommitSteps DEF LocalCommitOK
    <3>3. pc'[o] \in {"recording", "executing", "closing"} => loc'[o].commit # None
      <4>1. Inv'
        BY NextInv
      <4>2. QED
        BY <4>1, NoneAssumption DEF Inv, LocalsOK, HoldsCommit
    <3>4. pc'[o] \in Unstaged => tree'[o].parent = None
      BY <1>1, <2>1, <2>3, LocalCommitSteps DEF LocalCommitOK
    <3>5. loc'[o].commit # None => Made(loc[o].commit)'
      BY <1>1, <3>1 DEF TreeKept
    <3>6. pc'[o] \in {"recording", "executing", "closing"} => ~tree'[loc'[o].commit].bad
      BY <1>1, <3>1, <3>2, <3>3 DEF TreeKept
    <3>7. QED
      BY <3>4, <3>5, <3>6 DEF LocalCommitOK
  <2>4. QED
    BY <2>2, <2>3
<1>5. QED
  BY <1>1, <1>2, <1>3, <1>4 DEF MadeOK, ScopeHeld

(* At first there is the baseline, which is not blocked, and nothing else. *)
LEMMA InitScope == Init => ScopeInv
<1> SUFFICES ASSUME Init PROVE MadeOK /\ ScopeHeld
  BY InitRuns DEF ScopeInv
<1>1. \A c \in Commits : tree[c].parent = None /\ ~tree[c].bad
  BY DEF Init
<1>2. \A e \in Exps : head[e] = Base /\ subs[e] = None
  BY DEF Init
<1>3. \A o \in Ops : runs[o] = None /\ pc[o] = "idle" /\ loc[o].commit = None /\ o \in Commits
  BY DEF Init, NoLoc, Commits
<1>4. QED
  BY <1>1, <1>2, <1>3 DEF MadeOK, LocalCommitOK, ScopeHeld, Made

(* The invariant holds in every reachable state.                           *)
LEMMA ScopeInvariance == Spec => []ScopeInv
BY InitScope, NextScope, Invariance, PTL DEF Spec

(* A commit whose diff from the baseline touches blocked paths is never    *)
(* run to a pass nor submitted, whatever users edit and commit between the *)
(* checks, the staging, the commit and the check of that commit.           *)
THEOREM ScopeIsHeld == Spec => []ScopeHeld
<1>1. ScopeInv => ScopeHeld
  BY DEF ScopeInv
<1>2. QED
  BY <1>1, ScopeInvariance, PTL

-----------------------------------------------------------------------------
(* The run r, if its row is still there, passed in experiment e on commit  *)
(* c, and nothing will be written to it any more.                          *)
PassedIn(r, e, c) ==
    /\ Done(r)
    /\ runs[r] # None => /\ runs[r].status = "passed"
                         /\ runs[r].exp = e
                         /\ runs[r].commit = c

FinalOK ==
    /\ \A o \in Ops : pc[o] = "closing" /\ loc[o].run # None =>
          PassedIn(loc[o].run, job[o].exp, loc[o].commit)
    /\ \A e \in Exps : exps[e] # None =>
          /\ exps[e].final # None => PassedIn(exps[e].final, e, exps[e].finalCommit)
          /\ subs[e] = None => exps[e].final = None

(* A run that passed stays so, or goes.                                    *)
LEMMA PassedStays == ASSUME Inv, [Next]_vars, NEW r \in Ops, NEW e, NEW c, PassedIn(r, e, c)
                     PROVE  /\ Done(r)'
                            /\ runs'[r] # None => /\ runs[r] # None
                                                  /\ runs'[r].status = "passed"
                                                  /\ runs'[r].exp = e
                                                  /\ runs'[r].commit = c
<1>1. Done(r)' /\ ~Writes(r)
  BY DoneStays DEF PassedIn, Done, NoResultYet, NotInserted, Writes, InsertRunning, Record, Violate, Execute
<1>2. QED
  BY <1>1, RunSteps DEF PassedIn, RunKept

(* An invocation closes with a run that passed, or for free with none.     *)
LEMMA ClosingSteps ==
    ASSUME Inv, RunsOK, FinalOK, [Next]_vars, NEW o \in Ops, pc'[o] = "closing", loc'[o].run # None
    PROVE  PassedIn(loc[o].run, job[o].exp, loc[o].commit)'
<1>1. RunOK(o) /\ loc[o] \in Loc /\ loc[o].run \in Ops \cup {None}
  BY DEF RunsOK, Inv, TypeOK, Loc
<1>2. ASSUME NEW r \in Ops, PassedIn(r, job[o].exp, loc[o].commit),
             loc'[o].run = r, loc'[o].commit = loc[o].commit, job'[o] = job[o]
      PROVE  PassedIn(loc[o].run, job[o].exp, loc[o].commit)'
  BY <1>2, PassedStays DEF PassedIn
<1>3. CASE ~Own(o)
  BY <1>1, <1>2, <1>3, OthersKeepLocals DEF FinalOK
<1>4. CASE Seek(o)
  <2>1. PICK r \in Reusable(o) : loc' = [loc EXCEPT ![o].run = r]
    BY <1>4 DEF Seek, Goto, Inv, TypeOK
  <2>2. loc'[o].run = r /\ loc'[o].commit = loc[o].commit /\ job' = job
    BY <1>1, <1>4, <2>1 DEF Seek, Inv, TypeOK, Loc
  <2>3. r \in Ops /\ PassedIn(r, job[o].exp, loc[o].commit)
    BY <2>1 DEF Reusable, PassedIn, RunsOK, RunOK
  <2>4. QED
    BY <1>2, <2>2, <2>3
<1>5. ASSUME NEW result \in Finished, Execute(o, result)
      PROVE  PassedIn(loc[o].run, job[o].exp, loc[o].commit)'
  <2>1. result = "passed" /\ job' = job /\ pc[o] = "executing"
    BY <1>5 DEF Execute, Goto, Inv, TypeOK
  <2>2. loc'[o].run = o /\ loc'[o].commit = loc[o].commit
    BY <1>1, <1>5 DEF Execute, Inv, TypeOK, Loc
  <2>3. Done(o)'
    BY DEF Done, NoResultYet, NotInserted
  <2>4. ASSUME runs'[o] # None
        PROVE  runs'[o].status = "passed" /\ runs'[o].exp = job[o].exp /\ runs'[o].commit = loc[o].commit
    <3>1. runs[o] # None /\ runs'[o] = [runs[o] EXCEPT !.status = "passed", !.commit = loc[o].commit]
      BY <1>5, <2>1, <2>4 DEF Execute, Inv, TypeOK
    <3>2. runs[o] \in RunRow /\ runs[o].exp = job[o].exp
      BY <1>1, <2>1, <3>1 DEF RunOK, InCritical, Critical, RunPC, Inv, TypeOK
    <3>3. QED
      BY <3>1, <3>2 DEF RunRow
  <2>5. QED
    BY <2>1, <2>2, <2>3, <2>4 DEF PassedIn
<1>6. CASE Own(o) /\ ~(Seek(o) \/ \E result \in Finished : Execute(o, result))
  <2>1. pc[o] = "settling" /\ loc'[o].run = loc[o].run
    <3>1. CASE OpStart(o) \/ OpRemove(o) \/ Crash(o)
      BY <3>1 DEF OpStart, Admit, ExpRemovePreflight, RunRemovePreflight, OpRemove, ExpRemove, RunRemove,
                  RemoveFails, Crash, End, Goto, Inv, TypeOK
    <3>2. CASE OpStep(o) /\ ~Settle(o)
      BY <1>6, <3>2
         DEF OpStep, Acquire, Busy, Screen, Decide, Close, Enter, InterruptStale, CheckScope,
             InsertRunning, Stage, Record, Violate, Abort, Release, End, Goto, Inv, TypeOK
    <3>3. CASE Settle(o)
      BY <1>1, <3>3 DEF Settle, Inv, TypeOK, Loc
    <3>4. QED
      BY <1>6, <3>1, <3>2, <3>3 DEF Own
  <2>2. QED
    BY <1>1, <2>1 DEF RunOK, Done, NoResultYet
<1>7. QED
  BY <1>3, <1>4, <1>5, <1>6

(* What a step does to the pointers of an experiment to its runs.          *)
LEMMA PointerSteps ==
    ASSUME Inv, [Next]_vars, NEW e \in Exps, exps[e] # None, exps'[e] # None
    PROVE  \/ /\ exps'[e].finalRemoved = exps[e].finalRemoved
              /\ exps'[e].latest = exps[e].latest
              /\ exps'[e].latestCommit = exps[e].latestCommit
           \/ \E o \in Ops :
                 /\ Violate(o) \/ \E result \in Finished : Execute(o, result)
                 /\ job[o].exp = e
                 /\ exps'[e].finalRemoved = exps[e].finalRemoved
                 /\ exps'[e].latest = o
                 /\ exps'[e].latestCommit = loc[o].commit
           \/ \E o \in Ops :
                 /\ RunRemove(o)
                 /\ exps'[e].finalRemoved = (exps[e].finalRemoved \/ exps[e].final = loc[o].run)
<1>1. exps[e] \in ExpRow
  BY DEF Inv, TypeOK
<1>2. CASE exps'[e] = exps[e]
  BY <1>2
<1>3. ASSUME NEW o \in Ops, exps' = WithLatest(o), exps'[e] # exps[e]
      PROVE  /\ job[o].exp = e
             /\ exps'[e].finalRemoved = exps[e].finalRemoved
             /\ exps'[e].latest = o
             /\ exps'[e].latestCommit = loc[o].commit
  <2>1. job[o].exp = e /\ exps'[e] = [exps[e] EXCEPT !.latest = o, !.latestCommit = loc[o].commit]
    BY <1>3 DEF WithLatest, Inv, TypeOK
  <2>2. QED
    BY <1>1, <2>1 DEF ExpRow
<1>4. ASSUME NEW o \in Ops, Close(o), exps'[e] # exps[e]
      PROVE  /\ exps'[e].finalRemoved = exps[e].finalRemoved
             /\ exps'[e].latest = exps[e].latest
             /\ exps'[e].latestCommit = exps[e].latestCommit
  <2>1. exps' = [exps EXCEPT ![job[o].exp].status = "closed", ![job[o].exp].final = loc[o].run,
                             ![job[o].exp].finalCommit = loc[o].commit]
    BY <1>4 DEF Close
  <2>2. job[o].exp = e
    BY <1>4, <2>1 DEF Inv, TypeOK
  <2>3. exps'[e] = [exps[e] EXCEPT !.status = "closed", !.final = loc[o].run, !.finalCommit = loc[o].commit]
    BY <2>1, <2>2 DEF Inv, TypeOK
  <2>4. QED
    BY <1>1, <2>3 DEF ExpRow
<1>5. ASSUME NEW x \in Exps, ExpArchive(x) \/ ExpUnarchive(x), exps'[e] # exps[e]
      PROVE  /\ exps'[e].finalRemoved = exps[e].finalRemoved
             /\ exps'[e].latest = exps[e].latest
             /\ exps'[e].latestCommit = exps[e].latestCommit
  <2>1. CASE ExpArchive(x)
    <3>1. exps' = [exps EXCEPT ![x].status = "archived", ![x].pre = exps[x].status]
      BY <2>1 DEF ExpArchive
    <3>2. x = e
      BY <1>5, <3>1 DEF Inv, TypeOK
    <3>3. exps'[e] = [exps[e] EXCEPT !.status = "archived", !.pre = exps[e].status]
      BY <3>1, <3>2 DEF Inv, TypeOK
    <3>4. QED
      BY <1>1, <3>3 DEF ExpRow
  <2>2. CASE ExpUnarchive(x)
    <3>1. exps'[e] = [exps[e] EXCEPT !.status = Restored(e), !.pre = None]
      BY <1>5, <2>2 DEF ExpUnarchive, Inv, TypeOK
    <3>2. QED
      BY <1>1, <3>1 DEF ExpRow
  <2>3. QED
    BY <1>5, <2>1, <2>2
<1>6. ASSUME NEW o \in Ops, RunRemove(o), exps'[e] # exps[e]
      PROVE  exps'[e].finalRemoved = (exps[e].finalRemoved \/ exps[e].final = loc[o].run)
  <2>1. job[o].exp \in Exps
    BY <1>6 DEF RunRemove, Inv, LocalsOK
  <2>2. PICK p \in LatestAfter(job[o].exp, loc[o].run) :
           exps' = [exps EXCEPT ![job[o].exp].latest = p[1], ![job[o].exp].latestCommit = p[2],
                                ![job[o].exp].finalRemoved = @ \/ FinalGone(job[o].exp, loc[o].run)]
    BY <1>6 DEF RunRemove
  <2>3. job[o].exp = e
    <3>1. \A x \in Exps \ {job[o].exp} : exps'[x] = exps[x]
      BY <2>1, <2>2 DEF Inv, TypeOK
    <3>2. QED
      BY <1>6, <3>1
  <2>4. exps'[e] = [exps[e] EXCEPT !.latest = p[1], !.latestCommit = p[2],
                                   !.finalRemoved = exps[e].finalRemoved \/ FinalGone(e, loc[o].run)]
    BY <2>2, <2>3 DEF Inv, TypeOK
  <2>5. exps'[e].finalRemoved = (exps[e].finalRemoved \/ FinalGone(e, loc[o].run))
    BY <1>1, <2>4 DEF ExpRow
  <2>6. QED
    BY <2>5 DEF FinalGone
<1>7. ASSUME NEW o \in Ops, Own(o), ~(Close(o) \/ Violate(o) \/ RunRemove(o)),
             ~\E result \in Finished : Execute(o, result)
      PROVE  exps'[e] = exps[e]
  <2>1. CASE OpStep(o)
    BY <1>7, <2>1
       DEF OpStep, Acquire, Busy, Screen, Decide, Seek, Enter, InterruptStale, CheckScope,
           InsertRunning, Stage, Settle, Record, Abort, Release, tables
  <2>2. CASE ExpRemove(o)
    BY <2>2 DEF ExpRemove, Inv, TypeOK, LocalsOK
  <2>3. CASE OpStart(o) \/ RemoveFails(o) \/ Crash(o)
    BY <2>3 DEF OpStart, Admit, ExpRemovePreflight, RunRemovePreflight, RemoveFails, Crash, tables
  <2>4. QED
    BY <1>7, <2>1, <2>2, <2>3 DEF Own, OpRemove
<1>8. ASSUME NEW o \in Ops, Own(o)
      PROVE  \/ exps'[e] = exps[e] \/ Close(o) \/ RunRemove(o)
             \/ (Violate(o) \/ \E result \in Finished : Execute(o, result)) /\ exps' = WithLatest(o)
  BY <1>7, <1>8 DEF Violate, Execute
<1>9. \/ \E o \in Ops : Own(o)
      \/ \E x \in Exps : ExpArchive(x) \/ ExpUnarchive(x)
      \/ exps' = exps
  <2>1. ASSUME NEW x \in Exps, Expire(x)
        PROVE  exps' = exps
    BY <2>1 DEF Expire, tables
  <2>2. CASE Admin
    BY <2>2 DEF Admin, ProjectArchive, ProjectUnarchive, ClearStale, Status, RunArchive, tables
  <2>3. CASE User
    BY <2>3 DEF User, UserEdit, UserCommit, tables
  <2>4. CASE UNCHANGED vars
    BY <2>4 DEF vars
  <2>5. QED
    BY <2>1, <2>2, <2>3, <2>4 DEF Next, Own
<1>10. QED
  BY <1>2, <1>3, <1>4, <1>5, <1>6, <1>8, <1>9

FinalInv == RunsOK /\ FinalOK /\ FinalRemovalRecorded

(* Every step preserves what is known of final runs.                       *)
LEMMA NextFinal == Inv /\ FinalInv /\ [Next]_vars => FinalInv'
<1> SUFFICES ASSUME Inv, RunsOK, FinalOK, FinalRemovalRecorded, [Next]_vars
             PROVE  FinalOK' /\ FinalRemovalRecorded'
  BY NextRuns DEF FinalInv
<1>1. ASSUME NEW o \in Ops, pc'[o] = "closing", loc'[o].run # None
      PROVE  PassedIn(loc[o].run, job[o].exp, loc[o].commit)'
  BY <1>1, ClosingSteps
<1>2. ASSUME NEW e \in Exps, exps'[e] # None
      PROVE  /\ exps[e] # None
             /\ \/ /\ exps'[e].final = exps[e].final /\ exps'[e].finalCommit = exps[e].finalCommit
                   /\ subs'[e] = subs[e]
                \/ /\ subs[e] = None /\ subs'[e] # None
                   /\ exps'[e].final = subs'[e].run /\ exps'[e].finalCommit = subs'[e].commit
  BY <1>2, NextStep DEF LifecycleStep, Kept, Toggles, Closes, Removes
<1>3. ASSUME NEW e \in Exps, exps'[e] # None
      PROVE  /\ exps'[e].final # None => PassedIn(exps[e].final, e, exps[e].finalCommit)'
             /\ subs'[e] = None => exps'[e].final = None
  <2>1. exps[e] # None /\ exps[e].final \in Ops \cup {None}
    BY <1>2, <1>3 DEF Inv, TypeOK, ExpRow
  <2>2. CASE /\ exps'[e].final = exps[e].final /\ exps'[e].finalCommit = exps[e].finalCommit
             /\ subs'[e] = subs[e]
    <3>1. subs'[e] = None => exps'[e].final = None
      BY <2>1, <2>2 DEF FinalOK
    <3>2. ASSUME exps'[e].final # None
          PROVE  PassedIn(exps[e].final, e, exps[e].finalCommit)'
      <4>1. exps[e].final \in Ops /\ PassedIn(exps[e].final, e, exps[e].finalCommit)
        BY <2>1, <2>2, <3>2 DEF FinalOK
      <4>2. PICK r \in Ops : r = exps[e].final
        BY <4>1
      <4>3. /\ Done(r)'
            /\ runs'[r] # None => /\ runs'[r].status = "passed"
                                  /\ runs'[r].exp = e
                                  /\ runs'[r].commit = exps[e].finalCommit
        BY <4>1, <4>2, PassedStays
      <4>4. QED
        BY <2>2, <4>2, <4>3 DEF PassedIn, Done
    <3>3. QED
      BY <3>1, <3>2
  <2>3. CASE /\ subs[e] = None /\ subs'[e] # None
             /\ exps'[e].final = subs'[e].run /\ exps'[e].finalCommit = subs'[e].commit
    <3>1. PICK o \in Ops : /\ Close(o) /\ job[o].exp = e
                           /\ subs'[e] = [run |-> loc[o].run, commit |-> loc[o].commit]
      BY <2>3, SubmissionSteps
    <3>2. pc[o] = "closing" /\ loc[o].run \in Ops \cup {None}
      BY <3>1 DEF Close, Inv, TypeOK, Loc
    <3>3. ASSUME loc[o].run # None
          PROVE  PassedIn(exps[e].final, e, exps[e].finalCommit)'
      <4>1. PassedIn(loc[o].run, e, loc[o].commit)
        BY <3>1, <3>2, <3>3 DEF FinalOK
      <4>2. QED
        BY <2>3, <3>1, <3>2, <3>3, <4>1, PassedStays DEF PassedIn
    <3>4. QED
      BY <2>3, <3>1, <3>3
  <2>4. QED
    BY <1>2, <1>3, <2>2, <2>3
<1>4. ASSUME NEW e \in Exps, exps'[e] # None, exps'[e].finalRemoved
      PROVE  exps'[e].final # None /\ runs'[exps'[e].final] = None /\ subs'[e] # None
  <2>1. exps[e] # None /\ exps[e].final \in Ops \cup {None} /\ exps[e].finalRemoved \in BOOLEAN
    BY <1>2, <1>4 DEF Inv, TypeOK, ExpRow
  <2>2. CASE exps[e].finalRemoved
    <3>1. exps[e].final \in Ops /\ runs[exps[e].final] = None /\ subs[e] # None
      BY <2>1, <2>2 DEF FinalRemovalRecorded
    <3>2. exps'[e].final = exps[e].final /\ subs'[e] = subs[e]
      BY <1>2, <1>4, <3>1
    <3>3. runs'[exps[e].final] = None
      <4>1. PassedIn(exps[e].final, e, exps[e].finalCommit)
        BY <2>1, <3>1, NoneAssumption DEF FinalOK, Commits
      <4>2. QED
        BY <3>1, <4>1, PassedStays
    <3>4. QED
      BY <3>1, <3>2, <3>3, NoneAssumption DEF Commits
  <2>3. CASE ~exps[e].finalRemoved
    <3>1. PICK o \in Ops : RunRemove(o) /\ exps[e].final = loc[o].run
      BY <1>4, <2>1, <2>3, PointerSteps
    <3>2. loc[o].run \in Ops /\ subs' = subs
      BY <3>1 DEF RunRemove, Inv, LocalsOK
    <3>3. runs'[loc[o].run] = None
      BY <3>1, <3>2 DEF RunRemove, Inv, TypeOK
    <3>4. subs[e] # None /\ exps[e].final # None
      BY <2>1, <3>1, <3>2, NoneAssumption DEF FinalOK, Commits
    <3>5. QED
      BY <1>2, <1>4, <3>1, <3>2, <3>3, <3>4
  <2>4. QED
    BY <2>2, <2>3
<1>5. QED
  BY <1>1, <1>3, <1>4 DEF FinalOK, FinalRemovalRecorded

(* Nothing is final at first.                                              *)
LEMMA InitFinal == Init => FinalInv
BY InitRuns DEF Init, FinalInv, FinalOK, FinalRemovalRecorded, NewExp

(* The invariant holds in every reachable state.                           *)
LEMMA FinalInvariance == Spec => []FinalInv
BY InitFinal, NextFinal, Invariance, PTL DEF Spec

(* What an experiment is closed with is a run of its own that passed on    *)
(* the final commit, or a run removed since; no stale reusable run, late   *)
(* interruption or second submit can make it anything else.                *)
THEOREM FinalRunsPassed == Spec => []FinalRunPassed
<1>1. FinalInv => FinalRunPassed
  BY DEF FinalInv, FinalOK, PassedIn, FinalRunPassed
<1>2. QED
  BY <1>1, FinalInvariance, PTL

(* Where an experiment says that its final run was removed, it is closed   *)
(* and that run is gone for good; the removal of any other run, however it *)
(* overlaps with the submission, does not make it say so.                  *)
THEOREM FinalRemovalIsRecorded == Spec => []FinalRemovalRecorded
<1>1. FinalInv => FinalRemovalRecorded
  BY DEF FinalInv
<1>2. QED
  BY <1>1, FinalInvariance, PTL

(* How a row of a run goes: with its experiment, or in a removal of it.    *)
LEMMA RowsGone ==
    ASSUME Inv, [Next]_vars, NEW r \in Ops, runs[r] # None, runs'[r] = None
    PROVE  \/ exps'[runs[r].exp] = None
           \/ \E o \in Ops : RunRemove(o) /\ loc[o].run = r
<1>1. ~Writes(r)
  <2>1. ASSUME Writes(r)
        PROVE  runs'[r] # None
    <3>1. loc[r].commit \in Commits /\ job[r].exp \in Exps /\ runs[r] \in RunRow
      BY <2>1 DEF Writes, InsertRunning, Record, Violate, Execute, Inv, TypeOK, LocalsOK, HoldsCommit
    <3>2. runs'[r] \in RunRow
      <4>1. RunningRow(r) \in RunRow
        BY <3>1 DEF RunningRow, RunRow
      <4>2. CASE InsertRunning(r)
        BY <4>1, <4>2 DEF InsertRunning, Inv, TypeOK
      <4>3. CASE Record(r)
        <5>1. runs'[r] = RunningRow(r) \/ runs'[r] = [runs[r] EXCEPT !.commit = loc[r].commit]
          BY <4>3 DEF Record, Inv, TypeOK
        <5>2. QED
          BY <3>1, <4>1, <5>1 DEF RunRow
      <4>4. CASE Violate(r)
        <5>1. runs'[r] = [runs[r] EXCEPT !.status = "error", !.commit = loc[r].commit]
          BY <4>4 DEF Violate, Inv, TypeOK
        <5>2. QED
          BY <3>1, <5>1 DEF RunRow, Finished
      <4>5. ASSUME NEW result \in Finished, Execute(r, result)
            PROVE  runs'[r] \in RunRow
        <5>1. runs'[r] = [runs[r] EXCEPT !.status = result, !.commit = loc[r].commit]
          BY <4>5 DEF Execute, Inv, TypeOK
        <5>2. QED
          BY <3>1, <5>1 DEF RunRow
      <4>6. QED
        BY <2>1, <4>2, <4>3, <4>4, <4>5 DEF Writes
    <3>3. QED
      BY <3>2, NoneAssumption
  <2>2. QED
    BY <2>1
<1>2. ASSUME NEW S, runs' = Interrupted(S)
      PROVE  FALSE
  <2>1. Interrupted(S)[r] \in RunRow
    BY DEF Interrupted, Inv, TypeOK, RunRow
  <2>2. QED
    BY <1>2, <2>1, NoneAssumption
<1>3. ASSUME NEW q \in Ops, NEW flag \in BOOLEAN, RunArchive(q, flag)
      PROVE  FALSE
  <2>1. Interrupted(Exps) \in [Ops -> RunRow \cup {None}] /\ Interrupted(Exps)[r] \in RunRow
    BY InterruptedType DEF Interrupted, Inv, TypeOK, RunRow
  <2>2. runs'[r] = IF r = q THEN [Interrupted(Exps)[r] EXCEPT !.archived = flag]
                   ELSE Interrupted(Exps)[r]
    BY <1>3, <2>1 DEF RunArchive
  <2>3. [Interrupted(Exps)[r] EXCEPT !.archived = flag] \in RunRow
    BY <2>1 DEF RunRow
  <2>4. QED
    BY <2>1, <2>2, <2>3, NoneAssumption
<1>4. ASSUME NEW o \in Ops, ExpRemove(o)
      PROVE  exps'[runs[r].exp] = None
  BY <1>4 DEF ExpRemove, Inv, TypeOK, LocalsOK
<1>5. ASSUME NEW o \in Ops, OpStep(o), o # r \/ ~Writes(o), ~(Screen(o) \/ InterruptStale(o))
      PROVE  FALSE
  BY <1>5 DEF OpStep, Writes, Acquire, Busy, Decide, Seek, Close, Enter, CheckScope, InsertRunning,
              Stage, Settle, Record, Violate, Execute, Abort, Release, tables, Inv, TypeOK
<1>6. ASSUME NEW o \in Ops, OpStart(o) \/ RemoveFails(o) \/ Crash(o)
      PROVE  FALSE
  BY <1>2, <1>6 DEF OpStart, Admit, ExpRemovePreflight, RunRemovePreflight, RemoveFails, Crash, tables
<1>7. ASSUME NEW o \in Ops, RunRemove(o)
      PROVE  loc[o].run = r
  BY <1>7 DEF RunRemove, Inv, TypeOK, LocalsOK
<1>8. ASSUME NEW e \in Exps, Expire(e)
      PROVE  FALSE
  BY <1>8 DEF Expire, tables
<1>9. CASE Admin
  BY <1>2, <1>3, <1>9 DEF Admin, ExpArchive, ExpUnarchive, ProjectArchive, ProjectUnarchive, ClearStale,
                          Status, tables
<1>10. CASE User
  BY <1>10 DEF User, UserEdit, UserCommit, tables
<1>11. CASE UNCHANGED vars
  BY <1>11 DEF vars
<1>12. QED
  BY <1>1, <1>2, <1>4, <1>5, <1>6, <1>7, <1>8, <1>9, <1>10, <1>11
     DEF Next, OpRemove, Screen, InterruptStale

(* An invocation at work goes on with its job until it has a result.       *)
LEMMA JobStays ==
    ASSUME Inv, [Next]_vars, NEW r \in Ops, pc[r] # "idle"
    PROVE  /\ pc'[r] # "idle"
           /\ ~Done(r)' => ~Done(r) /\ job'[r] = job[r]
<1>1. ~Done(r)' => ~Done(r)
  BY DoneStays
<1>2. CASE ~Own(r)
  BY <1>1, <1>2, OthersKeepLocals
<1>3. CASE Writes(r)
  BY <1>1, <1>3 DEF Writes, InsertRunning, Record, Violate, Execute, Goto, Inv, TypeOK
<1>4. CASE Own(r) /\ ~Writes(r)
  <2>1. pc'[r] \notin {"idle", "admitted"}
    <3>1. ~OpStart(r)
      BY DEF OpStart, Admit, ExpRemovePreflight, RunRemovePreflight
    <3>2. CASE OpRemove(r) \/ Crash(r)
      BY <3>2 DEF OpRemove, ExpRemove, RunRemove, RemoveFails, Crash, End, Goto, Inv, TypeOK
    <3>3. CASE OpStep(r)
      BY <3>3
         DEF OpStep, Acquire, Busy, Screen, Decide, Seek, Close, Enter, InterruptStale,
             CheckScope, InsertRunning, Stage, Settle, Record, Violate, Execute, Abort,
             Release, End, Goto, Inv, TypeOK
    <3>4. QED
      BY <1>4, <3>1, <3>2, <3>3 DEF Own
  <2>2. ~Done(r)' => InCritical(r)'
    BY <2>1 DEF Done, NoResultYet, NotInserted, InCritical, Critical, RunPC, SubmitPC
  <2>3. QED
    BY <1>1, <1>4, <2>1, <2>2, OwnMoves
<1>5. QED
  BY <1>2, <1>3, <1>4

(* A removal of a run works on the experiment of that run.                 *)
RemovalOK(o) ==
    pc[o] = "removing run" =>
        /\ pc[loc[o].run] # "idle"
        /\ ~Done(loc[o].run) => job[loc[o].run].exp = job[o].exp
        /\ runs[loc[o].run] # None => runs[loc[o].run].exp = job[o].exp

RemovalsOK == \A o \in Ops : RemovalOK(o)

(* Every step preserves what is known of removals of runs.                 *)
LEMMA NextRemovals == Inv /\ RunsOK /\ RemovalsOK /\ [Next]_vars => RemovalsOK'
<1> SUFFICES ASSUME Inv, RunsOK, RemovalsOK, [Next]_vars, NEW o \in Ops, pc'[o] = "removing run"
             PROVE  RemovalOK(o)'
  BY DEF RemovalsOK, RemovalOK
<1>1. ASSUME NEW r \in Ops, pc[r] # "idle", ~Done(r) => job[r].exp = job'[o].exp,
             runs[r] # None => runs[r].exp = job'[o].exp
      PROVE  /\ pc'[r] # "idle"
             /\ ~Done(r)' => job'[r].exp = job'[o].exp
             /\ runs'[r] # None => runs'[r].exp = job'[o].exp
  <2>1. pc'[r] # "idle" /\ (~Done(r)' => ~Done(r) /\ job'[r] = job[r])
    BY <1>1, JobStays
  <2>2. CASE Writes(r)
    <3>1. RunOK(r)'
      BY <2>2, WritesRun
    <3>2. job' = job /\ InCritical(r)' /\ ~Done(r)
      BY <2>2 DEF Writes, InsertRunning, Record, Violate, Execute, Goto, Inv, TypeOK, InCritical,
                  Critical, RunPC, SubmitPC, Done, NoResultYet, NotInserted
    <3>3. QED
      BY <1>1, <2>1, <3>1, <3>2 DEF RunOK
  <2>3. CASE ~Writes(r)
    <3>1. RunKept(r)
      BY <2>3, RunSteps
    <3>2. QED
      BY <1>1, <2>1, <3>1 DEF RunKept
  <2>4. QED
    BY <2>2, <2>3
<1>2. CASE ~Own(o)
  <2>1. pc'[o] = pc[o] /\ job'[o] = job[o] /\ loc'[o] = loc[o]
    BY <1>2, OthersKeepLocals
  <2>2. PICK r \in Ops : r = loc[o].run
    BY <2>1 DEF Inv, LocalsOK
  <2>3. QED
    BY <1>1, <2>1, <2>2 DEF RemovalsOK, RemovalOK, Done
<1>3. CASE Own(o)
  <2>1. PICK r \in Ops : /\ pc[o] = "idle" /\ runs[r] # None
                         /\ job'[o].exp = runs[r].exp /\ loc'[o].run = r
    <3>1. CASE OpStart(o)
      <4>1. ASSUME NEW r \in Ops, RunRemovePreflight(o, r)
            PROVE  /\ pc[o] = "idle" /\ runs[r] # None
                   /\ job'[o].exp = runs[r].exp /\ loc'[o].run = r
        <5>1. /\ job' = [job EXCEPT ![o] = [cmd |-> "run remove", exp |-> runs[r].exp]]
              /\ loc' = [loc EXCEPT ![o].run = r]
          BY <4>1 DEF RunRemovePreflight, End, Goto, Inv, TypeOK
        <5>2. job'[o].exp = runs[r].exp
          BY <5>1 DEF Inv, TypeOK
        <5>3. loc[o] \in Loc /\ loc'[o] = [loc[o] EXCEPT !.run = r]
          BY <5>1 DEF Inv, TypeOK
        <5>4. loc'[o].run = r
          BY <5>3 DEF Loc
        <5>5. QED
          BY <4>1, <5>2, <5>4 DEF RunRemovePreflight
      <4>2. ~\E k \in Commands, e \in Exps : Admit(o, k, e)
        BY DEF Admit, Goto, Inv, TypeOK
      <4>3. ~\E e \in Exps : ExpRemovePreflight(o, e)
        BY DEF ExpRemovePreflight, Goto, Inv, TypeOK
      <4>4. QED
        BY <3>1, <4>1, <4>2, <4>3 DEF OpStart
    <3>2. CASE OpRemove(o) \/ Crash(o)
      BY <3>2 DEF OpRemove, ExpRemove, RunRemove, RemoveFails, Crash, End, Goto, Inv, TypeOK
    <3>3. CASE OpStep(o)
      BY <3>3
         DEF OpStep, Acquire, Busy, Screen, Decide, Seek, Close, Enter, InterruptStale,
             CheckScope, InsertRunning, Stage, Settle, Record, Violate, Execute, Abort,
             Release, End, Goto, Inv, TypeOK
    <3>4. QED
      BY <1>3, <3>1, <3>2, <3>3 DEF Own
  <2>2. pc[r] # "idle" /\ (~Done(r) => job[r].exp = runs[r].exp)
    BY <2>1 DEF RunsOK, RunOK, NotInserted, Done, NoResultYet, InCritical, Critical, RunPC
  <2>3. QED
    BY <1>1, <2>1, <2>2 DEF RemovalOK, Done
<1>4. QED
  BY <1>2, <1>3

(* No run is being removed at first, and the invariant stays.              *)
LEMMA RemovalInvariance == Spec => [](RunsOK /\ RemovalsOK)
<1>1. Init => RunsOK /\ RemovalsOK
  BY InitRuns DEF Init, RemovalsOK, RemovalOK
<1>2. Inv /\ RunsOK /\ RemovalsOK /\ [Next]_vars => RunsOK' /\ RemovalsOK'
  BY NextRuns, NextRemovals
<1>3. QED
  BY <1>1, <1>2, Invariance, PTL DEF Spec

(* The transaction that deletes the run an experiment was closed with      *)
(* records that on the experiment, though its preflight may be older than  *)
(* the submission, and the record stays.                                   *)
THEOREM FinalRemovalIsWritten == Spec => FinalRemovalWritten
<1>1. ASSUME Inv, FinalInv, RunsOK, RemovalsOK, [Next]_vars
      PROVE  [\A e \in Exps : exps[e] # None /\ exps'[e] # None /\ exps[e].final # None =>
                 (exps[e].finalRemoved \/ (runs[exps[e].final] # None /\ runs'[exps[e].final] = None)
                     => exps'[e].finalRemoved)]_vars
  <2> SUFFICES ASSUME NEW e \in Exps, exps[e] # None, exps'[e] # None, exps[e].final # None,
                      exps[e].finalRemoved \/ (runs[exps[e].final] # None /\ runs'[exps[e].final] = None)
               PROVE  exps'[e].finalRemoved
    OBVIOUS
  <2>1. exps[e].final \in Ops /\ exps[e].finalRemoved \in BOOLEAN
    BY <1>1 DEF Inv, TypeOK, ExpRow
  <2>2. CASE exps[e].finalRemoved
    BY <1>1, <2>1, <2>2, PointerSteps
  <2>3. CASE ~exps[e].finalRemoved
    <3>1. PICK r \in Ops : r = exps[e].final
      BY <2>1
    <3>2. runs[r] # None /\ runs'[r] = None /\ runs[r].exp = e
      BY <1>1, <2>3, <3>1 DEF FinalInv, FinalOK, PassedIn
    <3>3. PICK o \in Ops : RunRemove(o) /\ loc[o].run = r
      BY <1>1, <3>2, RowsGone
    <3>4. pc[o] = "removing run" /\ job[o].exp = e
      BY <1>1, <3>2, <3>3 DEF RunRemove, RemovalsOK, RemovalOK
    <3>5. PICK p \in LatestAfter(e, r) :
             exps' = [exps EXCEPT ![e].latest = p[1], ![e].latestCommit = p[2],
                                  ![e].finalRemoved = @ \/ FinalGone(e, r)]
      BY <3>3, <3>4 DEF RunRemove
    <3>6. exps'[e] = [exps[e] EXCEPT !.latest = p[1], !.latestCommit = p[2],
                                     !.finalRemoved = exps[e].finalRemoved \/ FinalGone(e, r)]
      BY <1>1, <3>5 DEF Inv, TypeOK
    <3>7. exps'[e].finalRemoved = (exps[e].finalRemoved \/ FinalGone(e, r))
      BY <1>1, <3>6 DEF Inv, TypeOK, ExpRow
    <3>8. QED
      BY <3>1, <3>7 DEF FinalGone
  <2>4. QED
    BY <2>2, <2>3
<1>2. QED
  BY <1>1, FinalInvariance, RemovalInvariance, Invariance, PTL DEF Spec, FinalRemovalWritten

-----------------------------------------------------------------------------
(* Without `observe runs remove`, the run an invocation is about to give a *)
(* result has its row, and the latest run keeps the row it was given.      *)
RowStays(o) ==
    /\ ~Free(o)
    /\ \/ pc[o] \in {"staging", "executing"}
       \/ pc[o] \in {"settling", "recording"} /\ loc[o].made
    /\ exps[job[o].exp] # None

LatestOK ==
    /\ \A o \in Ops : /\ RowStays(o) => runs[o] # None
                      /\ pc[o] \in NotInserted => ~loc[o].made
                      /\ pc[o] \in {"violating", "recording", "executing"} => ~Free(o)
                      /\ pc[o] # "removing run"
    /\ \A e \in Exps : exps[e] # None /\ exps[e].latest # None => Done(exps[e].latest)

LatestInv == RunsOK /\ LatestOK /\ LatestConsistent

(* Rows of runs go with their experiment only.                             *)
LEMMA RowsGo == ASSUME Inv, [Next]_vars, LatestOK, NEW r \in Ops, runs[r] # None, runs'[r] = None
                PROVE  exps'[runs[r].exp] = None
BY RowsGone DEF RunRemove, LatestOK

(* An experiment has a row after a step only if it had one before.         *)
LEMMA RowsBefore == ASSUME Inv, [Next]_vars, NEW e \in Exps, exps'[e] # None
                    PROVE  exps[e] # None
BY NextStep DEF LifecycleStep, Kept, Toggles, Closes, Removes

(* How an invocation comes to the places where its run has a row.          *)
LEMMA RowMoves ==
    ASSUME Inv, "run remove" \notin Commands, NEW o \in Ops, Own(o)
    PROVE  /\ pc'[o] \in NotInserted =>
                pc[o] \in NotInserted /\ (loc'[o].made => loc[o].made)
           /\ pc'[o] \in {"staging", "executing", "settling", "recording", "violating"} =>
                /\ job'[o] = job[o]
                /\ \/ pc'[o] = "executing" /\ Record(o)
                   \/ pc'[o] \in {"settling", "violating"} /\ CheckScope(o) /\ loc'[o].made = loc[o].made
                   \/ pc'[o] = "staging" /\ (InsertRunning(o) \/ (CheckScope(o) /\ Free(o)))
                   \/ pc'[o] = "settling" /\ Stage(o)
                   \/ pc'[o] \in {"recording", "violating"} /\ Settle(o) /\ loc'[o].made = loc[o].made
           /\ pc'[o] \in {"violating", "recording"} => ~Free(o)
           /\ pc'[o] # "removing run" \/ pc[o] = "removing run"
<1> USE DEF NotInserted
<1>1. loc[o] \in Loc /\ pc[o] \in PC
  BY DEF Inv, TypeOK
<1>2. CASE OpStart(o)
  BY <1>1, <1>2 DEF OpStart, Admit, ExpRemovePreflight, RunRemovePreflight, End, Goto, Inv, TypeOK
<1>3. CASE OpRemove(o) \/ Crash(o) \/ Busy(o) \/ Release(o)
  <2>1. End(o)
    BY <1>3 DEF OpRemove, ExpRemove, RunRemove, RemoveFails, Crash, Busy, Release
  <2>2. QED
    BY <1>1, <2>1 DEF End, Goto, NoLoc, Inv, TypeOK
<1>4. CASE Acquire(o) \/ Screen(o) \/ Enter(o) \/ InterruptStale(o) \/ Abort(o)
  BY <1>1, <1>4 DEF Acquire, Screen, Enter, InterruptStale, Abort, Goto, Inv, TypeOK
<1>5. CASE Decide(o) \/ Seek(o)
  <2>1. CASE Decide(o)
    <3>1. loc'[o].made = loc[o].made
      <4>1. loc' = loc \/ loc' = [loc EXCEPT ![o].commit = head[job[o].exp]]
        BY <2>1 DEF Decide
      <4>2. QED
        BY <1>1, <4>1 DEF Inv, TypeOK, Loc
    <3>2. QED
      BY <1>1, <2>1, <3>1 DEF Decide, Goto, Inv, TypeOK
  <2>2. CASE Seek(o)
    <3>1. pc'[o] \in {"releasing", "closing"}
      BY <2>2 DEF Seek, Goto, Inv, TypeOK
    <3>2. QED
      BY <3>1
  <2>3. QED
    BY <1>5, <2>1, <2>2
<1>6. CASE CheckScope(o)
  <2>1. loc'[o].made = loc[o].made
    BY <1>1, <1>6 DEF CheckScope, Inv, TypeOK, Loc
  <2>2. QED
    BY <1>1, <1>6, <2>1 DEF CheckScope, Goto, Inv, TypeOK
<1>7. CASE Stage(o)
  BY <1>1, <1>7 DEF Stage, Goto, Inv, TypeOK
<1>8. CASE Settle(o)
  <2>1. loc'[o].made = loc[o].made
    BY <1>1, <1>8 DEF Settle, Inv, TypeOK, Loc
  <2>2. QED
    BY <1>1, <1>8, <2>1 DEF Settle, Goto, Inv, TypeOK
<1>9. CASE Close(o) \/ InsertRunning(o) \/ Record(o) \/ Violate(o)
  <2>1. /\ job' = job
        /\ \/ pc'[o] = "staging" /\ InsertRunning(o)
           \/ pc'[o] = "executing" /\ Record(o)
           \/ pc'[o] = "releasing"
    BY <1>9 DEF Close, InsertRunning, Record, Violate, Goto, Inv, TypeOK
  <2>2. QED
    BY <2>1
<1>10. CASE \E result \in Finished : Execute(o, result)
  BY <1>1, <1>10 DEF Execute, Goto, Inv, TypeOK
<1>11. QED
  BY <1>2, <1>3, <1>4, <1>5, <1>6, <1>7, <1>8, <1>9, <1>10 DEF Own, OpStep

(* A result is written to the row of its run.                              *)
LEMMA ResultRow ==
    ASSUME Inv, RunsOK, LatestOK, NEW o \in Ops, exps[job[o].exp] # None,
           Violate(o) \/ \E result \in Finished : Execute(o, result)
    PROVE  /\ runs'[o] # None
           /\ runs'[o].exp = job[o].exp
           /\ runs'[o].commit = loc[o].commit
           /\ runs'[o].status # "running"
           /\ Done(o)'
<1>1. loc[o].commit \in Commits /\ job[o].exp \in Exps /\ RunOK(o)
  BY DEF Violate, Execute, Inv, TypeOK, LocalsOK, HoldsCommit, RunsOK
<1>2. RunningRow(o) \in RunRow /\ RunningRow(o).exp = job[o].exp /\ RunningRow(o).commit = loc[o].commit
  BY <1>1 DEF RunningRow, RunRow
<1>3. ASSUME runs[o] # None, InCritical(o)
      PROVE  runs[o] \in RunRow /\ runs[o].exp = job[o].exp
  BY <1>1, <1>3 DEF RunOK, Inv, TypeOK
<1>4. CASE Violate(o)
  <2>1. InCritical(o) /\ Done(o)'
    BY <1>4 DEF Violate, Goto, Inv, TypeOK, InCritical, Critical, RunPC, Done, NoResultYet, NotInserted
  <2>2. \/ runs'[o] = [RunningRow(o) EXCEPT !.status = "error"]
        \/ runs[o] # None /\ runs'[o] = [runs[o] EXCEPT !.status = "error", !.commit = loc[o].commit]
    BY <1>4 DEF Violate, Inv, TypeOK
  <2>3. /\ runs'[o] \in RunRow /\ runs'[o].exp = job[o].exp
        /\ runs'[o].commit = loc[o].commit /\ runs'[o].status = "error"
    BY <1>1, <1>2, <1>3, <2>1, <2>2 DEF RunRow, Finished
  <2>4. QED
    BY <2>1, <2>3, NoneAssumption
<1>5. ASSUME NEW result \in Finished, Execute(o, result)
      PROVE  /\ runs'[o] # None
             /\ runs'[o].exp = job[o].exp
             /\ runs'[o].commit = loc[o].commit
             /\ runs'[o].status # "running"
             /\ Done(o)'
  <2>1. InCritical(o) /\ Done(o)' /\ pc[o] = "executing"
    BY <1>5 DEF Execute, Goto, Inv, TypeOK, InCritical, Critical, RunPC, Done, NoResultYet, NotInserted
  <2>2. runs[o] # None
    BY <2>1 DEF LatestOK, RowStays
  <2>3. runs'[o] = [runs[o] EXCEPT !.status = result, !.commit = loc[o].commit]
    BY <1>5, <2>2 DEF Execute, Inv, TypeOK
  <2>4. /\ runs'[o] \in RunRow /\ runs'[o].exp = job[o].exp
        /\ runs'[o].commit = loc[o].commit /\ runs'[o].status = result
    BY <1>1, <1>3, <2>1, <2>2, <2>3 DEF RunRow
  <2>5. QED
    BY <2>1, <2>4, NoneAssumption DEF Finished
<1>6. QED
  BY <1>4, <1>5

(* Every step keeps the rows that results and latest pointers rely on.     *)
LEMMA NextLatest == ASSUME "run remove" \notin Commands
                    PROVE  Inv /\ LatestInv /\ [Next]_vars => LatestInv'
<1> SUFFICES ASSUME Inv, RunsOK, LatestOK, LatestConsistent, [Next]_vars
             PROVE  LatestOK' /\ LatestConsistent'
  BY NextRuns DEF LatestInv
<1>1. ASSUME NEW o \in Ops, RowStays(o)'
      PROVE  runs'[o] # None
  <2>1. exps'[job'[o].exp] # None /\ job'[o].exp \in Exps
    <3>1. Inv'
      BY NextInv
    <3>2. QED
      BY <1>1, <3>1 DEF RowStays, Inv, LocalsOK
  <2>2. ASSUME RowStays(o), job'[o] = job[o]
        PROVE  runs'[o] # None
    <3>1. runs[o] # None /\ runs[o].exp = job[o].exp
      BY <2>2 DEF LatestOK, RunsOK, RunOK, RowStays, InCritical, Critical, RunPC
    <3>2. QED
      BY <2>1, <2>2, <3>1, RowsGo
  <2>3. CASE ~Own(o)
    <3>1. pc'[o] = pc[o] /\ job'[o] = job[o] /\ loc'[o] = loc[o]
      BY <2>3, OthersKeepLocals
    <3>2. RowStays(o)
      BY <1>1, <2>1, <3>1, RowsBefore DEF RowStays, Free
    <3>3. QED
      BY <2>2, <3>1, <3>2
  <2>4. CASE InsertRunning(o)
    <3>1. runs'[o] = RunningRow(o) /\ loc[o].commit \in Commits /\ job[o].exp \in Exps
      BY <2>4 DEF InsertRunning, Inv, TypeOK, LocalsOK, HoldsCommit
    <3>2. QED
      <4>1. RunningRow(o) \in RunRow
        BY <3>1 DEF RunningRow, RunRow
      <4>2. QED
        BY <3>1, <4>1, NoneAssumption
  <2>5. CASE Record(o) /\ ~loc[o].made
    <3>1. runs'[o] = RunningRow(o) /\ loc[o].commit \in Commits /\ job[o].exp \in Exps
      BY <2>5 DEF Record, Inv, TypeOK, LocalsOK, HoldsCommit
    <3>2. QED
      <4>1. RunningRow(o) \in RunRow
        BY <3>1 DEF RunningRow, RunRow
      <4>2. QED
        BY <3>1, <4>1, NoneAssumption
  <2>6. CASE Own(o) /\ ~InsertRunning(o) /\ ~(Record(o) /\ ~loc[o].made)
    <3>1. job'[o] = job[o]
      BY <1>1, <2>6, RowMoves DEF RowStays
    <3>2. exps[job[o].exp] # None /\ ~Free(o)
      BY <1>1, <2>1, <3>1, RowsBefore DEF RowStays, Free
    <3>3. \/ Record(o) /\ loc[o].made
          \/ CheckScope(o) /\ pc'[o] = "settling" /\ loc'[o].made = loc[o].made
          \/ Stage(o)
          \/ Settle(o) /\ pc'[o] = "recording" /\ loc'[o].made = loc[o].made
      BY <1>1, <2>6, <3>2, RowMoves DEF RowStays
    <3>4. ~CheckScope(o) \/ pc'[o] # "settling" \/ loc'[o].made # loc[o].made
      BY <1>1 DEF CheckScope, LatestOK, NotInserted, RowStays
    <3>5. RowStays(o)
      BY <1>1, <3>2, <3>3, <3>4 DEF RowStays, Record, Stage, Settle
    <3>6. QED
      BY <2>2, <3>1, <3>5
  <2>7. QED
    BY <2>3, <2>4, <2>5, <2>6 DEF Own, OpStep
<1>2. ASSUME NEW o \in Ops
      PROVE  /\ pc'[o] \in NotInserted => ~loc'[o].made
             /\ pc'[o] \in {"violating", "recording", "executing"} => ~Free(o)'
             /\ pc'[o] # "removing run"
  <2>1. CASE ~Own(o)
    BY <2>1, OthersKeepLocals DEF LatestOK, Free
  <2>2. CASE Own(o)
    <3>1. pc'[o] = "executing" => pc[o] = "recording"
      BY <2>2, RowMoves DEF Record
    <3>2. pc'[o] \in {"violating", "recording", "executing"} => job'[o] = job[o]
      BY <2>2, RowMoves
    <3>3. QED
      BY <2>2, <3>1, <3>2, RowMoves DEF LatestOK, Free
  <2>3. QED
    BY <2>1, <2>2
<1>3. ASSUME NEW e \in Exps, exps'[e] # None, exps'[e].latest # None
      PROVE  /\ Done(exps[e].latest)'
             /\ runs'[exps'[e].latest] # None
             /\ runs'[exps'[e].latest].exp = e
             /\ runs'[exps'[e].latest].commit = exps'[e].latestCommit
             /\ runs'[exps'[e].latest].status # "running"
  <2>1. exps[e] # None /\ exps[e] \in ExpRow
    BY <1>3, RowsBefore DEF Inv, TypeOK
  <2>2. CASE exps'[e].latest = exps[e].latest /\ exps'[e].latestCommit = exps[e].latestCommit
    <3>1. PICK r \in Ops : r = exps[e].latest
      BY <1>3, <2>1, <2>2 DEF ExpRow
    <3>2. /\ Done(r) /\ runs[r] # None /\ runs[r].exp = e
          /\ runs[r].commit = exps[e].latestCommit /\ runs[r].status # "running"
      BY <1>3, <2>1, <2>2, <3>1 DEF LatestOK, LatestConsistent
    <3>3. runs'[r] # None
      BY <1>3, <3>2, RowsGo
    <3>4. ~Writes(r) /\ Done(r)'
      BY <3>2, DoneStays DEF Done, NoResultYet, NotInserted, Writes, InsertRunning, Record, Violate, Execute
    <3>5. runs'[r].exp = e /\ runs'[r].commit = exps[e].latestCommit /\ runs'[r].status # "running"
      BY <3>2, <3>3, <3>4, RunSteps DEF RunKept
    <3>6. QED
      BY <2>2, <3>1, <3>3, <3>4, <3>5 DEF Done
  <2>3. ASSUME NEW o \in Ops, Violate(o) \/ \E result \in Finished : Execute(o, result),
               job[o].exp = e, exps'[e].latest = o, exps'[e].latestCommit = loc[o].commit
        PROVE  /\ Done(exps[e].latest)'
               /\ runs'[exps'[e].latest] # None
               /\ runs'[exps'[e].latest].exp = e
               /\ runs'[exps'[e].latest].commit = exps'[e].latestCommit
               /\ runs'[exps'[e].latest].status # "running"
    BY <2>1, <2>3, ResultRow DEF Done
  <2>4. ASSUME NEW o \in Ops, RunRemove(o)
        PROVE  FALSE
    BY <2>4 DEF RunRemove, LatestOK
  <2>5. QED
    BY <1>3, <2>1, <2>2, <2>3, <2>4, PointerSteps
<1>4. QED
  BY <1>1, <1>2, <1>3 DEF LatestOK, LatestConsistent

(* There is no latest run, and nothing is executed, at first.              *)
LEMMA InitLatest == Init => LatestInv
BY InitRuns DEF Init, LatestInv, LatestOK, RowStays, LatestConsistent, NewExp, NoLoc

(* The latest pointers of an experiment name a recorded run of its own, of *)
(* the latest commit, that has ended: no interruption, violation or result *)
(* of another invocation, no archive and no expired lock splits them, as   *)
(* long as no run is removed on its own.                                   *)
THEOREM LatestRunsAgree == ASSUME "run remove" \notin Commands
                           PROVE  Spec => []LatestConsistent
<1>1. Inv /\ LatestInv /\ [Next]_vars => LatestInv'
  BY NextLatest
<1>2. LatestInv => LatestConsistent
  BY DEF LatestInv
<1>3. QED
  BY <1>1, <1>2, InitLatest, Invariance, PTL DEF Spec

-----------------------------------------------------------------------------
(* Who can end the time in which an experiment may be run: its closing or  *)
(* its removal, or an archive that finds no lock.                          *)
LEMMA MayRunStays ==
    ASSUME Inv, [Next]_vars, NEW e \in Exps, MayRun(e)
    PROVE  \/ MayRun(e)'
           \/ locks[e] = None
           \/ \E o \in Ops : \/ Close(o) /\ job[o].exp = e
                            \/ pc[o] = "removing exp"
<1>1. exps[e] \in ExpRow /\ exps[e] # None /\ exps[e].status = "open" /\ project # "archived"
  BY DEF MayRun, Open, Inv, TypeOK
<1>2. ASSUME NEW row \in ExpRow, row.status = exps[e].status, exps'[e] = row, project' = project
      PROVE  MayRun(e)'
  BY <1>1, <1>2, NoneAssumption DEF MayRun, Open
<1>3. ASSUME exps'[e] = exps[e], project' = project
      PROVE  MayRun(e)'
  BY <1>1, <1>3 DEF MayRun, Open
<1>4. ASSUME NEW o \in Ops, exps' = WithLatest(o), project' = project,
             job[o].exp \in Exps, loc[o].commit \in Commits
      PROVE  MayRun(e)'
  <2>1. CASE job[o].exp = e
    <3> DEFINE row == [exps[e] EXCEPT !.latest = o, !.latestCommit = loc[o].commit]
    <3>1. exps'[e] = row
      BY <1>1, <1>4, <2>1 DEF WithLatest, Inv, TypeOK
    <3>2. row \in ExpRow /\ row.status = exps[e].status
      BY <1>1, <1>4 DEF ExpRow
    <3>3. QED
      BY <1>2, <1>4, <3>1, <3>2
  <2>2. CASE job[o].exp # e
    BY <1>3, <1>4, <2>2 DEF WithLatest, Inv, TypeOK
  <2>3. QED
    BY <2>1, <2>2
<1>5. ASSUME NEW o \in Ops, RunRemove(o)
      PROVE  MayRun(e)'
  <2> DEFINE x == job[o].exp
             r == loc[o].run
  <2>1. x \in Exps /\ r \in Ops /\ project' = project
    BY <1>5 DEF RunRemove, Inv, LocalsOK
  <2>2. CASE exps[x] = None \/ x # e
    BY <1>3, <1>5, <2>1, <2>2 DEF RunRemove, Inv, TypeOK
  <2>3. CASE exps[x] # None /\ x = e
    <3>1. PICK p \in LatestAfter(e, r) :
             exps' = [exps EXCEPT ![e].latest = p[1], ![e].latestCommit = p[2],
                                  ![e].finalRemoved = @ \/ FinalGone(e, r)]
      BY <1>5, <2>3 DEF RunRemove
    <3>2. p[1] \in Ops \cup {None} /\ p[2] \in Commits
      BY <1>1, <2>1 DEF LatestAfter, Inv, TypeOK, ExpRow, RunRow
    <3> DEFINE row == [exps[e] EXCEPT !.latest = p[1], !.latestCommit = p[2],
                                      !.finalRemoved = exps[e].finalRemoved \/ FinalGone(e, r)]
    <3>3. exps'[e] = row
      BY <3>1 DEF Inv, TypeOK
    <3>4. (exps[e].finalRemoved \/ FinalGone(e, r)) \in BOOLEAN
      BY DEF FinalGone
    <3>5. row \in ExpRow /\ row.status = exps[e].status
      BY <1>1, <3>2, <3>4 DEF ExpRow
    <3>6. QED
      BY <1>2, <2>1, <3>3, <3>5
  <2>4. QED
    BY <2>2, <2>3
<1>6. ASSUME NEW o \in Ops, OpStep(o)
      PROVE  MayRun(e)' \/ (Close(o) /\ job[o].exp = e)
  <2>1. CASE Close(o)
    BY <1>3, <2>1 DEF Close, Inv, TypeOK
  <2>2. CASE Violate(o) \/ \E result \in Finished : Execute(o, result)
    <3>1. exps' = WithLatest(o) /\ project' = project /\ pc[o] \in {"violating", "executing"}
      BY <2>2 DEF Violate, Execute
    <3>2. QED
      BY <1>4, <3>1 DEF Inv, LocalsOK, HoldsCommit
  <2>3. CASE ~(Close(o) \/ Violate(o) \/ \E result \in Finished : Execute(o, result))
    <3>1. exps' = exps /\ project' = project
      BY <1>6, <2>3
         DEF OpStep, Acquire, Busy, Screen, Decide, Seek, Enter, InterruptStale,
             CheckScope, InsertRunning, Stage, Settle, Record, Abort, Release, tables
    <3>2. QED
      BY <1>3, <3>1
  <2>4. QED
    BY <2>1, <2>2, <2>3
<1>7. ASSUME NEW o \in Ops, OpStart(o) \/ Crash(o) \/ RemoveFails(o)
      PROVE  MayRun(e)'
  BY <1>3, <1>7 DEF OpStart, Admit, ExpRemovePreflight, RunRemovePreflight, RemoveFails, Crash, tables
<1>8. ASSUME NEW x \in Exps, Expire(x)
      PROVE  MayRun(e)'
  BY <1>3, <1>8 DEF Expire, tables
<1>9. CASE Admin
  <2>1. ASSUME NEW x \in Exps, ExpArchive(x)
        PROVE  MayRun(e)' \/ locks[e] = None
    BY <1>3, <2>1 DEF ExpArchive, Inv, TypeOK
  <2>2. ASSUME NEW x \in Exps, ExpUnarchive(x)
        PROVE  MayRun(e)'
    BY <1>1, <1>3, <2>2 DEF ExpUnarchive, Inv, TypeOK
  <2>3. CASE ProjectArchive \/ ProjectUnarchive
    BY <1>1, <2>3 DEF ProjectArchive, ProjectUnarchive
  <2>4. CASE \/ ClearStale \/ Status
             \/ \E r \in Ops, flag \in BOOLEAN : RunArchive(r, flag)
    BY <1>3, <2>4 DEF ClearStale, Status, RunArchive, tables
  <2>5. QED
    BY <1>9, <2>1, <2>2, <2>3, <2>4 DEF Admin
<1>10. CASE User
  BY <1>3, <1>10 DEF User, UserEdit, UserCommit, tables
<1>11. CASE UNCHANGED vars
  BY <1>3, <1>11 DEF vars
<1>12. QED
  BY <1>5, <1>6, <1>7, <1>8, <1>9, <1>10, <1>11 DEF Next, OpRemove, ExpRemove

(* An invocation comes to its running part only from within it, or by the  *)
(* check under the lock; free evaluation aside.                            *)
LEMMA RunningMoves ==
    ASSUME Inv, NEW o \in Ops, Own(o), pc'[o] \in Running, ~Free(o)'
    PROVE  /\ job'[o] = job[o]
           /\ pc[o] \in Running \/ (pc[o] = "entering" /\ MayRun(job[o].exp))
<1> USE DEF Running
<1>1. CASE OpStart(o)
  BY <1>1 DEF OpStart, Admit, ExpRemovePreflight, RunRemovePreflight, End, Goto, Inv, TypeOK
<1>2. CASE OpRemove(o) \/ Crash(o) \/ Busy(o) \/ Release(o)
  <2>1. End(o)
    BY <1>2 DEF OpRemove, ExpRemove, RunRemove, RemoveFails, Crash, Busy, Release
  <2>2. QED
    BY <2>1 DEF End, Goto, Inv, TypeOK
<1>3. CASE Acquire(o) \/ Screen(o) \/ Seek(o) \/ Close(o) \/ Abort(o)
  BY <1>3 DEF Acquire, Screen, Seek, Close, Abort, Goto, Inv, TypeOK
<1>4. CASE Decide(o)
  BY <1>4 DEF Decide, Goto, Inv, TypeOK, Free
<1>5. CASE Enter(o) \/ InterruptStale(o)
  BY <1>5 DEF Enter, Recheck, InterruptStale, Goto, Inv, TypeOK, tables
<1>6. CASE CheckScope(o) \/ InsertRunning(o) \/ Stage(o) \/ Settle(o) \/ Record(o)
  BY <1>6 DEF CheckScope, InsertRunning, Stage, Settle, Record, tables
<1>7. CASE Violate(o) \/ \E result \in Finished : Execute(o, result)
  BY <1>7 DEF Violate, Execute
<1>8. QED
  BY <1>1, <1>2, <1>3, <1>4, <1>5, <1>6, <1>7 DEF Own, OpStep

(* While an invocation runs an experiment, its lock keeps the experiment   *)
(* from being closed or archived by others.                                *)
OpenOK == RunsOnlyWhileOpen /\ \A o \in Ops : pc[o] # "removing exp"

(* Every step keeps the experiments that are being run open.               *)
LEMMA NextOpen == ASSUME "exp remove" \notin Commands
                  PROVE  Inv /\ LocksOK /\ OpenOK /\ [Next]_vars => OpenOK'
<1> SUFFICES ASSUME Inv, LocksOK, OpenOK, [Next]_vars, NEW o \in Ops
             PROVE  /\ pc'[o] \in Running /\ ~Free(o)' => MayRun(job[o].exp)'
                    /\ pc'[o] # "removing exp"
  BY DEF OpenOK, RunsOnlyWhileOpen
<1>1. pc'[o] # "removing exp"
  <2>1. CASE ~Own(o)
    BY <2>1, OthersKeepLocals DEF OpenOK
  <2>2. CASE OpStart(o)
    BY <2>2 DEF OpStart, Admit, ExpRemovePreflight, RunRemovePreflight, End, Goto, Inv, TypeOK
  <2>3. CASE OpRemove(o) \/ Crash(o) \/ Busy(o) \/ Release(o)
    <3>1. End(o)
      BY <2>3 DEF OpRemove, ExpRemove, RunRemove, RemoveFails, Crash, Busy, Release
    <3>2. QED
      BY <3>1 DEF End, Goto, Inv, TypeOK
  <2>4. CASE OpStep(o) /\ ~(Busy(o) \/ Release(o))
    BY <2>4
       DEF OpStep, Acquire, Screen, Decide, Seek, Close, Enter, InterruptStale, CheckScope,
           InsertRunning, Stage, Settle, Record, Violate, Execute, Abort, Goto, Inv, TypeOK
  <2>5. QED
    BY <2>1, <2>2, <2>3, <2>4 DEF Own
<1>2. ASSUME pc'[o] \in Running, ~Free(o)'
      PROVE  MayRun(job[o].exp)'
  <2>1. job'[o] = job[o] /\ (pc[o] \in Running \/ (pc[o] = "entering" /\ MayRun(job[o].exp)))
    <3>1. CASE Own(o)
      BY <1>2, <3>1, RunningMoves
    <3>2. CASE ~Own(o)
      BY <1>2, <3>2, OthersKeepLocals
    <3>3. QED
      BY <3>1, <3>2
  <2>2. InCritical(o)
    BY <2>1 DEF InCritical, Critical, RunPC, Running
  <2>3. PICK e \in Exps : e = job[o].exp
    BY <2>1 DEF Running, Inv, LocalsOK
  <2>4. MayRun(e)
    BY <1>2, <2>1, <2>3 DEF OpenOK, RunsOnlyWhileOpen, Free
  <2>5. locks[e] # None /\ locks[e].owner = o
    BY <2>2, <2>3 DEF LocksOK, LockHeld
  <2>6. ASSUME NEW p \in Ops, Close(p), job[p].exp = e
        PROVE  FALSE
    <3>1. InCritical(p) /\ pc'[p] = "releasing"
      BY <2>6 DEF Close, Goto, Inv, TypeOK, InCritical, Critical, SubmitPC
    <3>2. p = o
      BY <2>5, <2>6, <3>1 DEF LocksOK, LockHeld
    <3>3. QED
      BY <1>2, <3>1, <3>2 DEF Running
  <2>7. MayRun(e)'
    BY <2>4, <2>5, <2>6, MayRunStays DEF OpenOK
  <2>8. QED
    BY <2>1, <2>3, <2>7 DEF MayRun, Open
<1>3. QED
  BY <1>1, <1>2

(* As long as no live invocation outlasts its lock and no experiment is    *)
(* removed, what a run or submit checked under the lock stays true until   *)
(* its result is recorded: no archive, unarchive or submit of another      *)
(* process comes between.                                                  *)
THEOREM RunsStayOpen == ASSUME ~SlowOps, "exp remove" \notin Commands
                        PROVE  Spec => []RunsOnlyWhileOpen
<1>1. Init => LocksOK /\ OpenOK
  BY DEF Init, LocksOK, InCritical, Critical, RunPC, SubmitPC, OpenOK, RunsOnlyWhileOpen, Running
<1>2. Inv /\ LocksOK /\ [Next]_vars => LocksOK'
  BY NextLocks
<1>3. Inv /\ LocksOK /\ OpenOK /\ [Next]_vars => OpenOK'
  BY NextOpen
<1>4. OpenOK => RunsOnlyWhileOpen
  BY DEF OpenOK
<1>5. QED
  BY <1>1, <1>2, <1>3, <1>4, Invariance, PTL DEF Spec

-----------------------------------------------------------------------------
(* Who marks runs as interrupted: the commands that look at the whole      *)
(* project, and run and submit in their own experiment.                    *)
LEMMA InterruptSteps ==
    ASSUME Inv, [Next]_vars, Commands \cap {"status", "run archive", "run remove"} = {},
           NEW r \in Ops, ~Writes(r), runs[r] # None, runs'[r] # None,
           runs'[r].status # runs[r].status
    PROVE  \E o \in Ops : (Screen(o) \/ InterruptStale(o)) /\ job[o].exp = runs[r].exp
<1>1. runs'[r] # runs[r]
  OBVIOUS
<1>2. ASSUME NEW o \in Ops, OpStep(o)
      PROVE  (Screen(o) \/ InterruptStale(o)) /\ job[o].exp = runs[r].exp
  <2>1. CASE Screen(o) \/ InterruptStale(o)
    <3>1. runs' = Interrupted({job[o].exp})
      BY <2>1 DEF Screen, InterruptStale, OwnScope
    <3>2. job[o].exp = runs[r].exp
      BY <1>1, <3>1 DEF Interrupted
    <3>3. QED
      BY <2>1, <3>2
  <2>2. CASE Writes(o)
    <3>1. o # r
      BY <2>2
    <3>2. runs'[r] = runs[r]
      BY <2>2, <3>1 DEF Writes, InsertRunning, Record, Violate, Execute, Inv, TypeOK
    <3>3. QED
      BY <1>1, <3>2
  <2>3. CASE ~(Screen(o) \/ InterruptStale(o) \/ Writes(o))
    <3>1. runs' = runs
      BY <1>2, <2>3
         DEF OpStep, Writes, Acquire, Busy, Decide, Seek, Close, Enter, CheckScope, Stage,
             Settle, Abort, Release, tables
    <3>2. QED
      BY <1>1, <3>1
  <2>4. QED
    BY <2>1, <2>2, <2>3
<1>3. ASSUME NEW o \in Ops, OpStart(o) \/ OpRemove(o) \/ Crash(o)
      PROVE  FALSE
  <2>1. runs'[r] = None \/ runs'[r] = runs[r]
    BY <1>3 DEF OpStart, Admit, ExpRemovePreflight, RunRemovePreflight, OpRemove, ExpRemove, RunRemove,
                RemoveFails, Crash, tables, Inv, TypeOK, LocalsOK
  <2>2. QED
    BY <1>1, <2>1
<1>4. ASSUME NEW e \in Exps, Expire(e)
      PROVE  FALSE
  BY <1>1, <1>4 DEF Expire, tables
<1>5. CASE Admin
  BY <1>1, <1>5 DEF Admin, ExpArchive, ExpUnarchive, ProjectArchive, ProjectUnarchive, ClearStale,
                    Status, RunArchive, tables
<1>6. CASE User
  BY <1>1, <1>6 DEF User, UserEdit, UserCommit, tables
<1>7. CASE UNCHANGED vars
  BY <1>1, <1>7 DEF vars
<1>8. QED
  BY <1>2, <1>3, <1>4, <1>5, <1>6, <1>7 DEF Next

(* No step interrupts a run that its invocation is still at work on.       *)
LEMMA NextLive ==
    ASSUME Commands \cap {"status", "run archive", "run remove"} = {}
    PROVE  Inv /\ LocksOK /\ RunsOK /\ LiveRunsNotInterrupted /\ [Next]_vars
           => LiveRunsNotInterrupted'
<1> SUFFICES ASSUME Inv, LocksOK, RunsOK, LiveRunsNotInterrupted, [Next]_vars, NEW r \in Ops,
                    runs'[r] # None, runs'[r].status = "interrupted", InCritical(r)'
             PROVE  FALSE
  BY DEF LiveRunsNotInterrupted
<1>1. CASE Writes(r)
  <2>1. loc[r].commit \in Commits /\ job[r].exp \in Exps /\ InCritical(r)
    BY <1>1 DEF Writes, InsertRunning, Record, Violate, Execute, Inv, TypeOK, LocalsOK, HoldsCommit,
                InCritical, Critical, RunPC
  <2>2. RunningRow(r) \in RunRow /\ RunningRow(r).status = "running"
    BY <2>1 DEF RunningRow, RunRow
  <2>3. runs[r] # None => runs[r] \in RunRow /\ runs[r].status # "interrupted"
    BY <2>1 DEF Inv, TypeOK, LiveRunsNotInterrupted
  <2>4. CASE InsertRunning(r)
    BY <2>2, <2>4 DEF InsertRunning, Inv, TypeOK
  <2>5. CASE Record(r)
    <3>1. \/ runs'[r] = RunningRow(r)
          \/ runs[r] # None /\ runs'[r] = [runs[r] EXCEPT !.commit = loc[r].commit]
      BY <2>5 DEF Record, Inv, TypeOK
    <3>2. QED
      BY <2>2, <2>3, <3>1 DEF RunRow
  <2>6. CASE Violate(r)
    <3>1. \/ runs'[r] = [RunningRow(r) EXCEPT !.status = "error"]
          \/ runs[r] # None /\ runs'[r] = [runs[r] EXCEPT !.status = "error", !.commit = loc[r].commit]
      BY <2>6 DEF Violate, Inv, TypeOK
    <3>2. QED
      BY <2>2, <2>3, <3>1 DEF RunRow
  <2>7. ASSUME NEW result \in Finished, Execute(r, result)
        PROVE  FALSE
    <3>1. runs[r] # None /\ runs'[r] = [runs[r] EXCEPT !.status = result, !.commit = loc[r].commit]
      BY <2>7 DEF Execute, Inv, TypeOK
    <3>2. QED
      BY <2>3, <3>1 DEF RunRow, Finished
  <2>8. QED
    BY <1>1, <2>4, <2>5, <2>6, <2>7 DEF Writes
<1>2. CASE ~Writes(r)
  <2>1. runs[r] # None /\ RunOK(r)
    BY <1>2, RunSteps DEF RunKept, RunsOK
  <2>2. InCritical(r)
    <3>1. pc[r] # "admitted"
      BY <2>1 DEF RunOK, NotInserted
    <3>2. QED
      BY <1>2, <3>1, OwnMoves, OthersKeepLocals DEF InCritical
  <2>3. runs'[r].status # runs[r].status
    BY <2>1, <2>2 DEF LiveRunsNotInterrupted
  <2>4. PICK o \in Ops : (Screen(o) \/ InterruptStale(o)) /\ job[o].exp = runs[r].exp
    BY <1>2, <2>1, <2>3, InterruptSteps
  <2>5. InCritical(o) /\ pc[o] \in NotInserted
    BY <2>4 DEF Screen, InterruptStale, InCritical, Critical, RunPC, SubmitPC, NotInserted
  <2>6. job[o].exp = job[r].exp
    BY <2>1, <2>2, <2>4 DEF RunOK
  <2>7. o = r
    BY <2>2, <2>5, <2>6 DEF LocksOK, LockHeld
  <2>8. QED
    BY <2>1, <2>5, <2>7 DEF RunOK
<1>3. QED
  BY <1>1, <1>2

(* Only runs that dead processes left are marked interrupted, as long as   *)
(* no live invocation outlasts its lock and none of the commands is used   *)
(* that interrupt without one: status, observe runs archive and remove.    *)
THEOREM LiveRunsGoOn ==
    ASSUME ~SlowOps, Commands \cap {"status", "run archive", "run remove"} = {}
    PROVE  Spec => []LiveRunsNotInterrupted
<1>1. Init => LocksOK /\ LiveRunsNotInterrupted
  BY DEF Init, LocksOK, InCritical, Critical, RunPC, SubmitPC, LiveRunsNotInterrupted
<1>2. Inv /\ LocksOK /\ [Next]_vars => LocksOK'
  BY NextLocks
<1>3. Inv /\ LocksOK /\ RunsOK /\ LiveRunsNotInterrupted /\ [Next]_vars => LiveRunsNotInterrupted'
  BY NextLive
<1>4. QED
  BY <1>1, <1>2, <1>3, InitRuns, NextRuns, Invariance, PTL DEF Spec
=============================================================================
