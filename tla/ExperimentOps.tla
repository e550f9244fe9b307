--------------------------- MODULE ExperimentOps ---------------------------
(***************************************************************************)
(* `alab run`, `alab submit` and the lifecycle commands around them, over  *)
(* the state they share: the rows of one project's experiments, runs and   *)
(* submissions, the `locks` table, and each experiment's Git worktree.     *)
(*                                                                         *)
(* Every CLI invocation is an operating-system process of its own.  A      *)
(* SQLite transaction is one action (WAL, `Database.tx`: all or nothing,   *)
(* serializable); a read in a connection of its own and a Git command are  *)
(* actions too.  Processes interleave between any two of them, and die     *)
(* between any two of them.                                                *)
(***************************************************************************)
EXTENDS Naturals, FiniteSets

CONSTANTS
    Exps,          \* experiments of the project, created before the behaviour starts
    FreeExps,      \* those bound to a free-evaluation config (runner and reward "none")
    Ops,           \* CLI invocations; each is used once and its run, if any, has its name
    UserCommits,   \* names for the commits users make by hand
    Base,          \* the baseline commit
    None,          \* SQL NULL, or the absence of a row
    Commands,      \* the commands the environment issues
    SlowOps        \* TRUE: a live invocation may outlast locks.stale_after_ms

Commits == Ops \cup UserCommits \cup {Base}
AllCommands == {"run", "submit", "rerun", "exp remove", "run remove",
                "run archive", "status", "project archive", "exp archive"}
Finished == {"passed", "failed", "error", "timeout"}

VARIABLES
    exps,      \* experiments table: a row, or None once removed
    runs,      \* runs table, by run id
    subs,      \* experiment_submissions, by experiment (idx_submission_exp is unique)
    outputs,   \* the run and experiment that log_streams and artifacts rows refer to
    locks,     \* locks table, by experiment: owner and whether expires_at has passed
    project,   \* projects.status, valid or archived
    head,      \* HEAD of each experiment's worktree
    dirty,     \* what `git status` shows in it: nothing, allowed paths, blocked paths
    tree,      \* the commit graph: parent, and whether the diff from baseline is blocked
    pc,        \* where each invocation stands
    job,       \* its command and its experiment
    loc        \* its locals: commit, created_commit, and the run it will record

vars == <<exps, runs, subs, outputs, locks, project, head, dirty, tree, pc, job, loc>>
tables == <<exps, runs, subs, outputs, project>>
git == <<head, dirty, tree>>

ExpRow == [status : {"open", "closed", "archived"},
           pre : {"open", "closed", None},
           latest : Ops \cup {None}, latestCommit : Commits,
           final : Ops \cup {None}, finalCommit : Commits \cup {None},
           finalRemoved : BOOLEAN]
RunRow == [exp : Exps, commit : Commits, archived : BOOLEAN,
           status : Finished \cup {"running", "interrupted"}]
SubRow == [run : Ops \cup {None}, commit : Commits]
OutputRow == [run : Ops, exp : Exps]
LockRow == [owner : Ops, expired : BOOLEAN]

ASSUME ConstantsAssumption ==
    /\ FreeExps \subseteq Exps
    /\ Commands \subseteq AllCommands
    /\ SlowOps \in BOOLEAN
    /\ Base \notin Ops \cup UserCommits
    /\ Ops \cap UserCommits = {}
ASSUME NoneAssumption ==
    /\ None \notin Exps \cup Commits
    /\ None \notin ExpRow \cup RunRow
    /\ None \notin SubRow \cup LockRow
    /\ None \notin {"open", "closed", "archived"}

(***************************************************************************)
(* Program counters.  Critical ones lie between the acquisition of the     *)
(* run/submit lock and its release.                                        *)
(***************************************************************************)
RunPC == {"entering", "interrupting", "refusing", "checking", "inserting",
          "staging", "settling", "violating", "recording", "executing"}
SubmitPC == {"screening", "deciding", "seeking", "closing"}
Critical == RunPC \cup SubmitPC \cup {"releasing"}
PC == Critical \cup {"idle", "admitted", "removing exp", "removing run", "ended"}

Job == [cmd : {"run", "submit", "rerun", "exp remove", "run remove", "none"},
        exp : Exps \cup {None}]
Loc == [commit : Commits \cup {None}, made : BOOLEAN, run : Ops \cup {None}]
NoLoc == [commit |-> None, made |-> FALSE, run |-> None]
NoJob == [cmd |-> "none", exp |-> None]

NewExp == [status |-> "open", pre |-> None, latest |-> None, latestCommit |-> Base,
           final |-> None, finalCommit |-> None, finalRemoved |-> FALSE]

Init ==
    /\ exps = [e \in Exps |-> NewExp]
    /\ runs = [r \in Ops |-> None]
    /\ subs = [e \in Exps |-> None]
    /\ outputs = {}
    /\ locks = [e \in Exps |-> None]
    /\ project = "valid"
    /\ head = [e \in Exps |-> Base]
    /\ dirty = [e \in Exps |-> "clean"]
    /\ tree = [c \in Commits |-> [parent |-> None, bad |-> FALSE]]
    /\ pc = [o \in Ops |-> "idle"]
    /\ job = [o \in Ops |-> NoJob]
    /\ loc = [o \in Ops |-> NoLoc]

Goto(o, label) == pc' = [pc EXCEPT ![o] = label]

(* The process exits, or is killed: nothing of it is left but its rows.    *)
End(o) ==
    /\ Goto(o, "ended")
    /\ job' = [job EXCEPT ![o] = NoJob]
    /\ loc' = [loc EXCEPT ![o] = NoLoc]

Open(e) == exps[e] # None /\ exps[e].status = "open"
MayRun(e) == Open(e) /\ project # "archived"
Free(o) == job[o].exp \in FreeExps

(* Mutant of Interrupted: without status = 'running' in the WHERE clause.  *)
InterruptsAll(scope) ==
    [r \in Ops |-> IF runs[r] # None /\ runs[r].exp \in scope
                   THEN [runs[r] EXCEPT !.status = "interrupted"]
                   ELSE runs[r]]

(* _interrupt_stale_running_records: every running run of the experiments  *)
(* in scope becomes interrupted; no lock is consulted.                     *)
Interrupted(scope) ==
    [r \in Ops |-> IF runs[r] # None /\ runs[r].status = "running" /\ runs[r].exp \in scope
                   THEN [runs[r] EXCEPT !.status = "interrupted"]
                   ELSE runs[r]]

-----------------------------------------------------------------------------
(* Preflight of run and submit: the state checks made before the lock.     *)
Admit(o, k, e) ==
    /\ pc[o] = "idle"
    /\ k \in Commands \cap {"run", "submit", "rerun"}
    /\ MayRun(e)
    /\ e \in FreeExps => k = "submit"
    /\ job' = [job EXCEPT ![o] = [cmd |-> k, exp |-> e]]
    /\ Goto(o, "admitted")
    /\ UNCHANGED <<tables, locks, git, loc>>

(* Mutants of LockFree: the row is not looked for; the expired one is not  *)
(* deleted first.                                                          *)
LockIgnored(e) == e \in Exps
LockNeverStale(e) == locks[e] = None

(* The lock transaction: an expired row is replaced, any other row is      *)
(* EXPERIMENT_BUSY.                                                        *)
LockFree(e) == locks[e] # None => locks[e].expired

Acquire(o) ==
    LET e == job[o].exp IN
    /\ pc[o] = "admitted"
    /\ LockFree(e)
    /\ locks' = [locks EXCEPT ![e] = [owner |-> o, expired |-> FALSE]]
    /\ Goto(o, IF job[o].cmd = "run" THEN "entering" ELSE "screening")
    /\ UNCHANGED <<tables, git, job, loc>>

Busy(o) ==
    /\ pc[o] = "admitted"
    /\ ~LockFree(job[o].exp)
    /\ End(o)
    /\ UNCHANGED <<tables, locks, git>>

(* Mutant of OwnScope: run and submit pass no exp_id, as status does.      *)
ProjectScope(o) == Exps

(* Under the lock, only the stale runs of the same experiment are touched. *)
OwnScope(o) == {job[o].exp}

(* Submit's first transaction under the lock (its refusals are Abort).     *)
Screen(o) ==
    /\ pc[o] = "screening"
    /\ runs' = Interrupted(OwnScope(o))
    /\ Goto(o, "deciding")
    /\ UNCHANGED <<exps, subs, outputs, locks, project, git, job, loc>>

(* Free evaluation commits directly; a dirty worktree or --rerun needs a   *)
(* run; otherwise a passed run of HEAD is looked for.  Git fails (Abort)   *)
(* where the removal of the experiment took the worktree away.             *)
Decide(o) ==
    LET e == job[o].exp IN
    /\ pc[o] = "deciding"
    /\ exps[e] # None
    /\ \/ /\ Free(o)
          /\ Goto(o, "checking")
          /\ loc' = loc
       \/ /\ ~Free(o)
          /\ dirty[e] # "clean" \/ job[o].cmd = "rerun"
          /\ Goto(o, "entering")
          /\ loc' = loc
       \/ /\ ~Free(o)
          /\ dirty[e] = "clean" /\ job[o].cmd # "rerun"
          /\ Goto(o, "seeking")
          /\ loc' = [loc EXCEPT ![o].commit = head[e]]
    /\ UNCHANGED <<tables, locks, git, job>>

(* Mutant of Reusable: without status = 'passed' in the query.             *)
AnyRun(o) == {r \in Ops : /\ runs[r] # None
                          /\ runs[r].exp = job[o].exp
                          /\ runs[r].commit = loc[o].commit}

(* The newest passed run of that commit: ended_at has a resolution of one  *)
(* second, so which of several is newest is left open.                     *)
Reusable(o) == {r \in Ops : /\ runs[r] # None
                            /\ runs[r].exp = job[o].exp
                            /\ runs[r].commit = loc[o].commit
                            /\ runs[r].status = "passed"}

Seek(o) ==
    /\ pc[o] = "seeking"
    /\ \/ /\ Reusable(o) = {}
          /\ Goto(o, "releasing")
          /\ loc' = loc
       \/ \E r \in Reusable(o) :
            /\ Goto(o, "closing")
            /\ loc' = [loc EXCEPT ![o].run = r]
    /\ UNCHANGED <<tables, locks, git, job>>

(* Mutant of Closable: without the unique index of the submissions.        *)
ClosableAgain(e) == exps[e] # None => exps[e].status # "archived"

(* Submit's last transaction.  The unique index on exp_id refuses a second *)
(* submission, and the CHECK on pre_archive_status refuses to close an     *)
(* archived experiment; the UPDATE of a removed one changes no row.        *)
Closable(e) == subs[e] = None /\ (exps[e] # None => exps[e].status # "archived")

Close(o) ==
    LET e == job[o].exp IN
    /\ pc[o] = "closing"
    /\ IF Closable(e)
       THEN /\ subs' = [subs EXCEPT ![e] = [run |-> loc[o].run, commit |-> loc[o].commit]]
            /\ exps' = IF exps[e] = None THEN exps
                       ELSE [exps EXCEPT ![e].status = "closed",
                                         ![e].final = loc[o].run,
                                         ![e].finalCommit = loc[o].commit]
       ELSE UNCHANGED <<subs, exps>>
    /\ Goto(o, "releasing")
    /\ UNCHANGED <<runs, outputs, project, locks, git, job, loc>>

-----------------------------------------------------------------------------
(* Mutant of Recheck: what cmd_run checked before the lock is trusted.     *)
NoRecheck(e) == exps[e] # None

(* _run_experiment reads its context again, under the lock; the checks on  *)
(* what it read come after the transaction that interrupts stale runs.     *)
Recheck(e) == MayRun(e)

Enter(o) ==
    LET e == job[o].exp IN
    /\ pc[o] = "entering"
    /\ Goto(o, IF exps[e] = None THEN "releasing"
               ELSE IF Recheck(e) THEN "interrupting"
               ELSE "refusing")
    /\ UNCHANGED <<tables, locks, git, job, loc>>

InterruptStale(o) ==
    /\ pc[o] \in {"interrupting", "refusing"}
    /\ runs' = Interrupted(OwnScope(o))
    /\ Goto(o, IF pc[o] = "interrupting" THEN "checking" ELSE "releasing")
    /\ UNCHANGED <<exps, subs, outputs, locks, project, git, job, loc>>

(* Mutable scope before the commit: blocked committed paths are recorded   *)
(* as a violation run (free evaluation just refuses), blocked dirty paths  *)
(* are refused.                                                            *)
CheckScope(o) ==
    LET e == job[o].exp IN
    /\ pc[o] = "checking"
    /\ exps[e] # None
    /\ loc' = [loc EXCEPT ![o].commit = head[e]]
    /\ \/ /\ tree[head[e]].bad
          /\ Goto(o, IF Free(o) THEN "releasing" ELSE "violating")
       \/ /\ ~tree[head[e]].bad
          /\ dirty[e] = "blocked"
          /\ Goto(o, "releasing")
       \/ /\ ~tree[head[e]].bad
          /\ dirty[e] = "allowed"
          /\ Goto(o, IF Free(o) THEN "staging" ELSE "inserting")
       \/ /\ ~tree[head[e]].bad
          /\ dirty[e] = "clean"
          /\ Goto(o, "settling")
    /\ UNCHANGED <<tables, locks, git, job>>

RunningRow(o) == [exp |-> job[o].exp, commit |-> loc[o].commit,
                  archived |-> FALSE, status |-> "running"]

InsertRunning(o) ==
    /\ pc[o] = "inserting"
    /\ runs' = [runs EXCEPT ![o] = RunningRow(o)]
    /\ Goto(o, "staging")
    /\ UNCHANGED <<exps, subs, outputs, locks, project, git, job, loc>>

(* Commit everything the worktree holds.  The diff from the baseline stays *)
(* blocked below a blocked commit, unless the change to blocked paths is   *)
(* one that takes the earlier one back.                                    *)
GitCommit(e, c) ==
    LET below == tree[head[e]].bad IN
    \E bad \in IF dirty[e] = "blocked" THEN (IF below THEN BOOLEAN ELSE {TRUE}) ELSE {below} :
        /\ tree' = [tree EXCEPT ![c] = [parent |-> head[e], bad |-> bad]]
        /\ head' = [head EXCEPT ![e] = c]
        /\ dirty' = [dirty EXCEPT ![e] = "clean"]

(* git add -A and git commit take whatever the worktree holds by then.     *)
Stage(o) ==
    LET e == job[o].exp IN
    /\ pc[o] = "staging"
    /\ exps[e] # None
    /\ dirty[e] # "clean"
    /\ GitCommit(e, o)
    /\ loc' = [loc EXCEPT ![o].made = TRUE]
    /\ Goto(o, "settling")
    /\ UNCHANGED <<tables, locks, job>>

(* git reset --mixed HEAD^ leaves the commit's changes in the worktree.    *)
Rollback(e) ==
    LET above == tree[head[e]].parent IN
    /\ head' = [head EXCEPT ![e] = above]
    /\ \E d \in IF dirty[e] # "blocked" /\ tree[above].bad THEN {"allowed", "blocked"}
                ELSE {"blocked"} :
         dirty' = [dirty EXCEPT ![e] = d]

(* Mutant of Blocked: only what was committed before is looked at.         *)
NotBlocked(e) == tree[head[e]].bad /\ head[e] = Base

(* The commit is whatever HEAD is now; if its diff from the baseline is    *)
(* blocked, it is not run, and an automatic commit is rolled back.         *)
Blocked(e) == tree[head[e]].bad

Settle(o) ==
    LET e == job[o].exp IN
    /\ pc[o] = "settling"
    /\ exps[e] # None
    /\ loc' = [loc EXCEPT ![o].commit = head[e]]
    /\ \/ /\ Blocked(e)
          /\ IF loc[o].made THEN Rollback(e) ELSE UNCHANGED <<head, dirty>>
          /\ Goto(o, IF Free(o) THEN "releasing" ELSE "violating")
       \/ /\ ~Blocked(e)
          /\ UNCHANGED <<head, dirty>>
          /\ Goto(o, IF Free(o) THEN "closing" ELSE "recording")
    /\ UNCHANGED <<tables, locks, tree, job>>

(* The running row is inserted now unless it was before the commit, and    *)
(* then its commit is updated if the row is still there.                   *)
Record(o) ==
    /\ pc[o] = "recording"
    /\ runs' = IF ~loc[o].made THEN [runs EXCEPT ![o] = RunningRow(o)]
               ELSE IF runs[o] = None THEN runs
               ELSE [runs EXCEPT ![o].commit = loc[o].commit]
    /\ Goto(o, "executing")
    /\ UNCHANGED <<exps, subs, outputs, locks, project, git, job, loc>>

(* Mutant of WithLatest: latest_commit is left as it was.                  *)
WithLatestRunOnly(o) ==
    LET e == job[o].exp IN
    IF exps[e] = None THEN exps ELSE [exps EXCEPT ![e].latest = o]

(* UPDATE experiments SET latest_run_id, latest_commit.                    *)
WithLatest(o) ==
    LET e == job[o].exp IN
    IF exps[e] = None THEN exps
    ELSE [exps EXCEPT ![e].latest = o, ![e].latestCommit = loc[o].commit]

(* The runner's result: one transaction writes the status over whatever    *)
(* status the row has, the latest pointers, and log and artifact rows.     *)
Execute(o, result) ==
    /\ pc[o] = "executing"
    /\ runs' = IF runs[o] = None THEN runs
               ELSE [runs EXCEPT ![o].status = result, ![o].commit = loc[o].commit]
    /\ exps' = WithLatest(o)
    /\ outputs' = outputs \cup {[run |-> o, exp |-> job[o].exp]}
    /\ loc' = [loc EXCEPT ![o].run = o]
    /\ Goto(o, IF job[o].cmd # "run" /\ result = "passed" THEN "closing" ELSE "releasing")
    /\ UNCHANGED <<subs, locks, project, git, job>>

(* _record_scope_violation_run: the row is updated, or inserted.           *)
Violate(o) ==
    /\ pc[o] = "violating"
    /\ runs' = [runs EXCEPT ![o] =
                  IF runs[o] = None THEN [RunningRow(o) EXCEPT !.status = "error"]
                  ELSE [runs[o] EXCEPT !.status = "error", !.commit = loc[o].commit]]
    /\ exps' = WithLatest(o)
    /\ Goto(o, "releasing")
    /\ UNCHANGED <<subs, outputs, locks, project, git, job, loc>>

(* Any step may raise instead (Git, runner, SQLITE_BUSY, refused input):   *)
(* the transaction rolls back and `finally` leads to the release.          *)
Abort(o) ==
    /\ pc[o] \in Critical \ {"releasing"}
    /\ Goto(o, "releasing")
    /\ UNCHANGED <<tables, locks, git, job, loc>>

(* Only the owner's row is deleted; a failure to delete is swallowed.      *)
Release(o) ==
    LET e == job[o].exp IN
    /\ pc[o] = "releasing"
    /\ \/ /\ locks[e] # None
          /\ locks[e].owner = o
          /\ locks' = [locks EXCEPT ![e] = None]
       \/ locks' = locks
    /\ End(o)
    /\ UNCHANGED <<tables, git>>

Crash(o) ==
    /\ pc[o] \notin {"idle", "ended"}
    /\ End(o)
    /\ UNCHANGED <<tables, locks, git>>

-----------------------------------------------------------------------------
(* Time: expires_at passes.  It is never extended: no heartbeat is sent.   *)
Expire(e) ==
    /\ locks[e] # None
    /\ ~locks[e].expired
    /\ SlowOps \/ pc[locks[e].owner] = "ended"
    /\ locks' = [locks EXCEPT ![e].expired = TRUE]
    /\ UNCHANGED <<tables, git, pc, job, loc>>

ClearStale ==
    /\ locks' = [e \in Exps |-> IF locks[e] # None /\ locks[e].expired THEN None ELSE locks[e]]
    /\ locks' # locks
    /\ UNCHANGED <<tables, git, pc, job, loc>>

(* Mutant of NotYetArchived: archiving twice is not idempotent.            *)
ArchivedAgain(e) == exps[e] # None

(* An archive is refused by any lock row, expired or not; what is archived *)
(* already stays as it is.                                                 *)
NotYetArchived(e) == exps[e] # None /\ exps[e].status # "archived"

ExpArchive(e) ==
    /\ "exp archive" \in Commands
    /\ NotYetArchived(e)
    /\ locks[e] = None
    /\ exps' = [exps EXCEPT ![e].status = "archived", ![e].pre = exps[e].status]
    /\ UNCHANGED <<runs, subs, outputs, project, locks, git, pc, job, loc>>

(* Mutant of Restored: an unarchived experiment is open.                   *)
RestoredOpen(e) == "open"

Restored(e) == exps[e].pre

ExpUnarchive(e) ==
    /\ exps[e] # None
    /\ exps[e].status = "archived"
    /\ exps' = [exps EXCEPT ![e].status = Restored(e), ![e].pre = None]
    /\ UNCHANGED <<runs, subs, outputs, project, locks, git, pc, job, loc>>

ProjectArchive ==
    /\ "project archive" \in Commands
    /\ project # "archived"
    /\ \A e \in Exps : locks[e] = None
    /\ project' = "archived"
    /\ UNCHANGED <<exps, runs, subs, outputs, locks, git, pc, job, loc>>

ProjectUnarchive ==
    /\ project = "archived"
    /\ project' = "valid"
    /\ UNCHANGED <<exps, runs, subs, outputs, locks, git, pc, job, loc>>

(* `alab status` interrupts the running runs of the whole project.         *)
Status ==
    /\ "status" \in Commands
    /\ runs' = Interrupted(Exps)
    /\ runs' # runs
    /\ UNCHANGED <<exps, subs, outputs, project, locks, git, pc, job, loc>>

(* `alab observe runs archive|unarchive` interrupts first, too.            *)
RunArchive(r, flag) ==
    /\ "run archive" \in Commands
    /\ runs[r] # None
    /\ runs' = [Interrupted(Exps) EXCEPT ![r].archived = flag]
    /\ UNCHANGED <<exps, subs, outputs, project, locks, git, pc, job, loc>>

-----------------------------------------------------------------------------
(* `exp remove`: the blockers are read in one connection, the rows are     *)
(* deleted later in one transaction that reads nothing again.              *)
ExpRemovePreflight(o, e) ==
    /\ pc[o] = "idle"
    /\ "exp remove" \in Commands
    /\ exps[e] # None
    /\ exps[e].status = "archived"
    /\ locks[e] = None
    /\ job' = [job EXCEPT ![o] = [cmd |-> "exp remove", exp |-> e]]
    /\ Goto(o, "removing exp")
    /\ UNCHANGED <<tables, locks, git, loc>>

ExpRemove(o) ==
    LET e == job[o].exp IN
    /\ pc[o] = "removing exp"
    /\ exps' = [exps EXCEPT ![e] = None]
    /\ subs' = [subs EXCEPT ![e] = None]
    /\ runs' = [r \in Ops |-> IF runs[r] # None /\ runs[r].exp = e THEN None ELSE runs[r]]
    /\ outputs' = {x \in outputs : x.exp # e}
    /\ End(o)
    /\ UNCHANGED <<project, locks, git>>

(* `observe runs remove` commits the interruption of stale runs with its   *)
(* preflight, even if it is then refused (a run or an output of it is not  *)
(* archived) or is a dry run; else it goes on to delete the run.           *)
RunRemovePreflight(o, r) ==
    /\ pc[o] = "idle"
    /\ "run remove" \in Commands
    /\ runs[r] # None
    /\ runs' = Interrupted(Exps)
    /\ \/ End(o)
       \/ /\ runs[r].archived
          /\ job' = [job EXCEPT ![o] = [cmd |-> "run remove", exp |-> runs[r].exp]]
          /\ loc' = [loc EXCEPT ![o].run = r]
          /\ Goto(o, "removing run")
    /\ UNCHANGED <<exps, subs, outputs, project, locks, git>>

(* The run to point at when r, the latest, goes: a remaining run of the    *)
(* experiment (the newest by timestamps left open here), else no run and   *)
(* the branch head.                                                        *)
LatestAfter(e, r) ==
    LET rest == {q \in Ops \ {r} : runs[q] # None /\ runs[q].exp = e} IN
    IF exps[e].latest # r THEN {<<exps[e].latest, exps[e].latestCommit>>}
    ELSE IF rest = {} THEN {<<None, head[e]>>}
    ELSE {<<q, runs[q].commit>> : q \in rest}

(* Mutant of FinalGone: the latest run is taken for the final one.         *)
LatestGone(e, r) == exps[e].latest = r

(* Mutant of FinalGone: only where the latest run stays the same.          *)
FinalOnlyGone(e, r) == exps[e].final = r /\ exps[e].latest # r

(* final_run_removed_at is set when the run removed is the final one.      *)
FinalGone(e, r) == exps[e].final = r

(* One transaction: the pointers to the run are recomputed, and the run    *)
(* goes with the rows of its outputs.                                      *)
RunRemove(o) ==
    LET e == job[o].exp
        r == loc[o].run
    IN
    /\ pc[o] = "removing run"
    /\ \/ /\ exps[e] = None
          /\ exps' = exps
       \/ /\ exps[e] # None
          /\ \E p \in LatestAfter(e, r) :
               exps' = [exps EXCEPT ![e].latest = p[1], ![e].latestCommit = p[2],
                                    ![e].finalRemoved = @ \/ FinalGone(e, r)]
    /\ runs' = [runs EXCEPT ![r] = None]
    /\ outputs' = {x \in outputs : x.run # r}
    /\ End(o)
    /\ UNCHANGED <<subs, project, locks, git>>

(* Both may fail in staging or in the transaction and restore what they    *)
(* staged: nothing is changed.                                             *)
RemoveFails(o) ==
    /\ pc[o] \in {"removing exp", "removing run"}
    /\ End(o)
    /\ UNCHANGED <<tables, locks, git>>

-----------------------------------------------------------------------------
(* The user of a worktree edits it, and may commit by hand.                *)
UserEdit(e, d) ==
    /\ exps[e] # None
    /\ dirty[e] # d
    /\ dirty' = [dirty EXCEPT ![e] = d]
    /\ UNCHANGED <<tables, locks, head, tree, pc, job, loc>>

UserCommit(e, c) ==
    /\ exps[e] # None
    /\ dirty[e] # "clean"
    /\ tree[c].parent = None
    /\ GitCommit(e, c)
    /\ UNCHANGED <<tables, locks, pc, job, loc>>

-----------------------------------------------------------------------------
OpStep(o) ==
    \/ Acquire(o) \/ Busy(o) \/ Screen(o) \/ Decide(o) \/ Seek(o) \/ Close(o)
    \/ Enter(o) \/ InterruptStale(o) \/ CheckScope(o) \/ InsertRunning(o)
    \/ Stage(o) \/ Settle(o) \/ Record(o) \/ Violate(o)
    \/ \E result \in Finished : Execute(o, result)
    \/ Abort(o) \/ Release(o)

OpStart(o) ==
    \/ \E k \in Commands, e \in Exps : Admit(o, k, e)
    \/ \E e \in Exps : ExpRemovePreflight(o, e)
    \/ \E r \in Ops : RunRemovePreflight(o, r)

OpRemove(o) == ExpRemove(o) \/ RunRemove(o) \/ RemoveFails(o)

Admin ==
    \/ \E e \in Exps : ExpArchive(e) \/ ExpUnarchive(e)
    \/ ProjectArchive \/ ProjectUnarchive \/ ClearStale \/ Status
    \/ \E r \in Ops, flag \in BOOLEAN : RunArchive(r, flag)

User ==
    \/ \E e \in Exps, d \in {"clean", "allowed", "blocked"} : UserEdit(e, d)
    \/ \E e \in Exps, c \in UserCommits : UserCommit(e, c)

Next ==
    \/ \E o \in Ops : OpStart(o) \/ OpStep(o) \/ OpRemove(o) \/ Crash(o)
    \/ \E e \in Exps : Expire(e)
    \/ Admin
    \/ User

Spec == Init /\ [][Next]_vars

(* A live invocation goes on, as its process is scheduled, and the clock   *)
(* passes every expires_at.                                                *)
FairSpec ==
    /\ Spec
    /\ \A o \in Ops : WF_vars(OpStep(o))
    /\ \A e \in Exps : WF_vars(Expire(e))

-----------------------------------------------------------------------------
TypeOK ==
    /\ exps \in [Exps -> ExpRow \cup {None}]
    /\ runs \in [Ops -> RunRow \cup {None}]
    /\ subs \in [Exps -> SubRow \cup {None}]
    /\ outputs \subseteq OutputRow
    /\ locks \in [Exps -> LockRow \cup {None}]
    /\ project \in {"valid", "archived"}
    /\ head \in [Exps -> Commits]
    /\ dirty \in [Exps -> {"clean", "allowed", "blocked"}]
    /\ tree \in [Commits -> [parent : Commits \cup {None}, bad : BOOLEAN]]
    /\ pc \in [Ops -> PC]
    /\ job \in [Ops -> Job]
    /\ loc \in [Ops -> Loc]

InCritical(o) == pc[o] \in Critical

(* Run and submit of one experiment are serialized by the lock: two        *)
(* invocations are never between acquiring and releasing it.               *)
RunSubmitSerialized ==
    \A o, p \in Ops : InCritical(o) /\ InCritical(p) /\ job[o].exp = job[p].exp => o = p

(* Only the runs that a dead process left behind are marked interrupted:   *)
(* never the run of an invocation that is still at work on it.             *)
LiveRunsNotInterrupted ==
    \A r \in Ops : runs[r] # None /\ runs[r].status = "interrupted" => ~InCritical(r)

Running == {"interrupting", "checking", "inserting", "staging", "settling",
            "violating", "recording", "executing"}

(* From the checks under the lock to the recorded result, the experiment   *)
(* stays open and neither it nor its project is archived: run starts with  *)
(* checks before the lock, and the archives look at the lock only.         *)
RunsOnlyWhileOpen ==
    \A o \in Ops : pc[o] \in Running /\ ~Free(o) => MayRun(job[o].exp)

(* The two latest pointers of an experiment agree: latest_run_id names a   *)
(* recorded run of that experiment, of latest_commit, that has ended.      *)
LatestConsistent ==
    \A e \in Exps : exps[e] # None /\ exps[e].latest # None =>
        LET r == runs[exps[e].latest] IN
        /\ r # None
        /\ r.exp = e
        /\ r.commit = exps[e].latestCommit
        /\ r.status # "running"

Life(e) == IF exps[e] = None THEN "removed"
           ELSE IF exps[e].status = "archived" THEN exps[e].pre ELSE exps[e].status

(* An experiment has a submission exactly when it is closed, archived or   *)
(* not, and the submission and the experiment name the same result:        *)
(* closing twice, over an archive or after an unarchive cannot split them. *)
SubmissionMatchesStatus ==
    \A e \in Exps : exps[e] # None =>
        /\ subs[e] # None <=> Life(e) = "closed"
        /\ subs[e] # None => /\ exps[e].final = subs[e].run
                             /\ exps[e].finalCommit = subs[e].commit

(* The final run of a closed experiment, while its row is there, passed,   *)
(* is a run of that experiment and ran the final commit.                   *)
FinalRunPassed ==
    \A e \in Exps :
        /\ exps[e] # None
        /\ exps[e].final # None
        /\ runs[exps[e].final] # None
        => LET r == runs[exps[e].final] IN
           r.status = "passed" /\ r.exp = e /\ r.commit = exps[e].finalCommit

(* final_run_removed_at is set only on a closed experiment whose final run *)
(* is gone, and the result stays.  The converse fails, and nothing says it *)
(* holds: a run may be removed between its choice and the closing.         *)
FinalRemovalRecorded ==
    \A e \in Exps : exps[e] # None /\ exps[e].finalRemoved =>
        /\ exps[e].final # None
        /\ runs[exps[e].final] = None
        /\ subs[e] # None

(* When the run that an experiment was closed with goes, the transaction   *)
(* that deletes it records that (docs/spec_lifecycle.md:204), whether the  *)
(* submission came before or after the removal began, and no later command *)
(* takes the record back.                                                  *)
FinalRemovalWritten ==
    [][\A e \in Exps : exps[e] # None /\ exps'[e] # None /\ exps[e].final # None =>
          (exps[e].finalRemoved \/ (runs[exps[e].final] # None /\ runs'[exps[e].final] = None)
              => exps'[e].finalRemoved)]_vars

(* No commit with blocked paths is run to a pass or submitted, though the  *)
(* user edits and commits while the command checks, stages and commits.    *)
ScopeHeld ==
    /\ \A r \in Ops : runs[r] # None /\ runs[r].status = "passed" => ~tree[runs[r].commit].bad
    /\ \A e \in Exps : subs[e] # None => ~tree[subs[e].commit].bad

(* The result of a run is written once: a later interruption, violation or *)
(* result of any invocation never changes it, a removal deletes it whole.  *)
ResultsFinal ==
    [][\A r \in Ops : runs[r] # None /\ runs[r].status \in Finished =>
          \/ runs'[r] = None
          \/ /\ runs'[r].status = runs[r].status
             /\ runs'[r].commit = runs[r].commit]_vars

(* exp remove deletes an experiment only while it is archived and has no   *)
(* run or submit lock.                                                     *)
RemovesOnlyIdleExperiments ==
    [][\A e \in Exps : exps[e] # None /\ exps'[e] = None =>
          exps[e].status = "archived" /\ locks[e] = None]_vars

(* The lock of a process that died, or failed to delete its row, blocks    *)
(* the experiment for a bounded time only.                                 *)
LockReclaimable == \A e \in Exps : locks[e] # None ~> LockFree(e)

Shelved(e) == exps[e] # None /\ exps[e].status = "archived"
Result(e) == IF exps[e] = None \/ subs[e] = None THEN None
             ELSE [run |-> exps[e].final, commit |-> exps[e].finalCommit]

Lifecycle == INSTANCE ExperimentLifecycle WITH
    Results <- [run : Ops \cup {None}, commit : Commits],
    life <- [e \in Exps |-> Life(e)],
    shelved <- [e \in Exps |-> Shelved(e)],
    result <- [e \in Exps |-> Result(e)]

(* The commands, interleaved and killed anywhere, implement the lifecycle. *)
ImplementsLifecycle == Lifecycle!Spec
=============================================================================
