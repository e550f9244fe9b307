# ALab: a TLA+ model of its shared state

This directory holds the TLA+ models of ALab, what TLC checks about them and
what TLAPS proves. Source paths are relative to `src/src/alab/` unless they say
otherwise; `PROJECT.json` maps every definition to the lines it stands for and
lists components, runs, mutants, findings, hazards and theorems.

## 1. The system

ALab is a local command-line workbench for experiments by people and agents. A
*project* has a configuration and a Git repository; an *experiment* has a branch
and a worktree that its user edits; `alab run` commits the worktree and
evaluates it; `alab submit` closes the experiment with a final run.

There is no server. **Every invocation is a process of its own**, and all
processes share

- one SQLite database (WAL mode). `Database.tx` (`db.py:258`) is one transaction
  with a deferred `BEGIN`: SQLite makes it serializable, a writer whose snapshot
  is stale or who waits too long gets an error;
- Git repositories and worktrees, read and written by `git` commands;
- files: artifact and log blobs, tokens and markers in worktrees, a trash.

A command is a sequence of transactions, reads in connections of their own, Git
commands and file operations. Processes interleave between any two of these and
can die between any two of them. The only lock is a row in the `locks` table
with an expiry time, taken by `run` and `submit`, per experiment.

### Inventory

| component | state | operations | what is hard, what makes it correct |
|---|---|---|---|
| run and submit (`services.py`) | `experiments`, `runs`, `experiment_submissions`, worktree HEAD and dirt | `cmd_run`, `cmd_submit`, `_run_experiment` | about ten transactions and Git commands in a row with a user program in the middle; one submission per experiment, of a passed run, in scope; pointers that agree |
| run/submit lock (`services.py:960-997`, `project_lifecycle.py:396`) | `locks` | acquire, release, expire, clear-stale | mutual exclusion by a row with an expiry; recovery after a crash |
| stale records (`services.py:1322`) | `runs`, `project_validations`, `projects` | interrupt what is `running` | told from live work by nothing but the caller's scope |
| experiment lifecycle (`experiment_lifecycle.py`) | `experiments` and everything that refers to one | archive, unarchive, remove | a preflight and a later transaction; the status comes back |
| runs, logs, artifacts (`observe.py`) | `runs`, `log_streams`, `artifacts`, blob files | archive, unarchive, remove | pointers to a removed run; blobs shared by content |
| project lifecycle (`project_lifecycle.py`) | `projects`, directories | archive, unarchive, remove, locks | must not overtake a running command |
| configuration and validation (`project_config.py`, `project_validation.py`) | `project_config_versions`, `project_validations`, `projects` | config set/import, env, secrets, validate | read-modify-write over several transactions; a runner inside a write transaction; project status written from an old row |
| project init, experiment create (`services.py`) | all of the above, worktree, token | several steps, some compensated | partial failure, stale configuration |
| worktrees, checkouts, tokens (`experiment_access.py`, `context.py`) | `path_registry`, `credentials`, files in worktrees | remove, restore, revoke, regenerate, checkout | database and files change in separate steps |
| credentials (`auth.py`, `credentials.py`) | `credentials` | init, create, revoke, regenerate | one active root key; a revoked one is refused |
| sources (`sources.py`, `source_import.py`, `services.py:1027`) | `sources`, source refs | import, archive, remove | deduplication read before the push, the row written after |
| trash and maintenance (`removal.py`, `maintenance.py`) | trash directories, `cache_entries` | stage, restore, finalize, prune | files moved before the transaction, deleted after it |
| queries, visibility, ranking (`experiment_query.py`) | none (reads) | visible set, best run | two ways to compute one order |
| annotations, tags, feedback, audit, catalog | rows or files of their own | single-transaction edits | little interplay |
| migrations (`db.py`) | schema version | migrate under a file lock | a crash between two migrations |
| runner and adapters (`runner.py`) | processes, containers, cached environments and images | prepare, launch, wait, terminate, parse | descendants that outlive a timeout; half-made caches; only a measured reward passes |
| CLI, arguments, contracts, rendering, reports, dashboard | none | parse, render, read | pure or read-only |

## 2. Modules and plan

| module | what it models | checked by |
|---|---|---|
| `ExperimentOps`, `ExperimentLifecycle` | run, submit, their lock, stale records and the lifecycle commands on the same rows; the abstract lifecycle they implement | `MCExperimentOps` |
| `ExperimentOps_proofs`, `ExperimentRuns_proofs` | theorems about `ExperimentOps`: types, the lock, the lifecycle; runs, commits and pointers | TLAPS |
| `ProjectValidation` | config versions, validations, active pointers, secrets, `projects.status` | `MCProject`, `MCProjectValidation` |
| `ArtifactStore` | blobs, log files, worktrees and branches as files; capture, removal, trash | `MCProject` |
| `WorktreeAccess` | experiment creation, worktrees, checkouts, tokens, `path_registry`, context repair | `MCCatalogue`, `MCWorktreeAccess` |
| `SourceLibrary` | sources and their refs, default sources, creation from a source | `MCCatalogue`; run alone in *removedefault* |
| `RunRanking` | the best run, computed by three commands | `MCCatalogue` |
| `Collaboration` | visibility of experiments and annotations | `MCProject` |
| `RunnerAttempt` | one call of a runner: setup, caches, processes, timeout, result | `MCProject` |
| `ProjectValidation_proofs`, `ArtifactStore_proofs`, `WorktreeAccess_proofs`, `SourceLibrary_proofs`, `RunnerAttempt_proofs` | theorems about the modules they are named after | TLAPS |
| `Catalogue_proofs` | theorems about `Collaboration` and `RunRanking` | TLAPS |

How they share the state of the program: `ExperimentOps` keeps of
`projects.status` only valid or archived, `ProjectValidation` has all of it and
no runs. `ExperimentOps` has the rows of runs and their outputs,
`ArtifactStore` the files behind these rows. `ExperimentOps` assumes an active
worktree, `WorktreeAccess` says when there is one; the experiments that
`SourceLibrary` and `RunRanking` create are those of `WorktreeAccess`, seen by
their source and config version. The result that `Execute` of `ExperimentOps`
and `Conclude` of `ProjectValidation` choose freely is what `RunnerAttempt`
returns (raised: the command ends there).

Next, in this order:

1. Two more refinements: a blob store without a trash, and a configuration that
   changes in one step, each with its step-by-step proof. Every safety property
   that a passing run checks is a theorem already (section 5).
2. Liveness of `RunnerAttempt` (a local runner ends after its timeout if no
   descendant outside the group holds its pipes) and of `ArtifactStore` (an
   interrupted command leaves only what a later prune takes).
3. `Migration` and the root key of `credentials.py`; the origins of a source.

## 3. ExperimentOps: how it corresponds to the code

One action per transaction, per read in a connection of its own, and per Git
command or group of Git commands that read or write one thing. A process `o` is
a CLI invocation: `pc[o]` says between which two steps it stands, `job[o]` its
command and experiment, `loc[o]` the local variables that later steps use (the
commit, whether it committed, the run to record). An invocation is used once and
its run has its name, as run ids are random and never used twice.

| code | actions |
|---|---|
| `cmd_run`, `cmd_submit` up to the lock | `Admit`, then `Acquire` or `Busy` |
| `cmd_submit` 3546-3556 | `Screen` (interrupts the experiment's stale runs) |
| `cmd_submit` 3557-3603 | `Decide`, `Seek` (the reusable passed run) |
| `_run_experiment` 3234-3248 | `Enter` reads the rows, `InterruptStale` is the transaction, the checks on what was read follow it |
| 3251-3271 | `CheckScope`, `InsertRunning` |
| 3272-3281 | `Stage`: `git add -A` and `git commit` |
| 3282-3304 | `Settle` (HEAD, scope after the commit, rollback), `Violate`, `Record` |
| 3319-3437 | `Execute`: runner and result transaction |
| `_free_submit_commit` | `CheckScope`, `Stage`, `Settle` without rows |
| `cmd_submit` 3604-3632 | `Close` |
| `finally` in both | `Abort` (any step may raise) and `Release` |
| killed process | `Crash`, at any step |
| `_lock_stale_after_ms`, wall clock | `Expire` |
| `project_lifecycle.py`, `experiment_lifecycle.py`, `cmd_status`, `observe.py` | `ClearStale`, `ProjectArchive`, `ProjectUnarchive`, `ExpArchive`, `ExpUnarchive`, `ExpRemovePreflight`/`ExpRemove`, `Status`, `RunArchive`, `RunRemovePreflight`/`RunRemove`, `RemoveFails` |
| the user in the worktree | `UserEdit`, `UserCommit` (external) |

Constraints of the schema that decide an outcome are guards: the unique index on
`experiment_submissions.exp_id` and the CHECK on `pre_archive_status` are
`Closable`. There are no foreign keys, so an UPDATE of a removed row changes
nothing and an INSERT for a removed experiment succeeds; both are modelled.

Abstractions, and why they keep the behaviour:

- A commit is a name with its parent and one bit: does the diff from the
  baseline contain blocked paths. The worktree shows nothing, allowed paths or
  blocked ones. The mutable policy itself (glob patterns) is not looked into.
- Timestamps are gone; where they decide (`ORDER BY ended_at DESC`, one-second
  resolution) the choice is free. A lock row is expired or not.
- Credentials, secrets, refs, free-text limits and full disks are refusals: each
  is an `Abort` or an invocation that never starts.
- The result of the runner is any of passed, failed, error, timeout.
- `worktree_state` stays active and projects are valid or archived; removal of
  worktrees and invalid projects belong to `WorktreeAccess` and `ProjectValidation`.
- Whether a run's logs and artifacts are archived is left open in the preflight
  of the removal of the run, so both outcomes occur. `outputs` keeps which run
  and experiment they refer to.
- An experiment's removal moves its worktree away before the transaction and
  back if it fails; it is one step here, and Git commands that fail in between
  are aborts, which are possible anywhere.
- A Git command that reads and the one that follows are one step where only one
  thing is read (the diff and HEAD). `git reset` follows the check at once.

`SlowOps` says whether a *live* invocation may outlast `locks.stale_after_ms`.
The code sends no heartbeat, so TRUE is the program; FALSE is the program under
the assumption that runs are shorter than the configured time. `Commands`
limits what a run of TLC issues, never what a command does. `AllCommands` is
what the module knows.

**`ExperimentLifecycle`** is what an experiment promises: open or closed or
removed, archived or not, and a result given once. `Lifecycle` in
`ExperimentOps` maps the tables to it: the life of an archived experiment is the
status that will come back, the result is what `experiments` says once a
submission is there.

### ProjectValidation

An invocation reads the project row in a connection of its own (`Select`,
`Import`, `Edit`, into `loc`), writes in one transaction (`InitRows`, `Validate`,
`Apply`) and, when a baseline is due, in a second one after it (`Conclude`,
`InitSkip`, `ConcludeFree`). `Conclude` writes pointers that it takes from the
row the first transaction read. `InterruptStale` is the helper that other
commands run first, and part of `Validate`, `ValArchive` and the removal of a
validation. A config is its runtime (the fields of
`RUNTIME_CONFIG_KEYS`), the rest, and one secret; `Signature` is what
`_runtime_signature` compares. A secret value is named by the invocation that
stored it; whether a raw value equals the stored one (the fingerprint) is left
open. Free runtimes need no baseline. The refusal of a project archive because
of a lock is the action not being taken. One row of validations per invocation
is enough, as no command makes two.

### ArtifactStore

A path is a blob, a log file or a worktree; blobs are named by content, so two
owners may refer to one. `StartCapture`, `CaptureFile` and `RecordOutputs` are a
run or validation that copies its outputs and then inserts their rows;
`RemovePreflight` reads what a removal of an output, an owner or an experiment
takes, `Stage` moves one path, `DeleteBranch` is the ref, `DeleteRows` the
transaction, `Restore` and `AllRestored` its compensation (`phase` says where a
call is, `work` what it holds), `DeleteTrash`,
`DeleteTrashFails`, `Finalized` and `CachePrune` the end of the trash. A
restoration is itself made of renames that may fail, for any path, and so may the
`git update-ref` that puts a branch back. `strict` says that it gives up at the
first such path (it does after a failed transaction; after a failed staging it
swallows the failure and goes on with the others). A command that ends in this way
with something not put back is `unrestored`, one that could not write the cache
entry of what is left in its trash is `unrecorded`: both end with an error, and
nothing in the program returns to their trash.

### WorktreeAccess

`AddWorktree` and `StartAdd` (create, checkout, restore) are the reading,
`GitAdds` the worktree, `BeginAdd` the token, marker and registration written to
files inside the transaction, `CommitAdd` its rows; the same two steps make
`BeginRegenerate` and `CommitRegenerate`. Who has written files holds SQLite's
write lock (`writer`). `StartRemove`, `Stage`, `DeleteBranch`, `DeleteRows` and
`DeleteFails` are the three removals; `StartRepair` and `CommitRepair` context
repair. `AcceptedBy` is the whole check of `detect_context` and
`verify_raw_credential`: directory, marker, token file, credential, path hash.
`Move` and `UserDeletes` are the user's. Tokens and rows are numbered in the
order they are made, as ids are random and never used twice.

### SourceLibrary, RunRanking, Collaboration, RunnerAttempt

`SourceLibrary` has one action per Git command and per transaction of import,
archive, unarchive, remove and experiment creation; `held` is what a process
read. `lost` and `stale` are history variables: refs that a killed removal
deleted, and whether an archive was decided on an older config version.
`NewVersion` adds a config version with its default source, spelt as the ref or
as the id of the source; `byId` are the versions with an id. `_source_for_ref`
takes either, `source archive` and the blockers of `source remove` compare refs.

`RunRanking` states how runs come to be in `runs` and then computes the best one
three times: `ListBest` (window functions of SQL, for list and search),
`BestFirst` (exp best) and `ShowBest` (three stable sorts in Python, for show and
`--from-exp best`). Each is a set, for the order that ties leave open.
A run that did not pass has no reward to compare. Time has a resolution of one
second.

`Collaboration` has the visibility policies as they are stored and intersected,
annotations with target and scope, and the predicates of list, show, edit and
search, each translated from its own code (Python, SQL clauses, LIKE patterns).
An annotation's body stands for its revisions, and archived experiments are left
out. The insertion of an annotation is a second step after its target was
resolved (`ResolveTarget`, `InsertNote`).

`RunnerAttempt` is `run_configured_runner` for the five runner types. Two
processes stand for the program and its descendants; a descendant leaves the
group, closes its pipes or ignores SIGTERM by choice of its kind. `Drained` is
when `communicate()` returns. The outcome functions say what becomes of exit
code and output in each runner, and where an exception escapes (*raised*).
A leader that was sent SIGTERM may still start a process in the two seconds of
grace (`late`), and a docker client that dies leaves its container (`LeaderExits`).
`CreateVenv` and `InstallDependencies` are the cached Python environment,
`BuildImage`, `LaunchNamed` and `LaunchBuilt` the images, which are found by their
tag and by nothing else. `Inputs` is what Docker gets: what the submission has of its own, a file below the top of the context,
and whether `.dockerignore` has a name that matches it by the rules of
`.gitignore`; `Hashed` is what `_load_dockerignore` leaves of it for the key.

## 4. What the runs check

`MCExperimentOps` instantiates `ExperimentOps` and gives the symmetry of the
invocations, used where no liveness is checked.

**prompt** (pass): 2 experiments, one of them free-evaluation, 2 invocations, run,
submit and project archive, `SlowOps` FALSE, crashes anywhere, `FairSpec`.
- `RunSubmitSerialized`: two processes are never between lock and release of one
  experiment.
- `LiveRunsNotInterrupted`: no run is marked interrupted while its process works.
- `RunsOnlyWhileOpen`: from the checks under the lock to the result, experiment
  and project stay open, though archives look at nothing but the lock.
- `LatestConsistent`: the two latest pointers name one ended run of that
  experiment, and its commit.
- `LockReclaimable`: a lock is released or expires in the end.

**slow** (pass): 1 experiment, 2 invocations, 1 commit by hand, submit with
rerun, archive, remove, `SlowOps` TRUE: both may be in their sections at once.
- `TypeOK`; `SubmissionMatchesStatus`: submission and status agree, archived or
  not, and name the same result; `ScopeHeld`: no commit with blocked paths
  passes or is submitted; `ResultsFinal`: a result is written once;
  `ImplementsLifecycle`: refinement of the abstract lifecycle.

**remove** (pass): 1 experiment, 3 invocations that submit, rerun or remove runs,
with status and run archives.
- `FinalRunPassed`: the final run, while there, passed and ran the final commit.
- `FinalRemovalRecorded`: `final_run_removed_at` only on a closed experiment
  whose final run is gone. `FinalRemovalWritten`, on steps: whoever takes the
  final run of a closed experiment away writes that down in the same step. (A run
  that was removed between its choice and the closing is named by the experiment
  and not recorded as removed; no document speaks of that.)

The other seven modules describe parts of the program that share no state here, so
two runs take several of them at a time: `MCProject` and `MCCatalogue` have a
variable `component` that the first step sets to the one that moves, for their
interleavings would show nothing. In both, `TypeOK` and its likes are the type
invariants, with the CHECKs of the schema.

**project** (pass): `ProjectValidation`, `ArtifactStore`, `Collaboration` and
`RunnerAttempt`.
- *Validations*: 3 invocations, a free and an evaluated runtime, 2 values of the
  other fields; every command of the module, interruptions and crashes. Each
  invocation is one command, so three of them are, for example, an init, a change
  and a validation that overlap, with archives, unarchives and interruptions as
  often as wanted between them. `VersionsInOrder`: commands that read the same
  latest version still number theirs in order; `RunningReconcilable`: a version
  waits only while a validation is recorded by which it is found; `ValidHasActive`
  and `ActiveValidationPassed`: a valid project has an active version, and the
  active validation, while its row is there (run *kept*), passed and is of that
  version or an earlier one; `ReferencedSecretsKept`: secret gc keeps what any
  version refers to.
- *Artifacts*: 3 calls, 1 experiment, 2 contents. Two removals and a capture, or a
  removal and two captures, are what sharing takes. `BytesKept`: a row's bytes are
  in the store or in a trash; `ExperimentIntact`: the worktree and branch of an
  experiment with a row are there, or with a removal of it that goes on, was
  killed or could not put them back, and no prune destroys them;
  `TrashRecorded`: what a removal leaves in its trash is in `cache_entries`, unless
  it ended with an error about putting back or about recording. (The cache entry
  of a path is keyed by its removal and active keys are unique: of two paths that
  could not be deleted the second has no entry, the command ends with an error and
  `cache prune`, the cleanup path by `docs/spec_lifecycle.md:43`, never finds it.)
- *Visibility*: 2 experiments, 1 annotation, the listed set {x2}, every policy.
  `VisibleWithinBounds`, `ListedIsShown`, `SearchShowsNoMore`: what a token sees.
- *Runners*: 2 attempts of any runners; one leaves caches, one finds them.
  `SurvivorsExplained`, `PassedIsMeasured`: what may outlive a runner, and what
  passed means. No property speaks of what is in an image: `Hashed` says which files
  that Docker copies the key leaves out (`runner.py:656` reads `.dockerignore` by
  the rules of `.gitignore`; `docs/spec_runners_adapters.md:160` asks for
  Docker's), and a property would repeat it.

**catalogue** (pass): `SourceLibrary`, `WorktreeAccess` and `RunRanking`.
- *Sources*: 2 processes, 3 sources of 2 trees, 1 experiment, 2 config versions.
  `RefKept`, `OneActivePerTree`: sources and refs; `RefDefaultsExist`,
  `LatestRefDefaultActive`: default sources that are named by their ref (run
  *removedefault* for the others).
- *Worktrees*: 2 processes, each running one command after another, 1 experiment, 2
  directories, at most 3 tokens, 2 rows of `path_registry` and 1 fault (a crash, a
  failed transaction, a move or a deletion). Two directories are what a restore
  elsewhere or a move needs, three tokens a creation and two renewals.
  `RemovedIsRefused`: no directory is accepted as a worktree that was removed;
  `ActiveWorktreeRegistered`: an active worktree has its active row, although a
  removal that read earlier may come after a restore; `TokenFileAgrees`: without
  faults a directory whose row is where it was added (the worktree's or a
  checkout's) holds its row's token or one that is being written.
- *Rankings*: 2 rewards, 2 times, 2 config versions, 3 runs: a tie needs two runs,
  and a third to be ordered between them. `RankingsAgree`, `BestIsGlobal`: three
  ways, one answer.

Seven runs show where the program does not do what its documents say:

- **serialized**: with `SlowOps` TRUE, a second run replaces the expired lock of a
  live one and both work in one worktree. `docs/spec_storage_auth_context.md:86`
  says the path is serialized by the lock table.
- **status**: `alab status` (and three `observe runs` commands) interrupts the
  running run of a live process; `docs/progress_log.md:890` says the helper is
  for rows left behind by interrupted processes. A result later overwrites it.
- **removebusy**: `exp remove` reads its blockers, then deletes in a transaction
  that reads nothing: an unarchive and a run in between are deleted too.
  `docs/spec_lifecycle.md:129` allows removal only of an archived experiment
  without a lock.
- **metadata**: a change of other fields on top of a runtime whose baseline failed
  becomes the active version, with the validation of another runtime;
  `docs/spec_storage_auth_context.md:1001` says it does not advance.
- **repair**: `context repair` registers a moved worktree at its new path, where its
  token, bound to the old path, is refused; the document (line 1069) names
  repair as the way to move one.
- **kept**: `validation archive` looks for the active validation in the project row
  it read before its transaction; the validation it is about may pass in between,
  and is archived as the active one. `docs/spec_lifecycle.md:207` says it cannot be.
- **removedefault**: a default source that is named by its id is archived, and then
  removed, under its config versions; `docs/spec_lifecycle.md:103` and
  `docs/spec_project_source_experiment.md:355` say neither happens.

Symmetry is used in the safety runs for invocations, and in *catalogue* and
*repair* for paths and the sources other than the first; the constants it permutes
appear in no definition by name. Components of one run may share model values for
their processes, which keeps the permutations few. Deadlock is not checked there:
an invocation ends, and bounds stop the rest.

Why the bounds of the `ExperimentOps` runs are enough: every conflict in the code is between two processes
on one experiment, or a process and a project-wide command; a third process
matters only where a run must be made, submitted and removed by different
commands (*remove*), and a second experiment only for the scope of
interruptions and for the free-evaluation path (*prompt*). No variable is a
counter, so there is no other bound. *slow* and *remove* leave out part of the
commands to stay small; between them the passing runs take every action.
Deadlock is checked in *prompt*: the user can always edit, so it cannot occur
there; it is off elsewhere, where all invocations may be used up.

Two constants hold a class of behaviours back, since the code has no answer to it.
`Concurrent` FALSE (*project*): outputs are not captured while a removal is under
way; TRUE, a blob is moved to the trash on references read before another run
recorded it (`experiment_lifecycle.py:170`). `RepairMeetsRemoval` FALSE
(*catalogue*): context repair does not overlap a removal of the experiment of its
marker or of the row it has read, or it registers what the removal took; of the
properties of the worktrees only `RemovedIsRefused` needs that (section 5). `SlowOps` is the third, above. Properties
under them are claims about the program used in that way.

Fairness (run *prompt* only; the other modules check safety): `WF(OpStep(o))`, as the operating system schedules a live process and
each of its steps is a command that returns (Git and the runner have timeouts or
end; one that never ends is a crash to everyone else, and `Crash` is not fair);
`WF(Expire(e))`, as the clock passes `expires_at`. Nothing is assumed of users
or administrators, and none of `clear-stale`.

## 5. What is proved

`ExperimentOps_proofs` proves, for any experiments, invocations, hand-made
commits and subset of the commands, from `ConstantsAssumption` and
`NoneAssumption` (which TLC evaluates in every run):

- **`Invariance`**: `Spec => []Inv`. `Inv` is `TypeOK` and what makes it
  inductive: `LocalsOK` (a process at work has an experiment, and a commit or a
  run wherever a later step writes it to a table), `RowsOK` (the CHECK: archived
  exactly if a previous status is kept, or an unarchive would restore NULL),
  `TreeOK` (a blocked commit has a parent, or a rollback would leave no HEAD).
  One lemma per action.
- **`TypeCorrect`**: `TypeOK` follows.
- **`Serialized`**: if no invocation is slow, `RunSubmitSerialized`. It is not
  inductive: two processes exclude each other because each owns the one row of
  their experiment, and that row is not expired because its owner has not
  ended. `LocksOK` says so, and `Inv` gives the types it needs.
- **`SubmissionsMatch`** and **`Refinement`**: each step is a `LifecycleStep`,
  which says at once what happens to the rows of each experiment in the mapped
  variables: a submission, an archive, a removal, or nothing that the abstract
  lifecycle sees. `Close` is the hard case: without the unique index or the
  CHECK it would be none of these.

`ExperimentRuns_proofs` goes on from `Inv`. Each part strengthens it by what one
property needs:

- **`ResultsAreFinal`** (the action property `ResultsFinal`), by `RunsOK`: a run
  has no row before its own invocation inserts it, and no result before that
  invocation writes it, so no second result can come. `RunKept` says what anyone
  else may do to a row.
- **`ScopeIsHeld`**, by `MadeOK`: a commit that an invocation made is what it
  staged on what it had checked, or is checked again before its result counts.
- **`FinalRunsPassed`** and **`FinalRemovalIsRecorded`**, by `FinalOK`: from the
  moment a submit holds a run, that run passed on that commit or is gone; once
  gone it never has a row again.
- **`FinalRemovalIsWritten`** (the action property `FinalRemovalWritten`), by
  `RemovalsOK`: a removal of a run keeps the experiment that it read with the run,
  so it is the final run's own experiment that is marked. The lemma `RowsGone` says
  that only `RunRemove` takes a run away from an experiment that stays.
- **`LatestRunsAgree`**, by `LatestOK`, if single runs are not removed: a live run
  that another command interrupted may be archived and removed, and its
  invocation then points at a row that is gone (the hazard at `observe.py:936`).
  It holds with slow invocations, too.
- **`RunsStayOpen`**, by `OpenOK` on top of `LocksOK`: an archive looks at the
  lock, and the lock is held from the checks to the result. Hypotheses: no
  invocation is slow, or the lock protects nothing (run *serialized*); and no
  experiment is removed, or the removal deletes what was unarchived in between
  (run *removebusy*).
- **`LiveRunsGoOn`**: no invocation is slow, and none of `status`, `run archive`
  and `run remove` is used, which interrupt without a lock (run *status*).

The hypotheses on `Commands` are those under which the runs check the
properties; outside them TLC has counterexamples, three of them listed findings.

Checked by TLC only: `LockReclaimable` (liveness under fairness is out of the
prover's reach).

`ProjectValidation_proofs` proves, for any invocations, runtimes and values, from
its `ConstantsAssumption`, without further hypothesis:

- **`Invariance`**: `Inv` is `Types`, `ProjectOK` (the versions are as many as the
  latest number says; a project without versions has no pointers) and
  `LocalsOK` (what an invocation carries from its first transaction to its
  second: which version it validates, and that its validation is its own).
  **`TypeCorrect`** and **`NumberedInOrder`** follow.
- **`SecretsKept`**: a secret that a version refers to is stored.
- **`WaitsForARunning`**, by `TargetsOK`: who removes a validation has seen that it
  does not run, and no one starts it again.
- **`ValidIsActive`** and **`ActivePassed`**, by `PairsOK` and `ValidOK`: every pair
  of version and validation that is active, or that an invocation has read and
  may write back, has a validation that passed if its row is there, of that version
  or of an earlier one; in the second case the version left runtime and secret of
  the one before it alone. (Only of that one: over several versions it is false,
  run *metadata*.) `PairOK` stays true of a pair as versions are appended, which
  is why an old pair may be written back.

`ArtifactStore_proofs` proves, for any invocations, experiments and files, from
`StoreConstants`, if outputs are not captured while a removal is going on
(`Concurrent` FALSE; otherwise `BytesKept` is false, see section 6):

- **`Invariance`**: `Inv` says what an invocation may take (`MayTake`: files that
  only rows of its target refer to), that a path under removal is in one place
  only (`OneCopy`, so a restoration never meets it), that only a removal whose
  rows are gone leaves cache entries (`EntriesLate`, so a prune takes nothing a
  removal could still put back), and where the bytes of a row (`BytesOK`), a
  worktree (`TreesOK`) and a branch (`BranchesOK`) are. Restorations may fail at
  any path and at the branch. TLC checked all of it on run *project*'s instance
  before it was proved.
- **`TypeCorrect`** (`StoreTypeOK`, with the references between rows), **`BytesStayKept`**,
  **`ExperimentsIntact`** and **`TrashIsRecorded`** follow. `ExperimentIntact`
  carries the hypothesis in its statement: with `Concurrent`, a blob that was
  captured again stops a restoration before the worktree's turn.

`SourceLibrary_proofs` proves, for any processes, sources, trees and bounds:

- **`Invariance`**: `SourceTypeOK`, `HeldOK` and `InsertsApart` (an import has pushed
  a ref that nobody else has and that has no row yet; a removal holds a source
  that had a row), `VersionsOK`. **`TypeCorrect`** follows.
- **`RefDefaultsAlwaysExist`**, **`OneActive`**, **`LatestRefDefault`** and
  **`RefsKept`**: the four properties, each by what a step may do to sources and
  versions. The first and the third are about defaults named by their ref.

`WorktreeAccess_proofs` proves, for any processes, experiments, directories and
bounds, from `ConstantsAssumption`:

- **`Invariance`**: `Inv` is `TypeOK` and what an invocation may rely on although it
  read before its transaction: rows are numbered (`RowsOK`; the lemma `RowCount`
  says that a new row's number is new), what stands in a directory or in the
  trash is marked or empty (`DirsOK`), an invocation keeps what it works on
  (`LocOK`), and the row it has read is found again with its experiment and mode
  (`RowOK`). **`TypeCorrect`** and **`ActiveRegistered`** follow, whether or not
  repairs and removals overlap.
- **`RemovedRefused`**, if they do not (`RepairMeetsRemoval` FALSE): by `RepairsApart`
  the row that a repair has read is still active, so it brings none back, and by
  `NoneRegistered` a removed experiment has no active row for a worktree but one
  an administrator's repair made.
- **`TokenFilesAgree`**, without that hypothesis, from `TokenInv`: the write lock is
  held by who commits (`WriterOK`), tokens and token files are none ahead of the
  counter, a directory has one active row (`OnePerPath`), and the token being
  written is in one directory, no credential yet, and its row still there
  (`BeingWritten`). TLC checked `TokenInv` on run *catalogue*'s instance first.

The attempt to prove an earlier, wider `TokenFileAgrees`, of every active worktree
row, failed for a good reason: it is false on a larger instance than *catalogue*'s.
With three processes and two directories, five tokens and five rows, a behaviour
of 43 steps without a fault ends in a row whose token is not the one in its
directory. A stale checkout removal and a late restore leave an experiment with
two worktree directories; a repair that has read the marker overlaps a
regeneration and writes the older marker back beside the newer token file; a
removal takes the other directory, and an administrator's repair then adds a row
for the marker's token. Repair goes by the marker and never compares it with
the token file (`services.py` 2623-2695), so nothing can be promised of a row
that a repair has added, moved or reactivated. `Row.by` records that, and the
property now says it; in exchange it also speaks of checkouts.

`Catalogue_proofs` proves, for any experiments, **`VisibilityBounded`** and
**`SearchIsBounded`** (by `BoundsOK`: what an experiment was granted admits exactly
what every policy tried admits; the lemma `IntersectionAdmits` is the specification
of `_intersect_visibility`), and **`ListsAgree`**, which holds in every state. Of
`RunRanking` it proves **`BestRunsAgree`** and **`BestOfAll`** (`RankingsAgree` and
`BestIsGlobal`), for any runs, rewards and config versions. Both compare first
rows of finite sets; that such a set has one is the lemma `FirstExists`, from the
well-founded order of finite sets in `FiniteSetTheorems` (take a row whose set of
earlier rows has no strict subset of its kind: that set is empty), so no
induction of its own is needed.

`RunnerAttempt_proofs` proves, for any number of calls, from `RunnerConstants`:

- **`RunnerInvariance`**: `RunnerSpec => []RunnerInv`, one lemma per action.
  `RunnerInv` is the properties below and what they need to be inductive:
  `NothingStarted` (before a launch there is no process, container or exit
  code), `Belongings` (which runners have containers, children, and children in
  a group of their own), `Waiting` (an exited leader has its code, and no
  container if that is 0; after SIGTERM only children that left the group, ignore
  it or were started after it live).
- **`RunnerTyped`**, **`RunnerSurvivors`**, **`RunnerMeasures`**:
  `RunnerTypeOK`, `SurvivorsExplained` and `PassedIsMeasured` follow. The lemma
  `OutcomeSound` goes through the five ways to read a result, once.

What `RunnerAttempt` bounds stays bounded in the proofs: one child per process,
one file below the top of the context, three exit codes. These sets are definitions that
stand for what a runner tells apart, not constants.

Every invariant and action property of the passing runs is a theorem. Model-checked
only: `LockReclaimable`, as said above, and the refutations.

## 6. What is not modelled

Planned (section 2): migrations, the root key's init and regeneration, the
origins a deduplicated import adds to a source, and the overlaps that
`Concurrent` and `RepairMeetsRemoval` hold back.

For good: argument parsing, validation of values, copying and hashing of trees,
redaction, rendering, reports and the dashboard (pure, or read-only); backups,
feedback records, tags, audit rows and the catalog of adapters (rows or files of
their own, edited in one step, that nothing else reads); Harbor and
SkyDiscover task files and container settings (data that a runner passes on).
Clocks are gone: where one-second timestamps decide, the choice is free.
