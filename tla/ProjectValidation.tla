------------------------- MODULE ProjectValidation -------------------------
(***************************************************************************)
(* The configuration versions of one project, the validations of their     *)
(* runtime (baselines), the secrets they refer to, and the pointer to the  *)
(* active version that experiments are created from.                       *)
(*                                                                         *)
(* A command reads the project row in a connection of its own, records its *)
(* intention in one transaction, evaluates the baseline, and writes the    *)
(* outcome in another, from what the first one read.  No lock covers the   *)
(* time in between.  Every transaction is one action; a process may end,   *)
(* killed or refused, between any two.                                     *)
(***************************************************************************)
EXTENDS Naturals, Sequences, FiniteSets

CONSTANTS
    Ops,           \* CLI invocations; a validation or secret has the name of its creator
    Runtimes,      \* values of the fields that affect the evaluation
    FreeRuntimes,  \* those whose runner and reward are "none"
    Metas,         \* values of the other fields
    None           \* SQL NULL, or the absence of a row

VARIABLES
    project,      \* the projects row
    versions,     \* project_config_versions, by version
    validations,  \* project_validations, by id
    secrets,      \* ids in secret_values
    pc,           \* where each invocation stands
    loc           \* its locals

vars == <<project, versions, validations, secrets, pc, loc>>
tables == <<project, versions, validations, secrets>>

Proven == {"passed", "not_required"}
Outcome == {"passed", "failed"}        \* failed: or error, or timeout
Config == [runtime : Runtimes, meta : Metas, secret : Ops \cup {None}]
Request == [runtime : Runtimes, meta : Metas,
            secret : Ops \cup {None, "raw", "retain"}]
ProjectRow == [status : {"absent", "valid", "invalid", "archived", "removed"},
               pre : {"valid", "invalid", None},
               latest : Nat, active : Nat, activeVal : Ops \cup {None}]
VersionRow == [config : Config, inherited : Ops \cup {None},
               status : Outcome \cup {"running", "skipped", "inherited",
                                      "interrupted", "not_required"}]
ValidationRow == [version : Nat \ {0}, archived : BOOLEAN,
                  status : Outcome \cup {"running", "skipped", "interrupted",
                                         "not_required"}]
PC == {"idle", "selecting", "applying", "skipping", "concluding",
       "concluding free", "removing validation", "removing project", "ended"}
Loc == [want : Request \cup {None}, skip : BOOLEAN, version : Nat, active : Nat,
        activeVal : Ops \cup {None}, target : Ops \cup {None}]
NoLoc == [want |-> None, skip |-> FALSE, version |-> 0, active |-> 0,
          activeVal |-> None, target |-> None]

ASSUME ConstantsAssumption ==
    /\ FreeRuntimes \subseteq Runtimes
    /\ None \notin Ops /\ Ops \cap {"raw", "retain"} = {}
    /\ None \notin ValidationRow \cup Request \cup {"valid", "invalid", "raw", "retain"}

Init ==
    /\ project = [status |-> "absent", pre |-> None, latest |-> 0, active |-> 0,
                  activeVal |-> None]
    /\ versions = <<>>
    /\ validations = [w \in Ops |-> None]
    /\ secrets = {}
    /\ pc = [o \in Ops |-> "idle"]
    /\ loc = [o \in Ops |-> NoLoc]

Goto(o, label) == pc' = [pc EXCEPT ![o] = label]
End(o) == Goto(o, "ended") /\ loc' = [loc EXCEPT ![o] = NoLoc]

Exists == project.status \notin {"absent", "removed"}
Free(config) == config.runtime \in FreeRuntimes

(* CHECK of projects: archived exactly if there is a status to go back to. *)
Legal(row) == (row.status = "archived") <=> (row.pre # None)

(* What a baseline proves: the part of a config that reaches the runner.   *)
Signature(config) == <<config.runtime, config.secret>>

(***************************************************************************)
(* Interruption of stale running records, done first by validate, by the   *)
(* validation commands and by run, submit, status and observe.  It cannot  *)
(* tell a live process's validation from a dead one's.                     *)
(***************************************************************************)
Running == {w \in Ops : validations[w] # None /\ validations[w].status = "running"}
RunningVersions == {validations[w].version : w \in Running}

InterruptedValidations ==
    [w \in Ops |-> IF w \in Running THEN [validations[w] EXCEPT !.status = "interrupted"]
                   ELSE validations[w]]

(* Mutant of InterruptedVersions: the versions keep waiting.               *)
VersionsUntouched == versions

InterruptedVersions ==
    [v \in DOMAIN versions |->
        IF v \in RunningVersions /\ versions[v].status = "running"
        THEN [versions[v] EXCEPT !.status = "interrupted"] ELSE versions[v]]

(* On an archived project this row is illegal and the transaction fails.   *)
InterruptedProject ==
    IF project.latest \in RunningVersions THEN [project EXCEPT !.status = "invalid"]
    ELSE project

InterruptStale ==
    /\ Exists /\ Legal(InterruptedProject)
    /\ validations' = InterruptedValidations
    /\ versions' = InterruptedVersions
    /\ project' = InterruptedProject
    /\ UNCHANGED <<secrets, pc, loc>>

(***************************************************************************)
(* project init: the rows of the project, version 1 and its validation;    *)
(* then the baseline, unless it is free or skipped.                        *)
(***************************************************************************)
InitRows(o, config, skip) ==
    LET status == IF Free(config) THEN "not_required" ELSE "running" IN
    /\ pc[o] = "idle" /\ project.status = "absent"
    /\ config.secret \in {o, None}
    /\ project' = [status |-> IF Free(config) THEN "valid" ELSE "invalid",
                   pre |-> None, latest |-> 1,
                   active |-> IF Free(config) THEN 1 ELSE 0,
                   activeVal |-> IF Free(config) THEN o ELSE None]
    /\ versions' = <<[config |-> config, status |-> status, inherited |-> None]>>
    /\ validations' = [validations EXCEPT ![o] =
                          [version |-> 1, status |-> status, archived |-> FALSE]]
    /\ secrets' = secrets \cup ({config.secret} \ {None})
    /\ loc' = [loc EXCEPT ![o].version = 1]
    /\ Goto(o, IF Free(config) THEN "ended" ELSE IF skip THEN "skipping" ELSE "concluding")

InitSkip(o) ==
    /\ pc[o] = "skipping"
    /\ validations' = [validations EXCEPT ![o] =
                          IF @ = None THEN None ELSE [@ EXCEPT !.status = "skipped"]]
    /\ versions' = [v \in DOMAIN versions |->
                      IF v = 1 THEN [versions[v] EXCEPT !.status = "skipped"] ELSE versions[v]]
    /\ End(o) /\ UNCHANGED <<project, secrets>>

(***************************************************************************)
(* Every other command starts by reading the project row (and, to edit it, *)
(* the config of the version it names) in a connection of its own.         *)
(***************************************************************************)
AdminRead(o, label, want, skip) ==
    /\ pc[o] = "idle" /\ Exists
    /\ loc' = [loc EXCEPT ![o] = [NoLoc EXCEPT !.want = want, !.skip = skip,
                                     !.version = project.latest,
                                     !.activeVal = project.activeVal]]
    /\ Goto(o, label) /\ UNCHANGED tables

Select(o) == AdminRead(o, "selecting", None, FALSE)

(* config import: whatever the file says; a secret is raw, retained or not there. *)
Import(o) ==
    \E want \in [runtime : Runtimes, meta : Metas, secret : {None, "raw", "retain"}],
       skip \in BOOLEAN : AdminRead(o, "applying", want, skip)

(* config set, env and secret: the base config with one field changed.     *)
EnvEdits(base) == {[base EXCEPT !.runtime = r] : r \in Runtimes}
FieldEdits(base) == EnvEdits(base) \cup {[base EXCEPT !.meta = m] : m \in Metas}
SecretSet(base) == [base EXCEPT !.secret = "raw"]
SecretUnset(base) == [base EXCEPT !.secret = None]

Edit(o) ==
    /\ Exists
    /\ LET base == versions[project.latest].config IN
       \E want \in FieldEdits(base) \cup {SecretSet(base), SecretUnset(base)}, skip \in BOOLEAN :
           AdminRead(o, "applying", want, skip)

(***************************************************************************)
(* project validate: the row of the validation, then the baseline.         *)
(***************************************************************************)
Validate(o) ==
    LET v == project.latest
        free == Free(versions[v].config)
        status == IF free THEN "not_required" ELSE "running"
    IN
    /\ pc[o] = "selecting" /\ Exists /\ Legal(InterruptedProject)
    /\ project' = InterruptedProject
    /\ validations' = [InterruptedValidations EXCEPT ![o] =
                          [version |-> v, status |-> status, archived |-> FALSE]]
    /\ versions' = [InterruptedVersions EXCEPT ![v].status = status, ![v].inherited = None]
    /\ loc' = [loc EXCEPT ![o].version = v, ![o].active = project.active,
                          ![o].activeVal = project.activeVal]
    /\ Goto(o, IF free THEN "concluding free" ELSE "concluding")
    /\ UNCHANGED secrets

(* Of a free config there is nothing to run: the second transaction.       *)
ConcludeFree(o) ==
    LET row == [project EXCEPT !.status = "valid", !.active = loc[o].version, !.activeVal = o] IN
    /\ pc[o] = "concluding free" /\ Exists /\ Legal(row)
    /\ project' = row
    /\ End(o) /\ UNCHANGED <<versions, validations, secrets>>

(* Mutant of Pointers: a failed baseline becomes the active one.           *)
PointersOfAny(o, result) == <<loc[o].version, o>>

(* The active pair that a conclusion writes: its own, or the one it read.  *)
Pointers(o, result) ==
    IF result = "passed" THEN <<loc[o].version, o>> ELSE <<loc[o].active, loc[o].activeVal>>

(***************************************************************************)
(* The baseline has run: its result, the project status, and the active    *)
(* pair as it was when the validation began.  A removed validation row is  *)
(* not written; a removed version is an error.                             *)
(***************************************************************************)
Conclude(o, result) ==
    LET row == [project EXCEPT !.status = IF result = "passed" THEN "valid" ELSE "invalid",
                               !.active = Pointers(o, result)[1],
                               !.activeVal = Pointers(o, result)[2]]
    IN
    /\ pc[o] = "concluding" /\ Exists /\ Legal(row)
    /\ project' = row
    /\ versions' = [versions EXCEPT ![loc[o].version].status = result]
    /\ validations' = [validations EXCEPT ![o] =
                          IF @ = None THEN None ELSE [@ EXCEPT !.status = result]]
    /\ End(o) /\ UNCHANGED secrets

(***************************************************************************)
(* _apply_project_config, first transaction.                               *)
(***************************************************************************)

(* Mutant of Base: the version that the command read before.               *)
BaseRead(o) == loc[o].version

Base(o) == project.latest

(* Mutant of StoredSecret: a marker is stored as it came.                  *)
UnresolvedSecret(o, current) == {loc[o].want.secret}

(* What secret the next version refers to.  A retained one is the current  *)
(* version's, if its fingerprint (left open: two secrets may have the same *)
(* value) is the expected one; its row must still be there.                *)
StoredSecret(o, current) ==
    LET want == loc[o].want.secret IN
    CASE want = None -> {None}
      [] want = "raw" -> {o}
      [] want = "retain" -> {current} \cap secrets
      [] OTHER -> (IF current = None THEN {want} ELSE {current}) \cap secrets

Apply(o) ==
    /\ pc[o] = "applying" /\ Exists
    /\ \E secret \in StoredSecret(o, versions[Base(o)].config.secret) :
        LET current == versions[Base(o)].config
            next == [loc[o].want EXCEPT !.secret = secret]
            new == Base(o) + 1
            affecting == Signature(current) # Signature(next)
            free == affecting /\ Free(next)
            skipped == affecting /\ loc[o].skip
            status == IF free THEN "not_required" ELSE IF skipped THEN "skipped"
                      ELSE IF affecting THEN "running" ELSE "inherited"
            active == IF free \/ (~affecting /\ project.active # 0)
                      THEN new ELSE project.active
            row == [project EXCEPT
                      !.latest = new, !.active = active,
                      !.activeVal = IF free THEN o ELSE @,
                      !.status = IF free THEN "valid" ELSE IF skipped THEN "invalid" ELSE @]
        IN
        \/ next = current /\ End(o) /\ UNCHANGED tables
        \/ /\ next # current
           /\ Legal(row)
           /\ ~affecting => project.activeVal # None    \* CHECK of an inherited version
           /\ versions' = Append(versions,
                  [config |-> next, status |-> status,
                   inherited |-> IF affecting THEN None ELSE project.activeVal])
           /\ validations' = [validations EXCEPT ![o] =
                  IF affecting THEN [version |-> new, status |-> status, archived |-> FALSE]
                  ELSE @]
           /\ secrets' = secrets \cup ({secret} \ {None})
           /\ project' = row
           /\ IF status = "running"
              THEN /\ Goto(o, "concluding")
                   /\ loc' = [loc EXCEPT ![o].version = new, ![o].active = project.active,
                                         ![o].activeVal = project.activeVal]
              ELSE End(o)

(***************************************************************************)
(* validation archive, unarchive and remove.  Which validation is active   *)
(* they know from the row read before the transaction.                     *)
(***************************************************************************)
ValArchive(o, w, archived) ==
    /\ pc[o] = "selecting" /\ Legal(InterruptedProject) /\ validations[w] # None
    /\ archived => w # loc[o].activeVal
    /\ validations' = [InterruptedValidations EXCEPT ![w].archived = archived]
    /\ versions' = InterruptedVersions
    /\ project' = InterruptedProject
    /\ End(o) /\ UNCHANGED secrets

ValRemovePreflight(o, w) ==
    /\ pc[o] = "selecting" /\ Legal(InterruptedProject)
    /\ validations[w] # None /\ validations[w].archived /\ w # loc[o].activeVal
    /\ validations' = InterruptedValidations
    /\ versions' = InterruptedVersions
    /\ project' = InterruptedProject
    /\ loc' = [loc EXCEPT ![o].target = w]
    /\ Goto(o, "removing validation") /\ UNCHANGED secrets

ValRemove(o) ==
    /\ pc[o] = "removing validation"
    /\ validations' = [validations EXCEPT ![loc[o].target] = None]
    /\ End(o) /\ UNCHANGED <<project, versions, secrets>>

(* Mutant of Referenced: only what the latest version refers to.           *)
ReferencedByLatest == {versions[v].config.secret : v \in DOMAIN versions \cap {project.latest}}

(* secret gc: what no version refers to goes, in one transaction.          *)
Referenced == {versions[v].config.secret : v \in DOMAIN versions}

SecretGc ==
    /\ Exists
    /\ secrets' = secrets \cap Referenced
    /\ UNCHANGED <<project, versions, validations, pc, loc>>

(***************************************************************************)
(* project archive, unarchive and remove.                                  *)
(***************************************************************************)
ProjectArchive ==
    /\ Exists /\ project.status # "archived"
    /\ project' = [project EXCEPT !.status = "archived", !.pre = project.status]
    /\ UNCHANGED <<versions, validations, secrets, pc, loc>>

(* Mutant of Restored: a project comes back valid.                         *)
RestoredValid == "valid"

Restored == IF project.pre = None THEN "invalid" ELSE project.pre

ProjectUnarchive ==
    /\ project.status = "archived"
    /\ project' = [project EXCEPT !.status = Restored, !.pre = None]
    /\ UNCHANGED <<versions, validations, secrets, pc, loc>>

ProjectRemovePreflight(o) ==
    /\ pc[o] = "idle" /\ project.status = "archived"
    /\ Goto(o, "removing project") /\ UNCHANGED <<tables, loc>>

ProjectRemove(o) ==
    /\ pc[o] = "removing project"
    /\ project' = [status |-> "removed", pre |-> None, latest |-> 0, active |-> 0,
                   activeVal |-> None]
    /\ versions' = <<>>
    /\ validations' = [w \in Ops |-> None]
    /\ secrets' = {}
    /\ End(o)

(* The process is killed, or a transaction of it fails.                    *)
Crash(o) ==
    /\ pc[o] \notin {"idle", "ended"}
    /\ End(o) /\ UNCHANGED tables

OpStep(o) ==
    \/ \E config \in Config, skip \in BOOLEAN : InitRows(o, config, skip)
    \/ InitSkip(o) \/ Select(o) \/ Import(o) \/ Edit(o)
    \/ Validate(o) \/ ConcludeFree(o) \/ (\E result \in Outcome : Conclude(o, result))
    \/ Apply(o)
    \/ \E w \in Ops : \/ \E archived \in BOOLEAN : ValArchive(o, w, archived)
                      \/ ValRemovePreflight(o, w)
    \/ ValRemove(o) \/ ProjectRemovePreflight(o) \/ ProjectRemove(o) \/ Crash(o)

Next == (\E o \in Ops : OpStep(o)) \/ InterruptStale \/ SecretGc \/ ProjectArchive \/ ProjectUnarchive

Spec == Init /\ [][Next]_vars

-----------------------------------------------------------------------------
(***************************************************************************)
(* Properties.                                                             *)
(***************************************************************************)

(* Every variable has its type.                                            *)
TypeOK ==
    /\ project \in ProjectRow /\ Legal(project)
    /\ DOMAIN versions = 1 .. Len(versions)
    /\ \A v \in DOMAIN versions : versions[v] \in VersionRow
    /\ validations \in [Ops -> ValidationRow \cup {None}]
    /\ secrets \subseteq Ops
    /\ pc \in [Ops -> PC]
    /\ loc \in [Ops -> Loc]

(* No version is lost or skipped: commands that read the same latest       *)
(* version and write later still number theirs one after the other         *)
(* (`_apply_project_config` reads the row again in its transaction).       *)
VersionsInOrder == project.latest = Len(versions)

(* A version waits for a baseline only while a running validation of it is *)
(* recorded, the one by which a later command finds it, so none waits for  *)
(* ever: validations that end, crash and interrupt each other included.    *)
RunningReconcilable ==
    \A v \in DOMAIN versions : versions[v].status = "running" => v \in RunningVersions

(* A project that is valid, or will be again once unarchived, has an       *)
(* active version to create experiments from, though overlapping           *)
(* validations write back the pair and status that they read before.       *)
ValidHasActive ==
    "valid" \in {project.status, project.pre} =>
        project.active \in DOMAIN versions /\ project.activeVal # None

(* While its row is there the active validation is one that passed, of the *)
(* active version or an earlier one; in the second case the active version *)
(* left the runtime and secret of the one before it alone.  So failed,     *)
(* skipped and interrupted baselines never become active.  Whether the row *)
(* is there is ActiveValidationKept, which fails.                          *)
ActiveValidationPassed ==
    LET w == project.activeVal IN
    w # None /\ validations[w] # None =>
        /\ validations[w].status \in Proven
        /\ validations[w].version <= project.active
        /\ validations[w].version # project.active =>
              Signature(versions[project.active].config)
                = Signature(versions[project.active - 1].config)

(* Every secret that a version refers to is stored: runs of old versions   *)
(* are given their secrets, or they would silently run without.            *)
ReferencedSecretsKept ==
    \A v \in DOMAIN versions : versions[v].config.secret \in secrets \cup {None}

(* The active validation is neither archived nor removed                   *)
(* (docs/spec_lifecycle.md:207: it "cannot be").  Those commands know it   *)
(* from a project row that may be older than the validation's success.     *)
ActiveValidationKept ==
    LET w == project.activeVal IN
    w # None => validations[w] # None /\ ~validations[w].archived

(* What the active version runs is what its validation ran                 *)
(* (docs/spec_storage_auth_context.md:1001).                               *)
ActiveProven ==
    LET w == project.activeVal IN
    w # None /\ validations[w] # None =>
        Signature(versions[project.active].config)
          = Signature(versions[validations[w].version].config)
=============================================================================
