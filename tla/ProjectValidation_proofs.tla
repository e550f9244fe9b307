---------------------- MODULE ProjectValidation_proofs ----------------------
(***************************************************************************)
(* Proofs about the configuration versions of a project and what validates *)
(* them.  An invocation writes back what it read a transaction before, so  *)
(* the invariants say of what it holds, too, that it stays true while the  *)
(* others commit theirs.                                                   *)
(***************************************************************************)
EXTENDS ProjectValidation, SequenceTheorems, TLAPS

VersionStatus == Outcome \cup {"running", "skipped", "inherited", "interrupted", "not_required"}
ValidationStatus == Outcome \cup {"running", "skipped", "interrupted", "not_required"}

(* The types, with the versions as a sequence.                             *)
Types ==
    /\ project \in ProjectRow /\ Legal(project)
    /\ versions \in Seq(VersionRow)
    /\ validations \in [Ops -> ValidationRow \cup {None}]
    /\ secrets \subseteq Ops
    /\ pc \in [Ops -> PC]
    /\ loc \in [Ops -> Loc]

(* Invocations that have not inserted their validation yet.                *)
Fresh(o) == pc[o] \in {"idle", "selecting", "applying"}

(* The rows of the project and its versions come and go together.          *)
ProjectOK ==
    /\ project.latest = Len(versions)
    /\ Exists <=> Len(versions) # 0
    /\ ~Exists => project.pre = None /\ project.activeVal = None
    /\ project.status = "absent" => \A o \in Ops : pc[o] = "idle"

(* The validation of an invocation, named after it, has no row before the  *)
(* invocation inserts it, and waits for its own result only.               *)
LocalOK(o) ==
    /\ pc[o] = "idle" => loc[o] = NoLoc
    /\ Fresh(o) => validations[o] = None
    /\ pc[o] = "applying" => loc[o].want \in Request
    /\ pc[o] = "removing validation" => loc[o].target \in Ops /\ ~Fresh(loc[o].target)
    /\ pc[o] \in {"skipping", "concluding", "concluding free"} =>
          /\ loc[o].version # 0
          /\ Exists => loc[o].version <= Len(versions)
          /\ validations[o] # None =>
                /\ validations[o].version = loc[o].version
                /\ pc[o] = "concluding free" => validations[o].status = "not_required"
                /\ pc[o] # "concluding free" => validations[o].status \in {"running", "interrupted"}
    /\ pc[o] = "skipping" => loc[o].version = 1

LocalsOK == \A o \in Ops : LocalOK(o)

Inv == Types /\ ProjectOK /\ LocalsOK

(* The same versions with the same configs: only statuses differ.          *)
SameConfigs(rows) ==
    /\ rows \in Seq(VersionRow)
    /\ Len(rows) = Len(versions)
    /\ \A v \in 1 .. Len(versions) : rows[v].config = versions[v].config

(* Of a validation that an invocation does not own, a step of it keeps the *)
(* version and at most interrupts it, archives it or removes it.           *)
RowKept(w) ==
    validations'[w] # None =>
        /\ validations[w] # None
        /\ validations'[w].version = validations[w].version
        /\ \/ validations'[w].status = validations[w].status
           \/ validations[w].status = "running" /\ validations'[w].status = "interrupted"

(* A validation row is not the absence of one.                             *)
LEMMA RowIsNotNone == \A row \in ValidationRow : row # None
BY ConstantsAssumption

(* A function on the indices of a sequence of versions is one as long.     *)
LEMMA SameLength ==
    ASSUME NEW old \in Seq(VersionRow), NEW rows \in [1 .. Len(old) -> VersionRow]
    PROVE  rows \in Seq(VersionRow) /\ Len(rows) = Len(old)
<1>1. Len(old) \in Nat
  BY LenProperties
<1>2. rows \in Seq(VersionRow)
  BY <1>1, SeqDef
<1>3. Len(rows) \in Nat /\ DOMAIN rows = 1 .. Len(rows) /\ DOMAIN rows = 1 .. Len(old)
  BY <1>2, LenProperties
<1>4. QED
  BY <1>1, <1>2, <1>3

(* The versions are rows, by number.                                       *)
LEMMA VersionTypes ==
    ASSUME Types
    PROVE  /\ Len(versions) \in Nat
           /\ DOMAIN versions = 1 .. Len(versions)
           /\ \A v \in 1 .. Len(versions) : versions[v] \in VersionRow
           /\ SameConfigs(versions)
<1>1. versions \in [1 .. Len(versions) -> VersionRow] /\ Len(versions) \in Nat
      /\ DOMAIN versions = 1 .. Len(versions)
  BY LenProperties DEF Types
<1>2. QED
  BY <1>1 DEF Types, SameConfigs

(* A status, and what a version inherits, are written without its config.  *)
LEMMA StatusWritten ==
    ASSUME Types, NEW rows, SameConfigs(rows), NEW v, NEW s \in VersionStatus
    PROVE  /\ SameConfigs([rows EXCEPT ![v].status = s])
           /\ SameConfigs([rows EXCEPT ![v].inherited = None])
<1>1. rows \in [1 .. Len(rows) -> VersionRow] /\ DOMAIN rows = 1 .. Len(rows) /\ Len(rows) \in Nat
  BY LenProperties DEF SameConfigs
<1>2. \A row \in VersionRow : /\ [row EXCEPT !.status = s] \in VersionRow
                              /\ [row EXCEPT !.status = s].config = row.config
                              /\ [row EXCEPT !.inherited = None] \in VersionRow
                              /\ [row EXCEPT !.inherited = None].config = row.config
  BY DEF VersionRow, VersionStatus
<1>3. [rows EXCEPT ![v].status = s] \in [1 .. Len(rows) -> VersionRow]
      /\ \A u \in 1 .. Len(rows) : [rows EXCEPT ![v].status = s][u].config = rows[u].config
  BY <1>1, <1>2
<1>4. [rows EXCEPT ![v].inherited = None] \in [1 .. Len(rows) -> VersionRow]
      /\ \A u \in 1 .. Len(rows) : [rows EXCEPT ![v].inherited = None][u].config = rows[u].config
  BY <1>1, <1>2
<1>5. rows \in Seq(VersionRow)
  BY DEF SameConfigs
<1>6. QED
  BY <1>1, <1>3, <1>4, <1>5, SameLength DEF SameConfigs

(* What the interruption of stale records leaves of the versions.          *)
LEMMA InterruptedVersionsKept ==
    ASSUME Types
    PROVE  /\ SameConfigs(InterruptedVersions)
           /\ \A v \in 1 .. Len(versions) :
                 InterruptedVersions[v].status =
                    IF v \in RunningVersions /\ versions[v].status = "running"
                    THEN "interrupted" ELSE versions[v].status
<1>1. \A row \in VersionRow : /\ [row EXCEPT !.status = "interrupted"] \in VersionRow
                              /\ [row EXCEPT !.status = "interrupted"].config = row.config
                              /\ [row EXCEPT !.status = "interrupted"].status = "interrupted"
  BY DEF VersionRow
<1>2. DOMAIN InterruptedVersions = 1 .. Len(versions)
      /\ \A v \in 1 .. Len(versions) :
            InterruptedVersions[v] =
                IF v \in RunningVersions /\ versions[v].status = "running"
                THEN [versions[v] EXCEPT !.status = "interrupted"] ELSE versions[v]
  BY VersionTypes DEF InterruptedVersions
<1>3. \A v \in 1 .. Len(versions) :
          /\ InterruptedVersions[v] \in VersionRow
          /\ InterruptedVersions[v].config = versions[v].config
          /\ InterruptedVersions[v].status =
                IF v \in RunningVersions /\ versions[v].status = "running"
                THEN "interrupted" ELSE versions[v].status
  <2> SUFFICES ASSUME NEW v \in 1 .. Len(versions)
      PROVE  /\ InterruptedVersions[v] \in VersionRow
             /\ InterruptedVersions[v].config = versions[v].config
             /\ InterruptedVersions[v].status =
                   IF v \in RunningVersions /\ versions[v].status = "running"
                   THEN "interrupted" ELSE versions[v].status
    OBVIOUS
  <2>1. versions[v] \in VersionRow
    BY VersionTypes
  <2>2. CASE v \in RunningVersions /\ versions[v].status = "running"
    <3>1. InterruptedVersions[v] = [versions[v] EXCEPT !.status = "interrupted"]
      BY <1>2, <2>2
    <3>2. QED
      BY <1>1, <2>1, <2>2, <3>1
  <2>3. CASE ~(v \in RunningVersions /\ versions[v].status = "running")
    <3>1. InterruptedVersions[v] = versions[v]
      BY <1>2, <2>3
    <3>2. QED
      BY <2>1, <2>3, <3>1
  <2>4. QED
    BY <2>2, <2>3
<1>4. InterruptedVersions \in [1 .. Len(versions) -> VersionRow]
  BY <1>2, <1>3 DEF InterruptedVersions
<1>5. versions \in Seq(VersionRow)
  BY DEF Types
<1>6. QED
  BY <1>3, <1>4, <1>5, SameLength DEF SameConfigs

(* What it leaves of the validations, and of the project.                  *)
LEMMA InterruptedRows ==
    ASSUME Types
    PROVE  /\ InterruptedValidations \in [Ops -> ValidationRow \cup {None}]
           /\ \A w \in Ops :
                 /\ InterruptedValidations[w] = None <=> validations[w] = None
                 /\ validations[w] # None =>
                      /\ InterruptedValidations[w].version = validations[w].version
                      /\ InterruptedValidations[w].archived = validations[w].archived
                      /\ InterruptedValidations[w].status =
                            IF validations[w].status = "running" THEN "interrupted"
                            ELSE validations[w].status
<1>1. \A row \in ValidationRow :
          /\ [row EXCEPT !.status = "interrupted"] \in ValidationRow
          /\ [row EXCEPT !.status = "interrupted"].status = "interrupted"
          /\ [row EXCEPT !.status = "interrupted"].version = row.version
          /\ [row EXCEPT !.status = "interrupted"].archived = row.archived
  BY DEF ValidationRow
<1>2. \A w \in Ops : validations[w] \in ValidationRow \cup {None}
  BY DEF Types
<1>3. \A w \in Ops : InterruptedValidations[w] =
          IF w \in Running THEN [validations[w] EXCEPT !.status = "interrupted"] ELSE validations[w]
  BY DEF InterruptedValidations
<1>4. \A w \in Ops : w \in Running <=> validations[w] # None /\ validations[w].status = "running"
  BY DEF Running
<1>5. \A w \in Ops : InterruptedValidations[w] \in ValidationRow \cup {None}
  BY <1>1, <1>2, <1>3, <1>4
<1>6. InterruptedValidations \in [Ops -> ValidationRow \cup {None}]
  BY <1>5 DEF InterruptedValidations
<1>7. ASSUME NEW w \in Ops, validations[w] = None
      PROVE  InterruptedValidations[w] = None
  BY <1>3, <1>4, <1>7
<1>8. ASSUME NEW w \in Ops, validations[w] # None
      PROVE  /\ InterruptedValidations[w] # None
             /\ InterruptedValidations[w].version = validations[w].version
             /\ InterruptedValidations[w].archived = validations[w].archived
             /\ InterruptedValidations[w].status =
                   IF validations[w].status = "running" THEN "interrupted"
                   ELSE validations[w].status
  <2>1. validations[w] \in ValidationRow
    BY <1>2, <1>8
  <2>2. CASE validations[w].status = "running"
    <3>1. InterruptedValidations[w] = [validations[w] EXCEPT !.status = "interrupted"]
      BY <1>3, <1>4, <1>8, <2>2
    <3>2. QED
      BY <1>1, <2>1, <2>2, <3>1, RowIsNotNone
  <2>3. CASE validations[w].status # "running"
    BY <1>3, <1>4, <1>8, <2>3
  <2>4. QED
    BY <2>2, <2>3
<1>9. QED
  BY <1>6, <1>7, <1>8

(* The project stays what it is, but for its status.                       *)
LEMMA InterruptedProjectKept ==
    ASSUME Types, ProjectOK
    PROVE  /\ InterruptedProject \in ProjectRow
           /\ InterruptedProject.latest = project.latest
           /\ InterruptedProject.active = project.active
           /\ InterruptedProject.activeVal = project.activeVal
           /\ InterruptedProject.pre = project.pre
           /\ InterruptedProject.status \in {project.status, "invalid"}
           /\ InterruptedProject.status # project.status => Exists
<1>1. \A w \in Running : validations[w].version \in Nat \ {0}
  BY DEF Types, Running, ValidationRow
<1>2. project.latest \in RunningVersions => Exists
  BY <1>1, VersionTypes DEF RunningVersions, ProjectOK
<1>3. QED
  BY <1>2 DEF Types, ProjectRow, InterruptedProject

(* No invocation that has inserted its validation goes back, or begins to  *)
(* wait for a result.                                                      *)
Forward(w) ==
    /\ Fresh(w)' => Fresh(w)
    /\ pc'[w] \in {"concluding", "skipping"} => Fresh(w) \/ pc'[w] = pc[w]

(* The result that the invocation waited for.                              *)
Answered(w) ==
    /\ pc[w] \in {"concluding", "skipping"}
    /\ validations'[w] # None =>
          /\ validations[w] # None
          /\ validations'[w].version = validations[w].version
          /\ validations'[w].status \in {"passed", "failed", "skipped"}

Moves == \A w \in Ops : Forward(w) /\ (Fresh(w) \/ RowKept(w) \/ Answered(w))

(* What the proof of a step is about.                                      *)
StepOK == Inv' /\ Moves

(* The project stays, with its versions, or is initialized, or goes.       *)
VersionsStay ==
    Exists' => \/ project.status = "absent"
               \/ Exists /\ Len(versions') >= Len(versions)

(* What an invocation holds stays true while others take their steps.      *)
LEMMA LocalKept ==
    ASSUME Inv, NEW p \in Ops, Types', \A w \in Ops : Forward(w), VersionsStay,
           pc'[p] = pc[p], loc'[p] = loc[p], RowKept(p)
    PROVE  LocalOK(p)'
<1>1. LocalOK(p) /\ pc'[p] = pc[p] /\ loc'[p] = loc[p] /\ RowKept(p)
  BY DEF Inv, LocalsOK
<1>2. Fresh(p)' <=> Fresh(p)
  BY <1>1 DEF Fresh
<1>3. Fresh(p)' => validations'[p] = None
  BY <1>1, <1>2 DEF LocalOK, RowKept
<1>4. pc[p] # "idle" => project.status # "absent"
  BY DEF Inv, ProjectOK
<1>5. loc[p].version \in Nat
  BY DEF Inv, Types, Loc
<1>6. pc[p] # "idle" /\ Exists' /\ loc[p].version <= Len(versions) =>
         loc[p].version <= Len(versions')
  <2>1. Len(versions) \in Nat /\ Len(versions') \in Nat
    BY LenProperties DEF Inv, Types
  <2>2. QED
    BY <1>4, <1>5, <2>1 DEF VersionsStay
<1>7. pc[p] \in {"skipping", "concluding", "concluding free"} /\ validations'[p] # None =>
         /\ validations'[p].version = loc[p].version
         /\ pc[p] = "concluding free" => validations'[p].status = "not_required"
         /\ pc[p] # "concluding free" => validations'[p].status \in {"running", "interrupted"}
  BY <1>1 DEF LocalOK, RowKept
<1>8. pc[p] \in {"skipping", "concluding", "concluding free"} /\ Exists' =>
         loc[p].version <= Len(versions')
  BY <1>1, <1>4, <1>6 DEF LocalOK, VersionsStay
<1>9. pc'[p] = "removing validation" => loc'[p].target \in Ops
        /\ pc'[loc'[p].target] \notin {"idle", "selecting", "applying"}
  BY <1>1 DEF LocalOK, Fresh, Forward
<1>10. pc'[p] = pc[p] /\ loc'[p] = loc[p]
  BY <1>1
<1>11. /\ pc'[p] = "idle" => loc'[p] = NoLoc
       /\ pc'[p] = "applying" => loc'[p].want \in Request
       /\ pc'[p] = "skipping" => loc'[p].version = 1
       /\ pc'[p] \in {"skipping", "concluding", "concluding free"} => loc'[p].version # 0
  BY <1>1 DEF LocalOK
<1>12. QED
  BY <1>3, <1>7, <1>8, <1>9, <1>10, <1>11 DEF LocalOK, Fresh

(* An invocation takes a step of its own, and does not disturb the others. *)
LEMMA OthersKept ==
    ASSUME Inv, NEW o \in Ops, Types', ProjectOK', LocalOK(o)',
           Fresh(o) \/ pc'[o] = "ended", Fresh(o) \/ RowKept(o) \/ Answered(o),
           \A p \in Ops \ {o} : pc'[p] = pc[p] /\ loc'[p] = loc[p] /\ RowKept(p),
           VersionsStay
    PROVE  StepOK
<1>1. \A w \in Ops : Forward(w)
  BY DEF Fresh, Forward
<1>2. \A p \in Ops \ {o} : LocalOK(p)'
  BY <1>1, LocalKept
<1>3. QED
  BY <1>1, <1>2 DEF Inv, LocalsOK, StepOK, Moves

(* The rows change under the invocations.                                  *)
LEMMA AllKept ==
    ASSUME Inv, Types', ProjectOK', UNCHANGED <<pc, loc>>, \A p \in Ops : RowKept(p),
           VersionsStay
    PROVE  StepOK
<1>1. \A w \in Ops : Forward(w)
  BY DEF Fresh, Forward
<1>2. \A p \in Ops : LocalOK(p)'
  BY <1>1, LocalKept
<1>3. QED
  BY <1>1, <1>2 DEF Inv, LocalsOK, StepOK, Moves

(* As many versions as before.                                             *)
LEMMA NoneAppended == ASSUME Types, versions' = versions PROVE Len(versions') >= Len(versions)
BY LenProperties DEF Types

(* An invocation that ends leaves nothing behind, and the others alone.    *)
LEMMA Ended ==
    ASSUME Inv, NEW o \in Ops, End(o)
    PROVE  /\ pc' \in [Ops -> PC] /\ loc' \in [Ops -> Loc]
           /\ \A p \in Ops \ {o} : pc'[p] = pc[p] /\ loc'[p] = loc[p]
           /\ pc'[o] = "ended" /\ ~Fresh(o)'
           /\ LocalOK(o)'
<1>1. pc' = [pc EXCEPT ![o] = "ended"] /\ loc' = [loc EXCEPT ![o] = NoLoc]
  BY DEF End, Goto
<1>2. NoLoc \in Loc
  BY DEF NoLoc, Loc
<1>3. pc \in [Ops -> PC] /\ loc \in [Ops -> Loc]
  BY DEF Inv, Types
<1>4. pc'[o] = "ended"
  BY <1>1, <1>3
<1>5. QED
  BY <1>1, <1>2, <1>3, <1>4 DEF PC, LocalOK, Fresh

(* A step that leaves the validations alone keeps their rows.              *)
LEMMA RowsUntouched == validations' = validations => \A w \in Ops : RowKept(w)
BY DEF RowKept

(* So does the interruption of stale records.                              *)
LEMMA RowsInterrupted ==
    ASSUME Types, NEW w \in Ops, validations'[w] = InterruptedValidations[w]
    PROVE  RowKept(w)
BY InterruptedRows DEF RowKept

(* The initial state.                                                      *)
LEMMA InitInv == ASSUME Init PROVE Inv
<1>1. Types
  <2>1. project \in ProjectRow /\ Legal(project)
    BY DEF Init, ProjectRow, Legal
  <2>2. versions \in Seq(VersionRow)
    BY EmptySeq DEF Init
  <2>3. NoLoc \in Loc
    BY DEF NoLoc, Loc
  <2>4. QED
    BY <2>1, <2>2, <2>3 DEF Init, Types, PC
<1>2. ProjectOK
  BY EmptySeq DEF Init, ProjectOK, Exists
<1>3. LocalsOK
  BY DEF Init, LocalsOK, LocalOK, Fresh
<1>4. QED
  BY <1>1, <1>2, <1>3 DEF Inv

(* The project appears with its first version and validation.              *)
LEMMA InitRowsInv ==
    ASSUME Inv, NEW o \in Ops, NEW config \in Config, NEW skip \in BOOLEAN,
           InitRows(o, config, skip)
    PROVE  StepOK
<1> DEFINE status == IF Free(config) THEN "not_required" ELSE "running"
           first == [config |-> config, status |-> status, inherited |-> None]
           row == [version |-> 1, status |-> status, archived |-> FALSE]
<1>1. first \in VersionRow /\ row \in ValidationRow
  BY DEF VersionRow, ValidationRow
<1>2. versions' = <<first>> /\ validations' = [validations EXCEPT ![o] = row]
  BY DEF InitRows
<1>3. versions' \in Seq(VersionRow) /\ Len(versions') = 1
  BY <1>1, <1>2
<1>4. /\ project'.status \in {"valid", "invalid"} /\ project'.pre = None /\ project'.latest = 1
      /\ project' \in ProjectRow
  BY DEF InitRows, ProjectRow
<1>5. Legal(project')
  BY <1>4, ConstantsAssumption DEF Legal
<1>6. [loc[o] EXCEPT !.version = 1] \in Loc /\ [loc[o] EXCEPT !.version = 1].version = 1
  BY DEF Inv, Types, Loc
<1>7. loc' \in [Ops -> Loc] /\ loc'[o].version = 1 /\ \A p \in Ops \ {o} : loc'[p] = loc[p]
  BY <1>6 DEF Inv, Types, InitRows
<1>8. /\ pc' \in [Ops -> PC] /\ pc'[o] \in {"ended", "skipping", "concluding"}
      /\ \A p \in Ops \ {o} : pc'[p] = pc[p]
      /\ Free(config) => pc'[o] = "ended"
  BY DEF Inv, Types, InitRows, Goto, PC
<1>9. secrets' \subseteq Ops
  BY DEF Inv, Types, InitRows
<1>10. /\ validations' \in [Ops -> ValidationRow \cup {None}]
       /\ validations'[o] = row
       /\ \A p \in Ops \ {o} : validations'[p] = validations[p]
  BY <1>1, <1>2 DEF Inv, Types
<1>11. Types'
  BY <1>3, <1>4, <1>5, <1>7, <1>8, <1>9, <1>10 DEF Types
<1>12. ProjectOK'
  BY <1>3, <1>4 DEF ProjectOK, Exists
<1>13. LocalOK(o)'
  <2>1. row.version = 1 /\ (~Free(config) => row.status = "running")
    OBVIOUS
  <2>2. pc'[o] # "ended" => validations'[o].status = "running" /\ validations'[o].version = 1
    BY <1>8, <1>10, <2>1
  <2>3. pc'[o] \notin {"idle", "selecting", "applying", "removing validation", "concluding free"}
    BY <1>8
  <2>4. loc'[o].version # 0 /\ loc'[o].version <= Len(versions')
    BY <1>3, <1>7
  <2>5. /\ pc'[o] \in {"skipping", "concluding", "concluding free"} /\ validations'[o] # None =>
             /\ validations'[o].version = loc'[o].version
             /\ pc'[o] = "concluding free" => validations'[o].status = "not_required"
             /\ pc'[o] # "concluding free" => validations'[o].status \in {"running", "interrupted"}
    BY <1>7, <2>2, <2>3
  <2>6. ~Fresh(o)' /\ pc'[o] # "idle" /\ pc'[o] # "applying" /\ pc'[o] # "removing validation"
    BY <2>3 DEF Fresh
  <2>7. QED
    BY <1>7, <2>4, <2>5, <2>6 DEF LocalOK
<1>14. \A p \in Ops \ {o} : pc'[p] = pc[p] /\ loc'[p] = loc[p] /\ RowKept(p)
  BY <1>7, <1>8, <1>10 DEF RowKept
<1>15. project.status = "absent" /\ Fresh(o)
  BY DEF InitRows, Fresh
<1>16. QED
  BY <1>11, <1>12, <1>13, <1>14, <1>15, OthersKept DEF VersionsStay

(* The project was initialized without a baseline.                         *)
LEMMA InitSkipInv == ASSUME Inv, NEW o \in Ops, InitSkip(o) PROVE StepOK
<1>1. versions' \in Seq(VersionRow) /\ Len(versions') = Len(versions)
  <2>1. \A row \in VersionRow : [row EXCEPT !.status = "skipped"] \in VersionRow
    BY DEF VersionRow
  <2>2. versions' \in [1 .. Len(versions) -> VersionRow]
    BY <2>1, VersionTypes DEF InitSkip, Inv
  <2>3. versions \in Seq(VersionRow)
    BY DEF Inv, Types
  <2>4. QED
    BY <2>2, <2>3, SameLength
<1>2. validations' \in [Ops -> ValidationRow \cup {None}]
      /\ \A p \in Ops \ {o} : validations'[p] = validations[p]
  <2>1. \A row \in ValidationRow : [row EXCEPT !.status = "skipped"] \in ValidationRow
    BY DEF ValidationRow
  <2>2. QED
    BY <2>1 DEF InitSkip, Inv, Types
<1>3. UNCHANGED <<project, secrets>> /\ End(o)
  BY DEF InitSkip
<1>4. Types'
  BY <1>1, <1>2, <1>3, Ended DEF Inv, Types
<1>5. pc[o] # "idle"
  BY DEF InitSkip
<1>6. ProjectOK'
  BY <1>1, <1>3, <1>5 DEF Inv, ProjectOK, Exists
<1>7. \A p \in Ops \ {o} : RowKept(p)
  BY <1>2 DEF RowKept
<1>8. Exists' <=> Exists
  BY <1>3 DEF Exists
<1>9. Answered(o)
  <2>1. pc[o] = "skipping" /\ validations'[o] = IF validations[o] = None THEN None
                                 ELSE [validations[o] EXCEPT !.status = "skipped"]
    BY DEF InitSkip, Inv, Types
  <2>2. CASE validations[o] = None
    BY <2>1, <2>2 DEF Answered
  <2>3. CASE validations[o] # None
    <3>1. validations[o] \in ValidationRow
      BY <2>3 DEF Inv, Types
    <3>2. /\ validations'[o].version = validations[o].version
          /\ validations'[o].status = "skipped"
      BY <2>1, <2>3, <3>1 DEF ValidationRow
    <3>3. QED
      BY <2>1, <2>3, <3>2 DEF Answered
  <2>4. QED
    BY <2>2, <2>3
<1>10. QED
  BY <1>1, <1>3, <1>4, <1>6, <1>7, <1>8, <1>9, Ended, OthersKept, VersionTypes DEF Inv, VersionsStay

(* A command reads the project row and decides what it wants.              *)
LEMMA AdminReadInv ==
    ASSUME Inv, NEW o \in Ops, NEW label \in {"selecting", "applying"},
           NEW want \in Request \cup {None}, NEW skip \in BOOLEAN,
           label = "applying" => want \in Request,
           AdminRead(o, label, want, skip)
    PROVE  StepOK
<1> DEFINE read == [NoLoc EXCEPT !.want = want, !.skip = skip, !.version = project.latest,
                                 !.activeVal = project.activeVal]
<1>1. read \in Loc /\ read.want = want
  BY DEF NoLoc, Loc, Inv, Types, ProjectRow
<1>2. loc' = [loc EXCEPT ![o] = read] /\ pc' = [pc EXCEPT ![o] = label] /\ UNCHANGED tables
  BY DEF AdminRead, Goto
<1>3. loc' \in [Ops -> Loc] /\ loc'[o].want = want /\ \A p \in Ops \ {o} : loc'[p] = loc[p]
  BY <1>1, <1>2 DEF Inv, Types
<1>4. pc' \in [Ops -> PC] /\ pc'[o] = label /\ \A p \in Ops \ {o} : pc'[p] = pc[p]
  BY <1>2 DEF Inv, Types, PC
<1>5. Types'
  BY <1>2, <1>3, <1>4 DEF Inv, Types, tables, Legal
<1>6. Exists /\ pc[o] = "idle"
  BY DEF AdminRead
<1>7. ProjectOK'
  BY <1>2, <1>6 DEF Inv, ProjectOK, tables, Exists
<1>8. Fresh(o) /\ validations'[o] = None
  BY <1>2, <1>6 DEF Fresh, Inv, LocalsOK, LocalOK, tables
<1>9. LocalOK(o)'
  BY <1>3, <1>4, <1>8 DEF LocalOK
<1>10. \A p \in Ops : RowKept(p)
  BY <1>2, RowsUntouched DEF tables
<1>11. Len(versions') >= Len(versions)
  BY <1>2, VersionTypes DEF tables, Inv
<1>12. QED
  BY <1>3, <1>4, <1>5, <1>6, <1>7, <1>8, <1>9, <1>10, <1>11, OthersKept DEF VersionsStay

(* A listing or a removal, an import and an edit start that way.           *)
LEMMA ReadInv == ASSUME Inv, NEW o \in Ops, Select(o) \/ Import(o) \/ Edit(o) PROVE StepOK
<1>1. CASE Select(o)
  BY <1>1, AdminReadInv DEF Select
<1>2. CASE Import(o)
  <2>1. PICK want \in [runtime : Runtimes, meta : Metas, secret : {None, "raw", "retain"}],
             skip \in BOOLEAN : AdminRead(o, "applying", want, skip)
    BY <1>2 DEF Import
  <2>2. want \in Request
    BY DEF Request
  <2>3. QED
    BY <2>1, <2>2, AdminReadInv
<1>3. CASE Edit(o)
  <2> DEFINE base == versions[project.latest].config
  <2>1. PICK want \in FieldEdits(base) \cup {SecretSet(base), SecretUnset(base)},
             skip \in BOOLEAN : AdminRead(o, "applying", want, skip)
    BY <1>3 DEF Edit
  <2>2. Exists
    BY <1>3 DEF Edit
  <2>3. project.latest \in 1 .. Len(versions)
    BY <2>2, VersionTypes DEF Inv, ProjectOK
  <2>4. base \in Config
    BY <2>3, VersionTypes DEF Inv, VersionRow
  <2>5. want \in Request
    BY <2>4 DEF FieldEdits, EnvEdits, SecretSet, SecretUnset, Config, Request
  <2>6. QED
    BY <2>1, <2>5, AdminReadInv
<1>4. QED
  BY <1>1, <1>2, <1>3

(* A validation is recorded, and the version waits for it.                 *)
LEMMA ValidateInv == ASSUME Inv, NEW o \in Ops, Validate(o) PROVE StepOK
<1> DEFINE v == project.latest
           free == Free(versions[v].config)
           status == IF free THEN "not_required" ELSE "running"
           row == [version |-> v, status |-> status, archived |-> FALSE]
           marked == [InterruptedVersions EXCEPT ![v].status = status]
           mine == [loc[o] EXCEPT !.version = v, !.active = project.active,
                                  !.activeVal = project.activeVal]
<1>1. /\ Exists /\ pc[o] = "selecting" /\ Legal(InterruptedProject)
      /\ project' = InterruptedProject /\ secrets' = secrets
      /\ validations' = [InterruptedValidations EXCEPT ![o] = row]
      /\ versions' = [marked EXCEPT ![v].inherited = None]
      /\ loc' = [loc EXCEPT ![o] = mine]
      /\ pc' = [pc EXCEPT ![o] = IF free THEN "concluding free" ELSE "concluding"]
  BY DEF Validate, Goto
<1>2. v \in 1 .. Len(versions) /\ Len(versions) \in Nat
  <2>1. Len(versions) \in Nat
    BY VersionTypes DEF Inv
  <2>2. v = Len(versions) /\ Len(versions) # 0
    BY <1>1 DEF Inv, ProjectOK
  <2>3. QED
    BY <2>1, <2>2
<1>3. SameConfigs(versions')
  <2>1. SameConfigs(marked)
    BY InterruptedVersionsKept, StatusWritten DEF Inv, VersionStatus
  <2>2. QED
    BY <1>1, <2>1, StatusWritten DEF Inv, VersionStatus
<1>4. row \in ValidationRow /\ row.version = v /\ row.status = status
  BY <1>2 DEF ValidationRow
<1>5. /\ validations' \in [Ops -> ValidationRow \cup {None}] /\ validations'[o] = row
      /\ \A p \in Ops \ {o} : validations'[p] = InterruptedValidations[p]
  BY <1>1, <1>4, InterruptedRows DEF Inv
<1>6. mine \in Loc /\ mine.version = v
  BY DEF Inv, Types, Loc, ProjectRow
<1>7. loc' \in [Ops -> Loc] /\ loc'[o] = mine /\ \A p \in Ops \ {o} : loc'[p] = loc[p]
  BY <1>1, <1>6 DEF Inv, Types
<1>8. /\ pc' \in [Ops -> PC] /\ pc'[o] = IF free THEN "concluding free" ELSE "concluding"
      /\ \A p \in Ops \ {o} : pc'[p] = pc[p]
  BY <1>1 DEF Inv, Types, PC
<1>9. Types'
  BY <1>1, <1>3, <1>5, <1>7, <1>8, InterruptedProjectKept DEF Inv, Types, SameConfigs
<1>10. /\ project'.latest = Len(versions') /\ Exists' /\ Len(versions') # 0
       /\ project'.status # "absent" /\ Len(versions') = Len(versions)
  BY <1>1, <1>2, <1>3, InterruptedProjectKept DEF Inv, ProjectOK, SameConfigs, Exists
<1>11. ProjectOK'
  BY <1>10 DEF ProjectOK
<1>12. LocalOK(o)'
  <2>1. /\ free => pc'[o] = "concluding free" /\ validations'[o].status = "not_required"
        /\ ~free => pc'[o] = "concluding" /\ validations'[o].status = "running"
    BY <1>4, <1>5, <1>8
  <2>2. validations'[o].version = v /\ loc'[o].version = v
    BY <1>4, <1>5, <1>6, <1>7
  <2>3. v # 0 /\ v <= Len(versions')
    BY <1>2, <1>10
  <2>4. pc'[o] \in {"concluding free", "concluding"} /\ ~Fresh(o)'
    BY <2>1 DEF Fresh
  <2>5. pc'[o] = "concluding free" => validations'[o].status = "not_required"
    BY <2>1
  <2>6. pc'[o] # "concluding free" => validations'[o].status \in {"running", "interrupted"}
    BY <2>1
  <2>7. pc'[o] \notin {"idle", "applying", "removing validation", "skipping"}
    BY <2>4
  <2>8. QED
    BY <2>2, <2>3, <2>4, <2>5, <2>6, <2>7 DEF LocalOK
<1>13. \A p \in Ops \ {o} : RowKept(p)
  BY <1>5, RowsInterrupted DEF Inv
<1>14. Fresh(o) /\ VersionsStay
  <2>1. Exists /\ Len(versions') >= Len(versions)
    <3>1. Len(versions') >= Len(versions)
      BY <1>2, <1>10
    <3>2. QED
      BY <1>1, <3>1
  <2>2. QED
    BY <1>1, <2>1 DEF Fresh, VersionsStay
<1>15. QED
  BY <1>7, <1>8, <1>9, <1>11, <1>12, <1>13, <1>14, OthersKept

(* The second transaction of a validation that needs no run.               *)
LEMMA ConcludeFreeInv == ASSUME Inv, NEW o \in Ops, ConcludeFree(o) PROVE StepOK
<1>1. /\ pc[o] = "concluding free" /\ Exists /\ End(o) /\ UNCHANGED <<versions, validations, secrets>>
      /\ project' = [project EXCEPT !.status = "valid", !.active = loc[o].version, !.activeVal = o]
      /\ Legal(project')
  BY DEF ConcludeFree
<1>2. project' \in ProjectRow /\ project'.latest = project.latest /\ project'.status = "valid"
  BY <1>1 DEF Inv, Types, ProjectRow, Loc
<1>3. Types'
  BY <1>1, <1>2, Ended DEF Inv, Types
<1>4. ProjectOK' /\ VersionsStay
  <2>1. Len(versions) \in Nat
    BY VersionTypes DEF Inv
  <2>2. VersionsStay
    <3>0. versions' = versions
      BY <1>1
    <3>1. Len(versions') >= Len(versions)
      BY <3>0, <2>1
    <3>2. QED
      BY <1>1, <3>1 DEF VersionsStay
  <2>3. Exists' /\ project'.status # "absent"
    BY <1>2 DEF Exists
  <2>4. project'.latest = Len(versions') /\ Len(versions') # 0
    BY <1>1, <1>2 DEF Inv, ProjectOK
  <2>5. QED
    BY <2>2, <2>3, <2>4 DEF ProjectOK
<1>5. \A p \in Ops : RowKept(p)
  BY <1>1, RowsUntouched
<1>6. QED
  BY <1>1, <1>3, <1>4, <1>5, Ended, OthersKept

(* A baseline has a result.                                                *)
LEMMA ConcludeInv == ASSUME Inv, NEW o \in Ops, NEW result \in Outcome, Conclude(o, result) PROVE StepOK
<1>1. /\ pc[o] = "concluding" /\ Exists /\ End(o) /\ secrets' = secrets /\ Legal(project')
      /\ project' = [project EXCEPT !.status = IF result = "passed" THEN "valid" ELSE "invalid",
                                    !.active = Pointers(o, result)[1],
                                    !.activeVal = Pointers(o, result)[2]]
      /\ versions' = [versions EXCEPT ![loc[o].version].status = result]
      /\ validations' = [validations EXCEPT ![o] =
                            IF @ = None THEN None ELSE [@ EXCEPT !.status = result]]
  BY DEF Conclude
<1>2. Pointers(o, result)[1] \in Nat /\ Pointers(o, result)[2] \in Ops \cup {None}
  BY DEF Pointers, Inv, Types, Loc
<1>3. /\ project' \in ProjectRow /\ project'.latest = project.latest
      /\ project'.status \in {"valid", "invalid"}
  BY <1>1, <1>2 DEF Inv, Types, ProjectRow
<1>4. SameConfigs(versions')
  BY <1>1, VersionTypes, StatusWritten DEF Inv, VersionStatus
<1>5. /\ validations' \in [Ops -> ValidationRow \cup {None}]
      /\ \A p \in Ops \ {o} : validations'[p] = validations[p]
  <2>1. \A row \in ValidationRow : [row EXCEPT !.status = result] \in ValidationRow
    BY DEF ValidationRow
  <2>2. QED
    BY <1>1, <2>1 DEF Inv, Types
<1>6. Types'
  BY <1>1, <1>3, <1>4, <1>5, Ended DEF Inv, Types, SameConfigs
<1>7. ProjectOK' /\ VersionsStay
  BY <1>1, <1>3, <1>4, VersionTypes DEF Inv, ProjectOK, Exists, VersionsStay, SameConfigs
<1>8. \A p \in Ops \ {o} : RowKept(p)
  BY <1>5 DEF RowKept
<1>9. Answered(o)
  <2>1. validations'[o] = IF validations[o] = None THEN None
                          ELSE [validations[o] EXCEPT !.status = result]
    BY <1>1 DEF Inv, Types
  <2>2. CASE validations[o] = None
    BY <1>1, <2>1, <2>2 DEF Answered
  <2>3. CASE validations[o] # None
    <3>1. validations[o] \in ValidationRow
      BY <2>3 DEF Inv, Types
    <3>2. /\ validations'[o].version = validations[o].version
          /\ validations'[o].status = result
      BY <2>1, <2>3, <3>1 DEF ValidationRow
    <3>3. QED
      BY <1>1, <2>3, <3>2 DEF Answered, Outcome
  <2>4. QED
    BY <2>2, <2>3
<1>10. QED
  BY <1>1, <1>6, <1>7, <1>8, <1>9, Ended, OthersKept

(* The secret of the next version is none, a new one or one that is there. *)
LEMMA StoredSecretTypes ==
    ASSUME Types, NEW o \in Ops, loc[o].want \in Request, NEW current \in Ops \cup {None},
           NEW secret \in StoredSecret(o, current)
    PROVE  secret \in {None, o} \cup secrets /\ secret \in Ops \cup {None}
<1>1. loc[o].want.secret \in Ops \cup {None, "raw", "retain"}
  BY DEF Request
<1>2. CASE loc[o].want.secret = None
  BY <1>2 DEF StoredSecret
<1>3. CASE loc[o].want.secret = "raw"
  BY <1>3, ConstantsAssumption DEF StoredSecret
<1>4. CASE loc[o].want.secret = "retain"
  BY <1>4, ConstantsAssumption DEF StoredSecret, Types
<1>5. CASE loc[o].want.secret \in Ops
  <2>1. secret \in secrets
    BY <1>5, ConstantsAssumption DEF StoredSecret
  <2>2. QED
    BY <2>1 DEF Types
<1>6. QED
  BY <1>1, <1>2, <1>3, <1>4, <1>5

(* What the first transaction of a configuration change is made of.        *)
ChangeFrom(o, secret, next) ==
    /\ secret \in StoredSecret(o, versions[Base(o)].config.secret)
    /\ next = [loc[o].want EXCEPT !.secret = secret]

(* The next version is appended, with all that depends on it.              *)
Changed(o, secret, next) ==
    LET current == versions[Base(o)].config
        new == Base(o) + 1
        affecting == Signature(current) # Signature(next)
        free == affecting /\ Free(next)
        skipped == affecting /\ loc[o].skip
        status == IF free THEN "not_required" ELSE IF skipped THEN "skipped"
                  ELSE IF affecting THEN "running" ELSE "inherited"
        active == IF free \/ (~affecting /\ project.active # 0) THEN new ELSE project.active
        row == [project EXCEPT
                  !.latest = new, !.active = active,
                  !.activeVal = IF free THEN o ELSE @,
                  !.status = IF free THEN "valid" ELSE IF skipped THEN "invalid" ELSE @]
    IN
    /\ Legal(row)
    /\ ~affecting => project.activeVal # None
    /\ versions' = Append(versions,
           [config |-> next, status |-> status,
            inherited |-> IF affecting THEN None ELSE project.activeVal])
    /\ validations' = [validations EXCEPT ![o] =
           IF affecting THEN [version |-> new, status |-> status, archived |-> FALSE] ELSE @]
    /\ secrets' = secrets \cup ({secret} \ {None})
    /\ project' = row
    /\ IF status = "running"
       THEN /\ Goto(o, "concluding")
            /\ loc' = [loc EXCEPT ![o].version = new, ![o].active = project.active,
                                  ![o].activeVal = project.activeVal]
       ELSE End(o)

(* A configuration change changes nothing, or appends a version.           *)
LEMMA ApplyChanges ==
    ASSUME NEW o \in Ops, Apply(o)
    PROVE  /\ pc[o] = "applying" /\ Exists
           /\ \/ End(o) /\ UNCHANGED tables
              \/ \E secret, next : ChangeFrom(o, secret, next) /\ Changed(o, secret, next)
<1>1. pc[o] = "applying" /\ Exists
  BY DEF Apply
<1>2. PICK secret \in StoredSecret(o, versions[Base(o)].config.secret) :
        LET current == versions[Base(o)].config
            next == [loc[o].want EXCEPT !.secret = secret]
        IN \/ next = current /\ End(o) /\ UNCHANGED tables
           \/ next # current /\ Changed(o, secret, next)
  BY DEF Apply, Changed
<1>3. QED
  BY <1>1, <1>2 DEF ChangeFrom

(* What a change wants and appends is a configuration.                     *)
LEMMA NextTypes ==
    ASSUME Inv, NEW o \in Ops, pc[o] = "applying", Exists, NEW secret, NEW next,
           ChangeFrom(o, secret, next)
    PROVE  /\ Base(o) = Len(versions) /\ Len(versions) \in Nat \ {0}
           /\ versions[Base(o)] \in VersionRow
           /\ next \in Config /\ next.secret = secret
           /\ secret \in {None, o} \cup secrets /\ secret \in Ops \cup {None}
           /\ validations[o] = None
<1>1. LocalOK(o) /\ Fresh(o)
  BY DEF Inv, LocalsOK, Fresh
<1>2. Len(versions) \in Nat
  BY VersionTypes DEF Inv
<1>3. Base(o) = Len(versions) /\ Len(versions) # 0
  BY DEF Inv, ProjectOK, Base
<1>4. versions[Base(o)] \in VersionRow
  BY <1>2, <1>3, VersionTypes DEF Inv
<1>5. versions[Base(o)].config.secret \in Ops \cup {None}
  BY <1>4 DEF VersionRow, Config
<1>6. loc[o].want \in Request
  BY <1>1 DEF LocalOK
<1>7. secret \in {None, o} \cup secrets /\ secret \in Ops \cup {None}
  BY <1>5, <1>6, StoredSecretTypes DEF ChangeFrom, Inv
<1>8. next \in Config /\ next.secret = secret
  BY <1>6, <1>7 DEF ChangeFrom, Request, Config
<1>9. QED
  BY <1>1, <1>2, <1>3, <1>4, <1>7, <1>8 DEF LocalOK

(* The versions after a change are those before and one more.              *)
LEMMA VersionAppended ==
    ASSUME Types, NEW row \in VersionRow, versions' = Append(versions, row)
    PROVE  /\ versions' \in Seq(VersionRow)
           /\ Len(versions') = Len(versions) + 1
           /\ \A v \in 1 .. Len(versions) : versions'[v] = versions[v]
           /\ versions'[Len(versions) + 1] = row
BY DEF Types

(* How a change by invocation o leaves the tables, once it has appended the *)
(* row of version new: one that inherits, or one with a validation.        *)
Appended(o, secret, next, new, row) ==
    /\ row.config = next
    /\ versions' = Append(versions, row)
    /\ versions' \in Seq(VersionRow)
    /\ Len(versions') = new
    /\ \A v \in 1 .. Len(versions) : versions'[v] = versions[v]
    /\ versions'[new] = row
    /\ validations' \in [Ops -> ValidationRow \cup {None}]
    /\ \A p \in Ops \ {o} : validations'[p] = validations[p]
    /\ project' \in ProjectRow /\ Legal(project')
    /\ project'.latest = new /\ project'.pre = project.pre
    /\ project'.status \in {project.status, "valid", "invalid"}
    /\ secrets' = secrets \cup ({secret} \ {None})
    /\ \/ /\ row.status = "inherited"
          /\ Signature(next) = Signature(versions[Len(versions)].config)
          /\ validations'[o] = None
          /\ project.activeVal # None
          /\ project'.status = project.status
          /\ project'.activeVal = project.activeVal
          /\ project'.active = IF project.active # 0 THEN new ELSE 0
          /\ End(o)
       \/ /\ row.status \in {"not_required", "skipped", "running"}
          /\ validations'[o] = [version |-> new, status |-> row.status,
                                archived |-> FALSE]
          /\ row.status = "not_required" =>
                /\ project'.status = "valid"
                /\ project'.active = new /\ project'.activeVal = o
          /\ row.status = "skipped" => project'.status = "invalid"
          /\ row.status = "running" => project'.status = project.status
          /\ row.status # "not_required" =>
                /\ project'.active = project.active
                /\ project'.activeVal = project.activeVal
          /\ row.status # "running" => End(o)
          /\ row.status = "running" =>
                /\ Goto(o, "concluding")
                /\ loc' = [loc EXCEPT ![o].version = new, ![o].active = project.active,
                                      ![o].activeVal = project.activeVal]

(* A change appends such a row.                                            *)
LEMMA ChangedRows ==
    ASSUME Inv, NEW o \in Ops, pc[o] = "applying", Exists, NEW secret, NEW next,
           ChangeFrom(o, secret, next), Changed(o, secret, next),
           NEW new, new = Len(versions) + 1
    PROVE  \E row \in VersionRow : Appended(o, secret, next, new, row)
<1> DEFINE current == versions[Base(o)].config
           affecting == Signature(current) # Signature(next)
           free == affecting /\ Free(next)
           skipped == affecting /\ loc[o].skip
           status == IF free THEN "not_required" ELSE IF skipped THEN "skipped"
                     ELSE IF affecting THEN "running" ELSE "inherited"
           active == IF free \/ (~affecting /\ project.active # 0) THEN new ELSE project.active
           then == [project EXCEPT
                     !.latest = new, !.active = active,
                     !.activeVal = IF free THEN o ELSE @,
                     !.status = IF free THEN "valid" ELSE IF skipped THEN "invalid" ELSE @]
           row == [config |-> next, status |-> status,
                   inherited |-> IF affecting THEN None ELSE project.activeVal]
           val == [version |-> new, status |-> status, archived |-> FALSE]
<1>1. /\ Base(o) = Len(versions) /\ Len(versions) \in Nat \ {0} /\ next \in Config
      /\ validations[o] = None /\ new = Base(o) + 1
  BY NextTypes
<1>2. /\ Legal(then) /\ (~affecting => project.activeVal # None)
      /\ versions' = Append(versions, row)
      /\ validations' = [validations EXCEPT ![o] = IF affecting THEN val ELSE @]
      /\ secrets' = secrets \cup ({secret} \ {None})
      /\ project' = then
      /\ IF status = "running"
         THEN /\ Goto(o, "concluding")
              /\ loc' = [loc EXCEPT ![o].version = new, ![o].active = project.active,
                                    ![o].activeVal = project.activeVal]
         ELSE End(o)
  BY <1>1 DEF Changed
<1>3. project \in ProjectRow
  BY DEF Inv, Types
<1>4. row \in VersionRow
  BY <1>1, <1>3 DEF VersionRow, ProjectRow
<1>5. row.config = next /\ row.status = status
  OBVIOUS
<1>6. /\ versions' \in Seq(VersionRow) /\ Len(versions') = new
      /\ \A v \in 1 .. Len(versions) : versions'[v] = versions[v]
      /\ versions'[new] = row
  BY <1>2, <1>4, VersionAppended DEF Inv
<1>7. affecting => val \in ValidationRow
  BY <1>1 DEF ValidationRow
<1>8. /\ validations' \in [Ops -> ValidationRow \cup {None}]
      /\ \A p \in Ops \ {o} : validations'[p] = validations[p]
      /\ validations'[o] = IF affecting THEN val ELSE None
  BY <1>1, <1>2, <1>7 DEF Inv, Types
<1>9. /\ project' \in ProjectRow /\ Legal(project') /\ project'.latest = new
      /\ project'.pre = project.pre /\ project'.active = active
      /\ project'.activeVal = (IF free THEN o ELSE project.activeVal)
      /\ project'.status = IF free THEN "valid" ELSE IF skipped THEN "invalid" ELSE project.status
  <2> DEFINE pair == IF free THEN o ELSE project.activeVal
             st == IF free THEN "valid" ELSE IF skipped THEN "invalid" ELSE project.status
  <2>1. active \in Nat /\ pair \in Ops \cup {None} /\ st \in {"absent", "valid", "invalid", "archived", "removed"}
    BY <1>1, <1>3 DEF ProjectRow
  <2>2. then = [project EXCEPT !.latest = new, !.active = active, !.activeVal = pair, !.status = st]
    BY <1>3 DEF ProjectRow
  <2>3. new \in Nat
    BY <1>1
  <2> HIDE DEF active, pair, st
  <2>4. /\ then \in ProjectRow /\ then.latest = new /\ then.pre = project.pre
        /\ then.active = active /\ then.activeVal = pair /\ then.status = st
    BY <1>3, <2>1, <2>2, <2>3 DEF ProjectRow
  <2>5. QED
    BY <1>2, <2>4 DEF pair, st
<1>10. CASE ~affecting
  <2>1. row.status = "inherited" /\ End(o)
    BY <1>2, <1>5, <1>10
  <2>2. Signature(next) = Signature(versions[Len(versions)].config)
    BY <1>1, <1>10
  <2>3. validations'[o] = None /\ project.activeVal # None
    BY <1>2, <1>8, <1>10
  <2>4. /\ project'.status = project.status /\ project'.activeVal = project.activeVal
        /\ project'.active = IF project.active # 0 THEN new ELSE 0
    BY <1>9, <1>10
  <2>5. QED
    BY <1>2, <1>4, <1>5, <1>6, <1>8, <1>9, <2>1, <2>2, <2>3, <2>4 DEF Appended
<1>11. CASE affecting
  <2>1. validations'[o] = [version |-> new, status |-> row.status, archived |-> FALSE]
    BY <1>5, <1>8, <1>11
  <2>2. row.status \in {"not_required", "skipped", "running"}
    BY <1>5, <1>11
  <2>3. /\ row.status = "not_required" <=> free
        /\ row.status = "skipped" <=> ~free /\ skipped
        /\ row.status = "running" <=> ~free /\ ~skipped
    BY <1>5, <1>11
  <2>4. /\ row.status = "not_required" =>
              /\ project'.status = "valid" /\ project'.active = new /\ project'.activeVal = o
        /\ row.status = "skipped" => project'.status = "invalid"
        /\ row.status = "running" => project'.status = project.status
        /\ row.status # "not_required" =>
              /\ project'.active = project.active
              /\ project'.activeVal = project.activeVal
    BY <1>9, <1>11, <2>3
  <2>5. /\ row.status # "running" => End(o)
        /\ row.status = "running" =>
              /\ Goto(o, "concluding")
              /\ loc' = [loc EXCEPT ![o].version = new, ![o].active = project.active,
                                    ![o].activeVal = project.activeVal]
    BY <1>2, <1>5
  <2>6. project'.status \in {project.status, "valid", "invalid"}
    BY <1>9
  <2> HIDE DEF row, then, val, status, active, affecting, free, skipped
  <2>7. QED
    BY <1>2, <1>4, <1>5, <1>6, <1>8, <1>9, <2>1, <2>2, <2>4, <2>5, <2>6 DEF Appended
<1>12. QED
  BY <1>10, <1>11

(* A configuration change keeps the invariant.                             *)
LEMMA ApplyInv == ASSUME Inv, NEW o \in Ops, Apply(o) PROVE StepOK
<1>1. pc[o] = "applying" /\ Exists /\ Fresh(o)
  BY ApplyChanges DEF Fresh
<1>2. CASE End(o) /\ UNCHANGED tables
  <2>1. Types'
    BY <1>2, Ended DEF Inv, Types, tables
  <2>2. ProjectOK'
    BY <1>1, <1>2 DEF Inv, ProjectOK, Exists, tables
  <2>3. Len(versions') >= Len(versions)
    BY <1>2, VersionTypes DEF tables, Inv
  <2>4. \A p \in Ops : RowKept(p)
    BY <1>2, RowsUntouched DEF tables
  <2>5. QED
    BY <1>1, <1>2, <2>1, <2>2, <2>3, <2>4, Ended, OthersKept DEF VersionsStay
<1>3. CASE \E secret, next : ChangeFrom(o, secret, next) /\ Changed(o, secret, next)
  <2>1. PICK secret, next : ChangeFrom(o, secret, next) /\ Changed(o, secret, next)
    BY <1>3
  <2> DEFINE new == Len(versions) + 1
  <2>0. PICK row \in VersionRow : Appended(o, secret, next, new, row)
    BY <1>1, <2>1, ChangedRows
  <2>2.
          /\ versions' \in Seq(VersionRow)
          /\ Len(versions') = new
          /\ validations' \in [Ops -> ValidationRow \cup {None}]
          /\ \A p \in Ops \ {o} : validations'[p] = validations[p]
          /\ project' \in ProjectRow /\ Legal(project')
          /\ project'.latest = new
          /\ project'.status \in {project.status, "valid", "invalid"}
          /\ secrets' = secrets \cup ({secret} \ {None})
          /\ \/ End(o)
             \/ /\ Goto(o, "concluding")
                /\ loc' = [loc EXCEPT ![o].version = new, ![o].active = project.active,
                                      ![o].activeVal = project.activeVal]
                /\ row.status = "running"
                /\ validations'[o] = [version |-> new, status |-> row.status, archived |-> FALSE]
    BY <2>0 DEF Appended
  <2>3. Len(versions) \in Nat /\ new \in Nat \ {0}
    BY VersionTypes DEF Inv
  <2>4. secrets' \subseteq Ops
    BY <1>1, <2>1, <2>2, NextTypes DEF Inv, Types
  <2>5. Exists' /\ project'.status # "absent"
    BY <1>1, <2>2 DEF Exists
  <2>6. ProjectOK'
    BY <2>2, <2>3, <2>5 DEF ProjectOK
  <2>7. Len(versions') >= Len(versions)
    BY <2>2, <2>3
  <2>8. \A p \in Ops \ {o} : RowKept(p)
    BY <2>2 DEF RowKept
  <2>9. /\ pc' \in [Ops -> PC] /\ loc' \in [Ops -> Loc]
        /\ \A p \in Ops \ {o} : pc'[p] = pc[p] /\ loc'[p] = loc[p]
        /\ LocalOK(o)'
    <3>1. CASE End(o)
      BY <3>1, Ended
    <3>2. CASE /\ Goto(o, "concluding")
               /\ loc' = [loc EXCEPT ![o].version = new, ![o].active = project.active,
                                     ![o].activeVal = project.activeVal]
               /\ row.status = "running"
               /\ validations'[o] = [version |-> new, status |-> row.status, archived |-> FALSE]
      <4> DEFINE mine == [loc[o] EXCEPT !.version = new, !.active = project.active,
                                        !.activeVal = project.activeVal]
      <4>1. mine \in Loc /\ mine.version = new
        BY <2>3 DEF Inv, Types, Loc, ProjectRow
      <4>2. loc' = [loc EXCEPT ![o] = mine] /\ pc' = [pc EXCEPT ![o] = "concluding"]
        BY <3>2 DEF Goto
      <4>3. loc' \in [Ops -> Loc] /\ loc'[o].version = new /\ \A p \in Ops \ {o} : loc'[p] = loc[p]
        BY <4>1, <4>2 DEF Inv, Types
      <4>4. pc' \in [Ops -> PC] /\ pc'[o] = "concluding" /\ \A p \in Ops \ {o} : pc'[p] = pc[p]
        BY <4>2 DEF Inv, Types, PC
      <4>5. validations'[o].version = new /\ validations'[o].status = "running"
        BY <3>2
      <4>6. new # 0 /\ new <= Len(versions')
        BY <2>2, <2>3
      <4>7. LocalOK(o)'
        BY <4>3, <4>4, <4>5, <4>6 DEF LocalOK, Fresh
      <4>8. QED
        BY <4>3, <4>4, <4>7
    <3>3. QED
      BY <2>2, <3>1, <3>2
  <2>10. Types'
    BY <2>2, <2>4, <2>9 DEF Types
  <2>11. VersionsStay
    BY <1>1, <2>7 DEF VersionsStay
  <2>12. QED
    BY <1>1, <2>6, <2>8, <2>9, <2>10, <2>11, OthersKept
<1>4. QED
  BY <1>2, <1>3, ApplyChanges

(* The interruption of stale records, whoever does it, keeps the tables'   *)
(* part of the invariant.                                                  *)
LEMMA InterruptedTables ==
    ASSUME Inv, Legal(InterruptedProject), versions' = InterruptedVersions,
           project' = InterruptedProject
    PROVE  /\ versions' \in Seq(VersionRow)
           /\ project' \in ProjectRow /\ Legal(project')
           /\ VersionsStay
           /\ project.status # "absent" => ProjectOK'
<1>1. versions' \in Seq(VersionRow) /\ Len(versions') = Len(versions)
  BY InterruptedVersionsKept DEF Inv, SameConfigs
<1>2. /\ project' \in ProjectRow /\ Legal(project')
      /\ project'.latest = project.latest /\ project'.pre = project.pre
      /\ project'.activeVal = project.activeVal
      /\ project'.status \in {project.status, "invalid"}
      /\ project'.status # project.status => Exists
  BY InterruptedProjectKept DEF Inv
<1>3. (Exists' <=> Exists) /\ (project'.status = "absent" => project.status = "absent")
  BY <1>2 DEF Exists
<1>4. Len(versions) \in Nat
  BY VersionTypes DEF Inv
<1>5. Len(versions') >= Len(versions)
  BY <1>1, <1>4
<1>6. VersionsStay
  BY <1>3, <1>5 DEF VersionsStay
<1>7. project.status # "absent" => ProjectOK'
  BY <1>1, <1>2, <1>3 DEF Inv, ProjectOK
<1>8. QED
  BY <1>1, <1>2, <1>6, <1>7

(* A validation is archived or brought back.                               *)
LEMMA ValArchiveInv ==
    ASSUME Inv, NEW o \in Ops, NEW w \in Ops, NEW archived \in BOOLEAN, ValArchive(o, w, archived)
    PROVE  StepOK
<1>1. /\ pc[o] = "selecting" /\ validations[w] # None /\ Legal(InterruptedProject)
      /\ validations' = [InterruptedValidations EXCEPT ![w].archived = archived]
      /\ versions' = InterruptedVersions /\ project' = InterruptedProject
      /\ secrets' = secrets /\ End(o)
  BY DEF ValArchive
<1>2. InterruptedValidations[w] \in ValidationRow
  BY <1>1, InterruptedRows DEF Inv
<1>3. \A row \in ValidationRow :
        /\ [row EXCEPT !.archived = archived] \in ValidationRow
        /\ [row EXCEPT !.archived = archived].version = row.version
        /\ [row EXCEPT !.archived = archived].status = row.status
  BY DEF ValidationRow
<1>4. /\ validations' \in [Ops -> ValidationRow \cup {None}]
      /\ validations'[w].version = InterruptedValidations[w].version
      /\ validations'[w].status = InterruptedValidations[w].status
      /\ \A p \in Ops \ {w} : validations'[p] = InterruptedValidations[p]
  BY <1>1, <1>2, <1>3, InterruptedRows DEF Inv
<1>5. RowKept(w)
  BY <1>1, <1>4, InterruptedRows DEF Inv, RowKept
<1>6. \A p \in Ops : RowKept(p)
  BY <1>4, <1>5, RowsInterrupted DEF Inv
<1>7. Types'
  BY <1>1, <1>4, InterruptedTables, Ended DEF Inv, Types
<1>8. ProjectOK' /\ VersionsStay
  BY <1>1, InterruptedTables DEF Inv, ProjectOK
<1>9. QED
  BY <1>1, <1>6, <1>7, <1>8, Ended, OthersKept

(* A validation to remove is chosen.                                       *)
LEMMA ValRemovePreflightInv ==
    ASSUME Inv, NEW o \in Ops, NEW w \in Ops, ValRemovePreflight(o, w) PROVE StepOK
<1>1. /\ pc[o] = "selecting" /\ validations[w] # None /\ Legal(InterruptedProject)
      /\ validations' = InterruptedValidations /\ secrets' = secrets
      /\ versions' = InterruptedVersions /\ project' = InterruptedProject
      /\ loc' = [loc EXCEPT ![o].target = w]
      /\ pc' = [pc EXCEPT ![o] = "removing validation"]
  BY DEF ValRemovePreflight, Goto
<1>2. [loc[o] EXCEPT !.target = w] \in Loc /\ [loc[o] EXCEPT !.target = w].target = w
  BY DEF Inv, Types, Loc
<1>3. loc' \in [Ops -> Loc] /\ loc'[o].target = w /\ \A p \in Ops \ {o} : loc'[p] = loc[p]
  BY <1>1, <1>2 DEF Inv, Types
<1>4. /\ pc' \in [Ops -> PC] /\ pc'[o] = "removing validation"
      /\ \A p \in Ops \ {o} : pc'[p] = pc[p]
  BY <1>1 DEF Inv, Types, PC
<1>5. \A p \in Ops : RowKept(p)
  BY <1>1, RowsInterrupted DEF Inv
<1>6. Types'
  BY <1>1, <1>3, <1>4, InterruptedRows, InterruptedTables DEF Inv, Types
<1>7. ProjectOK' /\ VersionsStay
  BY <1>1, InterruptedTables DEF Inv, ProjectOK
<1>8. pc[w] \notin {"idle", "selecting", "applying"}
  BY <1>1 DEF Inv, LocalsOK, LocalOK, Fresh
<1>9. pc'[w] \notin {"idle", "selecting", "applying"}
  BY <1>4, <1>8
<1>10. LocalOK(o)'
  BY <1>3, <1>4, <1>9 DEF LocalOK, Fresh
<1>11. Fresh(o)
  BY <1>1 DEF Fresh
<1>12. QED
  BY <1>3, <1>4, <1>5, <1>6, <1>7, <1>10, <1>11, OthersKept

(* Its row is deleted.                                                     *)
LEMMA ValRemoveInv == ASSUME Inv, NEW o \in Ops, ValRemove(o) PROVE StepOK
<1>1. /\ pc[o] = "removing validation" /\ End(o) /\ UNCHANGED <<project, versions, secrets>>
      /\ validations' = [validations EXCEPT ![loc[o].target] = None]
  BY DEF ValRemove
<1>2. /\ validations' \in [Ops -> ValidationRow \cup {None}]
      /\ \A p \in Ops : validations'[p] \in {validations[p], None}
  BY <1>1 DEF Inv, Types
<1>3. Types'
  BY <1>1, <1>2, Ended DEF Inv, Types, Legal
<1>4. ProjectOK'
  BY <1>1 DEF Inv, ProjectOK, Exists
<1>5. Exists' <=> Exists
  BY <1>1 DEF Exists
<1>6. Len(versions') >= Len(versions)
  BY <1>1, NoneAppended DEF Inv
<1>7. \A p \in Ops : RowKept(p)
  BY <1>2 DEF RowKept
<1>8. QED
  BY <1>1, <1>3, <1>4, <1>5, <1>6, <1>7, Ended, OthersKept DEF VersionsStay

(* The process of an invocation ends.                                      *)
LEMMA CrashInv == ASSUME Inv, NEW o \in Ops, Crash(o) PROVE StepOK
<1>1. pc[o] # "idle" /\ End(o) /\ UNCHANGED <<project, versions, validations, secrets>>
  BY DEF Crash, tables
<1>2. Types'
  BY <1>1, Ended DEF Inv, Types, Legal
<1>3. ProjectOK'
  BY <1>1 DEF Inv, ProjectOK, Exists
<1>4. Exists' <=> Exists
  BY <1>1 DEF Exists
<1>5. Len(versions') >= Len(versions)
  BY <1>1, NoneAppended DEF Inv
<1>6. \A p \in Ops : RowKept(p)
  BY <1>1, RowsUntouched
<1>7. QED
  BY <1>1, <1>2, <1>3, <1>4, <1>5, <1>6, Ended, OthersKept DEF VersionsStay

(* The removal of the project, before and after it is asked about.         *)
LEMMA ProjectRemoveInv ==
    ASSUME Inv, NEW o \in Ops, ProjectRemovePreflight(o) \/ ProjectRemove(o) PROVE StepOK
<1>1. CASE ProjectRemovePreflight(o)
  <2>1. /\ pc[o] = "idle" /\ project.status = "archived" /\ loc' = loc
        /\ pc' = [pc EXCEPT ![o] = "removing project"]
        /\ UNCHANGED <<project, versions, validations, secrets>>
    BY <1>1 DEF ProjectRemovePreflight, Goto, tables
  <2>2. /\ pc' \in [Ops -> PC] /\ pc'[o] = "removing project"
        /\ \A p \in Ops \ {o} : pc'[p] = pc[p]
    BY <2>1 DEF Inv, Types, PC
  <2>3. Types'
    BY <2>1, <2>2 DEF Inv, Types, Legal
  <2>4. ProjectOK'
    BY <2>1 DEF Inv, ProjectOK, Exists
  <2>5. LocalOK(o)' /\ Fresh(o)
    BY <2>1, <2>2 DEF LocalOK, Fresh
  <2>6. Exists' <=> Exists
    BY <2>1 DEF Exists
  <2>7. Len(versions') >= Len(versions)
    BY <2>1, NoneAppended DEF Inv
  <2>8. \A p \in Ops : RowKept(p)
    BY <2>1, RowsUntouched
  <2>9. QED
    BY <2>1, <2>2, <2>3, <2>4, <2>5, <2>6, <2>7, <2>8, OthersKept DEF VersionsStay
<1>2. CASE ProjectRemove(o)
  <2>1. /\ End(o) /\ versions' = <<>> /\ validations' = [w \in Ops |-> None] /\ secrets' = {}
        /\ project' = [status |-> "removed", pre |-> None, latest |-> 0, active |-> 0,
                       activeVal |-> None]
    BY <1>2 DEF ProjectRemove
  <2>2. versions' \in Seq(VersionRow) /\ Len(versions') = 0
    BY <2>1, EmptySeq
  <2>3. Types'
    BY <2>1, <2>2, Ended DEF Types, Legal, ProjectRow
  <2>4. ProjectOK' /\ VersionsStay
    BY <2>1, <2>2 DEF ProjectOK, Exists, VersionsStay
  <2>5. \A p \in Ops : RowKept(p)
    BY <2>1 DEF RowKept
  <2>6. QED
    BY <2>1, <2>3, <2>4, <2>5, Ended, OthersKept
<1>3. QED
  BY <1>1, <1>2

(* What no invocation of the model does for itself.                        *)
LEMMA OutsideInv ==
    ASSUME Inv, InterruptStale \/ SecretGc \/ ProjectArchive \/ ProjectUnarchive PROVE StepOK
<1>1. CASE InterruptStale
  <2>1. /\ Exists /\ Legal(InterruptedProject) /\ validations' = InterruptedValidations
        /\ versions' = InterruptedVersions /\ project' = InterruptedProject
        /\ secrets' = secrets /\ pc' = pc /\ loc' = loc
    BY <1>1 DEF InterruptStale
  <2>2. Types'
    BY <2>1, InterruptedRows, InterruptedTables DEF Inv, Types
  <2>3. ProjectOK' /\ VersionsStay
    BY <2>1, InterruptedTables DEF Exists
  <2>4. \A p \in Ops : RowKept(p)
    BY <2>1, RowsInterrupted DEF Inv
  <2>5. QED
    BY <2>1, <2>2, <2>3, <2>4, AllKept
<1>2. ASSUME UNCHANGED <<versions, validations, pc, loc>>, secrets' \subseteq Ops, Exists,
             project' \in ProjectRow, Legal(project'), project'.latest = project.latest,
             project'.status \in {"valid", "invalid", "archived"}
      PROVE  StepOK
  <2>1. Types'
    BY <1>2 DEF Inv, Types
  <2>2. Exists' /\ project'.status # "absent"
    BY <1>2 DEF Exists
  <2>3. Len(versions') >= Len(versions) /\ Len(versions') = Len(versions)
    BY <1>2, VersionTypes DEF Inv
  <2>4. ProjectOK'
    BY <1>2, <2>2, <2>3 DEF Inv, ProjectOK
  <2>5. \A p \in Ops : RowKept(p)
    BY <1>2, RowsUntouched
  <2>6. QED
    BY <1>2, <2>1, <2>3, <2>4, <2>5, AllKept DEF VersionsStay
<1>3. project \in ProjectRow
  BY DEF Inv, Types
<1>4. CASE SecretGc
  <2>1. project' = project /\ Legal(project') /\ project'.status \in {"valid", "invalid", "archived"}
    BY <1>3, <1>4 DEF SecretGc, Exists, ProjectRow, Inv, Types, Legal
  <2>2. QED
    BY <1>2, <1>3, <1>4, <2>1 DEF SecretGc, Inv, Types
<1>5. CASE ProjectArchive
  <2>1. /\ project'.status = "archived" /\ project'.latest = project.latest
        /\ project'.pre = project.status /\ project' \in ProjectRow
        /\ project'.pre \in {"valid", "invalid"}
    BY <1>3, <1>5 DEF ProjectArchive, Exists, ProjectRow
  <2>2. Legal(project')
    BY <2>1, ConstantsAssumption DEF Legal
  <2>3. QED
    BY <1>2, <1>5, <2>1, <2>2 DEF ProjectArchive, Inv, Types
<1>6. CASE ProjectUnarchive
  <2>1. Restored \in {"valid", "invalid"}
    BY <1>3 DEF Restored, ProjectRow
  <2>2. /\ project'.status = Restored /\ project'.latest = project.latest
        /\ project'.pre = None /\ project' \in ProjectRow
    BY <1>3, <1>6, <2>1 DEF ProjectUnarchive, ProjectRow
  <2>3. Legal(project')
    BY <2>1, <2>2 DEF Legal
  <2>4. Exists
    BY <1>6 DEF ProjectUnarchive, Exists
  <2>5. QED
    BY <1>2, <1>6, <2>1, <2>2, <2>3, <2>4 DEF ProjectUnarchive, Inv, Types
<1>7. QED
  BY <1>1, <1>4, <1>5, <1>6

(* Every step keeps the invariant.                                         *)
LEMMA StepInv == ASSUME Inv, [Next]_vars PROVE StepOK
<1>1. CASE Next
  <2>1. CASE InterruptStale \/ SecretGc \/ ProjectArchive \/ ProjectUnarchive
    BY <2>1, OutsideInv
  <2>2. ASSUME NEW o \in Ops, OpStep(o) PROVE StepOK
    <3>1. CASE \E config \in Config, skip \in BOOLEAN : InitRows(o, config, skip)
      BY <3>1, InitRowsInv
    <3>2. CASE InitSkip(o)
      BY <3>2, InitSkipInv
    <3>3. CASE Select(o) \/ Import(o) \/ Edit(o)
      BY <3>3, ReadInv
    <3>4. CASE Validate(o)
      BY <3>4, ValidateInv
    <3>5. CASE ConcludeFree(o)
      BY <3>5, ConcludeFreeInv
    <3>6. CASE \E result \in Outcome : Conclude(o, result)
      BY <3>6, ConcludeInv
    <3>7. CASE Apply(o)
      BY <3>7, ApplyInv
    <3>8. CASE \E w \in Ops, archived \in BOOLEAN : ValArchive(o, w, archived)
      BY <3>8, ValArchiveInv
    <3>9. CASE \E w \in Ops : ValRemovePreflight(o, w)
      BY <3>9, ValRemovePreflightInv
    <3>10. CASE ValRemove(o)
      BY <3>10, ValRemoveInv
    <3>11. CASE ProjectRemovePreflight(o) \/ ProjectRemove(o)
      BY <3>11, ProjectRemoveInv
    <3>12. CASE Crash(o)
      BY <3>12, CrashInv
    <3>13. QED
      BY <2>2, <3>1, <3>2, <3>3, <3>4, <3>5, <3>6, <3>7, <3>8, <3>9, <3>10, <3>11, <3>12
      DEF OpStep
  <2>3. QED
    BY <1>1, <2>1, <2>2 DEF Next
<1>2. CASE UNCHANGED vars
  <2>1. Inv'
    BY <1>2 DEF vars, Inv, Types, Legal, ProjectOK, Exists, LocalsOK, LocalOK, Fresh
  <2>2. QED
    BY <1>2, <2>1, RowsUntouched DEF vars, StepOK, Moves, Forward, Fresh
<1>3. QED
  BY <1>1, <1>2

(* The inductive invariant.                                                *)
THEOREM Invariance == Spec => []Inv
<1>1. Init => Inv
  BY InitInv
<1>2. Inv /\ [Next]_vars => Inv'
  BY StepInv DEF StepOK
<1>3. QED
  BY <1>1, <1>2, PTL DEF Spec

(* Every variable has its type, and an archived project a status to go     *)
(* back to.                                                                *)
THEOREM TypeCorrect == Spec => []TypeOK
<1>1. Inv => TypeOK
  <2> SUFFICES ASSUME Inv PROVE TypeOK
    OBVIOUS
  <2>1. /\ DOMAIN versions = 1 .. Len(versions)
        /\ \A v \in DOMAIN versions : versions[v] \in VersionRow
    BY VersionTypes DEF Inv
  <2>2. QED
    BY <2>1 DEF Inv, Types, TypeOK
<1>2. QED
  BY <1>1, Invariance, PTL

(* No version is lost or skipped, whatever commands change the             *)
(* configuration at the same time.                                         *)
THEOREM NumberedInOrder == Spec => []VersionsInOrder
<1>1. Inv => VersionsInOrder
  BY DEF Inv, ProjectOK, VersionsInOrder
<1>2. QED
  BY <1>1, Invariance, PTL

(* A step appends a version, makes the first or deletes all, or leaves     *)
(* their configs and the secrets alone; or it collects secrets.            *)
LEMMA StepKinds ==
    ASSUME Inv, [Next]_vars
    PROVE  \/ SameConfigs(versions') /\ secrets' = secrets
           \/ SecretGc
           \/ \E o \in Ops : ProjectRemove(o)
           \/ \E o \in Ops, config \in Config, skip \in BOOLEAN : InitRows(o, config, skip)
           \/ \E o \in Ops : \E secret, next :
                 /\ pc[o] = "applying" /\ Exists
                 /\ ChangeFrom(o, secret, next) /\ Changed(o, secret, next)
<1>1. SameConfigs(versions) /\ SameConfigs(InterruptedVersions)
  BY VersionTypes, InterruptedVersionsKept DEF Inv
<1>2. CASE UNCHANGED vars
  BY <1>1, <1>2 DEF vars
<1>3. CASE InterruptStale \/ SecretGc \/ ProjectArchive \/ ProjectUnarchive
  BY <1>1, <1>3 DEF InterruptStale, ProjectArchive, ProjectUnarchive
<1>4. ASSUME NEW o \in Ops, OpStep(o)
      PROVE  \/ SameConfigs(versions') /\ secrets' = secrets
             \/ ProjectRemove(o)
             \/ \E config \in Config, skip \in BOOLEAN : InitRows(o, config, skip)
             \/ \E secret, next :
                   /\ pc[o] = "applying" /\ Exists
                   /\ ChangeFrom(o, secret, next) /\ Changed(o, secret, next)
  <2>1. CASE \/ Select(o) \/ Import(o) \/ Edit(o) \/ ConcludeFree(o)
             \/ ValRemove(o) \/ ProjectRemovePreflight(o) \/ Crash(o)
    <3>1. versions' = versions /\ secrets' = secrets
      BY <2>1 DEF Select, Import, Edit, AdminRead, ConcludeFree, ValRemove,
                  ProjectRemovePreflight, Crash, tables
    <3>2. QED
      BY <1>1, <3>1
  <2>2. CASE \E w \in Ops : \/ \E archived \in BOOLEAN : ValArchive(o, w, archived)
                            \/ ValRemovePreflight(o, w)
    BY <1>1, <2>2 DEF ValArchive, ValRemovePreflight
  <2>3. CASE InitSkip(o)
    <3>1. \A row \in VersionRow : /\ [row EXCEPT !.status = "skipped"] \in VersionRow
                                  /\ [row EXCEPT !.status = "skipped"].config = row.config
      BY DEF VersionRow
    <3>2. versions' \in [1 .. Len(versions) -> VersionRow]
          /\ \A v \in 1 .. Len(versions) : versions'[v].config = versions[v].config
      BY <2>3, <3>1, VersionTypes DEF InitSkip, Inv
    <3>3. versions \in Seq(VersionRow) /\ secrets' = secrets
      BY <2>3 DEF Inv, Types, InitSkip
    <3>4. QED
      BY <3>2, <3>3, SameLength DEF SameConfigs
  <2>4. CASE Validate(o)
    <3> DEFINE status == IF Free(versions[project.latest].config) THEN "not_required" ELSE "running"
    <3>1. SameConfigs([InterruptedVersions EXCEPT ![project.latest].status = status])
      BY <1>1, StatusWritten DEF Inv, VersionStatus
    <3>2. SameConfigs([InterruptedVersions EXCEPT ![project.latest].status = status,
                                                  ![project.latest].inherited = None])
      BY <3>1, StatusWritten DEF Inv, VersionStatus
    <3>3. QED
      BY <2>4, <3>2 DEF Validate
  <2>5. CASE \E result \in Outcome : Conclude(o, result)
    <3>1. PICK result \in Outcome : Conclude(o, result)
      BY <2>5
    <3>2. result \in VersionStatus
      BY DEF VersionStatus
    <3>3. QED
      BY <1>1, <3>1, <3>2, StatusWritten DEF Conclude, Inv
  <2>6. CASE Apply(o)
    <3>1. CASE UNCHANGED tables
      BY <1>1, <3>1 DEF tables
    <3>2. QED
      BY <2>6, <3>1, ApplyChanges
  <2>7. QED
    BY <1>4, <2>1, <2>2, <2>3, <2>4, <2>5, <2>6 DEF OpStep
<1>5. QED
  BY <1>2, <1>3, <1>4 DEF Next

(* Every secret that a version refers to is stored: what a change found    *)
(* stored, or stores itself, is there in its transaction, and only what no *)
(* version refers to is collected.                                         *)
THEOREM SecretsKept == Spec => []ReferencedSecretsKept
<1>1. Init => ReferencedSecretsKept
  BY EmptySeq DEF Init, ReferencedSecretsKept
<1>2. ASSUME Inv, Inv', ReferencedSecretsKept, [Next]_vars PROVE ReferencedSecretsKept'
  <2>1. /\ DOMAIN versions = 1 .. Len(versions) /\ DOMAIN versions' = 1 .. Len(versions')
        /\ Len(versions) \in Nat
    BY <1>2, LenProperties DEF Inv, Types
  <2>2. CASE SameConfigs(versions') /\ secrets' = secrets
    BY <1>2, <2>1, <2>2 DEF SameConfigs, ReferencedSecretsKept
  <2>3. CASE SecretGc
    <3>1. versions' = versions /\ secrets' = secrets \cap Referenced
      BY <2>3 DEF SecretGc
    <3>2. QED
      BY <1>2, <3>1 DEF Referenced, ReferencedSecretsKept
  <2>4. CASE \E o \in Ops : ProjectRemove(o)
    <3>1. versions' = <<>>
      BY <2>4 DEF ProjectRemove
    <3>2. QED
      BY <2>1, <3>1, EmptySeq DEF ReferencedSecretsKept
  <2>5. CASE \E o \in Ops, config \in Config, skip \in BOOLEAN : InitRows(o, config, skip)
    <3>1. PICK o \in Ops, config \in Config, skip \in BOOLEAN : InitRows(o, config, skip)
      BY <2>5
    <3>2. PICK row : versions' = <<row>> /\ row.config = config
      BY <3>1 DEF InitRows
    <3>3. DOMAIN versions' = {1} /\ versions'[1] = row
      BY <3>2
    <3>4. secrets' = secrets \cup ({config.secret} \ {None})
      BY <3>1 DEF InitRows
    <3>5. QED
      BY <3>2, <3>3, <3>4 DEF ReferencedSecretsKept
  <2>6. ASSUME NEW o \in Ops, NEW secret, NEW next, pc[o] = "applying", Exists,
               ChangeFrom(o, secret, next), Changed(o, secret, next)
        PROVE  ReferencedSecretsKept'
    <3>1. PICK row \in VersionRow : Appended(o, secret, next, Len(versions) + 1, row)
      BY <1>2, <2>6, ChangedRows
    <3>2. next.secret = secret
      BY <1>2, <2>6, NextTypes
    <3>3. /\ Len(versions') = Len(versions) + 1 /\ row.config = next
          /\ \A v \in 1 .. Len(versions) : versions'[v] = versions[v]
          /\ versions'[Len(versions) + 1] = row
          /\ secrets' = secrets \cup ({secret} \ {None})
      BY <3>1 DEF Appended
    <3>4. \A v \in 1 .. Len(versions) : versions'[v].config.secret \in secrets' \cup {None}
      BY <1>2, <2>1, <3>3 DEF ReferencedSecretsKept
    <3>5. versions'[Len(versions) + 1].config.secret \in secrets' \cup {None}
      BY <3>2, <3>3
    <3>6. \A v \in DOMAIN versions' : v \in 1 .. Len(versions) \/ v = Len(versions) + 1
      BY <2>1, <3>3
    <3>7. QED
      BY <3>4, <3>5, <3>6 DEF ReferencedSecretsKept
  <2>7. QED
    BY <1>2, <2>2, <2>3, <2>4, <2>5, <2>6, StepKinds
<1>3. QED
  BY <1>1, <1>2, Invariance, PTL DEF Spec

(* A validation chosen for removal does not run any more.                  *)
TargetsOK ==
    \A o \in Ops :
        pc[o] = "removing validation" /\ validations[loc[o].target] # None =>
            validations[loc[o].target].status # "running"

(* Nothing runs right after an interruption.                               *)
LEMMA NoneRuns ==
    ASSUME Types, NEW w \in Ops, validations'[w] = InterruptedValidations[w], validations'[w] # None
    PROVE  validations'[w].status # "running"
BY InterruptedRows

(* A validation that was recorded and does not run never runs again.       *)
LEMMA NeverRunsAgain ==
    ASSUME Inv, [Next]_vars, NEW w \in Ops, ~Fresh(w),
           validations[w] # None => validations[w].status # "running"
    PROVE  ~Fresh(w)' /\ (validations'[w] # None => validations'[w].status # "running")
<1>1. Forward(w) /\ (RowKept(w) \/ Answered(w))
  BY StepInv DEF StepOK, Moves
<1>2. QED
  BY <1>1 DEF Forward, RowKept, Answered

(* A change waits for its baseline, or is done.                            *)
LEMMA ApplyEnds == ASSUME NEW o \in Ops, Apply(o) PROVE Goto(o, "concluding") \/ End(o)
BY ApplyChanges DEF Changed

(* A step of an invocation is of nobody else.                              *)
LEMMA OthersStand ==
    ASSUME Inv, NEW o \in Ops, OpStep(o), NEW p \in Ops \ {o}
    PROVE  pc'[p] = pc[p] /\ loc'[p] = loc[p]
BY DEF Inv, Types, OpStep, InitRows, InitSkip, Select, Import, Edit, AdminRead, Validate,
   ConcludeFree, Conclude, Apply, ValArchive, ValRemovePreflight, ValRemove,
   ProjectRemovePreflight, ProjectRemove, Crash, End, Goto

(* What is chosen stays chosen well.                                       *)
LEMMA TargetsStay == ASSUME Inv, TargetsOK, [Next]_vars PROVE TargetsOK'
<1> SUFFICES ASSUME NEW o \in Ops, pc'[o] = "removing validation", validations'[loc'[o].target] # None
    PROVE  validations'[loc'[o].target].status # "running"
  BY DEF TargetsOK
<1>1. CASE pc[o] = "removing validation" /\ loc'[o] = loc[o]
  <2>1. PICK w \in Ops : w = loc[o].target /\ ~Fresh(w)
    BY <1>1 DEF Inv, LocalsOK, LocalOK
  <2>2. validations[w] # None => validations[w].status # "running"
    BY <1>1, <2>1 DEF TargetsOK
  <2>3. validations'[w] # None => validations'[w].status # "running"
    BY <2>1, <2>2, NeverRunsAgain
  <2>4. QED
    BY <1>1, <2>1, <2>3
<1>2. CASE \E w \in Ops : ValRemovePreflight(o, w)
  <2>1. PICK w \in Ops : ValRemovePreflight(o, w)
    BY <1>2
  <2>2. validations' = InterruptedValidations /\ loc'[o].target = w
    BY <2>1 DEF ValRemovePreflight, Inv, Types, Loc
  <2>3. QED
    BY <2>2, NoneRuns DEF Inv
<1>3. (pc[o] = "removing validation" /\ loc'[o] = loc[o]) \/ \E w \in Ops : ValRemovePreflight(o, w)
  <2>1. CASE UNCHANGED <<pc, loc>>
    BY <2>1
  <2>2. ASSUME NEW p \in Ops, OpStep(p)
        PROVE  \/ pc[o] = "removing validation" /\ loc'[o] = loc[o]
               \/ \E w \in Ops : ValRemovePreflight(o, w)
    <3>0. pc \in [Ops -> PC] /\ loc \in [Ops -> Loc]
      BY DEF Inv, Types
    <3>1. CASE p # o
      <4>1. pc'[o] = pc[o] /\ loc'[o] = loc[o]
        BY <2>2, <3>1, OthersStand
      <4>2. QED
        BY <4>1
    <3>2. CASE p = o
      <4>1. \/ pc'[o] # "removing validation"
            \/ \E w \in Ops : ValRemovePreflight(o, w)
        <5>1. CASE \E config \in Config, skip \in BOOLEAN : InitRows(o, config, skip)
          BY <3>0, <5>1 DEF InitRows, Goto
        <5>2. CASE Select(o) \/ Import(o) \/ Edit(o)
          BY <3>0, <5>2 DEF Select, Import, Edit, AdminRead, Goto
        <5>3. CASE Validate(o)
          BY <3>0, <5>3 DEF Validate, Goto
        <5>4. CASE Apply(o)
          <6>1. Goto(o, "concluding") \/ End(o)
            BY <5>4, ApplyEnds
          <6>2. QED
            BY <3>0, <6>1 DEF End, Goto
        <5>5. CASE End(o)
          BY <3>0, <5>5 DEF End, Goto
        <5>6. CASE ProjectRemovePreflight(o)
          BY <3>0, <5>6 DEF ProjectRemovePreflight, Goto
        <5>7. QED
          BY <2>2, <3>2, <5>1, <5>2, <5>3, <5>4, <5>5, <5>6 DEF OpStep, InitSkip, ConcludeFree,
             Conclude, ValArchive, ValRemove, ProjectRemove, Crash
      <4>2. QED
        BY <4>1
    <3>3. QED
      BY <3>1, <3>2
  <2>3. QED
    BY <2>1, <2>2 DEF Next, vars, InterruptStale, SecretGc, ProjectArchive, ProjectUnarchive
<1>4. QED
  BY <1>1, <1>2, <1>3

(* Right after an interruption, no version waits.                          *)
LEMMA NoneWaits ==
    ASSUME Inv, RunningReconcilable
    PROVE  \A v \in 1 .. Len(versions) : InterruptedVersions[v].status # "running"
BY InterruptedVersionsKept, VersionTypes DEF RunningReconcilable, Inv

(* A version waits as long as its running validation is there.             *)
LEMMA WaitingStays ==
    ASSUME RunningReconcilable, versions' = versions,
           \A w \in Running : validations'[w] = validations[w]
    PROVE  RunningReconcilable'
<1> SUFFICES ASSUME NEW v \in DOMAIN versions, versions[v].status = "running"
    PROVE  v \in RunningVersions'
  BY DEF RunningReconcilable
<1>1. PICK w \in Running : v = validations[w].version
  BY DEF RunningReconcilable, RunningVersions
<1>2. w \in Ops /\ validations'[w] = validations[w] /\ validations[w] # None
      /\ validations[w].status = "running"
  BY <1>1 DEF Running
<1>3. QED
  BY <1>1, <1>2 DEF RunningVersions, Running

(* Each step of an invocation leaves no version waiting for nothing.       *)
LEMMA OpWaits ==
    ASSUME Inv, TargetsOK, RunningReconcilable, NEW o \in Ops, OpStep(o), Inv'
    PROVE  RunningReconcilable'
<1>1. /\ DOMAIN versions = 1 .. Len(versions) /\ DOMAIN versions' = 1 .. Len(versions')
      /\ versions \in [1 .. Len(versions) -> VersionRow]
      /\ Len(versions) \in Nat
  BY LenProperties DEF Inv, Types
<1>2. \A w \in Ops : validations[w] \in ValidationRow \cup {None}
  BY DEF Inv, Types
<1>3. CASE \E config \in Config, skip \in BOOLEAN : InitRows(o, config, skip)
  <2>1. PICK config \in Config, skip \in BOOLEAN : InitRows(o, config, skip)
    BY <1>3
  <2> DEFINE status == IF Free(config) THEN "not_required" ELSE "running"
             row == [version |-> 1, status |-> status, archived |-> FALSE]
  <2>2. /\ versions' = <<[config |-> config, status |-> status, inherited |-> None]>>
        /\ validations' = [validations EXCEPT ![o] = row]
    BY <2>1 DEF InitRows
  <2>3. row \in ValidationRow
    BY DEF ValidationRow
  <2>4. validations'[o] = row /\ row # None
    BY <2>2, <2>3, RowIsNotNone DEF Inv, Types
  <2>5. DOMAIN versions' = {1} /\ versions'[1].status = status
    BY <2>2
  <2>6. status = "running" => o \in Running' /\ validations'[o].version = 1
    BY <2>4 DEF Running
  <2>7. QED
    BY <2>5, <2>6 DEF RunningReconcilable, RunningVersions
<1>4. CASE InitSkip(o)
  <2>1. pc[o] = "skipping" /\ LocalOK(o)
    BY <1>4 DEF InitSkip, Inv, LocalsOK
  <2>2. validations[o] # None => validations[o].version = 1
    BY <2>1 DEF LocalOK
  <2>3. \/ DOMAIN versions' = DOMAIN versions /\ versions'[1].status # "running"
        \/ 1 \notin DOMAIN versions
    <3>1. \A row \in VersionRow : [row EXCEPT !.status = "skipped"].status = "skipped"
      BY DEF VersionRow
    <3>2. QED
      BY <1>1, <1>4, <3>1 DEF InitSkip
  <2>4. \A v \in DOMAIN versions' : v \in DOMAIN versions /\ (v # 1 => versions'[v] = versions[v])
    BY <1>4 DEF InitSkip
  <2>5. \A w \in Ops \ {o} : validations'[w] = validations[w]
    BY <1>4 DEF InitSkip, Inv, Types
  <2>6. SUFFICES ASSUME NEW v \in DOMAIN versions', versions'[v].status = "running"
        PROVE  v \in RunningVersions'
    BY DEF RunningReconcilable
  <2>7. v # 1 /\ v \in DOMAIN versions /\ versions[v].status = "running"
    BY <2>3, <2>4, <2>6
  <2>8. PICK w \in Running : v = validations[w].version
    BY <2>7 DEF RunningReconcilable, RunningVersions
  <2>9. w \in Ops \ {o} /\ w \in Running'
    BY <2>2, <2>5, <2>7, <2>8 DEF Running
  <2>10. QED
    BY <2>5, <2>8, <2>9 DEF RunningVersions
<1>5. CASE \/ Select(o) \/ Import(o) \/ Edit(o) \/ ConcludeFree(o)
           \/ ProjectRemovePreflight(o) \/ Crash(o)
  <2>1. versions' = versions /\ validations' = validations
    BY <1>5 DEF Select, Import, Edit, AdminRead, ConcludeFree, ProjectRemovePreflight, Crash, tables
  <2>2. QED
    BY <2>1, WaitingStays
<1>6. CASE Validate(o)
  <2> DEFINE v == project.latest
             status == IF Free(versions[v].config) THEN "not_required" ELSE "running"
             row == [version |-> v, status |-> status, archived |-> FALSE]
  <2>1. /\ Exists /\ validations' = [InterruptedValidations EXCEPT ![o] = row]
        /\ versions' = [InterruptedVersions EXCEPT ![v].status = status, ![v].inherited = None]
    BY <1>6 DEF Validate
  <2>2. v = Len(versions) /\ v # 0
    BY <2>1 DEF Inv, ProjectOK
  <2>3. row \in ValidationRow
    BY <1>1, <2>2 DEF ValidationRow
  <2>4. validations'[o] = row /\ row # None
    BY <2>1, <2>3, InterruptedRows, RowIsNotNone DEF Inv
  <2>5. \A u \in DOMAIN versions' : u # v => versions'[u].status # "running"
    <3>1. DOMAIN InterruptedVersions = 1 .. Len(versions)
      BY <1>1 DEF InterruptedVersions
    <3>2. \A u \in DOMAIN versions' : u \in 1 .. Len(versions) /\ (u # v => versions'[u] = InterruptedVersions[u])
      BY <2>1, <3>1
    <3>3. QED
      BY <3>2, NoneWaits
  <2>6. versions'[v].status = "running" => status = "running"
    <3>1. InterruptedVersions[v] \in VersionRow /\ v \in DOMAIN InterruptedVersions
      <4>1. InterruptedVersions \in [1 .. Len(InterruptedVersions) -> VersionRow]
            /\ Len(InterruptedVersions) = Len(versions)
        BY InterruptedVersionsKept, LenProperties DEF SameConfigs, Inv
      <4>2. QED
        BY <1>1, <2>2, <4>1
    <3>2. versions'[v] = [InterruptedVersions[v] EXCEPT !.status = status, !.inherited = None]
      BY <2>1, <3>1
    <3>3. versions'[v].status = status
      BY <3>1, <3>2 DEF VersionRow
    <3>4. QED
      BY <3>3
  <2>7. status = "running" => o \in Running' /\ validations'[o].version = v
    BY <2>4 DEF Running
  <2>8. QED
    BY <2>5, <2>6, <2>7 DEF RunningReconcilable, RunningVersions
<1>7. CASE \E result \in Outcome : Conclude(o, result)
  <2>1. PICK result \in Outcome : Conclude(o, result)
    BY <1>7
  <2>2. /\ pc[o] = "concluding" /\ LocalOK(o)
        /\ versions' = [versions EXCEPT ![loc[o].version].status = result]
    BY <2>1 DEF Conclude, Inv, LocalsOK
  <2>3. validations[o] # None => validations[o].version = loc[o].version
    BY <2>2 DEF LocalOK
  <2>4. \A w \in Ops \ {o} : validations'[w] = validations[w]
    BY <2>1 DEF Conclude, Inv, Types
  <2>5. \A v \in DOMAIN versions' :
           /\ v \in DOMAIN versions
           /\ v # loc[o].version => versions'[v] = versions[v]
           /\ v = loc[o].version => versions'[v] = [versions[v] EXCEPT !.status = result]
    BY <1>1, <2>2
  <2>6. \A row \in VersionRow : [row EXCEPT !.status = result].status = result
    BY DEF VersionRow
  <2>7. result # "running"
    BY DEF Outcome
  <2>8. SUFFICES ASSUME NEW v \in DOMAIN versions', versions'[v].status = "running"
        PROVE  v \in RunningVersions'
    BY DEF RunningReconcilable
  <2>9. v # loc[o].version /\ v \in DOMAIN versions /\ versions[v].status = "running"
    <3>1. v \in DOMAIN versions
      BY <2>5, <2>8
    <3>2. versions[v] \in VersionRow
      BY <1>1, <3>1
    <3>3. v # loc[o].version
      BY <2>5, <2>6, <2>7, <2>8, <3>2
    <3>4. QED
      BY <2>5, <2>8, <3>1, <3>3
  <2>10. PICK w \in Running : v = validations[w].version
    BY <2>9 DEF RunningReconcilable, RunningVersions
  <2>11. w \in Ops \ {o} /\ w \in Running'
    BY <2>3, <2>4, <2>9, <2>10 DEF Running
  <2>12. QED
    BY <2>4, <2>10, <2>11 DEF RunningVersions
<1>8. CASE Apply(o)
  <2>1. pc[o] = "applying" /\ Exists /\ validations[o] = None
    BY <1>8, ApplyChanges DEF Inv, LocalsOK, LocalOK, Fresh
  <2>2. CASE UNCHANGED tables
    BY <2>2, WaitingStays DEF tables
  <2>3. ASSUME NEW secret, NEW next, ChangeFrom(o, secret, next), Changed(o, secret, next)
        PROVE  RunningReconcilable'
    <3> DEFINE new == Len(versions) + 1
    <3>1. PICK row \in VersionRow : Appended(o, secret, next, new, row)
      BY <2>1, <2>3, ChangedRows
    <3>2. /\ Len(versions') = new /\ versions'[new] = row
          /\ \A v \in 1 .. Len(versions) : versions'[v] = versions[v]
          /\ \A p \in Ops \ {o} : validations'[p] = validations[p]
          /\ row.status = "running" =>
                validations'[o] = [version |-> new, status |-> row.status, archived |-> FALSE]
      BY <3>1 DEF Appended
    <3>3. ASSUME row.status = "running" PROVE o \in Running' /\ validations'[o].version = new
      <4>1. validations'[o] \in ValidationRow
        <5>1. validations'[o] = [version |-> new, status |-> "running", archived |-> FALSE]
          BY <3>2, <3>3
        <5>2. new \in Nat \ {0}
          BY <1>1
        <5>3. QED
          BY <5>1, <5>2 DEF ValidationRow
      <4>2. QED
        BY <3>2, <3>3, <4>1, RowIsNotNone DEF Running
    <3>4. Running \subseteq Ops \ {o} /\ Running \subseteq Running'
      BY <2>1, <3>2 DEF Running
    <3>5. RunningVersions \subseteq RunningVersions'
      BY <3>2, <3>4 DEF RunningVersions
    <3>6. \A v \in DOMAIN versions' : v \in DOMAIN versions \/ v = new
      BY <1>1, <3>2
    <3>7. row.status = "running" => new \in RunningVersions'
      BY <3>3 DEF RunningVersions
    <3>8. QED
      BY <1>1, <3>2, <3>5, <3>6, <3>7 DEF RunningReconcilable
  <2>4. QED
    BY <1>8, <2>2, <2>3, ApplyChanges
<1>9. CASE \E w \in Ops : \/ \E archived \in BOOLEAN : ValArchive(o, w, archived)
                          \/ ValRemovePreflight(o, w)
  <2>1. versions' = InterruptedVersions
    BY <1>9 DEF ValArchive, ValRemovePreflight
  <2>2. DOMAIN versions' = 1 .. Len(versions)
    BY <1>1, <2>1 DEF InterruptedVersions
  <2>3. QED
    BY <2>1, <2>2, NoneWaits DEF RunningReconcilable
<1>10. CASE ValRemove(o)
  <2>1. versions' = versions /\ pc[o] = "removing validation"
        /\ validations' = [validations EXCEPT ![loc[o].target] = None]
    BY <1>10 DEF ValRemove
  <2>2. loc[o].target \notin Running
    BY <2>1 DEF TargetsOK, Running
  <2>3. \A w \in Running : validations'[w] = validations[w]
    BY <2>1, <2>2 DEF Running, Inv, Types
  <2>4. QED
    BY <2>1, <2>3, WaitingStays
<1>11. CASE ProjectRemove(o)
  <2>1. versions' = <<>>
    BY <1>11 DEF ProjectRemove
  <2>2. QED
    BY <1>1, <2>1, EmptySeq DEF RunningReconcilable
<1>12. QED
  BY <1>3, <1>4, <1>5, <1>6, <1>7, <1>8, <1>9, <1>10, <1>11 DEF OpStep

(* A version waits for a baseline only while a running validation of it is *)
(* recorded, by which a later command finds it: whoever ends a validation  *)
(* ends its version's wait in the same transaction, and only a validation  *)
(* that does not run is removed.                                           *)
THEOREM WaitsForARunning == Spec => []RunningReconcilable
<1>1. Init => TargetsOK /\ RunningReconcilable
  BY EmptySeq DEF Init, TargetsOK, RunningReconcilable
<1>2. ASSUME Inv, Inv', TargetsOK, RunningReconcilable, [Next]_vars
      PROVE  TargetsOK' /\ RunningReconcilable'
  <2>1. TargetsOK'
    BY <1>2, TargetsStay
  <2>2. CASE \E o \in Ops : OpStep(o)
    BY <1>2, <2>1, <2>2, OpWaits
  <2>3. CASE InterruptStale
    <3>1. versions' = InterruptedVersions
      BY <2>3 DEF InterruptStale
    <3>2. DOMAIN versions' = 1 .. Len(versions)
      BY <1>2, <3>1, VersionTypes DEF InterruptedVersions, Inv
    <3>3. QED
      BY <1>2, <2>1, <3>1, <3>2, NoneWaits DEF RunningReconcilable
  <2>4. CASE SecretGc \/ ProjectArchive \/ ProjectUnarchive \/ UNCHANGED vars
    <3>1. versions' = versions /\ validations' = validations
      BY <2>4 DEF SecretGc, ProjectArchive, ProjectUnarchive, vars
    <3>2. QED
      BY <1>2, <2>1, <3>1, WaitingStays
  <2>5. QED
    BY <1>2, <2>1, <2>2, <2>3, <2>4 DEF Next
<1>3. QED
  BY <1>1, <1>2, Invariance, PTL DEF Spec

(* An active pair, in the project's row or as an invocation has read it to *)
(* write it back: the validation is over, it proved its version, and the   *)
(* active version is that one or one that runs the same as the one before. *)
PairOK(a, w) ==
    w # None =>
        /\ ~Fresh(w)
        /\ a \in 1 .. Len(versions)
        /\ validations[w] # None =>
              /\ pc[w] \notin {"concluding", "skipping"}
              /\ validations[w].status \in Proven
              /\ validations[w].version <= a
              /\ validations[w].version # a =>
                    Signature(versions[a].config) = Signature(versions[a - 1].config)

PairsOK ==
    Exists =>
        /\ PairOK(project.active, project.activeVal)
        /\ \A o \in Ops : pc[o] = "concluding" => PairOK(loc[o].active, loc[o].activeVal)

(* A project that is valid, or will be once unarchived, has a validation.  *)
ValidOK == "valid" \in {project.status, project.pre} => project.activeVal # None

(* No version changes what it runs while the project is there.             *)
LEMMA ConfigsStay ==
    ASSUME Inv, [Next]_vars, Exists, Exists'
    PROVE  /\ Len(versions') >= Len(versions)
           /\ \A v \in 1 .. Len(versions) : versions'[v].config = versions[v].config
<1>1. Len(versions) \in Nat
  BY LenProperties DEF Inv, Types
<1>2. CASE SameConfigs(versions')
  BY <1>1, <1>2 DEF SameConfigs
<1>3. CASE SecretGc
  BY <1>3, NoneAppended DEF SecretGc, Inv
<1>4. ~(\E o \in Ops : ProjectRemove(o))
  <2>1. ASSUME NEW o \in Ops, ProjectRemove(o) PROVE project'.status = "removed"
    BY <2>1 DEF ProjectRemove
  <2>2. project'.status # "removed"
    BY DEF Exists
  <2>3. QED
    BY <2>1, <2>2
<1>5. ~(\E o \in Ops, config \in Config, skip \in BOOLEAN : InitRows(o, config, skip))
  BY DEF InitRows, Exists
<1>6. ASSUME NEW o \in Ops, NEW secret, NEW next, pc[o] = "applying", Exists,
             ChangeFrom(o, secret, next), Changed(o, secret, next)
      PROVE  /\ Len(versions') >= Len(versions)
             /\ \A v \in 1 .. Len(versions) : versions'[v].config = versions[v].config
  <2>1. PICK row \in VersionRow : Appended(o, secret, next, Len(versions) + 1, row)
    BY <1>6, ChangedRows
  <2>2. /\ Len(versions') = Len(versions) + 1
        /\ \A v \in 1 .. Len(versions) : versions'[v] = versions[v]
    BY <2>1 DEF Appended
  <2>3. QED
    BY <1>1, <2>2
<1>7. QED
  BY <1>2, <1>3, <1>4, <1>5, <1>6, StepKinds

(* A good pair stays one, read before or not, whatever others do.          *)
LEMMA PairStays ==
    ASSUME Inv, [Next]_vars, Exists, Exists', NEW a \in Nat, NEW w \in Ops \cup {None},
           PairOK(a, w)
    PROVE  PairOK(a, w)'
<1> SUFFICES ASSUME w # None PROVE PairOK(a, w)'
  BY DEF PairOK
<1>1. w \in Ops /\ ~Fresh(w)
  BY DEF PairOK
<1>2. Forward(w) /\ (RowKept(w) \/ Answered(w))
  BY <1>1, StepInv DEF StepOK, Moves
<1>3. Len(versions) \in Nat /\ Len(versions') \in Nat
  BY StepInv, LenProperties DEF StepOK, Inv, Types
<1>4. a \in 1 .. Len(versions) /\ a \in 1 .. Len(versions')
  BY <1>3, ConfigsStay DEF PairOK
<1>5. ASSUME validations'[w] # None
      PROVE  /\ pc'[w] \notin {"concluding", "skipping"}
             /\ validations'[w].status \in Proven
             /\ validations'[w].version <= a
             /\ validations'[w].version # a =>
                   Signature(versions'[a].config) = Signature(versions'[a - 1].config)
  <2>1. /\ validations[w] # None /\ pc[w] \notin {"concluding", "skipping"}
        /\ validations[w].status \in Proven /\ validations[w].version <= a
        /\ validations[w].version # a =>
              Signature(versions[a].config) = Signature(versions[a - 1].config)
    BY <1>2, <1>5 DEF RowKept, Answered, PairOK
  <2>2. RowKept(w)
    BY <1>2, <2>1 DEF Answered
  <2>3. validations'[w].version = validations[w].version
        /\ validations'[w].status = validations[w].status
    BY <1>5, <2>1, <2>2 DEF RowKept, Proven
  <2>4. pc'[w] \notin {"concluding", "skipping"}
    BY <1>1, <1>2, <2>1 DEF Forward
  <2>5. validations[w].version \in Nat \ {0}
    BY <1>1, <2>1 DEF Inv, Types, ValidationRow
  <2>6. ASSUME validations[w].version # a
        PROVE  Signature(versions'[a].config) = Signature(versions'[a - 1].config)
    <3>1. a - 1 \in 1 .. Len(versions)
      BY <1>3, <1>4, <2>1, <2>5, <2>6
    <3>2. versions'[a].config = versions[a].config /\ versions'[a - 1].config = versions[a - 1].config
      BY <1>4, <3>1, ConfigsStay
    <3>3. QED
      BY <2>1, <2>6, <3>2
  <2>7. QED
    BY <2>1, <2>3, <2>4, <2>6
<1>6. ~Fresh(w)'
  BY <1>1, <1>2 DEF Forward
<1>7. QED
  BY <1>4, <1>5, <1>6 DEF PairOK

(* The pair of a validation that has just proved its version is good.      *)
LEMMA ProvenPair ==
    ASSUME Inv', NEW o \in Ops, NEW a \in 1 .. Len(versions'), pc'[o] = "ended",
           validations'[o] # None =>
              validations'[o].version = a /\ validations'[o].status \in Proven
    PROVE  PairOK(a, o)'
<1>1. ~Fresh(o)'
  BY DEF Fresh
<1>2. Len(versions') \in Nat
  BY LenProperties DEF Inv, Types
<1>3. QED
  BY <1>1, <1>2 DEF PairOK

(* The pairs that are there already stay good.                             *)
LEMMA OldPairsStay ==
    ASSUME Inv, PairsOK, [Next]_vars, Exists, Exists'
    PROVE  /\ project'.active = project.active /\ project'.activeVal = project.activeVal =>
              PairOK(project.active, project.activeVal)'
           /\ \A a \in Nat, w \in Ops \cup {None} :
                 a = project.active /\ w = project.activeVal => PairOK(a, w)'
           /\ \A p \in Ops, a \in Nat, w \in Ops \cup {None} :
                 pc[p] = "concluding" /\ a = loc[p].active /\ w = loc[p].activeVal => PairOK(a, w)'
<1>1. \A a \in Nat, w \in Ops \cup {None} :
         a = project.active /\ w = project.activeVal => PairOK(a, w)'
  BY PairStays DEF PairsOK
<1>2. \A p \in Ops, a \in Nat, w \in Ops \cup {None} :
         pc[p] = "concluding" /\ a = loc[p].active /\ w = loc[p].activeVal => PairOK(a, w)'
  BY PairStays DEF PairsOK
<1>3. project.active \in Nat /\ project.activeVal \in Ops \cup {None}
  BY DEF Inv, Types, ProjectRow
<1>4. ASSUME project'.active = project.active, project'.activeVal = project.activeVal
      PROVE  PairOK(project.active, project.activeVal)'
  <2>1. PICK a \in Nat, w \in Ops \cup {None} : a = project.active /\ w = project.activeVal
    BY <1>3
  <2>2. PairOK(a, w)'
    BY <1>1, <2>1
  <2>3. a = project'.active /\ w = project'.activeVal
    BY <1>4, <2>1
  <2>4. QED
    BY <2>2, <2>3 DEF PairOK
<1>5. QED
  BY <1>1, <1>2, <1>4

(* Steps that leave the active pair alone.                                 *)
LEMMA SamePair ==
    ASSUME Inv, PairsOK, ValidOK, [Next]_vars, Exists' => Exists,
           project'.active = project.active, project'.activeVal = project.activeVal,
           "valid" \in {project'.status, project'.pre} => "valid" \in {project.status, project.pre}
    PROVE  (Exists' => PairOK(project.active, project.activeVal)') /\ ValidOK'
<1>1. Exists' => PairOK(project.active, project.activeVal)'
  BY OldPairsStay
<1>2. ValidOK'
  BY DEF ValidOK
<1>3. QED
  BY <1>1, <1>2

(* A change of the configuration leaves a good pair.                       *)
LEMMA ApplyPair ==
    ASSUME Inv, Inv', PairsOK, ValidOK, [Next]_vars, NEW o \in Ops, Apply(o), Exists'
    PROVE  PairOK(project.active, project.activeVal)' /\ ValidOK'
<1>1. pc[o] = "applying" /\ Exists
  BY ApplyChanges
<1>2. CASE UNCHANGED tables
  BY <1>1, <1>2, SamePair DEF tables
<1>3. ASSUME NEW secret, NEW next, ChangeFrom(o, secret, next), Changed(o, secret, next)
      PROVE  PairOK(project.active, project.activeVal)' /\ ValidOK'
  <2> DEFINE new == Len(versions) + 1
  <2>1. PICK row \in VersionRow : Appended(o, secret, next, new, row)
    BY <1>1, <1>3, ChangedRows
  <2>2. Len(versions) \in Nat /\ Len(versions') = new
    BY <2>1, LenProperties DEF Appended, Inv, Types
  <2>3. project'.pre = project.pre
    BY <2>1 DEF Appended
  <2>4. CASE row.status = "inherited"
    <3>1. /\ Signature(next) = Signature(versions[Len(versions)].config)
          /\ project.activeVal # None
          /\ project'.status = project.status
          /\ project'.activeVal = project.activeVal
          /\ project'.active = IF project.active # 0 THEN new ELSE 0
          /\ row.config = next /\ versions'[new] = row
          /\ \A v \in 1 .. Len(versions) : versions'[v] = versions[v]
      BY <2>1, <2>4 DEF Appended
    <3>2. PICK a \in Nat, w \in Ops : a = project.active /\ w = project.activeVal /\ w # None
      BY <3>1, ConstantsAssumption DEF Inv, Types, ProjectRow
    <3>3. PairOK(a, w)
      BY <1>1, <3>2 DEF PairsOK
    <3>4. PairOK(a, w)'
      BY <1>1, <3>2, OldPairsStay
    <3>5. a \in 1 .. Len(versions)
      BY <3>2, <3>3 DEF PairOK
    <3>6. project'.active = new /\ project'.activeVal = w
      BY <3>1, <3>2, <3>5
    <3>7. ~Fresh(w)' /\ new \in 1 .. Len(versions')
      BY <2>2, <3>2, <3>4 DEF PairOK
    <3>8. Signature(versions'[new].config) = Signature(versions'[new - 1].config)
      <4>1. versions'[new - 1] = versions[Len(versions)]
        BY <2>2, <3>1, <3>5
      <4>2. QED
        BY <3>1, <4>1
    <3>9. validations'[w] # None =>
             /\ pc'[w] \notin {"concluding", "skipping"}
             /\ validations'[w].status \in Proven
             /\ validations'[w].version <= new
      <4>1. ASSUME validations'[w] # None PROVE validations'[w].version \in Nat
        BY <4>1 DEF Inv, Types, ValidationRow
      <4>2. QED
        BY <2>2, <3>2, <3>4, <3>5, <4>1 DEF PairOK
    <3>10. PICK b \in Nat : b = new
      BY <2>2
    <3>11. PairOK(project.active, project.activeVal)'
      <4>1. PairOK(b, w)'
        BY <3>7, <3>8, <3>9, <3>10 DEF PairOK
      <4>2. QED
        BY <3>6, <3>10, <4>1 DEF PairOK
    <3>12. QED
      BY <2>3, <3>1, <3>11 DEF ValidOK
  <2>5. CASE row.status = "not_required"
    <3>1. /\ project'.active = new /\ project'.activeVal = o /\ End(o)
          /\ validations'[o] = [version |-> new, status |-> row.status, archived |-> FALSE]
      BY <2>1, <2>5 DEF Appended
    <3>2. pc'[o] = "ended"
      BY <3>1, Ended
    <3>3. validations'[o].version = new /\ validations'[o].status \in Proven
      BY <2>5, <3>1 DEF Proven
    <3>4. new \in 1 .. Len(versions')
      BY <2>2
    <3>5. PICK a \in 1 .. Len(versions') : a = new
      BY <3>4
    <3>6. PairOK(a, o)'
      BY <3>2, <3>3, <3>5, ProvenPair
    <3>7. PairOK(project.active, project.activeVal)'
      BY <3>1, <3>5, <3>6 DEF PairOK
    <3>8. ValidOK'
      BY <3>1, ConstantsAssumption DEF ValidOK
    <3>9. QED
      BY <3>7, <3>8
  <2>6. CASE row.status \in {"skipped", "running"}
    <3>1. /\ project'.active = project.active /\ project'.activeVal = project.activeVal
          /\ project'.status \in {"invalid", project.status}
      BY <2>1, <2>6 DEF Appended
    <3>2. QED
      BY <1>1, <2>3, <3>1, SamePair
  <2>7. QED
    BY <2>1, <2>4, <2>5, <2>6 DEF Appended
<1>4. QED
  BY <1>2, <1>3, ApplyChanges

(* The result of a validation leaves a good pair: its own if it passed,    *)
(* the one that was active when it began if not.                           *)
LEMMA ConcludePair ==
    ASSUME Inv, Inv', PairsOK, ValidOK, [Next]_vars, NEW o \in Ops, Exists',
           ConcludeFree(o) \/ \E result \in Outcome : Conclude(o, result)
    PROVE  PairOK(project.active, project.activeVal)' /\ ValidOK'
<1>1. /\ Exists /\ End(o) /\ LocalOK(o) /\ pc[o] \in {"concluding", "concluding free"}
  BY DEF ConcludeFree, Conclude, Inv, LocalsOK
<1>2. /\ loc[o].version # 0 /\ loc[o].version <= Len(versions)
      /\ validations[o] # None =>
           /\ validations[o].version = loc[o].version
           /\ pc[o] = "concluding free" => validations[o].status = "not_required"
  BY <1>1 DEF LocalOK
<1>3. pc'[o] = "ended" /\ project \in ProjectRow /\ loc[o] \in Loc
  BY <1>1, Ended DEF Inv, Types
<1>4. loc[o].version \in 1 .. Len(versions')
  <2>1. Len(versions) \in Nat /\ Len(versions') \in Nat /\ loc[o].version \in Nat
    BY <1>3, LenProperties DEF Inv, Types, Loc
  <2>2. Len(versions') >= Len(versions)
    BY <1>1, ConfigsStay
  <2>3. loc[o].version # 0 /\ loc[o].version <= Len(versions)
    BY <1>2
  <2>4. QED
    BY <2>1, <2>2, <2>3
<1>5. ASSUME project'.active = loc[o].version, project'.activeVal = o,
             validations'[o] # None => /\ validations'[o].version = loc[o].version
                                       /\ validations'[o].status \in Proven
      PROVE  PairOK(project.active, project.activeVal)' /\ ValidOK'
  <2>1. PICK a \in 1 .. Len(versions') : a = loc[o].version
    BY <1>4
  <2>2. PairOK(a, o)'
    BY <1>3, <1>5, <2>1, ProvenPair
  <2>3. PairOK(project.active, project.activeVal)'
    BY <1>5, <2>1, <2>2 DEF PairOK
  <2>4. QED
    BY <1>5, <2>3, ConstantsAssumption DEF ValidOK
<1>6. CASE ConcludeFree(o)
  <2>1. /\ project'.active = loc[o].version /\ project'.activeVal = o
        /\ validations' = validations /\ pc[o] = "concluding free"
    BY <1>3, <1>6 DEF ConcludeFree, ProjectRow
  <2>2. QED
    BY <1>2, <1>5, <2>1 DEF Proven
<1>7. ASSUME NEW result \in Outcome, Conclude(o, result)
      PROVE  PairOK(project.active, project.activeVal)' /\ ValidOK'
  <2>1. /\ project'.active = Pointers(o, result)[1] /\ project'.activeVal = Pointers(o, result)[2]
        /\ project'.status = (IF result = "passed" THEN "valid" ELSE "invalid")
        /\ pc[o] = "concluding"
    BY <1>3, <1>7 DEF Conclude, ProjectRow
  <2>2. CASE result = "passed"
    <3>1. validations'[o] = IF validations[o] = None THEN None
                            ELSE [validations[o] EXCEPT !.status = "passed"]
      BY <1>7, <2>2 DEF Conclude, Inv, Types
    <3>2. validations'[o] # None => /\ validations'[o].version = loc[o].version
                                    /\ validations'[o].status = "passed"
      <4>1. validations[o] # None => validations[o] \in ValidationRow
        BY DEF Inv, Types
      <4>2. QED
        BY <1>2, <3>1, <4>1 DEF ValidationRow
    <3>3. QED
      BY <1>5, <2>1, <2>2, <3>2 DEF Pointers, Proven
  <2>3. CASE result # "passed"
    <3>1. /\ project'.active = loc[o].active /\ project'.activeVal = loc[o].activeVal
          /\ project'.status = "invalid"
      BY <2>1, <2>3 DEF Pointers
    <3>2. PICK a \in Nat, w \in Ops \cup {None} : a = loc[o].active /\ w = loc[o].activeVal
      BY <1>3 DEF Loc
    <3>3. PairOK(a, w)'
      BY <1>1, <2>1, <3>2, OldPairsStay
    <3>4. PairOK(project.active, project.activeVal)'
      BY <3>1, <3>2, <3>3 DEF PairOK
    <3>5. project'.pre = None
      BY <3>1 DEF Inv, Types, Legal
    <3>6. QED
      BY <3>1, <3>4, <3>5, ConstantsAssumption DEF ValidOK
  <2>4. QED
    BY <2>2, <2>3
<1>8. QED
  BY <1>6, <1>7

(* The project appears: its first validation is active if it needs no run. *)
LEMMA FirstPair ==
    ASSUME Inv, Inv', NEW o \in Ops, NEW config \in Config, NEW skip \in BOOLEAN,
           InitRows(o, config, skip)
    PROVE  /\ PairOK(project.active, project.activeVal)' /\ ValidOK'
           /\ \A p \in Ops : pc'[p] = "concluding" => PairOK(loc[p].active, loc[p].activeVal)'
<1>1. /\ project'.active = (IF Free(config) THEN 1 ELSE 0)
      /\ project'.activeVal = (IF Free(config) THEN o ELSE None)
      /\ project'.status = (IF Free(config) THEN "valid" ELSE "invalid")
      /\ project'.pre = None /\ project.status = "absent" /\ pc[o] = "idle"
      /\ Free(config) => pc'[o] = "ended"
  BY DEF InitRows, Goto, Inv, Types
<1>2. /\ Free(config) => validations'[o] = [version |-> 1, status |-> "not_required", archived |-> FALSE]
      /\ \E row : versions' = <<row>>
  BY DEF InitRows, Inv, Types
<1>3. 1 \in 1 .. Len(versions')
  BY <1>2
<1>4. PairOK(project.active, project.activeVal)'
  <2>1. CASE Free(config)
    <3>1. PairOK(1, o)'
      BY <1>1, <1>2, <1>3, <2>1, ProvenPair DEF Proven
    <3>2. QED
      BY <1>1, <2>1, <3>1 DEF PairOK
  <2>2. CASE ~Free(config)
    BY <1>1, <2>2 DEF PairOK
  <2>3. QED
    BY <2>1, <2>2
<1>5. ValidOK'
  BY <1>1, ConstantsAssumption DEF ValidOK
<1>6. ASSUME NEW p \in Ops, pc'[p] = "concluding"
      PROVE  PairOK(loc[p].active, loc[p].activeVal)'
  <2>1. pc[p] = "idle"
    BY <1>1 DEF Inv, ProjectOK
  <2>2. p = o
    BY <1>6, <2>1 DEF InitRows, Goto, Inv, Types
  <2>3. loc[o] = NoLoc
    BY <1>1 DEF Inv, LocalsOK, LocalOK
  <2>4. loc'[o] = [loc[o] EXCEPT !.version = 1]
    BY DEF InitRows, Inv, Types
  <2>5. loc'[o].activeVal = None
    BY <2>3, <2>4 DEF NoLoc
  <2>6. QED
    BY <2>2, <2>5 DEF PairOK
<1>7. QED
  BY <1>4, <1>5, <1>6

(* The project's pair is good after every step.                            *)
LEMMA ProjectPair ==
    ASSUME Inv, Inv', PairsOK, ValidOK, [Next]_vars
    PROVE  (Exists' => PairOK(project.active, project.activeVal)') /\ ValidOK'
<1>1. CASE UNCHANGED project
  BY <1>1, SamePair DEF Exists
<1>2. CASE project' = InterruptedProject
  <2>1. /\ project'.active = project.active /\ project'.activeVal = project.activeVal
        /\ project'.pre = project.pre /\ project'.status \in {project.status, "invalid"}
        /\ project'.status # project.status => Exists
    BY <1>2, InterruptedProjectKept DEF Inv
  <2>2. QED
    BY <2>1, SamePair DEF Exists
<1>3. project \in ProjectRow
  BY DEF Inv, Types
<1>4. CASE ProjectArchive
  <2>1. /\ Exists /\ project'.active = project.active /\ project'.activeVal = project.activeVal
        /\ project'.pre = project.status /\ project'.status = "archived"
    BY <1>3, <1>4 DEF ProjectArchive, ProjectRow
  <2>2. QED
    BY <2>1, SamePair
<1>5. CASE ProjectUnarchive
  <2>1. /\ Exists /\ project'.active = project.active /\ project'.activeVal = project.activeVal
        /\ project'.pre = None /\ project'.status \in {project.pre, "invalid"}
    BY <1>3, <1>5 DEF ProjectUnarchive, ProjectRow, Restored, Exists
  <2>2. QED
    BY <2>1, ConstantsAssumption, SamePair
<1>6. ASSUME NEW o \in Ops, OpStep(o)
      PROVE  (Exists' => PairOK(project.active, project.activeVal)') /\ ValidOK'
  <2>1. CASE \E config \in Config, skip \in BOOLEAN : InitRows(o, config, skip)
    BY <2>1, FirstPair
  <2>2. CASE \/ InitSkip(o) \/ Select(o) \/ Import(o) \/ Edit(o) \/ ValRemove(o)
             \/ ProjectRemovePreflight(o) \/ Crash(o)
    <3>1. project' = project
      BY <2>2 DEF InitSkip, Select, Import, Edit, AdminRead, ValRemove, ProjectRemovePreflight,
                  Crash, tables
    <3>2. QED
      BY <1>1, <3>1
  <2>3. CASE \/ Validate(o)
             \/ \E w \in Ops : \/ \E archived \in BOOLEAN : ValArchive(o, w, archived)
                               \/ ValRemovePreflight(o, w)
    <3>1. project' = InterruptedProject
      BY <2>3 DEF Validate, ValArchive, ValRemovePreflight
    <3>2. QED
      BY <1>2, <3>1
  <2>4. CASE ConcludeFree(o) \/ \E result \in Outcome : Conclude(o, result)
    <3>1. Exists /\ project'.status \in {"valid", "invalid"}
      BY <1>3, <2>4 DEF ConcludeFree, Conclude, ProjectRow
    <3>2. Exists'
      BY <3>1 DEF Exists
    <3>3. QED
      BY <2>4, <3>2, ConcludePair
  <2>5. CASE Apply(o)
    <3>1. Exists'
      <4>1. Exists /\ pc[o] = "applying"
        BY <2>5, ApplyChanges
      <4>2. CASE UNCHANGED tables
        BY <4>1, <4>2 DEF tables, Exists
      <4>3. ASSUME NEW secret, NEW next, ChangeFrom(o, secret, next), Changed(o, secret, next)
            PROVE  Exists'
        <5>1. PICK row \in VersionRow : Appended(o, secret, next, Len(versions) + 1, row)
          BY <4>1, <4>3, ChangedRows
        <5>2. project'.status \in {project.status, "valid", "invalid"}
          BY <5>1 DEF Appended
        <5>3. QED
          BY <4>1, <5>2 DEF Exists
      <4>4. QED
        BY <2>5, <4>2, <4>3, ApplyChanges
    <3>2. QED
      BY <2>5, <3>1, ApplyPair
  <2>6. CASE ProjectRemove(o)
    <3>1. project'.status = "removed" /\ project'.pre = None
      BY <2>6 DEF ProjectRemove
    <3>2. QED
      BY <3>1, ConstantsAssumption DEF Exists, ValidOK
  <2>7. QED
    BY <1>6, <2>1, <2>2, <2>3, <2>4, <2>5, <2>6 DEF OpStep
<1>7. QED
  BY <1>1, <1>2, <1>4, <1>5, <1>6 DEF Next, InterruptStale, SecretGc, vars

(* A removed project stays removed.                                        *)
LEMMA RemovedStays ==
    ASSUME Inv, [Next]_vars, project.status = "removed" PROVE project'.status = "removed"
<1>1. ~Exists /\ InterruptedProject.status = "removed"
  BY InterruptedProjectKept DEF Inv, Exists
<1>2. ASSUME NEW o \in Ops, OpStep(o) PROVE project'.status = "removed"
  <2>1. CASE Apply(o)
    BY <1>1, <2>1 DEF Apply
  <2>2. CASE \/ \E config \in Config, skip \in BOOLEAN : InitRows(o, config, skip)
             \/ Select(o) \/ Import(o) \/ Edit(o) \/ Validate(o) \/ ConcludeFree(o)
             \/ \E result \in Outcome : Conclude(o, result)
    BY <1>1, <2>2 DEF InitRows, Select, Import, Edit, AdminRead, Validate, ConcludeFree, Conclude
  <2>3. CASE InitSkip(o) \/ ValRemove(o) \/ ProjectRemovePreflight(o) \/ Crash(o)
    BY <2>3 DEF InitSkip, ValRemove, ProjectRemovePreflight, Crash, tables
  <2>4. CASE \E w \in Ops : \/ \E archived \in BOOLEAN : ValArchive(o, w, archived)
                            \/ ValRemovePreflight(o, w)
    BY <1>1, <2>4 DEF ValArchive, ValRemovePreflight
  <2>5. CASE ProjectRemove(o)
    BY <2>5 DEF ProjectRemove
  <2>6. QED
    BY <1>2, <2>1, <2>2, <2>3, <2>4, <2>5 DEF OpStep
<1>3. QED
  BY <1>1, <1>2 DEF Next, vars, InterruptStale, SecretGc, ProjectArchive, ProjectUnarchive

(* What a running validation will write back is good after every step.     *)
LEMMA LocalPairs ==
    ASSUME Inv, Inv', PairsOK, [Next]_vars, Exists', NEW p \in Ops, pc'[p] = "concluding"
    PROVE  PairOK(loc[p].active, loc[p].activeVal)'
<1>1. CASE pc[p] = "concluding" /\ loc'[p] = loc[p] /\ Exists
  <2>1. PICK a \in Nat, w \in Ops \cup {None} : a = loc[p].active /\ w = loc[p].activeVal
    BY DEF Inv, Types, Loc
  <2>2. PairOK(a, w)'
    BY <1>1, <2>1, OldPairsStay
  <2>3. a = loc'[p].active /\ w = loc'[p].activeVal
    BY <1>1, <2>1
  <2>4. QED
    BY <2>2, <2>3 DEF PairOK
<1>2. CASE Exists /\ loc'[p].active = project.active /\ loc'[p].activeVal = project.activeVal
  <2>1. PICK a \in Nat, w \in Ops \cup {None} : a = project.active /\ w = project.activeVal
    BY DEF Inv, Types, ProjectRow
  <2>2. PairOK(a, w)'
    BY <1>2, <2>1, OldPairsStay
  <2>3. a = loc'[p].active /\ w = loc'[p].activeVal
    BY <1>2, <2>1
  <2>4. QED
    BY <2>2, <2>3 DEF PairOK
<1>3. CASE \E o \in Ops, config \in Config, skip \in BOOLEAN : InitRows(o, config, skip)
  BY <1>3, FirstPair
<1>4. loc[p] \in Loc /\ loc \in [Ops -> Loc] /\ pc \in [Ops -> PC]
  BY DEF Inv, Types
<1>5. CASE Validate(p)
  <2>1. /\ Exists
        /\ loc'[p] = [loc[p] EXCEPT !.version = project.latest, !.active = project.active,
                                    !.activeVal = project.activeVal]
    BY <1>4, <1>5 DEF Validate
  <2>2. QED
    BY <1>2, <1>4, <2>1 DEF Loc
<1>6. CASE Apply(p)
  <2>1. pc[p] = "applying" /\ Exists
    BY <1>6, ApplyChanges
  <2>2. ~End(p)
    BY Ended
  <2>3. PICK secret, next : ChangeFrom(p, secret, next) /\ Changed(p, secret, next)
    BY <1>6, <2>2, ApplyChanges
  <2>4. PICK row \in VersionRow : Appended(p, secret, next, Len(versions) + 1, row)
    BY <2>1, <2>3, ChangedRows
  <2>5. loc' = [loc EXCEPT ![p].version = Len(versions) + 1, ![p].active = project.active,
                           ![p].activeVal = project.activeVal]
    BY <2>2, <2>4 DEF Appended
  <2>6. loc'[p] = [loc[p] EXCEPT !.version = Len(versions) + 1, !.active = project.active,
                                 !.activeVal = project.activeVal]
    BY <1>4, <2>5
  <2>7. QED
    BY <1>2, <1>4, <2>1, <2>6 DEF Loc
<1>7. ASSUME pc'[p] = pc[p], loc'[p] = loc[p] PROVE PairOK(loc[p].active, loc[p].activeVal)'
  <2>1. pc[p] = "concluding" /\ project.status # "absent"
    BY <1>7 DEF Inv, ProjectOK
  <2>2. CASE Exists
    BY <1>1, <1>7, <2>1, <2>2
  <2>3. CASE ~Exists
    <3>1. project.status = "removed"
      BY <2>1, <2>3 DEF Exists
    <3>2. project'.status = "removed"
      BY <3>1, RemovedStays
    <3>3. QED
      BY <3>2 DEF Exists
  <2>4. QED
    BY <2>2, <2>3
<1>8. CASE UNCHANGED <<pc, loc>>
  BY <1>7, <1>8
<1>9. ASSUME NEW o \in Ops, OpStep(o) PROVE PairOK(loc[p].active, loc[p].activeVal)'
  <2>1. CASE p # o
    BY <1>7, <1>9, <2>1, OthersStand
  <2>2. CASE p = o
    <3>1. CASE \E config \in Config, skip \in BOOLEAN : InitRows(p, config, skip)
      BY <1>3, <3>1
    <3>2. CASE Select(p) \/ Import(p) \/ Edit(p)
      <4>1. pc'[p] \in {"selecting", "applying"}
        BY <1>4, <3>2 DEF Select, Import, Edit, AdminRead, Goto
      <4>2. QED
        BY <4>1
    <3>3. CASE (\E w \in Ops : ValRemovePreflight(p, w)) \/ ProjectRemovePreflight(p)
      <4>1. pc'[p] # "concluding"
        BY <1>4, <3>3 DEF ValRemovePreflight, ProjectRemovePreflight, Goto
      <4>2. QED
        BY <4>1
    <3>4. CASE End(p)
      BY <3>4, Ended
    <3>5. QED
      BY <1>5, <1>6, <1>9, <2>2, <3>1, <3>2, <3>3, <3>4 DEF OpStep, InitSkip, ConcludeFree,
         Conclude, ValArchive, ValRemove, ProjectRemove, Crash
  <2>3. QED
    BY <2>1, <2>2
<1>10. QED
  BY <1>8, <1>9 DEF Next, vars, InterruptStale, SecretGc, ProjectArchive, ProjectUnarchive

(* The active pair, and every pair that will be written back, is good.     *)
LEMMA Pairs == Spec => [](Inv /\ PairsOK /\ ValidOK)
<1>1. Init => PairsOK /\ ValidOK
  BY ConstantsAssumption DEF Init, PairsOK, ValidOK, Exists
<1>2. ASSUME Inv, Inv', PairsOK, ValidOK, [Next]_vars PROVE PairsOK' /\ ValidOK'
  <2>1. (Exists' => PairOK(project.active, project.activeVal)') /\ ValidOK'
    BY <1>2, ProjectPair
  <2>2. Exists' => \A p \in Ops : pc'[p] = "concluding" => PairOK(loc[p].active, loc[p].activeVal)'
    BY <1>2, LocalPairs
  <2>3. QED
    BY <2>1, <2>2 DEF PairsOK
<1>3. QED
  BY <1>1, <1>2, Invariance, PTL DEF Spec

(* A project that is valid, or will be again once unarchived, has an       *)
(* active version to create experiments from, whatever pair a validation   *)
(* that overlaps with others writes back.                                  *)
THEOREM ValidIsActive == Spec => []ValidHasActive
<1>1. Inv /\ PairsOK /\ ValidOK => ValidHasActive
  <2> SUFFICES ASSUME Inv, PairsOK, ValidOK, "valid" \in {project.status, project.pre}
      PROVE  project.active \in DOMAIN versions /\ project.activeVal # None
    BY DEF ValidHasActive
  <2>1. project.activeVal # None
    BY DEF ValidOK
  <2>2. Exists
    BY <2>1 DEF Inv, ProjectOK
  <2>3. project.active \in 1 .. Len(versions)
    BY <2>1, <2>2 DEF PairsOK, PairOK
  <2>4. QED
    BY <2>1, <2>3, VersionTypes DEF Inv
<1>2. QED
  BY <1>1, Pairs, PTL

(* The active validation passed, or needed no run, and the active version  *)
(* is the one that it validated or a later one that changed neither the    *)
(* runtime nor the secret of its predecessor.                              *)
THEOREM ActivePassed == Spec => []ActiveValidationPassed
<1>1. Inv /\ PairsOK /\ ValidOK => ActiveValidationPassed
  BY DEF Inv, ProjectOK, PairsOK, PairOK, ActiveValidationPassed
<1>2. QED
  BY <1>1, Pairs, PTL
=============================================================================
