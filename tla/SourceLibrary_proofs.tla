------------------------ MODULE SourceLibrary_proofs ------------------------
(***************************************************************************)
(* Proofs about the sources of a project.  What a command has read and     *)
(* holds over its steps is the crux: the invariant HeldOK says what stays  *)
(* true of it while other processes import, archive and remove.            *)
(***************************************************************************)
EXTENDS SourceLibrary, TLAPS

Removing == {"deleteref", "deleterow", "restoreref"}

(* What a process holds is of its command: an import has pushed the ref of *)
(* a source that nobody else has and that has no row yet; a removal holds  *)
(* one that had a row.                                                     *)
HeldOK ==
    \A o \in Processes :
        /\ held[o].cmd # "none" => held[o].src \in Sources
        /\ held[o].cmd = "create" => held[o].exp \in Experiments
        /\ held[o].cmd = "insert" => /\ source[held[o].src].status = "none"
                                     /\ held[o].src \in refs
        /\ held[o].cmd \in Removing => source[held[o].src].status # "none"

InsertsApart ==
    \A o, p \in Processes :
        held[o].cmd = "insert" /\ held[p].cmd = "insert" /\ held[o].src = held[p].src => o = p

VersionsOK == Latest \in 1..MaxVersions

Inv == SourceTypeOK /\ HeldOK /\ InsertsApart /\ VersionsOK

Records == [cmd : {"none", "insert", "archive", "deleteref", "deleterow", "restoreref", "create"},
            src : Sources \cup {NoSource}, tree : Trees,
            exp : Experiments \cup {NoSource}, version : 0..MaxVersions, flag : BOOLEAN]

(* What is held, once released, is nothing.                                *)
LEMMA NothingHeld == Nothing \in Records /\ Nothing.cmd = "none" /\ Nothing.src = NoSource
BY SourceConstants DEF Nothing, Records

(* A process releases what it holds and the others keep it.                *)
LEMMA Released == ASSUME held \in [Processes -> Records], NEW o \in Processes, Release(o)
                  PROVE  /\ held' \in [Processes -> Records]
                         /\ \A p \in Processes : held'[p] = IF p = o THEN Nothing ELSE held[p]
BY NothingHeld DEF Release

(* The initial state satisfies the invariant.                              *)
LEMMA InitInv == SourceInit => Inv
<1> SUFFICES ASSUME SourceInit PROVE Inv
  OBVIOUS
<1>1. SourceTypeOK
  <2>1. defaults \in Seq(Sources)
    BY SourceConstants DEF SourceInit
  <2>2. held \in [Processes ->
          [cmd : {"none", "insert", "archive", "deleteref", "deleterow",
                  "restoreref", "create"},
           src : Sources \cup {NoSource}, tree : Trees,
           exp : Experiments \cup {NoSource}, version : 0..MaxVersions, flag : BOOLEAN]]
    BY SourceConstants DEF SourceInit, Nothing
  <2>3. QED
    BY <2>1, <2>2, SourceConstants DEF SourceInit, SourceTypeOK, Statuses
<1>2. HeldOK /\ InsertsApart
  BY DEF SourceInit, HeldOK, InsertsApart, Nothing, Removing
<1>3. VersionsOK
  BY SourceConstants DEF SourceInit, VersionsOK, Latest
<1>4. QED
  BY <1>1, <1>2, <1>3 DEF Inv

(* A process that is free takes on what it has read.                       *)
LEMMA HoldInv ==
    ASSUME Inv, NEW o \in Processes, NEW h, Hold(o, h), refs \subseteq refs', refs' \subseteq Sources,
           UNCHANGED <<libraryRows, stale, lost>>,
           h \in Records, h.src \in Sources,
           h.cmd = "create" => h.exp \in Experiments,
           h.cmd = "insert" => /\ source[h.src].status = "none" /\ h.src \in refs'
                               /\ \A p \in Processes : held[p].src # h.src,
           h.cmd \in Removing => source[h.src].status # "none"
    PROVE  Inv'
<1>1. \A p \in Processes : held'[p] = IF p = o THEN h ELSE held[p]
  BY DEF Hold, Inv, SourceTypeOK
<1>2. SourceTypeOK'
  BY DEF Hold, Inv, SourceTypeOK, libraryRows, Records, Latest
<1>3. HeldOK'
  BY <1>1 DEF HeldOK, Inv, libraryRows
<1>4. InsertsApart'
  BY <1>1 DEF InsertsApart, Inv
<1>5. VersionsOK'
  BY DEF VersionsOK, Inv, Latest, libraryRows
<1>6. QED
  BY <1>2, <1>3, <1>4, <1>5 DEF Inv

(* A process that lets go of what it holds.                                *)
LEMMA ReleaseInv ==
    ASSUME Inv, NEW o \in Processes, Release(o), refs \subseteq refs', refs' \subseteq Sources,
           lost' \subseteq Sources, stale' \in BOOLEAN,
           UNCHANGED libraryRows
    PROVE  Inv'
<1>1. /\ held' \in [Processes -> Records]
      /\ \A p \in Processes : held'[p] = IF p = o THEN Nothing ELSE held[p]
  BY Released DEF Records, Inv, SourceTypeOK
<1>2. SourceTypeOK'
  BY <1>1 DEF Records, Inv, SourceTypeOK, libraryRows, Latest
<1>3. HeldOK'
  BY <1>1, NothingHeld DEF HeldOK, Inv, libraryRows, Removing
<1>4. InsertsApart'
  BY <1>1, NothingHeld DEF InsertsApart, Inv
<1>5. VersionsOK'
  BY DEF VersionsOK, Inv, Latest, libraryRows
<1>6. QED
  BY <1>2, <1>3, <1>4, <1>5 DEF Inv

(* The row of a source is written, and its writer, if any, lets go.        *)
LEMMA RowInv ==
    ASSUME Inv, NEW s \in Sources, NEW st \in {"active", "archived", "removed"}, NEW t \in Trees,
           source' = [source EXCEPT ![s] = [status |-> st, tree |-> t]],
           held' = held \/ \E o \in Processes : Release(o),
           \A p \in Processes : held'[p].cmd = "insert" => held'[p].src # s,
           UNCHANGED <<refs, defaults, byId, user, lost>>, stale' \in BOOLEAN
    PROVE  Inv'
<1>1. /\ held' \in [Processes -> Records]
      /\ \A p \in Processes : held'[p] = held[p] \/ held'[p] = Nothing
  BY Released DEF Records, Inv, SourceTypeOK
<1>2. SourceTypeOK'
  <2>1. source' \in [Sources -> [status : Statuses \cup {"none", "removed"}, tree : Trees]]
    BY DEF Inv, SourceTypeOK, Statuses
  <2>2. QED
    BY <1>1, <2>1 DEF Records, Inv, SourceTypeOK, Latest
<1>3. ASSUME NEW p \in Processes
      PROVE  /\ held'[p].cmd # "none" => held'[p].src \in Sources
             /\ held'[p].cmd = "create" => held'[p].exp \in Experiments
             /\ held'[p].cmd = "insert" => /\ source'[held'[p].src].status = "none"
                                           /\ held'[p].src \in refs
             /\ held'[p].cmd \in Removing => source'[held'[p].src].status # "none"
  <2>1. CASE held'[p] = Nothing
    BY <2>1, NothingHeld DEF Removing
  <2>2. CASE held'[p] = held[p] /\ held[p].src = s
    <3>1. source'[s].status = st
      BY DEF Inv, SourceTypeOK
    <3>2. QED
      BY <2>2, <3>1 DEF HeldOK, Inv
  <2>3. CASE held'[p] = held[p] /\ held[p].src # s
    BY <2>3 DEF HeldOK, Inv, SourceTypeOK, Removing
  <2>4. QED
    BY <1>1, <2>1, <2>2, <2>3
<1>4. HeldOK'
  BY <1>3 DEF HeldOK
<1>5. InsertsApart'
  BY <1>1, NothingHeld DEF InsertsApart, Inv
<1>6. VersionsOK'
  BY DEF VersionsOK, Inv, Latest
<1>7. QED
  BY <1>2, <1>4, <1>5, <1>6 DEF Inv

(* An import pushes a ref under an id of its own.                          *)
LEMMA ImportPushedInv == ASSUME Inv, NEW o \in Processes, NEW t \in Trees, ImportPushed(o, t)
                         PROVE  Inv'
<1>1. PICK s \in Sources :
         /\ source[s].status = "none" /\ s \notin refs
         /\ \A p \in Processes : held[p].src # s
         /\ Hold(o, [Nothing EXCEPT !.cmd = "insert", !.src = s, !.tree = t])
         /\ refs' = refs \cup {s}
  BY DEF ImportPushed
<1> DEFINE h == [Nothing EXCEPT !.cmd = "insert", !.src = s, !.tree = t]
<1>2. h \in Records /\ h.cmd = "insert" /\ h.src = s
  BY NothingHeld DEF Records
<1>3. refs' \subseteq Sources
  BY <1>1 DEF Inv, SourceTypeOK
<1>4. QED
  BY <1>1, <1>2, <1>3, HoldInv DEF ImportPushed, Removing

(* Archive, remove and create begin by reading rows.                       *)
LEMMA BeginInv ==
    ASSUME Inv, NEW o \in Processes, NEW h \in Records, Hold(o, h), h.src \in Sources,
           \/ h.cmd = "archive"
           \/ h.cmd = "create" /\ h.exp \in Experiments
           \/ h.cmd = "deleteref" /\ HasRow(h.src),
           UNCHANGED <<libraryRows, refs, stale, lost>>
    PROVE  Inv'
<1>1. refs \subseteq refs' /\ refs' \subseteq Sources
  BY DEF Inv, SourceTypeOK
<1>2. h.cmd \in Removing => source[h.src].status # "none"
  BY DEF HasRow, Statuses, Removing
<1>3. QED
  BY <1>1, <1>2, HoldInv

(* A removal goes on, or back.                                             *)
LEMMA RemovalInv ==
    ASSUME Inv, NEW o \in Processes, held[o].cmd \in Removing, NEW c \in Removing,
           NEW v \in 0..MaxVersions,
           held' = [held EXCEPT ![o].cmd = c, ![o].version = v],
           refs' = refs \/ refs' = refs \ {held[o].src},
           UNCHANGED <<libraryRows, stale, lost>>
    PROVE  Inv'
<1>1. held[o] \in Records /\ held \in [Processes -> Records]
  BY DEF Inv, SourceTypeOK, Records
<1>2. /\ held'[o] \in Records /\ held'[o].cmd = c /\ held'[o].src = held[o].src
      /\ \A p \in Processes \ {o} : held'[p] = held[p]
      /\ held' \in [Processes -> Records]
  BY <1>1 DEF Records, Removing
<1>3. SourceTypeOK'
  BY <1>2 DEF Inv, SourceTypeOK, Records, libraryRows, Latest
<1>4. ASSUME NEW p \in Processes
      PROVE  /\ held'[p].cmd # "none" => held'[p].src \in Sources
             /\ held'[p].cmd = "create" => held'[p].exp \in Experiments
             /\ held'[p].cmd = "insert" => /\ source'[held'[p].src].status = "none"
                                           /\ held'[p].src \in refs'
             /\ held'[p].cmd \in Removing => source'[held'[p].src].status # "none"
  <2>1. CASE p = o
    BY <1>2, <2>1 DEF HeldOK, Inv, Removing, libraryRows
  <2>2. CASE p # o
    BY <1>2, <2>2 DEF HeldOK, Inv, libraryRows
  <2>3. QED
    BY <2>1, <2>2
<1>5. HeldOK'
  BY <1>4 DEF HeldOK
<1>6. InsertsApart'
  BY <1>2 DEF InsertsApart, Inv, Removing
<1>7. VersionsOK'
  BY DEF VersionsOK, Inv, Latest, libraryRows
<1>8. QED
  BY <1>3, <1>5, <1>6, <1>7 DEF Inv

(* The rows of experiments change, and the writer lets go.                 *)
LEMMA UserInv ==
    ASSUME Inv, NEW e \in Experiments, NEW row \in [status : {"none", "open", "archived"},
                                                     src : Sources \cup {NoSource}],
           row.src = NoSource <=> row.status = "none",
           user' = [user EXCEPT ![e] = row],
           held' = held \/ \E o \in Processes : Release(o),
           UNCHANGED <<source, refs, defaults, byId, stale, lost>>
    PROVE  Inv'
<1>1. /\ held' \in [Processes -> Records]
      /\ \A p \in Processes : held'[p] = held[p] \/ held'[p] = Nothing
  BY Released DEF Records, Inv, SourceTypeOK
<1>2. SourceTypeOK'
  BY <1>1 DEF Records, Inv, SourceTypeOK, Latest
<1>3. HeldOK'
  BY <1>1, NothingHeld DEF HeldOK, Inv, Removing
<1>4. InsertsApart'
  BY <1>1, NothingHeld DEF InsertsApart, Inv
<1>5. VersionsOK'
  BY DEF VersionsOK, Inv, Latest
<1>6. QED
  BY <1>2, <1>3, <1>4, <1>5 DEF Inv

(* A new config version has an active default source.                      *)
LEMMA NewVersionInv == ASSUME Inv, NEW s \in Sources, NewVersion(s)
                       PROVE  Inv'
<1>1. defaults' = Append(defaults, s) /\ Len(defaults) < MaxVersions /\ defaults \in Seq(Sources)
  BY DEF NewVersion, Latest, Inv, SourceTypeOK
<1>2. defaults' \in Seq(Sources) /\ Len(defaults') = Len(defaults) + 1
  BY <1>1
<1>3. SourceTypeOK'
  <2>1. Latest \in Nat \ {0} /\ Latest' = Latest + 1
    BY <1>1, <1>2 DEF VersionsOK, Inv, Latest
  <2>2. byId' \subseteq 2..Latest'
    BY <2>1 DEF NewVersion, Inv, SourceTypeOK
  <2>3. QED
    BY <1>2, <2>2 DEF NewVersion, Inv, SourceTypeOK
<1>4. VersionsOK'
  BY <1>1, <1>2, SourceConstants DEF VersionsOK, Inv, Latest
<1>5. QED
  BY <1>3, <1>4 DEF NewVersion, Inv, HeldOK, InsertsApart

(* Every step preserves the invariant.                                     *)
LEMMA NextInv == Inv /\ [SourceNext]_sourceVars => Inv'
<1> SUFFICES ASSUME Inv, [SourceNext]_sourceVars
             PROVE  Inv'
  OBVIOUS
<1> USE DEF Inv, SourceTypeOK
<1>1. ASSUME NEW o \in Processes, ImportInsert(o)
      PROVE  Inv'
  <2> DEFINE s == held[o].src
  <2>1. held[o].cmd = "insert" /\ s \in Sources /\ held[o].tree \in Trees /\ Release(o)
    BY <1>1 DEF ImportInsert, HeldOK
  <2>2. CASE TreeTaken(held[o].tree)
    BY <1>1, <2>1, <2>2, ReleaseInv DEF ImportInsert, libraryRows
  <2>3. CASE ~TreeTaken(held[o].tree)
    <3>1. source' = [source EXCEPT ![s] = [status |-> "active", tree |-> held[o].tree]]
      BY <1>1, <2>3 DEF ImportInsert
    <3>2. \A p \in Processes : held'[p].cmd = "insert" => held'[p].src # s
      <4>1. \A p \in Processes : held'[p] = IF p = o THEN Nothing ELSE held[p]
        BY <2>1, Released DEF Records
      <4> HIDE DEF SourceTypeOK
      <4>2. QED
        BY <2>1, <4>1, NothingHeld DEF InsertsApart
    <3>3. Inv /\ stale' \in BOOLEAN
      BY <1>1 DEF ImportInsert
    <3> HIDE DEF Inv, SourceTypeOK
    <3>4. QED
      BY <1>1, <2>1, <3>1, <3>2, <3>3, RowInv DEF ImportInsert
  <2>4. QED
    BY <2>2, <2>3
<1>2. ASSUME NEW o \in Processes, ArchiveBegin(o)
      PROVE  Inv'
  <2>1. PICK s \in Sources : Hold(o, [Nothing EXCEPT !.cmd = "archive", !.src = s, !.version = Latest])
    BY <1>2 DEF ArchiveBegin
  <2> DEFINE h == [Nothing EXCEPT !.cmd = "archive", !.src = s, !.version = Latest]
  <2>2. Latest \in 0..MaxVersions
    BY SourceConstants DEF VersionsOK
  <2>3. h \in Records /\ h.cmd = "archive" /\ h.src = s
    BY <2>2, NothingHeld DEF Records
  <2>4. QED
    BY <1>2, <2>1, <2>3, BeginInv DEF ArchiveBegin
<1>3. ASSUME NEW o \in Processes, ArchiveSource(o)
      PROVE  Inv'
  <2> DEFINE s == held[o].src
  <2>1. s \in Sources /\ Release(o) /\ source[s].tree \in Trees
    BY <1>3 DEF ArchiveSource, HeldOK
  <2>2. CASE source[s].status = "active" /\ ~IsDefault(s, held[o].version)
    <3>1. source' = [source EXCEPT ![s] = [status |-> "archived", tree |-> source[s].tree]]
      BY <1>3, <2>1, <2>2 DEF ArchiveSource
    <3>2. \A p \in Processes : held'[p].cmd = "insert" => held'[p].src # s
      BY <2>1, <2>2, Released, NothingHeld DEF HeldOK, Records
    <3>3. stale' \in BOOLEAN
      BY <1>3, <2>2 DEF ArchiveSource
    <3>4. QED
      BY <1>3, <2>1, <3>1, <3>2, <3>3, RowInv DEF ArchiveSource
  <2>3. CASE ~(source[s].status = "active" /\ ~IsDefault(s, held[o].version))
    BY <1>3, <2>1, <2>3, ReleaseInv DEF ArchiveSource, libraryRows
  <2>4. QED
    BY <2>2, <2>3
<1>4. ASSUME NEW s \in Sources, UnarchiveSource(s)
      PROVE  Inv'
  <2>1. source' = [source EXCEPT ![s] = [status |-> "active", tree |-> source[s].tree]]
    <3>1. source' = [source EXCEPT ![s] = [source[s] EXCEPT !.status = "active"]]
      BY <1>4 DEF UnarchiveSource
    <3>2. [source[s] EXCEPT !.status = "active"] = [status |-> "active", tree |-> source[s].tree]
      OBVIOUS
    <3>3. QED
      BY <3>1, <3>2
  <2>2. \A p \in Processes : held'[p].cmd = "insert" => held'[p].src # s
    BY <1>4 DEF UnarchiveSource, HeldOK
  <2>3. source[s].tree \in Trees
    OBVIOUS
  <2>4. QED
    BY <1>4, <2>1, <2>2, <2>3, RowInv DEF UnarchiveSource
<1>5. ASSUME NEW o \in Processes, NEW cascade \in BOOLEAN, RemoveSourceBegin(o, cascade)
      PROVE  Inv'
  <2>1. PICK s \in Sources : HasRow(s) /\ Hold(o, [Nothing EXCEPT !.cmd = "deleteref", !.src = s, !.flag = cascade])
    BY <1>5 DEF RemoveSourceBegin
  <2> DEFINE h == [Nothing EXCEPT !.cmd = "deleteref", !.src = s, !.flag = cascade]
  <2>2. h \in Records /\ h.cmd = "deleteref" /\ h.src = s
    BY NothingHeld DEF Records
  <2>3. QED
    BY <1>5, <2>1, <2>2, BeginInv DEF RemoveSourceBegin
<1>6. ASSUME NEW o \in Processes, DeleteRef(o)
      PROVE  Inv'
  <2>1. (IF held[o].src \in refs THEN 1 ELSE 0) \in 0..MaxVersions
    BY SourceConstants
  <2>2. QED
    BY <1>6, <2>1, RemovalInv DEF DeleteRef, Removing
<1>7. ASSUME NEW o \in Processes, held[o].cmd = "deleterow", held' = [held EXCEPT ![o].cmd = "restoreref"],
             UNCHANGED <<libraryRows, refs, stale, lost>>
      PROVE  Inv'
  <2>1. held' = [held EXCEPT ![o].cmd = "restoreref", ![o].version = held[o].version]
    BY <1>7
  <2>2. held[o].version \in 0..MaxVersions
    OBVIOUS
  <2>3. QED
    BY <1>7, <2>1, <2>2, RemovalInv DEF Removing
<1>8. ASSUME NEW o \in Processes, RemoveSource(o)
      PROVE  Inv'
  <2> DEFINE s == held[o].src
  <2>1. CASE HasRow(s) /\ ~Blocked(s, held[o].flag)
    <3>1. /\ s \in Sources /\ Release(o)
          /\ source' = [source EXCEPT ![s] = [status |-> "removed", tree |-> FirstTree]]
      BY <1>8, <2>1 DEF RemoveSource, HeldOK
    <3>2. source[s].status # "none"
      BY <2>1 DEF HasRow, Statuses
    <3>3. \A p \in Processes : held'[p].cmd = "insert" => held'[p].src # s
      <4>1. \A p \in Processes : held'[p] = IF p = o THEN Nothing ELSE held[p]
        BY <3>1, Released DEF Records
      <4> HIDE DEF SourceTypeOK
      <4>2. QED
        BY <3>1, <3>2, <4>1, NothingHeld DEF HeldOK
    <3>4. Inv /\ stale' \in BOOLEAN
      BY <1>8 DEF RemoveSource
    <3> HIDE DEF Inv, SourceTypeOK
    <3>5. QED
      BY <1>8, <3>1, <3>3, <3>4, RowInv, SourceConstants DEF RemoveSource
  <2>2. CASE ~(HasRow(s) /\ ~Blocked(s, held[o].flag))
    BY <1>7, <1>8, <2>2 DEF RemoveSource, libraryRows
  <2>3. QED
    BY <2>1, <2>2
<1>9. ASSUME NEW o \in Processes, RestoreRef(o)
      PROVE  Inv'
  <2>1. refs \subseteq refs' /\ refs' \subseteq Sources
    BY <1>9 DEF RestoreRef, RefsRestored, Restores, HeldOK
  <2>2. QED
    BY <1>9, <2>1, ReleaseInv DEF RestoreRef
<1>10. ASSUME NEW o \in Processes, NEW e \in Experiments, NEW s \in Sources,
              \/ \E seen \in BOOLEAN : CreateFromSource(o, e, s, seen)
              \/ CreateFromExperiment(o, e, s)
       PROVE  Inv'
  <2> DEFINE h == [Nothing EXCEPT !.cmd = "create", !.src = s, !.exp = e]
  <2>1. Hold(o, h)
    BY <1>10 DEF CreateFromSource, WorktreeAdded, CreateFromExperiment
  <2>2. h \in Records /\ h.cmd = "create" /\ h.src = s /\ h.exp = e
    BY NothingHeld DEF Records
  <2>3. QED
    BY <1>10, <2>1, <2>2, BeginInv DEF CreateFromSource, CreateFromExperiment
<1>11. ASSUME NEW o \in Processes, InsertExperiment(o)
       PROVE  Inv'
  <2> DEFINE row == [status |-> "open", src |-> held[o].src]
  <2>1. held[o].exp \in Experiments /\ held[o].src \in Sources
    BY <1>11 DEF InsertExperiment, HeldOK
  <2>2. /\ row \in [status : {"none", "open", "archived"}, src : Sources \cup {NoSource}]
        /\ (row.src = NoSource <=> row.status = "none")
    BY <2>1, SourceConstants
  <2>3. QED
    BY <1>11, <2>1, <2>2, UserInv DEF InsertExperiment
<1>12. ASSUME NEW e \in Experiments, SetExperiment(e)
       PROVE  Inv'
  <2>1. PICK row \in [status : {"none", "open", "archived"}, src : Sources \cup {NoSource}] :
           (row.src = NoSource <=> row.status = "none") /\ user' = [user EXCEPT ![e] = row]
    <3>1. user[e].status \in {"open", "archived"} =>
             /\ [user[e] EXCEPT !.status = "archived"] \in [status : {"none", "open", "archived"}, src : Sources \cup {NoSource}]
             /\ [user[e] EXCEPT !.status = "open"] \in [status : {"none", "open", "archived"}, src : Sources \cup {NoSource}]
             /\ user[e].src # NoSource
      OBVIOUS
    <3>2. \/ user[e].status = "open" /\ user' = [user EXCEPT ![e] = [user[e] EXCEPT !.status = "archived"]]
          \/ user[e].status = "archived" /\ user' = [user EXCEPT ![e] = [user[e] EXCEPT !.status = "open"]]
          \/ user' = [user EXCEPT ![e] = [status |-> "none", src |-> NoSource]]
      BY <1>12 DEF SetExperiment
    <3>3. QED
      BY <3>1, <3>2
  <2>2. QED
    BY <1>12, <2>1, UserInv DEF SetExperiment
<1>13. ASSUME NEW o \in Processes, Dies(o)
       PROVE  Inv'
  <2>1. CASE /\ Release(o)
             /\ lost' = IF Restores(o) THEN lost \cup {held[o].src} ELSE lost
    <3>1. lost' \subseteq Sources
      BY <2>1 DEF Restores, HeldOK
    <3>2. QED
      BY <1>13, <2>1, <3>1, ReleaseInv DEF Dies
  <2>2. CASE ~(/\ Release(o)
               /\ lost' = IF Restores(o) THEN lost \cup {held[o].src} ELSE lost)
    BY <1>7, <1>13, <2>2 DEF Dies
  <2>3. QED
    BY <2>1, <2>2
<1>14. CASE UNCHANGED sourceVars
  BY <1>14 DEF sourceVars, HeldOK, InsertsApart, VersionsOK, Latest
<1>15. QED
  BY <1>1, <1>2, <1>3, <1>4, <1>5, <1>6, <1>8, <1>9, <1>10, <1>11, <1>12, <1>13, <1>14,
     ImportPushedInv, NewVersionInv DEF SourceNext

(* The invariant holds in every reachable state.                           *)
THEOREM Invariance == SourceSpec => []Inv
BY InitInv, NextInv, PTL DEF SourceSpec

(* Every value of the state is one the schema admits, and every experiment *)
(* row names the source it was created from.                               *)
THEOREM TypeCorrect == SourceSpec => []SourceTypeOK
BY Invariance, PTL DEF Inv

-----------------------------------------------------------------------------
(* What a step does to the rows of sources: one row is imported, archived, *)
(* unarchived or removed, each under its conditions, or none changes.      *)
Imports(s, t) == ~TreeTaken(t) /\ source' = [source EXCEPT ![s] = [status |-> "active", tree |-> t]]
Archives(s) ==
    /\ source[s].status = "active"
    /\ source' = [source EXCEPT ![s].status = "archived"]
    /\ ~IsDefault(s, Latest) \/ stale'
Unarchives(s) ==
    /\ source[s].status = "archived"
    /\ ~TreeTaken(source[s].tree)
    /\ source' = [source EXCEPT ![s].status = "active"]
Removes(s) ==
    /\ HasRow(s)
    /\ \E cascade \in BOOLEAN : ~Blocked(s, cascade)
    /\ source' = [source EXCEPT ![s] = [status |-> "removed", tree |-> FirstTree]]

(* Every step is one of these for one source at most, and only NewVersion  *)
(* touches the versions.                                                   *)
LEMMA SourceSteps ==
    ASSUME Inv, [SourceNext]_sourceVars
    PROVE  /\ \/ source' = source
              \/ \E o \in Processes : ImportInsert(o) /\ Imports(held[o].src, held[o].tree)
              \/ \E s \in Sources : Archives(s) \/ Unarchives(s) \/ Removes(s)
           /\ UNCHANGED <<defaults, byId>> \/ \E s \in Sources : NewVersion(s)
           /\ stale => stale'
<1>1. ASSUME NEW o \in Processes, ArchiveSource(o)
      PROVE  /\ source' = source \/ \E s \in Sources : Archives(s)
             /\ UNCHANGED <<defaults, byId>> /\ (stale => stale')
  <2> DEFINE s == held[o].src
  <2>1. s \in Sources
    BY <1>1 DEF ArchiveSource, Inv, HeldOK
  <2>2. CASE source[s].status = "active" /\ ~IsDefault(s, held[o].version)
    <3>1. stale' = (stale \/ held[o].version # Latest) /\ stale \in BOOLEAN
      BY <1>1, <2>2 DEF ArchiveSource, Inv, SourceTypeOK
    <3>2. ~IsDefault(s, Latest) \/ held[o].version # Latest
      BY <2>2
    <3>3. ~IsDefault(s, Latest) \/ stale'
      BY <3>1, <3>2
    <3>4. source' = [source EXCEPT ![s].status = "archived"] /\ UNCHANGED <<defaults, byId>>
      BY <1>1, <2>2 DEF ArchiveSource
    <3>5. QED
      BY <2>1, <2>2, <3>1, <3>3, <3>4 DEF Archives
  <2>3. CASE ~(source[s].status = "active" /\ ~IsDefault(s, held[o].version))
    BY <1>1, <2>3 DEF ArchiveSource
  <2>4. QED
    BY <2>2, <2>3
<1>2. ASSUME NEW o \in Processes, ImportInsert(o)
      PROVE  /\ source' = source \/ Imports(held[o].src, held[o].tree)
             /\ UNCHANGED <<defaults, byId>> /\ stale' = stale
  BY <1>2 DEF ImportInsert, Imports
<1>3. ASSUME NEW s \in Sources, UnarchiveSource(s)
      PROVE  Unarchives(s) /\ UNCHANGED <<defaults, byId>> /\ stale' = stale
  BY <1>3 DEF UnarchiveSource, Unarchives
<1>4. ASSUME NEW o \in Processes, RemoveSource(o)
      PROVE  /\ source' = source \/ \E s \in Sources : Removes(s)
             /\ UNCHANGED <<defaults, byId>> /\ stale' = stale
  BY <1>4 DEF RemoveSource, Removes, Inv, HeldOK, SourceTypeOK
<1>5. ASSUME NEW o \in Processes,
             \/ \E t \in Trees : ImportPushed(o, t)
             \/ ArchiveBegin(o)
             \/ \E cascade \in BOOLEAN : RemoveSourceBegin(o, cascade)
             \/ DeleteRef(o) \/ RestoreRef(o) \/ InsertExperiment(o) \/ Dies(o)
             \/ \E e \in Experiments, s \in Sources :
                  \/ \E seen \in BOOLEAN : CreateFromSource(o, e, s, seen)
                  \/ CreateFromExperiment(o, e, s)
      PROVE  source' = source /\ UNCHANGED <<defaults, byId>> /\ stale' = stale
  BY <1>5 DEF ImportPushed, ArchiveBegin, RemoveSourceBegin, DeleteRef, RestoreRef, InsertExperiment,
              Dies, CreateFromSource, CreateFromExperiment, libraryRows
<1>6. ASSUME NEW s \in Sources, NewVersion(s)
      PROVE  source' = source /\ stale' = stale
  BY <1>6 DEF NewVersion
<1>7. ASSUME NEW e \in Experiments, SetExperiment(e)
      PROVE  source' = source /\ UNCHANGED <<defaults, byId>> /\ stale' = stale
  BY <1>7 DEF SetExperiment
<1>8. CASE UNCHANGED sourceVars
  BY <1>8 DEF sourceVars
<1>9. QED
  BY <1>1, <1>2, <1>3, <1>4, <1>5, <1>6, <1>7, <1>8 DEF SourceNext

(* A version that is there keeps its default source, and a new one has an  *)
(* active default.                                                         *)
LEMMA VersionSteps ==
    ASSUME Inv, [SourceNext]_sourceVars
    PROVE  /\ byId \subseteq byId'
           /\ \A v \in 1..Latest' : \/ v \in 1..Latest /\ defaults'[v] = defaults[v]
                                   \/ source'[defaults'[v]].status = "active"
           /\ \/ Latest' = Latest /\ defaults'[Latest'] = defaults[Latest]
              \/ source'[defaults'[Latest']].status = "active"
           /\ Latest' \in 1..Latest'
           /\ \A v \in 1..Latest' : defaults'[v] \in Sources
<1>1. defaults \in Seq(Sources) /\ Latest \in Nat
  BY DEF Inv, SourceTypeOK, Latest
<1>2. Latest' \in 1..Latest' /\ \A v \in 1..Latest' : defaults'[v] \in Sources
  <2>1. Inv'
    BY NextInv
  <2>2. QED
    BY <2>1 DEF Inv, VersionsOK, SourceTypeOK, Latest
<1>3. CASE UNCHANGED <<defaults, byId>>
  BY <1>2, <1>3 DEF Latest
<1>4. ASSUME NEW s \in Sources, NewVersion(s)
      PROVE  /\ byId \subseteq byId'
             /\ \A v \in 1..Latest' : \/ v \in 1..Latest /\ defaults'[v] = defaults[v]
                                     \/ source'[defaults'[v]].status = "active"
             /\ source'[defaults'[Latest']].status = "active"
  <2>1. defaults' = Append(defaults, s) /\ source'[s].status = "active"
    BY <1>4 DEF NewVersion, UsableDefault
  <2>2. /\ Latest' = Latest + 1 /\ defaults'[Latest + 1] = s
        /\ \A v \in 1..Latest : defaults'[v] = defaults[v]
    BY <1>1, <2>1 DEF Latest
  <2>3. source'[defaults'[Latest']].status = "active"
    BY <2>1, <2>2
  <2>4. ASSUME NEW v \in 1..Latest', ~(v \in 1..Latest)
        PROVE  v = Latest'
    BY <1>1, <2>2, <2>4
  <2>5. byId \subseteq byId'
    BY <1>4 DEF NewVersion
  <2>6. QED
    BY <2>2, <2>3, <2>4, <2>5
<1>5. QED
  BY <1>2, <1>3, <1>4, SourceSteps

(* No step takes away the row of a default source named by its ref.        *)
LEMMA NextDefaults == Inv /\ RefDefaultsExist /\ [SourceNext]_sourceVars => RefDefaultsExist'
<1> SUFFICES ASSUME Inv, RefDefaultsExist, [SourceNext]_sourceVars, NEW v \in 1..Latest', v \notin byId'
             PROVE  source'[defaults'[v]].status \in Statuses
  BY DEF RefDefaultsExist, HasRow
<1>0. v \notin byId
  BY VersionSteps
<1>1. CASE source'[defaults'[v]].status = "active"
  BY <1>1 DEF Statuses
<1>2. CASE v \in 1..Latest /\ defaults'[v] = defaults[v]
  <2>1. PICK d \in Sources : d = defaults[v]
    BY <1>2, VersionSteps
  <2>2. source[d].status \in Statuses /\ source \in [Sources -> [status : Statuses \cup {"none", "removed"}, tree : Trees]]
    BY <1>0, <1>2, <2>1 DEF RefDefaultsExist, HasRow, Inv, SourceTypeOK
  <2>3. ASSUME NEW s \in Sources, Archives(s) \/ Unarchives(s)
        PROVE  source'[d].status \in Statuses
    BY <2>2, <2>3 DEF Archives, Unarchives, Statuses
  <2>4. ASSUME NEW s \in Sources, Removes(s)
        PROVE  source'[d].status \in Statuses
    <3>1. s # d
      BY <1>0, <1>2, <2>1, <2>4 DEF Removes, Blocked, IsDefault
    <3>2. QED
      BY <2>2, <2>4, <3>1 DEF Removes
  <2>5. ASSUME NEW o \in Processes, Imports(held[o].src, held[o].tree)
        PROVE  source'[d].status \in Statuses
    BY <2>2, <2>5 DEF Imports, Statuses
  <2>6. source'[d].status \in Statuses
    BY <2>2, <2>3, <2>4, <2>5, SourceSteps
  <2>7. QED
    BY <1>2, <2>1, <2>6
<1>3. QED
  BY <1>1, <1>2, VersionSteps

(* A removal looks at the defaults of all config versions in the           *)
(* transaction that deletes the row, and a version takes active sources    *)
(* only: no version that names its default source by the ref, which is     *)
(* what `_source_remove_blockers` compares, is ever left without it.       *)
THEOREM RefDefaultsAlwaysExist == SourceSpec => []RefDefaultsExist
<1>1. SourceInit => RefDefaultsExist
  BY SourceConstants DEF SourceInit, RefDefaultsExist, HasRow, Statuses, Latest
<1>2. QED
  BY <1>1, NextDefaults, Invariance, PTL DEF SourceSpec

(* No step activates a second source of a tree.                            *)
LEMMA NextTrees == Inv /\ OneActivePerTree /\ [SourceNext]_sourceVars => OneActivePerTree'
<1> SUFFICES ASSUME Inv, OneActivePerTree, [SourceNext]_sourceVars, NEW s \in Sources, NEW r \in Sources,
                    source'[s].status = "active", source'[r].status = "active", s # r
             PROVE  source'[s].tree # source'[r].tree
  BY DEF OneActivePerTree
<1>0. source \in [Sources -> [status : Statuses \cup {"none", "removed"}, tree : Trees]]
  BY DEF Inv, SourceTypeOK
<1>1. CASE source' = source
  BY <1>1 DEF OneActivePerTree
<1>2. ASSUME NEW o \in Processes, Imports(held[o].src, held[o].tree)
      PROVE  source'[s].tree # source'[r].tree
  BY <1>0, <1>2 DEF Imports, TreeTaken, OneActivePerTree
<1>3. ASSUME NEW x \in Sources, Archives(x)
      PROVE  source'[s].tree # source'[r].tree
  BY <1>0, <1>3 DEF Archives, OneActivePerTree
<1>4. ASSUME NEW x \in Sources, Unarchives(x)
      PROVE  source'[s].tree # source'[r].tree
  BY <1>0, <1>4 DEF Unarchives, TreeTaken, OneActivePerTree
<1>5. ASSUME NEW x \in Sources, Removes(x)
      PROVE  source'[s].tree # source'[r].tree
  BY <1>0, <1>5 DEF Removes, OneActivePerTree
<1>6. QED
  BY <1>1, <1>2, <1>3, <1>4, <1>5, SourceSteps

(* Overlapping imports of a tree, and unarchives, never leave two active   *)
(* sources of it: the unique index decides, not what a command read.       *)
THEOREM OneActive == SourceSpec => []OneActivePerTree
<1>1. SourceInit => OneActivePerTree
  BY DEF SourceInit, OneActivePerTree
<1>2. QED
  BY <1>1, NextTrees, Invariance, PTL DEF SourceSpec

(* No step but a stale archive leaves the latest default inactive, when it *)
(* is named by its ref.                                                    *)
LEMMA NextLatestDefault ==
    Inv /\ LatestRefDefaultActive /\ [SourceNext]_sourceVars => LatestRefDefaultActive'
<1> SUFFICES ASSUME Inv, LatestRefDefaultActive, [SourceNext]_sourceVars,
                    ~stale', Latest' \notin byId'
             PROVE  source'[defaults'[Latest']].status = "active"
  BY DEF LatestRefDefaultActive
<1>1. CASE source'[defaults'[Latest']].status = "active"
  BY <1>1
<1>2. CASE Latest' = Latest /\ defaults'[Latest'] = defaults[Latest]
  <2>1. PICK d \in Sources : d = defaults[Latest]
    BY <1>2, VersionSteps
  <2>0. Latest \notin byId
    BY <1>2, VersionSteps
  <2>2. source[d].status = "active" /\ source \in [Sources -> [status : Statuses \cup {"none", "removed"}, tree : Trees]]
    BY <2>0, <2>1, SourceSteps DEF LatestRefDefaultActive, Inv, SourceTypeOK
  <2>3. ASSUME NEW s \in Sources, Archives(s) \/ Unarchives(s)
        PROVE  source'[d].status = "active"
    BY <2>0, <2>1, <2>2, <2>3 DEF Archives, Unarchives, IsDefault
  <2>4. ASSUME NEW s \in Sources, Removes(s)
        PROVE  source'[d].status = "active"
    BY <2>1, <2>2, <2>4 DEF Removes, Blocked
  <2>5. ASSUME NEW o \in Processes, Imports(held[o].src, held[o].tree)
        PROVE  source'[d].status = "active"
    BY <2>2, <2>5 DEF Imports
  <2>6. source'[d].status = "active"
    BY <2>2, <2>3, <2>4, <2>5, SourceSteps
  <2>7. QED
    BY <1>2, <2>1, <2>6
<1>3. QED
  BY <1>1, <1>2, VersionSteps

(* The default source of the latest config version, named by its ref, is   *)
(* active, but for an archive that read the project before that version    *)
(* was written: the one interleaving that breaks it (`cmd_source_archive`).*)
THEOREM LatestRefDefault == SourceSpec => []LatestRefDefaultActive
<1>1. SourceInit => LatestRefDefaultActive
  BY SourceConstants DEF SourceInit, LatestRefDefaultActive, Latest
<1>2. QED
  BY <1>1, NextLatestDefault, Invariance, PTL DEF SourceSpec

(* Every step keeps the ref of a source with a row, or leaves word of it.  *)
LEMMA NextRefs == Inv /\ RefKept /\ [SourceNext]_sourceVars => RefKept'
<1> SUFFICES ASSUME Inv, RefKept, [SourceNext]_sourceVars, NEW s \in Sources, HasRow(s)',
                    s \notin refs', s \notin lost'
             PROVE  \E p \in Processes : held'[p].src = s /\ Restores(p)'
  BY DEF RefKept
<1>0. held \in [Processes -> Records]
  BY DEF Inv, SourceTypeOK, Records
<1>1. HasRow(s)
  <2>1. ASSUME NEW o \in Processes, ImportInsert(o), Imports(held[o].src, held[o].tree), held[o].src = s
        PROVE  FALSE
    BY <2>1 DEF ImportInsert, Inv, HeldOK
  <2>2. ASSUME NEW o \in Processes, ImportInsert(o), Imports(held[o].src, held[o].tree), held[o].src # s
        PROVE  HasRow(s)
    BY <2>2 DEF Imports, HasRow, Inv, SourceTypeOK
  <2>3. ASSUME NEW x \in Sources, Archives(x) \/ Unarchives(x) \/ Removes(x)
        PROVE  HasRow(s)
    BY <2>3 DEF Archives, Unarchives, Removes, HasRow, Statuses, Inv, SourceTypeOK
  <2>4. QED
    BY <2>1, <2>2, <2>3, SourceSteps DEF HasRow
<1>2. ASSUME UNCHANGED <<refs, lost>>
      PROVE  \E p \in Processes : held[p].src = s /\ Restores(p)
  BY <1>1, <1>2 DEF RefKept
<1>3. ASSUME UNCHANGED <<refs, lost>>,
             \A p \in Processes : Restores(p) => held'[p].src = held[p].src /\ Restores(p)'
      PROVE  \E p \in Processes : held'[p].src = s /\ Restores(p)'
  BY <1>2, <1>3
<1>4. ASSUME NEW o \in Processes, NEW h, Hold(o, h), Free(o)
      PROVE  \A p \in Processes : Restores(p) => held'[p].src = held[p].src /\ Restores(p)'
  BY <1>0, <1>4, NothingHeld DEF Hold, Restores, Free
<1>5. ASSUME NEW o \in Processes, Release(o), ~Restores(o)
      PROVE  \A p \in Processes : Restores(p) => held'[p].src = held[p].src /\ Restores(p)'
  BY <1>0, <1>5, Released DEF Restores
<1>6. ASSUME NEW o \in Processes, held[o].cmd = "deleterow", held' = [held EXCEPT ![o].cmd = "restoreref"]
      PROVE  \A p \in Processes : Restores(p) => held'[p].src = held[p].src /\ Restores(p)'
  <2>1. /\ held'[o].src = held[o].src /\ held'[o].version = held[o].version
        /\ held'[o].cmd = "restoreref" /\ \A p \in Processes \ {o} : held'[p] = held[p]
    BY <1>0, <1>6 DEF Records
  <2>2. QED
    BY <2>1 DEF Restores
<1>7. ASSUME NEW o \in Processes, NEW t \in Trees, ImportPushed(o, t)
      PROVE  \E p \in Processes : held'[p].src = s /\ Restores(p)'
  <2>1. s \notin refs /\ s \notin lost
    BY <1>7 DEF ImportPushed
  <2>2. QED
    BY <1>1, <1>4, <1>7, <2>1 DEF ImportPushed, RefKept
<1>8. ASSUME NEW o \in Processes, ImportInsert(o) \/ ArchiveSource(o) \/ InsertExperiment(o)
      PROVE  \E p \in Processes : held'[p].src = s /\ Restores(p)'
  BY <1>3, <1>5, <1>8 DEF ImportInsert, ArchiveSource, InsertExperiment, Restores
<1>9. ASSUME NEW o \in Processes,
             \/ ArchiveBegin(o) \/ \E cascade \in BOOLEAN : RemoveSourceBegin(o, cascade)
             \/ \E e \in Experiments, x \in Sources :
                  \/ \E seen \in BOOLEAN : CreateFromSource(o, e, x, seen)
                  \/ CreateFromExperiment(o, e, x)
      PROVE  \E p \in Processes : held'[p].src = s /\ Restores(p)'
  BY <1>3, <1>4, <1>9 DEF ArchiveBegin, RemoveSourceBegin, CreateFromSource, WorktreeAdded, CreateFromExperiment
<1>10. ASSUME NEW o \in Processes, DeleteRef(o)
       PROVE  \E p \in Processes : held'[p].src = s /\ Restores(p)'
  <2>1. /\ held'[o].src = held[o].src /\ held'[o].cmd = "deleterow"
        /\ held'[o].version = IF held[o].src \in refs THEN 1 ELSE 0
        /\ \A p \in Processes \ {o} : held'[p] = held[p]
    BY <1>0, <1>10 DEF DeleteRef, Records
  <2>2. held[o].cmd = "deleteref" /\ lost' = lost /\ refs' = refs \ {held[o].src}
    BY <1>10 DEF DeleteRef
  <2>3. CASE s \in refs
    BY <2>1, <2>2, <2>3 DEF Restores
  <2>4. CASE s \notin refs
    <3>1. PICK p \in Processes : held[p].src = s /\ Restores(p)
      BY <1>1, <2>2, <2>4 DEF RefKept
    <3>2. p # o
      BY <2>2, <3>1 DEF Restores
    <3>3. QED
      BY <2>1, <3>1, <3>2 DEF Restores
  <2>5. QED
    BY <2>3, <2>4
<1>11. ASSUME NEW o \in Processes, RemoveSource(o)
       PROVE  \E p \in Processes : held'[p].src = s /\ Restores(p)'
  <2>1. CASE HasRow(held[o].src) /\ ~Blocked(held[o].src, held[o].flag)
    <3>1. held[o].src \in Sources /\ source'[held[o].src].status = "removed" /\ Release(o)
      BY <1>11, <2>1 DEF RemoveSource, Inv, HeldOK, SourceTypeOK
    <3>2. held[o].src # s
      BY <3>1 DEF HasRow, Statuses
    <3>3. PICK p \in Processes : held[p].src = s /\ Restores(p)
      BY <1>2, <1>11 DEF RemoveSource
    <3>4. held'[p] = held[p]
      BY <1>0, <3>1, <3>2, <3>3, Released
    <3>5. QED
      BY <3>3, <3>4 DEF Restores
  <2>2. CASE ~(HasRow(held[o].src) /\ ~Blocked(held[o].src, held[o].flag))
    BY <1>3, <1>6, <1>11, <2>2 DEF RemoveSource
  <2>3. QED
    BY <2>1, <2>2
<1>12. ASSUME NEW o \in Processes, RestoreRef(o)
       PROVE  \E p \in Processes : held'[p].src = s /\ Restores(p)'
  <2>1. Release(o) /\ lost' = lost /\ refs' = IF Restores(o) THEN refs \cup {held[o].src} ELSE refs
    BY <1>12 DEF RestoreRef, RefsRestored
  <2>2. PICK p \in Processes : held[p].src = s /\ Restores(p)
    BY <1>1, <2>1 DEF RefKept
  <2>3. p # o
    BY <2>1, <2>2
  <2>4. held'[p] = held[p]
    BY <1>0, <2>1, <2>3, Released
  <2>5. QED
    BY <2>2, <2>4 DEF Restores
<1>13. ASSUME NEW o \in Processes, Dies(o)
       PROVE  \E p \in Processes : held'[p].src = s /\ Restores(p)'
  <2>1. CASE Release(o) /\ lost' = IF Restores(o) THEN lost \cup {held[o].src} ELSE lost
    <3>1. PICK p \in Processes : held[p].src = s /\ Restores(p)
      BY <1>1, <1>13, <2>1 DEF RefKept, Dies
    <3>2. p # o
      BY <2>1, <3>1
    <3>3. held'[p] = held[p]
      BY <1>0, <2>1, <3>2, Released
    <3>4. QED
      BY <3>1, <3>3 DEF Restores
  <2>2. CASE ~(Release(o) /\ lost' = IF Restores(o) THEN lost \cup {held[o].src} ELSE lost)
    BY <1>3, <1>6, <1>13, <2>2 DEF Dies
  <2>3. QED
    BY <2>1, <2>2
<1>14. ASSUME NEW x \in Sources, UnarchiveSource(x) \/ NewVersion(x)
       PROVE  \E p \in Processes : held'[p].src = s /\ Restores(p)'
  BY <1>3, <1>14 DEF UnarchiveSource, NewVersion, Restores
<1>15. ASSUME NEW e \in Experiments, SetExperiment(e)
       PROVE  \E p \in Processes : held'[p].src = s /\ Restores(p)'
  BY <1>3, <1>15 DEF SetExperiment, Restores
<1>16. CASE UNCHANGED sourceVars
  BY <1>3, <1>16 DEF sourceVars, Restores
<1>17. QED
  BY <1>7, <1>8, <1>9, <1>10, <1>11, <1>12, <1>13, <1>14, <1>15, <1>16 DEF SourceNext

(* A source with a row keeps its Git ref, whatever removals of it overlap  *)
(* and fail: only a removal that dies between the ref and the row leaves   *)
(* the row without.                                                        *)
THEOREM RefsKept == SourceSpec => []RefKept
<1>1. SourceInit => RefKept
  BY DEF SourceInit, RefKept, HasRow, Statuses
<1>2. QED
  BY <1>1, NextRefs, Invariance, PTL DEF SourceSpec

=============================================================================
