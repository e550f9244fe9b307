------------------------ MODULE WorktreeAccess_proofs ------------------------
(***************************************************************************)
(* Proofs about worktrees and their registry.  Rows are numbered, so an    *)
(* invocation that has read one finds the same row again, or none that is  *)
(* active; what a removal and a repair may do to each other's rows is the  *)
(* crux of the invariant.                                                  *)
(***************************************************************************)
EXTENDS WorktreeAccess, FiniteSetTheorems, TLAPS

(* The rows of path_registry are numbered in the order they were added.    *)
RowsOK == \E n \in 0..MaxRows : {r.id : r \in registry} = 1..n

(* A directory with a marker is of an experiment and a mode.               *)
Marked(d) == d.marker # NoToken => d.exp \in Exps /\ d.mode \in Modes

DirsOK ==
    /\ \A p \in Paths : Marked(dir[p])
    /\ \A o \in Ops : \A s \in loc[o].staged : Marked(s.dir)

(* What an invocation works on.                                            *)
Whole(l) == l.exp \in Exps /\ l.mode \in Modes /\ l.path \in Paths

LocOK(o) ==
    LET l == loc[o] IN
    /\ pc[o] = "idle" => l = NoLoc
    /\ pc[o] \in {"adding", "opening"} => l.cmd \in Adding
    /\ pc[o] = "committing" => l.cmd \in Adding \cup {"regenerate"} /\ l.new # NoToken
    /\ pc[o] \in {"staging", "deleting", "pruning"} => l.cmd \in Removing /\ l.exp \in Exps
    /\ pc[o] = "repairing" => l.cmd = "repair" /\ l.old # NoToken
    /\ l.cmd \in Adding \cup {"regenerate", "repair"} => Whole(l)
    /\ l.cmd \in Adding => (l.mode = "inspection" <=> l.cmd = "checkout")

(* The row it knows is there and keeps its experiment and mode.            *)
RowOK(o) ==
    /\ loc[o].row # 0 => \E r \in registry : r.id = loc[o].row
    /\ loc[o].cmd = "checkout remove" =>
          \A r \in registry : r.id = loc[o].row => r.exp = loc[o].exp /\ r.mode = "inspection"

(* Repairs and removals of an experiment keep apart, so the row that a     *)
(* repair has read is still active.                                        *)
RepairsApart ==
    ~RepairMeetsRemoval =>
        /\ \A o, p \in Ops : loc[o].cmd = "repair" /\ loc[p].cmd \in Removing =>
              loc[p].exp \notin Repairs(o)
        /\ \A o \in Ops : loc[o].cmd = "repair" /\ loc[o].row # 0 =>
              \E r \in Active : r.id = loc[o].row

(* A removed experiment has no active row of its own making.               *)
NoneRegistered ==
    ~RepairMeetsRemoval =>
        \A r \in Active : r.mode = "worktree" /\ r.by # "repair" => wt[r.exp] # "removed"

Inv == /\ TypeOK /\ RowsOK /\ DirsOK
       /\ \A o \in Ops : LocOK(o) /\ RowOK(o)
       /\ RepairsApart /\ NoneRegistered /\ ActiveWorktreeRegistered

PC == {"idle", "adding", "opening", "committing", "staging", "deleting",
       "restoring", "pruning", "repairing"}

(* Nothing is no part of a directory or an invocation.                     *)
LEMMA Nothing ==
    /\ NoDir \in Dir /\ Marked(NoDir)
    /\ NoLoc \in Loc /\ NoLoc.cmd = "none" /\ NoLoc.row = 0 /\ NoLoc.staged = {}
<1>1. MaxRows \in Nat /\ NoToken \notin Tokens
  BY ConstantsAssumption DEF NoToken, Tokens
<1>2. NoDir \in Dir /\ NoDir.marker = NoToken
  BY DEF NoDir, Dir
<1>3. NoLoc \in Loc
  BY <1>1 DEF NoLoc, Loc
<1>4. QED
  BY <1>2, <1>3 DEF Marked, NoLoc

(* Where an invocation goes, the others stay.                              *)
LEMMA Goes ==
    ASSUME TypeOK, NEW o \in Ops, NEW label \in PC, Goto(o, label)
    PROVE  /\ pc' \in [Ops -> PC] /\ pc'[o] = label
           /\ \A q \in Ops \ {o} : pc'[q] = pc[q]
BY DEF TypeOK, Goto, PC

(* What one invocation learns, the others do not.                          *)
LEMMA Learns ==
    ASSUME TypeOK, NEW o \in Ops, NEW l \in Loc, loc' = [loc EXCEPT ![o] = l]
    PROVE  /\ loc' \in [Ops -> Loc] /\ loc'[o] = l
           /\ \A q \in Ops \ {o} : loc'[q] = loc[q]
BY DEF TypeOK

(* An invocation that ends knows nothing.                                  *)
LEMMA Ends ==
    ASSUME TypeOK, NEW o \in Ops, End(o)
    PROVE  /\ pc' \in [Ops -> PC] /\ pc'[o] = "idle" /\ loc' \in [Ops -> Loc] /\ loc'[o] = NoLoc
           /\ \A q \in Ops \ {o} : pc'[q] = pc[q] /\ loc'[q] = loc[q]
BY Nothing, Goes, Learns DEF End, PC

(* The rows are finitely many, as many as their ids.                       *)
LEMMA RowCount ==
    ASSUME TypeOK, RowsOK
    PROVE  \E n \in 0..MaxRows : {r.id : r \in registry} = 1..n /\ Cardinality(registry) = n
<1>1. PICK n \in 0..MaxRows : {r.id : r \in registry} = 1..n
  BY DEF RowsOK
<1>2. n \in Nat /\ 1..n = {k \in Nat : 1 <= k /\ k <= n}
  BY ConstantsAssumption
<1> DEFINE row(k) == CHOOSE r \in registry : r.id = k
           f == [k \in 1..n |-> row(k)]
<1>3. \A k \in 1..n : row(k) \in registry /\ row(k).id = k
  <2> SUFFICES ASSUME NEW k \in 1..n PROVE row(k) \in registry /\ row(k).id = k
    OBVIOUS
  <2>1. \E r \in registry : r.id = k
    BY <1>1
  <2>2. QED
    BY <2>1
<1>4. \A r \in registry : r.id \in 1..n /\ row(r.id) = r
  BY <1>1, <1>3 DEF TypeOK
<1> HIDE DEF row
<1>5. f \in Bijection(1..n, registry)
  <2>1. f \in [1..n -> registry]
    BY <1>3
  <2>2. \A j, k \in 1..n : f[j] = f[k] => j = k
    BY <1>3
  <2>3. \A r \in registry : \E k \in 1..n : f[k] = r
    BY <1>4
  <2>4. QED
    BY <2>1, <2>2, <2>3 DEF Bijection, Injection, Surjection, IsInjective
<1>6. IsFiniteSet(1..n) /\ Cardinality(1..n) = n
  BY <1>2, FS_Interval
<1>7. ExistsBijection(1..n, registry)
  BY <1>5 DEF ExistsBijection
<1>8. Cardinality(registry) = n
  BY <1>6, <1>7, FS_Bijection
<1>9. QED
  BY <1>1, <1>8

(* What every step leaves of a row: id, experiment, mode and maker;  and   *)
(* what a new row is: one with a new id.                                   *)
Same(r, s) == /\ s.id = r.id /\ s.exp = r.exp /\ s.mode = r.mode
              /\ s.by = "repair" <=> r.by = "repair"

RowStep ==
    /\ \A r \in registry : \E s \in registry' : Same(r, s)
    /\ \A s \in registry' : \/ \E r \in registry : Same(r, s)
                            \/ \A r \in registry : r.id # s.id

(* An invocation finds the row it has read again.                          *)
LEMMA RowStays ==
    ASSUME RowStep, registry' \subseteq Row, NEW o \in Ops, RowOK(o),
           loc'[o].row = loc[o].row, loc'[o].exp = loc[o].exp, loc'[o].cmd = loc[o].cmd
    PROVE  RowOK(o)'
<1>1. ASSUME loc[o].row # 0 PROVE \E s \in registry' : s.id = loc[o].row
  <2>1. PICK r \in registry : r.id = loc[o].row
    BY <1>1 DEF RowOK
  <2>2. QED
    BY <2>1 DEF RowStep, Same
<1>2. ASSUME loc[o].cmd = "checkout remove", NEW s \in registry', s.id = loc[o].row
      PROVE  s.exp = loc[o].exp /\ s.mode = "inspection"
  <2>1. s.id # 0
    BY DEF Row
  <2>2. \E r \in registry : r.id = s.id
    BY <1>2, <2>1 DEF RowOK
  <2>3. PICK r \in registry : Same(r, s)
    BY <2>2 DEF RowStep
  <2>4. QED
    BY <1>2, <2>3 DEF RowOK, Same
<1>3. QED
  BY <1>1, <1>2 DEF RowOK

(* A repair stays a repair of the same experiments.                        *)
LEMMA RepairsStay ==
    ASSUME RowStep, registry' \subseteq Row, NEW o \in Ops, RowOK(o),
           loc'[o].row = loc[o].row, loc'[o].exp = loc[o].exp
    PROVE  Repairs(o)' \subseteq Repairs(o)
<1>1. ASSUME NEW s \in registry', s.id = loc[o].row
      PROVE  \E r \in registry : r.id = loc[o].row /\ r.exp = s.exp
  <2>1. s.id # 0
    BY DEF Row
  <2>2. \E r \in registry : r.id = s.id
    BY <1>1, <2>1 DEF RowOK
  <2>3. QED
    BY <1>1, <2>2 DEF RowStep, Same
<1>2. QED
  BY <1>1 DEF Repairs

(* Repairs and removals stay apart as long as none begins and the rows of  *)
(* repairs stay active.                                                    *)
LEMMA ApartStays ==
    ASSUME RepairsApart, RowStep, registry' \subseteq Row, \A o \in Ops : RowOK(o),
           \A o \in Ops : loc'[o].cmd \in Removing \cup {"repair"} =>
               /\ loc'[o].cmd = loc[o].cmd /\ loc'[o].exp = loc[o].exp
               /\ loc'[o].row = loc[o].row,
           ~RepairMeetsRemoval => \A o \in Ops :
               loc'[o].cmd = "repair" /\ loc[o].row # 0 => \E s \in Active' : s.id = loc[o].row
    PROVE  RepairsApart'
<1>1. \A o \in Ops : loc'[o].cmd = "repair" => Repairs(o)' \subseteq Repairs(o)
  BY RepairsStay
<1>2. QED
  BY <1>1 DEF RepairsApart

(* Rows that nobody touches.                                               *)
LEMMA SameRows ==
    ASSUME UNCHANGED registry PROVE RowStep /\ Active' = Active
BY DEF RowStep, Same, Active

(* What the tables say stays as they are.                                  *)
LEMMA TablesStay ==
    ASSUME Inv, UNCHANGED <<wt, registry>>
    PROVE  RowsOK' /\ NoneRegistered' /\ ActiveWorktreeRegistered'
BY DEF Inv, RowsOK, NoneRegistered, ActiveWorktreeRegistered, Active

(* An invocation that changes no table and begins no removal or repair.    *)
LEMMA GoesOn ==
    ASSUME Inv, NEW o \in Ops, UNCHANGED <<wt, registry>>, TypeOK', DirsOK',
           \A q \in Ops \ {o} : pc'[q] = pc[q] /\ loc'[q] = loc[q],
           LocOK(o)', RowOK(o)',
           loc'[o].cmd \in Removing \cup {"repair"} =>
               /\ loc'[o].cmd = loc[o].cmd /\ loc'[o].exp = loc[o].exp
               /\ loc'[o].row = loc[o].row
    PROVE  Inv'
<1>1. \A q \in Ops : LocOK(q)' /\ RowOK(q)'
  <2>1. ASSUME NEW q \in Ops \ {o} PROVE LocOK(q)' /\ RowOK(q)'
    <3>1. LocOK(q) /\ RowOK(q)
      BY DEF Inv
    <3>2. LocOK(q)'
      BY <3>1 DEF LocOK, Whole
    <3>3. RowOK(q)'
      BY <3>1 DEF RowOK
    <3>4. QED
      BY <3>2, <3>3
  <2>2. QED
    BY <2>1
<1>2. \A q \in Ops : loc'[q].cmd \in Removing \cup {"repair"} =>
        loc'[q].cmd = loc[q].cmd /\ loc'[q].exp = loc[q].exp /\ loc'[q].row = loc[q].row
  OBVIOUS
<1>3. ~RepairMeetsRemoval => \A q \in Ops :
        loc'[q].cmd = "repair" /\ loc[q].row # 0 => \E s \in Active' : s.id = loc[q].row
  BY <1>2, SameRows DEF Inv, RepairsApart
<1>4. registry' \subseteq Row
  BY DEF TypeOK
<1>5. RepairsApart'
  BY <1>2, <1>3, <1>4, SameRows, ApartStays DEF Inv
<1>6. QED
  BY <1>1, <1>5, TablesStay DEF Inv

(* A step of no invocation.                                                *)
LEMMA UserSteps ==
    ASSUME Inv, UNCHANGED <<wt, registry, pc, loc>>, TypeOK', DirsOK' PROVE Inv'
<1>1. \A q \in Ops : LocOK(q)' /\ RowOK(q)'
  BY DEF Inv, LocOK, RowOK, Whole
<1>2. registry' \subseteq Row
  BY DEF TypeOK
<1>3. RepairsApart'
  BY <1>2, SameRows, ApartStays DEF Inv, RepairsApart
<1>4. QED
  BY <1>1, <1>3, TablesStay DEF Inv

(* The types of what a step changes.                                       *)
LEMMA TypesStay ==
    ASSUME TypeOK, UNCHANGED <<wt, at, creds, registry>>,
           branches' \subseteq Exps, issued' \in 0..MaxTokens, dir' \in [Paths -> Dir],
           git' \subseteq [path : Paths, branch : Exps \cup {Null}],
           writer' \in Ops \cup {Null}, faults' \in 0..MaxFaults,
           pc' \in [Ops -> PC], loc' \in [Ops -> Loc]
    PROVE  TypeOK'
BY DEF TypeOK, PC

(* What a fault is counted by.                                             *)
LEMMA Faults == ASSUME TypeOK, Fault PROVE faults' \in 0..MaxFaults
BY ConstantsAssumption DEF TypeOK, Fault

(* A token that is issued.                                                 *)
LEMMA Issued == ASSUME TypeOK, issued < MaxTokens
                PROVE  issued + 1 \in Tokens /\ issued + 1 \in 0..MaxTokens /\ issued + 1 # NoToken
BY ConstantsAssumption DEF TypeOK, Tokens, NoToken

(* Directories stay marked when one of them is written or goes.            *)
LEMMA DirWritten ==
    ASSUME TypeOK, NEW p \in Paths, NEW d \in Dir, dir' = [dir EXCEPT ![p] = d]
    PROVE  /\ dir' \in [Paths -> Dir] /\ dir'[p] = d
           /\ \A q \in Paths \ {p} : dir'[q] = dir[q]
BY DEF TypeOK

(* An invocation starts to add a directory.                                *)
LEMMA StartAddInv ==
    ASSUME Inv, NEW o \in Ops, NEW cmd \in Adding, NEW e \in Exps, NEW p \in Paths,
           StartAdd(o, cmd, e, p)
    PROVE  Inv'
<1> DEFINE mode == IF cmd = "checkout" THEN "inspection" ELSE "worktree"
<1>1. /\ pc[o] = "idle" /\ Goto(o, "adding")
      /\ UNCHANGED <<wt, at, creds, registry, branches, issued, dir, git, writer, faults>>
  BY DEF StartAdd, tables
<1>2. TypeOK /\ loc[o] = NoLoc
  BY <1>1 DEF Inv, LocOK
<1>3. PICK t \in Tokens \cup {NoToken} :
        loc' = [loc EXCEPT ![o] = [NoLoc EXCEPT !.cmd = cmd, !.exp = e, !.mode = mode,
                                                !.path = p, !.old = t]]
  BY <1>2 DEF StartAdd, ActiveTokens, TypeOK
<1> DEFINE l == [NoLoc EXCEPT !.cmd = cmd, !.exp = e, !.mode = mode, !.path = p, !.old = t]
<1>4. mode \in Modes /\ (mode = "inspection" <=> cmd = "checkout")
  BY DEF Modes
<1> HIDE DEF mode
<1>5. /\ l \in Loc /\ l.cmd = cmd /\ l.exp = e /\ l.mode = mode /\ l.path = p
      /\ l.row = 0 /\ l.staged = {}
  BY <1>4, Nothing, ConstantsAssumption DEF Loc, NoLoc
<1>6. /\ loc' \in [Ops -> Loc] /\ loc'[o] = l /\ \A q \in Ops \ {o} : loc'[q] = loc[q]
  BY <1>2, <1>3, <1>5, Learns
<1> HIDE DEF l
<1>7. /\ pc' \in [Ops -> PC] /\ pc'[o] = "adding" /\ \A q \in Ops \ {o} : pc'[q] = pc[q]
  BY <1>1, <1>2, Goes DEF PC
<1>8. TypeOK'
  BY <1>1, <1>2, <1>6, <1>7, TypesStay DEF TypeOK
<1>9. DirsOK'
  BY <1>1, <1>5, <1>6 DEF Inv, DirsOK
<1>10. LocOK(o)' /\ RowOK(o)'
  BY <1>4, <1>5, <1>6, <1>7 DEF LocOK, RowOK, Whole, Adding, Removing
<1>11. loc'[o].cmd \notin Removing \cup {"repair"}
  BY <1>5, <1>6 DEF Adding, Removing
<1>12. QED
  BY <1>1, <1>6, <1>7, <1>8, <1>9, <1>10, <1>11, GoesOn

(* Marker and token file written into a directory.                         *)
LEMMA WrittenDir ==
    ASSUME NEW d \in Dir, Marked(d), NEW l, l.exp \in Exps, l.mode \in Modes,
           NEW marker \in Tokens \cup {NoToken}, NEW token \in Tokens \cup {NoToken}
    PROVE  Written(d, l, marker, token) \in Dir /\ Marked(Written(d, l, marker, token))
<1>1. CASE marker = NoToken
  <2>1. Written(d, l, marker, token) =
          [d EXCEPT !.exp = d.exp, !.mode = d.mode, !.marker = d.marker,
                    !.token = IF token = NoToken THEN d.token ELSE token]
    BY <1>1 DEF Written
  <2>2. QED
    BY <2>1 DEF Dir, Marked
<1>2. CASE marker # NoToken
  <2>1. Written(d, l, marker, token) =
          [d EXCEPT !.exp = l.exp, !.mode = l.mode, !.marker = marker,
                    !.token = IF token = NoToken THEN d.token ELSE token]
    BY <1>2 DEF Written
  <2>2. QED
    BY <1>2, <2>1 DEF Dir, Marked
<1>3. QED
  BY <1>1, <1>2

(* The worktree is added: a directory without a marker yet.                *)
LEMMA AddWorktreeInv == ASSUME Inv, NEW o \in Ops, AddWorktree(o) PROVE Inv'
<1>1. /\ pc[o] = "adding" /\ Goto(o, "opening")
      /\ dir' = [dir EXCEPT ![loc[o].path] = [NoDir EXCEPT !.gitpath = loc[o].path]]
      /\ branches' = IF loc[o].cmd = "create" THEN branches \cup {loc[o].exp} ELSE branches
      /\ git' = git \cup {[path |-> loc[o].path,
                           branch |-> IF loc[o].cmd = "checkout" THEN Null ELSE loc[o].exp]}
      /\ UNCHANGED <<wt, at, creds, registry, issued, writer, loc, faults>>
  BY DEF AddWorktree, GitAdds, tables
<1>2. TypeOK /\ LocOK(o) /\ RowOK(o)
  BY DEF Inv
<1>3. loc[o].cmd \in Adding /\ Whole(loc[o])
  BY <1>1, <1>2 DEF LocOK
<1>4. [NoDir EXCEPT !.gitpath = loc[o].path] \in Dir /\ Marked([NoDir EXCEPT !.gitpath = loc[o].path])
  BY <1>3, Nothing DEF Whole, Dir, NoDir, Marked
<1>5. dir' \in [Paths -> Dir] /\ \A p \in Paths : Marked(dir'[p])
  BY <1>1, <1>2, <1>3, <1>4, DirWritten DEF Whole, Inv, DirsOK
<1>6. /\ pc' \in [Ops -> PC] /\ pc'[o] = "opening" /\ \A q \in Ops \ {o} : pc'[q] = pc[q]
  BY <1>1, <1>2, Goes DEF PC
<1>7. branches' \subseteq Exps /\ git' \subseteq [path : Paths, branch : Exps \cup {Null}]
  BY <1>1, <1>2, <1>3 DEF Whole, TypeOK
<1>8. TypeOK'
  BY <1>1, <1>2, <1>5, <1>6, <1>7, TypesStay DEF TypeOK
<1>9. DirsOK'
  BY <1>1, <1>5 DEF Inv, DirsOK
<1>10. LocOK(o)' /\ RowOK(o)'
  BY <1>1, <1>2, <1>3, <1>6 DEF LocOK, RowOK, Whole
<1>11. QED
  BY <1>1, <1>6, <1>8, <1>9, <1>10, GoesOn

(* Marker and token file of a directory that is added.                     *)
LEMMA BeginAddInv == ASSUME Inv, NEW o \in Ops, BeginAdd(o) PROVE Inv'
<1> DEFINE new == issued + 1
           l == [loc[o] EXCEPT !.new = new]
<1>1. /\ pc[o] = "opening" /\ issued < MaxTokens /\ issued' = new /\ writer' = o
      /\ dir' = [dir EXCEPT ![loc[o].path] = Written(dir[loc[o].path], loc[o], new, new)]
      /\ loc' = [loc EXCEPT ![o] = l] /\ Goto(o, "committing")
      /\ UNCHANGED <<wt, at, creds, registry, branches, git, faults>>
  BY DEF BeginAdd, tables
<1>2. TypeOK /\ LocOK(o) /\ RowOK(o) /\ DirsOK /\ loc[o] \in Loc
  BY DEF Inv, TypeOK
<1>3. loc[o].cmd \in Adding /\ Whole(loc[o])
  BY <1>1, <1>2 DEF LocOK
<1>4. new \in Tokens /\ new \in 0..MaxTokens /\ new # NoToken
  BY <1>1, <1>2, Issued
<1> HIDE DEF new
<1>5. /\ l \in Loc /\ l.new = new /\ l.cmd = loc[o].cmd /\ l.exp = loc[o].exp
      /\ l.mode = loc[o].mode /\ l.path = loc[o].path /\ l.row = loc[o].row
      /\ l.staged = loc[o].staged
  BY <1>2, <1>4 DEF Loc
<1>6. /\ loc' \in [Ops -> Loc] /\ loc'[o] = l /\ \A q \in Ops \ {o} : loc'[q] = loc[q]
  BY <1>1, <1>2, <1>5, Learns
<1> HIDE DEF l
<1>7. loc[o].path \in Paths /\ dir[loc[o].path] \in Dir /\ Marked(dir[loc[o].path])
  BY <1>2, <1>3 DEF Whole, TypeOK, DirsOK
<1>8. dir' \in [Paths -> Dir] /\ \A p \in Paths : Marked(dir'[p])
  <2>1. LET d == Written(dir[loc[o].path], loc[o], new, new) IN d \in Dir /\ Marked(d)
    BY <1>3, <1>4, <1>7, WrittenDir DEF Whole
  <2>2. QED
    BY <1>1, <1>2, <1>7, <2>1, DirWritten DEF DirsOK
<1>9. /\ pc' \in [Ops -> PC] /\ pc'[o] = "committing" /\ \A q \in Ops \ {o} : pc'[q] = pc[q]
  BY <1>1, <1>2, Goes DEF PC
<1>10. TypeOK'
  BY <1>1, <1>2, <1>4, <1>6, <1>8, <1>9, TypesStay DEF TypeOK
<1>11. DirsOK'
  BY <1>2, <1>5, <1>6, <1>8 DEF DirsOK
<1>12. LocOK(o)' /\ RowOK(o)'
  <2>1. LocOK(o)'
    BY <1>2, <1>3, <1>4, <1>5, <1>6, <1>9 DEF LocOK, Whole
  <2>2. RowOK(o)'
    BY <1>1, <1>2, <1>5, <1>6 DEF RowOK
  <2>3. QED
    BY <2>1, <2>2
<1>13. QED
  BY <1>1, <1>5, <1>6, <1>9, <1>10, <1>11, <1>12, GoesOn

(* A command that is killed between the two files.                         *)
LEMMA KilledWritingInv == ASSUME Inv, NEW o \in Ops, KilledWriting(o) PROVE Inv'
<1> DEFINE new == issued + 1
<1>1. /\ pc[o] = "opening" /\ issued < MaxTokens /\ issued' = new /\ Fault /\ End(o)
      /\ dir' = [dir EXCEPT ![loc[o].path] = Written(dir[loc[o].path], loc[o], new, NoToken)]
      /\ UNCHANGED <<wt, at, creds, registry, branches, git, writer>>
  BY DEF KilledWriting, tables
<1>2. TypeOK /\ LocOK(o) /\ RowOK(o) /\ DirsOK
  BY DEF Inv
<1>3. Whole(loc[o])
  BY <1>1, <1>2 DEF LocOK
<1>4. new \in Tokens /\ new \in 0..MaxTokens
  BY <1>1, <1>2, Issued
<1> HIDE DEF new
<1>5. loc[o].path \in Paths /\ dir[loc[o].path] \in Dir /\ Marked(dir[loc[o].path])
  BY <1>2, <1>3 DEF Whole, TypeOK, DirsOK
<1>6. dir' \in [Paths -> Dir] /\ \A p \in Paths : Marked(dir'[p])
  <2>1. LET d == Written(dir[loc[o].path], loc[o], new, NoToken) IN d \in Dir /\ Marked(d)
    BY <1>3, <1>4, <1>5, WrittenDir DEF Whole
  <2>2. QED
    BY <1>1, <1>2, <1>5, <2>1, DirWritten DEF DirsOK
<1>7. /\ pc' \in [Ops -> PC] /\ pc'[o] = "idle" /\ loc' \in [Ops -> Loc] /\ loc'[o] = NoLoc
      /\ \A q \in Ops \ {o} : pc'[q] = pc[q] /\ loc'[q] = loc[q]
  BY <1>1, <1>2, Ends
<1>8. TypeOK'
  BY <1>1, <1>2, <1>4, <1>6, <1>7, Faults, TypesStay DEF TypeOK
<1>9. DirsOK'
  BY <1>2, <1>6, <1>7, Nothing DEF DirsOK
<1>10. LocOK(o)' /\ RowOK(o)' /\ loc'[o].cmd \notin Removing \cup {"repair"}
  BY <1>7, Nothing DEF LocOK, RowOK, Adding, Removing
<1>11. QED
  BY <1>1, <1>7, <1>8, <1>9, <1>10, GoesOn

(* A token's files are rewritten, or one of them.                          *)
LEMMA BeginRegenerateInv ==
    ASSUME Inv, NEW o \in Ops, NEW e \in Exps, NEW mode \in Modes, BeginRegenerate(o, e, mode)
    PROVE  Inv'
<1> DEFINE new == issued + 1
           tokens == ActiveTokens(e, mode)
           old == CHOOSE t \in tokens : \A u \in tokens : u <= t
           l(r) == [NoLoc EXCEPT !.cmd = "regenerate", !.exp = e, !.mode = mode,
                                 !.path = r.path, !.old = old, !.new = new, !.row = r.id]
<1>1. /\ pc[o] = "idle" /\ issued < MaxTokens /\ issued' = new
      /\ UNCHANGED <<wt, at, creds, registry, branches, git, faults>>
  BY DEF BeginRegenerate, tables
<1>2. TypeOK /\ LocOK(o) /\ RowOK(o) /\ DirsOK /\ loc[o] = NoLoc
  BY <1>1 DEF Inv, LocOK
<1>3. new \in Tokens /\ new \in 0..MaxTokens /\ new # NoToken
  BY <1>1, <1>2, Issued
<1>4. PICK r \in Active :
        /\ r.token = old
        /\ \/ /\ dir[r.path].marker # NoToken
              /\ dir' = [dir EXCEPT ![r.path] = Rewritten(dir[r.path], new)]
              /\ writer' = o /\ Goto(o, "committing")
              /\ loc' = [loc EXCEPT ![o] = l(r)]
           \/ /\ dir' = [dir EXCEPT ![r.path].token = new]
              /\ UNCHANGED <<writer, pc, loc>>
  BY DEF BeginRegenerate
<1> HIDE DEF new, old
<1>5. /\ r \in registry /\ r.path \in Paths /\ r.id \in 0..MaxRows /\ r.token \in Tokens
      /\ dir[r.path] \in Dir /\ Marked(dir[r.path])
  BY <1>2 DEF Active, TypeOK, Row, DirsOK
<1>6. CASE /\ dir[r.path].marker # NoToken
           /\ dir' = [dir EXCEPT ![r.path] = Rewritten(dir[r.path], new)]
           /\ writer' = o /\ Goto(o, "committing") /\ loc' = [loc EXCEPT ![o] = l(r)]
  <2>1. /\ l(r) \in Loc /\ l(r).cmd = "regenerate" /\ l(r).exp = e /\ l(r).mode = mode
        /\ l(r).path = r.path /\ l(r).new = new /\ l(r).row = r.id /\ l(r).staged = {}
    BY <1>3, <1>4, <1>5, Nothing DEF Loc, NoLoc
  <2>2. /\ loc' \in [Ops -> Loc] /\ loc'[o] = l(r) /\ \A q \in Ops \ {o} : loc'[q] = loc[q]
    BY <1>2, <1>6, <2>1, Learns
  <2> HIDE DEF l
  <2>3. /\ pc' \in [Ops -> PC] /\ pc'[o] = "committing" /\ \A q \in Ops \ {o} : pc'[q] = pc[q]
    BY <1>2, <1>6, Goes DEF PC
  <2>4. Rewritten(dir[r.path], new) \in Dir /\ Marked(Rewritten(dir[r.path], new))
    BY <1>3, <1>5, <1>6 DEF Rewritten, Dir, Marked
  <2>5. dir' \in [Paths -> Dir] /\ \A p \in Paths : Marked(dir'[p])
    BY <1>2, <1>5, <1>6, <2>4, DirWritten DEF DirsOK
  <2>6. TypeOK'
    BY <1>1, <1>2, <1>3, <1>6, <2>2, <2>3, <2>5, TypesStay DEF TypeOK
  <2>7. DirsOK'
    BY <1>2, <2>1, <2>2, <2>5 DEF DirsOK
  <2>8. LocOK(o)' /\ RowOK(o)'
    BY <1>1, <1>3, <1>5, <2>1, <2>2, <2>3 DEF LocOK, RowOK, Whole, Adding, Removing
  <2>9. loc'[o].cmd \notin Removing \cup {"repair"}
    BY <2>1, <2>2 DEF Removing
  <2>10. QED
    BY <1>1, <2>2, <2>3, <2>6, <2>7, <2>8, <2>9, GoesOn
<1>7. CASE dir' = [dir EXCEPT ![r.path].token = new] /\ UNCHANGED <<writer, pc, loc>>
  <2>1. LET d == [dir[r.path] EXCEPT !.token = new] IN
        d \in Dir /\ Marked(d) /\ dir' = [dir EXCEPT ![r.path] = d]
    BY <1>3, <1>5, <1>7 DEF Dir, Marked
  <2>2. dir' \in [Paths -> Dir] /\ \A p \in Paths : Marked(dir'[p])
    BY <1>2, <1>5, <2>1, DirWritten DEF DirsOK
  <2>3. TypeOK'
    BY <1>1, <1>2, <1>3, <1>7, <2>2, TypesStay DEF TypeOK, PC
  <2>4. DirsOK'
    BY <1>2, <1>7, <2>2 DEF DirsOK
  <2>5. QED
    BY <1>1, <1>7, <2>3, <2>4, UserSteps
<1>8. QED
  BY <1>4, <1>6, <1>7

(* A step at whose end the invocation knows nothing any more.              *)
LEMMA EndInv ==
    ASSUME Inv, NEW o \in Ops, End(o), UNCHANGED <<wt, at, creds, registry, issued>>,
           branches' \subseteq Exps, dir' \in [Paths -> Dir], \A p \in Paths : Marked(dir'[p]),
           git' \subseteq [path : Paths, branch : Exps \cup {Null}],
           writer' \in Ops \cup {Null}, faults' \in 0..MaxFaults
    PROVE  Inv'
<1>1. TypeOK /\ DirsOK
  BY DEF Inv
<1>2. /\ pc' \in [Ops -> PC] /\ pc'[o] = "idle" /\ loc' \in [Ops -> Loc] /\ loc'[o] = NoLoc
      /\ \A q \in Ops \ {o} : pc'[q] = pc[q] /\ loc'[q] = loc[q]
  BY <1>1, Ends
<1>3. TypeOK'
  BY <1>1, <1>2, TypesStay DEF TypeOK
<1>4. DirsOK'
  BY <1>1, <1>2, Nothing DEF DirsOK
<1>5. LocOK(o)' /\ RowOK(o)' /\ loc'[o].cmd \notin Removing \cup {"repair"}
  BY <1>2, Nothing DEF LocOK, RowOK, Adding, Removing
<1>6. QED
  BY <1>2, <1>3, <1>4, <1>5, GoesOn

(* The state before a step, for a step that does not touch these.          *)
LEMMA Before ==
    ASSUME Inv
    PROVE  /\ branches \subseteq Exps /\ issued \in 0..MaxTokens
           /\ dir \in [Paths -> Dir] /\ \A p \in Paths : Marked(dir[p])
           /\ git \subseteq [path : Paths, branch : Exps \cup {Null}]
           /\ writer \in Ops \cup {Null} /\ faults \in 0..MaxFaults
           /\ pc \in [Ops -> PC] /\ loc \in [Ops -> Loc]
BY DEF Inv, TypeOK, DirsOK, PC

(* A command ends early.                                                   *)
LEMMA EndsEarlyInv == ASSUME Inv, NEW o \in Ops, EndsEarly(o) PROVE Inv'
<1>1. TypeOK
  BY DEF Inv
<1>2. /\ Fault /\ End(o) /\ writer' \in {Null, writer}
      /\ UNCHANGED <<wt, at, creds, registry, issued, branches, dir, git>>
  BY DEF EndsEarly, tables
<1>3. QED
  BY <1>1, <1>2, Faults, Before, EndInv

(* git forgets the worktrees that are not there.                           *)
LEMMA PruneInv == ASSUME Inv, NEW o \in Ops, Prune(o) PROVE Inv'
<1>1. /\ End(o) /\ git' \subseteq git
      /\ UNCHANGED <<wt, at, creds, registry, issued, branches, dir, writer, faults>>
  BY DEF Prune, tables
<1>2. QED
  BY <1>1, Before, EndInv

(* A failed removal puts back the directories it has, as they were.        *)
LEMMA DeleteFailsInv == ASSUME Inv, NEW o \in Ops, DeleteFails(o) PROVE Inv'
<1> DEFINE back == {s \in loc[o].staged : ~Present(s.path)}
<1>1. /\ pc[o] = "deleting" /\ Fault /\ End(o)
      /\ branches' = IF loc[o].cmd = "exp remove" THEN branches \cup {loc[o].exp} ELSE branches
      /\ dir' = [p \in Paths |-> IF \E s \in back : s.path = p
                                 THEN (CHOOSE s \in back : s.path = p).dir ELSE dir[p]]
      /\ UNCHANGED <<wt, at, creds, registry, issued, git, writer>>
  BY DEF DeleteFails, tables
<1>2. TypeOK /\ DirsOK /\ LocOK(o) /\ loc[o] \in Loc
  BY DEF Inv, TypeOK
<1>3. loc[o].exp \in Exps
  BY <1>1, <1>2 DEF LocOK
<1>4. \A s \in back : s.dir \in Dir /\ Marked(s.dir)
  BY <1>2 DEF Loc, Staged, DirsOK
<1> HIDE DEF back
<1>5. ASSUME NEW p \in Paths PROVE dir'[p] \in Dir /\ Marked(dir'[p])
  <2>1. CASE \E s \in back : s.path = p
    <3>1. PICK s \in back : s = CHOOSE t \in back : t.path = p
      BY <2>1
    <3>2. dir'[p] = s.dir
      BY <1>1, <2>1, <3>1
    <3>3. QED
      BY <1>4, <3>2
  <2>2. CASE ~\E s \in back : s.path = p
    BY <1>1, <2>2, Before
  <2>3. QED
    BY <2>1, <2>2
<1>6. dir' \in [Paths -> Dir]
  BY <1>1, <1>5
<1>7. branches' \subseteq Exps
  BY <1>1, <1>3, Before
<1>8. QED
  BY <1>1, <1>2, <1>5, <1>6, <1>7, Before, Faults, EndInv

(* A directory is moved to the trash.                                      *)
LEMMA StageInv == ASSUME Inv, NEW o \in Ops, NEW p \in Paths, Stage(o, p) PROVE Inv'
<1> DEFINE one == [path |-> p, dir |-> dir[p]]
           l == [loc[o] EXCEPT !.paths = @ \ {p},
                               !.staged = @ \cup ({one} \ {[path |-> p, dir |-> NoDir]})]
<1>1. /\ pc[o] = "staging" /\ dir' = [dir EXCEPT ![p] = NoDir] /\ loc' = [loc EXCEPT ![o] = l]
      /\ UNCHANGED <<wt, at, creds, registry, branches, issued, git, writer, pc, faults>>
  BY DEF Stage, tables
<1>2. TypeOK /\ DirsOK /\ LocOK(o) /\ RowOK(o) /\ loc[o] \in Loc
  BY DEF Inv, TypeOK
<1>3. one \in Staged /\ Marked(one.dir)
  BY Before DEF Staged
<1> HIDE DEF one
<1>4. /\ l \in Loc /\ l.cmd = loc[o].cmd /\ l.exp = loc[o].exp /\ l.mode = loc[o].mode
      /\ l.path = loc[o].path /\ l.row = loc[o].row /\ l.old = loc[o].old /\ l.new = loc[o].new
      /\ l.staged \subseteq loc[o].staged \cup {one}
  BY <1>2, <1>3 DEF Loc
<1>5. /\ loc' \in [Ops -> Loc] /\ loc'[o] = l /\ \A q \in Ops \ {o} : loc'[q] = loc[q]
  BY <1>1, <1>2, <1>4, Learns
<1> HIDE DEF l
<1>6. dir' \in [Paths -> Dir] /\ \A q \in Paths : Marked(dir'[q])
  BY <1>1, <1>2, Nothing, DirWritten DEF DirsOK
<1>7. TypeOK'
  BY <1>1, <1>2, <1>5, <1>6, Before, TypesStay
<1>8. DirsOK'
  <2>1. \A s \in loc'[o].staged : Marked(s.dir)
    BY <1>2, <1>3, <1>4, <1>5 DEF DirsOK
  <2>2. QED
    BY <1>2, <1>5, <1>6, <2>1 DEF DirsOK
<1>9. LocOK(o)'
  BY <1>1, <1>2, <1>4, <1>5 DEF LocOK, Whole, Adding, Removing
<1>10. RowOK(o)'
  BY <1>1, <1>2, <1>4, <1>5 DEF RowOK
<1>11. QED
  BY <1>1, <1>4, <1>5, <1>7, <1>8, <1>9, <1>10, GoesOn

(* The branch of an experiment that is removed is deleted.                 *)
LEMMA DeleteBranchInv == ASSUME Inv, NEW o \in Ops, DeleteBranch(o) PROVE Inv'
<1>1. /\ pc[o] = "staging" /\ branches' \subseteq branches /\ Goto(o, "deleting")
      /\ UNCHANGED <<wt, at, creds, registry, issued, dir, git, writer, loc, faults>>
  BY DEF DeleteBranch, tables
<1>2. TypeOK /\ LocOK(o) /\ RowOK(o)
  BY DEF Inv
<1>3. /\ pc' \in [Ops -> PC] /\ pc'[o] = "deleting" /\ \A q \in Ops \ {o} : pc'[q] = pc[q]
  BY <1>1, <1>2, Goes DEF PC
<1>4. TypeOK'
  BY <1>1, <1>2, <1>3, Before, TypesStay
<1>5. DirsOK'
  BY <1>1 DEF Inv, DirsOK
<1>6. LocOK(o)' /\ RowOK(o)'
  BY <1>1, <1>2, <1>3 DEF LocOK, RowOK, Whole, Adding, Removing
<1>7. QED
  BY <1>1, <1>3, <1>4, <1>5, <1>6, GoesOn

(* The user moves or deletes a directory.                                  *)
LEMMA UserInv ==
    ASSUME Inv, NEW p \in Paths,
           UserDeletes(p) \/ \E q \in Paths, told \in BOOLEAN : Move(p, q, told)
    PROVE  Inv'
<1>1. TypeOK
  BY DEF Inv
<1>2. UNCHANGED <<wt, at, creds, registry, branches, issued, writer, pc, loc>> /\ Fault
  BY DEF UserDeletes, Move, tables
<1>3. /\ dir' \in [Paths -> Dir] /\ \A q \in Paths : Marked(dir'[q])
      /\ git' \subseteq [path : Paths, branch : Exps \cup {Null}]
  <2>1. CASE UserDeletes(p)
    BY <1>1, <2>1, Nothing, Before, DirWritten DEF UserDeletes
  <2>2. ASSUME NEW q \in Paths, NEW told \in BOOLEAN, Move(p, q, told)
        PROVE  /\ dir' \in [Paths -> Dir] /\ \A s \in Paths : Marked(dir'[s])
               /\ git' \subseteq [path : Paths, branch : Exps \cup {Null}]
    <3> DEFINE d == IF told THEN [dir[p] EXCEPT !.gitpath = q] ELSE dir[p]
    <3>1. d \in Dir /\ Marked(d)
      BY Before DEF Dir, Marked
    <3> HIDE DEF d
    <3>2. dir' = [dir EXCEPT ![q] = d, ![p] = NoDir]
      BY <2>2 DEF Move, d
    <3>3. dir' \in [Paths -> Dir] /\ \A s \in Paths : Marked(dir'[s])
      BY <3>1, <3>2, Before, Nothing
    <3>4. git' \subseteq [path : Paths, branch : Exps \cup {Null}]
      <4>1. CASE told
        <5>1. git' = {IF w.path = dir[p].gitpath THEN [w EXCEPT !.path = q] ELSE w : w \in git}
          BY <2>2, <4>1 DEF Move
        <5>2. \A w \in git : w \in [path : Paths, branch : Exps \cup {Null}]
          BY Before
        <5>3. QED
          BY <5>1, <5>2
      <4>2. CASE ~told
        BY <2>2, <4>2, Before DEF Move
      <4>3. QED
        BY <4>1, <4>2
    <3>5. QED
      BY <3>3, <3>4
  <2>3. QED
    BY <2>1, <2>2
<1>4. TypeOK'
  BY <1>1, <1>2, <1>3, Before, Faults, TypesStay
<1>5. DirsOK'
  BY <1>2, <1>3 DEF Inv, DirsOK
<1>6. QED
  BY <1>2, <1>4, <1>5, UserSteps

(* A removal starts: no repair of its experiment is under way.             *)
LEMMA StartRemoveInv ==
    ASSUME Inv, NEW o \in Ops, NEW l \in Loc, StartRemove(o, l),
           l.cmd \in Removing, l.exp \in Exps, l.staged = {},
           l.cmd # "checkout remove" => l.row = 0,
           l.cmd = "checkout remove" =>
               \E r \in registry : r.id = l.row /\ r.exp = l.exp /\ r.mode = "inspection"
    PROVE  Inv'
<1>1. /\ pc[o] = "idle" /\ loc' = [loc EXCEPT ![o] = l] /\ Goto(o, "staging")
      /\ UNCHANGED <<wt, at, creds, registry, branches, issued, dir, git, writer, faults>>
  BY DEF StartRemove, tables
<1>2. ~RepairMeetsRemoval => \A p \in Ops : loc[p].cmd = "repair" => l.exp \notin Repairs(p)
  BY DEF StartRemove
<1>3. TypeOK
  BY DEF Inv
<1>4. /\ loc' \in [Ops -> Loc] /\ loc'[o] = l /\ \A q \in Ops \ {o} : loc'[q] = loc[q]
  BY <1>1, <1>3, Learns
<1>5. /\ pc' \in [Ops -> PC] /\ pc'[o] = "staging" /\ \A q \in Ops \ {o} : pc'[q] = pc[q]
  BY <1>1, <1>3, Goes DEF PC
<1>6. TypeOK'
  BY <1>1, <1>3, <1>4, <1>5, Before, TypesStay
<1>7. DirsOK'
  BY <1>1, <1>4 DEF Inv, DirsOK
<1>8. \A q \in Ops : LocOK(q)' /\ RowOK(q)'
  <2>1. LocOK(o)'
    BY <1>4, <1>5 DEF LocOK, Adding, Removing
  <2>2. RowOK(o)'
    <3>1. l.row # 0 => \E r \in registry : r.id = l.row
      OBVIOUS
    <3>2. l.cmd = "checkout remove" =>
            \A r \in registry : r.id = l.row => r.exp = l.exp /\ r.mode = "inspection"
      BY <1>3 DEF TypeOK
    <3>3. QED
      BY <1>1, <1>4, <3>1, <3>2 DEF RowOK
  <2>3. ASSUME NEW q \in Ops \ {o} PROVE LocOK(q)' /\ RowOK(q)'
    <3>1. LocOK(q) /\ RowOK(q)
      BY DEF Inv
    <3>2. LocOK(q)'
      BY <1>4, <1>5, <3>1 DEF LocOK, Whole
    <3>3. RowOK(q)'
      BY <1>1, <1>4, <3>1 DEF RowOK
    <3>4. QED
      BY <3>2, <3>3
  <2>4. QED
    BY <2>1, <2>2, <2>3
<1>9. RepairsApart'
  <2>1. \A q \in Ops : loc'[q].cmd = "repair" => q # o /\ Repairs(q)' = Repairs(q)
    BY <1>1, <1>4 DEF Removing, Repairs
  <2>2. Active' = Active
    BY <1>1 DEF Active
  <2>3. QED
    BY <1>2, <1>4, <2>1, <2>2 DEF Inv, RepairsApart
<1>10. QED
  BY <1>1, <1>6, <1>7, <1>8, <1>9, TablesStay DEF Inv

(* The three removals.                                                     *)
LEMMA RemovalsInv ==
    ASSUME Inv, NEW o \in Ops,
           CheckoutRemove(o) \/ \E e \in Exps : WorktreeRemove(o, e) \/ ExpRemove(o, e)
    PROVE  Inv'
<1>1. TypeOK
  BY DEF Inv
<1>2. ASSUME NEW e \in Exps, WorktreeRemove(o, e) PROVE Inv'
  <2> DEFINE rows == {r \in Active : r.exp = e /\ r.mode = "worktree"}
             tokens == ActiveTokens(e, "worktree")
             l(t, p) == [NoLoc EXCEPT !.cmd = "worktree remove", !.exp = e,
                                      !.mode = "worktree", !.old = t, !.paths = {p} \ {Null}]
  <2>1. PICK t \in (IF tokens = {} THEN {NoToken} ELSE tokens),
             p \in (IF rows = {} THEN {at[e]} ELSE {r.path : r \in rows}) : StartRemove(o, l(t, p))
    BY <1>2 DEF WorktreeRemove
  <2>2. t \in Tokens \cup {NoToken}
    BY <1>1 DEF ActiveTokens, TypeOK
  <2>3. p \in Paths \cup {Null}
    BY <1>1 DEF TypeOK, Active, Row
  <2>4. {p} \ {Null} \subseteq Paths
    BY <2>3
  <2>5. /\ l(t, p) \in Loc /\ l(t, p).cmd = "worktree remove" /\ l(t, p).exp = e
        /\ l(t, p).row = 0 /\ l(t, p).staged = {}
    BY <2>2, <2>4, Nothing DEF Loc, NoLoc, Removing, Modes
  <2> HIDE DEF l
  <2>6. QED
    BY <2>1, <2>5, StartRemoveInv DEF Removing
<1>3. ASSUME NEW e \in Exps, ExpRemove(o, e) PROVE Inv'
  <2> DEFINE paths == {r.path : r \in {s \in Active : s.exp = e}}
             l == [NoLoc EXCEPT !.cmd = "exp remove", !.exp = e, !.paths = paths]
  <2>1. StartRemove(o, l)
    BY <1>3 DEF ExpRemove
  <2>2. paths \subseteq Paths
    BY <1>1 DEF TypeOK, Active, Row
  <2> HIDE DEF paths
  <2>3. l \in Loc /\ l.cmd = "exp remove" /\ l.exp = e /\ l.row = 0 /\ l.staged = {}
    BY <2>2, Nothing DEF Loc, NoLoc, Removing
  <2> HIDE DEF l
  <2>4. QED
    BY <2>1, <2>3, StartRemoveInv DEF Removing
<1>4. ASSUME CheckoutRemove(o) PROVE Inv'
  <2> DEFINE l(r) == [NoLoc EXCEPT !.cmd = "checkout remove", !.exp = r.exp,
                                   !.mode = r.mode, !.old = r.token, !.row = r.id,
                                   !.paths = {r.path}]
  <2>1. PICK r \in Active : r.mode = "inspection" /\ StartRemove(o, l(r))
    BY <1>4 DEF CheckoutRemove
  <2>2. r \in registry /\ r \in Row
    BY <1>1 DEF TypeOK, Active
  <2>3. /\ r.exp \in Exps /\ r.mode \in Modes /\ r.token \in Tokens /\ r.id \in 0..MaxRows
        /\ {r.path} \subseteq Paths
    BY <2>2 DEF Row
  <2>4. /\ l(r) \in Loc /\ l(r).cmd = "checkout remove" /\ l(r).exp = r.exp
        /\ l(r).row = r.id /\ l(r).staged = {}
    BY <2>3, Nothing DEF Loc, NoLoc, Removing
  <2> HIDE DEF l
  <2>5. QED
    BY <2>1, <2>2, <2>3, <2>4, StartRemoveInv DEF Removing
<1>5. QED
  BY <1>2, <1>3, <1>4

(* A repair starts: no removal of its experiments is under way, and the    *)
(* row that it reads is active.                                            *)
LEMMA StartRepairInv ==
    ASSUME Inv, NEW o \in Ops, NEW p \in Paths, NEW key \in BOOLEAN, StartRepair(o, p, key)
    PROVE  Inv'
<1> DEFINE d == dir[p]
           m == [NoLoc EXCEPT !.cmd = "repair", !.exp = d.exp, !.mode = d.mode, !.path = p,
                              !.old = d.marker]
           l(row) == [m EXCEPT !.row = row]
<1>1. /\ pc[o] = "idle" /\ d.marker # NoToken /\ Goto(o, "repairing")
      /\ Meets(d.exp, Removing) => RepairMeetsRemoval
      /\ UNCHANGED <<wt, at, creds, registry, branches, issued, dir, git, writer, faults>>
  BY DEF StartRepair, tables
<1>2. TypeOK /\ DirsOK /\ loc[o] = NoLoc
  <2>1. TypeOK /\ DirsOK /\ LocOK(o)
    BY DEF Inv
  <2>2. QED
    BY <1>1, <2>1 DEF LocOK
<1>3. d \in Dir /\ Marked(d)
  BY <1>2 DEF TypeOK, DirsOK
<1>4. d.exp \in Exps /\ d.mode \in Modes /\ d.marker \in Tokens
  BY <1>1, <1>3 DEF Marked, Dir
<1>5. m \in Loc /\ m.row = 0
  BY <1>4, Nothing DEF Loc, NoLoc
<1>6. PICK row \in 0..MaxRows :
        /\ loc' = [loc EXCEPT ![o] = l(row)]
        /\ \/ \E r \in Active : r.id = row /\ (Meets(r.exp, Removing) => RepairMeetsRemoval)
           \/ row = 0
  <2>1. CASE \E r \in RowsForMarker(d) :
               /\ Meets(r.exp, Removing) => RepairMeetsRemoval
               /\ loc' = [loc EXCEPT ![o] = l(r.id)]
    <3>1. PICK r \in RowsForMarker(d) : /\ Meets(r.exp, Removing) => RepairMeetsRemoval
                                        /\ loc' = [loc EXCEPT ![o] = l(r.id)]
      BY <2>1
    <3>2. r \in Active
      BY DEF RowsForMarker
    <3>3. r.id \in 0..MaxRows
      BY <1>2, <3>2, ConstantsAssumption DEF Active, TypeOK, Row
    <3>4. QED
      BY <3>1, <3>2, <3>3
  <2>2. CASE loc' = [loc EXCEPT ![o] = m]
    <3>1. l(0) = m
      BY <1>5 DEF Loc
    <3>2. 0 \in 0..MaxRows
      BY ConstantsAssumption
    <3>3. QED
      BY <2>2, <3>1, <3>2
  <2>3. QED
    BY <2>1, <2>2 DEF StartRepair
<1> HIDE DEF d
<1>7. /\ l(row) \in Loc /\ l(row).cmd = "repair" /\ l(row).exp = d.exp /\ l(row).mode = d.mode
      /\ l(row).path = p /\ l(row).old = d.marker /\ l(row).row = row /\ l(row).staged = {}
  BY <1>4, <1>5, Nothing DEF Loc, NoLoc
<1>8. /\ loc' \in [Ops -> Loc] /\ loc'[o] = l(row) /\ \A q \in Ops \ {o} : loc'[q] = loc[q]
  BY <1>2, <1>6, <1>7, Learns
<1> HIDE DEF l
<1>9. /\ pc' \in [Ops -> PC] /\ pc'[o] = "repairing" /\ \A q \in Ops \ {o} : pc'[q] = pc[q]
  BY <1>1, <1>2, Goes DEF PC
<1>10. TypeOK'
  BY <1>1, <1>2, <1>8, <1>9, Before, TypesStay
<1>11. DirsOK'
  BY <1>1, <1>2, <1>7, <1>8 DEF DirsOK
<1>12. \A q \in Ops : LocOK(q)' /\ RowOK(q)'
  <2>1. LocOK(o)'
    BY <1>1, <1>4, <1>7, <1>8, <1>9 DEF LocOK, Whole, Adding, Removing
  <2>2. RowOK(o)'
    BY <1>1, <1>6, <1>7, <1>8 DEF RowOK, Active
  <2>3. ASSUME NEW q \in Ops \ {o} PROVE LocOK(q)' /\ RowOK(q)'
    <3>1. LocOK(q) /\ RowOK(q)
      BY DEF Inv
    <3>2. LocOK(q)'
      BY <1>8, <1>9, <3>1 DEF LocOK, Whole
    <3>3. RowOK(q)'
      BY <1>1, <1>8, <3>1 DEF RowOK
    <3>4. QED
      BY <3>2, <3>3
  <2>4. QED
    BY <2>1, <2>2, <2>3
<1>13. RepairsApart'
  <2>1. Active' = Active /\ registry' = registry
    BY <1>1 DEF Active
  <2>2. \A q \in Ops \ {o} : Repairs(q)' = Repairs(q)
    BY <1>8, <2>1 DEF Repairs
  <2>3. \A e \in Repairs(o)' : Meets(e, Removing) => RepairMeetsRemoval
    <3>1. \A r \in registry : r.id # 0 /\ \A s \in registry : r.id = s.id => r = s
      BY <1>2 DEF TypeOK, Row
    <3>2. \A r \in registry : (r.id = row => (Meets(r.exp, Removing) => RepairMeetsRemoval))
      BY <1>6, <3>1 DEF Active
    <3>3. QED
      BY <1>1, <1>7, <1>8, <2>1, <3>2 DEF Repairs
  <2>4. ASSUME ~RepairMeetsRemoval, NEW q \in Ops, NEW s \in Ops, loc'[q].cmd = "repair",
               loc'[s].cmd \in Removing
        PROVE  loc'[s].exp \notin Repairs(q)'
    <3>1. s # o /\ loc'[s] = loc[s]
      BY <1>7, <1>8, <2>4 DEF Removing
    <3>2. QED
      BY <1>8, <2>2, <2>3, <2>4, <3>1 DEF Meets, Inv, RepairsApart
  <2>5. ASSUME ~RepairMeetsRemoval, NEW q \in Ops, loc'[q].cmd = "repair", loc'[q].row # 0
        PROVE  \E r \in Active' : r.id = loc'[q].row
    BY <1>6, <1>7, <1>8, <2>1, <2>5 DEF Inv, RepairsApart
  <2>6. QED
    BY <2>4, <2>5 DEF RepairsApart
<1>14. QED
  BY <1>1, <1>10, <1>11, <1>12, <1>13, TablesStay DEF Inv

(* Rows of tokens keep their type when some are revoked or one comes in.   *)
LEMMA CredsType ==
    ASSUME TypeOK
    PROVE  /\ \A tokens : /\ DOMAIN WithRevoked(tokens) = DOMAIN creds
                          /\ \A t \in DOMAIN creds : WithRevoked(tokens)[t] \in Credential
           /\ \A l \in Loc : Whole(l) /\ l.new # NoToken =>
                 /\ DOMAIN Renewed(l) \subseteq Tokens
                 /\ \A t \in DOMAIN Renewed(l) : Renewed(l)[t] \in Credential
<1>1. ASSUME NEW tokens
      PROVE  /\ DOMAIN WithRevoked(tokens) = DOMAIN creds
             /\ \A t \in DOMAIN creds : WithRevoked(tokens)[t] \in Credential
  BY DEF TypeOK, WithRevoked, Credential
<1>2. ASSUME NEW l \in Loc, Whole(l), l.new # NoToken
      PROVE  /\ DOMAIN Renewed(l) \subseteq Tokens
             /\ \A t \in DOMAIN Renewed(l) : Renewed(l)[t] \in Credential
  <2>1. DOMAIN Renewed(l) = DOMAIN creds \cup {l.new} /\ l.new \in Tokens
    BY <1>2 DEF Renewed, Loc
  <2>2. ASSUME NEW t \in DOMAIN Renewed(l) PROVE Renewed(l)[t] \in Credential
    <3>1. CASE t = l.new
      BY <1>2, <2>1, <3>1 DEF Renewed, Credential, Whole
    <3>2. CASE t # l.new
      <4>1. Renewed(l)[t] = WithRevoked({l.old})[t] /\ t \in DOMAIN creds
        BY <2>1, <3>2 DEF Renewed
      <4>2. QED
        BY <1>1, <4>1
    <3>3. QED
      BY <3>1, <3>2
  <2>3. QED
    BY <2>1, <2>2 DEF TypeOK
<1>3. QED
  BY <1>1, <1>2

(* Tokens are revoked.                                                     *)
LEMMA TokenRevokeInv == ASSUME Inv, NEW e \in Exps, TokenRevoke(e) PROVE Inv'
<1>1. UNCHANGED <<wt, at, registry, branches, issued, dir, git, writer, pc, loc, faults>>
  BY DEF TokenRevoke
<1>2. \E some : creds' = WithRevoked(some)
  BY DEF TokenRevoke
<1>3. TypeOK
  BY DEF Inv
<1>4. DOMAIN creds' \subseteq Tokens /\ \A t \in DOMAIN creds' : creds'[t] \in Credential
  BY <1>2, <1>3, CredsType DEF TypeOK
<1>5. TypeOK'
  BY <1>1, <1>3, <1>4 DEF TypeOK
<1>6. DirsOK'
  BY <1>1 DEF Inv, DirsOK
<1>7. QED
  BY <1>1, <1>5, <1>6, UserSteps

(* A transaction that touches rows: the registered ones keep their id,     *)
(* experiment and mode, those of repairs stay active.                      *)
LEMMA RowsChange ==
    ASSUME Inv, NEW o \in Ops, RowStep, RowsOK', TypeOK', DirsOK',
           NoneRegistered', ActiveWorktreeRegistered',
           \A q \in Ops \ {o} : pc'[q] = pc[q] /\ loc'[q] = loc[q],
           loc'[o] \in {NoLoc, loc[o]}, LocOK(o)',
           ~RepairMeetsRemoval => \A q \in Ops :
               loc'[q].cmd = "repair" /\ loc[q].row # 0 => \E s \in Active' : s.id = loc[q].row
    PROVE  Inv'
<1>1. \A q \in Ops : RowOK(q)
  BY DEF Inv
<1>2. registry' \subseteq Row
  BY DEF TypeOK
<1>3. \A q \in Ops : LocOK(q)' /\ RowOK(q)'
  <2>1. ASSUME NEW q \in Ops, loc'[q] = loc[q] PROVE RowOK(q)'
    BY <1>1, <1>2, <2>1, RowStays
  <2>2. ASSUME NEW q \in Ops, loc'[q] = NoLoc PROVE RowOK(q)'
    BY <2>2, Nothing DEF RowOK
  <2>3. \A q \in Ops \ {o} : LocOK(q)'
    BY DEF Inv, LocOK, Whole
  <2>4. QED
    BY <2>1, <2>2, <2>3
<1>4. \A q \in Ops : loc'[q].cmd \in Removing \cup {"repair"} =>
        loc'[q].cmd = loc[q].cmd /\ loc'[q].exp = loc[q].exp /\ loc'[q].row = loc[q].row
  BY Nothing DEF Removing
<1>5. RepairsApart'
  BY <1>1, <1>2, <1>4, ApartStays DEF Inv
<1>6. QED
  BY <1>3, <1>5 DEF Inv

(* The row that is added has the next id.                                  *)
LEMMA AddedRowType ==
    ASSUME TypeOK, RowsOK, Cardinality(registry) < MaxRows,
           NEW p \in Paths, NEW e \in Exps, NEW mode \in Modes, NEW t \in Tokens,
           NEW by \in {"add", "repair"}, registry' = AddedRow(p, e, mode, t, by)
    PROVE  /\ registry' \subseteq Row /\ \A r, s \in registry' : r.id = s.id => r = s
           /\ RowStep /\ RowsOK' /\ registry \subseteq registry' /\ Active \subseteq Active'
           /\ \E new \in Active' :
                 /\ registry' = registry \cup {new} /\ Active' = Active \cup {new}
                 /\ new.exp = e /\ new.mode = mode /\ new.by = by
<1>1. PICK n \in 0..MaxRows : {r.id : r \in registry} = 1..n /\ Cardinality(registry) = n
  BY RowCount
<1>2. n + 1 \in 1..MaxRows /\ n + 1 \in 0..MaxRows /\ 1..(n + 1) = 1..n \cup {n + 1} /\ n + 1 \notin 1..n
  BY <1>1, ConstantsAssumption
<1> DEFINE new == [id |-> n + 1, path |-> p, exp |-> e, mode |-> mode, token |-> t,
                   active |-> TRUE, by |-> by]
<1>3. registry' = registry \cup {new}
  BY <1>1 DEF AddedRow
<1>4. /\ new \in Row /\ new.id = n + 1 /\ new.exp = e /\ new.mode = mode /\ new.by = by
      /\ new.active
  BY <1>2 DEF Row
<1> HIDE DEF new
<1>5. \A r \in registry : r.id # new.id /\ r \in Row
  BY <1>1, <1>2, <1>4 DEF TypeOK
<1>6. registry' \subseteq Row /\ \A r, s \in registry' : r.id = s.id => r = s
  BY <1>3, <1>4, <1>5 DEF TypeOK
<1>7. RowStep
  BY <1>3, <1>5 DEF RowStep, Same
<1>8. RowsOK'
  <2>1. {r.id : r \in registry'} = {r.id : r \in registry} \cup {new.id}
    BY <1>3
  <2>2. {r.id : r \in registry'} = 1..(n + 1)
    BY <1>1, <1>2, <1>4, <2>1
  <2>3. QED
    BY <1>2, <2>2 DEF RowsOK
<1>9. Active' = Active \cup {new}
  BY <1>3, <1>4 DEF Active
<1>10. QED
  BY <1>3, <1>4, <1>6, <1>7, <1>8, <1>9

(* Rows that are added to keep those of repairs active.                    *)
LEMMA RepairsKeepRows ==
    ASSUME Inv, NEW o \in Ops, \A q \in Ops \ {o} : loc'[q] = loc[q], loc'[o] = NoLoc,
           \A r \in Active : \E s \in Active' : s.id = r.id
    PROVE  ~RepairMeetsRemoval => \A q \in Ops :
               loc'[q].cmd = "repair" /\ loc[q].row # 0 => \E s \in Active' : s.id = loc[q].row
<1>1. ASSUME ~RepairMeetsRemoval, NEW q \in Ops, loc'[q].cmd = "repair", loc[q].row # 0
      PROVE  \E s \in Active' : s.id = loc[q].row
  <2>1. q # o
    BY <1>1, Nothing
  <2>2. \E r \in Active : r.id = loc[q].row
    BY <1>1, <2>1 DEF Inv, RepairsApart
  <2>3. QED
    BY <2>2
<1>2. QED
  BY <1>1

(* The rows of a directory that was added: its experiment's worktree is    *)
(* active again, unless the experiment is gone.                            *)
LEMMA CommitAddInv == ASSUME Inv, NEW o \in Ops, CommitAdd(o) PROVE Inv'
<1> DEFINE l == loc[o]
<1>1. /\ pc[o] = "committing" /\ l.cmd \in Adding /\ Cardinality(registry) < MaxRows
      /\ creds' = Renewed(l) /\ registry' = AddedRow(l.path, l.exp, l.mode, l.new, "add")
      /\ writer' = Null /\ End(o) /\ UNCHANGED <<branches, issued, dir, git, faults>>
  BY DEF CommitAdd
<1>2. IF l.cmd = "create" \/ (l.cmd = "restore" /\ wt[l.exp] # "gone")
      THEN wt' = [wt EXCEPT ![l.exp] = "active"] /\ at' = [at EXCEPT ![l.exp] = l.path]
      ELSE UNCHANGED <<wt, at>>
  BY DEF CommitAdd
<1>3. TypeOK /\ RowsOK /\ DirsOK /\ LocOK(o) /\ l \in Loc
  BY DEF Inv, TypeOK
<1>4. /\ Whole(l) /\ l.new # NoToken /\ l.new \in Tokens
      /\ l.exp \in Exps /\ l.mode \in Modes /\ l.path \in Paths
      /\ l.mode = "inspection" <=> l.cmd = "checkout"
  BY <1>1, <1>3 DEF LocOK, Whole, Loc, Adding
<1>5. /\ pc' \in [Ops -> PC] /\ pc'[o] = "idle" /\ loc' \in [Ops -> Loc] /\ loc'[o] = NoLoc
      /\ \A q \in Ops \ {o} : pc'[q] = pc[q] /\ loc'[q] = loc[q]
  BY <1>1, <1>3, Ends
<1>6. /\ registry' \subseteq Row /\ \A r, s \in registry' : r.id = s.id => r = s
      /\ RowStep /\ RowsOK' /\ Active \subseteq Active'
      /\ \E new \in Active' :
            /\ registry' = registry \cup {new} /\ Active' = Active \cup {new}
            /\ new.exp = l.exp /\ new.mode = l.mode /\ new.by = "add"
  BY <1>1, <1>3, <1>4, AddedRowType
<1>7. PICK new \in Active' : /\ Active' = Active \cup {new} /\ new.exp = l.exp
                             /\ new.mode = l.mode /\ new.by = "add"
  BY <1>6
<1>8. DOMAIN creds' \subseteq Tokens /\ \A t \in DOMAIN creds' : creds'[t] \in Credential
  BY <1>1, <1>3, <1>4, CredsType
<1> HIDE DEF l
<1>9. /\ wt' \in [Exps -> {"none", "active", "removed", "gone"}]
      /\ at' \in [Exps -> Paths \cup {Null}]
  BY <1>2, <1>3, <1>4 DEF TypeOK
<1>10. /\ \A e \in Exps : wt'[e] = "removed" => wt[e] = "removed"
       /\ \A e \in Exps : wt'[e] = "active" =>
            wt[e] = "active" \/ (e = l.exp /\ l.cmd \in {"create", "restore"})
       /\ l.mode = "worktree" => wt'[l.exp] # "removed"
  <2>1. CASE l.cmd = "create" \/ (l.cmd = "restore" /\ wt[l.exp] # "gone")
    BY <1>2, <1>3, <1>4, <2>1 DEF TypeOK
  <2>2. CASE ~(l.cmd = "create" \/ (l.cmd = "restore" /\ wt[l.exp] # "gone"))
    <3>1. UNCHANGED wt
      BY <1>2, <2>2
    <3>2. l.mode = "worktree" => l.cmd # "checkout"
      BY <1>4
    <3>3. l.mode = "worktree" => wt[l.exp] = "gone"
      BY <1>1, <2>2, <3>2 DEF Adding
    <3>4. QED
      BY <3>1, <3>3
  <2>3. QED
    BY <2>1, <2>2
<1>11. NoneRegistered'
  BY <1>3, <1>7, <1>10 DEF Inv, NoneRegistered, Active, TypeOK, Row
<1>12. ActiveWorktreeRegistered'
  <2>1. ASSUME NEW e \in Exps, wt'[e] = "active"
        PROVE  \E r \in Active' : r.exp = e /\ r.mode = "worktree"
    <3>1. CASE wt[e] = "active"
      BY <1>6, <3>1 DEF Inv, ActiveWorktreeRegistered
    <3>2. CASE e = l.exp /\ l.cmd \in {"create", "restore"}
      BY <1>4, <1>7, <3>2 DEF Modes
    <3>3. QED
      BY <1>10, <2>1, <3>1, <3>2
  <2>2. QED
    BY <2>1 DEF ActiveWorktreeRegistered
<1>13. TypeOK'
  BY <1>1, <1>3, <1>5, <1>6, <1>8, <1>9 DEF TypeOK, PC
<1>14. DirsOK'
  BY <1>1, <1>3, <1>5, Nothing DEF DirsOK
<1>15. LocOK(o)'
  BY <1>5, Nothing DEF LocOK, Adding, Removing
<1>16. ~RepairMeetsRemoval => \A q \in Ops :
         loc'[q].cmd = "repair" /\ loc[q].row # 0 => \E s \in Active' : s.id = loc[q].row
  BY <1>5, <1>6, RepairsKeepRows
<1>17. QED
  BY <1>5, <1>6, <1>11, <1>12, <1>13, <1>14, <1>15, <1>16, RowsChange

(* Rows that are rewritten one by one, keeping what Same names.            *)
LEMMA Rewriting ==
    ASSUME TypeOK, RowsOK, NEW f, registry' = {f[r] : r \in registry},
           \A r \in registry : f[r] \in Row /\ Same(r, f[r])
    PROVE  /\ registry' \subseteq Row /\ \A r, s \in registry' : r.id = s.id => r = s
           /\ RowStep /\ RowsOK'
<1>1. \A r, s \in registry : f[r].id = f[s].id => r = s
  BY DEF TypeOK, Same
<1>2. registry' \subseteq Row /\ \A r, s \in registry' : r.id = s.id => r = s
  BY <1>1
<1>3. RowStep
  BY DEF RowStep
<1>4. {r.id : r \in registry'} = {r.id : r \in registry}
  BY DEF Same
<1>5. QED
  BY <1>2, <1>3, <1>4 DEF RowsOK

(* The row of a token that was regenerated.                                *)
LEMMA CommitRegenerateInv == ASSUME Inv, NEW o \in Ops, CommitRegenerate(o) PROVE Inv'
<1> DEFINE l == loc[o]
           f == [r \in registry |-> IF r.id = l.row THEN [r EXCEPT !.token = l.new] ELSE r]
<1>1. /\ pc[o] = "committing" /\ l.cmd = "regenerate" /\ creds' = Renewed(l)
      /\ registry' = {IF r.id = l.row THEN [r EXCEPT !.token = l.new] ELSE r : r \in registry}
      /\ writer' = Null /\ End(o) /\ UNCHANGED <<wt, at, branches, issued, dir, git, faults>>
  BY DEF CommitRegenerate
<1>2. TypeOK /\ RowsOK /\ DirsOK /\ LocOK(o) /\ l \in Loc
  BY DEF Inv, TypeOK
<1>3. Whole(l) /\ l.new # NoToken /\ l.new \in Tokens
  BY <1>1, <1>2 DEF LocOK, Loc
<1>4. /\ pc' \in [Ops -> PC] /\ pc'[o] = "idle" /\ loc' \in [Ops -> Loc] /\ loc'[o] = NoLoc
      /\ \A q \in Ops \ {o} : pc'[q] = pc[q] /\ loc'[q] = loc[q]
  BY <1>1, <1>2, Ends
<1>5. DOMAIN creds' \subseteq Tokens /\ \A t \in DOMAIN creds' : creds'[t] \in Credential
  BY <1>1, <1>2, <1>3, CredsType
<1> HIDE DEF l
<1>6. registry' = {f[r] : r \in registry}
  BY <1>1
<1>7. \A r \in registry : f[r] \in Row /\ Same(r, f[r]) /\ f[r].active = r.active
  <2>1. ASSUME NEW r \in registry PROVE f[r] \in Row /\ Same(r, f[r]) /\ f[r].active = r.active
    <3>1. r \in Row
      BY <1>2 DEF TypeOK
    <3>2. CASE r.id = l.row
      <4>1. f[r] = [r EXCEPT !.token = l.new]
        BY <3>2
      <4>2. QED
        BY <1>3, <3>1, <4>1 DEF Row, Same
    <3>3. CASE r.id # l.row
      BY <3>1, <3>3 DEF Same
    <3>4. QED
      BY <3>2, <3>3
  <2>2. QED
    BY <2>1
<1> HIDE DEF f
<1>8. /\ registry' \subseteq Row /\ \A r, s \in registry' : r.id = s.id => r = s
      /\ RowStep /\ RowsOK'
  BY <1>2, <1>6, <1>7, Rewriting
<1>9. /\ \A r \in Active : f[r] \in Active'
      /\ \A s \in Active' : \E r \in Active : Same(r, s)
  BY <1>6, <1>7 DEF Active
<1>10. TypeOK'
  BY <1>1, <1>2, <1>4, <1>5, <1>8 DEF TypeOK, PC
<1>11. DirsOK'
  BY <1>1, <1>2, <1>4, Nothing DEF DirsOK
<1>12. LocOK(o)'
  BY <1>4, Nothing DEF LocOK, Adding, Removing
<1>13. NoneRegistered'
  BY <1>1, <1>9 DEF Inv, NoneRegistered, Same
<1>14. ActiveWorktreeRegistered'
  BY <1>1, <1>7, <1>9 DEF Inv, ActiveWorktreeRegistered, Same, Active
<1>15. \A r \in Active : \E s \in Active' : s.id = r.id
  BY <1>7, <1>9 DEF Same, Active
<1>16. ~RepairMeetsRemoval => \A q \in Ops :
         loc'[q].cmd = "repair" /\ loc[q].row # 0 => \E s \in Active' : s.id = loc[q].row
  BY <1>4, <1>15, RepairsKeepRows
<1>17. QED
  BY <1>4, <1>8, <1>10, <1>11, <1>12, <1>13, <1>14, <1>16, RowsChange

(* What a removal takes off: rows of its experiment, a checkout's only of  *)
(* the other mode, a worktree's all of its mode.                           *)
LEMMA Removed ==
    ASSUME TypeOK, NEW o \in Ops, RowOK(o), loc[o].cmd \in Removing
    PROVE  /\ RemovedBy(loc[o]) \subseteq Active
           /\ \A r \in RemovedBy(loc[o]) : r.exp = loc[o].exp
           /\ loc[o].cmd = "checkout remove" =>
                \A r \in RemovedBy(loc[o]) : r.mode = "inspection"
           /\ loc[o].cmd # "checkout remove" =>
                \A r \in Active : r.exp = loc[o].exp /\ r.mode = "worktree" => r \in RemovedBy(loc[o])
<1>1. Active \subseteq registry
  BY DEF Active
<1>2. CASE loc[o].cmd = "worktree remove"
  BY <1>2 DEF RemovedBy
<1>3. CASE loc[o].cmd = "checkout remove"
  BY <1>1, <1>3 DEF RemovedBy, RowOK
<1>4. CASE loc[o].cmd = "exp remove"
  BY <1>4 DEF RemovedBy
<1>5. QED
  BY <1>2, <1>3, <1>4 DEF Removing

(* The transaction of a removal: what it calls removed has no row left,    *)
(* and what it takes off belongs to no repair.                             *)
LEMMA DeleteRowsInv == ASSUME Inv, NEW o \in Ops, DeleteRows(o) PROVE Inv'
<1> DEFINE l == loc[o]
           gone == RemovedBy(l)
           f == [r \in registry |-> IF r \in gone THEN [r EXCEPT !.active = FALSE] ELSE r]
<1>1. /\ pc[o] = "deleting" /\ creds' = WithRevoked(RevokedBy(l)) /\ Goto(o, "pruning")
      /\ registry' = {IF r \in gone THEN [r EXCEPT !.active = FALSE] ELSE r : r \in registry}
      /\ UNCHANGED <<branches, issued, dir, git, writer, loc, faults>>
  BY DEF DeleteRows
<1>2. IF l.cmd = "checkout remove" \/ ~Exists(l.exp)
      THEN UNCHANGED <<wt, at>>
      ELSE /\ wt' = [wt EXCEPT ![l.exp] = IF l.cmd = "exp remove" THEN "gone" ELSE "removed"]
           /\ at' = [at EXCEPT ![l.exp] = Null]
  BY DEF DeleteRows
<1>3. TypeOK /\ RowsOK /\ DirsOK /\ LocOK(o) /\ RowOK(o)
  BY DEF Inv
<1>4. l.cmd \in Removing /\ l.exp \in Exps
  BY <1>1, <1>3 DEF LocOK
<1>5. /\ gone \subseteq Active /\ \A r \in gone : r.exp = l.exp
      /\ l.cmd = "checkout remove" => \A r \in gone : r.mode = "inspection"
      /\ l.cmd # "checkout remove" =>
           \A r \in Active : r.exp = l.exp /\ r.mode = "worktree" => r \in gone
  BY <1>3, <1>4, Removed
<1>6. /\ pc' \in [Ops -> PC] /\ pc'[o] = "pruning" /\ \A q \in Ops \ {o} : pc'[q] = pc[q]
  BY <1>1, <1>3, Goes DEF PC
<1>7. DOMAIN creds' \subseteq Tokens /\ \A t \in DOMAIN creds' : creds'[t] \in Credential
  BY <1>1, <1>3, CredsType DEF TypeOK
<1> HIDE DEF l, gone
<1>8. registry' = {f[r] : r \in registry}
  BY <1>1
<1>9. \A r \in registry : /\ f[r] \in Row /\ Same(r, f[r])
                          /\ f[r].active <=> r.active /\ r \notin gone
  <2>1. ASSUME NEW r \in registry
        PROVE  f[r] \in Row /\ Same(r, f[r]) /\ (f[r].active <=> r.active /\ r \notin gone)
    <3>1. r \in Row
      BY <1>3 DEF TypeOK
    <3>2. CASE r \in gone
      <4>1. f[r] = [r EXCEPT !.active = FALSE]
        BY <3>2
      <4>2. f[r] \in Row /\ Same(r, f[r])
        BY <3>1, <4>1 DEF Row, Same
      <4>3. ~f[r].active
        BY <3>1, <4>1 DEF Row
      <4>4. QED
        BY <3>2, <4>2, <4>3
    <3>3. CASE r \notin gone
      <4>1. f[r] = r
        BY <3>3
      <4>2. QED
        BY <3>1, <3>3, <4>1 DEF Same
    <3>4. QED
      BY <3>2, <3>3
  <2>2. QED
    BY <2>1
<1> HIDE DEF f
<1>10. /\ registry' \subseteq Row /\ \A r, s \in registry' : r.id = s.id => r = s
       /\ RowStep /\ RowsOK'
  BY <1>3, <1>8, <1>9, Rewriting
<1>11. /\ \A r \in Active \ gone : \E s \in Active' : Same(r, s)
       /\ \A s \in Active' : \E r \in Active \ gone : Same(r, s)
  <2>1. \A r \in Active \ gone : f[r] \in Active' /\ Same(r, f[r])
    BY <1>8, <1>9 DEF Active
  <2>2. ASSUME NEW s \in Active' PROVE \E r \in Active \ gone : Same(r, s)
    <3>1. PICK r \in registry : s = f[r]
      BY <1>8 DEF Active
    <3>2. f[r].active
      BY <3>1 DEF Active
    <3>3. r \in Active \ gone
      BY <1>9, <3>2 DEF Active
    <3>4. QED
      BY <1>9, <3>1, <3>3
  <2>3. QED
    BY <2>1, <2>2
<1>12. /\ wt' \in [Exps -> {"none", "active", "removed", "gone"}]
       /\ at' \in [Exps -> Paths \cup {Null}]
       /\ \A e \in Exps : wt'[e] = "active" =>
            wt[e] = "active" /\ (e = l.exp => l.cmd = "checkout remove")
       /\ \A e \in Exps : wt'[e] = "removed" =>
            wt[e] = "removed" \/ (e = l.exp /\ l.cmd # "checkout remove")
  <2>1. CASE l.cmd = "checkout remove" \/ ~Exists(l.exp)
    BY <1>2, <1>3, <2>1 DEF TypeOK, Exists
  <2>2. CASE ~(l.cmd = "checkout remove" \/ ~Exists(l.exp))
    BY <1>2, <1>3, <1>4, <2>2 DEF TypeOK
  <2>3. QED
    BY <2>1, <2>2
<1>13. NoneRegistered'
  <2>1. ASSUME ~RepairMeetsRemoval, NEW s \in Active', s.mode = "worktree", s.by # "repair"
        PROVE  wt'[s.exp] # "removed"
    <3>1. PICK r \in Active \ gone : Same(r, s)
      BY <1>11
    <3>2. r.mode = "worktree" /\ r.by # "repair" /\ r.exp = s.exp /\ r.exp \in Exps
      BY <1>3, <2>1, <3>1 DEF Same, Active, TypeOK, Row
    <3>3. wt[s.exp] # "removed"
      BY <2>1, <3>2 DEF Inv, NoneRegistered
    <3>4. ~(s.exp = l.exp /\ l.cmd # "checkout remove")
      BY <1>5, <3>2
    <3>5. QED
      BY <1>12, <3>2, <3>3, <3>4
  <2>2. QED
    BY <2>1 DEF NoneRegistered
<1>14. ActiveWorktreeRegistered'
  <2>1. ASSUME NEW e \in Exps, wt'[e] = "active"
        PROVE  \E s \in Active' : s.exp = e /\ s.mode = "worktree"
    <3>1. PICK r \in Active : r.exp = e /\ r.mode = "worktree"
      BY <1>12, <2>1 DEF Inv, ActiveWorktreeRegistered
    <3>2. r \notin gone
      BY <1>5, <1>12, <2>1, <3>1
    <3>3. QED
      BY <1>11, <3>1, <3>2 DEF Same
  <2>2. QED
    BY <2>1 DEF ActiveWorktreeRegistered
<1>15. TypeOK'
  BY <1>1, <1>3, <1>6, <1>7, <1>10, <1>12 DEF TypeOK, PC
<1>16. DirsOK'
  BY <1>1, <1>3 DEF DirsOK
<1>17. LocOK(o)'
  BY <1>1, <1>3, <1>4, <1>6 DEF LocOK, Whole, Adding, Removing, l
<1>18. ASSUME ~RepairMeetsRemoval, NEW q \in Ops, loc'[q].cmd = "repair", loc[q].row # 0
       PROVE  \E s \in Active' : s.id = loc[q].row
  <2>1. loc[q].cmd = "repair"
    BY <1>1, <1>18
  <2>2. PICK r \in Active : r.id = loc[q].row
    BY <1>18, <2>1 DEF Inv, RepairsApart
  <2>3. r.exp \in Repairs(q)
    BY <2>2 DEF Repairs, Active
  <2>4. l.exp \notin Repairs(q)
    BY <1>4, <1>18, <2>1 DEF Inv, RepairsApart, l
  <2>5. r \notin gone
    BY <1>5, <2>3, <2>4
  <2>6. QED
    BY <1>11, <2>2, <2>5 DEF Same
<1>19. QED
  BY <1>1, <1>6, <1>10, <1>13, <1>14, <1>15, <1>16, <1>17, <1>18, RowsChange

(* A repair registers its directory: the row that it read is still active, *)
(* or the new one is of its own making.                                    *)
LEMMA CommitRepairInv == ASSUME Inv, NEW o \in Ops, CommitRepair(o) PROVE Inv'
<1> DEFINE l == loc[o]
           f == [r \in registry |->
                   IF r.id = l.row THEN Repaired(r, l) ELSE r]
<1>1. /\ pc[o] = "repairing" /\ End(o)
      /\ dir' = [dir EXCEPT ![l.path] = Written(dir[l.path], l, l.old, NoToken)]
      /\ UNCHANGED <<wt, at, creds, branches, issued, git, writer, faults>>
  BY DEF CommitRepair
<1>2. \/ /\ l.row # 0
         /\ registry' = {IF r.id = l.row THEN Repaired(r, l) ELSE r :
                           r \in registry}
      \/ /\ Cardinality(registry) < MaxRows
         /\ registry' = AddedRow(l.path, l.exp, l.mode, l.old, "repair")
  BY DEF CommitRepair
<1>3. TypeOK /\ RowsOK /\ DirsOK /\ LocOK(o) /\ l \in Loc
  BY DEF Inv, TypeOK
<1>4. /\ l.cmd = "repair" /\ l.old # NoToken /\ l.old \in Tokens
      /\ l.exp \in Exps /\ l.mode \in Modes /\ l.path \in Paths
  BY <1>1, <1>3 DEF LocOK, Whole, Loc
<1>5. /\ pc' \in [Ops -> PC] /\ pc'[o] = "idle" /\ loc' \in [Ops -> Loc] /\ loc'[o] = NoLoc
      /\ \A q \in Ops \ {o} : pc'[q] = pc[q] /\ loc'[q] = loc[q]
  BY <1>1, <1>3, Ends
<1>6. ~RepairMeetsRemoval /\ l.row # 0 => \E r \in Active : r.id = l.row
  BY <1>4 DEF Inv, RepairsApart
<1> HIDE DEF l
<1>7. dir' \in [Paths -> Dir] /\ \A p \in Paths : Marked(dir'[p])
  <2>1. dir[l.path] \in Dir /\ Marked(dir[l.path])
    BY <1>4, Before
  <2>2. LET d == Written(dir[l.path], l, l.old, NoToken) IN d \in Dir /\ Marked(d)
    BY <1>4, <2>1, WrittenDir
  <2>3. QED
    BY <1>1, <1>3, <1>4, <2>2, DirWritten DEF DirsOK
<1>8. /\ registry' \subseteq Row /\ \A r, s \in registry' : r.id = s.id => r = s
      /\ RowStep /\ RowsOK'
      /\ \A r \in Active : \E s \in Active' : Same(r, s)
      /\ ~RepairMeetsRemoval =>
           \A s \in Active' : s.by # "repair" => \E r \in Active : Same(r, s)
  <2>1. CASE l.row # 0 /\ registry' = {f[r] : r \in registry}
    <3>1. \A r \in registry : /\ f[r] \in Row /\ Same(r, f[r])
                              /\ f[r].active <=> r.active \/ r.id = l.row
      <4>1. ASSUME NEW r \in registry
            PROVE  f[r] \in Row /\ Same(r, f[r]) /\ (f[r].active <=> r.active \/ r.id = l.row)
        <5>1. r \in Row
          BY <1>3 DEF TypeOK
        <5>2. CASE r.id = l.row
          <6>1. PICK by \in {"add", "moved", "repair"} :
                  /\ f[r] = [r EXCEPT !.path = l.path, !.active = TRUE, !.by = by]
                  /\ by = "repair" <=> r.by = "repair"
            BY <5>1, <5>2 DEF Repaired, Row
          <6>2. f[r] \in Row /\ Same(r, f[r])
            BY <1>4, <5>1, <6>1 DEF Row, Same
          <6>3. f[r].active
            BY <5>1, <6>1 DEF Row
          <6>4. QED
            BY <5>2, <6>2, <6>3
        <5>3. CASE r.id # l.row
          <6>1. f[r] = r
            BY <5>3
          <6>2. QED
            BY <5>1, <5>3, <6>1 DEF Same
        <5>4. QED
          BY <5>2, <5>3
      <4>2. QED
        BY <4>1
    <3> HIDE DEF f
    <3>2. /\ registry' \subseteq Row /\ \A r, s \in registry' : r.id = s.id => r = s
          /\ RowStep /\ RowsOK'
      BY <1>3, <2>1, <3>1, Rewriting
    <3>3. \A r \in Active : \E s \in Active' : Same(r, s)
      <4>1. \A r \in Active : f[r] \in Active' /\ Same(r, f[r])
        BY <2>1, <3>1 DEF Active
      <4>2. QED
        BY <4>1
    <3>4. ASSUME ~RepairMeetsRemoval, NEW s \in Active' PROVE \E r \in Active : Same(r, s)
      <4>1. PICK r \in registry : s = f[r]
        BY <2>1 DEF Active
      <4>2. f[r].active
        BY <4>1 DEF Active
      <4>3. PICK r0 \in Active : r0.id = l.row
        BY <1>6, <2>1, <3>4
      <4>4. r \in Active
        <5>1. CASE r.id = l.row
          BY <1>3, <4>3, <5>1 DEF TypeOK, Active
        <5>2. CASE r.id # l.row
          BY <3>1, <4>2, <5>2 DEF Active
        <5>3. QED
          BY <5>1, <5>2
      <4>5. QED
        BY <3>1, <4>1, <4>4
    <3>5. QED
      BY <3>2, <3>3, <3>4
  <2>2. CASE /\ Cardinality(registry) < MaxRows
             /\ registry' = AddedRow(l.path, l.exp, l.mode, l.old, "repair")
    <3>1. /\ registry' \subseteq Row /\ \A r, s \in registry' : r.id = s.id => r = s
          /\ RowStep /\ RowsOK' /\ Active \subseteq Active'
          /\ \E new \in Active' :
                /\ registry' = registry \cup {new} /\ Active' = Active \cup {new}
                /\ new.exp = l.exp /\ new.mode = l.mode /\ new.by = "repair"
      BY <1>3, <1>4, <2>2, AddedRowType
    <3>2. PICK new \in Active' : Active' = Active \cup {new} /\ new.by = "repair"
      BY <3>1
    <3>3. \A s \in Active' : s.by # "repair" => s \in Active
      BY <3>2
    <3>4. QED
      BY <3>1, <3>3 DEF Same
  <2>3. {f[r] : r \in registry} =
          {IF r.id = l.row THEN Repaired(r, l) ELSE r : r \in registry}
    OBVIOUS
  <2> HIDE DEF f
  <2>4. QED
    BY <1>2, <2>1, <2>2, <2>3
<1> HIDE DEF f
<1>9. NoneRegistered'
  BY <1>1, <1>8 DEF Inv, NoneRegistered, Same
<1>10. ActiveWorktreeRegistered'
  BY <1>1, <1>8 DEF Inv, ActiveWorktreeRegistered, Same
<1>11. TypeOK'
  BY <1>1, <1>3, <1>5, <1>7, <1>8 DEF TypeOK, PC
<1>12. DirsOK'
  BY <1>3, <1>5, <1>7, Nothing DEF DirsOK
<1>13. LocOK(o)'
  BY <1>5, Nothing DEF LocOK, Adding, Removing
<1>14. \A r \in Active : \E s \in Active' : s.id = r.id
  BY <1>8 DEF Same
<1>15. ~RepairMeetsRemoval => \A q \in Ops :
         loc'[q].cmd = "repair" /\ loc[q].row # 0 => \E s \in Active' : s.id = loc[q].row
  BY <1>5, <1>14, RepairsKeepRows
<1>16. QED
  BY <1>5, <1>8, <1>9, <1>10, <1>11, <1>12, <1>13, <1>15, RowsChange

(* Nothing is there at first.                                              *)
LEMMA InitInv == Init => Inv
<1> SUFFICES ASSUME Init PROVE Inv
  OBVIOUS
<1>1. 0 \in 0..MaxTokens /\ 0 \in 0..MaxFaults /\ 0 \in 0..MaxRows
  BY ConstantsAssumption
<1>2. TypeOK
  BY <1>1, Nothing DEF Init, TypeOK
<1>3. RowsOK
  <2>1. {r.id : r \in registry} = {} /\ 1..0 = {}
    BY DEF Init
  <2>2. QED
    BY <1>1, <2>1 DEF RowsOK
<1>4. DirsOK
  BY Nothing DEF Init, DirsOK
<1>5. \A o \in Ops : LocOK(o) /\ RowOK(o)
  BY Nothing DEF Init, LocOK, RowOK, Adding, Removing
<1>6. RepairsApart /\ NoneRegistered /\ ActiveWorktreeRegistered
  BY Nothing DEF Init, RepairsApart, NoneRegistered, ActiveWorktreeRegistered, Active
<1>7. QED
  BY <1>2, <1>3, <1>4, <1>5, <1>6 DEF Inv

(* Every step keeps the invariant.                                         *)
LEMMA StepInv == Inv /\ [Next]_vars => Inv'
<1> SUFFICES ASSUME Inv, [Next]_vars PROVE Inv'
  OBVIOUS
<1>1. CASE UNCHANGED vars
  <2>1. UNCHANGED <<wt, registry, pc, loc>> /\ TypeOK' /\ DirsOK'
    BY <1>1 DEF vars, Inv, TypeOK, DirsOK
  <2>2. QED
    BY <2>1, UserSteps
<1>2. ASSUME NEW o \in Ops, NEW e \in Exps,
             \/ \E cmd \in Adding, p \in Paths : StartAdd(o, cmd, e, p)
             \/ \E mode \in Modes : BeginRegenerate(o, e, mode)
             \/ WorktreeRemove(o, e) \/ ExpRemove(o, e)
      PROVE  Inv'
  BY <1>2, StartAddInv, BeginRegenerateInv, RemovalsInv
<1>3. ASSUME NEW o \in Ops,
             \/ AddWorktree(o) \/ BeginAdd(o) \/ CommitAdd(o) \/ CommitRegenerate(o)
             \/ CheckoutRemove(o) \/ DeleteBranch(o) \/ DeleteRows(o) \/ DeleteFails(o)
             \/ Prune(o) \/ CommitRepair(o) \/ EndsEarly(o) \/ KilledWriting(o)
      PROVE  Inv'
  BY <1>3, AddWorktreeInv, BeginAddInv, CommitAddInv, CommitRegenerateInv, RemovalsInv,
     DeleteBranchInv, DeleteRowsInv, DeleteFailsInv, PruneInv, CommitRepairInv,
     EndsEarlyInv, KilledWritingInv
<1>4. ASSUME NEW o \in Ops, NEW p \in Paths,
             Stage(o, p) \/ \E key \in BOOLEAN : StartRepair(o, p, key)
      PROVE  Inv'
  BY <1>4, StageInv, StartRepairInv
<1>5. ASSUME NEW e \in Exps, TokenRevoke(e) PROVE Inv'
  BY <1>5, TokenRevokeInv
<1>6. ASSUME NEW p \in Paths,
             UserDeletes(p) \/ \E q \in Paths, told \in BOOLEAN : Move(p, q, told)
      PROVE  Inv'
  BY <1>6, UserInv
<1>7. QED
  BY <1>1, <1>2, <1>3, <1>4, <1>5, <1>6 DEF Next

(* The invariant holds of every behaviour, whether or not repairs and      *)
(* removals overlap.                                                       *)
THEOREM Invariance == Spec => []Inv
<1>1. QED
  BY InitInv, StepInv, PTL DEF Spec

(* The variables keep their types: no two rows of path_registry share an   *)
(* id, however often directories are added, repaired and removed.          *)
THEOREM TypeCorrect == Spec => []TypeOK
<1>1. Inv => TypeOK
  BY DEF Inv
<1>2. QED
  BY <1>1, Invariance, PTL

(* An experiment whose worktree_state is active has an active row, for any *)
(* number of processes, experiments and directories, although a removal    *)
(* that has read an earlier worktree may come after a restore.             *)
THEOREM ActiveRegistered == Spec => []ActiveWorktreeRegistered
<1>1. Inv => ActiveWorktreeRegistered
  BY DEF Inv
<1>2. QED
  BY <1>1, Invariance, PTL

(* As long as no repair overlaps a removal of the same experiment, nothing *)
(* is accepted as the worktree of an experiment whose worktree_state is    *)
(* removed.                                                                *)
THEOREM RemovedRefused ==
    ASSUME ~RepairMeetsRemoval PROVE Spec => []RemovedIsRefused
<1>1. Inv => RemovedIsRefused
  BY DEF Inv, NoneRegistered, RemovedIsRefused, AcceptedBy, Active
<1>2. QED
  BY <1>1, Invariance, PTL

-----------------------------------------------------------------------------
(* The token file of a row.                                                *)

(* Whoever commits holds the write lock.                                   *)
WriterOK == \A o \in Ops : pc[o] = "committing" <=> writer = o

(* A token that has been issued; none is ahead of the counter.             *)
CredsOK == \A t \in DOMAIN creds : t <= issued
DirTokensOK == faults = 0 => \A p \in Paths : dir[p].token <= issued

(* No two active rows are of one directory.                                *)
OnePerPath == \A r, s \in Active : r.path = s.path => r = s

(* The token that is being written is no credential yet.  It is in the     *)
(* directory that is being written and in no other, and the row that a     *)
(* regeneration has read is still there: nobody else can commit.           *)
BeingWritten(o) ==
    LET l == loc[o] IN
    pc[o] = "committing" =>
        /\ l.new <= issued /\ l.new \notin DOMAIN creds
        /\ l.cmd = "regenerate" => \E r \in Active : r.id = l.row /\ r.path = l.path
        /\ faults = 0 => /\ \A p \in Paths : dir[p].token = l.new => p = l.path
                         /\ dir[l.path].token \in {l.new, NoToken}

TokenInv ==
    /\ WriterOK /\ CredsOK /\ DirTokensOK /\ OnePerPath
    /\ \A o \in Ops : BeingWritten(o)
    /\ TokenFileAgrees

(* No credential is the absent token.                                      *)
LEMMA NoTokenIsNone ==
    ASSUME TypeOK
    PROVE  /\ NoToken \notin DOMAIN creds /\ issued \in Nat
           /\ \A t \in DOMAIN creds : t \in Nat
BY ConstantsAssumption DEF TypeOK, NoToken, Tokens

(* There is no token at first.                                             *)
LEMMA InitTokens == Init => TokenInv
<1> SUFFICES ASSUME Init PROVE TokenInv
  OBVIOUS
<1>1. WriterOK /\ \A o \in Ops : BeingWritten(o)
  BY ConstantsAssumption DEF Init, WriterOK, BeingWritten
<1>2. Active = {} /\ DOMAIN creds = {}
  BY DEF Init, Active
<1>3. CredsOK /\ OnePerPath /\ TokenFileAgrees
  BY <1>2 DEF CredsOK, OnePerPath, TokenFileAgrees
<1>4. DirTokensOK
  BY DEF Init, DirTokensOK, NoDir, NoToken
<1>5. QED
  BY <1>1, <1>3, <1>4 DEF TokenInv

(* A step that adds no row and no credential, and writes no token unless   *)
(* it counts as a fault.                                                   *)
LEMMA NothingWritten ==
    ASSUME Inv, TokenInv, TypeOK',
           DOMAIN creds' = DOMAIN creds, issued <= issued', Active' \subseteq Active,
           \A o \in Ops : pc'[o] = "committing" =>
               pc[o] = "committing" /\ loc'[o] = loc[o] /\ Active' = Active,
           \A o \in Ops : pc'[o] = "committing" <=> writer' = o,
           faults' = 0 =>
               faults = 0 /\ \A p \in Paths : dir'[p].token \in {dir[p].token, NoToken}
    PROVE  TokenInv'
<1>1. /\ NoToken \notin DOMAIN creds /\ issued \in Nat /\ issued' \in Nat
      /\ \A t \in DOMAIN creds : t \in Nat
      /\ \A r \in Active : r.path \in Paths
      /\ \A p \in Paths : dir[p].token \in Nat
  <2>1. TypeOK
    BY DEF Inv
  <2>2. \A r \in Active : r.path \in Paths
    BY <2>1 DEF TypeOK, Active, Row
  <2>3. \A p \in Paths : dir[p].token \in Nat
    BY <2>1, ConstantsAssumption DEF TypeOK, Dir, Tokens, NoToken
  <2>4. issued' \in Nat
    BY ConstantsAssumption DEF TypeOK
  <2>5. QED
    BY <2>1, <2>2, <2>3, <2>4, NoTokenIsNone
<1>2. WriterOK' /\ OnePerPath'
  BY DEF WriterOK, OnePerPath, TokenInv
<1>3. CredsOK'
  BY <1>1 DEF CredsOK, TokenInv
<1>4. DirTokensOK'
  <2>1. ASSUME faults' = 0, NEW p \in Paths PROVE dir'[p].token <= issued'
    <3>1. dir[p].token <= issued /\ dir'[p].token \in {dir[p].token, NoToken}
      BY <2>1 DEF TokenInv, DirTokensOK
    <3>2. QED
      BY <1>1, <3>1 DEF NoToken
  <2>2. QED
    BY <2>1 DEF DirTokensOK
<1>5. ASSUME NEW o \in Ops, pc'[o] = "committing" PROVE BeingWritten(o)'
  <2>1. /\ pc[o] = "committing" /\ loc'[o] = loc[o] /\ Active' = Active
        /\ BeingWritten(o) /\ LocOK(o) /\ TypeOK
    BY <1>5 DEF TokenInv, Inv
  <2>2. loc[o].new \in Nat /\ loc[o].new # NoToken /\ loc[o].path \in Paths
    BY <2>1, ConstantsAssumption DEF LocOK, Whole, TypeOK, Loc, Tokens, NoToken
  <2>3. /\ loc[o].new <= issued' /\ loc[o].new \notin DOMAIN creds'
        /\ loc[o].cmd = "regenerate" => \E r \in Active' : r.id = loc[o].row /\ r.path = loc[o].path
    BY <1>1, <2>1, <2>2 DEF BeingWritten
  <2>4. ASSUME faults' = 0
        PROVE  /\ \A p \in Paths : dir'[p].token = loc[o].new => p = loc[o].path
               /\ dir'[loc[o].path].token \in {loc[o].new, NoToken}
    BY <2>1, <2>2, <2>4 DEF BeingWritten
  <2>5. QED
    BY <2>1, <2>3, <2>4 DEF BeingWritten
<1>6. \A o \in Ops : BeingWritten(o)'
  BY <1>5 DEF BeingWritten
<1>7. TokenFileAgrees'
  <2>1. ASSUME NEW r \in Active', faults' = 0, r.by = "add", dir'[r.path].token \in DOMAIN creds'
        PROVE  dir'[r.path].token = r.token
    <3>1. r \in Active /\ r.path \in Paths /\ faults = 0
      BY <1>1, <2>1
    <3>2. dir'[r.path].token = dir[r.path].token
      BY <1>1, <2>1, <3>1
    <3>3. QED
      BY <2>1, <3>1, <3>2 DEF TokenInv, TokenFileAgrees
  <2>2. QED
    BY <2>1 DEF TokenFileAgrees
<1>8. QED
  BY <1>2, <1>3, <1>4, <1>6, <1>7 DEF TokenInv

(* An invocation that is not committing goes on to something else.         *)
LEMMA Aside ==
    ASSUME Inv, TokenInv, TypeOK', NEW o \in Ops, pc[o] # "committing", pc'[o] # "committing",
           \A q \in Ops \ {o} : pc'[q] = pc[q] /\ loc'[q] = loc[q],
           UNCHANGED <<creds, registry, issued, writer, faults>>,
           \A p \in Paths : dir'[p].token \in {dir[p].token, NoToken}
    PROVE  TokenInv'
<1>1. Active' = Active
  BY DEF Active
<1>2. issued <= issued'
  BY NoTokenIsNone DEF Inv
<1>3. \A q \in Ops : pc'[q] = "committing" <=> writer' = q
  BY DEF TokenInv, WriterOK
<1>4. QED
  BY <1>1, <1>2, <1>3, NothingWritten

(* Something goes wrong, or a user changes a directory: from now on        *)
(* nothing is promised of token files.                                     *)
LEMMA GoesWrong ==
    ASSUME Inv, TokenInv, TypeOK', Fault, UNCHANGED <<creds, registry>>,
           issued' \in {issued, issued + 1},
           \A o \in Ops : pc'[o] = "committing" => pc[o] = "committing" /\ loc'[o] = loc[o],
           \A o \in Ops : pc'[o] = "committing" <=> writer' = o
    PROVE  TokenInv'
<1>1. Active' = Active
  BY DEF Active
<1>2. issued <= issued'
  BY NoTokenIsNone DEF Inv
<1>3. faults' # 0
  BY ConstantsAssumption DEF Fault, Inv, TypeOK
<1>4. QED
  BY <1>1, <1>2, <1>3, NothingWritten

(* Adding begins and removals proceed: no token is written.                *)
LEMMA StartAddTokens ==
    ASSUME Inv, TokenInv, Inv', NEW o \in Ops, NEW cmd \in Adding, NEW e \in Exps,
           NEW p \in Paths, StartAdd(o, cmd, e, p)
    PROVE  TokenInv'
<1>1. /\ pc[o] = "idle" /\ Goto(o, "adding") /\ \E l : loc' = [loc EXCEPT ![o] = l]
      /\ UNCHANGED <<creds, registry, issued, writer, faults, dir>>
  BY DEF StartAdd, tables
<1>2. TypeOK /\ TypeOK'
  BY DEF Inv
<1>3. pc'[o] = "adding" /\ \A q \in Ops \ {o} : pc'[q] = pc[q] /\ loc'[q] = loc[q]
  BY <1>1, <1>2, Goes DEF PC, TypeOK
<1>4. QED
  BY <1>1, <1>2, <1>3, Aside

(* A directory that git adds has no token file yet.                        *)
LEMMA AddWorktreeTokens ==
    ASSUME Inv, TokenInv, Inv', NEW o \in Ops, AddWorktree(o) PROVE TokenInv'
<1>1. /\ pc[o] = "adding" /\ Goto(o, "opening")
      /\ dir' = [dir EXCEPT ![loc[o].path] = [NoDir EXCEPT !.gitpath = loc[o].path]]
      /\ UNCHANGED <<creds, registry, issued, writer, faults, loc>>
  BY DEF AddWorktree, GitAdds, tables
<1>2. TypeOK /\ TypeOK'
  BY DEF Inv
<1>3. pc'[o] = "opening" /\ \A q \in Ops \ {o} : pc'[q] = pc[q] /\ loc'[q] = loc[q]
  BY <1>1, <1>2, Goes DEF PC
<1>4. \A p \in Paths : dir'[p].token \in {dir[p].token, NoToken}
  BY <1>1, <1>2 DEF NoDir, TypeOK
<1>5. QED
  BY <1>1, <1>2, <1>3, <1>4, Aside

(* A removal reads what to take.                                           *)
LEMMA RemovalTokens ==
    ASSUME Inv, TokenInv, Inv', NEW o \in Ops, NEW l, StartRemove(o, l) PROVE TokenInv'
<1>1. /\ pc[o] = "idle" /\ Goto(o, "staging") /\ loc' = [loc EXCEPT ![o] = l]
      /\ UNCHANGED <<creds, registry, issued, writer, faults, dir>>
  BY DEF StartRemove, tables
<1>2. TypeOK /\ TypeOK'
  BY DEF Inv
<1>3. pc'[o] = "staging" /\ \A q \in Ops \ {o} : pc'[q] = pc[q] /\ loc'[q] = loc[q]
  BY <1>1, <1>2, Goes DEF PC, TypeOK
<1>4. QED
  BY <1>1, <1>2, <1>3, Aside

(* A directory that is moved to the trash takes its token file along.      *)
LEMMA StageTokens ==
    ASSUME Inv, TokenInv, Inv', NEW o \in Ops, NEW p \in Paths, Stage(o, p) PROVE TokenInv'
<1>1. /\ pc[o] = "staging" /\ dir' = [dir EXCEPT ![p] = NoDir]
      /\ \E l : loc' = [loc EXCEPT ![o] = l]
      /\ UNCHANGED <<creds, registry, issued, writer, faults, pc>>
  BY DEF Stage, tables
<1>2. TypeOK /\ TypeOK'
  BY DEF Inv
<1>3. \A q \in Ops \ {o} : pc'[q] = pc[q] /\ loc'[q] = loc[q]
  BY <1>1, <1>2 DEF TypeOK
<1>4. \A q \in Paths : dir'[q].token \in {dir[q].token, NoToken}
  BY <1>1, <1>2 DEF NoDir, TypeOK
<1>5. QED
  BY <1>1, <1>2, <1>3, <1>4, Aside

(* A branch goes without a token.                                          *)
LEMMA DeleteBranchTokens ==
    ASSUME Inv, TokenInv, Inv', NEW o \in Ops, DeleteBranch(o) PROVE TokenInv'
<1>1. /\ pc[o] = "staging" /\ Goto(o, "deleting")
      /\ UNCHANGED <<creds, registry, issued, writer, faults, dir, loc>>
  BY DEF DeleteBranch, tables
<1>2. TypeOK /\ TypeOK'
  BY DEF Inv
<1>3. pc'[o] = "deleting" /\ \A q \in Ops \ {o} : pc'[q] = pc[q] /\ loc'[q] = loc[q]
  BY <1>1, <1>2, Goes DEF PC
<1>4. QED
  BY <1>1, <1>2, <1>3, Aside

(* The transaction of a removal takes rows off; nobody else commits.       *)
LEMMA DeleteRowsTokens ==
    ASSUME Inv, TokenInv, Inv', NEW o \in Ops, DeleteRows(o) PROVE TokenInv'
<1> DEFINE gone == RemovedBy(loc[o])
<1>1. /\ pc[o] = "deleting" /\ writer = Null /\ Goto(o, "pruning")
      /\ creds' = WithRevoked(RevokedBy(loc[o]))
      /\ registry' = {IF r \in gone THEN [r EXCEPT !.active = FALSE] ELSE r : r \in registry}
      /\ UNCHANGED <<issued, dir, writer, faults>>
  BY DEF DeleteRows
<1>2. TypeOK /\ TypeOK'
  BY DEF Inv
<1>3. pc'[o] = "pruning" /\ \A q \in Ops \ {o} : pc'[q] = pc[q]
  BY <1>1, <1>2, Goes DEF PC
<1>4. \A q \in Ops : pc'[q] # "committing" /\ writer' # q
  BY <1>1, <1>3, ConstantsAssumption DEF TokenInv, WriterOK
<1>5. DOMAIN creds' = DOMAIN creds
  BY <1>1 DEF WithRevoked
<1>6. Active' \subseteq Active
  <2> HIDE DEF gone
  <2>1. ASSUME NEW s \in Active' PROVE s \in Active
    <3>1. PICK r \in registry : s = IF r \in gone THEN [r EXCEPT !.active = FALSE] ELSE r
      BY <1>1 DEF Active
    <3>2. r \in Row
      BY <1>2 DEF TypeOK
    <3>3. ~[r EXCEPT !.active = FALSE].active
      BY <3>2 DEF Row
    <3>4. s = r
      BY <3>1, <3>3 DEF Active
    <3>5. QED
      BY <3>4 DEF Active
  <2>2. QED
    BY <2>1
<1>7. issued <= issued'
  BY <1>1, <1>2, NoTokenIsNone
<1>8. faults' = faults /\ \A p \in Paths : dir'[p].token \in {dir[p].token, NoToken}
  BY <1>1
<1> HIDE DEF gone
<1>9. QED
  BY <1>2, <1>4, <1>5, <1>6, <1>7, <1>8, NothingWritten

(* git forgets worktrees, not their tokens.                                *)
LEMMA PruneTokens ==
    ASSUME Inv, TokenInv, Inv', NEW o \in Ops, Prune(o) PROVE TokenInv'
<1>1. pc[o] = "pruning" /\ End(o) /\ UNCHANGED <<creds, registry, issued, writer, faults, dir>>
  BY DEF Prune, tables
<1>2. TypeOK /\ TypeOK'
  BY DEF Inv
<1>3. pc'[o] = "idle" /\ \A q \in Ops \ {o} : pc'[q] = pc[q] /\ loc'[q] = loc[q]
  BY <1>1, <1>2, Ends
<1>4. QED
  BY <1>1, <1>2, <1>3, Aside

(* A repair reads the marker and the row.                                  *)
LEMMA StartRepairTokens ==
    ASSUME Inv, TokenInv, Inv', NEW o \in Ops, NEW p \in Paths, NEW key \in BOOLEAN,
           StartRepair(o, p, key)
    PROVE  TokenInv'
<1>1. /\ pc[o] = "idle" /\ Goto(o, "repairing") /\ \E l : loc' = [loc EXCEPT ![o] = l]
      /\ UNCHANGED <<creds, registry, issued, writer, faults, dir>>
  BY DEF StartRepair, tables
<1>2. TypeOK /\ TypeOK'
  BY DEF Inv
<1>3. pc'[o] = "repairing" /\ \A q \in Ops \ {o} : pc'[q] = pc[q] /\ loc'[q] = loc[q]
  BY <1>1, <1>2, Goes DEF PC, TypeOK
<1>4. QED
  BY <1>1, <1>2, <1>3, Aside

(* Revoked tokens stay credentials.                                        *)
LEMMA TokenRevokeTokens ==
    ASSUME Inv, TokenInv, Inv', NEW e \in Exps, TokenRevoke(e) PROVE TokenInv'
<1>1. /\ writer = Null /\ \E some : creds' = WithRevoked(some)
      /\ UNCHANGED <<registry, issued, dir, writer, pc, loc, faults>>
  BY DEF TokenRevoke
<1>2. DOMAIN creds' = DOMAIN creds
  BY <1>1 DEF WithRevoked
<1>3. Active' = Active
  BY <1>1 DEF Active
<1>4. \A q \in Ops : pc'[q] # "committing" /\ writer' # q
  BY <1>1, ConstantsAssumption DEF TokenInv, WriterOK
<1>5. TypeOK' /\ issued <= issued'
  BY <1>1, NoTokenIsNone DEF Inv
<1>6. QED
  BY <1>1, <1>2, <1>3, <1>4, <1>5, NothingWritten

(* Removals that fail, commands that end early: faults too.                *)
LEMMA FaultTokens ==
    ASSUME Inv, TokenInv, Inv', NEW o \in Ops,
           DeleteFails(o) \/ EndsEarly(o) \/ KilledWriting(o)
    PROVE  TokenInv'
<1>1. /\ Fault /\ End(o) /\ UNCHANGED <<creds, registry>> /\ issued' \in {issued, issued + 1}
  BY DEF DeleteFails, EndsEarly, KilledWriting, tables
<1>2. writer' = IF writer = o THEN Null ELSE writer
  BY ConstantsAssumption DEF DeleteFails, EndsEarly, KilledWriting, TokenInv, WriterOK
<1>3. TypeOK /\ TypeOK'
  BY DEF Inv
<1>4. pc'[o] = "idle" /\ \A q \in Ops \ {o} : pc'[q] = pc[q] /\ loc'[q] = loc[q]
  BY <1>1, <1>3, Ends
<1>5. \A q \in Ops : pc'[q] = "committing" <=> writer' = q
  BY <1>2, <1>4, ConstantsAssumption DEF TokenInv, WriterOK
<1>6. QED
  BY <1>1, <1>3, <1>4, <1>5, GoesWrong

(* Users move and delete directories: that counts as a fault.              *)
LEMMA UserTokens ==
    ASSUME Inv, TokenInv, Inv', NEW p \in Paths,
           UserDeletes(p) \/ \E q \in Paths, told \in BOOLEAN : Move(p, q, told)
    PROVE  TokenInv'
<1>1. Fault /\ UNCHANGED <<creds, registry, issued, writer, pc, loc>>
  BY DEF UserDeletes, Move, tables
<1>2. TypeOK'
  BY DEF Inv
<1>3. \A q \in Ops : pc'[q] = "committing" <=> writer' = q
  BY <1>1 DEF TokenInv, WriterOK
<1>4. QED
  BY <1>1, <1>2, <1>3, GoesWrong

(* A new token is written to one directory, by whoever takes the write     *)
(* lock or by nobody who will commit it.                                   *)
LEMMA TokenWritten ==
    ASSUME Inv, TokenInv, TypeOK', writer = Null, issued' = issued + 1,
           UNCHANGED <<creds, registry, faults>>, NEW p0 \in Paths,
           dir'[p0].token = issued + 1, \A p \in Paths \ {p0} : dir'[p] = dir[p],
           \A o \in Ops : pc'[o] = "committing" <=> writer' = o,
           \A o \in Ops : pc'[o] = "committing" =>
               /\ loc'[o].path = p0 /\ loc'[o].new = issued + 1
               /\ loc'[o].cmd = "regenerate" =>
                    \E r \in Active : r.id = loc'[o].row /\ r.path = p0
    PROVE  TokenInv'
<1> DEFINE new == issued + 1
<1>1. /\ issued \in Nat /\ Active' = Active
      /\ \A t \in DOMAIN creds : t \in Nat /\ t <= issued
      /\ \A r \in Active : r.path \in Paths
      /\ \A p \in Paths : dir[p].token \in Nat
  <2>1. TypeOK
    BY DEF Inv
  <2>2. \A r \in Active : r.path \in Paths
    BY <2>1 DEF TypeOK, Active, Row
  <2>3. \A p \in Paths : dir[p].token \in Nat
    BY <2>1, ConstantsAssumption DEF TypeOK, Dir, Tokens, NoToken
  <2>4. Active' = Active
    BY DEF Active
  <2>5. QED
    BY <2>1, <2>2, <2>3, <2>4, NoTokenIsNone DEF TokenInv, CredsOK
<1>2. /\ new \in Nat /\ issued <= new /\ new <= issued' /\ new \notin DOMAIN creds'
      /\ \A t \in DOMAIN creds' : t <= issued'
  BY <1>1
<1>3. WriterOK' /\ OnePerPath'
  BY <1>1 DEF WriterOK, OnePerPath, TokenInv
<1>4. CredsOK'
  BY <1>2 DEF CredsOK
<1>5. DirTokensOK'
  <2>1. ASSUME faults = 0, NEW p \in Paths PROVE dir'[p].token <= issued'
    <3>1. CASE p = p0
      BY <1>2, <3>1
    <3>2. CASE p # p0
      <4>1. dir'[p].token = dir[p].token /\ dir[p].token <= issued
        BY <2>1, <3>2 DEF TokenInv, DirTokensOK
      <4>2. QED
        BY <1>1, <4>1
    <3>3. QED
      BY <3>1, <3>2
  <2>2. QED
    BY <2>1 DEF DirTokensOK
<1>6. ASSUME faults = 0, NEW p \in Paths, dir'[p].token = new PROVE p = p0
  <2>1. CASE p # p0
    <3>1. dir[p].token = new /\ dir[p].token <= issued
      BY <1>6, <2>1 DEF TokenInv, DirTokensOK
    <3>2. QED
      BY <1>1, <3>1
  <2>2. QED
    BY <2>1
<1>7. \A o \in Ops : BeingWritten(o)'
  <2>1. ASSUME NEW o \in Ops, pc'[o] = "committing" PROVE BeingWritten(o)'
    <3>1. /\ loc'[o].path = p0 /\ loc'[o].new = new
          /\ loc'[o].cmd = "regenerate" =>
               \E r \in Active' : r.id = loc'[o].row /\ r.path = p0
      BY <1>1, <2>1
    <3>2. dir'[p0].token = new /\ faults' = faults
      OBVIOUS
    <3> HIDE DEF new
    <3>3. QED
      BY <1>2, <1>6, <3>1, <3>2 DEF BeingWritten
  <2>2. QED
    BY <2>1 DEF BeingWritten
<1>8. TokenFileAgrees'
  <2>1. ASSUME NEW r \in Active', faults = 0, r.by = "add", dir'[r.path].token \in DOMAIN creds'
        PROVE  dir'[r.path].token = r.token
    <3>1. r \in Active /\ r.path \in Paths
      BY <1>1
    <3>2. r.path # p0
      BY <1>2, <2>1
    <3>3. dir'[r.path].token = dir[r.path].token
      BY <3>1, <3>2
    <3>4. QED
      BY <2>1, <3>1, <3>3 DEF TokenInv, TokenFileAgrees
  <2>2. QED
    BY <2>1 DEF TokenFileAgrees
<1>9. QED
  BY <1>3, <1>4, <1>5, <1>7, <1>8 DEF TokenInv

(* The token file that is written.                                         *)
LEMMA WrittenToken ==
    ASSUME NEW d \in Dir, NEW l, NEW marker, NEW token
    PROVE  Written(d, l, marker, token).token = IF token = NoToken THEN d.token ELSE token
BY DEF Written, Dir

(* The files of a new directory are written.                               *)
LEMMA BeginAddTokens ==
    ASSUME Inv, TokenInv, Inv', NEW o \in Ops, BeginAdd(o) PROVE TokenInv'
<1> DEFINE new == issued + 1
           l == [loc[o] EXCEPT !.new = new]
<1>1. /\ pc[o] = "opening" /\ writer = Null /\ issued < MaxTokens /\ issued' = new /\ writer' = o
      /\ dir' = [dir EXCEPT ![loc[o].path] = Written(dir[loc[o].path], loc[o], new, new)]
      /\ loc' = [loc EXCEPT ![o] = l] /\ Goto(o, "committing")
      /\ UNCHANGED <<creds, registry, faults>>
  BY DEF BeginAdd, tables
<1>2. TypeOK /\ TypeOK' /\ LocOK(o) /\ loc[o] \in Loc
  BY DEF Inv, TypeOK
<1>3. loc[o].cmd \in Adding /\ loc[o].path \in Paths
  BY <1>1, <1>2 DEF LocOK, Whole
<1>4. new # NoToken
  BY <1>1, <1>2, Issued
<1>5. /\ pc'[o] = "committing" /\ \A q \in Ops \ {o} : pc'[q] = pc[q]
  BY <1>1, <1>2, Goes DEF PC
<1> HIDE DEF new
<1>6. loc'[o].path = loc[o].path /\ loc'[o].new = new /\ loc'[o].cmd = loc[o].cmd
  BY <1>1, <1>2 DEF Loc, TypeOK
<1>7. dir'[loc[o].path].token = new /\ \A p \in Paths \ {loc[o].path} : dir'[p] = dir[p]
  <2>1. dir[loc[o].path] \in Dir
    BY <1>2, <1>3 DEF TypeOK
  <2>2. dir'[loc[o].path] = Written(dir[loc[o].path], loc[o], new, new)
    BY <1>1, <1>2, <1>3 DEF TypeOK
  <2>3. \A p \in Paths \ {loc[o].path} : dir'[p] = dir[p]
    BY <1>1, <1>2, <1>3 DEF TypeOK
  <2>4. QED
    BY <1>4, <2>1, <2>2, <2>3, WrittenToken
<1>8. \A q \in Ops : pc'[q] = "committing" <=> q = o
  BY <1>1, <1>5, ConstantsAssumption DEF TokenInv, WriterOK
<1>9. loc'[o].cmd # "regenerate"
  BY <1>3, <1>6 DEF Adding
<1>10. QED
  BY <1>1, <1>2, <1>3, <1>6, <1>7, <1>8, <1>9, TokenWritten DEF new

(* A new token goes to a row's directory; the row is still its row.        *)
LEMMA BeginRegenerateTokens ==
    ASSUME Inv, TokenInv, Inv', NEW o \in Ops, NEW e \in Exps, NEW mode \in Modes,
           BeginRegenerate(o, e, mode)
    PROVE  TokenInv'
<1> DEFINE new == issued + 1
           tokens == ActiveTokens(e, mode)
           old == CHOOSE t \in tokens : \A u \in tokens : u <= t
           l(r) == [NoLoc EXCEPT !.cmd = "regenerate", !.exp = e, !.mode = mode,
                                 !.path = r.path, !.old = old, !.new = new, !.row = r.id]
<1>1. pc[o] = "idle" /\ writer = Null /\ issued' = new /\ UNCHANGED <<creds, registry, faults>>
  BY DEF BeginRegenerate, tables
<1>2. PICK r \in Active :
        \/ /\ dir' = [dir EXCEPT ![r.path] = Rewritten(dir[r.path], new)]
           /\ writer' = o /\ Goto(o, "committing") /\ loc' = [loc EXCEPT ![o] = l(r)]
        \/ /\ dir' = [dir EXCEPT ![r.path].token = new] /\ UNCHANGED <<writer, pc, loc>>
  BY DEF BeginRegenerate
<1>3. TypeOK /\ TypeOK'
  BY DEF Inv
<1>4. r.path \in Paths /\ dir[r.path] \in Dir
  BY <1>3 DEF TypeOK, Active, Row
<1>5. l(r).path = r.path /\ l(r).new = new /\ l(r).row = r.id
  BY DEF NoLoc
<1> HIDE DEF new, l
<1>6. dir'[r.path].token = new /\ \A p \in Paths \ {r.path} : dir'[p] = dir[p]
  <2>1. PICK d \in Dir : dir' = [dir EXCEPT ![r.path] = d] /\ d.token = new
    <3>1. new \in Tokens
      BY <1>1, <1>3, Issued DEF BeginRegenerate, new
    <3>2. Rewritten(dir[r.path], new) \in Dir /\ Rewritten(dir[r.path], new).token = new
      BY <1>4, <3>1 DEF Rewritten, Dir
    <3>3. [dir[r.path] EXCEPT !.token = new] \in Dir /\ [dir[r.path] EXCEPT !.token = new].token = new
      BY <1>4, <3>1 DEF Dir
    <3>4. QED
      BY <1>2, <3>2, <3>3
  <2>2. QED
    BY <1>3, <1>4, <2>1, DirWritten
<1>7. \A q \in Ops : pc[q] # "committing"
  BY <1>1, ConstantsAssumption DEF TokenInv, WriterOK
<1>8. /\ \A q \in Ops : pc'[q] = "committing" <=> writer' = q
      /\ \A q \in Ops : pc'[q] = "committing" =>
           loc'[q].path = r.path /\ loc'[q].new = new /\ loc'[q].row = r.id
  <2>1. CASE writer' = o /\ Goto(o, "committing") /\ loc' = [loc EXCEPT ![o] = l(r)]
    <3>1. pc'[o] = "committing" /\ \A q \in Ops \ {o} : pc'[q] = pc[q]
      BY <1>3, <2>1, Goes DEF PC
    <3>2. loc'[o] = l(r)
      BY <1>3, <2>1 DEF TypeOK
    <3>3. QED
      BY <1>5, <1>7, <2>1, <3>1, <3>2
  <2>2. CASE UNCHANGED <<writer, pc, loc>>
    BY <1>1, <1>7, <2>2, ConstantsAssumption
  <2>3. QED
    BY <1>2, <2>1, <2>2
<1>9. QED
  BY <1>1, <1>3, <1>4, <1>6, <1>8, TokenWritten DEF new

(* The old credential is revoked and the new one is there.                 *)
LEMMA RenewedTokens ==
    ASSUME NEW l PROVE DOMAIN Renewed(l) = DOMAIN creds \cup {l.new}
BY DEF Renewed

(* The writer commits: of its own row and its own directory, whose token   *)
(* becomes a credential; every other row keeps path, token and maker.      *)
LEMMA Commits ==
    ASSUME Inv, TokenInv, Inv', NEW o \in Ops, pc[o] = "committing", writer' = Null, End(o),
           UNCHANGED <<issued, dir, faults>>, creds' = Renewed(loc[o]), OnePerPath',
           \A s \in Active' :
               \/ s.path = loc[o].path /\ s.token = loc[o].new
               \/ s.path # loc[o].path /\ s \in Active
    PROVE  TokenInv'
<1> DEFINE l == loc[o]
<1>1. TypeOK /\ TypeOK' /\ BeingWritten(o) /\ l.new # NoToken
  BY DEF Inv, TokenInv, LocOK
<1>2. l.new <= issued /\ (faults = 0 => /\ \A p \in Paths : dir[p].token = l.new => p = l.path
                                        /\ dir[l.path].token \in {l.new, NoToken})
  BY <1>1 DEF BeingWritten
<1>3. DOMAIN creds' = DOMAIN creds \cup {l.new} /\ NoToken \notin DOMAIN creds'
  BY <1>1, NoTokenIsNone, RenewedTokens
<1>4. pc'[o] = "idle" /\ \A q \in Ops \ {o} : pc'[q] = pc[q]
  BY <1>1, Ends
<1>5. \A q \in Ops : pc'[q] # "committing" /\ writer' # q
  BY <1>4, ConstantsAssumption DEF TokenInv, WriterOK
<1>6. WriterOK' /\ \A q \in Ops : BeingWritten(q)'
  BY <1>5 DEF WriterOK, BeingWritten
<1> HIDE DEF l
<1>7. CredsOK' /\ DirTokensOK'
  BY <1>2, <1>3 DEF TokenInv, CredsOK, DirTokensOK
<1>8. TokenFileAgrees'
  <2>1. ASSUME NEW s \in Active', faults = 0, s.by = "add", dir[s.path].token \in DOMAIN creds'
        PROVE  dir[s.path].token = s.token
    <3>1. s.path \in Paths
      BY <1>1 DEF TypeOK, Active, Row
    <3>2. CASE s.path = l.path /\ s.token = l.new
      BY <1>2, <1>3, <2>1, <3>2
    <3>3. CASE s.path # l.path /\ s \in Active
      BY <1>2, <1>3, <2>1, <3>1, <3>3 DEF TokenInv, TokenFileAgrees
    <3>4. QED
      BY <3>2, <3>3 DEF l
  <2>2. QED
    BY <2>1 DEF TokenFileAgrees
<1>9. QED
  BY <1>6, <1>7, <1>8 DEF TokenInv

(* What is added is one row.                                               *)
LEMMA NewRow ==
    ASSUME NEW p, NEW e, NEW mode, NEW t, NEW by
    PROVE  \E new : /\ AddedRow(p, e, mode, t, by) = registry \cup {new}
                    /\ new.path = p /\ new.token = t /\ new.by = by
<1> DEFINE new == [id |-> Cardinality(registry) + 1, path |-> p, exp |-> e,
                   mode |-> mode, token |-> t, active |-> TRUE, by |-> by]
<1>1. new.path = p /\ new.token = t /\ new.by = by
  OBVIOUS
<1>2. AddedRow(p, e, mode, t, by) = registry \cup {new}
  BY DEF AddedRow
<1> HIDE DEF new
<1>3. QED
  BY <1>1, <1>2

(* The row of a new directory, which had none.                             *)
LEMMA CommitAddTokens ==
    ASSUME Inv, TokenInv, Inv', NEW o \in Ops, CommitAdd(o) PROVE TokenInv'
<1> DEFINE l == loc[o]
<1>1. /\ pc[o] = "committing" /\ Unregistered(l.path) /\ writer' = Null /\ End(o)
      /\ creds' = Renewed(l) /\ registry' = AddedRow(l.path, l.exp, l.mode, l.new, "add")
      /\ UNCHANGED <<issued, dir, faults>>
  BY DEF CommitAdd
<1> HIDE DEF l
<1>2. PICK new : /\ registry' = registry \cup {new}
                 /\ new.path = l.path /\ new.token = l.new
  BY <1>1, NewRow
<1>3. \A s \in Active' : s = new \/ (s \in Active /\ s.path # l.path)
  BY <1>1, <1>2 DEF Active, Unregistered
<1>4. OnePerPath'
  BY <1>2, <1>3 DEF OnePerPath, TokenInv
<1>5. QED
  BY <1>1, <1>2, <1>3, <1>4, Commits DEF l

(* The row of the new token: the only one of its directory.                *)
LEMMA CommitRegenerateTokens ==
    ASSUME Inv, TokenInv, Inv', NEW o \in Ops, CommitRegenerate(o) PROVE TokenInv'
<1> DEFINE l == loc[o]
           f == [r \in registry |-> IF r.id = l.row THEN [r EXCEPT !.token = l.new] ELSE r]
<1>1. /\ pc[o] = "committing" /\ l.cmd = "regenerate" /\ writer' = Null /\ End(o)
      /\ creds' = Renewed(l)
      /\ registry' = {IF r.id = l.row THEN [r EXCEPT !.token = l.new] ELSE r : r \in registry}
      /\ UNCHANGED <<issued, dir, faults>>
  BY DEF CommitRegenerate
<1>2. TypeOK /\ BeingWritten(o)
  BY DEF Inv, TokenInv
<1>3. PICK r0 \in Active : r0.id = l.row /\ r0.path = l.path
  BY <1>1, <1>2 DEF BeingWritten
<1> HIDE DEF l
<1>4. registry' = {f[r] : r \in registry}
  BY <1>1
<1>5. \A r \in registry : /\ f[r].path = r.path
                          /\ f[r].active <=> r.active
                          /\ r.id = l.row => f[r].token = l.new
                          /\ r.id # l.row => f[r] = r
  BY <1>2 DEF TypeOK, Row
<1> HIDE DEF f
<1>6. \A s \in Active' : \E r \in Active : s = f[r]
  BY <1>4, <1>5 DEF Active
<1>7. \A r \in Active : r.id = l.row => r.path = l.path
  BY <1>2, <1>3 DEF TypeOK, Active
<1>8. \A r \in Active : r.path = l.path => r.id = l.row
  BY <1>3 DEF TokenInv, OnePerPath
<1>9. Active \subseteq registry
  BY DEF Active
<1>10. OnePerPath'
  <2>1. ASSUME NEW s \in Active', NEW t \in Active', s.path = t.path PROVE s = t
    <3>1. PICK r \in Active, q \in Active : s = f[r] /\ t = f[q]
      BY <1>6
    <3>2. r.path = q.path
      BY <1>5, <1>9, <2>1, <3>1
    <3>3. r = q
      BY <3>2 DEF TokenInv, OnePerPath
    <3>4. QED
      BY <3>1, <3>3
  <2>2. QED
    BY <2>1 DEF OnePerPath
<1>11. ASSUME NEW s \in Active'
       PROVE  \/ s.path = l.path /\ s.token = l.new
              \/ s.path # l.path /\ s \in Active
  <2>1. PICK r \in Active : s = f[r]
    BY <1>6
  <2>2. r \in registry
    BY <1>9
  <2>3. CASE r.id = l.row
    BY <1>5, <1>7, <2>1, <2>2, <2>3
  <2>4. CASE r.id # l.row
    BY <1>5, <1>8, <2>1, <2>2, <2>4
  <2>5. QED
    BY <2>3, <2>4
<1>12. QED
  BY <1>1, <1>10, <1>11, Commits DEF l

(* A repair leaves token files and credentials alone; the row it writes    *)
(* back is one that it found where it was added, or no longer counts as    *)
(* such.                                                                   *)
LEMMA CommitRepairTokens ==
    ASSUME Inv, TokenInv, Inv', NEW o \in Ops, CommitRepair(o) PROVE TokenInv'
<1> DEFINE l == loc[o]
           f == [r \in registry |-> IF r.id = l.row THEN Repaired(r, l) ELSE r]
<1>1. /\ pc[o] = "repairing" /\ writer = Null /\ End(o)
      /\ \A r \in Active : r.path = l.path => r.id = l.row
      /\ dir' = [dir EXCEPT ![l.path] = Written(dir[l.path], l, l.old, NoToken)]
      /\ UNCHANGED <<creds, issued, writer, faults>>
  BY DEF CommitRepair
<1>2. \/ l.row # 0 /\ registry' = {f[r] : r \in registry}
      \/ l.row = 0 /\ registry' = AddedRow(l.path, l.exp, l.mode, l.old, "repair")
  BY DEF CommitRepair
<1>3. TypeOK /\ TypeOK' /\ LocOK(o)
  BY DEF Inv
<1>4. l.path \in Paths
  BY <1>1, <1>3 DEF LocOK, Whole
<1> HIDE DEF l
<1>5. \A p \in Paths : dir'[p].token = dir[p].token
  <2>1. dir'[l.path].token = dir[l.path].token
    BY <1>1, <1>3, <1>4, WrittenToken DEF TypeOK
  <2>2. QED
    BY <1>1, <1>3, <2>1 DEF TypeOK
<1>6. pc'[o] = "idle" /\ \A q \in Ops \ {o} : pc'[q] = pc[q]
  BY <1>1, <1>3, Ends
<1>7. \A q \in Ops : pc'[q] # "committing" /\ writer' # q
  BY <1>1, <1>6, ConstantsAssumption DEF TokenInv, WriterOK
<1>8. /\ \A s \in Active' : s.path # l.path => s \in Active
      /\ \A s, t \in Active' : s.path = l.path /\ t.path = l.path => s = t
      /\ \A s \in Active' : s.path = l.path /\ s.by = "add" => s \in Active
  <2>1. CASE l.row # 0 /\ registry' = {f[r] : r \in registry}
    <3>1. ASSUME NEW r \in registry, r.id = l.row
          PROVE  /\ f[r].path = l.path
                 /\ f[r].by = "add" => r.active /\ f[r] = r
      <4>1. r \in Row /\ f[r] = Repaired(r, l)
        BY <1>3, <3>1 DEF TypeOK
      <4>2. f[r].path = l.path /\ f[r].by = IF r.by = "add" /\ (~r.active \/ r.path # l.path)
                                             THEN "moved" ELSE r.by
        BY <4>1 DEF Repaired, Row
      <4>3. ASSUME f[r].by = "add" PROVE r.active /\ f[r] = r
        <5>1. r.by = "add" /\ r.active /\ r.path = l.path
          BY <4>1, <4>2, <4>3 DEF Row
        <5>2. f[r] = [r EXCEPT !.path = r.path, !.active = r.active, !.by = r.by]
          BY <4>1, <5>1 DEF Repaired, Row
        <5>3. [r EXCEPT !.path = r.path, !.active = r.active, !.by = r.by] = r
          BY <4>1 DEF Row
        <5>4. QED
          BY <5>1, <5>2, <5>3
      <4>4. QED
        BY <4>2, <4>3
    <3>2. \A r \in registry : r.id # l.row => f[r] = r
      OBVIOUS
    <3> HIDE DEF f
    <3>3. ASSUME NEW s \in Active'
          PROVE  \E r \in registry : s = f[r] /\ (r.id = l.row \/ (s = r /\ r \in Active))
      BY <2>1, <3>2 DEF Active
    <3>4. \A r, q \in registry : r.id = q.id => r = q
      BY <1>3 DEF TypeOK
    <3>5. \A s \in Active' : s.path # l.path => s \in Active
      BY <3>1, <3>3
    <3>6. \A s \in Active' : s.path = l.path =>
             \E r \in registry : s = f[r] /\ r.id = l.row
      BY <1>1, <3>3 DEF Active
    <3>7. QED
      BY <3>1, <3>4, <3>5, <3>6 DEF Active
  <2>2. CASE l.row = 0 /\ registry' = AddedRow(l.path, l.exp, l.mode, l.old, "repair")
    <3>1. PICK new : registry' = registry \cup {new} /\ new.path = l.path /\ new.by = "repair"
      BY <2>2, NewRow
    <3>2. \A r \in Active : r.id # 0
      BY <1>3 DEF TypeOK, Active, Row
    <3>3. \A r \in Active : r.path # l.path
      BY <1>1, <2>2, <3>2
    <3>4. \A s \in Active' : s = new \/ s \in Active
      BY <3>1 DEF Active
    <3>5. QED
      BY <3>1, <3>3, <3>4
  <2>3. QED
    BY <1>2, <2>1, <2>2
<1> HIDE DEF f
<1>9. WriterOK' /\ \A q \in Ops : BeingWritten(q)'
  BY <1>7 DEF WriterOK, BeingWritten
<1>10. CredsOK' /\ DirTokensOK'
  BY <1>1, <1>5 DEF TokenInv, CredsOK, DirTokensOK
<1>11. OnePerPath'
  BY <1>8 DEF TokenInv, OnePerPath
<1>12. TokenFileAgrees'
  <2>1. ASSUME NEW s \in Active', faults = 0, s.by = "add", dir'[s.path].token \in DOMAIN creds
        PROVE  dir'[s.path].token = s.token
    <3>1. s \in Active
      BY <1>8, <2>1
    <3>2. dir'[s.path].token = dir[s.path].token
      BY <1>3, <1>5, <3>1 DEF TypeOK, Active, Row
    <3>3. QED
      BY <2>1, <3>1, <3>2 DEF TokenInv, TokenFileAgrees
  <2>2. QED
    BY <1>1, <2>1 DEF TokenFileAgrees
<1>13. QED
  BY <1>9, <1>10, <1>11, <1>12 DEF TokenInv

(* Every step keeps what is said of tokens.                                *)
LEMMA StepTokens == Inv /\ TokenInv /\ [Next]_vars /\ Inv' => TokenInv'
<1> SUFFICES ASSUME Inv, TokenInv, [Next]_vars, Inv' PROVE TokenInv'
  OBVIOUS
<1>1. CASE UNCHANGED vars
  BY <1>1 DEF vars, TokenInv, WriterOK, CredsOK, DirTokensOK, OnePerPath, BeingWritten,
              TokenFileAgrees, Active
<1>2. ASSUME NEW o \in Ops, NEW e \in Exps,
             \/ \E cmd \in Adding, p \in Paths : StartAdd(o, cmd, e, p)
             \/ \E mode \in Modes : BeginRegenerate(o, e, mode)
             \/ WorktreeRemove(o, e) \/ ExpRemove(o, e)
      PROVE  TokenInv'
  BY <1>2, StartAddTokens, BeginRegenerateTokens, RemovalTokens DEF WorktreeRemove, ExpRemove
<1>3. ASSUME NEW o \in Ops,
             \/ AddWorktree(o) \/ BeginAdd(o) \/ CommitAdd(o) \/ CommitRegenerate(o)
             \/ CheckoutRemove(o) \/ DeleteBranch(o) \/ DeleteRows(o) \/ DeleteFails(o)
             \/ Prune(o) \/ CommitRepair(o) \/ EndsEarly(o) \/ KilledWriting(o)
      PROVE  TokenInv'
  <2>1. CASE CheckoutRemove(o)
    BY <2>1, RemovalTokens DEF CheckoutRemove
  <2>2. QED
    BY <1>3, <2>1, AddWorktreeTokens, BeginAddTokens, CommitAddTokens, CommitRegenerateTokens,
       DeleteBranchTokens, DeleteRowsTokens, FaultTokens, PruneTokens, CommitRepairTokens
<1>4. ASSUME NEW o \in Ops, NEW p \in Paths,
             Stage(o, p) \/ \E key \in BOOLEAN : StartRepair(o, p, key)
      PROVE  TokenInv'
  BY <1>4, StageTokens, StartRepairTokens
<1>5. ASSUME NEW e \in Exps, TokenRevoke(e) PROVE TokenInv'
  BY <1>5, TokenRevokeTokens
<1>6. ASSUME NEW p \in Paths,
             UserDeletes(p) \/ \E q \in Paths, told \in BOOLEAN : Move(p, q, told)
      PROVE  TokenInv'
  BY <1>6, UserTokens
<1>7. QED
  BY <1>1, <1>2, <1>3, <1>4, <1>5, <1>6 DEF Next

(* As long as nothing fails and no directory is moved or deleted, a        *)
(* directory whose row is where it was added never holds a live token      *)
(* other than its row's: whatever restores, regenerations, removals and    *)
(* repairs overlap.                                                        *)
THEOREM TokenFilesAgree == Spec => []TokenFileAgrees
<1>1. TokenInv => TokenFileAgrees
  BY DEF TokenInv
<1>2. QED
  BY <1>1, InitTokens, StepTokens, Invariance, PTL DEF Spec
=============================================================================
