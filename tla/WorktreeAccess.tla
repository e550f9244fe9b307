--------------------------- MODULE WorktreeAccess ---------------------------
(***************************************************************************)
(* Who may act from which directory.  Creating an experiment, restoring    *)
(* its worktree and checking it out each add a git worktree, and then, in  *)
(* one transaction, a token, a marker and token file in the directory and  *)
(* a row of path_registry.  Tokens are revoked and regenerated, the        *)
(* directories removed, moved by the user and registered again by context  *)
(* repair.  A command run in a directory is accepted when marker,          *)
(* registry, token file and credential agree.                              *)
(*                                                                         *)
(* What an invocation reads before its transaction is in loc and may be    *)
(* old by then.  The files are written inside the transaction: whoever has *)
(* begun to write holds the database's write lock until the end.           *)
(***************************************************************************)
EXTENDS Naturals, FiniteSets

CONSTANTS
    Ops,        \* CLI processes; each runs one invocation after another
    Exps,       \* experiments
    Paths,      \* directories (none inside another)
    Null,
    RepairMeetsRemoval,  \* TRUE: context repair and removals of an experiment (of marker or
                         \* row) may overlap
    MaxTokens,  \* bound: tokens issued
    MaxRows,    \* bound: rows of path_registry
    MaxFaults   \* bound: directories moved or deleted, invocations ended early

ASSUME ConstantsAssumption ==
    /\ Null \notin Ops \cup Exps \cup Paths
    /\ RepairMeetsRemoval \in BOOLEAN
    /\ MaxTokens \in Nat \ {0} /\ MaxRows \in Nat \ {0}
    /\ MaxFaults \in Nat

VARIABLES
    wt,        \* of an experiment: none (no row yet), active, removed, gone
    at,        \* experiments.worktree_path
    branches,  \* experiments whose branch is there
    creds,     \* token rows, by token; revoked ones stay
    issued,    \* tokens issued so far, those of failed transactions included
    registry,  \* rows of path_registry; removed ones stay
    dir,       \* what is at a path
    git,       \* git's records of worktrees: path and branch
    writer,    \* who holds the write lock after writing files
    faults,    \* of the bounded kind, so far
    pc, loc

vars == <<wt, at, branches, creds, issued, registry, dir, git, writer, faults, pc, loc>>
tables == <<wt, at, creds, registry>>

Tokens == 1..MaxTokens
NoToken == 0
Modes == {"worktree", "inspection"}
Credential == [exp : Exps, mode : Modes, path : Paths, active : BOOLEAN]
Row == [id : 1..MaxRows, path : Paths, exp : Exps, mode : Modes,
        token : Tokens, active : BOOLEAN,
        by : {"add", "moved", "repair"}]  \* added, and by whom; moved: put there by a repair
Dir == [exp : Exps \cup {Null}, mode : Modes \cup {Null}, gitpath : Paths \cup {Null},
        marker : Tokens \cup {NoToken}, token : Tokens \cup {NoToken}]
NoDir == [exp |-> Null, mode |-> Null, gitpath |-> Null,
          marker |-> NoToken, token |-> NoToken]
Staged == [path : Paths, dir : Dir]
NoLoc == [cmd |-> "none", exp |-> Null, mode |-> Null, path |-> Null, old |-> NoToken,
          new |-> NoToken, row |-> 0, paths |-> {}, staged |-> {}]
Adding == {"create", "restore", "checkout"}
Removing == {"worktree remove", "checkout remove", "exp remove"}
Loc == [cmd : {"none", "regenerate", "repair"} \cup Adding \cup Removing,
        exp : Exps \cup {Null}, mode : Modes \cup {Null}, path : Paths \cup {Null},
        old : Tokens \cup {NoToken}, new : Tokens \cup {NoToken},
        row : 0..MaxRows, paths : SUBSET Paths, staged : SUBSET Staged]

TypeOK ==
    /\ wt \in [Exps -> {"none", "active", "removed", "gone"}]
    /\ at \in [Exps -> Paths \cup {Null}]
    /\ branches \subseteq Exps
    /\ DOMAIN creds \subseteq Tokens /\ \A t \in DOMAIN creds : creds[t] \in Credential
    /\ issued \in 0..MaxTokens
    /\ registry \subseteq Row
    /\ \A r, s \in registry : r.id = s.id => r = s
    /\ dir \in [Paths -> Dir]
    /\ git \subseteq [path : Paths, branch : Exps \cup {Null}]
    /\ writer \in Ops \cup {Null} /\ faults \in 0..MaxFaults
    /\ pc \in [Ops -> {"idle", "adding", "opening", "committing", "staging", "deleting",
                       "restoring", "pruning", "repairing"}]
    /\ loc \in [Ops -> Loc]

Init ==
    /\ wt = [e \in Exps |-> "none"] /\ at = [e \in Exps |-> Null] /\ branches = {}
    /\ creds = [t \in {} |-> Null] /\ issued = 0 /\ registry = {}
    /\ dir = [p \in Paths |-> NoDir] /\ git = {} /\ writer = Null /\ faults = 0
    /\ pc = [o \in Ops |-> "idle"] /\ loc = [o \in Ops |-> NoLoc]

Goto(o, label) == pc' = [pc EXCEPT ![o] = label]
End(o) == Goto(o, "idle") /\ loc' = [loc EXCEPT ![o] = NoLoc]
Fault == faults < MaxFaults /\ faults' = faults + 1
Present(p) == dir[p] # NoDir
Active == {r \in registry : r.active}
ActiveTokens(e, mode) ==
    {t \in DOMAIN creds : creds[t].active /\ creds[t].exp = e /\ creds[t].mode = mode}

(***************************************************************************)
(* verify_raw_credential and detect_context: the directory's marker agrees *)
(* with its registry row, and its token is active and was made for the     *)
(* row's experiment and mode and for this path.                            *)
(***************************************************************************)
Verifies(t, e, mode) == t \in ActiveTokens(e, mode)

AcceptedBy(r) ==
    LET d == dir[r.path] IN
    /\ r.active /\ d.marker # NoToken /\ d.mode = r.mode
    /\ Verifies(d.token, r.exp, r.mode) /\ creds[d.token].path = r.path

(***************************************************************************)
(* Adding a directory.  What is read first: an experiment that does not    *)
(* exist yet, one without a worktree, or any; and a free path.             *)
(***************************************************************************)
NewContextPath(p) == ~Present(p) /\ \A r \in Active : r.path # p

StartAdd(o, cmd, e, p) ==
    LET mode == IF cmd = "checkout" THEN "inspection" ELSE "worktree" IN
    /\ pc[o] = "idle" /\ NewContextPath(p)
    /\ CASE cmd = "create"   -> wt[e] = "none" /\ \A q \in Ops : loc[q].exp # e
         [] cmd = "restore"  -> wt[e] = "removed"
         [] cmd = "checkout" -> wt[e] \in {"active", "removed"}
    /\ \E t \in (IF cmd = "restore" /\ ActiveTokens(e, mode) # {}
                 THEN ActiveTokens(e, mode) ELSE {NoToken}) :
          loc' = [loc EXCEPT ![o] = [NoLoc EXCEPT !.cmd = cmd, !.exp = e, !.mode = mode,
                                                  !.path = p, !.old = t]]
    /\ Goto(o, "adding")
    /\ UNCHANGED <<tables, branches, issued, dir, git, writer, faults>>

(* git worktree add: git wants an unused path and, unless detached, a      *)
(* branch that no worktree it knows has checked out.                       *)
GitAdds(p, branch) ==
    /\ ~Present(p) /\ \A w \in git : w.path # p /\ (branch # Null => w.branch # branch)
    /\ git' = git \cup {[path |-> p, branch |-> branch]}

AddWorktree(o) ==
    LET l == loc[o] IN
    /\ pc[o] = "adding"
    /\ GitAdds(l.path, IF l.cmd = "checkout" THEN Null ELSE l.exp)
    /\ l.cmd = "restore" => l.exp \in branches
    /\ branches' = IF l.cmd = "create" THEN branches \cup {l.exp} ELSE branches
    /\ dir' = [dir EXCEPT ![l.path] = [NoDir EXCEPT !.gitpath = l.path]]
    /\ Goto(o, "opening")
    /\ UNCHANGED <<tables, issued, writer, loc, faults>>

(***************************************************************************)
(* The transaction: the token's row (one active worktree token per         *)
(* experiment, the old one aside), then marker and token file, then git's  *)
(* exclude file, which needs a directory git knows, then the other rows.   *)
(* The files show before the commit does.                                  *)
(***************************************************************************)
OneActiveToken(l) ==
    l.mode = "worktree" => ActiveTokens(l.exp, "worktree") \subseteq {l.old}

Written(d, l, marker, token) ==
    [d EXCEPT !.exp = IF marker = NoToken THEN @ ELSE l.exp,
              !.mode = IF marker = NoToken THEN @ ELSE l.mode,
              !.marker = IF marker = NoToken THEN @ ELSE marker,
              !.token = IF token = NoToken THEN @ ELSE token]

BeginAdd(o) ==
    LET l == loc[o]  new == issued + 1 IN
    /\ pc[o] = "opening" /\ writer = Null /\ issued < MaxTokens
    /\ OneActiveToken(l)
    /\ issued' = new
    /\ dir' = [dir EXCEPT ![l.path] = Written(@, l, new, new)]
    /\ writer' = o
    /\ loc' = [loc EXCEPT ![o].new = new]
    /\ Goto(o, "committing")
    /\ UNCHANGED <<tables, branches, git, faults>>

Linked(p) == \E w \in git : w.path = dir[p].gitpath
Unregistered(p) == \A r \in Active : r.path # p

WithRevoked(tokens) ==
    [t \in DOMAIN creds |-> [creds[t] EXCEPT !.active = @ /\ t \notin tokens]]

(* The old token revoked and the new one in.                               *)
Renewed(l) ==
    [t \in DOMAIN creds \cup {l.new} |->
        IF t = l.new
        THEN [exp |-> l.exp, mode |-> l.mode, path |-> l.path, active |-> TRUE]
        ELSE WithRevoked({l.old})[t]]

(* Mutant of AddedRow: the id of a removed row is used again.              *)
ReusedRow(p, e, mode, t, by) ==
    registry \cup {[id |-> Cardinality(Active) + 1, path |-> p, exp |-> e,
                    mode |-> mode, token |-> t, active |-> TRUE, by |-> by]}

AddedRow(p, e, mode, t, by) ==
    registry \cup {[id |-> Cardinality(registry) + 1, path |-> p, exp |-> e,
                    mode |-> mode, token |-> t, active |-> TRUE, by |-> by]}

CommitAdd(o) ==
    LET l == loc[o] IN
    /\ pc[o] = "committing" /\ l.cmd \in Adding
    /\ Linked(l.path) /\ Unregistered(l.path) /\ Cardinality(registry) < MaxRows
    /\ creds' = Renewed(l)
    /\ registry' = AddedRow(l.path, l.exp, l.mode, l.new, "add")
    /\ IF l.cmd = "create" \/ (l.cmd = "restore" /\ wt[l.exp] # "gone")
       THEN wt' = [wt EXCEPT ![l.exp] = "active"] /\ at' = [at EXCEPT ![l.exp] = l.path]
       ELSE UNCHANGED <<wt, at>>
    /\ writer' = Null /\ End(o)
    /\ UNCHANGED <<branches, issued, dir, git, faults>>

(***************************************************************************)
(* Revoking tokens of an experiment (one, those of a mode, or all), and    *)
(* regenerating the latest of a mode, each in one transaction.  The new    *)
(* token is written before the marker, which must be there.                *)
(***************************************************************************)
TokenRevoke(e) ==
    /\ writer = Null /\ wt[e] \in {"active", "removed"}
    /\ LET tokens(mode) == ActiveTokens(e, mode)
           all == tokens("worktree") \cup tokens("inspection") IN
       \E some \in {all} \cup {tokens(m) : m \in Modes} \cup {{t} : t \in all} :
          some # {} /\ creds' = WithRevoked(some)
    /\ UNCHANGED <<wt, at, branches, issued, registry, dir, git, writer, pc, loc, faults>>

(* Mutant of Rewritten: the token file is left as it was.                  *)
Relabelled(d, new) == [d EXCEPT !.marker = new]

Rewritten(d, new) == [d EXCEPT !.marker = new, !.token = new]

BeginRegenerate(o, e, mode) ==
    LET tokens == ActiveTokens(e, mode)
        old == CHOOSE t \in tokens : \A u \in tokens : u <= t    \* the latest
        new == issued + 1 IN
    /\ pc[o] = "idle" /\ writer = Null /\ issued < MaxTokens
    /\ wt[e] \in {"active", "removed"} /\ tokens # {}
    /\ \E r \in Active :
          LET l == [NoLoc EXCEPT !.cmd = "regenerate", !.exp = e, !.mode = mode,
                                 !.path = r.path, !.old = old, !.new = new, !.row = r.id] IN
          /\ r.token = old
          /\ \/ /\ dir[r.path].marker # NoToken
                /\ dir' = [dir EXCEPT ![r.path] = Rewritten(@, new)]
                /\ writer' = o /\ Goto(o, "committing")
                /\ loc' = [loc EXCEPT ![o] = l]
             \/ /\ dir[r.path].marker = NoToken      \* the marker cannot be read
                /\ dir' = [dir EXCEPT ![r.path].token = new]
                /\ UNCHANGED <<writer, pc, loc>>
             \/ /\ dir' = [dir EXCEPT ![r.path].token = new]     \* killed in between
                /\ UNCHANGED <<writer, pc, loc>>
    /\ issued' = new
    /\ UNCHANGED <<tables, branches, git, faults>>

CommitRegenerate(o) ==
    LET l == loc[o] IN
    /\ pc[o] = "committing" /\ l.cmd = "regenerate" /\ Linked(l.path)
    /\ creds' = Renewed(l)
    /\ registry' = {IF r.id = l.row THEN [r EXCEPT !.token = l.new] ELSE r : r \in registry}
    /\ writer' = Null /\ End(o)
    /\ UNCHANGED <<wt, at, branches, issued, dir, git, faults>>

(***************************************************************************)
(* Removing a worktree, a checkout or an archived experiment: what to take *)
(* is read, the directories are moved to the trash one by one, and a       *)
(* transaction revokes the token that was read (an experiment's: all) and  *)
(* marks the rows.  If that fails the directories come back.               *)
(***************************************************************************)
Exists(e) == wt[e] \in {"active", "removed"}

Meets(e, cmds) == \E o \in Ops : loc[o].exp = e /\ loc[o].cmd \in cmds

(* The experiments of a repair: its marker's and its row's.                *)
Repairs(o) == {loc[o].exp} \cup {r.exp : r \in {s \in registry : s.id = loc[o].row}}

StartRemove(o, l) ==
    /\ pc[o] = "idle" /\ Exists(l.exp)
    /\ (\E p \in Ops : loc[p].cmd = "repair" /\ l.exp \in Repairs(p)) => RepairMeetsRemoval
    /\ loc' = [loc EXCEPT ![o] = l] /\ Goto(o, "staging")
    /\ UNCHANGED <<tables, branches, issued, dir, git, writer, faults>>

WorktreeRemove(o, e) ==
    LET rows == {r \in Active : r.exp = e /\ r.mode = "worktree"}
        tokens == ActiveTokens(e, "worktree") IN
    \E t \in IF tokens = {} THEN {NoToken} ELSE tokens,
       p \in IF rows = {} THEN {at[e]} ELSE {r.path : r \in rows} :
        StartRemove(o, [NoLoc EXCEPT !.cmd = "worktree remove", !.exp = e,
                                     !.mode = "worktree", !.old = t, !.paths = {p} \ {Null}])

CheckoutRemove(o) ==
    \E r \in {s \in Active : s.mode = "inspection"} :
        StartRemove(o, [NoLoc EXCEPT !.cmd = "checkout remove", !.exp = r.exp,
                                     !.mode = r.mode, !.old = r.token, !.row = r.id,
                                     !.paths = {r.path}])

ExpRemove(o, e) ==
    StartRemove(o, [NoLoc EXCEPT !.cmd = "exp remove", !.exp = e,
                                 !.paths = {r.path : r \in {s \in Active : s.exp = e}}])

Stage(o, p) ==
    /\ pc[o] = "staging" /\ p \in loc[o].paths
    /\ dir' = [dir EXCEPT ![p] = NoDir]
    /\ loc' = [loc EXCEPT ![o].paths = @ \ {p},
                          ![o].staged = @ \cup ({[path |-> p, dir |-> dir[p]]} \ {[path |-> p, dir |-> NoDir]})]
    /\ UNCHANGED <<tables, branches, issued, git, writer, pc, faults>>

DeleteBranch(o) ==
    /\ pc[o] = "staging" /\ loc[o].paths = {}
    /\ branches' = IF loc[o].cmd = "exp remove" THEN branches \ {loc[o].exp} ELSE branches
    /\ Goto(o, "deleting")
    /\ UNCHANGED <<tables, issued, dir, git, writer, loc, faults>>

RevokedBy(l) ==
    IF l.cmd = "exp remove" THEN {t \in DOMAIN creds : creds[t].exp = l.exp} ELSE {l.old}

(* Mutants of RemovedBy: only the row of the token that was read; with a   *)
(* checkout, every row of its experiment.                                  *)
RemovedByToken(l) == {r \in Active : r.exp = l.exp /\ (l.old = r.token \/ l.cmd = "exp remove")}
RemovedByExp(l) == {r \in Active : r.exp = l.exp}

RemovedBy(l) ==
    CASE l.cmd = "worktree remove" -> {r \in Active : r.exp = l.exp /\ r.mode = "worktree"}
      [] l.cmd = "checkout remove" -> {r \in Active : r.id = l.row}
      [] l.cmd = "exp remove"      -> {r \in Active : r.exp = l.exp}

DeleteRows(o) ==
    LET l == loc[o] IN
    /\ pc[o] = "deleting" /\ writer = Null
    /\ creds' = WithRevoked(RevokedBy(l))
    /\ registry' = {IF r \in RemovedBy(l) THEN [r EXCEPT !.active = FALSE] ELSE r :
                       r \in registry}
    /\ IF l.cmd = "checkout remove" \/ ~Exists(l.exp)
       THEN UNCHANGED <<wt, at>>
       ELSE /\ wt' = [wt EXCEPT ![l.exp] = IF l.cmd = "exp remove" THEN "gone" ELSE "removed"]
            /\ at' = [at EXCEPT ![l.exp] = Null]
    /\ Goto(o, "pruning")
    /\ UNCHANGED <<branches, issued, dir, git, writer, loc, faults>>

DeleteFails(o) ==
    LET l == loc[o]
        back == {s \in l.staged : ~Present(s.path)} IN
    /\ Fault
    /\ pc[o] = "deleting"
    /\ branches' = IF l.cmd = "exp remove" THEN branches \cup {l.exp} ELSE branches
    /\ dir' = [p \in Paths |-> IF \E s \in back : s.path = p
                               THEN (CHOOSE s \in back : s.path = p).dir ELSE dir[p]]
    /\ End(o)
    /\ UNCHANGED <<tables, issued, git, writer>>

Prune(o) ==
    /\ pc[o] = "pruning"
    /\ git' = {w \in git : Present(w.path)}
    /\ End(o)
    /\ UNCHANGED <<tables, branches, issued, dir, writer, faults>>

(***************************************************************************)
(* Context repair: registers a marked directory at the path where it now   *)
(* is.  Read first: the row for the marker, and, without a key, whether    *)
(* its own token allows it.                                                *)
(***************************************************************************)
RowsForMarker(d) ==
    LET named == {r \in Active : r.token = d.marker}
        same == {r \in Active : r.exp = d.exp /\ r.mode = d.mode} IN
    IF named # {} THEN named ELSE same

SelfRepairAllowed(p, r) ==
    LET d == dir[p] IN
    /\ Verifies(d.token, d.exp, d.mode) /\ d.token = d.marker
    /\ r.path = p \/ ~Present(r.path)
    /\ \E w \in git : /\ w.path = d.gitpath
                      /\ w.branch = IF d.mode = "worktree" THEN d.exp ELSE Null
    /\ IF d.mode = "worktree" THEN wt[d.exp] # "gone" ELSE creds[d.token].path = r.path

StartRepair(o, p, key) ==
    LET d == dir[p]
        l == [NoLoc EXCEPT !.cmd = "repair", !.exp = d.exp, !.mode = d.mode, !.path = p,
                           !.old = d.marker] IN
    /\ pc[o] = "idle" /\ d.marker # NoToken
    /\ Meets(d.exp, Removing) => RepairMeetsRemoval
    /\ \/ \E r \in RowsForMarker(d) :
             /\ key \/ SelfRepairAllowed(p, r)
             /\ Meets(r.exp, Removing) => RepairMeetsRemoval
             /\ \A s \in Active : s.path = p => s = r
             /\ loc' = [loc EXCEPT ![o] = [l EXCEPT !.row = r.id]]
       \/ /\ RowsForMarker(d) = {} /\ key /\ Unregistered(p)
          /\ loc' = [loc EXCEPT ![o] = l]
    /\ Goto(o, "repairing")
    /\ UNCHANGED <<tables, branches, issued, dir, git, writer, faults>>

(* The row as it was read is written back as an active one.                *)
Repaired(r, l) ==
    [r EXCEPT !.path = l.path, !.active = TRUE,
              !.by = IF @ = "add" /\ (~r.active \/ r.path # l.path) THEN "moved" ELSE @]

CommitRepair(o) ==
    LET l == loc[o] IN
    /\ pc[o] = "repairing" /\ writer = Null
    /\ \A r \in Active : r.path = l.path => r.id = l.row
    /\ IF l.row # 0
       THEN registry' = {IF r.id = l.row THEN Repaired(r, l) ELSE r : r \in registry}
       ELSE /\ Cardinality(registry) < MaxRows
            /\ registry' = AddedRow(l.path, l.exp, l.mode, l.old, "repair")
    /\ dir' = [dir EXCEPT ![l.path] = Written(@, l, l.old, NoToken)]
    /\ End(o)
    /\ UNCHANGED <<wt, at, creds, branches, issued, git, writer, faults>>

(***************************************************************************)
(* Users move directories, telling git (worktree move) or not, and delete  *)
(* them, but not those an invocation works on, or an experiment's while it *)
(* is being removed.  An invocation may end early: on an error, of git or  *)
(* of the database, or killed, and then with the marker but no token       *)
(* written.                                                                *)
(***************************************************************************)
InUse(p) ==
    \/ Meets(dir[p].exp, Removing)
    \/ \E o \in Ops : p = loc[o].path \/ p \in loc[o].paths \/ \E s \in loc[o].staged : s.path = p

Move(p, q, told) ==
    /\ Fault
    /\ Present(p) /\ ~Present(q) /\ ~InUse(p) /\ ~InUse(q)
    /\ told => Linked(p)
    /\ dir' = [dir EXCEPT ![q] = IF told THEN [dir[p] EXCEPT !.gitpath = q] ELSE dir[p],
                          ![p] = NoDir]
    /\ git' = IF told THEN {IF w.path = dir[p].gitpath THEN [w EXCEPT !.path = q] ELSE w : w \in git}
              ELSE git
    /\ UNCHANGED <<tables, branches, issued, writer, pc, loc>>

UserDeletes(p) ==
    /\ Fault
    /\ Present(p) /\ ~InUse(p) /\ dir' = [dir EXCEPT ![p] = NoDir]
    /\ UNCHANGED <<tables, branches, issued, git, writer, pc, loc>>

EndsEarly(o) ==
    /\ Fault
    /\ pc[o] # "idle" /\ End(o)
    /\ writer' = IF writer = o THEN Null ELSE writer
    /\ UNCHANGED <<tables, branches, issued, dir, git>>

KilledWriting(o) ==
    LET l == loc[o]  new == issued + 1 IN
    /\ Fault
    /\ pc[o] = "opening" /\ writer = Null /\ issued < MaxTokens /\ OneActiveToken(l)
    /\ issued' = new
    /\ dir' = [dir EXCEPT ![l.path] = Written(@, l, new, NoToken)]
    /\ End(o)
    /\ UNCHANGED <<tables, branches, git, writer>>

Next ==
    \/ \E o \in Ops, e \in Exps :
          \/ \E cmd \in Adding, p \in Paths : StartAdd(o, cmd, e, p)
          \/ \E mode \in Modes : BeginRegenerate(o, e, mode)
          \/ WorktreeRemove(o, e) \/ ExpRemove(o, e)
    \/ \E o \in Ops :
          \/ AddWorktree(o) \/ BeginAdd(o) \/ CommitAdd(o) \/ CommitRegenerate(o)
          \/ CheckoutRemove(o) \/ DeleteBranch(o) \/ DeleteRows(o) \/ DeleteFails(o)
          \/ Prune(o) \/ CommitRepair(o) \/ EndsEarly(o) \/ KilledWriting(o)
          \/ \E p \in Paths : Stage(o, p) \/ \E key \in BOOLEAN : StartRepair(o, p, key)
    \/ \E e \in Exps : TokenRevoke(e)
    \/ \E p, q \in Paths, told \in BOOLEAN : Move(p, q, told)
    \/ \E p \in Paths : UserDeletes(p)

Spec == Init /\ [][Next]_vars

-----------------------------------------------------------------------------
(* Once an experiment's worktree_state is removed, no directory is         *)
(* accepted as its worktree, whatever restores, regenerations, moves and   *)
(* other removals came between the removal's reading and its transaction   *)
(* (verify_raw_credential, detect_context); an administrator may register  *)
(* one that a failed removal put back.                                     *)
RemovedIsRefused ==
    \A r \in registry :
        AcceptedBy(r) /\ r.mode = "worktree" /\ r.by # "repair" => wt[r.exp] # "removed"

(* An experiment whose worktree_state is active has an active row of       *)
(* path_registry for it, although a removal that read an earlier worktree  *)
(* may come after a restore.                                               *)
ActiveWorktreeRegistered ==
    \A e \in Exps : wt[e] = "active" =>
        \E r \in Active : r.exp = e /\ r.mode = "worktree"

(* As long as no invocation failed and no directory was moved, the         *)
(* directory of a row holds the row's token, or one being written          *)
(* (write_token before the commit, in create, checkout, restore and        *)
(* regenerate).  Only of rows that are where they were added: repair goes  *)
(* by the marker, which may be older than the token file.                  *)
TokenFileAgrees ==
    \A r \in Active :
        LET d == dir[r.path] IN
        faults = 0 /\ r.by = "add" /\ d.token \in DOMAIN creds => d.token = r.token

(* Said in docs/spec_storage_auth_context.md: a moved directory that       *)
(* context repair has registered is usable again: a registered directory   *)
(* that holds its row's token, not revoked, is accepted.                   *)
RegisteredIsAccepted ==
    \A r \in Active :
        /\ dir[r.path].marker = r.token /\ dir[r.path].token = r.token
        /\ r.token \in DOMAIN creds /\ creds[r.token].active
        => AcceptedBy(r)
=============================================================================
