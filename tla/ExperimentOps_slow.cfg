SPECIFICATION Spec
CONSTANTS
  Exps = {e1}
  FreeExps = {}
  Ops = {o1, o2}
  UserCommits = {u1}
  Base = base
  None = none
  Commands = {"rerun", "exp archive", "exp remove"}
  SlowOps = TRUE
INVARIANTS
  TypeOK
  SubmissionMatchesStatus
  ScopeHeld
PROPERTIES
  ResultsFinal
  ImplementsLifecycle
SYMMETRY Symmetry
CHECK_DEADLOCK FALSE
