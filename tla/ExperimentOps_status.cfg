SPECIFICATION Spec
CONSTANTS
  Exps = {e1}
  FreeExps = {}
  Ops = {o1, o2}
  UserCommits = {}
  Base = base
  None = none
  Commands = {"run", "status"}
  SlowOps = FALSE
INVARIANT
  LiveRunsNotInterrupted
SYMMETRY Symmetry
CHECK_DEADLOCK FALSE
