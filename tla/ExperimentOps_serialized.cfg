SPECIFICATION Spec
CONSTANTS
  Exps = {e1}
  FreeExps = {}
  Ops = {o1, o2}
  UserCommits = {}
  Base = base
  None = none
  Commands = {"run"}
  SlowOps = TRUE
INVARIANT
  RunSubmitSerialized
SYMMETRY Symmetry
CHECK_DEADLOCK FALSE
