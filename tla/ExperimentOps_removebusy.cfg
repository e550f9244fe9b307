SPECIFICATION Spec
CONSTANTS
  Exps = {e1}
  FreeExps = {}
  Ops = {o1, o2}
  UserCommits = {}
  Base = base
  None = none
  Commands = {"run", "exp archive", "exp remove"}
  SlowOps = FALSE
PROPERTY
  RemovesOnlyIdleExperiments
SYMMETRY Symmetry
CHECK_DEADLOCK FALSE
