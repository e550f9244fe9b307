SPECIFICATION Spec
CONSTANTS
  Exps = {e1}
  FreeExps = {}
  Ops = {o1, o2, o3}
  UserCommits = {}
  Base = base
  None = none
  Commands = {"submit", "rerun", "run archive", "run remove", "status"}
  SlowOps = FALSE
INVARIANTS
  FinalRunPassed
  FinalRemovalRecorded
PROPERTIES
  FinalRemovalWritten
SYMMETRY Symmetry
CHECK_DEADLOCK FALSE
