SPECIFICATION FairSpec
CONSTANTS
  Exps = {e1, e2}
  FreeExps = {e2}
  Ops = {o1, o2}
  UserCommits = {}
  Base = base
  None = none
  Commands = {"run", "submit", "project archive"}
  SlowOps = FALSE
INVARIANTS
  RunSubmitSerialized
  LiveRunsNotInterrupted
  RunsOnlyWhileOpen
  LatestConsistent
PROPERTIES
  LockReclaimable
