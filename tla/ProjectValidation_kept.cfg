SPECIFICATION Spec
CONSTANTS
  Ops = {o1, o2, o3}
  Runtimes = {free, r1}
  FreeRuntimes = {free}
  Metas = {m1, m2}
  None = none
SYMMETRY Symmetry
CHECK_DEADLOCK FALSE
INVARIANTS
  ActiveValidationKept
