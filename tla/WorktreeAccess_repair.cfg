SPECIFICATION Spec
CONSTANTS
    Ops = {o1, o2}
    Exps = {e1}
    Paths = {p1, p2}
    Null = Null
    RepairMeetsRemoval = FALSE
    MaxTokens = 3
    MaxRows = 2
    MaxFaults = 1
SYMMETRY Sym
CHECK_DEADLOCK FALSE
INVARIANT RegisteredIsAccepted
