SPECIFICATION CatalogueSpec
CONSTANTS
    a1 = a1
    a2 = a2
    a3 = a3
    Processes = {o1, o2}
    Sources = {a1, a2, a3}
    First = a1
    Trees = {t1, t2}
    FirstTree = t1
    Experiments = {e1}
    NoSource = NoSource
    MaxVersions = 2
    Ops = {o1, o2}
    Exps = {e1}
    Paths = {a2, a3}
    Null = Null
    RepairMeetsRemoval = FALSE
    MaxTokens = 3
    MaxRows = 2
    MaxFaults = 1
    Ranked = 2
    Rewards = {1, 2}
    Times = {1, 2}
    MaxConfigs = 2
    MaxRuns = 3
SYMMETRY Sym
INVARIANTS
    SourceTypeOK
    RefKept
    RefDefaultsExist
    OneActivePerTree
    LatestRefDefaultActive
    TypeOK
    RemovedIsRefused
    ActiveWorktreeRegistered
    TokenFileAgrees
    RankingsAgree
    BestIsGlobal
CHECK_DEADLOCK FALSE
