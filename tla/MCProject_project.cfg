SPECIFICATION ProjectSpec
CONSTANTS
    Ops = {o1, o2, o3}
    Runtimes = {free, r1}
    FreeRuntimes = {free}
    Metas = {m1, m2}
    None = none
    Calls = {o1, o2, o3}
    Experiments = {e1}
    Files = {f1, f2}
    NoExperiment = NoExperiment
    Concurrent = FALSE
    MaxAttempts = 2
    Exps = {x1, x2}
    AnnotationIds = {n1}
    ListedSets = {{x2}}
    Admin = Admin
    NoExp = NoExp
SYMMETRY Sym
CHECK_DEADLOCK FALSE
INVARIANTS
    TypeOK
    VersionsInOrder
    RunningReconcilable
    ValidHasActive
    ActiveValidationPassed
    ReferencedSecretsKept
    StoreTypeOK
    BytesKept
    ExperimentIntact
    TrashRecorded
    VisibleWithinBounds
    ListedIsShown
    SearchShowsNoMore
    RunnerTypeOK
    SurvivorsExplained
    PassedIsMeasured
