SPECIFICATION SourceSpec
CONSTANTS
    Processes = {o1, o2}
    Sources = {s1, s2, s3}
    First = s1
    Trees = {t1, t2}
    FirstTree = t1
    Experiments = {e1}
    NoSource = NoSource
    MaxVersions = 2
CHECK_DEADLOCK FALSE
INVARIANTS
    DefaultsExist
