SPECIFICATION FairSpec
CONSTANTS
    f1 = f1
    f2 = f2
    g1 = g1
    t1 = t1
    t2 = t2
    NoGroup = NoGroup
    Filters <- MCOneFilter
    Groups <- MCGroups
    GroupOf <- MCGroupOf
    Recommended <- MCOneFilter
    BundledMetadata <- MCOneFilter
    LocalCopies = {f1}
    Tasks <- MCOneTask
    Ops = {"enable", "group", "update", "reload"}
    Faults = {"network", "storage", "crash"}
    Retirable = {}
    MaxVersion = 1
    MaxRuns = 2
INVARIANTS
    EnabledIsLoaded
PROPERTIES
    OperationsEnd
    DisabledLeavesEngine
CHECK_DEADLOCK FALSE
