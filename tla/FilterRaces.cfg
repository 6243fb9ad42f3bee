SPECIFICATION Spec
CONSTANTS
    f1 = f1
    f2 = f2
    g1 = g1
    t1 = t1
    t2 = t2
    NoGroup = NoGroup
    Filters <- MCFilters
    Groups <- MCGroups
    GroupOf <- MCGroupOf
    Recommended <- MCOneFilter
    BundledMetadata <- MCFilters
    LocalCopies = {f1}
    Tasks <- MCTasks
    Ops = {"enable", "group"}
    Faults = {"network"}
    Retirable = {f2}
    MaxVersion = 1
    MaxRuns = 0
SYMMETRY TaskSymmetry
INVARIANTS
    TypeOK
    EnabledIsLoaded
PROPERTIES
    UserOffStays
    LastingIsKept
CHECK_DEADLOCK FALSE
