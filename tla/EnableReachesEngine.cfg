SPECIFICATION Spec
CONSTANTS
    f1 = f1
    f2 = f2
    g1 = g1
    t1 = t1
    t2 = t2
    NoGroup = NoGroup
    Filters <- MCOneFilter
    Groups <- MCGroups
    GroupOf <- MCGroupOf
    Recommended <- MCOneFilter
    BundledMetadata <- MCOneFilter
    LocalCopies = {}
    Tasks <- MCTasks
    Ops = {"enable"}
    Faults = {}
    Retirable = {}
    MaxVersion = 1
    MaxRuns = 1
INVARIANTS
    EnabledIsApplied
CHECK_DEADLOCK FALSE
