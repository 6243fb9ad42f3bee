SPECIFICATION Spec
CONSTANTS
    f1 = f1
    f2 = f2
    g1 = g1
    t1 = t1
    t2 = t2
    NoGroup = NoGroup
    Filters <- MCOneFilter
    Groups <- MCGroups
    GroupOf <- MCGroupOf
    Recommended <- MCOneFilter
    BundledMetadata <- MCOneFilter
    LocalCopies = {}
    Tasks <- MCTasks
    Ops = {"group", "update"}
    Faults = {"network"}
    Retirable = {}
    MaxVersion = 2
    MaxRuns = 2
SYMMETRY TaskSymmetry
INVARIANTS
    EnabledIsApplied
    DisabledIsNotApplied
    VersionDescribesContent
CHECK_DEADLOCK FALSE
