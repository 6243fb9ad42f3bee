CONSTANTS
    f1 = f1
    f2 = f2
    f3 = f3
    g1 = g1
    g2 = g2
    host = host
    parent = parent
    neighbour = neighbour
    p1 = p1
    p2 = p2
    r1 = r1
    r2 = r2
    s1 = s1
    s2 = s2
    u1 = u1
    u2 = u2
    a1 = a1
    t1 = t1
    t2 = t2
    background = background
    NoFilter = NoFilter
    Rulesets = {f1, f2}
    RulesetGroups = {g1, g2}
    RulesetGroup <- MCRulesetGroup
    Recommended = {f2}
    EngineUpdates = {u1, u2}
    MaxStatic = 2
    Hosts = {host, parent, neighbour}
    Visited = {host, neighbour}
    HostChain <- MCHostChain
    HashPrefixes = {p1, p2}
    HostPrefix <- MCHostPrefix
    Lookups = {}
    SaveEvery = 2
    Addresses = {a1}
    CustomTasks = {}
    MaxId = 1
    MaxEdition = 2
    MaxOperations = 0
    UserRules = {r1}
    Saves = {}
    PageFaults = {}
    MaxEvents = 1
    Units = {"hours", "months"}
    Span <- MCSpan
    Window <- MCWindow
    Untrimmed = {"months"}
    Counters = {}
    MaxTime = 0
    MaxBlocked = 0
    LogTabs = {}
    Background = background
    LogPages = {}
    MaxPerTab = 3
    MaxLogged = 0
    MaxVersion = 1
    SchemaOf <- MCSchemaOfOne
SPECIFICATION ServicesSpec
PROPERTY TakenIsDeclined
CHECK_DEADLOCK FALSE
