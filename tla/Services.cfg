CONSTANTS
    f1 = f1
    f2 = f2
    f3 = f3
    g1 = g1
    g2 = g2
    host = host
    parent = parent
    neighbour = neighbour
    p1 = p1
    p2 = p2
    r1 = r1
    r2 = r2
    s1 = s1
    s2 = s2
    u1 = u1
    u2 = u2
    a1 = a1
    t1 = t1
    t2 = t2
    background = background
    NoFilter = NoFilter
    Rulesets = {f1, f2, f3}
    RulesetGroups = {g1, g2}
    RulesetGroup <- MCRulesetGroup
    Recommended = {f2, f3}
    EngineUpdates = {u1}
    MaxStatic = 2
    Hosts = {host, parent, neighbour}
    Visited = {host, neighbour}
    HostChain <- MCHostChain
    HashPrefixes = {p1, p2}
    HostPrefix <- MCHostPrefix
    Lookups = {u1}
    SaveEvery = 2
    Addresses = {a1}
    CustomTasks = {s1, s2}
    MaxId = 2
    MaxEdition = 2
    MaxOperations = 4
    UserRules = {r1, r2}
    Saves = {s1, s2}
    PageFaults = {"storage", "external"}
    MaxEvents = 1
    Units = {"hours", "months"}
    Span <- MCSpan
    Window <- MCWindow
    Untrimmed = {"months"}
    Counters = {s1, s2}
    MaxTime = 9
    MaxBlocked = 2
    LogTabs = {t1, t2}
    Background = background
    LogPages = {s1, s2}
    MaxPerTab = 3
    MaxLogged = 4
    MaxVersion = 3
    SchemaOf <- MCSchemaOf
SPECIFICATION ServicesSpec
SYMMETRY MCServicesSymmetry
INVARIANTS
    ServicesTypeOK
    QuietIsRunning
    SafeIsAnswered
    BlockedIsReported
    SwitchableIsDescribed
    
    ClicksAreStored
    ListIsWanted
    RecentIsKept
    TotalCoversHistories
    ClosedLogIsEmpty
    EventIsOnce
    RecentStay
    MigratedOnce
    InstallIsWhole
    OfferIsNewer
PROPERTIES
    ImportIsWhole
    TrustHolds
    VerdictsAreKept
    NewIdIsFree
    MainRequestStays
    SettingsSurvive
CHECK_DEADLOCK FALSE
