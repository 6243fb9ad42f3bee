SPECIFICATION Spec
CONSTANTS
    c1 = c1
    c2 = c2
    h1 = h1
    h2 = h2
    None = None
    Checks <- MCChecks
    Handlers <- MCHandlers
    MaxVersion = 2
INVARIANTS
    AnnouncedIsOffered
CHECK_DEADLOCK FALSE
