SPECIFICATION SpecAll
CONSTANTS
    p = p
    q = q
    a = a
    b = b
    t1 = t1
    t2 = t2
    Bases = {"w", "v", "o"}
    MaxNameAttempts = 1
    Actors = {p, q}
    LaneIds = {a, b}
    RouteTexts = {t1, t2}
    LedgerMax = 2
    LockNames = {"a", "b"}
    Environments <- AllOwners
    LaneEnvironments <- AllLanes
    RouteEnvironments <- AllRoutes
    LockEnvironments <- AllLocks
SYMMETRY Symmetry
CHECK_DEADLOCK FALSE
INVARIANTS
    ExitIsTrue
    LanesAreTrue
    ArrivesOnce
    SendsAreAsAnswered
    OnePerComposer
PROPERTIES
    TouchesItsOwn
    LivingKeepTheirLane
