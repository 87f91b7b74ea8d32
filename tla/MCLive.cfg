SPECIFICATION SpecAll
CONSTANTS
    s1 = s1
    s2 = s2
    r1 = r1
    r2 = r2
    a = a
    b = b
    sweep = sweep
    caller = caller
    None = None
    Clients = {c1}
    Sessions = {s1, s2}
    HubEnvironments <- AllHubs
    Ids = {a, b}
    Runs = {r1, r2}
    StartOf <- Apart
    Lister = {sweep, caller}
    Sweep = sweep
    Environments <- AllHistories
    Calls = {c1, c2, c3}
    DownAfter = 2
    LaneIds = {a}
    LaneEnvironments <- AllLanes
    StreamNames = {"a", "b"}
    maxContentClients = 2
    maxFutileReattach = 1
    StreamEnvironments <- AllPanes
    WatchIds = {"a", "b"}
    WatchEnvironments <- AllWatches
    RecordNames = {"a", "b", "c"}
    RecordEnvironments <- AllRecords
    LockNames = {"a", "b"}
    LockEnvironments <- AllLocks
    PromptNames = {"a", "b"}
    PromptEnvironments <- AllPrompts
CHECK_DEADLOCK FALSE
PROPERTIES
    BegunIsFinished
    NewsArrives
