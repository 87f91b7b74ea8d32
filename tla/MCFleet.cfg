SPECIFICATION SpecAll
CONSTANTS
    r1 = r1
    r2 = r2
    a = a
    b = b
    one = one
    two = two
    Calls = {c1, c2, c3}
    DownAfter = 2
    FleetIds = {"x", "y"}
    StreamNames = {"a", "b"}
    maxContentClients = 2
    maxFutileReattach = 1
    WatchIds = {"a", "b"}
    RecordNames = {"a", "b", "c"}
    None = None
    Ids = {a, b}
    Runs = {r1, r2}
    StartOf <- Apart
    Lister = {one, two}
    RelayEnvironments <- AllRelays
    FleetEnvironments <- AllFleets
    StreamEnvironments <- AllPanes
    WatchEnvironments <- AllWatches
    RecordEnvironments <- AllRecords
    Environments <- AllLabels
CHECK_DEADLOCK FALSE
INVARIANTS
    DownIsProbed
    DownIsEarned
    RelayedAsAsked
    PeerEventsAreExact
    FleetAnswersAreTrue
    NoClientIsLeft
    FollowUpsAreTrue
    RecordsAreTrue
    LabelsAreTrue
