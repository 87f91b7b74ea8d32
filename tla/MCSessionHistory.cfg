SPECIFICATION HistorySpec
CONSTANTS
    r1 = r1
    r2 = r2
    a = a
    b = b
    sweep = sweep
    caller = caller
    None = None
    Ids = {a, b}
    Runs = {r1, r2}
    StartOf <- Apart
    Lister = {sweep, caller}
    Sweep = sweep
    Environments <- All
CHECK_DEADLOCK FALSE
INVARIANT RecordsOfTheEnded
PROPERTY RecordsAreKept
