SPECIFICATION FairSpec
CONSTANTS
    Bases = {"w"}
    MaxNameAttempts = 2
    Keys = {k1, k2}
    Callers = {c1, c2}
    k1 = k1
    k2 = k2
    c1 = c1
    c2 = c2
    KeyOf <- OwnKeys
    BaseOf <- SameBase
    CwdOf <- OwnCwds
    Cwds = {"a", "b", "o"}
    NoKey = NoKey
    None = None
    Environments <- All
INVARIANT CreatesAreOnce
PROPERTY PendingIsResolved
