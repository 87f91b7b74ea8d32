SPECIFICATION FairSpec
CONSTANTS
    Calls = {c1, c2}
    MaxGen = 1
    Cap = 1
CHECK_DEADLOCK FALSE
INVARIANTS
    NotSentIsTrue
    NeverStranded
PROPERTIES
    KeepsPromise
    DetachedCallsReturn
