SPECIFICATION FairSpec
CONSTANTS
    MaxChild = 2
    Callers = {i1}
    Periodic = FALSE
CHECK_DEADLOCK FALSE
INVARIANT HealthIsTrue
PROPERTIES
    OneProcess
    EndingsCome
