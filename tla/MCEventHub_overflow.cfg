SPECIFICATION HubSpec
CONSTANTS
    s1 = s1
    s2 = s2
    Clients = {c1, c2}
    Sessions = {s1, s2}
    HubEnvironments <- Slow
INVARIANT SlowAreTold
SYMMETRY Symmetry
