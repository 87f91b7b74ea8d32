SPECIFICATION Spec
CONSTANTS
    Texts = {m1, m2}
    Clients = {m1, m2}
    TextOf <- OwnText
    None = None
    Environments <- All
SYMMETRY Symmetry
INVARIANT LeftoversAreKnown
PROPERTIES
    QueuedIsTrue
    ComposerIsKept
