CONSTANTS
    Session = {s1, s2}
    Address = {a1, a2}
    Null = Null
    Reuse = FALSE
    Shutdown = TRUE
SPECIFICATION FairSpec
CHECK_DEADLOCK FALSE
INVARIANTS
    ForwardersExact
    OwnUpstream
    NobodyIsLeft
PROPERTY ForwarderIsFreed
