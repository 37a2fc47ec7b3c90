CONSTANTS
    Attempt = {c1, c2, c3, c4}
    Null = Null
    Clock = Clock
SPECIFICATION FairSpec
INVARIANTS
    ReferencesAreLive
    ClientOutlivesRequests
PROPERTIES
    CallsThenOnce
    LeavesNothing
