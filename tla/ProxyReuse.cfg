CONSTANTS
    Session = {s1, s2}
    Address = {a1}
    Null = Null
    Reuse = TRUE
    Shutdown = FALSE
SPECIFICATION Spec
CHECK_DEADLOCK FALSE
INVARIANT OwnUpstream
