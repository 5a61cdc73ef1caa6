\* Three threads, five events, two write errors, two processes that die.
SPECIFICATION Spec
CONSTANTS
    None = None
    Threads = {t1, t2, t3}
    Events = {e1, e2, e3, e4, e5}
    MaxFailures = 2
    MaxCrashes = 2
SYMMETRY Symmetry
INVARIANTS
    ReleasedChainVerifies
PROPERTIES
    OpensOnNothingLost
    ClosedLogIsFrozen
CHECK_DEADLOCK FALSE
