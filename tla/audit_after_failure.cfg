\* The same sink, asked whether an append that returns leaves a valid chain.
SPECIFICATION Spec
CONSTANTS
    None = None
    Threads = {t1, t2, t3}
    Events = {e1, e2, e3, e4, e5}
    MaxFailures = 2
    MaxCrashes = 2
SYMMETRY Symmetry
PROPERTY
    ReturnedAppendLeavesValidChain
CHECK_DEADLOCK FALSE
