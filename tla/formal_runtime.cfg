\* One request, three calls, a budget of two calls, one failed append.
SPECIFICATION Spec
CONSTANTS
    r1 = r1
    c1 = c1
    c2 = c2
    c3 = c3
    Requests = {r1}
    Calls = {c1, c2, c3}
    RequestOf <- MCRequestOf
    MaxProviderCalls = 2
    MaxFailures = 1
INVARIANTS
    WithinBudget
    CallsAreAudited
    ServedRuntimeIsWhole
    NothingLeaks
PROPERTIES
    OnlySummariesLeaveUnaudited
    LifespanEnds
CHECK_DEADLOCK FALSE
