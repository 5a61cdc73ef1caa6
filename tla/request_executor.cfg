\* Three concurrent executions of two requests, summaries from two turns on.
SPECIFICATION Spec
CONSTANTS
    None = None
    Blank = Blank
    e1 = e1
    e2 = e2
    e3 = e3
    Executions = {e1, e2, e3}
    RequestOf <- MCRequestOf
    Results <- MCResults
    Turns <- MCTurns
    SummaryTexts = {"s"}
    MaxTurns = 2
    Lifetime = 1
    TriggerTurns = 2
    RetainTurns = 1
    MaxVersion = 6
    MaxEra = 1
INVARIANTS
    AnswersLeaveApproved
    MemoryHoldsCompletedWork
PROPERTIES
    TurnsFollowTheirContext
    EveryExecutionEnds
CHECK_DEADLOCK FALSE
