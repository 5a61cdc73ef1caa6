\* The same instance, asked whether a reused request identifier is refused.
SPECIFICATION Spec
CONSTANTS
    None = None
    Blank = Blank
    e1 = e1
    e2 = e2
    e3 = e3
    Executions = {e1, e2, e3}
    RequestOf <- MCRequestOf
    Results <- MCResults
    Turns <- MCTurns
    SummaryTexts = {"s"}
    MaxTurns = 2
    Lifetime = 1
    TriggerTurns = 2
    RetainTurns = 1
    MaxVersion = 6
    MaxEra = 1
INVARIANT
    ReusedRequestsFailClosed
CHECK_DEADLOCK FALSE
