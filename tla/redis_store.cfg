\* Two clients contend for one key; a transaction is tried twice.
SPECIFICATION FairSpec
CONSTANTS
    None = None
    Clients = {c1, c2}
    Turns <- MCTurns
    SummaryTexts = {"s"}
    MaxTurns = 2
    Lifetime = 2
    TriggerTurns = 2
    RetainTurns = 1
    MaxRetries = 2
    MaxVersion = 3
    MaxEra = 1
PROPERTIES
    ImplementsSessionStore
    CallsEnd
