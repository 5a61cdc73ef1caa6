\* Two clients, four turns, a window of three turns, summaries from two turns on.
SPECIFICATION Spec
CONSTANTS
    None = None
    Clients = {c1, c2}
    Turns <- MCTurns
    SummaryTexts = {"s"}
    MaxTurns = 3
    Lifetime = 2
    TriggerTurns = 2
    RetainTurns = 1
    MaxVersion = 5
    MaxEra = 1
    TurnLength <- MCTurnLength
    MarkersIn <- MCMarkersIn
    SummaryLength <- MCSummaryLength
    RequestTokens = {1, 200, 1025, 1026, 2000}
    AnswerTokens = {1, 500, 1800, 3500}
SYMMETRY Symmetry
INVARIANTS
    VersionIdentifiesState
    WindowIsNewestHistory
    EveryTurnAccountedFor
    MemoryStaysInItsPlace
PROPERTY
    WritesBuildOnWhatWasRead
