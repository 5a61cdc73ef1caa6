SPECIFICATION ObservedSpec
CONSTANTS
    Documents = {"E1", "E2"}
    DataEvidence = "D1"
    MaxProviderCalls = 9
    Configurations <- AllConfigurations
    Limits <- TraceLimits
INVARIANTS
    AnswersAreGrounded
    BudgetCoversFirstReview
    FaithfulRequestsComplete
    ServedWorkWasAccepted
    RepairsServeTheFirstRound
    TraceIsOneTree
    SpansTellHowSeamsEnded
    GrantsOpenTheirPaths
    AcceptedRepliesAreServed
PROPERTIES
    EveryTraceIsFinished
CHECK_DEADLOCK FALSE
