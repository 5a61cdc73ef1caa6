\* A mixed request of the controlled workflow in a session with a memory.
SPECIFICATION Spec
CONSTANTS
    Documents = {"E1", "E2"}
    DataEvidence = "D1"
    MaxProviderCalls = 9
    Configurations <- FollowUpConfiguration
INVARIANT
    FollowUpMixedCompletes
CHECK_DEADLOCK FALSE
