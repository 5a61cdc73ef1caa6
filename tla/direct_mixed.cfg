\* A mixed request of a runtime with the default settings.
SPECIFICATION Spec
CONSTANTS
    Documents = {"E1", "E2"}
    DataEvidence = "D1"
    MaxProviderCalls = 9
    Configurations <- DirectConfiguration
INVARIANT
    DirectMixedCompletes
CHECK_DEADLOCK FALSE
