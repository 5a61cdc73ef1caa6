\* A data agent's session with its server, and a supervised preflight.
SPECIFICATION Spec
CONSTANTS
    Tables = {"products", "purchase_orders"}
    Scope = {"products"}
INVARIANTS
    ServersAreStopped
    PreflightIsTruthful
PROPERTIES
    EvidenceStaysInScope
    EveryOwnerEnds
CHECK_DEADLOCK FALSE
