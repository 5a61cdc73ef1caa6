------------------------- MODULE MCObservedRequest -------------------------
(* A limit that every path exceeds, and the default one.                   *)
EXTENDS ObservedRequest, RoleContracts

AllConfigurations ==
    [controlled : BOOLEAN, repairable : BOOLEAN, memory : BOOLEAN]

TraceLimits == {5, DefaultLimit}
=============================================================================
