--------------------------- MODULE MCRequestPaths ---------------------------
(* Every configuration of the runtime, and one of each that is known to    *)
(* fail a request.                                                         *)
EXTENDS RequestPaths

AllConfigurations ==
    [controlled : BOOLEAN, repairable : BOOLEAN, memory : BOOLEAN]

(* Settings.controlled_workflow_enabled is FALSE by default.               *)
DirectConfiguration ==
    {[controlled |-> FALSE, repairable |-> FALSE, memory |-> FALSE]}

FollowUpConfiguration ==
    {[controlled |-> TRUE, repairable |-> FALSE, memory |-> TRUE]}
=============================================================================
