---------------------------- MODULE MCAuditChain ----------------------------
(* Model-checking instance of AuditChain.  Threads and events are          *)
(* interchangeable.                                                        *)
EXTENDS AuditChain

Symmetry == Permutations(Threads) \cup Permutations(Events)
=============================================================================
