--------------------------- MODULE MCFormalRuntime ---------------------------
(* Model-checking instance of FormalRuntime: one request with a budget of  *)
(* two makes up to three calls, one after another or at once.              *)
EXTENDS FormalRuntime

CONSTANTS r1, c1, c2, c3

MCRequestOf == c1 :> r1 @@ c2 :> r1 @@ c3 :> r1
=============================================================================
