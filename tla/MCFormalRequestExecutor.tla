---------------------- MODULE MCFormalRequestExecutor ----------------------
(* Model-checking instance of FormalRequestExecutor: e2 is the client's    *)
(* retry of the request of e1.                                             *)
EXTENDS FormalRequestExecutor, TLC

CONSTANTS e1, e2, e3

MCRequestOf == e1 :> "r1" @@ e2 :> "r1" @@ e3 :> "r3"

Result(answer, cited) == [completed |-> answer # None, answer |-> answer, cited |-> cited]

MCResults == {Result("a", TRUE), Result(Blank, FALSE), Result(None, FALSE)}

MCTurns ==
    [turn_id : Range(MCRequestOf), request_id : Range(MCRequestOf),
     text : [answer : {"a"}, created_at : Executions]]
=============================================================================
