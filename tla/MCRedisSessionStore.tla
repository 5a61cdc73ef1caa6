------------------------ MODULE MCRedisSessionStore ------------------------
(* Model-checking instance of RedisSessionStore.                           *)
EXTENDS RedisSessionStore

Turn(id, request, answer) == [turn_id |-> id, request_id |-> request, text |-> answer]

MCTurns == {Turn("t1", "r1", "x"), Turn("t2", "r2", "x")}
=============================================================================
