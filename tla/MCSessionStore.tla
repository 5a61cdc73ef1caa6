--------------------------- MODULE MCSessionStore ---------------------------
(* Model-checking instance of SessionStore and ConversationMemory.  The    *)
(* second turn reuses the request id of the first one under another turn   *)
(* id and answer.  Of the turns some fit with others and a summary, one    *)
(* fits alone, and one does not because its markers are lengthened.        *)
EXTENDS ConversationMemory, TLC

Turn(id, request, answer) == [turn_id |-> id, request_id |-> request, text |-> answer]

MCTurns ==
    {Turn("t1", "r1", "x"), Turn("t0", "r1", "y"), Turn("t2", "r2", "x"),
     Turn("t3", "r3", "x")}

MCTurnLength(turn) ==
    CASE turn.turn_id = "t1" -> 2000
      [] turn.turn_id = "t0" -> 7000
      [] turn.turn_id = "t2" -> 4000
      [] turn.turn_id = "t3" -> 400

MCMarkersIn(turn) == IF turn.turn_id = "t0" THEN 2 ELSE 0

MCSummaryLength(text) == 3000

Symmetry == Permutations(Clients)
=============================================================================
