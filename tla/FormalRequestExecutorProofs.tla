---------------------- MODULE FormalRequestExecutorProofs ----------------------
(***************************************************************************)
(* Proofs about FormalRequestExecutor, for every set of executions, every  *)
(* assignment of requests to them, everything a coordinator may return and *)
(* every memory policy.                                                    *)
(***************************************************************************)
EXTENDS FormalRequestExecutor, TLAPS

Started == <<"workflow_started">>
Worked == <<"workflow_started", "workflow_completed">>
Approved == <<"workflow_started", "workflow_completed", "response_release_allowed">>
Blocked == <<"workflow_started", "workflow_completed", "response_release_blocked">>

LEMMA Trails ==
    /\ Append(<<>>, "workflow_started") = Started
    /\ Append(Started, "workflow_completed") = Worked
    /\ Append(Worked, "response_release_allowed") = Approved
    /\ Append(Worked, "response_release_blocked") = Blocked
<1>1. ASSUME NEW a PROVE Append(<<>>, a) = <<a>>
  OBVIOUS
<1>2. ASSUME NEW a, NEW b PROVE Append(<<a>>, b) = <<a, b>>
  <2> DEFINE s == Append(<<a>>, b)
  <2>1. <<a>> \in Seq({a, b}) /\ Len(<<a>>) = 1 /\ <<a>>[1] = a
    OBVIOUS
  <2>2. /\ s \in Seq({a, b}) /\ Len(s) = 2
        /\ s[1] = a /\ s[2] = b
    BY <2>1
  <2> HIDE DEF s
  <2>3. s = [i \in 1..2 |-> s[i]]
    BY <2>2
  <2>4. s = <<a, b>>
    BY <2>2, <2>3
  <2> QED
    BY <2>4 DEF s
<1>3. ASSUME NEW a, NEW b, NEW c PROVE Append(<<a, b>>, c) = <<a, b, c>>
  <2> DEFINE s == Append(<<a, b>>, c)
  <2>1. <<a, b>> \in Seq({a, b, c}) /\ Len(<<a, b>>) = 2 /\ <<a, b>>[1] = a /\ <<a, b>>[2] = b
    OBVIOUS
  <2>2. /\ s \in Seq({a, b, c}) /\ Len(s) = 3
        /\ s[1] = a /\ s[2] = b /\ s[3] = c
    BY <2>1
  <2> HIDE DEF s
  <2>3. s = [i \in 1..3 |-> s[i]]
    BY <2>2
  <2>4. s = <<a, b, c>>
    BY <2>2, <2>3
  <2> QED
    BY <2>4 DEF s
<1> QED
  BY <1>1, <1>2, <1>3 DEF Started, Worked, Approved, Blocked

LEMMA WorkShows ==
    /\ ~Contains(<<>>, "workflow_completed")
    /\ ~Contains(Started, "workflow_completed")
    /\ Contains(Worked, "workflow_completed")
    /\ Contains(Approved, "workflow_completed")
    /\ Contains(Blocked, "workflow_completed")
BY DEF Contains, Started, Worked, Approved, Blocked
-----------------------------------------------------------------------------
(* What an execution has audited and given away, by the place it is at.    *)

Shape ==
    /\ pc = [e \in Executions |-> pc[e]]
    /\ result = [e \in Executions |-> result[e]]
    /\ thread = [e \in Executions |-> thread[e]]
    /\ audit = [e \in Executions |-> audit[e]]
    /\ response = [e \in Executions |-> response[e]]

PlaceInv(e) ==
    /\ pc[e] \in {"start", "read"} => audit[e] = <<>>
    /\ pc[e] = "coordinate" => audit[e] = Started
    /\ pc[e] \in {"persist", "summarize"} \/ thread[e] # "none" =>
           audit[e] = Worked /\ Persistable(result[e])
    /\ thread[e] # "none" => pc[e] = "cancelled"
    /\ pc[e] # "done" => response[e] = None
    /\ response[e] # None /\ response[e].answer # None => audit[e] = Approved

TrailInv == Shape /\ \A e \in Executions : PlaceInv(e)

(* A step of one execution leaves the others alone, and work that is in    *)
(* the trail stays there with its result.                                  *)
Others(e) ==
    \A f \in Executions \ {e} :
        /\ pc'[f] = pc[f]
        /\ result'[f] = result[f]
        /\ thread'[f] = thread[f]
        /\ audit'[f] = audit[f]
        /\ response'[f] = response[f]

Kept(e) ==
    Contains(audit[e], "workflow_completed") =>
        Contains(audit'[e], "workflow_completed") /\ result'[e] = result[e]

Moved(e) == Shape' /\ Others(e) /\ Kept(e) /\ PlaceInv(e)'

LEMMA OneMoved ==
    ASSUME TrailInv, NEW e \in Executions, Moved(e)
    PROVE  TrailInv'
<1>1. ASSUME NEW f \in Executions \ {e} PROVE PlaceInv(f)'
  BY <1>1 DEF TrailInv, Moved, Others, PlaceInv
<1> QED
  BY <1>1 DEF TrailInv, Moved

(* An execution ends with a response. *)
LEMMA Responds ==
    ASSUME Shape, NEW e \in Executions, NEW trail, NEW answer, NEW status, NEW res,
           Respond(e, trail, answer, status), UNCHANGED thread,
           result' = result \/ result' = [result EXCEPT ![e] = res],
           thread[e] = "none",
           Contains(audit[e], "workflow_completed") =>
               Contains(trail, "workflow_completed") /\ result' = result,
           answer # None => trail = Approved
    PROVE  Moved(e)
<1>1. /\ pc'[e] = "done"
      /\ audit'[e] = trail
      /\ response'[e].answer = answer
      /\ thread'[e] = "none"
  BY DEF Respond, SetAudit, Goto, Shape
<1>2. Shape' /\ Others(e)
  BY DEF Respond, SetAudit, Goto, Shape, Others
<1>3. PlaceInv(e)'
  BY <1>1 DEF PlaceInv
<1>4. Kept(e)
  BY <1>1 DEF Kept
<1> QED
  BY <1>2, <1>3, <1>4 DEF Moved

LEMMA Releases ==
    ASSUME Shape, NEW e \in Executions, NEW res, NEW trail, NEW status,
           Release(e, trail, res, status), UNCHANGED thread,
           result' = result \/ result' = [result EXCEPT ![e] = res],
           thread[e] = "none",
           ~Contains(audit[e], "workflow_completed") \/ (trail = Worked /\ result' = result),
           res.completed => trail = Worked
    PROVE  Moved(e)
<1>1. CASE /\ Releasable(res)
           /\ Respond(e, Append(trail, "response_release_allowed"), res.answer, status)
  BY <1>1, Responds, Trails, WorkShows DEF Releasable
<1>2. CASE /\ ~Releasable(res)
           /\ Respond(e, Append(trail, "response_release_blocked"), None, "not_requested")
  BY <1>2, Responds, Trails, WorkShows
<1>3. CASE Respond(e, trail, None, "not_requested")
  BY <1>3, Responds, WorkShows
<1> QED
  BY <1>1, <1>2, <1>3 DEF Release

(* An execution waits for the coordinator, or raises.                      *)
LEMMA StartsWorkflow ==
    ASSUME TrailInv, NEW e \in Executions, pc[e] \in {"start", "read"},
           StartWorkflow(e), UNCHANGED <<result, thread>>
    PROVE  Moved(e)
<1>1. audit[e] = <<>> /\ response[e] = None /\ thread[e] = "none"
  BY DEF TrailInv, PlaceInv
<1>2. Shape' /\ Others(e)
  BY DEF StartWorkflow, Raise, Goto, SetAudit, TrailInv, Shape, Others
<1>3. \/ pc'[e] = "coordinate" /\ audit'[e] = Started
      \/ pc'[e] = "raised" /\ audit'[e] = <<>>
  BY <1>1, Trails DEF StartWorkflow, Raise, Goto, SetAudit, TrailInv, Shape
<1>4. response'[e] = None /\ thread'[e] = "none"
  BY <1>1 DEF StartWorkflow, Raise
<1>5. Kept(e)
  BY <1>1, WorkShows DEF Kept
<1> QED
  BY <1>2, <1>3, <1>4, <1>5 DEF Moved, PlaceInv

LEMMA StartMoves ==
    ASSUME TrailInv, NEW e \in Executions, Start(e)
    PROVE  Moved(e)
<1>1. /\ pc[e] = "start" /\ audit[e] = <<>> /\ response[e] = None /\ thread[e] = "none"
      /\ UNCHANGED <<result, thread>>
      /\ Shape
  BY DEF Start, TrailInv, PlaceInv
<1>2. CASE Respond(e, audit[e], None, "not_requested")
  BY <1>1, <1>2, Responds, WorkShows
<1>3. CASE Release(e, audit[e], Refusal, "not_requested")
  BY <1>1, <1>3, Releases, WorkShows DEF Refusal
<1>4. CASE StartWorkflow(e)
  BY <1>1, <1>4, StartsWorkflow
<1>5. CASE Goto(e, "read") /\ UNCHANGED <<audit, response>>
  <2>1. pc'[e] = "read" /\ UNCHANGED <<audit, response, result, thread>>
    BY <1>1, <1>5 DEF Goto, Shape
  <2>2. Shape' /\ Others(e)
    BY <1>1, <1>5 DEF Goto, Shape, Others
  <2> QED
    BY <1>1, <2>1, <2>2 DEF Moved, Kept, PlaceInv
<1> QED
  BY <1>2, <1>3, <1>4, <1>5 DEF Start

LEMMA ReadMoves ==
    ASSUME TrailInv, NEW e \in Executions, Read(e)
    PROVE  Moved(e)
BY StartsWorkflow DEF Read, StartWorkflow

LEMMA CoordinateMoves ==
    ASSUME TrailInv, NEW e \in Executions, Coordinate(e)
    PROVE  Moved(e)
<1>1. /\ audit[e] = Started /\ response[e] = None /\ thread[e] = "none"
      /\ UNCHANGED thread
      /\ Shape
      /\ ~Contains(audit[e], "workflow_completed")
  BY WorkShows DEF Coordinate, TrailInv, PlaceInv
<1>2. ASSUME NEW res \in Results, SetResult(e, res),
             Continue(e, Append(audit[e], CompletionEvent(res)), res)
      PROVE  Moved(e)
  <2> DEFINE trail == Append(audit[e], CompletionEvent(res))
  <2>1. res.completed => trail = Worked
    BY <1>1, Trails DEF CompletionEvent
  <2>2. result' = [result EXCEPT ![e] = res]
    BY <1>2 DEF SetResult
  <2>3. ASSUME NEW status, Release(e, trail, res, status)
        PROVE  Moved(e)
    <3> HIDE DEF trail
    <3> QED
      BY <1>1, <2>1, <2>2, <2>3, Releases
  <2>4. CASE Persistable(res) /\ Goto(e, "persist") /\ SetAudit(e, trail) /\ UNCHANGED response
    <3>1. trail = Worked
      BY <2>1, <2>4 DEF Persistable
    <3>2. pc'[e] = "persist" /\ audit'[e] = Worked /\ response'[e] = None /\ result'[e] = res
      BY <1>1, <2>2, <2>4, <3>1 DEF Goto, SetAudit, Shape
    <3>3. Shape' /\ Others(e)
      BY <1>1, <2>2, <2>4 DEF Goto, SetAudit, Shape, Others
    <3> QED
      BY <1>1, <2>4, <3>2, <3>3 DEF Moved, Kept, PlaceInv
  <2> QED
    BY <1>2, <2>3, <2>4 DEF Continue
<1>3. CASE Raise(e, audit[e]) /\ UNCHANGED result
  <2>1. pc'[e] = "raised" /\ audit'[e] = Started /\ response'[e] = None
    BY <1>1, <1>3 DEF Raise, Goto, SetAudit, Shape
  <2>2. Shape' /\ Others(e)
    BY <1>1, <1>3 DEF Raise, Goto, SetAudit, Shape, Others
  <2> QED
    BY <1>1, <1>3, <2>1, <2>2 DEF Moved, Kept, PlaceInv
<1> QED
  BY <1>2, <1>3 DEF Coordinate

LEMMA PersistMoves ==
    ASSUME TrailInv, NEW e \in Executions, Persist(e) \/ Summarize(e)
    PROVE  Moved(e)
<1>1. /\ audit[e] = Worked /\ Persistable(result[e]) /\ response[e] = None
      /\ thread[e] = "none"
      /\ UNCHANGED <<result, thread>>
      /\ Shape
  BY DEF Persist, Summarize, TrailInv, PlaceInv
<1>2. ASSUME NEW status, Release(e, audit[e], result[e], status)
      PROVE  Moved(e)
  BY <1>1, <1>2, Releases
<1>3. CASE Goto(e, "summarize") /\ UNCHANGED <<audit, response>>
  <2>1. pc'[e] = "summarize" /\ UNCHANGED <<audit, response, result, thread>>
    BY <1>1, <1>3 DEF Goto, Shape
  <2>2. Shape' /\ Others(e)
    BY <1>1, <1>3 DEF Goto, Shape, Others
  <2> QED
    BY <1>1, <2>1, <2>2 DEF Moved, Kept, PlaceInv
<1> QED
  BY <1>2, <1>3 DEF Persist, Summarize, Unpersisted

LEMMA CancelMoves ==
    ASSUME TrailInv, NEW e \in Executions, Cancel(e)
    PROVE  Moved(e)
<1>1. /\ pc'[e] = "cancelled"
      /\ thread'[e] = LeftBehind(e)
      /\ UNCHANGED <<result, audit, response>>
      /\ pc[e] \in Waiting \ {"start"}
  BY DEF Cancel, Goto, TrailInv, Shape
<1>2. LeftBehind(e) # "none" => pc[e] \in {"persist", "summarize"}
  BY <1>1 DEF LeftBehind, Waiting
<1>3. response[e] = None /\ thread[e] = "none"
  BY <1>1 DEF TrailInv, PlaceInv, Waiting
<1>4. Shape' /\ Others(e)
  BY DEF Cancel, Goto, TrailInv, Shape, Others
<1> QED
  BY <1>1, <1>2, <1>3, <1>4 DEF Moved, Kept, TrailInv, PlaceInv

LEMMA ThreadMoves ==
    ASSUME TrailInv, NEW e \in Executions, ThreadEnds(e)
    PROVE  Moved(e)
<1>1. thread'[e] = "none" /\ UNCHANGED <<pc, result, audit, response>>
  BY DEF ThreadEnds, TrailInv, Shape
<1>2. Shape' /\ Others(e)
  BY DEF ThreadEnds, TrailInv, Shape, Others
<1> QED
  BY <1>1, <1>2 DEF Moved, Kept, TrailInv, PlaceInv

LEMMA TrailStep == TrailInv /\ [Next]_vars => TrailInv'
<1> SUFFICES ASSUME TrailInv, [Next]_vars PROVE TrailInv'
  OBVIOUS
<1>1. ASSUME NEW e \in Executions, Step(e) \/ Cancel(e) \/ ThreadEnds(e)
      PROVE  TrailInv'
  BY <1>1, StartMoves, ReadMoves, CoordinateMoves, PersistMoves, CancelMoves, ThreadMoves, OneMoved
     DEF Step
<1>2. CASE Expire \/ UNCHANGED vars
  BY <1>2 DEF Expire, vars, TrailInv, Shape, PlaceInv
<1> QED
  BY <1>1, <1>2 DEF Next

LEMMA TrailInit == Init => TrailInv
BY DEF Init, TrailInv, Shape, PlaceInv

(* No answer leaves without its whole trail, whatever the coordinator      *)
(* returns, whichever audit append or store call fails and whoever is      *)
(* cancelled.                                                              *)
THEOREM AnswersAreApproved == Spec => []AnswersLeaveApproved
<1>1. TrailInv => AnswersLeaveApproved
  BY DEF TrailInv, PlaceInv, Approved, AnswersLeaveApproved
<1> QED
  BY <1>1, TrailInit, TrailStep, PTL DEF Spec
-----------------------------------------------------------------------------
(* What the session remembers. *)

HistoryShape == "history" \in DOMAIN session /\ \E S : session.history \in Seq(S)

Remembers(t) ==
    \E e \in Executions :
        /\ RequestOf[e] = t.request_id
        /\ Contains(audit[e], "workflow_completed")
        /\ result[e].answer = t.text.answer

(* A step of the store adds the turn of an execution whose work is in the  *)
(* trail, empties the history with its era, or leaves it alone.            *)
HistoryStep ==
    \/ session'.history = session.history
    \/ session'.history = <<>>
    \/ \E e \in Executions :
         /\ Contains(audit[e], "workflow_completed")
         /\ session'.history = Append(session.history, TurnOf(e))

LEMMA AppendRemembers ==
    ASSUME NEW e \in Executions, TrailInv, HistoryShape,
           Memory!AppendNew(e, TurnOf(e)),
           pc[e] = "persist" \/ thread[e] # "none"
    PROVE  HistoryStep /\ "history" \in DOMAIN session'
<1>1. session'.history = Append(session.history, TurnOf(e)) /\ DOMAIN session' = DOMAIN session
  BY DEF Memory!AppendNew, Memory!Appended, HistoryShape
<1>2. Contains(audit[e], "workflow_completed")
  BY WorkShows DEF TrailInv, PlaceInv
<1> QED
  BY <1>1, <1>2 DEF HistoryStep, HistoryShape

LEMMA CompactKeeps ==
    ASSUME NEW e \in Executions, HistoryShape, Memory!Compact(e)
    PROVE  session'.history = session.history /\ "history" \in DOMAIN session'
BY DEF Memory!Compact, Memory!CompactPrefix, Memory!Compacted, HistoryShape

LEMMA HistorySteps ==
    ASSUME TrailInv, HistoryShape, [Next]_vars
    PROVE  HistoryStep /\ "history" \in DOMAIN session'
<1>1. CASE session' = session
  BY <1>1 DEF HistoryStep, HistoryShape
<1>2. ASSUME NEW e \in Executions, Start(e) \/ Read(e) \/ Coordinate(e) \/ Cancel(e)
      PROVE  session' = session
  BY <1>2 DEF Start, Read, Memory!Read, Coordinate, Cancel, memory
<1>3. ASSUME NEW e \in Executions, Persist(e)
      PROVE  session' = session \/ Memory!AppendNew(e, TurnOf(e))
  BY <1>3 DEF Persist, Persisted, Memory!AppendRetry, Memory!AppendConflict, Memory!Forget
<1>4. ASSUME NEW e \in Executions, Summarize(e)
      PROVE  session' = session \/ Memory!Compact(e)
  BY <1>4 DEF Summarize, memory
<1>5. ASSUME NEW e \in Executions, ThreadEnds(e)
      PROVE  session' = session \/ Memory!Compact(e)
             \/ (thread[e] # "none" /\ Memory!AppendNew(e, TurnOf(e)))
  BY <1>5 DEF ThreadEnds, memory, Memory!AppendTurn, Memory!AppendRetry, Memory!AppendConflict
<1>6. CASE Expire
  BY <1>6 DEF Expire, Memory!Tick, Memory!EmptySession, HistoryStep, HistoryShape
<1>7. ASSUME NEW e \in Executions, Persist(e)
      PROVE  pc[e] = "persist"
  BY <1>7 DEF Persist
<1>8. CASE UNCHANGED vars
  BY <1>1, <1>8 DEF vars, memory
<1> QED
  BY <1>1, <1>2, <1>3, <1>4, <1>5, <1>6, <1>7, <1>8, AppendRemembers, CompactKeeps
     DEF Next, Step, HistoryStep

MemoryInv == HistoryShape /\ MemoryHoldsCompletedWork

(* The same of the next state, with a turn that need not be of it.         *)
WillRemember(t) ==
    \E e \in Executions :
        /\ RequestOf[e] = t.request_id
        /\ Contains(audit'[e], "workflow_completed")
        /\ result'[e].answer = t.text.answer

LEMMA KeepsRemembering ==
    ASSUME TrailInv, [Next]_vars, NEW t, Remembers(t)
    PROVE  WillRemember(t)
<1>1. PICK e \in Executions : /\ RequestOf[e] = t.request_id
                              /\ Contains(audit[e], "workflow_completed")
                              /\ result[e].answer = t.text.answer
  BY DEF Remembers
<1>2. CASE UNCHANGED <<audit, result>>
  BY <1>1, <1>2 DEF WillRemember
<1>3. ASSUME NEW f \in Executions, Step(f) \/ Cancel(f) \/ ThreadEnds(f)
      PROVE  Contains(audit'[e], "workflow_completed") /\ result'[e] = result[e]
  <2>1. Moved(f)
    BY <1>3, StartMoves, ReadMoves, CoordinateMoves, PersistMoves, CancelMoves, ThreadMoves DEF Step
  <2> QED
    BY <1>1, <2>1 DEF Moved, Others, Kept
<1>4. ASSUME NEW f \in Executions, Step(f) \/ Cancel(f) \/ ThreadEnds(f)
      PROVE  WillRemember(t)
  BY <1>1, <1>3, <1>4 DEF WillRemember
<1>5. Expire \/ UNCHANGED vars => UNCHANGED <<audit, result>>
  BY DEF Expire, vars
<1> QED
  BY <1>2, <1>4, <1>5 DEF Next

LEMMA MemoryStep == TrailInv /\ MemoryInv /\ [Next]_vars => MemoryInv'
<1> SUFFICES ASSUME TrailInv, MemoryInv, [Next]_vars PROVE MemoryInv'
  OBVIOUS
<1>1. HistoryStep /\ "history" \in DOMAIN session'
  BY HistorySteps DEF MemoryInv
<1>2. PICK S : session.history \in Seq(S)
  BY DEF MemoryInv, HistoryShape
<1>3. ASSUME NEW i \in DOMAIN session.history
      PROVE  WillRemember(session.history[i])
  <2>1. Remembers(session.history[i])
    BY <1>3 DEF MemoryInv, MemoryHoldsCompletedWork, Remembers
  <2> QED
    BY <2>1, KeepsRemembering
<1>4. /\ \E T : session'.history \in Seq(T)
      /\ \A i \in DOMAIN session'.history : WillRemember(session'.history[i])
  <2>1. CASE session'.history = session.history
    BY <1>2, <1>3, <2>1
  <2>2. CASE session'.history = <<>>
    <3>1. session'.history \in Seq({})
      BY <2>2
    <3> QED
      BY <2>2, <3>1
  <2>3. ASSUME NEW e \in Executions,
               Contains(audit[e], "workflow_completed"),
               session'.history = Append(session.history, TurnOf(e))
        PROVE  /\ \E T : session'.history \in Seq(T)
               /\ \A i \in DOMAIN session'.history : WillRemember(session'.history[i])
    <3> DEFINE T == S \cup {TurnOf(e)}
    <3>1. session.history \in Seq(T)
      BY <1>2
    <3>2. TurnOf(e) \in T
      OBVIOUS
    <3> HIDE DEF T
    <3>3. /\ session'.history \in Seq(T)
          /\ DOMAIN session'.history = 1..(Len(session.history) + 1)
          /\ session'.history[Len(session.history) + 1] = TurnOf(e)
          /\ \A i \in 1..Len(session.history) : session'.history[i] = session.history[i]
      BY <2>3, <3>1, <3>2
    <3>4. Remembers(TurnOf(e))
      BY <2>3 DEF Remembers, TurnOf
    <3>5. WillRemember(TurnOf(e))
      BY <3>4, KeepsRemembering
    <3>6. Len(session.history) \in Nat /\ DOMAIN session.history = 1..Len(session.history)
      BY <1>2
    <3>7. ASSUME NEW i \in 1..(Len(session.history) + 1)
          PROVE  WillRemember(session'.history[i])
      <4>1. i \in 1..Len(session.history) \/ i = Len(session.history) + 1
        BY <3>6
      <4>2. CASE i \in 1..Len(session.history)
        <5>1. WillRemember(session.history[i]) /\ session'.history[i] = session.history[i]
          BY <1>3, <3>3, <3>6, <4>2
        <5> QED
          BY <5>1 DEF WillRemember
      <4>3. CASE i = Len(session.history) + 1
        BY <3>3, <3>5, <4>3 DEF WillRemember
      <4> QED
        BY <4>1, <4>2, <4>3
    <3> QED
      BY <3>3, <3>7
  <2> QED
    BY <1>1, <2>1, <2>2, <2>3 DEF HistoryStep
<1>5. HistoryShape'
  BY <1>1, <1>4 DEF HistoryShape
<1>6. MemoryHoldsCompletedWork'
  BY <1>4 DEF MemoryHoldsCompletedWork, WillRemember, Contains
<1> QED
  BY <1>5, <1>6 DEF MemoryInv

(* Whatever is remembered was answered by a workflow whose completion is   *)
(* in the audit log, also when the store call outlived its request.        *)
THEOREM MemoriesHoldCompletedWork == Spec => []MemoryHoldsCompletedWork
<1>1. Init => MemoryInv
  <2> SUFFICES ASSUME Init PROVE MemoryInv
    OBVIOUS
  <2>1. session = Memory!EmptySession(0)
    BY DEF Init, Memory!Init
  <2>2. session.history = <<>> /\ "history" \in DOMAIN session
    BY <2>1 DEF Memory!EmptySession
  <2>3. session.history \in Seq({})
    BY <2>2
  <2> QED
    BY <2>2, <2>3 DEF MemoryInv, HistoryShape, MemoryHoldsCompletedWork
<1>2. Spec => [](TrailInv /\ MemoryInv)
  BY <1>1, TrailInit, TrailStep, MemoryStep, PTL DEF Spec
<1> QED
  BY <1>2, PTL DEF MemoryInv

-----------------------------------------------------------------------------
(* The store's own theorems, of the executions as its clients.  What the   *)
(* memory of a conversation measures is of no account here.                *)
Unmeasured(x) == 0

Store == INSTANCE SessionStoreProofs
    WITH Clients <- Executions, RequestTokens <- {}, AnswerTokens <- {},
         TurnLength <- Unmeasured, MarkersIn <- Unmeasured, SummaryLength <- Unmeasured

LEMMA StoreAssumptions ==
    /\ Store!PolicyAssumption /\ Store!TurnsAssumption
    /\ Store!NoneAssumption /\ Store!BoundsAssumption
    /\ Store!TokensAssumption /\ Store!LengthsAssumption
BY PolicyAssumption, TurnsAssumption, NoneAssumption, BoundsAssumption
   DEF Store!PolicyAssumption, Store!TurnsAssumption, Store!NoneAssumption,
       Store!BoundsAssumption, Store!TokensAssumption, Store!LengthsAssumption, Unmeasured,
       Store!Summaries, Store!Snapshots, Store!SummaryIds, Store!TurnIds,
       Summaries, Snapshots, SummaryIds, TurnIds

LEMMA SameData ==
    /\ Store!Snapshots = Snapshots
    /\ Store!Sessions = Sessions
BY DEF Store!Sessions, Store!Summaries, Store!Snapshots, Store!SummaryIds, Store!TurnIds,
       Sessions, Summaries, Snapshots, SummaryIds, TurnIds

LEMMA SameCompact ==
    ASSUME NEW e, Memory!Compact(e) PROVE Store!Compact(e)
BY DEF Memory!Compact, Memory!CompactPrefix, Memory!CompactablePrefixes, Memory!RollingSummary,
       Memory!IdsOf, Memory!PreviousId, Memory!PreviouslyCovered, Memory!IsSummaryRetry,
       Memory!ValidCompaction, Memory!IsIdentityConflict, Memory!IsOldestStrictPrefix,
       Memory!ContinuesLineage, Memory!Compacted, Memory!Return, Memory!SnapshotOf,
       Store!Compact, Store!CompactPrefix, Store!CompactablePrefixes, Store!RollingSummary,
       Store!IdsOf, Store!PreviousId, Store!PreviouslyCovered, Store!IsSummaryRetry,
       Store!ValidCompaction, Store!IsIdentityConflict, Store!IsOldestStrictPrefix,
       Store!ContinuesLineage, Store!Compacted, Store!Return, Store!SnapshotOf

LEMMA SameAppend ==
    ASSUME NEW e, NEW t
    PROVE  /\ Memory!AppendNew(e, t) => Store!AppendNew(e, t)
           /\ Memory!AppendRetry(e, t) => Store!AppendRetry(e, t)
           /\ Memory!AppendConflict(e, t) => Store!AppendConflict(e, t)
BY DEF Memory!AppendNew, Memory!AppendRetry, Memory!AppendConflict, Memory!Reused,
       Memory!SameTurn,
       Memory!IsTurnRetry, Memory!Appended, Memory!Newest, Memory!Return, Memory!SnapshotOf,
       Store!AppendNew, Store!AppendRetry, Store!AppendConflict, Store!Reused, Store!SameTurn,
       Store!IsTurnRetry, Store!Appended, Store!Newest, Store!Return, Store!SnapshotOf

LEMMA SameRest ==
    /\ Memory!Tick => Store!Tick
    /\ \A e : Memory!Forget(e) => Store!Forget(e)
    /\ \A e : Memory!Read(e) => Store!Read(e)
BY DEF Memory!Tick, Memory!IsLive, Memory!EmptySession, Memory!Forget, Memory!Read,
       Memory!Return, Memory!SnapshotOf,
       Store!Tick, Store!IsLive, Store!EmptySession, Store!Forget, Store!Read, Store!Return,
       Store!SnapshotOf

LEMMA StoreTypes ==
    ASSUME Store!TypeOK, [Store!Next]_(Store!vars)
    PROVE  Store!TypeOK'
BY StoreAssumptions, Store!TypeStep

LEMMA StoreVersions ==
    ASSUME Store!TypeOK, Store!VersionInv, [Store!Next]_(Store!vars)
    PROVE  Store!VersionInv'
BY StoreAssumptions, Store!VersionStep

(* What an execution that may append goes on with. *)
MayAppend(e) == pc[e] = "persist" \/ thread[e] = "append"

(* The context of an execution is what it read, and what it holds until it *)
(* writes.                                                                 *)
ContextInv(e) ==
    /\ pc[e] \in {"start", "read"} => context[e] = None
    /\ pc[e] = "coordinate" /\ context[e] # None => held[e] = context[e]
    /\ MayAppend(e) => context[e] # None /\ held[e] = context[e] /\ result[e] \in Results

(* The context of whoever made a turn is no newer than what the turn is in. *)
Dated(contexts, s) ==
    \A t \in Range(s.turns) :
        /\ contexts[t.text.created_at] # None
        /\ contexts[t.text.created_at].era <= s.era

MemoryIsDated ==
    /\ Dated(context, session)
    /\ \A e \in Executions :
         /\ held[e] # None => Dated(context, held[e])
         /\ context[e] # None => Dated(context, context[e])

(* The store is well typed, and so is what the executions read of it. *)
MemoryTyped ==
    /\ Store!TypeOK
    /\ context \in [Executions -> Snapshots \cup {None}]

LEMMA SessionTyped ==
    ASSUME MemoryTyped
    PROVE  /\ session \in Sessions
           /\ session.turns \in Seq(Turns) /\ Range(session.turns) \subseteq Turns
           /\ session.history \in Seq(Turns)
           /\ session.era \in Nat
BY SameData DEF MemoryTyped, Store!TypeOK, Sessions, Range

LEMMA SnapshotsTyped ==
    ASSUME MemoryTyped, NEW e \in Executions
    PROVE  /\ held[e] # None => held[e] \in Snapshots
           /\ context[e] # None =>
                 /\ context[e] \in Snapshots
                 /\ context[e].turns \in Seq(Turns) /\ Range(context[e].turns) \subseteq Turns
                 /\ context[e].era \in Nat
BY SameData DEF MemoryTyped, Store!TypeOK, Snapshots, Range

(* The turn an execution stores.  It keeps the date of one it found.       *)
LEMMA TurnOfType ==
    ASSUME MemoryTyped, NEW e \in Executions, ContextInv(e), PlaceInv(e), MayAppend(e)
    PROVE  /\ TurnOf(e) \in Turns
           /\ \/ TurnOf(e).text.created_at = e
              \/ \E t \in Range(context[e].turns) :
                   /\ t.turn_id = TurnOf(e).turn_id
                   /\ t.text.created_at = TurnOf(e).text.created_at
<1> DEFINE stored == {i \in DOMAIN context[e].turns : context[e].turns[i].turn_id = RequestOf[e]}
<1> DEFINE date == IF stored = {} THEN e ELSE
                       context[e].turns[CHOOSE i \in stored : TRUE].text.created_at
<1>1. /\ TurnOf(e).turn_id = RequestOf[e]
      /\ TurnOf(e).request_id = RequestOf[e]
      /\ TurnOf(e).text = [answer |-> result[e].answer, created_at |-> date]
      /\ TurnOf(e).text.created_at = date
      /\ TurnOf(e) = [turn_id |-> RequestOf[e], request_id |-> RequestOf[e],
                      text |-> [answer |-> result[e].answer, created_at |-> date]]
  BY DEF TurnOf
<1>2. context[e] # None /\ result[e] \in Results /\ Persistable(result[e])
  BY DEF ContextInv, MayAppend, PlaceInv
<1>3. result[e].answer \in Answers
  BY <1>2, ExecutionsAssumption DEF Persistable, Answers
<1>4. RequestOf[e] \in Range(RequestOf)
  BY ExecutionsAssumption DEF Range
<1>5. ASSUME stored # {}
      PROVE  \E t \in Range(context[e].turns) : t.turn_id = RequestOf[e] /\ t.text.created_at = date
  <2>1. PICK i \in stored : date = context[e].turns[i].text.created_at
    BY <1>5
  <2> QED
    BY <2>1 DEF Range
<1>6. date \in Executions
  <2>1. CASE stored = {}
    BY <2>1
  <2>2. CASE stored # {}
    <3>1. PICK t \in Range(context[e].turns) : t.text.created_at = date
      BY <1>5, <2>2
    <3>2. t \in Turns
      BY <1>2, <3>1, SnapshotsTyped
    <3> QED
      BY <3>1, <3>2, ExecutionsAssumption
  <2> QED
    BY <2>1, <2>2
<1> HIDE DEF date, stored
<1>7. TurnOf(e) \in Turns
  BY <1>1, <1>3, <1>4, <1>6, ExecutionsAssumption
<1>8. stored = {} => date = e
  BY DEF date
<1> QED
  BY <1>1, <1>5, <1>7, <1>8

LEMMA StoreStep ==
    ASSUME TrailInv, MemoryTyped, \A e \in Executions : ContextInv(e), [Next]_vars
    PROVE  [Store!Next]_(Store!vars)
<1>1. ASSUME NEW e \in Executions, MayAppend(e)
      PROVE  TurnOf(e) \in Turns
  BY <1>1, TurnOfType DEF TrailInv
<1>2. CASE UNCHANGED memory
  BY <1>2 DEF memory, Store!vars
<1>3. ASSUME NEW e \in Executions, Start(e) \/ Coordinate(e) \/ Cancel(e)
      PROVE  UNCHANGED memory
  BY <1>3 DEF Start, Coordinate, Cancel
<1>4. ASSUME NEW e \in Executions, Read(e)
      PROVE  UNCHANGED memory \/ Store!Next
  BY <1>4, SameRest DEF Read, Store!Next
<1>5. ASSUME NEW e \in Executions, Persist(e)
      PROVE  Store!Next
  <2>1. TurnOf(e) \in Turns
    BY <1>1, <1>5 DEF Persist, MayAppend
  <2> QED
    BY <1>5, <2>1, SameRest, SameAppend DEF Persist, Persisted, Store!Next, Store!AppendTurn
<1>6. ASSUME NEW e \in Executions, Summarize(e)
      PROVE  UNCHANGED memory \/ Store!Next
  BY <1>6, SameCompact DEF Summarize, Store!Next
<1>7. ASSUME NEW e \in Executions, ThreadEnds(e)
      PROVE  UNCHANGED memory \/ Store!Next
  <2>1. CASE thread[e] = "append" /\ Memory!AppendTurn(e, TurnOf(e))
    <3>1. TurnOf(e) \in Turns
      BY <1>1, <2>1 DEF MayAppend
    <3> QED
      BY <2>1, <3>1, SameAppend DEF Memory!AppendTurn, Store!Next, Store!AppendTurn
  <2> QED
    BY <1>7, <2>1, SameCompact DEF ThreadEnds, Store!Next
<1>8. CASE Expire
  BY <1>8, SameRest DEF Expire, Store!Next
<1>9. CASE UNCHANGED vars
  BY <1>2, <1>9 DEF vars
<1> QED
  BY <1>2, <1>3, <1>4, <1>5, <1>6, <1>7, <1>8, <1>9 DEF Next, Step

(* Anything an execution does, and its thread. *)
Acts(e) == Step(e) \/ Cancel(e) \/ ThreadEnds(e)

LEMMA ActsMove ==
    ASSUME TrailInv, NEW e \in Executions, Acts(e)
    PROVE  Moved(e)
BY StartMoves, ReadMoves, CoordinateMoves, PersistMoves, CancelMoves, ThreadMoves DEF Acts, Step

(* A context is read once, and nobody else's context or snapshot changes.  *)
LEMMA OthersHold ==
    ASSUME MemoryTyped, NEW e \in Executions, Acts(e), ContextInv(e)
    PROVE  /\ \A f \in Executions \ {e} : held'[f] = held[f] /\ context'[f] = context[f]
           /\ context' \in [Executions -> Snapshots \cup {None}]
           /\ \/ context'[e] = context[e]
              \/ /\ context[e] = None
                 /\ context'[e] = SnapshotOf(session)
                 /\ held'[e] = SnapshotOf(session)
<1>1. CASE Start(e) \/ Coordinate(e) \/ Cancel(e)
  BY <1>1 DEF Start, Coordinate, Cancel, memory, MemoryTyped
<1>2. CASE Read(e)
  <2>1. Memory!SnapshotOf(session) = SnapshotOf(session) /\ SnapshotOf(session) \in Snapshots
    BY SessionTyped DEF Memory!SnapshotOf, SnapshotOf, Snapshots, Sessions
  <2> QED
    BY <1>2, <2>1 DEF Read, Memory!Read, Memory!Return, memory, MemoryTyped, Store!TypeOK,
                      ContextInv
<1>3. CASE Persist(e)
  BY <1>3 DEF Persist, Persisted, Memory!AppendRetry, Memory!AppendNew, Memory!AppendConflict,
              Memory!Forget,
              Memory!Return, MemoryTyped, Store!TypeOK
<1>4. ASSUME UNCHANGED memory \/ Memory!Compact(e)
      PROVE  \A f \in Executions \ {e} : held'[f] = held[f]
  BY <1>4 DEF memory, Memory!Compact, Memory!CompactPrefix, Memory!Return, MemoryTyped,
              Store!TypeOK
<1>5. CASE Summarize(e)
  BY <1>4, <1>5 DEF Summarize, MemoryTyped
<1>6. CASE ThreadEnds(e)
  BY <1>4, <1>6 DEF ThreadEnds, Memory!AppendTurn, Memory!AppendRetry, Memory!AppendNew,
                    Memory!AppendConflict,
                    Memory!Return, MemoryTyped, Store!TypeOK
<1> QED
  BY <1>1, <1>2, <1>3, <1>5, <1>6 DEF Acts, Step

LEMMA ContextActs ==
    ASSUME TrailInv, MemoryTyped, NEW e \in Executions, ContextInv(e), Acts(e)
    PROVE  ContextInv(e)'
<1> USE DEF ContextInv, MayAppend
<1>1. thread[e] # "none" => pc[e] = "cancelled"
  BY DEF TrailInv, PlaceInv
<1>2. CASE Start(e)
  <2>1. pc'[e] \in {"done", "coordinate", "raised", "read"}
    BY <1>2 DEF Start, Respond, Release, StartWorkflow, Raise, Goto, TrailInv, Shape
  <2> QED
    BY <1>1, <1>2, <2>1 DEF Start, memory
<1>3. CASE Read(e)
  <2>1. pc'[e] \in {"coordinate", "raised"}
    BY <1>3 DEF Read, StartWorkflow, Raise, Goto, TrailInv, Shape
  <2>2. pc'[e] = "coordinate" /\ context'[e] # None => held'[e] = context'[e]
    BY <1>3, OthersHold, <2>1 DEF Read, Raise, Goto, TrailInv, Shape, Acts, Step
  <2> QED
    BY <1>1, <1>3, <2>1, <2>2 DEF Read
<1>4. CASE Coordinate(e)
  <2>1. UNCHANGED <<held, context, thread>>
    BY <1>4 DEF Coordinate, memory
  <2>2. \/ pc'[e] \in {"done", "raised"}
        \/ pc'[e] = "persist" /\ context[e] # None /\ result'[e] \in Results
    BY <1>4 DEF Coordinate, Continue, Release, Respond, Raise, SetResult, Goto, TrailInv, Shape
  <2> QED
    BY <1>1, <1>4, <2>1, <2>2 DEF Coordinate
<1>5. CASE Persist(e) \/ Summarize(e)
  <2>1. pc'[e] \in {"summarize", "done"}
    BY <1>5 DEF Persist, Unpersisted, Summarize, Release, Respond, Goto, TrailInv, Shape
  <2> QED
    BY <1>1, <1>5, <2>1 DEF Persist, Summarize
<1>6. CASE Cancel(e)
  <2>1. pc'[e] = "cancelled" /\ thread'[e] = LeftBehind(e) /\ UNCHANGED <<held, context, result>>
    BY <1>6 DEF Cancel, Goto, TrailInv, Shape, memory
  <2> QED
    BY <2>1 DEF LeftBehind
<1>7. CASE ThreadEnds(e)
  <2>1. thread'[e] = "none" /\ pc'[e] = "cancelled" /\ pc[e] = "cancelled"
    BY <1>1, <1>7 DEF ThreadEnds, TrailInv, Shape
  <2> QED
    BY <2>1
<1> QED
  BY <1>2, <1>3, <1>4, <1>5, <1>6, <1>7 DEF Acts, Step

(* ContextInv of every execution. *)
AllContexts == \A e \in Executions : ContextInv(e)

LEMMA ContextStep ==
    ASSUME TrailInv, MemoryTyped, AllContexts, [Next]_vars
    PROVE  AllContexts' /\ MemoryTyped'
<1>1. Store!TypeOK'
  BY StoreStep, StoreTypes DEF MemoryTyped, AllContexts
<1>2. ASSUME NEW e \in Executions, Acts(e)
      PROVE  AllContexts' /\ context' \in [Executions -> Snapshots \cup {None}]
  <2>1. ContextInv(e)' /\ Moved(e)
    BY <1>2, ContextActs, ActsMove DEF AllContexts
  <2>2. ASSUME NEW f \in Executions \ {e} PROVE ContextInv(f)'
    <3>1. held'[f] = held[f] /\ context'[f] = context[f]
      BY <1>2, OthersHold DEF AllContexts
    <3>2. pc'[f] = pc[f] /\ result'[f] = result[f] /\ thread'[f] = thread[f]
      BY <2>1 DEF Moved, Others
    <3> QED
      BY <3>1, <3>2 DEF AllContexts, ContextInv, MayAppend
  <2> QED
    BY <1>2, <2>1, <2>2, OthersHold DEF AllContexts
<1>3. CASE Expire \/ UNCHANGED vars
  <2>1. UNCHANGED <<held, context, pc, result, thread>>
    BY <1>3 DEF Expire, Memory!Tick, vars, memory
  <2> QED
    BY <1>1, <2>1 DEF AllContexts, ContextInv, MayAppend, MemoryTyped
<1> QED
  BY <1>1, <1>2, <1>3 DEF Next, Acts, MemoryTyped

-----------------------------------------------------------------------------
(* What a step does to the turns. *)

(* An execution, or the thread it left, stores a new turn. *)
Adds(e) == MayAppend(e) /\ Memory!AppendNew(e, TurnOf(e))

LEMMA AppendedTurns ==
    ASSUME MemoryTyped, NEW t \in Turns, session' = Memory!Appended(session, t)
    PROVE  /\ Range(session'.turns) \subseteq Range(session.turns) \cup {t}
           /\ session'.era = session.era
           /\ Last(session'.history) = t
<1> DEFINE turns == Append(session.turns, t)
<1>1. /\ session.turns \in Seq(Turns) /\ session.history \in Seq(Turns)
      /\ session \in Sessions
  BY SessionTyped
<1>2. /\ session'.turns = Store!Newest(turns, MaxTurns)
      /\ session'.history = Append(session.history, t)
      /\ session'.era = session.era
  BY <1>1 DEF Memory!Appended, Memory!Newest, Store!Newest, Sessions
<1>3. /\ turns \in Seq(Turns)
      /\ \A i \in DOMAIN turns : turns[i] \in Range(session.turns) \cup {t}
  <2>1. /\ DOMAIN turns = 1..(Len(session.turns) + 1)
        /\ \A i \in 1..Len(session.turns) : turns[i] = session.turns[i]
        /\ turns[Len(session.turns) + 1] = t
        /\ turns \in Seq(Turns)
    BY <1>1
  <2>2. /\ DOMAIN session.turns = 1..Len(session.turns) /\ Len(session.turns) \in Nat
        /\ \A i \in 1..(Len(session.turns) + 1) :
              i \in 1..Len(session.turns) \/ i = Len(session.turns) + 1
    BY <1>1
  <2> HIDE DEF turns
  <2> QED
    BY <2>1, <2>2 DEF Range
<1> HIDE DEF turns
<1>4. MaxTurns \in Nat
  BY PolicyAssumption
<1>5. /\ Store!Newest(turns, MaxTurns) \in Seq(Turns)
      /\ Len(Store!Newest(turns, MaxTurns)) <= Len(turns)
      /\ \A i \in 1..Len(Store!Newest(turns, MaxTurns)) :
            Store!Newest(turns, MaxTurns)[i]
                = turns[i + Len(turns) - Len(Store!Newest(turns, MaxTurns))]
  <2>1. /\ Store!Newest(turns, MaxTurns) \in Seq(Turns)
        /\ Len(Store!Newest(turns, MaxTurns))
             = IF Len(turns) <= MaxTurns THEN Len(turns) ELSE MaxTurns
        /\ \A i \in 1..Len(Store!Newest(turns, MaxTurns)) :
              Store!Newest(turns, MaxTurns)[i]
                  = turns[i + Len(turns) - Len(Store!Newest(turns, MaxTurns))]
    BY <1>3, <1>4, StoreAssumptions, Store!NewestIsSuffix
  <2> QED
    BY <1>3, <1>4, <2>1
<1> DEFINE newest == Store!Newest(turns, MaxTurns)
<1>6. ASSUME NEW i \in DOMAIN newest PROVE newest[i] \in Range(session.turns) \cup {t}
  <2> DEFINE j == i + Len(turns) - Len(newest)
  <2>1. i \in 1..Len(newest) /\ Len(newest) \in Nat /\ Len(turns) \in Nat
    BY <1>3, <1>5
  <2>2. j \in DOMAIN turns
    BY <1>3, <1>5, <2>1
  <2>3. newest[i] = turns[j]
    BY <1>5, <2>1
  <2> HIDE DEF j, newest
  <2> QED
    BY <1>3, <2>2, <2>3
<1>7. Last(session'.history) = t
  BY <1>1, <1>2 DEF Last
<1> HIDE DEF newest
<1>8. Range(newest) \subseteq Range(session.turns) \cup {t}
  BY <1>6 DEF Range
<1> QED
  BY <1>2, <1>7, <1>8 DEF newest

LEMMA CompactedTurns ==
    ASSUME MemoryTyped, NEW e \in Executions, Memory!Compact(e)
    PROVE  /\ Range(session'.turns) \subseteq Range(session.turns)
           /\ session'.era = session.era
           /\ session'.history = session.history
<1>1. session \in Sessions /\ session.turns \in Seq(Turns)
  BY SessionTyped
<1>2. CASE session' = session
  BY <1>2
<1>3. ASSUME NEW n \in Memory!CompactablePrefixes(held[e]), NEW summary,
             session' = Memory!Compacted(session, summary, n)
      PROVE  /\ Range(session'.turns) \subseteq Range(session.turns)
             /\ session'.era = session.era
             /\ session'.history = session.history
  <2>1. /\ session'.turns = SubSeq(session.turns, n + 1, Len(session.turns))
        /\ session'.era = session.era
        /\ session'.history = session.history
    BY <1>1, <1>3 DEF Memory!Compacted, Sessions
  <2>2. n \in Nat
    <3>1. held[e] \in Snapshots
      BY SnapshotsTyped DEF Memory!Compact
    <3>2. Len(held[e].turns) \in Nat
      BY <3>1 DEF Snapshots
    <3> QED
      BY <3>2 DEF Memory!CompactablePrefixes
  <2>3. ASSUME NEW i \in DOMAIN SubSeq(session.turns, n + 1, Len(session.turns))
        PROVE  SubSeq(session.turns, n + 1, Len(session.turns))[i] \in Range(session.turns)
    <3>1. i + n \in DOMAIN session.turns
      BY <1>1, <2>2
    <3>2. SubSeq(session.turns, n + 1, Len(session.turns))[i] = session.turns[i + n]
      BY <1>1, <2>2
    <3> QED
      BY <3>1, <3>2 DEF Range
  <2> DEFINE rest == SubSeq(session.turns, n + 1, Len(session.turns))
  <2> HIDE DEF rest
  <2>4. Range(rest) \subseteq Range(session.turns)
    BY <2>3 DEF Range, rest
  <2> QED
    BY <2>1, <2>4 DEF rest
<1> QED
  BY <1>2, <1>3 DEF Memory!Compact, Memory!CompactPrefix

(* Only a new turn makes the history longer, or is new in the window.      *)
LEMMA TurnSteps ==
    ASSUME TrailInv, MemoryTyped, AllContexts, [Next]_vars
    PROVE  \/ \E e \in Executions : Adds(e) /\ Acts(e)
           \/ /\ Range(session'.turns) \subseteq Range(session.turns)
              /\ session.era <= session'.era
              /\ session'.history = session.history \/ session'.history = <<>>
<1>1. session \in Sessions /\ session.era \in Nat
  BY SessionTyped
<1>2. CASE session' = session
  BY <1>1, <1>2
<1>3. ASSUME NEW e \in Executions, Start(e) \/ Read(e) \/ Coordinate(e) \/ Cancel(e)
      PROVE  session' = session
  BY <1>3 DEF Start, Read, Memory!Read, Coordinate, Cancel, memory
<1>4. ASSUME NEW e \in Executions, Persist(e)
      PROVE  session' = session \/ Adds(e)
  BY <1>4 DEF Persist, Persisted, Memory!AppendRetry, Memory!AppendConflict, Memory!Forget,
              Adds, MayAppend
<1>5. ASSUME NEW e \in Executions, Summarize(e)
      PROVE  session' = session \/ Memory!Compact(e)
  BY <1>5 DEF Summarize, memory
<1>6. ASSUME NEW e \in Executions, ThreadEnds(e)
      PROVE  session' = session \/ Memory!Compact(e) \/ Adds(e)
  BY <1>6 DEF ThreadEnds, memory, Memory!AppendTurn, Memory!AppendRetry, Memory!AppendConflict,
              Adds, MayAppend
<1>7. ASSUME NEW e \in Executions, Memory!Compact(e)
      PROVE  /\ Range(session'.turns) \subseteq Range(session.turns)
             /\ session.era <= session'.era
             /\ session'.history = session.history
  BY <1>1, <1>7, CompactedTurns
<1>8. CASE Expire
  <2>1. CASE session' = Memory!EmptySession(session.era + 1)
    BY <1>1, <2>1 DEF Memory!EmptySession, Range
  <2>2. CASE session' = [session EXCEPT !.life = @ - 1]
    BY <1>1, <2>2 DEF Sessions
  <2> QED
    BY <1>8, <2>1, <2>2 DEF Expire, Memory!Tick
<1>9. CASE UNCHANGED vars
  BY <1>2, <1>9 DEF vars, memory
<1> QED
  BY <1>2, <1>3, <1>4, <1>5, <1>6, <1>7, <1>8, <1>9 DEF Next, Step, Acts

-----------------------------------------------------------------------------
(* Dates. *)

LEMMA HeldMoves ==
    ASSUME MemoryTyped, [Store!Next]_(Store!vars), NEW e \in Executions
    PROVE  held'[e] \in {held[e], None, SnapshotOf(session), SnapshotOf(session')}
<1>1. /\ Store!SnapshotOf(session) = SnapshotOf(session)
      /\ Store!SnapshotOf(session') = SnapshotOf(session')
  BY DEF Store!SnapshotOf, SnapshotOf
<1>2. \/ Store!Reads
      \/ UNCHANGED held
      \/ \E c \in Executions : Store!Writes(c)
  BY StoreAssumptions, Store!Steps
     DEF MemoryTyped, Store!Appends, Store!Clears, Store!Compacts, Store!Expires, Store!Ages
<1> QED
  BY <1>1, <1>2 DEF Store!Reads, Store!Writes, MemoryTyped, Store!TypeOK

(* What is dated stays dated: a context that was read does not change.     *)
LEMMA DateStays ==
    ASSUME NEW contexts, NEW s, NEW r,
           \A e \in Executions : context[e] # None => contexts[e] = context[e],
           MemoryTyped, s.era \in Nat, r.era \in Nat, Range(s.turns) \subseteq Turns,
           Dated(context, s), Range(r.turns) \subseteq Range(s.turns), s.era <= r.era
    PROVE  Dated(contexts, r)
<1> SUFFICES ASSUME NEW t \in Range(r.turns)
             PROVE  /\ contexts[t.text.created_at] # None
                    /\ contexts[t.text.created_at].era <= r.era
  BY DEF Dated
<1> DEFINE e == t.text.created_at
<1>1. t \in Turns /\ t \in Range(s.turns)
  OBVIOUS
<1>2. e \in Executions
  BY <1>1, ExecutionsAssumption
<1>3. context[e] # None /\ context[e].era <= s.era
  BY <1>1 DEF Dated
<1>4. contexts[e] = context[e] /\ context[e].era \in Nat
  BY <1>2, <1>3, SnapshotsTyped
<1> QED
  BY <1>3, <1>4

LEMMA ContextsStay ==
    ASSUME TrailInv, MemoryTyped, AllContexts, [Next]_vars
    PROVE  /\ \A e \in Executions : context[e] # None => context'[e] = context[e]
           /\ \A e \in Executions : context'[e] \in {context[e], SnapshotOf(session)}
<1>1. ASSUME NEW e \in Executions, Acts(e)
      PROVE  /\ \A f \in Executions : context[f] # None => context'[f] = context[f]
             /\ \A f \in Executions : context'[f] \in {context[f], SnapshotOf(session)}
  BY <1>1, OthersHold DEF AllContexts
<1>2. Expire \/ UNCHANGED vars => UNCHANGED context
  BY DEF Expire, vars
<1> QED
  BY <1>1, <1>2 DEF Next, Acts

(* The date of a new turn is that of its execution, or of a turn it read.  *)
LEMMA NewTurnDated ==
    ASSUME TrailInv, MemoryTyped, AllContexts, Store!VersionInv, MemoryIsDated,
           NEW f \in Executions, MayAppend(f)
    PROVE  LET e == TurnOf(f).text.created_at
           IN  /\ e \in Executions
               /\ context[e] # None
               /\ context[e].era <= context[f].era
               /\ context[f].era <= session.era
<1> DEFINE e == TurnOf(f).text.created_at
<1>1. /\ context[f] # None /\ held[f] = context[f]
      /\ context[f].era \in Nat /\ session.era \in Nat
  BY SnapshotsTyped, SessionTyped DEF AllContexts, ContextInv
<1>2. context[f].era <= session.era
  BY <1>1 DEF Store!VersionInv, Store!VersionsOrdered
<1>3. TurnOf(f) \in Turns
  BY TurnOfType DEF AllContexts, TrailInv
<1>4. e \in Executions
  BY <1>3, ExecutionsAssumption
<1>5. context[e] # None /\ context[e].era <= context[f].era
  <2>1. CASE e = f
    BY <1>1, <2>1
  <2>2. ASSUME NEW t \in Range(context[f].turns), t.text.created_at = e
        PROVE  context[e] # None /\ context[e].era <= context[f].era
    BY <1>1, <2>2 DEF MemoryIsDated, Dated
  <2> QED
    BY <2>1, <2>2, TurnOfType DEF AllContexts, TrailInv
<1> QED
  BY <1>2, <1>4, <1>5

LEMMA DateStep ==
    ASSUME TrailInv, MemoryTyped, AllContexts, Store!VersionInv, MemoryIsDated, [Next]_vars
    PROVE  MemoryIsDated'
<1>1. /\ MemoryTyped' /\ session.era \in Nat /\ session'.era \in Nat
      /\ Range(session.turns) \subseteq Turns
  <2>1. MemoryTyped'
    BY ContextStep
  <2>2. session' \in Sessions
    BY <2>1, SameData DEF MemoryTyped, Store!TypeOK
  <2> QED
    BY <2>1, <2>2, SessionTyped DEF Sessions
<1>2. \A e \in Executions : context[e] # None => context'[e] = context[e]
  BY ContextsStay
<1>3. Dated(context', session)
  BY <1>1, <1>2, DateStays DEF MemoryIsDated
<1>4. Dated(context', session')
  <2>1. ASSUME NEW f \in Executions, Adds(f)
        PROVE  Dated(context', session')
    <3> DEFINE e == TurnOf(f).text.created_at
    <3>1. /\ Range(session'.turns) \subseteq Range(session.turns) \cup {TurnOf(f)}
          /\ session'.era = session.era
      <4>1. TurnOf(f) \in Turns
        BY <2>1, TurnOfType DEF Adds, AllContexts, TrailInv
      <4>2. session' = Memory!Appended(session, TurnOf(f))
        BY <2>1 DEF Adds, Memory!AppendNew
      <4> QED
        BY <4>1, <4>2, AppendedTurns
    <3>2. e \in Executions /\ context[e] # None /\ context[e].era <= session.era
      <4>1. /\ e \in Executions /\ context[e] # None
            /\ context[e].era <= context[f].era /\ context[f].era <= session.era
        BY <2>1, NewTurnDated DEF Adds
      <4>2. context[e].era \in Nat /\ context[f].era \in Nat
        BY <2>1, <4>1, SnapshotsTyped DEF Adds, AllContexts, ContextInv
      <4> QED
        BY <1>1, <4>1, <4>2
    <3>3. context'[e] # None /\ context'[e].era <= session.era
      BY <1>2, <3>2
    <3> QED
      BY <1>3, <3>1, <3>3 DEF Dated
  <2>2. CASE /\ Range(session'.turns) \subseteq Range(session.turns)
             /\ session.era <= session'.era
    BY <1>1, <1>2, <2>2, DateStays DEF MemoryIsDated
  <2> QED
    BY <2>1, <2>2, TurnSteps
<1>5. /\ Dated(context', SnapshotOf(session))
      /\ Dated(context', SnapshotOf(session'))
  BY <1>3, <1>4 DEF Dated, SnapshotOf
<1>6. ASSUME NEW e \in Executions, held[e] # None
      PROVE  Dated(context', held[e])
  <2>1. held[e].era \in Nat /\ Range(held[e].turns) \subseteq Turns
    BY <1>6, SnapshotsTyped DEF Snapshots, Range
  <2> QED
    BY <1>2, <1>6, <2>1, DateStays DEF MemoryIsDated
<1>7. ASSUME NEW e \in Executions, context[e] # None
      PROVE  Dated(context', context[e])
  BY <1>2, <1>7, SnapshotsTyped, DateStays DEF MemoryIsDated
<1>8. ASSUME NEW e \in Executions, held'[e] # None
      PROVE  Dated(context', held'[e])
  BY <1>5, <1>6, <1>8, HeldMoves, StoreStep DEF AllContexts
<1>9. ASSUME NEW e \in Executions, context'[e] # None
      PROVE  Dated(context', context'[e])
  BY <1>5, <1>7, <1>9, ContextsStay
<1> QED
  BY <1>4, <1>8, <1>9 DEF MemoryIsDated

(* The contexts and dates of an execution, on a store whose snapshots are  *)
(* in order: what TurnsFollowTheirContext needs to be inductive.           *)
ContextsInv ==
    /\ TrailInv /\ MemoryTyped /\ AllContexts
    /\ Store!VersionInv /\ MemoryIsDated

LEMMA ContextsInit == Init => ContextsInv
<1> SUFFICES ASSUME Init PROVE ContextsInv
  OBVIOUS
<1>1. TrailInv
  BY TrailInit
<1>2. Store!Init
  BY DEF Init, Memory!Init, Memory!EmptySession, Store!Init, Store!EmptySession
<1>3. session = EmptySession(0) /\ session \in Sessions
  BY <1>2, PolicyAssumption DEF Store!Init, Store!EmptySession, EmptySession, Sessions
<1>4. /\ \A e \in Executions : held[e] = None /\ context[e] = None
      /\ held \in [Executions -> {None}] /\ context \in [Executions -> {None}]
  BY <1>2 DEF Init, Store!Init
<1>5. MemoryTyped
  BY <1>3, <1>4, SameData DEF MemoryTyped, Store!TypeOK
<1>6. AllContexts
  BY <1>4 DEF Init, AllContexts, ContextInv, MayAppend
<1>7. Store!VersionInv
  BY <1>4 DEF Store!VersionInv, Store!VersionsOrdered, Store!VersionIdentifiesState
<1>8. MemoryIsDated
  BY <1>3, <1>4 DEF MemoryIsDated, Dated, EmptySession, Range
<1> QED
  BY <1>1, <1>5, <1>6, <1>7, <1>8 DEF ContextsInv

LEMMA ContextsInvariant == Spec => []ContextsInv
<1>1. ContextsInv /\ [Next]_vars => ContextsInv'
  <2> SUFFICES ASSUME ContextsInv, [Next]_vars PROVE ContextsInv'
    OBVIOUS
  <2>1. Store!VersionInv'
    BY StoreStep, StoreVersions DEF ContextsInv, MemoryTyped, AllContexts
  <2> QED
    BY <2>1, TrailStep, ContextStep, DateStep DEF ContextsInv
<1> QED
  BY <1>1, ContextsInit, PTL DEF Spec

(* The executions are clients of a session store: whatever they do to the  *)
(* memory, threads left behind and failed calls included, is a step of it. *)
THEOREM ExecutionsAreClients == Spec => Store!Spec
<1>1. Init => Store!Init
  BY DEF Init, Memory!Init, Memory!EmptySession, Store!Init, Store!EmptySession
<1>2. ContextsInv /\ [Next]_vars => [Store!Next]_(Store!vars)
  BY StoreStep DEF ContextsInv, AllContexts
<1> QED
  BY <1>1, <1>2, ContextsInvariant, PTL DEF Spec, Store!Spec

(* Nobody wrote to the session between the read a turn was answered from   *)
(* and the append that stores it, however many executions and threads are  *)
(* under way, and also when the turn is the retry of one that was stored.  *)
THEOREM TurnsJoinTheirContext == Spec => TurnsFollowTheirContext
<1> DEFINE Follows ==
      \A e \in Executions :
         (/\ Len(session'.history) > Len(session.history)
          /\ Last(session'.history).text.created_at = e
          /\ context[e].era = session.era)
            => context[e] = SnapshotOf(session)
<1>1. ContextsInv /\ [Next]_vars => Follows
  <2> SUFFICES ASSUME ContextsInv, [Next]_vars, NEW e \in Executions,
                      Len(session'.history) > Len(session.history),
                      Last(session'.history).text.created_at = e,
                      context[e].era = session.era
               PROVE  context[e] = SnapshotOf(session)
    OBVIOUS
  <2> USE DEF ContextsInv
  <2>1. PICK f \in Executions : Adds(f)
    <3>1. Len(session.history) \in Nat
      BY SessionTyped
    <3>2. Len(<<>>) = 0
      OBVIOUS
    <3> QED
      BY <3>1, <3>2, TurnSteps
  <2>2. /\ context[f] # None /\ held[f] = context[f]
        /\ context[f].era \in Nat /\ session.era \in Nat
    BY <2>1, SnapshotsTyped, SessionTyped DEF Adds, AllContexts, ContextInv
  <2>3. TurnOf(f) \in Turns
    BY <2>1, TurnOfType DEF Adds, AllContexts, TrailInv
  <2>4. TurnOf(f).text.created_at = e
    <3>1. session' = Memory!Appended(session, TurnOf(f))
      BY <2>1 DEF Adds, Memory!AppendNew
    <3> QED
      BY <2>3, <3>1, AppendedTurns
  <2>5. context[f].era = session.era => context[f] = SnapshotOf(session)
    <3>1. held[f].version = session.version
      BY <2>1 DEF Adds, Memory!AppendNew
    <3>2. Store!SnapshotOf(session) = SnapshotOf(session)
      BY DEF Store!SnapshotOf, SnapshotOf
    <3> QED
      BY <2>2, <3>1, <3>2 DEF Store!VersionInv, Store!VersionIdentifiesState
  <2>6. context[f].era = session.era
    <3>1. /\ context[f].era <= session.era
          /\ context[e] # None /\ context[e].era <= context[f].era
      BY <2>1, <2>4, NewTurnDated DEF Adds
    <3> QED
      BY <2>2, <3>1
  <2>7. e = f
    <3> SUFFICES ASSUME e # f PROVE FALSE
      OBVIOUS
    <3>1. PICK t \in Range(session.turns) : t.turn_id = TurnOf(f).turn_id
      BY <2>1, <2>4, <2>5, <2>6, TurnOfType DEF Adds, AllContexts, TrailInv, SnapshotOf
    <3>2. Memory!Reused(session.turns, TurnOf(f))
      BY <3>1 DEF Memory!Reused, Memory!SameTurn, Range
    <3> QED
      BY <2>1, <3>2 DEF Adds, Memory!AppendNew
  <2> QED
    BY <2>5, <2>6, <2>7
<1>2. ContextsInv /\ [Next]_vars => [Follows]_vars
  BY <1>1
<1> QED
  BY <1>2, ContextsInvariant, PTL DEF Spec, TurnsFollowTheirContext
=============================================================================
