----------------------- MODULE FormalRequestExecutor -----------------------
(***************************************************************************)
(* FormalRequestExecutor.execute, as the configured runtime composes it    *)
(* (authorization, provider governance and a session memory), for several  *)
(* requests of one session that run concurrently on the event loop.        *)
(*                                                                         *)
(* An execution is one call of execute; a client that retries a request    *)
(* executes the same request_id again.  The loop runs an execution from    *)
(* one await to the next, which is one action here.  It awaits the store,  *)
(* whose calls run in worker threads, and the coordinator.  A cancelled    *)
(* execution no longer waits for its store call, but the call goes on.     *)
(*                                                                         *)
(* What the coordinator answers and whether the summarizer succeeds is     *)
(* nondeterministic, and traces are left out: they never change what the   *)
(* executor does.  An audit event is recorded when its append returned;    *)
(* AuditChain says what a failed append leaves in the file.                *)
(***************************************************************************)
EXTENDS SessionMemory, SequencesExt

CONSTANTS
    Executions,  \* calls of execute
    RequestOf,   \* the request_id of each execution
    Results,     \* what a coordinator may return
    Blank,       \* an answer of spaces only
    MaxVersion,  \* bound: never reached, there are two writes per execution
    MaxEra       \* bound: the session expires this many times

Answers == {res.answer : res \in Results} \ {Blank, None}

ASSUME BoundsAssumption == MaxVersion \in Nat /\ MaxEra \in Nat

ASSUME ExecutionsAssumption ==
    /\ DOMAIN RequestOf = Executions
    /\ Turns = [turn_id : Range(RequestOf), request_id : Range(RequestOf),
                text : [answer : Answers, created_at : Executions]]
    /\ \A res \in Results : res.completed <=> res.answer # None

VARIABLES
    session,      \* the stored session
    held,         \* the snapshot each execution goes on with
    context,      \* the snapshot whose projection the coordinator was given
    pc,           \* the await each execution is at
    result,       \* the CoordinatorResult
    persistence,  \* the MemoryPersistenceStatus
    thread,       \* the store call a cancelled execution left behind
    audit,        \* the audit events of each execution
    response      \* what execute returned: an answer and its status

memory == <<session, held>>
vars == <<memory, context, pc, result, persistence, thread, audit, response>>

Memory == INSTANCE SessionStore WITH Clients <- Executions

Waiting == {"start", "read", "coordinate", "persist", "summarize"}
Ended == {"done", "raised", "cancelled"}
Statuses == {"not_requested", "skipped", "persisted", "version_conflict",
             "idempotency_conflict", "store_failure"}
AuditEvents == {"workflow_started", "workflow_completed", "workflow_failed",
                "response_release_allowed", "response_release_blocked"}

TypeOK ==
    /\ Memory!TypeOK
    /\ context \in [Executions -> Snapshots \cup {None}]
    /\ pc \in [Executions -> Waiting \cup Ended]
    /\ result \in [Executions -> Results \cup {None}]
    /\ persistence \in [Executions -> Statuses]
    /\ thread \in [Executions -> {"none", "append", "compact"}]
    /\ audit \in [Executions -> Seq(AuditEvents)]
    /\ response \in [Executions ->
           [answer : Answers \cup {Blank, None}, persistence : Statuses] \cup {None}]

Init ==
    /\ Memory!Init
    /\ context = [e \in Executions |-> None]
    /\ pc = [e \in Executions |-> "start"]
    /\ result = [e \in Executions |-> None]
    /\ persistence = [e \in Executions |-> "not_requested"]
    /\ thread = [e \in Executions |-> "none"]
    /\ audit = [e \in Executions |-> <<>>]
    /\ response = [e \in Executions |-> None]

Goto(e, await) == pc' = [pc EXCEPT ![e] = await]
SetAudit(e, trail) == audit' = [audit EXCEPT ![e] = trail]
SetResult(e, res) == result' = [result EXCEPT ![e] = res]
SetPersistence(e, status) == persistence' = [persistence EXCEPT ![e] = status]

-----------------------------------------------------------------------------
(* _release_response, the end of every execution that does not raise.      *)

Respond(e, trail, answer, status) ==
    /\ SetAudit(e, trail)
    /\ response' = [response EXCEPT ![e] = [answer |-> answer, persistence |-> status]]
    /\ Goto(e, "done")

Releasable(res) == res.completed /\ res.cited

(* A bug: an approval that cannot be recorded does not block the answer.   *)
ReleaseMutant(e, trail, res, status) ==
    \/ /\ Releasable(res)
       /\ \/ Respond(e, Append(trail, "response_release_allowed"), res.answer, status)
          \/ Respond(e, trail, res.answer, status)
    \/ /\ ~Releasable(res)
       /\ Respond(e, Append(trail, "response_release_blocked"), None, "not_requested")

Release(e, trail, res, status) ==
    \/ /\ Releasable(res)
       /\ Respond(e, Append(trail, "response_release_allowed"), res.answer, status)
    \/ /\ ~Releasable(res)
       /\ Respond(e, Append(trail, "response_release_blocked"), None, "not_requested")
    \/ Respond(e, trail, None, "not_requested")  \* the audit append failed

Raise(e, trail) == Goto(e, "raised") /\ SetAudit(e, trail) /\ UNCHANGED response

-----------------------------------------------------------------------------
(* execute, up to the coordinator. *)

StartWorkflow(e) ==
    \/ /\ Goto(e, "coordinate")
       /\ SetAudit(e, Append(audit[e], "workflow_started"))
       /\ UNCHANGED response
    \/ Raise(e, audit[e])

Refusal == [completed |-> FALSE, answer |-> None, cited |-> FALSE]

(* Authorization comes before memory, router and providers.  Without a     *)
(* security context the refusal does not pass the release gate.            *)
Start(e) ==
    /\ pc[e] = "start"
    /\ \/ Respond(e, audit[e], None, "not_requested")
       \/ Release(e, audit[e], Refusal, "not_requested")
       \/ StartWorkflow(e)
       \/ Goto(e, "read") /\ UNCHANGED <<audit, response>>
    /\ UNCHANGED <<memory, context, result, persistence, thread>>

Read(e) ==
    /\ pc[e] = "read"
    /\ \/ /\ Memory!Read(e)
          /\ context' = [context EXCEPT ![e] = SnapshotOf(session)]
          /\ StartWorkflow(e)
       \/ /\ Raise(e, audit[e])
          /\ UNCHANGED <<memory, context>>
    /\ UNCHANGED <<result, persistence, thread>>

-----------------------------------------------------------------------------
(* The coordinator returns or raises. *)

CompletionEvent(res) == IF res.completed THEN "workflow_completed" ELSE "workflow_failed"

Persistable(res) == res.completed /\ res.answer # Blank

(* After the workflow: no memory, nothing to remember, or a turn to store. *)
Continue(e, trail, res) ==
    \/ /\ context[e] = None
       /\ Release(e, trail, res, "not_requested")
       /\ UNCHANGED persistence
    \/ /\ context[e] # None
       /\ ~Persistable(res)
       /\ Release(e, trail, res, "skipped")
       /\ SetPersistence(e, "skipped")
    \/ /\ context[e] # None
       /\ Persistable(res)
       /\ Goto(e, "persist")
       /\ SetAudit(e, trail)
       /\ UNCHANGED <<persistence, response>>

(* A bug: the completion is audited best-effort.                           *)
CoordinateMutant(e) ==
    /\ pc[e] = "coordinate"
    /\ \E res \in Results :
         /\ SetResult(e, res)
         /\ \/ Continue(e, Append(audit[e], CompletionEvent(res)), res)
            \/ Continue(e, audit[e], res)
    /\ UNCHANGED <<memory, context, thread>>

Coordinate(e) ==
    /\ pc[e] = "coordinate"
    /\ \/ \E res \in Results :
            /\ SetResult(e, res)
            /\ Continue(e, Append(audit[e], CompletionEvent(res)), res)
       \/ /\ Raise(e, audit[e])
          /\ UNCHANGED <<result, persistence>>
    /\ UNCHANGED <<memory, context, thread>>

-----------------------------------------------------------------------------
(* _persist_successful_turn and _summarize_persisted_turn *)

TurnOf(e) ==
    LET stored == {i \in DOMAIN context[e].turns : context[e].turns[i].turn_id = RequestOf[e]} IN
    [turn_id |-> RequestOf[e], request_id |-> RequestOf[e],
     text |-> [answer |-> result[e].answer,
               created_at |-> IF stored = {} THEN e ELSE
                   context[e].turns[CHOOSE i \in stored : TRUE].text.created_at]]

(* A bug: the version is read again before the write.                      *)
PersistedMutant(e) ==
    /\ ~Reused(session.turns, TurnOf(e))
    /\ session' = Appended(session, TurnOf(e))
    /\ held' = [held EXCEPT ![e] = SnapshotOf(session')]

Persisted(e) == Memory!AppendRetry(e, TurnOf(e)) \/ Memory!AppendNew(e, TurnOf(e))

Unpersisted(e, status) ==
    /\ SetPersistence(e, status)
    /\ Release(e, audit[e], result[e], status)

ConflictStatus(e) ==
    IF Reused(session.turns, TurnOf(e)) THEN "idempotency_conflict" ELSE "version_conflict"

(* A bug: a conflict is tried again with the same version.                 *)
PersistMutant(e) ==
    /\ pc[e] = "persist"
    /\ \/ /\ Persisted(e)
          /\ SetPersistence(e, "persisted")
          /\ Goto(e, "summarize")
       \/ /\ Reused(session.turns, TurnOf(e)) \/ held[e].version # session.version
          /\ UNCHANGED <<memory, pc, persistence>>
    /\ UNCHANGED <<context, result, thread, audit, response>>

(* When the store raises, with Redis the write may have been done.         *)
Persist(e) ==
    /\ pc[e] = "persist"
    /\ \/ /\ Persisted(e)
          /\ SetPersistence(e, "persisted")
          /\ Goto(e, "summarize")
          /\ UNCHANGED <<audit, response>>
       \/ /\ Memory!AppendConflict(e, TurnOf(e))
          /\ Unpersisted(e, ConflictStatus(e))
       \/ /\ Memory!Forget(e) \/ Memory!AppendNew(e, TurnOf(e))
          /\ Unpersisted(e, "store_failure")
    /\ UNCHANGED <<context, result, thread>>

(* Nothing to compact, compacted, refused, or a failure on the way.        *)
Summarize(e) ==
    /\ pc[e] = "summarize"
    /\ UNCHANGED memory \/ Memory!Compact(e)
    /\ Release(e, audit[e], result[e], "persisted")
    /\ UNCHANGED <<context, result, persistence, thread>>

-----------------------------------------------------------------------------
(* Cancellation at an await; the store call of asyncio.to_thread is not    *)
(* undone: it runs to its end, or never starts if it was still queued.     *)
LeftBehind(e) ==
    CASE pc[e] = "persist" -> "append" [] pc[e] = "summarize" -> "compact" [] OTHER -> "none"

Cancel(e) ==
    /\ pc[e] \in Waiting \ {"start"}
    /\ thread' = [thread EXCEPT ![e] = LeftBehind(e)]
    /\ Goto(e, "cancelled")
    /\ UNCHANGED <<memory, context, result, persistence, audit, response>>

ThreadEnds(e) ==
    /\ \/ thread[e] = "append" /\ Memory!AppendTurn(e, TurnOf(e))
       \/ thread[e] = "compact" /\ Memory!Compact(e)
       \/ thread[e] # "none" /\ UNCHANGED memory
    /\ thread' = [thread EXCEPT ![e] = "none"]
    /\ UNCHANGED <<context, pc, result, persistence, audit, response>>

Expire ==
    /\ Memory!Tick
    /\ UNCHANGED <<context, pc, result, persistence, thread, audit, response>>

Step(e) == Start(e) \/ Read(e) \/ Coordinate(e) \/ Persist(e) \/ Summarize(e)

Next == Expire \/ \E e \in Executions : Step(e) \/ Cancel(e) \/ ThreadEnds(e)

(* The event loop runs every task; every awaited call returns or raises.   *)
Spec == Init /\ [][Next]_vars /\ \A e \in Executions : WF_vars(Step(e))

-----------------------------------------------------------------------------
(* An answer leaves only after a complete audit trail: the workflow        *)
(* started, it completed, and the release was approved, whichever of the   *)
(* audit appends failed.                                                   *)
AnswersLeaveApproved ==
    \A e \in Executions :
        (response[e] # None /\ response[e].answer # None) =>
            audit[e] = <<"workflow_started", "workflow_completed", "response_release_allowed">>

(* What the session remembers was answered by a workflow whose completion  *)
(* is in the audit log, also when the request that asked was cancelled or  *)
(* its response blocked.                                                   *)
MemoryHoldsCompletedWork ==
    \A i \in DOMAIN session.history :
        \E e \in Executions :
            /\ RequestOf[e] = session.history[i].request_id
            /\ Contains(audit[e], "workflow_completed")
            /\ result[e].answer = session.history[i].text.answer

(* A turn joins the conversation it was answered from: between the read    *)
(* that the coordinator's context was projected from and the append nobody *)
(* wrote to this incarnation of the session.  The append may come from the *)
(* thread of a cancelled request.                                          *)
TurnsFollowTheirContext ==
    [][\A e \in Executions :
         (/\ Len(session'.history) > Len(session.history)
          /\ Last(session'.history).text.created_at = e
          /\ context[e].era = session.era)
            => context[e] = SnapshotOf(session)]_vars

(* Every execution ends: no conflict, failure or cancellation leaves it    *)
(* waiting or trying again for ever.                                       *)
EveryExecutionEnds == \A e \in Executions : pc[e] = "start" ~> pc[e] \in Ended

(* "Raised when a reused turn or request identifier has different content" *)
ReusedRequestsFailClosed ==
    \A i, j \in DOMAIN session.history :
        SameTurn(session.history[i], session.history[j]) =>
            session.history[i] = session.history[j]
=============================================================================
