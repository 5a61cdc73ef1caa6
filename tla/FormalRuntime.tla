---------------------------- MODULE FormalRuntime ----------------------------
(***************************************************************************)
(* The configured runtime as one system: the lifespan that opens and       *)
(* closes its resources, the requests the HTTP route lets in, and their    *)
(* provider calls, all interleaved on one event loop.                      *)
(*                                                                         *)
(* A route reads the executor from the handle once; from then on nothing   *)
(* ties its request to the lifespan, so a request may still run while the  *)
(* resources under it are closed.  The audit sink of the governance is the *)
(* first resource of the lifespan.  The awaits of the memory operations    *)
(* separate the actions of a request; FormalRequestExecutor models them.   *)
(*                                                                         *)
(* The coordinator's roles call providers through the governance.  The     *)
(* summarizer of the session memory does not: it is given the adapter      *)
(* itself, and calls it from a worker thread that outlives a cancelled     *)
(* request.                                                                *)
(***************************************************************************)
EXTENDS RuntimeLifecycle, ProviderGovernance

VARIABLES
    request,  \* where each request is
    summary   \* where the summary of its session is

vars == <<lifecycle, governance, request, summary>>

RequestPhases ==
    {"new", "admitted", "running", "completed", "failed",
     "refused", "answered", "withheld", "raised"}
SummaryPhases == {"none", "thread", "sent", "over"}

TypeOK ==
    /\ LifecycleTypeOK
    /\ GovernanceTypeOK
    /\ request \in [Requests -> RequestPhases]
    /\ summary \in [Requests -> SummaryPhases]

Init ==
    /\ LifecycleInit
    /\ GovernanceInit
    /\ request = [r \in Requests |-> "new"]
    /\ summary = [r \in Requests |-> "none"]

-----------------------------------------------------------------------------
(* The lifespan: only it opens and closes the sink. *)
Lifespan ==
    /\ LifespanStep \/ Shutdown
    /\ sinkOpen' = ("audit" \in live')
    /\ UNCHANGED <<log, callCount, call, number, failures, request, summary>>

-----------------------------------------------------------------------------
(* execute_agent and the governed part of execute *)

Move(r, phase) == request' = [request EXCEPT ![r] = phase]

(* Without an executor the route answers 503.                              *)
Refused(r) ==
    /\ request[r] = "new"
    /\ ~Available
    /\ Move(r, "refused")
    /\ UNCHANGED <<lifecycle, governance, summary>>

(* With one it executes: the executor reads the memory of the session.     *)
Admit(r) ==
    /\ request[r] = "new"
    /\ Available
    /\ Move(r, "admitted")
    /\ UNCHANGED <<lifecycle, governance, summary>>

(* The governance scope is bound and the workflow recorded, or the request *)
(* raises: the memory cannot be read or the event not be recorded.         *)
Start(r) ==
    /\ request[r] = "admitted"
    /\ \/ /\ AppendReturns(r, RequestEvent(r, "workflow_started"))
          /\ Move(r, "running")
       \/ /\ AppendRaises(r, RequestEvent(r, "workflow_started")) \/ UNCHANGED <<log, failures>>
          /\ Move(r, "raised")
    /\ UNCHANGED <<lifecycle, sinkOpen, callCount, call, number, summary>>

CallsOf(r) == {c \in Calls : RequestOf[c] = r}
IsQuiet(r) == \A c \in CallsOf(r) : call[c] # "transport"

ProviderCall(c) ==
    /\ request[RequestOf[c]] = "running"
    /\ Begins(c) \/ Ends(c) \/ CancelCall(c)
    /\ UNCHANGED <<lifecycle, request, summary>>

(* The coordinator is done with every call it made: its result is recorded *)
(* as completed, which takes a result of some call, or as failed; it or    *)
(* the record may raise.                                                   *)
Complete(r) ==
    /\ request[r] = "running"
    /\ IsQuiet(r)
    /\ \/ /\ \E c \in CallsOf(r) : call[c] = "returned"
          /\ AppendReturns(r, RequestEvent(r, "workflow_completed"))
          /\ Move(r, "completed")
       \/ /\ AppendReturns(r, RequestEvent(r, "workflow_failed"))
          /\ Move(r, "failed")
       \/ /\ \/ \E type \in {"workflow_completed", "workflow_failed"} :
                   AppendRaises(r, RequestEvent(r, type))
             \/ UNCHANGED <<log, failures>>
          /\ Move(r, "raised")
    /\ UNCHANGED <<lifecycle, sinkOpen, callCount, call, number, summary>>

(* A completed turn that was stored is summarized on a worker thread.      *)
PutSummary(r, phase) == summary' = [summary EXCEPT ![r] = phase]

BeginSummary(r) ==
    /\ request[r] = "completed"
    /\ summary[r] = "none"
    /\ PutSummary(r, "thread")
    /\ UNCHANGED <<lifecycle, governance, request>>

(* The thread sends turns of the session to the provider: no budget, no    *)
(* redaction, no audit event, and nobody asks whether the sink is open.    *)
SendSummary(r) ==
    /\ summary[r] = "thread"
    /\ PutSummary(r, "sent")
    /\ UNCHANGED <<lifecycle, governance, request>>

(* The provider answered or failed; or there was too little to compact or  *)
(* too much to send, or the thread never started.                          *)
EndSummary(r) ==
    /\ summary[r] \in {"thread", "sent"}
    /\ PutSummary(r, "over")
    /\ UNCHANGED <<lifecycle, governance, request>>

(* The request is cancelled while it waits for one of its threads, which   *)
(* goes on without it.                                                     *)
Interrupt(r) ==
    /\ request[r] = "completed"
    /\ Move(r, "raised")
    /\ UNCHANGED <<lifecycle, governance, summary>>

Summarize(r) == BeginSummary(r) \/ SendSummary(r) \/ EndSummary(r) \/ Interrupt(r)

(* The release events are bound to a new request state, so they carry the  *)
(* number zero.                                                            *)
ReleaseEvent(type) == [type |-> type, number |-> 0]

(* A bug: the answer leaves when its release could not be recorded.        *)
ReleaseMutant(r) ==
    /\ request[r] = "completed"
    /\ summary[r] \notin {"thread", "sent"}
    /\ AppendEnds(r, ReleaseEvent("response_release_allowed"))
    /\ Move(r, "answered")
    /\ UNCHANGED <<lifecycle, sinkOpen, callCount, call, number, summary>>

(* _release_response: a completed answer leaves after its release was      *)
(* recorded.  A failed one, and one without citations, is withheld, and so *)
(* is one whose release cannot be recorded.                                *)
Release(r) ==
    /\ summary[r] \notin {"thread", "sent"}
    /\ \/ /\ request[r] = "completed"
          /\ AppendReturns(r, ReleaseEvent("response_release_allowed"))
          /\ Move(r, "answered")
       \/ /\ request[r] = "completed"
          /\ AppendRaises(r, ReleaseEvent("response_release_allowed"))
          /\ Move(r, "withheld")
       \/ /\ request[r] \in {"completed", "failed"}
          /\ AppendEnds(r, ReleaseEvent("response_release_blocked"))
          /\ Move(r, "withheld")
    /\ UNCHANGED <<lifecycle, sinkOpen, callCount, call, number, summary>>

RequestStep(r) ==
    \/ Refused(r) \/ Admit(r) \/ Start(r) \/ Complete(r) \/ Summarize(r) \/ Release(r)
    \/ \E c \in CallsOf(r) : ProviderCall(c)

Next == Lifespan \/ \E r \in Requests : RequestStep(r)

(* Every await of the lifespan returns, raises or is cancelled; nobody has *)
(* to stop the server.                                                     *)
Spec == Init /\ [][Next]_vars /\ WF_vars(LifespanStep /\ Lifespan)

-----------------------------------------------------------------------------
(* The log of a request names its completed workflow.                      *)
IsCompleted(r) == \E i \in DOMAIN log[r] : log[r][i].type = "workflow_completed"

(* What one step may let out of the process.                               *)
LeavesOnlySummaries ==
    /\ "audit" \notin live =>
         /\ \A c \in Calls : Sent(c)' => Sent(c)
         /\ \A r \in Requests : request'[r] = "answered" => request[r] = "answered"
    /\ \A r \in Requests : summary'[r] = "sent" => summary[r] = "sent" \/ IsCompleted(r)

(* Requests outlive the resources under them, but once the audit log is    *)
(* closed no governed payload reaches a provider any more and no answer a  *)
(* caller.  What may still leave is a summary, and one only ever leaves    *)
(* for a request whose completed workflow is in the log.                   *)
OnlySummariesLeaveUnaudited == [][LeavesOnlySummaries]_vars

(* A startup ends in a runtime, in a failure that is served as such, or in *)
(* the end of the application; a shutdown ends, also when closing raises.  *)
LifespanEnds ==
    /\ at \in Startup \cup {"start", "rollback"} ~> at \in {"serve", "ended"}
    /\ at = "close" ~> at = "ended"
=============================================================================
