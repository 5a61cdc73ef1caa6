------------------------- MODULE ProviderGovernance -------------------------
(***************************************************************************)
(* ProviderGovernance.call: the budget, the audit events and the transport *)
(* of every governed call of a request.  FormalRuntime composes these      *)
(* actions with the runtime that owns the audit sink.                      *)
(*                                                                         *)
(* A request binds one ProviderRequestState, which the child tasks it may  *)
(* start share: several of its calls can be at their transport at once.    *)
(* The loop runs a call from its start to the transport in one action, and *)
(* from the end of the transport to its return in another one.             *)
(*                                                                         *)
(* What redaction, stage, classification and size decide is a              *)
(* nondeterministic refusal.  A failed append may have left its line in    *)
(* the file, as AuditChain shows.                                          *)
(***************************************************************************)
EXTENDS Naturals, SequencesExt

CONSTANTS
    Requests,          \* requests that bound a governance scope
    Calls,             \* provider calls they may make
    RequestOf,         \* the request of each call
    MaxProviderCalls,  \* ProviderPolicy.max_provider_calls
    MaxFailures        \* bound: failed audit appends

ASSUME GovernanceAssumption ==
    /\ RequestOf \in [Calls -> Requests]
    /\ MaxProviderCalls \in Nat \ {0}
    /\ MaxFailures \in Nat

VARIABLES
    sinkOpen,   \* the audit sink takes events
    log,        \* the audit events of each request, in file order
    callCount,  \* ProviderRequestState.call_count of each request
    call,       \* where each call is
    number,     \* history: the number of the allowed event of each call
    failures    \* how many appends failed

governance == <<sinkOpen, log, callCount, call, number, failures>>

CallPhases ==
    {"idle", "denied", "transport", "returned", "unsafe", "failed", "cancelled"}
CallEvents == {"provider_call_allowed", "provider_call_blocked",
               "provider_call_failed", "provider_call_completed"}
RequestEvents == {"workflow_started", "workflow_completed", "workflow_failed",
                  "response_release_allowed", "response_release_blocked"}
AuditEvents ==
    [type : CallEvents, call : Calls, number : 0..MaxProviderCalls]
        \cup [type : RequestEvents, number : 0..MaxProviderCalls]

GovernanceTypeOK ==
    /\ sinkOpen \in BOOLEAN
    /\ log \in [Requests -> Seq(AuditEvents)]
    /\ callCount \in [Requests -> 0..MaxProviderCalls]
    /\ call \in [Calls -> CallPhases]
    /\ number \in [Calls -> 0..MaxProviderCalls]
    /\ failures \in 0..MaxFailures

GovernanceInit ==
    /\ sinkOpen = FALSE
    /\ log = [r \in Requests |-> <<>>]
    /\ callCount = [r \in Requests |-> 0]
    /\ call = [c \in Calls |-> "idle"]
    /\ number = [c \in Calls |-> 0]
    /\ failures = 0

-----------------------------------------------------------------------------
(* _append *)

CallEvent(c, type, n) == [type |-> type, call |-> c, number |-> n]
RequestEvent(r, type) == [type |-> type, number |-> callCount[r]]

Record(r, event) == log' = [log EXCEPT ![r] = Append(@, event)]

AppendReturns(r, event) ==
    /\ sinkOpen
    /\ Record(r, event)
    /\ UNCHANGED failures

(* A closed sink refuses; an open one fails with or without the line.      *)
AppendRaises(r, event) ==
    \/ /\ ~sinkOpen
       /\ UNCHANGED <<log, failures>>
    \/ /\ sinkOpen
       /\ failures < MaxFailures
       /\ failures' = failures + 1
       /\ Record(r, event) \/ UNCHANGED log

AppendEnds(r, event) == AppendReturns(r, event) \/ AppendRaises(r, event)

-----------------------------------------------------------------------------
(* call *)

Goto(c, phase) == call' = [call EXCEPT ![c] = phase]

(* _append_blocked, then the ProviderPolicyError.                          *)
Block(c, phase) ==
    LET r == RequestOf[c] IN
    /\ AppendEnds(r, CallEvent(c, "provider_call_blocked", callCount[r]))
    /\ Goto(c, phase)
    /\ UNCHANGED <<sinkOpen, callCount, number>>

(* Redaction, require_provider_egress or the evidence limit refuse; the    *)
(* budget is one of the reasons.                                           *)
Refuse(c) ==
    /\ call[c] = "idle"
    /\ Block(c, "denied")

(* A bug: the counter is incremented when the transport has answered.      *)
AllowUncountedMutant(c) ==
    LET r == RequestOf[c] IN
    /\ call[c] = "idle"
    /\ callCount[r] < MaxProviderCalls
    /\ AppendReturns(r, CallEvent(c, "provider_call_allowed", callCount[r]))
    /\ number' = [number EXCEPT ![c] = callCount[r]]
    /\ Goto(c, "transport")
    /\ UNCHANGED <<sinkOpen, callCount>>

Allow(c) ==
    LET r == RequestOf[c] IN
    /\ call[c] = "idle"
    /\ callCount[r] < MaxProviderCalls
    /\ AppendReturns(r, CallEvent(c, "provider_call_allowed", callCount[r]))
    /\ callCount' = [callCount EXCEPT ![r] = @ + 1]
    /\ number' = [number EXCEPT ![c] = callCount[r]]
    /\ Goto(c, "transport")
    /\ UNCHANGED sinkOpen

(* The allowed event cannot be recorded: no transport, and no other event. *)
Unrecorded(c) ==
    LET r == RequestOf[c] IN
    /\ call[c] = "idle"
    /\ callCount[r] < MaxProviderCalls
    /\ AppendRaises(r, CallEvent(c, "provider_call_allowed", callCount[r]))
    /\ Goto(c, "denied")
    /\ UNCHANGED <<sinkOpen, callCount, number>>

(* A bug: a result is returned although its completion was not recorded.   *)
TransportReturnsMutant(c) ==
    LET r == RequestOf[c] IN
    /\ call[c] = "transport"
    /\ AppendEnds(r, CallEvent(c, "provider_call_completed", callCount[r]))
    /\ Goto(c, "returned")
    /\ UNCHANGED <<sinkOpen, callCount, number>>

(* The result of a transport whose completion cannot be recorded is lost.  *)
TransportReturns(c) ==
    LET r == RequestOf[c]
        completed == CallEvent(c, "provider_call_completed", callCount[r]) IN
    /\ call[c] = "transport"
    /\ \/ AppendReturns(r, completed) /\ Goto(c, "returned")
       \/ AppendRaises(r, completed) /\ Goto(c, "failed")
    /\ UNCHANGED <<sinkOpen, callCount, number>>

UnsafeOutput(c) ==
    /\ call[c] = "transport"
    /\ Block(c, "unsafe")

TransportFails(c) ==
    LET r == RequestOf[c] IN
    /\ call[c] = "transport"
    /\ AppendEnds(r, CallEvent(c, "provider_call_failed", callCount[r]))
    /\ Goto(c, "failed")
    /\ UNCHANGED <<sinkOpen, callCount, number>>

(* CancelledError is no Exception: the call leaves no outcome event.       *)
CancelCall(c) ==
    /\ call[c] = "transport"
    /\ Goto(c, "cancelled")
    /\ UNCHANGED <<sinkOpen, log, callCount, number, failures>>

Begins(c) == Refuse(c) \/ Allow(c) \/ Unrecorded(c)
Ends(c) == TransportReturns(c) \/ UnsafeOutput(c) \/ TransportFails(c)

-----------------------------------------------------------------------------
(* Where the log of its request holds an event of a call. *)
Recorded(c, type) ==
    LET events == log[RequestOf[c]] IN
    {i \in DOMAIN events : events[i].type = type /\ events[i].call = c}

IsAllowed(c) ==
    \E i \in Recorded(c, "provider_call_allowed") :
        log[RequestOf[c]][i].number = number[c]

(* A call past its transport's start, whatever became of it afterwards.    *)
Sent(c) == call[c] \in {"transport", "returned", "unsafe", "failed", "cancelled"}

(* The shared budget: the governed calls of a request that reached a       *)
(* transport are numbered in the log, each with a number of its own below  *)
(* the limit of the policy, so there are never more of them than the       *)
(* policy allows, however many child tasks of the request call at once.    *)
WithinBudget ==
    \A c \in Calls : Sent(c) =>
        /\ IsAllowed(c)
        /\ number[c] < MaxProviderCalls
        /\ \A d \in Calls \ {c} :
             (Sent(d) /\ RequestOf[d] = RequestOf[c]) => number[d] # number[c]

(* A governed call gives its transport no payload and its caller no result *)
(* that the audit log does not account for: the transport runs after its   *)
(* allowed event, and the result is returned after its completed event,    *)
(* with nothing in the log that says otherwise.  FormalRuntime shows the   *)
(* one provider call that is not governed.                                 *)
CallsAreAudited ==
    \A c \in Calls :
        /\ call[c] \in {"transport", "returned"} =>
             /\ Recorded(c, "provider_call_allowed") # {}
             /\ Recorded(c, "provider_call_blocked") = {}
             /\ Recorded(c, "provider_call_failed") = {}
        /\ call[c] = "transport" => Recorded(c, "provider_call_completed") = {}
        /\ call[c] = "returned" =>
             \E i \in Recorded(c, "provider_call_allowed"),
                j \in Recorded(c, "provider_call_completed") : i < j
=============================================================================
