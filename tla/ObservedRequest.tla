-------------------------- MODULE ObservedRequest --------------------------
(***************************************************************************)
(* The trace of one request: TraceCollector and TraceExecution, and the    *)
(* spans FormalRequestExecutor, the coordinator, the workflow, the skills  *)
(* and the agents record around the steps of RequestPaths.                 *)
(*                                                                         *)
(* Every seam starts a span whose parent is the span of the seam that      *)
(* called it, and is trusted to complete it on each of its ways out: an    *)
(* answer, a refusal, an exception, a cancellation.  A span is numbered    *)
(* when it is started; its attributes and its times are left out.          *)
(* Retrieval traces nothing in a request that has a knowledge scope.       *)
(***************************************************************************)
EXTENDS RequestPaths

CONSTANT Limits  \* what TraceLimits.max_spans_per_trace may be

ASSUME LimitsAssumption == Limits \subseteq Nat \ {0}

VARIABLES
    phase,    \* where FormalRequestExecutor.execute is
    session,  \* the request has a session, and the runtime a store
    trace     \* the TraceCollector and the TraceExecution

observedVars == <<vars, phase, session, trace>>

NoSpan == 0
DefaultLimit == 64

-----------------------------------------------------------------------------
(* The collector *)

Recorded(t) == {t.spans[i].id : i \in DOMAIN t.spans}

(* start_span looks a parent up in the spans it recorded and dropped.      *)
Known(t, id) == id = NoSpan \/ id \in Recorded(t) \/ id \in t.dropped

(* A bug: a span that is completed makes room for another.                 *)
HasRoomMutant(t) == Len(SelectSeq(t.spans, LAMBDA s : s.status = "open")) < t.limit

HasRoom(t) == Len(t.spans) < t.limit

Parent(t) == IF t.running = <<>> THEN NoSpan ELSE Last(t.running)

StartSpan(t, operation) ==
    LET id == t.started + 1
        span == [id |-> id, parent |-> Parent(t), operation |-> operation, status |-> "open"]
    IN  IF ~Known(t, Parent(t))
        THEN [t EXCEPT !.running = Append(@, NoSpan), !.refused = TRUE]
        ELSE [t EXCEPT !.started = id,
                       !.running = Append(@, id),
                       !.active = id,
                       !.spans = IF HasRoom(t) THEN Append(@, span) ELSE @,
                       !.dropped = IF HasRoom(t) THEN @ ELSE @ \cup {id}]

(* A span that is unknown or already complete is refused, in silence.      *)
CompleteSpans(t, ids, status) ==
    [t EXCEPT
        !.dropped = @ \ ids,
        !.active = IF @ \in ids THEN NoSpan ELSE @,
        !.spans = [i \in DOMAIN @ |->
                      IF @[i].id \in ids /\ @[i].status = "open"
                      THEN [@[i] EXCEPT !.status = status]
                      ELSE @[i]]]

NewTrace(limit) ==
    [limit |-> limit, started |-> 0, refused |-> FALSE, active |-> NoSpan,
     spans |-> <<>>, dropped |-> {}, running |-> <<>>]

(* What a seam does: start its span, complete it, or leave without.  And   *)
(* what execute does at the end.                                           *)
Start(operation) == <<"start", operation>>
Complete(status) == <<"complete", status>>
Leave == <<"leave", "open">>
CompleteAll(status) == <<"complete_all", status>>  \* all but the request's
CancelActive == <<"cancel_active", "cancelled">>
Finalize == <<"finalize", "unclosed">>

AppliedTo(t, kind, with) ==
    CASE kind = "start" -> StartSpan(t, with)
      [] kind = "complete" ->
             [CompleteSpans(t, {Last(t.running)}, with) EXCEPT !.running = Front(@)]
      [] kind = "leave" -> [t EXCEPT !.running = Front(@)]
      [] kind = "complete_all" ->
             [CompleteSpans(t, Range(Tail(t.running)), with) EXCEPT !.running = <<Head(@)>>]
      [] kind = "cancel_active" -> CompleteSpans(t, {t.active}, with)
      [] kind = "finalize" -> CompleteSpans(t, Recorded(t), with)

(* The trace is bound for TLC, which would evaluate it wherever it is used. *)
Apply(t, event) ==
    CHOOSE next \in {AppliedTo(bound, event[1], event[2]) : bound \in {t}} : TRUE

(* One event after another: FoldLeft, in a form that can be reasoned about. *)
Played(t, events) ==
    LET played[i \in 0 .. Len(events)] ==
            IF i = 0 THEN t ELSE Apply(played[i - 1], events[i])
    IN  played[Len(events)]

Record(events) == trace' = Played(trace, events)

Seam(operation, inner, status) == <<Start(operation)>> \o inner \o <<Complete(status)>>

(* TraceExecution.finish: the request's span, then what seams left open.   *)
Finish(events, status) ==
    /\ phase' = "finished"
    /\ Record(events \o <<Complete(status), Finalize>>)

-----------------------------------------------------------------------------
(* Provider calls.  Those of a role are governed outside its span, those   *)
(* of a chat client inside it.                                             *)

ProviderSpan(status) == <<Start("provider"), Complete(status)>>

Reached == calls' > calls

(* What a failed role leaves behind: nothing, when its call was refused;   *)
(* a completed call, when it was its answer that was no use.               *)
EveryFailure ==
    {<<>>} \cup IF Reached THEN {ProviderSpan("completed"), ProviderSpan("failed")} ELSE {}

(* The same for a role that lists the exceptions it completes its span     *)
(* for: an exception that is not listed leaves the span open.              *)
ListedFailures ==
    EveryFailure \cup IF Reached THEN {<<Start("provider"), Leave>>} ELSE {}

RouterFailures == ListedFailures
PlannerFailures == ListedFailures
SelectorFailures == ListedFailures
ReviewerFailures == EveryFailure
GroundedAnswerFailures == EveryFailure
DataAnswerFailures == EveryFailure

(* A bug: the clients' callers list the exceptions they handle, too.       *)
ClientFailuresMutant ==
    {ProviderSpan("failed"), <<Start("provider"), Leave>>}
    \cup IF Reached THEN {ProviderSpan("completed")} ELSE {}

ClientFailures ==
    {ProviderSpan("failed")} \cup IF Reached THEN {ProviderSpan("completed")} ELSE {}

WorkflowFailures == ClientFailures
SynthesizerFailures == ClientFailures
CopyFailures == ClientFailures

Answered(operation) == {Seam(operation, ProviderSpan("completed"), "completed")}
Failed(operation, failures) == {Seam(operation, inner, "failed") : inner \in failures}

-----------------------------------------------------------------------------
(* The spans of the steps of RequestPaths *)

(* The context may raise before the span, a refusal may follow it.         *)
RoutingEvents ==
    IF outcome'.status = "failed"
    THEN {<<>>} \cup Failed("routing", RouterFailures)
                \cup IF Reached THEN Answered("routing") ELSE {}
    ELSE Answered("routing")

PlanningEvents ==
    IF at' = "ended"
    THEN {<<>>} \cup {<<Start("workflow")>> \o e : e \in Failed("planning", WorkflowFailures)}
    ELSE {<<Start("workflow")>> \o e : e \in Answered("planning")}

(* The skill and its step have ended; the direct path ends with them.      *)
Returned ==
    IF at' = "review"
    THEN LET status == Last(steps').status IN <<Complete(status), Complete(status)>>
    ELSE <<>>

SkillSpans ==
    IF route = "mixed" /\ domain = "knowledge" THEN <<>>
    ELSE IF route = "mixed" /\ config.controlled THEN <<Start("step"), Start("skill")>>
    ELSE <<Start("skill")>>

EnterEvents ==
    IF at' = "ended"
    THEN {SubSeq(SkillSpans, 1, n) : n \in (Len(SkillSpans) \div 2)..Len(SkillSpans)}
    ELSE {SkillSpans \o Returned
            \o IF stage' \in {"idle", "select_tool"} THEN <<>> ELSE <<Start("tool_execution")>>}

(* The tool's own span ends with the agent.                                *)
ToolReturned ==
    IF stage' \in {"copy_answer", "answered"} THEN <<Complete("completed")>>
    ELSE IF stage' = "failed" THEN <<Complete("failed")>>
    ELSE <<>>

NodeEvents(operation, failures) ==
    IF stage' = "failed" THEN Failed(operation, failures) ELSE Answered(operation)

(* run_native_tool_calling completes the provider's span of a failed       *)
(* selection and leaves the selection's own.                               *)
SelectionEvents ==
    IF stage' = "failed"
    THEN {<<Start("tool_selection")>> \o ProviderSpan("failed") \o <<Leave>>}
         \cup IF Reached THEN Failed("tool_selection", {ProviderSpan("completed")}) ELSE {<<>>}
    ELSE {e \o <<Start("tool_execution")>> : e \in Answered("tool_selection")}

PlanDataEvents ==
    IF stage' = "failed" THEN PlannerFailures ELSE {ProviderSpan("completed")}

DataAccessEvents ==
    {Seam("data_access", <<>>, IF stage' = "failed" THEN "failed" ELSE "completed")}

(* Without evidence the reviewer's rule answers.                           *)
AnswerabilityEvents ==
    IF selected = {} THEN {Seam("review", <<>>, "completed")}
                     ELSE NodeEvents("review", ReviewerFailures)

ToolEvents ==
    CASE stage = "plan_data_query" -> PlanDataEvents
      [] stage = "execute_safe_query" -> DataAccessEvents
      [] stage = "generate_data_answer" -> NodeEvents("answer_generation", DataAnswerFailures)
      [] stage = "retrieve_evidence" -> {<<>>}
      [] stage = "select_evidence" -> NodeEvents("evidence_selection", SelectorFailures)
      [] stage = "review_answerability" -> AnswerabilityEvents
      [] OTHER -> NodeEvents("answer_generation", GroundedAnswerFailures)

AgentEvents ==
    CASE stage = "select_tool" -> SelectionEvents
      [] stage = "copy_answer" -> NodeEvents("answer_generation", CopyFailures)
      [] OTHER -> {e \o ToolReturned : e \in ToolEvents}

SynthesisEvents ==
    IF outcome'.status = "completed" \/ (at' = "review" /\ Last(steps').status = "completed")
    THEN {e \o Returned : e \in Answered("answer_generation")}
    ELSE {Returned} \cup IF config.controlled /\ at' = "ended" THEN {}
                         ELSE {e \o Returned : e \in Failed("answer_generation", SynthesizerFailures)}

(* An unanswerable verdict completes the workflow and fails the request.   *)
ReviewEvents ==
    IF verdicts' = verdicts
    THEN Failed("workflow_review", WorkflowFailures)
    ELSE {e \o IF Last(verdicts') = "unanswerable" THEN <<Complete("completed")>> ELSE <<>> :
             e \in Answered("workflow_review")}

Observe(action, eventSets) ==
    /\ phase = "coordinate"
    /\ action
    /\ \E events \in eventSets :
          Record(IF at' = "ended" THEN Append(events, CompleteAll(outcome'.status)) ELSE events)
    /\ UNCHANGED <<phase, session>>

-----------------------------------------------------------------------------
(* FormalRequestExecutor.execute around the coordinator *)

NotRequested(operation) == Seam(operation, <<>>, "not_requested")

MapResponse(status) == Seam("response_mapping", <<>>, status)

ReadMemory ==
    /\ phase = "read"
    /\ \/ /\ Finish(MapResponse("completed"), "failed")  \* not authorized
          /\ UNCHANGED session
       \/ /\ ~config.memory
          /\ session' = FALSE
          /\ LET read == NotRequested("memory_read") \o NotRequested("memory_write")
                             \o NotRequested("memory_summary")
             IN  \/ Record(Append(read, Start("coordination"))) /\ phase' = "coordinate"
                 \/ Finish(read, "failed")               \* the audit append failed
       \/ /\ session' = TRUE
          /\ LET read == Seam("memory_read", <<>>, "completed")
             IN  \/ Record(Append(read, Start("coordination"))) /\ phase' = "coordinate"
                 \/ Finish(read, "failed")
       \/ /\ session' = TRUE
          /\ Finish(Seam("memory_read", <<>>, "failed"), "failed")
    /\ UNCHANGED vars

LeaveCoordinator ==
    /\ phase = "coordinate"
    /\ at = "ended"
    /\ \/ /\ phase' = IF session /\ outcome.status = "completed" THEN "persist" ELSE "respond"
          /\ UNCHANGED trace
       \/ Finish(<<>>, "failed")                         \* the audit append failed
    /\ UNCHANGED <<vars, session>>

PersistTurn ==
    /\ phase = "persist"
    /\ \/ Record(<<>>) /\ phase' = "respond"             \* a blank answer
       \/ Record(Seam("memory_write", <<>>, "completed")) /\ phase' = "summarize"
       \/ Record(Seam("memory_write", <<>>, "failed")) /\ phase' = "respond"
    /\ UNCHANGED <<vars, session>>

SummarizeTurn ==
    /\ phase = "summarize"
    /\ \E status \in {"completed", "failed", "not_requested"} :
          Record(Seam("memory_summary", <<>>, status))
    /\ phase' = "respond"
    /\ UNCHANGED <<vars, session>>

Respond ==
    /\ phase = "respond"
    /\ \/ Finish(MapResponse("completed"), outcome.status)
       \/ Finish(MapResponse("failed"), "failed")
    /\ UNCHANGED <<vars, session>>

-----------------------------------------------------------------------------
(* A cancellation at an await.  Every running seam completes its span and  *)
(* raises it again; execute then completes the active one.                 *)

Calling(operation) == {<<Start(operation), Start("provider")>>}

AgentAwaits ==
    CASE stage = "select_tool" -> Calling("tool_selection")
      [] stage = "plan_data_query" -> {<<>>, <<Start("provider")>>}
      [] stage = "execute_safe_query" -> {<<Start("data_access")>>}
      [] stage = "retrieve_evidence" -> {<<>>}
      [] stage = "select_evidence" -> Calling("evidence_selection")
      [] stage = "review_answerability" -> IF selected = {} THEN {} ELSE Calling("review")
      [] stage \in {"generate_data_answer", "generate_answer", "copy_answer"} ->
             Calling("answer_generation")
      [] OTHER -> {}

Awaits ==
    CASE phase = "read" -> {<<Start("memory_read")>>}
      [] phase = "persist" -> {<<Start("memory_write")>>}
      [] phase = "summarize" -> {<<Start("memory_summary")>>}
      [] phase = "coordinate" /\ at = "route" -> Calling("routing")
      [] phase = "coordinate" /\ at = "plan" ->
             {<<Start("workflow")>> \o e : e \in Calling("planning")}
      [] phase = "coordinate" /\ at = "skill" -> AgentAwaits
      [] phase = "coordinate" /\ at = "synthesize" -> Calling("answer_generation")
      [] phase = "coordinate" /\ at = "review" -> Calling("workflow_review")
      [] OTHER -> {}

Cancelled(events) == Append(events, CompleteAll("cancelled"))

Cancel ==
    /\ \E events \in Awaits : Finish(Append(Cancelled(events), CancelActive), "cancelled")
    /\ UNCHANGED <<vars, session>>

-----------------------------------------------------------------------------
ObservedInit ==
    /\ Init
    /\ phase = "read"
    /\ session = FALSE
    /\ trace \in {StartSpan(NewTrace(limit), "request") : limit \in Limits}

Proceed ==
    \/ ReadMemory
    \/ Observe(RouteRequest, RoutingEvents)
    \/ Observe(PlanWorkflow, PlanningEvents)
    \/ Observe(EnterSkill, EnterEvents)
    \/ Observe(RunAgent, AgentEvents)
    \/ Observe(LeaveSkill, {Returned})
    \/ Observe(Synthesize, SynthesisEvents)
    \/ Observe(ReviewWorkflow, ReviewEvents)
    \/ LeaveCoordinator
    \/ PersistTurn
    \/ SummarizeTurn
    \/ Respond

ObservedNext == Proceed \/ Cancel

(* Every await of a request is a provider call, a call of the data server  *)
(* or a store call, and each has a timeout.  Nobody has to cancel.         *)
ObservedSpec == ObservedInit /\ [][ObservedNext]_observedVars /\ WF_observedVars(Proceed)

-----------------------------------------------------------------------------
Served == phase = "finished" /\ trace.spans[1].status = "completed"

(* Under any limit a trace is one tree, without gaps: the first spans that *)
(* were started, each under a parent that is recorded, and no seam is      *)
(* refused its span.  The default limit records them all.                  *)
TraceIsOneTree ==
    LET spans == trace.spans
    IN  /\ ~trace.refused
        /\ Len(spans) = IF trace.started < trace.limit THEN trace.started ELSE trace.limit
        /\ \A i \in DOMAIN spans :
               spans[i].id = i /\ (i > 1 => spans[i].parent \in 1..(i - 1))
        /\ trace.limit = DefaultLimit => trace.started <= trace.limit

(* A span left open is the selection's of a native tool call, or that of a *)
(* role which lists the exceptions it handles, and the seam above failed;  *)
(* a served request was completed, and has none, in whichever round.       *)
OnlyFailedSeamsLeaveSpans ==
    /\ \A i \in DOMAIN trace.spans :
           LET span == trace.spans[i]
               parent == trace.spans[span.parent]
           IN  span.status = "unclosed" =>
                   /\ ~Served
                   /\ i > 1
                   /\ parent.status = "failed"
                   /\ \/ span.operation = "tool_selection"
                      \/ /\ span.operation = "provider"
                         /\ parent.operation \in
                                {"routing", "tool_execution", "evidence_selection"}
    /\ Served => outcome.status = "completed"

(* The seams that run when a request is cancelled, and only they, are      *)
(* recorded as cancelled: a chain from the request down to its await.      *)
CancellationReachesEverySeam ==
    \A i \in DOMAIN trace.spans :
        LET span == trace.spans[i]
        IN  span.status = "cancelled" /\ i > 1 =>
                /\ trace.spans[span.parent].status = "cancelled"
                /\ \A j \in DOMAIN trace.spans :
                       trace.spans[j].parent = span.parent /\ j # i => j < i

(* However a request ends, each of its seams says how it ended itself.     *)
SpansTellHowSeamsEnded == OnlyFailedSeamsLeaveSpans /\ CancellationReachesEverySeam

(* Every trace is finished: the request is answered, refused or failed.    *)
EveryTraceIsFinished == <>(phase = "finished")
=============================================================================
