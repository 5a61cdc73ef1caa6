--------------------------- MODULE RoleContracts ---------------------------
(***************************************************************************)
(* The contracts between a provider's reply and the answer of a request:   *)
(* what each role's model and validator accept, and what the agent, the    *)
(* tool, the skill and the coordinator then make of it.  They stand in a   *)
(* dozen files, and each repeats some of the checks of the one before.     *)
(*                                                                         *)
(* AgentTools and RequestPaths choose an accepted reply by its citations   *)
(* or its verdict: here is where the choices come from.  A reply that is   *)
(* no JSON, lacks a key or has one too many is left out, as are the text   *)
(* and the error code it fails with.                                       *)
(***************************************************************************)
EXTENDS RequestPolicy

Missing == [raw |-> 0, inner |-> -1]  \* None

(* A text: its length, and what strip() leaves of it.                      *)
Text(raw, inner) == [raw |-> raw, inner |-> inner]
Short == 40

(* The texts a bound tells apart; the last but one is too long by a space. *)
Texts(max) ==
    {Text(0, 0), Text(1, 0), Text(Short, Short), Text(max, max), Text(max + 1, max),
     Text(max + 1, max + 1)}
OptionalTexts(max) == Texts(max) \cup {Missing}

(* Field(min_length=1, max_length=max), and the validators that strip.     *)
Bounded(text, max) == text # Missing /\ text.raw \in 1..max
Nonblank(text) == text.inner > 0
Stripped(text) == Text(text.inner, text.inner)

AnswerMax == 8000
RequestMax == 4000
SubqueryMax == 2000

-----------------------------------------------------------------------------
(* Citations.  A mark is what stands in brackets: [E0] is an id for the    *)
(* patterns of the skills, and for no agent; [x] is one for nobody.        *)

Zero == "E0"
Marks == Citations \cup {Zero, "x"}

(* Retrieval numbers its evidence from 1, at most evidence_max_count.      *)
ASSUME EvidenceAssumption ==
    /\ IsFiniteSet(Documents)
    /\ Cardinality(Documents) <= EvidenceMaxCount
    /\ Zero \notin Citations

KnowledgeMark == Documents            \* \[E[1-9][0-9]*\], whatever the request holds
DataMark == {DataEvidence}
SkillMark(r) ==
    CASE r = "knowledge" -> Documents \cup {Zero}
      [] r = "data" -> {DataEvidence}
      [] r = "mixed" -> Citations \cup {Zero}

(* The marks at some of the places of a list, in its order.                *)
Keep(kept, marks, places, n) == IF n \in places THEN Append(kept, marks[n]) ELSE kept
Kept(marks, places) ==
    LET kept[n \in 0 .. Len(marks)] ==
            IF n = 0 THEN <<>> ELSE Keep(kept[n - 1], marks, places, n)
    IN  kept[Len(marks)]

Distinct(marks) == Kept(marks, {n \in DOMAIN marks : \A m \in 1 .. n - 1 : marks[m] # marks[n]})
Among(allowed, marks) == Kept(allowed, {n \in DOMAIN allowed : allowed[n] \in marks})

(* A reply may name every citation, one of them more than once.            *)
Lists == BoundedSeq(Marks, Cardinality(Citations))

Answer(text, citations) == [text |-> text, citations |-> citations]
Refused == Answer(Missing, <<>>)

(* AnswerDraft, DataAnswerDraft: a text, the marks that stand in it, the   *)
(* citations it declares, and whether it names D1 without brackets.        *)
Drafts ==
    [text : Texts(AnswerMax), inline : SUBSET Marks, declared : Lists, bare : BOOLEAN]

(* A draft that a mark stands in is not blank.                             *)
WellFormed(sent) == sent.inline # {} => Nonblank(sent.text)

(* A bug: a citation may be declared that the answer does not make.        *)
KnowledgeAnswerMutant(held, sent) ==
    LET normalized == Distinct(sent.declared)
    IN  IF /\ sent.text.raw > 0
           /\ Range(normalized) \cup sent.inline \subseteq KnowledgeMark \cap held
           /\ sent.inline \subseteq Range(normalized)
        THEN Answer(sent.text, normalized)
        ELSE Refused

(* validate_citations: what is declared, in its order.                     *)
KnowledgeAnswer(held, sent) ==
    LET normalized == Distinct(sent.declared)
    IN  IF /\ sent.text.raw > 0
           /\ Range(normalized) \cup sent.inline \subseteq KnowledgeMark \cap held
           /\ sent.inline = Range(normalized)
           /\ normalized # <<>>
        THEN Answer(sent.text, normalized)
        ELSE Refused

(* validate_data_citations: in the order of the evidence.                  *)
DataAnswer(held, sent) ==
    IF /\ sent.text.raw > 0
       /\ Range(sent.declared) \cup sent.inline \subseteq DataMark \cap Range(held)
       /\ sent.inline # {} /\ sent.inline = Range(sent.declared)
       /\ ~sent.bare
    THEN Answer(sent.text, Among(held, Range(sent.declared)))
    ELSE Refused

NoSelection == {Zero}  \* of an id that no evidence has: the selection is refused

(* validate_evidence_selection: ids may repeat, and one that is none ends  *)
(* the selection.                                                          *)
SelectedIds(held, requested, reason) ==
    IF Range(requested) \subseteq KnowledgeMark \cap held /\ Bounded(reason, 500) /\ Nonblank(reason)
    THEN Range(requested)
    ELSE NoSelection

-----------------------------------------------------------------------------
(* From an agent's answer to the coordinator's result *)

(* AgentToolResult, ToolCallingResult: the skill gets the stripped text.   *)
ToolAnswer(answer) ==
    IF Bounded(answer.text, AnswerMax) /\ Nonblank(answer.text)
    THEN Answer(Stripped(answer.text), answer.citations)
    ELSE Refused

(* _parse_final_answer and the comparison with the tool's answer.          *)
CopyIsServed(answer, finish, copied) ==
    /\ finish = "stop"
    /\ Bounded(copied.text, AnswerMax) /\ Nonblank(copied.text)
    /\ Answer(Stripped(copied.text), copied.citations) = answer

(* SkillResult and CoordinatorResult                                       *)
ResultHolds(r, answer) ==
    /\ Bounded(answer.text, AnswerMax) /\ Nonblank(answer.text)
    /\ Range(answer.citations) \subseteq SkillMark(r)

(* _is_valid_result, InventoryRiskSynthesisInput: a child of the mixed     *)
(* skill cites, and no citation twice.                                     *)
ChildHolds(r, answer) ==
    /\ ResultHolds(r, answer)
    /\ Len(answer.citations) \in 1..100
    /\ IsInjective(answer.citations)

(* An answer the agent accepted gets through, alone and as a child.        *)
GetsThrough(r, answer) ==
    LET tool == ToolAnswer(answer)
    IN  /\ tool # Refused
        /\ CopyIsServed(tool, "stop", answer)
        /\ ResultHolds(r, tool) /\ ChildHolds(r, tool)

-----------------------------------------------------------------------------
(* The synthesis of a mixed answer *)

(* InventoryRiskSynthesisResult, _citations_are_bounded and                *)
(* _ordered_mixed_citations: data first, each once.                        *)
MixedCitations(data, knowledge, declared) ==
    LET allowed == Range(data) \cup Range(knowledge)
        marks == Range(declared)
    IN  IF /\ declared # <<>> /\ marks \subseteq SkillMark("mixed")
           /\ marks \subseteq allowed
           /\ marks \cap SkillMark("data") # {} /\ marks \cap SkillMark("knowledge") # {}
        THEN Among(data \o knowledge, marks)
        ELSE <<>>

Contents ==
    [summary : Texts(AnswerMax), basis : Texts(AnswerMax), action : Texts(AnswerMax),
     actions : {0, 1, 20, 21}]

ContentAccepted(content) ==
    /\ Bounded(content.summary, AnswerMax) /\ Nonblank(content.summary)
    /\ Bounded(content.basis, AnswerMax) /\ Nonblank(content.basis)
    /\ content.actions \in 1..20 /\ Nonblank(content.action)

(* _render_answer: four headings, the numbers of the actions, and one      *)
(* space between the citations, which are of four characters.              *)
RenderedLength(content, cites) ==
    28 + content.summary.inner + content.basis.inner
       + content.actions * (content.action.inner + 4) - 1
       + (IF content.actions < 10 THEN 0 ELSE content.actions - 9)
       + 5 * cites - 1

-----------------------------------------------------------------------------
(* The router's decision, and what the skills make of it *)

Decisions ==
    [route : Routes \cup {"unsupported"}, normalized : Texts(RequestMax),
     knowledge : OptionalTexts(SubqueryMax), data : OptionalTexts(SubqueryMax)]

DecisionHolds(decision) ==
    /\ Bounded(decision.normalized, RequestMax) /\ Nonblank(decision.normalized)
    /\ \A subquery \in {decision.knowledge, decision.data} \ {Missing} :
          subquery.raw <= SubqueryMax /\ Nonblank(subquery)
    /\ (decision.knowledge # Missing) = (decision.route \in {"knowledge", "mixed"})
    /\ (decision.data # Missing) = (decision.route \in {"data", "mixed"})

(* The subquery of a domain, which the validator stripped.                 *)
Subquery(decision, r) == Stripped(IF r = "knowledge" THEN decision.knowledge ELSE decision.data)

Subdecision(decision, r) ==
    [route |-> r, normalized |-> Subquery(decision, r),
     knowledge |-> IF r = "knowledge" THEN Subquery(decision, r) ELSE Missing,
     data |-> IF r = "data" THEN Subquery(decision, r) ELSE Missing]

(* _parse_one_native_tool_call: the tool it calls, or "none".  The query   *)
(* it asks for is dropped: the tool runs the router's.                     *)
ToolRequests ==
    [finish : {"tool_calls", "stop"},
     requests : BoundedSeq([name : {KnowledgeTool, DataTool, "other"}, query : Texts(RequestMax)], 2)]

RequestedTool(request, expected) ==
    IF /\ request.finish = "tool_calls"
       /\ Len(request.requests) = 1
       /\ request.requests[1].name = expected
       /\ Nonblank(request.requests[1].query) /\ request.requests[1].query.raw <= RequestMax
    THEN request.requests[1].name
    ELSE "none"

ToolOf(r) == IF r = "knowledge" THEN KnowledgeTool ELSE DataTool

-----------------------------------------------------------------------------
(* The two decisions an agent turns on *)

(* DataQueryPlan and validate_data_query_plan; speaks: each text has a     *)
(* Chinese character, or the question has none.                            *)
Plans ==
    [status : {"ready", "needs_clarification", "unsupported"}, intent : Texts(240),
     sql : OptionalTexts(20000), reason : Texts(500), missing : OptionalTexts(300),
     speaks : BOOLEAN]

PlanHolds(plan) ==
    /\ Bounded(plan.intent, 240) /\ Bounded(plan.reason, 500)
    /\ plan.sql # Missing => plan.sql.raw <= 20000
    /\ plan.missing # Missing => plan.missing.raw <= 300
    /\ IF plan.status = "ready"
       THEN Nonblank(plan.sql) /\ plan.missing = Missing
       ELSE plan.sql = Missing
    /\ plan.status = "needs_clarification" => Nonblank(plan.missing)
    /\ plan.speaks

(* The fields plan_data_query keeps; the answer wraps what is missing.     *)
PlannedState(plan) ==
    [plan EXCEPT !.missing = IF plan.status = "needs_clarification" THEN @ ELSE Missing]

(* DataAgentState.validate_terminal_contract: an empty text is no text.    *)
StateHolds(state) ==
    /\ state.intent.raw > 0 /\ state.reason.raw > 0
    /\ (state.sql.raw > 0) = (state.status = "ready")
    /\ (state.missing.raw > 0) = (state.status = "needs_clarification")

(* AnswerabilityDecision and validate_answerability_decision               *)
Reviews ==
    [answerability : {"answerable", "unanswerable"}, missing : OptionalTexts(500),
     reason : Texts(500), speaks : BOOLEAN]

ReviewHolds(review) ==
    /\ Bounded(review.reason, 500) /\ Nonblank(review.reason)
    /\ IF review.answerability = "answerable"
       THEN review.missing = Missing
       ELSE Nonblank(review.missing)
    /\ review.speaks

(* KnowledgeQAState.validate_state of a reviewed state                     *)
ReviewedHolds(review, answer) ==
    /\ Nonblank(review.reason)
    /\ IF review.answerability = "answerable"
       THEN review.missing = Missing
       ELSE Nonblank(review.missing)
    /\ answer # Refused =>
           /\ Nonblank(answer.text)
           /\ (answer.citations # <<>>) = (review.answerability = "answerable")

-----------------------------------------------------------------------------
(* What a data answer's provider is shown *)

(* A column's name is safe, or it is not: it has a forbidden word in it,   *)
(* or a character beyond a-z, 0-9 and _.                                   *)
Columns == {"safe_a", "safe_b", "email"}
MaxProviderColumns == 12
MaxProviderRecords == 8

QueryResults ==
    [columns : BoundedSeq(Columns, 2) \cup {[i \in 1..(MaxProviderColumns + 1) |-> "safe_a"]},
     rows : {1, MaxProviderRecords, MaxProviderRecords + 1}, scalars : BOOLEAN]

(* project_data_evidence and SafeDataProjection: a record is a dictionary, *)
(* so a column that is named twice would lose a value.                     *)
Projection(queried) ==
    IF /\ Len(queried.columns) <= MaxProviderColumns
       /\ Range(queried.columns) \subseteq Columns \ {"email"}
       /\ queried.scalars
       /\ IsInjective(queried.columns)
    THEN [shown |-> IF queried.rows < MaxProviderRecords THEN queried.rows ELSE MaxProviderRecords,
          width |-> Cardinality(Range(queried.columns)),
          row_count |-> queried.rows,
          truncated |-> queried.rows > MaxProviderRecords]
    ELSE [shown |-> 0, width |-> 0, row_count |-> 0, truncated |-> FALSE]

-----------------------------------------------------------------------------
(* The plan of the controlled workflow, and the decision of its reviewer *)

StepIds == {"step", "second"}
PlanSteps ==
    [id : StepIds, sequence : 1..2, skill : {SkillOf["mixed"], SkillOf["data"]},
     depends : SUBSET (StepIds \cup {"other"}), optional : BOOLEAN]
ExecutionPlans == [steps : BoundedSeq(PlanSteps, 1) \cup
                               {<<s, t>> : s, t \in {p \in PlanSteps : ~p.optional}},
                   rounds : {1, MaxRounds, MaxRounds + 1}]

(* PlanValidator.validate: the several steps it has rules for are refused  *)
(* in the end.                                                             *)
PlanIsValid(plan) ==
    LET ids == [i \in DOMAIN plan.steps |-> plan.steps[i].id]
    IN  /\ plan.steps # <<>> /\ IsInjective(ids)
        /\ \A i \in DOMAIN plan.steps :
              /\ plan.steps[i].sequence = i
              /\ plan.steps[i].depends \subseteq {ids[j] : j \in 1..(i - 1)}
        /\ Len(plan.steps) = 1
        /\ plan.rounds <= MaxRounds
        /\ plan.steps[1].skill = SkillOf["mixed"]
        /\ ~plan.steps[1].optional

PromptedPlan ==
    [steps |-> <<[id |-> "step", sequence |-> 1, skill |-> SkillOf["mixed"], depends |-> {},
                  optional |-> FALSE]>>,
     rounds |-> 1]

(* ReviewerDecision: nothing ties its four fields together.                *)
ReviewerDecisions ==
    [outcome : Verdicts, final : Verdicts, accepted : {"none", "step", "second"},
     target : {"none", "step", "second"}]

(* run, after a review: what it does about a decision.                     *)
Effect(decision) ==
    CASE /\ decision.outcome = "accept" /\ decision.final = "accept"
         /\ decision.accepted = "step" /\ decision.target = "none"
         /\ CompletedRounds # {} -> "accept"
      [] /\ decision.outcome = "repair" /\ decision.final = "repair"
         /\ decision.accepted = "none" /\ decision.target = "step"
         /\ RepairIsAllowed -> "repair"
      [] OTHER -> "failed"

-----------------------------------------------------------------------------
KnowledgeChoices ==
    [held \in SUBSET Documents |->
        {KnowledgeAnswer(held, sent) : sent \in {d \in Drafts : WellFormed(d) /\ ~d.bare}}
            \ {Refused}]
DataChoices ==
    {DataAnswer(<<DataEvidence>>, sent) : sent \in {d \in Drafts : WellFormed(d)}} \ {Refused}
MixedChoices ==
    [held \in SUBSET Citations |->
        {Range(MixedCitations(Among(<<DataEvidence>>, held), SetToSeq(held \cap Documents), declared)) :
             declared \in Lists} \ {{}}]
SelectionChoices ==
    {SelectedIds(Documents, requested, reason) :
         requested \in Lists, reason \in Texts(500)} \ {NoSelection}

Cited(answers) == {Range(answer.citations) : answer \in answers}

(* What is accepted and short enough gets through to the end.              *)
ServedUnlessTooLong(r, answers) ==
    \A answer \in answers : GetsThrough(r, answer) = (answer.text.raw <= AnswerMax)

DecisionsSplit ==
    \A decision \in {d \in Decisions : DecisionHolds(d)} :
        decision.route = "mixed" =>
            \A r \in Domains : DecisionHolds(Subdecision(decision, r))

PlansAreKept == \A plan \in {p \in Plans : PlanHolds(p)} : StateHolds(PlannedState(plan))

ReviewsAreKept ==
    \A review \in {r \in Reviews : ReviewHolds(r)} :
        /\ ReviewedHolds(review, Refused)
        /\ review.answerability = "answerable" =>
               \A answer \in UNION {KnowledgeChoices[held] : held \in SUBSET Documents} :
                   ReviewedHolds(review, answer)

(* The longest parts are accepted one by one, and too long together; the   *)
(* citations of all evidence are not what makes an answer too long.        *)
ShortContentsFit ==
    \A content \in {c \in Contents : ContentAccepted(c)} :
        LET parts == {content.summary, content.basis, content.action}
        IN  (RenderedLength(content, EvidenceMaxCount + 1) <= AnswerMax) = (parts = {Text(Short, Short)})

ValidPlans == {plan \in ExecutionPlans : PlanIsValid(plan)}

(* A valid plan is the one its prompt shows, whatever its step is called.  *)
PlansRunTheMixedSkill ==
    /\ PromptedPlan \in ValidPlans
    /\ \A plan \in ValidPlans :
           [plan.steps EXCEPT ![1].id = PromptedPlan.steps[1].id] = PromptedPlan.steps

ToolChoices ==
    [r \in Domains |-> {RequestedTool(request, ToolOf(r)) : request \in ToolRequests} \ {"none"}]

(* The provider of an answer is shown every row, or told that it is not,   *)
(* and of each row every value.                                            *)
ProjectionsTellWhatTheyCut ==
    \A queried \in QueryResults :
        LET projection == Projection(queried)
        IN  projection.shown > 0 =>
                /\ (projection.shown = projection.row_count) = ~projection.truncated
                /\ projection.width = Len(queried.columns)

(* Wherever a request waits for a role's reply, the replies its contract   *)
(* accepts are those the request may go on with, no more and no fewer: any *)
(* selection, each grounded set of citations, a plan of one mixed step, a  *)
(* verdict on the round that ran; and none of the contracts between it and *)
(* the coordinator refuses what was accepted, except for its length.       *)
AcceptedRepliesAreServed ==
    /\ at = "route" => DecisionsSplit
    /\ stage = "select_tool" =>
           ToolChoices[domain] = Range(AllowedTools[domain])
    /\ stage = "plan_data_query" => PlansAreKept
    /\ stage = "generate_data_answer" =>
           /\ ProjectionsTellWhatTheyCut
           /\ Cited(DataChoices) = {{DataEvidence}}
           /\ ServedUnlessTooLong("data", DataChoices)
    /\ stage = "select_evidence" => SelectionChoices = SUBSET Documents
    /\ stage = "review_answerability" => ReviewsAreKept
    /\ stage = "generate_answer" =>
           /\ Cited(KnowledgeChoices[selected]) = {c \in SUBSET Citations : ValidCitations(c)}
           /\ ServedUnlessTooLong("knowledge", KnowledgeChoices[selected])
    /\ at = "synthesize" =>
           /\ MixedChoices[cited] = {c \in SUBSET cited : CitesBoth(c)}
           /\ ShortContentsFit
    /\ at = "plan" => PlansRunTheMixedSkill
    /\ at = "review" =>
           {Effect(decision) : decision \in ReviewerDecisions}
               = {"failed"} \cup (IF CompletedRounds # {} THEN {"accept"} ELSE {})
                            \cup (IF RepairIsAllowed THEN {"repair"} ELSE {})
=============================================================================
