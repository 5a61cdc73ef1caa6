---------------------------- MODULE RequestPaths ----------------------------
(***************************************************************************)
(* Coordinator._execute_business: the path one request takes from the      *)
(* router to its result, through a single skill, the mixed skill, or the   *)
(* controlled workflow that plans, executes and reviews the mixed skill.   *)
(*                                                                         *)
(* The path is sequential; what is hard about it is how its parts combine: *)
(* the provider budget of the request, the memory of the session, the      *)
(* items a request's context already holds, and the review of a round.     *)
(*                                                                         *)
(* An authorization refusal (scenario, scope, workflow, skill, tool) fails *)
(* the request where it is asked for: it is one of the ways of Useless and *)
(* of a skill that cannot be entered.  An error code is left out.          *)
(***************************************************************************)
EXTENDS AgentTools, SequencesExt

CONSTANT Configurations  \* what this runtime and this session may be

ASSUME ConfigurationsAssumption ==
    Configurations \subseteq
        [controlled : BOOLEAN,  \* Settings.controlled_workflow_enabled
         repairable : BOOLEAN,  \* the mixed skill is in repairable_skill_names
         memory : BOOLEAN]      \* the session has a projection of earlier turns

VARIABLES
    config,    \* the configuration, which never changes
    at,        \* where the coordinator is
    route,     \* RouterDecision.route
    domain,    \* the domain of the skill that runs
    context,   \* the domains whose instruction the context holds
    cited,     \* the citations of the mixed skill's children
    steps,     \* the StepExecutionResults of the controlled workflow
    verdicts,  \* the outcomes its reviewer gave
    outcome    \* the CoordinatorResult

path == <<config, at, route, domain, context, cited, steps, verdicts, outcome>>
vars == <<agent, path>>

Routes == Domains \cup {"mixed"}
Places == {"route", "plan", "skill", "synthesize", "review", "ended"}
Verdicts == {"accept", "repair", "unanswerable", "fail_closed"}
Results == {"completed", "failed"}

TypeOK ==
    /\ AgentTypeOK
    /\ config \in Configurations
    /\ at \in Places
    /\ route \in Routes \cup {"none"}
    /\ domain \in Domains
    /\ context \subseteq Domains
    /\ cited \subseteq Citations
    /\ steps \in Seq([status : Results, citations : SUBSET Citations])
    /\ verdicts \in Seq(Verdicts)
    /\ outcome \in [status : Results \cup {"none", "unsupported"},
                    citations : SUBSET Citations]

Result(status, citations) == [status |-> status, citations |-> citations]

Init ==
    /\ AgentInit
    /\ config \in Configurations
    /\ at = "route"
    /\ route = "none"
    /\ domain = "data"
    /\ context = {}
    /\ cited = {}
    /\ steps = <<>>
    /\ verdicts = <<>>
    /\ outcome = Result("none", {})

(* ExecutionBudget                                                         *)
MaxRounds == 2
MaxRepairs == 1
MaxReviews == 2

End(status, citations) ==
    /\ outcome' = Result(status, citations)
    /\ at' = "ended"

-----------------------------------------------------------------------------
(* The router, and the coordinator's choice *)

StartSkill(first) ==
    /\ domain' = first
    /\ at' = "skill"

TakeRoute ==
    \/ \E r \in Domains :
          /\ route' = r
          /\ StartSkill(r)
          /\ UNCHANGED outcome
    \/ /\ route' = "mixed"
       /\ IF config.controlled
          THEN at' = "plan" /\ UNCHANGED domain
          ELSE StartSkill("data")
       /\ UNCHANGED outcome
    \/ /\ End("unsupported", {})
       /\ UNCHANGED <<route, domain>>

RouteRequest ==
    /\ at = "route"
    /\ \/ Allowed /\ TakeRoute /\ UNCHANGED mishap
       \/ Useless /\ End("failed", {}) /\ UNCHANGED <<route, domain>>
    /\ UNCHANGED <<native, stage, evidence, draft, config, context, cited,
                   steps, verdicts>>

(* The plan has one step, the mixed skill; the first round starts.         *)
PlanWorkflow ==
    /\ at = "plan"
    /\ \/ Allowed /\ StartSkill("data") /\ UNCHANGED <<mishap, outcome>>
       \/ Useless /\ End("failed", {}) /\ UNCHANGED domain
    /\ UNCHANGED <<native, stage, evidence, draft, config, route, context,
                   cited, steps, verdicts>>

-----------------------------------------------------------------------------
(* The mixed skill returns: the workflow reviews its result, the direct    *)
(* path gives it back.                                                     *)

(* A bug: a completed round is given back without its review.              *)
MixedReturnsMutant(status, citations) ==
    IF config.controlled /\ status = "failed"
    THEN /\ steps' = Append(steps, Result(status, citations))
         /\ at' = "review"
         /\ UNCHANGED outcome
    ELSE /\ End(status, citations)
         /\ UNCHANGED steps

MixedReturns(status, citations) ==
    IF config.controlled
    THEN /\ steps' = Append(steps, Result(status, citations))
         /\ at' = "review"
         /\ UNCHANGED outcome
    ELSE /\ End(status, citations)
         /\ UNCHANGED steps

SkillFails ==
    /\ IF route = "mixed"
       THEN MixedReturns("failed", {})
       ELSE End("failed", {}) /\ UNCHANGED steps
    /\ UNCHANGED <<domain, cited>>

-----------------------------------------------------------------------------
(* execute_with_context of the data and the knowledge skill *)

(* The children of a controlled mixed skill run preselected.               *)
RunsNativeMutant == TRUE

RunsNative == ~(route = "mixed" /\ config.controlled)

(* Item ids are fixed: a second instruction of a domain is a duplicate.    *)
(* Two bugs: the domains share an id; a new round starts a new context.    *)
SharedIdMutant == context = {}
NewContextMutant == TRUE

InstructionIsNew == domain \notin context

(* The preselected executor refuses a memory that is selected.             *)
EnterSkill ==
    /\ at = "skill"
    /\ stage = "idle"
    /\ native' = RunsNative
    /\ \/ /\ mishap' = TRUE   \* not authorized: nothing runs
          /\ domain = "data" \/ route = "knowledge"
          /\ steps = <<>>
          /\ End("failed", {})
          /\ UNCHANGED <<stage, domain, context, cited, steps>>
       \/ /\ InstructionIsNew   \* the selection exceeds its token budget
          /\ mishap' = TRUE
          /\ context' = context \cup {domain}
          /\ SkillFails
          /\ UNCHANGED stage
       \/ /\ ~InstructionIsNew
          /\ SkillFails
          /\ UNCHANGED <<mishap, stage, context>>
       \/ /\ InstructionIsNew
          /\ context' = context \cup {domain}
          /\ UNCHANGED mishap
          /\ \E remembers \in {FALSE, config.memory} :
                IF RunsNative
                THEN /\ stage' = "select_tool"
                     /\ UNCHANGED <<at, domain, cited, steps, outcome>>
                ELSE IF remembers
                THEN SkillFails /\ UNCHANGED stage
                ELSE /\ stage' = FirstStage(domain)
                     /\ UNCHANGED <<at, domain, cited, steps, outcome>>
    /\ UNCHANGED <<governed, evidence, draft, config, route, verdicts>>

RunAgent ==
    /\ at = "skill"
    /\ AgentStep(domain)
    /\ UNCHANGED path

(* A knowledge answer without citations is no evidence: adding it to the   *)
(* context raises.  A data answer without citations adds no evidence, and  *)
(* only the mixed skill refuses it.                                        *)
(* A bug: the knowledge skill leaves the evidence out, like the data one.  *)
KeepsResultMutant == draft # {} \/ route # "mixed"

KeepsResult == draft # {} \/ route = "data"

(* A bug: only an answer ends the wait for the agent.                      *)
AgentIsDoneMutant == stage = "answered"

AgentIsDone == stage \in {"answered", "failed"}

LeaveSkill ==
    /\ at = "skill"
    /\ AgentIsDone
    /\ stage' = "idle"
    /\ \/ /\ stage = "failed" \/ ~KeepsResult
          /\ SkillFails
       \/ /\ stage = "answered" /\ KeepsResult
          /\ route # "mixed"
          /\ End("completed", draft)
          /\ UNCHANGED <<domain, cited, steps>>
       \/ /\ stage = "answered" /\ KeepsResult
          /\ route = "mixed"
          /\ cited' = cited \cup draft
          /\ IF domain = "data"
             THEN StartSkill("knowledge")
             ELSE at' = "synthesize" /\ UNCHANGED domain
          /\ UNCHANGED <<steps, outcome>>
    /\ UNCHANGED <<governed, mishap, native, evidence, draft, config, route,
                   context, verdicts>>

-----------------------------------------------------------------------------
(* The mixed skill's synthesis, _ordered_mixed_citations *)

CitesBoth(citations) ==
    /\ DataEvidence \in citations
    /\ citations \cap Documents # {}

Synthesize ==
    /\ at = "synthesize"
    /\ \/ /\ mishap' = TRUE   \* the context raises: a technical failure
          /\ End("failed", {})
          /\ UNCHANGED <<governed, domain, cited, steps>>
       \/ /\ Useless
          /\ SkillFails
       \/ /\ Allowed
          /\ \E citations \in SUBSET cited :
                CitesBoth(citations) /\ MixedReturns("completed", citations)
          /\ UNCHANGED <<mishap, domain, cited>>
    /\ UNCHANGED <<native, stage, evidence, draft, config, route, context, verdicts>>

-----------------------------------------------------------------------------
(* ControlledAgentWorkflow._review and what follows from its verdict *)

CompletedRounds == {i \in DOMAIN steps : steps[i].status = "completed"}
Newest(rounds) == CHOOSE i \in rounds : \A j \in rounds : j <= i

(* _accept_result: the newest completed step.                              *)
Accept ==
    /\ IF CompletedRounds # {}
       THEN End("completed", steps[Newest(CompletedRounds)].citations)
       ELSE End("failed", {})
    /\ UNCHANGED domain

(* _repair_is_allowed.  The second round runs without security context.    *)
RepairIsAllowed ==
    /\ config.repairable
    /\ Len(steps) - 1 < MaxRepairs
    /\ Len(steps) < MaxRounds
    /\ Len(verdicts) + 1 < MaxReviews

Repair ==
    IF RepairIsAllowed
    THEN StartSkill("data") /\ UNCHANGED outcome
    ELSE End("failed", {}) /\ UNCHANGED domain

(* A reviewer does its part when it accepts a completed round only.        *)
ReviewWorkflow ==
    /\ at = "review"
    /\ \/ /\ Allowed
          /\ \E verdict \in Verdicts :
                /\ verdicts' = Append(verdicts, verdict)
                /\ mishap' = (mishap \/ (verdict # "accept"
                                         /\ Last(steps).status = "completed"))
                /\ \/ verdict = "accept" /\ Accept
                   \/ verdict = "repair" /\ Repair
                   \/ /\ verdict \in {"unanswerable", "fail_closed"}
                      /\ End("failed", {})
                      /\ UNCHANGED domain
       \/ /\ Useless
          /\ End("failed", {})
          /\ UNCHANGED <<domain, verdicts>>
    /\ UNCHANGED <<native, stage, evidence, draft, config, route, context,
                   cited, steps>>

-----------------------------------------------------------------------------
Next ==
    \/ RouteRequest
    \/ PlanWorkflow
    \/ EnterSkill
    \/ RunAgent
    \/ LeaveSkill
    \/ Synthesize
    \/ ReviewWorkflow

(* Every provider call has a timeout, and so has every call of the         *)
(* enterprise data server; the rest is the event loop's own work.          *)
Spec == Init /\ [][Next]_vars /\ WF_vars(Next)

-----------------------------------------------------------------------------
Completed == outcome.status = "completed"

(* A completed answer cites only evidence the request's agents hold, and   *)
(* the data they queried if its route asks for data; a mixed answer cites  *)
(* both domains; an answer that cites nothing is a data agent's that       *)
(* queried nothing (it asks for a clarification).                          *)
AnswersAreGrounded ==
    Completed =>
        /\ outcome.citations \subseteq evidence
        /\ route # "data" => outcome.citations \cap Documents # {}
        /\ route # "knowledge" =>
               outcome.citations \ Documents = evidence \ Documents
        /\ route = "mixed" => DataEvidence \in outcome.citations

(* The nine calls of ProviderPolicy.controlled_mixed suffice for a single  *)
(* skill, and for a controlled mixed request up to its first review.       *)
BudgetCoversFirstReview ==
    exhausted =>
        /\ route = "mixed"
        /\ config.controlled => Len(steps) > 1

(* When every provider and source does its part a request is not failed,   *)
(* whatever was remembered: except on the mixed paths that the two         *)
(* properties below are about.                                             *)
FaithfulRequestsComplete ==
    outcome.status = "failed" /\ ~mishap =>
        route = "mixed" /\ (config.controlled => config.memory)

(* What the controlled workflow serves is a completed round, the newest    *)
(* one, each of its rounds was reviewed, and the last review accepted it.  *)
ServedWorkWasAccepted ==
    Completed /\ route = "mixed" /\ config.controlled =>
        /\ CompletedRounds # {}
        /\ Len(verdicts) = Len(steps)
        /\ Last(verdicts) = "accept"
        /\ outcome.citations = steps[Newest(CompletedRounds)].citations

(* A repair never replaces the round it repairs: its round finds the items *)
(* of the first one in the context.  A completed request that was repaired *)
(* serves the first round, which its reviewer had sent back.               *)
RepairsServeTheFirstRound ==
    /\ Len(steps) > 1 => steps[2].status = "failed"
    /\ Completed /\ Len(steps) > 1 =>
           outcome.citations = steps[1].citations /\ verdicts[1] = "repair"

-----------------------------------------------------------------------------
(* test_offline_controlled_inventory_runtime.py:588 expects a mixed        *)
(* request of a runtime without controlled workflow to complete.  Under    *)
(* the governance of the configured runtime the model-driven children need *)
(* eleven provider calls, and the tenth is denied.                         *)
DirectMixedCompletes ==
    route = "mixed" /\ ~config.controlled /\ outcome.status = "failed" => mishap

(* README.md:79: a later question can refer to what was said.  With the    *)
(* controlled workflow a mixed request of a session that has a memory      *)
(* fails in its data skill, whose executor refuses the memory.             *)
FollowUpMixedCompletes ==
    route = "mixed" /\ config.controlled /\ outcome.status = "failed" => mishap
=============================================================================
