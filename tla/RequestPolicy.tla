--------------------------- MODULE RequestPolicy ---------------------------
(***************************************************************************)
(* The gates between a request and its answer: the grants of its context,  *)
(* asked for by DefaultDenyAuthorizationPolicy, and the rows of            *)
(* ProviderPolicy.controlled_mixed, asked for by require_provider_egress   *)
(* before every provider call.  The tables stand in five files of the      *)
(* code: what the demo grants, what the coordinator, the workflow and the  *)
(* skills ask for, how the runtime wires its provider roles, and the       *)
(* matrix.  A request gets through if all of them agree.                   *)
(*                                                                         *)
(* The demo always enables the controlled workflow.  A path is one without *)
(* a clarification, a failure or a repair: RequestPaths has those.         *)
(***************************************************************************)
EXTENDS RequestPaths

Cases == {"knowledge", "data", "mixed"}  \* DemoCase, and the scenarios by the same names
KnowledgeTool == "run_knowledge_agent"
DataTool == "run_data_agent"
Domain == "enterprise_operations"

(* DEMO_SPECIFICATIONS: what a case is granted                             *)
Specification ==
    [knowledge |-> [workflow |-> "direct", skill |-> "enterprise-knowledge-qa",
                    tools |-> {KnowledgeTool}, documents |-> {"DOC-ORG-001", "DOC-AGENT-001"},
                    resources |-> {}],
     data |-> [workflow |-> "direct", skill |-> "enterprise-data-analysis",
               tools |-> {DataTool}, documents |-> {},
               resources |-> {"products", "inventory_snapshots"}],
     mixed |-> [workflow |-> "controlled_mixed", skill |-> "inventory-risk-diagnosis",
                tools |-> {DataTool, KnowledgeTool}, documents |-> {"DOC-INV-001"},
                resources |-> {"products", "inventory_snapshots", "purchase_orders", "suppliers"}]]

(* build_demo_security_context: a scope is there or not, {scope} or {}.    *)
DemoContext(tenant, cases) ==
    LET documents == UNION {Specification[c].documents : c \in cases}
        resources == UNION {Specification[c].resources : c \in cases}
    IN  [tenant |-> tenant,
         scenarios |-> cases,
         workflows |-> {Specification[c].workflow : c \in cases},
         skills |-> {Specification[c].skill : c \in cases},
         tools |-> UNION {Specification[c].tools : c \in cases},
         dataScope |-> IF resources = {} THEN {}
                       ELSE {[tenant |-> tenant, domains |-> {Domain}, resources |-> resources,
                              capabilities |-> {"read"}]},
         knowledgeScope |-> IF documents = {} THEN {}
                            ELSE {[tenant |-> tenant, documents |-> documents]}]

-----------------------------------------------------------------------------
(* DefaultDenyAuthorizationPolicy: the code it refuses with, or "none".    *)

Granted(name, grants, code) == IF name \in grants THEN "none" ELSE code

InScope(grantee, scopes, permitted, missing, violation) ==
    IF scopes = {} THEN missing
    ELSE LET scope == CHOOSE s \in scopes : TRUE
         IN  CASE scope.tenant # grantee.tenant -> "tenant_scope_mismatch"
               [] scope \notin permitted -> violation
               [] OTHER -> "none"

Permits(scope) == Domain \in scope.domains /\ "read" \in scope.capabilities

Authorize(grantee, gate) ==
    CASE gate.kind = "scenario" -> Granted(gate.name, grantee.scenarios, "scenario_forbidden")
      [] gate.kind = "workflow" -> Granted(gate.name, grantee.workflows, "workflow_forbidden")
      [] gate.kind = "skill" -> Granted(gate.name, grantee.skills, "skill_forbidden")
      [] gate.kind = "tool" -> Granted(gate.name, grantee.tools, "tool_forbidden")
      [] gate.kind = "data" ->
           InScope(grantee, grantee.dataScope,
                   {s \in grantee.dataScope : Permits(s) /\ s.resources # {}},
                   "data_scope_missing", "data_scope_violation")
      [] gate.kind = "knowledge" ->
           InScope(grantee, grantee.knowledgeScope,
                   {s \in grantee.knowledgeScope : s.documents # {}},
                   "knowledge_scope_missing", "knowledge_scope_violation")

-----------------------------------------------------------------------------
(* The provider roles and the egress matrix *)

Query == {"public", "internal"}
Summary == Query \cup {"confidential"}

(* ProviderPolicy.controlled_mixed: stage, classifications, evidence items *)
StagePolicies ==
    [routing |-> [classes |-> Query, items |-> 0],
     planning |-> [classes |-> Query, items |-> 0],
     data_planning |-> [classes |-> Query, items |-> 0],
     data_answer |-> [classes |-> Summary, items |-> 8],
     evidence_selection |-> [classes |-> Summary, items |-> 16],
     answerability_review |-> [classes |-> Summary, items |-> 16],
     knowledge_answer |-> [classes |-> Summary, items |-> 16],
     inventory_synthesis |-> [classes |-> Summary, items |-> 16],
     workflow_review |-> [classes |-> Summary, items |-> 8]]

EvidenceMaxCount == 5  \* RetrievalPipelineConfig.evidence_max_count

(* How the runtime wires a role: its stage, its class, how many pieces of  *)
(* evidence a call of it counts, and the names its projector takes.        *)
Wired(row, class, items) == [stage |-> row, class |-> class, items |-> items]

Roles ==
    [router |-> Wired("routing", "internal", 0),
     planner |-> Wired("planning", "internal", 0),
     native_model |-> Wired("knowledge_answer", "confidential", 0),
     data_query_planner |-> Wired("data_planning", "internal", 0),
     data_answer_generator |-> Wired("data_answer", "confidential", 1),
     evidence_selector |-> Wired("evidence_selection", "confidential", EvidenceMaxCount),
     answerability_reviewer |-> Wired("answerability_review", "confidential", EvidenceMaxCount),
     answer_generator |-> Wired("knowledge_answer", "confidential", EvidenceMaxCount),
     synthesizer |-> Wired("inventory_synthesis", "confidential", 0),
     reviewer |-> Wired("workflow_review", "confidential", 0)]

Traced == {"trace_recorder", "trace_parent_context"}

(* _provider_role_projector: the names a call must and may have.           *)
Projectors ==
    [evidence_selector |->
        [external |-> {"user_query", "evidence_context"},
         local |-> {"retrieval_evidence"} \cup Traced],
     answerability_reviewer |->
        [external |-> {"user_query", "selected_evidence_context"},
         local |-> {"selected_evidence"} \cup Traced],
     answer_generator |->
        [external |-> {"user_query", "selected_evidence_context", "answerability",
                       "missing_information", "decision_reason"},
         local |-> {"selected_evidence"} \cup Traced]]

(* The names the knowledge agent calls them with.                          *)
CallNames ==
    [evidence_selector |-> {"user_query", "evidence_context", "retrieval_evidence"} \cup Traced,
     answerability_reviewer |->
        {"user_query", "selected_evidence_context", "selected_evidence"} \cup Traced,
     answer_generator |->
        {"user_query", "selected_evidence_context", "selected_evidence", "answerability",
         "missing_information", "decision_reason"} \cup Traced]

Projects(role) ==
    role \in DOMAIN Projectors =>
        /\ Projectors[role].external \subseteq CallNames[role]
        /\ CallNames[role] \subseteq Projectors[role].external \cup Projectors[role].local

(* A bug: the last call the budget has is refused.                         *)
EgressMutant(role, oversized, made) ==
    LET entry == StagePolicies[Roles[role].stage]
    IN  CASE ~Projects(role) -> "provider_projection_failed"
          [] Roles[role].class \notin entry.classes -> "provider_data_classification_forbidden"
          [] role \in oversized -> "provider_payload_too_large"
          [] made + 1 >= MaxProviderCalls -> "provider_budget_exceeded"
          [] Roles[role].items > entry.items -> "provider_payload_too_large"
          [] OTHER -> "none"

(* The projection, require_provider_egress and the evidence limit, in this *)
(* order; oversized are the roles whose payload exceeds its stage's size.  *)
Egress(role, oversized, made) ==
    LET entry == StagePolicies[Roles[role].stage]
    IN  CASE ~Projects(role) -> "provider_projection_failed"
          [] Roles[role].class \notin entry.classes -> "provider_data_classification_forbidden"
          [] role \in oversized -> "provider_payload_too_large"
          [] made >= MaxProviderCalls -> "provider_budget_exceeded"
          [] Roles[role].items > entry.items -> "provider_payload_too_large"
          [] OTHER -> "none"

-----------------------------------------------------------------------------
(* The path of a request *)

Gate(kind, name) == [kind |-> kind, name |-> name]
Call(role) == Gate("call", role)

(* SkillDefinition: the skill of a route and the tools it may use.         *)
SkillOf == [knowledge |-> "enterprise-knowledge-qa", data |-> "enterprise-data-analysis",
            mixed |-> "inventory-risk-diagnosis"]
AllowedTools == [knowledge |-> <<KnowledgeTool>>, data |-> <<DataTool>>,
                 mixed |-> <<DataTool, KnowledgeTool>>]

(* _require_route_scopes                                                   *)
RouteScopes ==
    [knowledge |-> <<Gate("knowledge", "")>>, data |-> <<Gate("data", Domain)>>,
     mixed |-> <<Gate("knowledge", ""), Gate("data", Domain)>>]

DataAgent == <<Call("data_query_planner"), Call("data_answer_generator")>>
KnowledgeAgent ==
    <<Call("evidence_selector"), Call("answerability_reviewer"), Call("answer_generator")>>

(* Native tool calling selects the tool and copies its answer.             *)
Native(work) == <<Call("native_model")>> \o work \o <<Call("native_model")>>

SkillGates(case) ==
    [i \in DOMAIN AllowedTools[case] |-> Gate("tool", AllowedTools[case][i])]

Execution(case) ==
    CASE case = "knowledge" -> SkillGates(case) \o Native(KnowledgeAgent)
      [] case = "data" -> SkillGates(case) \o Native(DataAgent)
      [] case = "mixed" ->
           <<Call("planner"), Gate("skill", SkillOf[case])>> \o SkillGates(case)
               \o DataAgent \o KnowledgeAgent \o <<Call("synthesizer"), Call("reviewer")>>

Path(case) ==
    <<Call("router"), Gate("scenario", case)>> \o RouteScopes[case]
        \o <<Gate("workflow", IF case = "mixed" THEN "controlled_mixed" ELSE "direct"),
             Gate("skill", SkillOf[case])>>
        \o Execution(case)

(* After a refusal there is no other gate; a call that may leave is counted. *)
Pass(grantee, oversized, walk, gate) ==
    IF walk.refusal # "none" THEN walk
    ELSE IF gate.kind # "call" THEN [walk EXCEPT !.refusal = Authorize(grantee, gate)]
    ELSE LET code == Egress(gate.name, oversized, walk.calls)
         IN  [refusal |-> code, calls |-> walk.calls + IF code = "none" THEN 1 ELSE 0]

(* The walk up to the first refusal, with the calls made on the way.       *)
Walk(grantee, oversized, case) ==
    LET gates == Path(case)
        walked[n \in 0 .. Len(gates)] ==
            IF n = 0 THEN [refusal |-> "none", calls |-> 0]
            ELSE Pass(grantee, oversized, walked[n - 1], gates[n])
    IN  walked[Len(gates)]

-----------------------------------------------------------------------------
(* A context that lacks one grant, or whose scope is absent, of another    *)
(* tenant, or without the domain or the capability.  Grants are never      *)
(* empty: the one taken away leaves a name behind nothing asks for.        *)
Without(grants, grant) == (grants \ {grant}) \cup {"other"}

WeakerDataScopes(scopes) ==
    {{}} \cup UNION {{{[s EXCEPT !.domains = {}]}, {[s EXCEPT !.capabilities = {}]},
                     {[s EXCEPT !.tenant = "other"]}} : s \in scopes}
WeakerKnowledgeScopes(scopes) == {{}} \cup {{[s EXCEPT !.tenant = "other"]} : s \in scopes}

Weakened(grantee) ==
    (UNION {{[grantee EXCEPT ![kind] = Without(@, grant)] : grant \in grantee[kind]} :
                kind \in {"scenarios", "workflows", "skills", "tools"}})
    \cup {[grantee EXCEPT !.dataScope = weaker] :
              weaker \in WeakerDataScopes(grantee.dataScope) \ {grantee.dataScope}}
    \cup {[grantee EXCEPT !.knowledgeScope = weaker] :
              weaker \in WeakerKnowledgeScopes(grantee.knowledgeScope) \ {grantee.knowledgeScope}}

(* Of every set of granted cases: a case of it runs its whole path, and    *)
(* any other one is refused after its router's call.                       *)
OnlyGrantedOpen(case) ==
    \A cases \in (SUBSET Cases) \ {{}} :
        LET end == Walk(DemoContext("demo", cases), {}, case)
        IN  IF case \in cases THEN end.refusal = "none"
            ELSE end.refusal # "none" /\ end.calls = 1

(* A context with less is refused when only the router and the planner     *)
(* were called; a payload too large for its stage ends the path.           *)
EveryGateMatters(case) ==
    LET grantee == DemoContext("demo", {case})
    IN  /\ \A weakened \in Weakened(grantee) :
               LET end == Walk(weakened, {}, case) IN end.refusal # "none" /\ end.calls <= 2
        /\ \A role \in DOMAIN Roles :
               Call(role) \in Range(Path(case)) =>
                   Walk(grantee, {role}, case).refusal = "provider_payload_too_large"

GuardedPaths == {case \in Cases : OnlyGrantedOpen(case) /\ EveryGateMatters(case)}
PathCalls == [case \in Cases |-> Walk(DemoContext("demo", {case}), {}, case).calls]

(* A demo context opens the scenarios of its cases and no other one, where *)
(* the router's is the only call that leaves; each of its grants is        *)
(* needed, and a missing one is noticed before anything but the router and *)
(* the planner was called; a payload too large for its stage ends the path *)
(* at that call.  And the request that takes the path makes no call beyond *)
(* those the path has, until a review asks for a second round.             *)
GrantsOpenTheirPaths ==
    route \in Cases /\ (route = "mixed" => config.controlled) =>
        /\ route \in GuardedPaths
        /\ Len(steps) <= 1 => calls <= PathCalls[route]
=============================================================================
