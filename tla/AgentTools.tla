----------------------------- MODULE AgentTools -----------------------------
(***************************************************************************)
(* The two agents behind the tools of a request, the data agent            *)
(* (workflows/data_agent.py) and the knowledge agent                       *)
(* (workflows/knowledge_qa.py), and the two ways a skill runs one: native  *)
(* tool calling, where the model selects the tool and copies its answer,   *)
(* and the preselected executor, which makes no provider call of its own.  *)
(*                                                                         *)
(* A request runs its agents one after the other, one await per action,    *)
(* and every provider call is one call of ProviderGovernance.call: the     *)
(* request's budget is all that is left of it here (ProviderGovernance     *)
(* says how it is kept).  An answer is the set of its citations.           *)
(***************************************************************************)
EXTENDS Naturals

CONSTANTS
    Documents,        \* the [E#] ids retrieval can give to evidence
    DataEvidence,     \* [D1], the only evidence of the data agent
    MaxProviderCalls  \* ProviderPolicy.max_provider_calls

ASSUME AgentAssumption ==
    /\ DataEvidence \notin Documents
    /\ MaxProviderCalls \in Nat \ {0}

VARIABLES
    calls,      \* provider calls counted so far
    exhausted,  \* history: a call was denied because the budget was spent
    mishap,     \* history: a provider, a source or a person's question failed
                \* the request, which is no fault of this code
    native,     \* the running agent is behind native tool calling
    stage,      \* the await the running agent is at
    evidence,   \* the evidence the agents of the request hold
    draft       \* the citations of the running agent's answer

governed == <<calls, exhausted>>
agent == <<calls, exhausted, mishap, native, stage, evidence, draft>>

Citations == Documents \cup {DataEvidence}
Domains == {"data", "knowledge"}

Stages ==
    {"idle", "select_tool", "plan_data_query", "execute_safe_query",
     "generate_data_answer", "retrieve_evidence", "select_evidence",
     "review_answerability", "generate_answer", "copy_answer", "answered", "failed"}

AgentTypeOK ==
    /\ calls \in 0..MaxProviderCalls
    /\ exhausted \in BOOLEAN
    /\ mishap \in BOOLEAN
    /\ native \in BOOLEAN
    /\ stage \in Stages
    /\ evidence \subseteq Citations
    /\ draft \subseteq Citations

AgentInit ==
    /\ calls = 0
    /\ exhausted = FALSE
    /\ mishap = FALSE
    /\ native = TRUE
    /\ stage = "idle"
    /\ evidence = {}
    /\ draft = {}

-----------------------------------------------------------------------------
(* A provider call.  It is allowed and its answer is valid, or the caller  *)
(* has nothing to go on with: the call was refused, its transport failed,  *)
(* its answer or something that is read before it is invalid.              *)

Allowed ==
    /\ calls < MaxProviderCalls
    /\ calls' = calls + 1
    /\ UNCHANGED exhausted

Useless ==
    \/ /\ mishap' = TRUE
       /\ calls' \in {calls, calls + 1} \cap 0..MaxProviderCalls
       /\ UNCHANGED exhausted
    \/ /\ calls = MaxProviderCalls
       /\ exhausted' = TRUE
       /\ UNCHANGED <<calls, mishap>>

-----------------------------------------------------------------------------
(* The end of an agent *)

Goto(next) == stage' = next /\ UNCHANGED <<evidence, draft>>

(* The model copies the answer of a tool it selected.                      *)
Deliver(citations) ==
    /\ stage' = IF native THEN "copy_answer" ELSE "answered"
    /\ draft' = citations
    /\ UNCHANGED evidence

FirstStage(domain) ==
    IF domain = "data" THEN "plan_data_query" ELSE "retrieve_evidence"

-----------------------------------------------------------------------------
(* The data agent *)

PlanDataQuery ==
    /\ stage = "plan_data_query"
    /\ \/ /\ Allowed
          /\ UNCHANGED mishap
          /\ Goto("execute_safe_query")
       \/ /\ Allowed     \* needs clarification, or is unsupported
          /\ mishap' = TRUE
          /\ Deliver({})
       \/ /\ Useless     \* the schema is read first
          /\ Goto("failed")
    /\ UNCHANGED native

ExecuteSafeQuery ==
    /\ stage = "execute_safe_query"
    /\ \/ /\ mishap' = TRUE
          /\ Goto("failed")
       \/ /\ evidence' = evidence \cup {DataEvidence}
          /\ stage' = "generate_data_answer"
          /\ UNCHANGED <<mishap, draft>>
       \/ /\ evidence' = evidence \cup {DataEvidence}   \* no rows
          /\ stage' = IF native THEN "copy_answer" ELSE "answered"
          /\ draft' = {DataEvidence}
          /\ UNCHANGED mishap
    /\ UNCHANGED <<governed, native>>

(* validate_data_citations                                                 *)
GenerateDataAnswer ==
    /\ stage = "generate_data_answer"
    /\ \/ /\ Allowed
          /\ UNCHANGED mishap
          /\ Deliver({DataEvidence})
       \/ /\ Useless
          /\ Goto("failed")
    /\ UNCHANGED native

-----------------------------------------------------------------------------
(* The knowledge agent *)

selected == evidence \cap Documents

RetrieveEvidence ==
    /\ stage = "retrieve_evidence"
    /\ \/ /\ mishap' = TRUE
          /\ Goto("failed")
       \/ /\ UNCHANGED mishap
          /\ Goto("select_evidence")
    /\ UNCHANGED <<governed, native>>

SelectEvidence ==
    /\ stage = "select_evidence"
    /\ \/ /\ Allowed
          /\ \E items \in SUBSET Documents :
                /\ evidence' = evidence \cup items
                /\ mishap' = (mishap \/ items = {})
          /\ stage' = "review_answerability"
          /\ UNCHANGED draft
       \/ /\ Useless
          /\ Goto("failed")
    /\ UNCHANGED native

(* Without evidence a rule answers; with it the provider decides.          *)
ReviewAnswerability ==
    /\ stage = "review_answerability"
    /\ \/ /\ selected = {}
          /\ Deliver({})
          /\ UNCHANGED <<governed, mishap>>
       \/ /\ selected # {}
          /\ Allowed
          /\ UNCHANGED mishap
          /\ Goto("generate_answer")
       \/ /\ selected # {}
          /\ Allowed
          /\ mishap' = TRUE
          /\ Deliver({})
       \/ /\ selected # {}
          /\ Useless
          /\ Goto("failed")
    /\ UNCHANGED native

(* validate_citations                                                      *)
ValidCitations(citations) == citations # {} /\ citations \subseteq selected

GenerateAnswer ==
    /\ stage = "generate_answer"
    /\ \/ /\ Allowed
          /\ UNCHANGED mishap
          /\ \E citations \in SUBSET Citations :
                ValidCitations(citations) /\ Deliver(citations)
       \/ /\ Useless
          /\ Goto("failed")
    /\ UNCHANGED native

-----------------------------------------------------------------------------
(* run_native_tool_calling *)

SelectTool(domain) ==
    /\ stage = "select_tool"
    /\ \/ /\ Allowed
          /\ UNCHANGED mishap
          /\ Goto(FirstStage(domain))
       \/ /\ Useless
          /\ Goto("failed")
    /\ UNCHANGED native

(* The copy is the tool's answer, or the skill fails.                      *)
CopyAnswer ==
    /\ stage = "copy_answer"
    /\ \/ /\ Allowed
          /\ UNCHANGED mishap
          /\ Goto("answered")
       \/ /\ Useless
          /\ Goto("failed")
    /\ UNCHANGED native

AgentStep(domain) ==
    \/ SelectTool(domain)
    \/ PlanDataQuery
    \/ ExecuteSafeQuery
    \/ GenerateDataAnswer
    \/ RetrieveEvidence
    \/ SelectEvidence
    \/ ReviewAnswerability
    \/ GenerateAnswer
    \/ CopyAnswer
=============================================================================
