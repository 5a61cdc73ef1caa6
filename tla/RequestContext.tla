--------------------------- MODULE RequestContext ---------------------------
(***************************************************************************)
(* ContextManager.select and the five policies of a request: which of the  *)
(* items a request has gathered a node is shown, under its token budget.   *)
(*                                                                         *)
(* The items of a request are fixed: every node adds its own, under a      *)
(* label of its own, and no item expires.  An item is its label and its    *)
(* tokens; its kind, its trust and its domain follow from the label.       *)
(***************************************************************************)
EXTENDS Naturals, Sequences, FiniteSets, SequencesExt, FiniteSetsExt

CONSTANTS
    RequestTokens,  \* bound: the tokens a question may have
    AnswerTokens    \* bound: the tokens an agent's answer may have

ASSUME TokensAssumption == RequestTokens \cup AnswerTokens \subseteq Nat

-----------------------------------------------------------------------------
(* Items: RequestContextRuntime's constructors *)

(* The order of the labels is that of the item ids.                        *)
Labels ==
    <<"conversation-memory", "data-answer-evidence", "data-answer-summary",
      "data-skill-instruction", "knowledge-answer-evidence",
      "knowledge-answer-summary", "knowledge-skill-instruction",
      "mixed-data-answer-summary", "mixed-data-evidence",
      "mixed-knowledge-answer-summary", "mixed-knowledge-evidence",
      "router-decision", "router-instruction", "user-request">>

Memory == "conversation-memory"
SkillInstructions == {"data-skill-instruction", "knowledge-skill-instruction"}
MixedSummaries == {"mixed-data-answer-summary", "mixed-knowledge-answer-summary"}
AnswerSummaries == {"data-answer-summary", "knowledge-answer-summary"} \cup MixedSummaries
DataItems == {"data-answer-evidence", "mixed-data-evidence"}
KnowledgeItems == {"knowledge-answer-evidence", "mixed-knowledge-evidence"}

Kind(label) ==
    CASE label = "user-request" -> "user_request"
      [] label = "router-instruction" -> "system_instruction"
      [] label = "router-decision" -> "router_decision"
      [] label = Memory -> "conversation_memory"
      [] label \in SkillInstructions -> "skill_instruction"
      [] label \in AnswerSummaries -> "structured_summary"
      [] label \in DataItems -> "data_evidence"
      [] label \in KnowledgeItems -> "knowledge_evidence"

Source(label) ==
    CASE label = "router-instruction" -> "system"
      [] label = "user-request" -> "user"
      [] label = "router-decision" -> "router"
      [] label \in SkillInstructions -> "skill"
      [] label = Memory -> "external"
      [] OTHER -> "agent"

(* What the code calls its own is verified; a memory is external.          *)
Trust(label) ==
    CASE label = "router-instruction" -> "trusted_system"
      [] label = "user-request" -> "untrusted_user"
      [] label = Memory -> "untrusted_external"
      [] OTHER -> "verified_internal"

(* ContextItem's contract, without which the request could not gather it.  *)
Constructible(label) ==
    /\ Kind(label) = "system_instruction" => Source(label) = "system"
    /\ Kind(label) = "user_request" => Source(label) = "user"
    /\ Kind(label) = "tool_result" => Source(label) \in {"tool", "agent"}
    /\ Source(label) = "system" <=> Trust(label) = "trusted_system"
    /\ Source(label) = "external" => Trust(label) # "verified_internal"
    /\ label \in DataItems \cup KnowledgeItems => Source(label) # "system"

-----------------------------------------------------------------------------
(* Policies: what a node may be shown, what it must be, and its budget *)

Nodes == {"router", "coordinator", "knowledge", "data", "mixed_synthesis"}

Available(node) ==
    CASE node = "router" -> 2400 - 600
      [] node = "coordinator" -> 2400 - 400
      [] node \in {"knowledge", "data"} -> 4800 - 1200
      [] node = "mixed_synthesis" -> 6400 - 1600

CommonKinds == {"system_instruction", "user_request", "structured_summary"}

AllowedKinds(node) ==
    CommonKinds \cup
    CASE node = "router" -> {"conversation_memory"}
      [] node = "coordinator" -> {"router_decision"}
      [] node = "knowledge" -> {"skill_instruction", "knowledge_evidence", "conversation_memory"}
      [] node = "data" -> {"skill_instruction", "tool_result", "data_evidence", "conversation_memory"}
      [] node = "mixed_synthesis" -> {"knowledge_evidence", "data_evidence"}

(* The nodes that may be shown what is external.                           *)
Remembering == {"router", "knowledge", "data"}

AllowedTrusts(node) ==
    {"trusted_system", "verified_internal", "untrusted_user"}
    \cup (IF node = "data" THEN {"trusted_tool_result"} ELSE {})
    \cup (IF node \in Remembering THEN {"untrusted_external"} ELSE {})

Required(node) ==
    {"user-request"} \cup
    CASE node = "router" -> {"router-instruction"}
      [] node = "coordinator" -> {"router-decision"}
      [] node = "knowledge" -> {"knowledge-skill-instruction"}
      [] node = "data" -> {"data-skill-instruction"}
      [] node = "mixed_synthesis" -> MixedSummaries

(* _rejection_reason: the domain of evidence follows from its kind.        *)
Eligible(label, node) ==
    Kind(label) \in AllowedKinds(node) /\ Trust(label) \in AllowedTrusts(node)

-----------------------------------------------------------------------------
(* ContextManager.select *)

TrustPriority ==
    <<"trusted_system", "verified_internal", "trusted_tool_result",
      "untrusted_user", "untrusted_external">>

Rank(value, order) == CHOOSE i \in DOMAIN order : order[i] = value

(* A bug: the candidates are sorted by their ids.                          *)
PrecedesMutant(a, b) == Rank(a, Labels) < Rank(b, Labels)

(* Every item of a request was created at the same time.                   *)
Precedes(a, b) ==
    \/ Rank(Trust(a), TrustPriority) < Rank(Trust(b), TrustPriority)
    \/ Trust(a) = Trust(b) /\ Rank(a, Labels) < Rank(b, Labels)

Sorted(labels) ==
    [i \in 1..Cardinality(labels) |->
        CHOOSE a \in labels : Cardinality({b \in labels : Precedes(b, a)}) = i - 1]

Total(labels, tokens) == SumFunction([label \in labels |-> tokens[label]])

(* An item that is too large is dropped and smaller ones after it are not. *)
Take(node, tokens, taken, label) ==
    IF Eligible(label, node) /\ Total(taken, tokens) + tokens[label] <= Available(node)
    THEN taken \cup {label}
    ELSE taken

(* What is taken besides the required items, the candidates in their order. *)
Taking(node, tokens, candidates) ==
    LET taken[n \in 0 .. Len(candidates)] ==
            IF n = 0 THEN Required(node)
            ELSE Take(node, tokens, taken[n - 1], candidates[n])
    IN  taken[Len(candidates)]

Fails == {}

(* SelectedContextProjection: what of the items shown goes into a prompt;  *)
(* the router's instruction is sent apart.                                 *)
Prompted(node, shown) ==
    shown \cap ((Required(node) \ {"router-instruction"})
               \cup IF node \in Remembering THEN {Memory} ELSE {})

(* The items tokens gives a size are those of the request.  A required     *)
(* item that is missing, not allowed or too large raises.                  *)
Select(node, tokens) ==
    LET items == DOMAIN tokens
        required == Required(node)
    IN  IF /\ required \subseteq items
           /\ \A label \in required : Eligible(label, node)
           /\ Total(required, tokens) <= Available(node)
        THEN Taking(node, tokens, Sorted(items \ required))
        ELSE Fails

-----------------------------------------------------------------------------
(* The items a request has when a node selects; the knowledge skill runs   *)
(* alone or after the data skill.                                          *)
RouterItems == {"user-request", "router-instruction"}
CoordinatorItems == RouterItems \cup {"router-decision"}
DataSkillItems == CoordinatorItems \cup {"data-skill-instruction"}
KnowledgeSkillItems == CoordinatorItems \cup {"knowledge-skill-instruction"}
AfterDataItems ==
    DataSkillItems \cup KnowledgeSkillItems \cup {"data-answer-summary", "data-answer-evidence"}
SynthesisItems == Range(Labels) \ {Memory}

Selections ==
    {<<"router", RouterItems>>, <<"coordinator", CoordinatorItems>>,
     <<"data", DataSkillItems>>, <<"knowledge", KnowledgeSkillItems>>,
     <<"knowledge", AfterDataItems>>, <<"mixed_synthesis", SynthesisItems>>}

(* ConservativeCharacterTokenEstimator of the texts in the code; a         *)
(* decision repeats the question.                                          *)
RouterPromptTokens == 775
SkillPromptTokens == 13
DecisionTokens == 40

TokensOf(label, request, answer) ==
    CASE label = "user-request" -> request
      [] label = "router-instruction" -> RouterPromptTokens
      [] label \in SkillInstructions -> SkillPromptTokens
      [] label = "router-decision" -> DecisionTokens + request
      [] OTHER -> answer

Sizes(items, request, answer) == [label \in items |-> TokensOf(label, request, answer)]

WithMemory(tokens, size) ==
    [label \in DOMAIN tokens \cup {Memory} |-> IF label = Memory THEN size ELSE tokens[label]]

(* A memory of this size never changes what else a node is shown, nor      *)
(* whether it is shown anything; the coordinator and the synthesis are     *)
(* never shown one, and no node more than it has tokens for.  With enough  *)
(* of them the memory is in the prompt.                                    *)
DisplacesNothing(size) ==
    \A s \in Selections, question \in RequestTokens, answer \in AnswerTokens :
        LET node == s[1]
            tokens == Sizes(s[2], question, answer)
            remembering == WithMemory(tokens, size)
            shown == Select(node, remembering)
        IN  /\ shown \ {Memory} = Select(node, tokens)
            /\ node \in {"coordinator", "mixed_synthesis"} => Memory \notin shown
            /\ shown # Fails =>
                   /\ Required(node) \subseteq shown
                   /\ Total(shown, remembering) <= Available(node)
                   /\ node \in Remembering =>
                        (Memory \in Prompted(node, shown)
                            <=> Total(shown \ {Memory}, tokens) + size <= Available(node))
=============================================================================
