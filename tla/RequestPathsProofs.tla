------------------------- MODULE RequestPathsProofs -------------------------
(***************************************************************************)
(* Proofs about RequestPaths, for every set of documents and every set of  *)
(* configurations; the two that are about the budget for every budget of   *)
(* at least nine calls.  Below them, the proofs about ObservedRequest, for *)
(* every limit of a trace: first what events do to a trace, then what each *)
(* step records, then how a trace ends.  Last, the gates of RequestPolicy  *)
(* and the calls between them, again for nine calls or more, and the       *)
(* contracts of RoleContracts, for any evidence retrieval can number.      *)
(***************************************************************************)
EXTENDS ObservedRequest, RoleContracts, FiniteSetTheorems, WellFoundedInduction, TLAPS

DataStages == {"plan_data_query", "execute_safe_query", "generate_data_answer"}
KnowledgeStages ==
    {"retrieve_evidence", "select_evidence", "review_answerability", "generate_answer"}

(* Where a request can be, and who is running there.                       *)
PlaceInv ==
    /\ at # "skill" => stage = "idle"
    /\ domain = "data" => stage \notin KnowledgeStages
    /\ domain = "knowledge" => stage \notin DataStages
    /\ stage = "select_tool" \/ stage = "copy_answer" => native
    /\ at = "skill" /\ stage # "idle" => native = RunsNative
    /\ at = "route" => route = "none"
    /\ at \in {"route", "plan"} => domain = "data"
    /\ at = "skill" => route = domain \/ route = "mixed"
    /\ at \in {"plan", "review"} => route = "mixed" /\ config.controlled
    /\ at = "synthesize" => route = "mixed" /\ domain = "knowledge"
    /\ at # "ended" => outcome.status = "none"

(* What the answers of the agents and of the mixed skill are grounded in.  *)
EvidenceInv ==
    /\ draft \subseteq evidence
    /\ cited \subseteq evidence
    /\ stage = "generate_data_answer" => DataEvidence \in evidence
    /\ stage \in {"copy_answer", "answered"} /\ domain = "knowledge" =>
           draft \subseteq Documents
    /\ at \in {"route", "plan"} => evidence = {}
    /\ route = "knowledge" => evidence \subseteq Documents
    /\ route = "data" => evidence \subseteq {DataEvidence}
    /\ at = "skill" /\ route = "data" =>
           /\ stage \in {"idle", "select_tool", "plan_data_query",
                         "execute_safe_query"} => evidence = {}
           /\ stage \in {"copy_answer", "answered"} => draft = evidence
    /\ \A i \in DOMAIN steps :
           /\ steps[i].citations \subseteq evidence
           /\ steps[i].status = "completed" => CitesBoth(steps[i].citations)

(* The rounds of the controlled workflow, their reviews and the context    *)
(* they share.                                                             *)
RoundInv ==
    /\ at \in {"route", "plan"} => steps = <<>> /\ verdicts = <<>> /\ context = {}
    /\ at \in {"skill", "synthesize"} =>
           Len(verdicts) = Len(steps) /\ Len(steps) <= 1
    /\ at = "review" => Len(steps) = Len(verdicts) + 1 /\ Len(steps) <= 2
    /\ at = "synthesize" => steps = <<>>
    /\ steps # <<>> => route = "mixed" /\ config.controlled /\ "data" \in context
    /\ at = "skill" /\ stage # "idle" => domain \in context
    /\ at \in {"skill", "synthesize"} /\ route = "mixed" /\ domain = "knowledge" =>
           "data" \in context
    /\ at = "skill" /\ steps # <<>> =>
           domain = "data" /\ stage = "idle" /\ verdicts[1] = "repair"
    /\ Len(steps) > 1 =>
           /\ Len(steps) = 2
           /\ steps[2].status = "failed"
           /\ verdicts # <<>>
           /\ verdicts[1] = "repair"

(* The calls a skill has made at most at a stage, and a path before it.    *)
StageCalls ==
    LET n == IF native THEN 1 ELSE 0
        last == IF domain = "data" THEN 2 ELSE 3
    IN CASE stage \in {"idle", "select_tool"} -> 0
         [] stage \in {"plan_data_query", "retrieve_evidence", "select_evidence"} -> n
         [] stage \in {"execute_safe_query", "generate_data_answer",
                       "review_answerability"} -> 1 + n
         [] stage = "generate_answer" -> 2 + n
         [] stage = "copy_answer" -> last + n
         [] OTHER -> last + n + n

CallsSoFar ==
    CASE at = "route" -> 0
      [] at = "plan" -> 1
      [] at = "skill" ->
             (IF route = "mixed" THEN IF domain = "data" THEN 2 ELSE 4 ELSE 1) + StageCalls
      [] at = "synthesize" -> 7
      [] OTHER -> 8

(* A path that nine calls suffice for, and one that is in its first round. *)
IsFrugal == route = "mixed" => config.controlled /\ Len(steps) <= 1
IsFrugalHere == at # "ended" /\ IsFrugal /\ (at = "skill" => steps = <<>>)

(* The budget is spent in other paths only: what it takes is bounded by    *)
(* the place of the request, and no place of a first round is beyond 8.    *)
BudgetInv ==
    /\ BudgetCoversFirstReview
    /\ IsFrugalHere => calls <= CallsSoFar

(* A request that nothing has gone wrong for: it ends served.              *)
IsFaithful == ~mishap /\ (route = "mixed" => config.controlled /\ ~config.memory)

FaithInv ==
    IsFaithful =>
        /\ outcome.status # "failed"
        /\ ~exhausted
        /\ stage # "failed"
        /\ stage \in {"copy_answer", "answered"} => draft # {}
        /\ stage \in {"review_answerability", "generate_answer"} => selected # {}
        /\ at = "skill" => steps = <<>>
        /\ at = "skill" /\ stage = "idle" => domain \notin context
        /\ at = "skill" /\ domain = "data" => "knowledge" \notin context
        /\ at = "review" => Len(steps) = 1 /\ steps[1].status = "completed"

-----------------------------------------------------------------------------
(* An element of a sequence. *)
LEMMA ElementType ==
    ASSUME NEW S, NEW s \in Seq(S), NEW i \in DOMAIN s
    PROVE  s[i] \in S
OBVIOUS

(* A sequence with one more element. *)
LEMMA LongerByOne ==
    ASSUME NEW S, NEW s \in Seq(S), NEW e \in S
    PROVE  Len(Append(s, e)) = Len(s) + 1
OBVIOUS

(* The completed rounds, two at most, have a newest one. *)
LEMMA NewestRound ==
    ASSUME NEW rounds \in SUBSET (1..2), rounds # {}
    PROVE  /\ Newest(rounds) \in rounds
           /\ \A j \in rounds : j <= Newest(rounds)
<1>1. \E i \in rounds : \A j \in rounds : j <= i
  <2>1. CASE 2 \in rounds
    BY <2>1
  <2>2. CASE 2 \notin rounds
    <3>1. PICK i \in rounds : TRUE
      OBVIOUS
    <3>2. i = 1
      BY <2>2, <3>1
    <3>3. \A j \in rounds : j <= 1
      BY <2>2
    <3> QED
      BY <3>1, <3>2, <3>3
  <2> QED
    BY <2>1, <2>2
<1> QED
  BY <1>1 DEF Newest

-----------------------------------------------------------------------------
(* What a provider call leaves of the budget. *)
LEMMA AllowedTypes ==
    ASSUME TypeOK, Allowed
    PROVE  calls' \in 0..MaxProviderCalls /\ exhausted' \in BOOLEAN
<1>1. calls \in 0..MaxProviderCalls /\ exhausted \in BOOLEAN
  BY DEF TypeOK, AgentTypeOK
<1> QED
  BY <1>1, AgentAssumption DEF Allowed

(* A call that is of no use leaves the counters well typed, too. *)
LEMMA UselessTypes ==
    ASSUME TypeOK, Useless
    PROVE  calls' \in 0..MaxProviderCalls /\ exhausted' \in BOOLEAN /\ mishap' \in BOOLEAN
<1>1. calls \in 0..MaxProviderCalls /\ exhausted \in BOOLEAN /\ mishap \in BOOLEAN
  BY DEF TypeOK, AgentTypeOK
<1> QED
  BY <1>1, AgentAssumption DEF Useless

(* The parts of TypeOK that an operation may change. *)
CallsAreTyped ==
    calls \in 0..MaxProviderCalls /\ exhausted \in BOOLEAN /\ mishap \in BOOLEAN
AgentIsTyped ==
    /\ native \in BOOLEAN
    /\ stage \in Stages
    /\ evidence \subseteq Citations
    /\ draft \subseteq Citations
PlaceIsTyped ==
    /\ config \in Configurations
    /\ at \in Places
    /\ route \in Routes \cup {"none"}
    /\ domain \in Domains
    /\ context \subseteq Domains
    /\ cited \subseteq Citations
RoundsAreTyped ==
    /\ steps \in Seq([status : Results, citations : SUBSET Citations])
    /\ verdicts \in Seq(Verdicts)
    /\ outcome \in [status : Results \cup {"none", "unsupported"},
                    citations : SUBSET Citations]

(* TypeOK is the conjunction of those parts, in this state and the next. *)
LEMMA TypeParts ==
    TypeOK <=> CallsAreTyped /\ AgentIsTyped /\ PlaceIsTyped /\ RoundsAreTyped
BY
DEF TypeOK, AgentTypeOK, CallsAreTyped, AgentIsTyped, PlaceIsTyped, RoundsAreTyped

LEMMA TypePartsNext ==
    TypeOK' <=> CallsAreTyped' /\ AgentIsTyped' /\ PlaceIsTyped' /\ RoundsAreTyped'
BY
DEF TypeOK, AgentTypeOK, CallsAreTyped, AgentIsTyped, PlaceIsTyped, RoundsAreTyped

(* What an operation that ends a skill leaves well typed. *)
LEMMA EndTypes ==
    ASSUME NEW status \in Results \cup {"none", "unsupported"},
           NEW citations \in SUBSET Citations,
           End(status, citations)
    PROVE  /\ at' \in Places
           /\ outcome' \in [status : Results \cup {"none", "unsupported"},
                            citations : SUBSET Citations]
BY DEF End, Result, Places

LEMMA MixedReturnsTypes ==
    ASSUME TypeOK,
           NEW status \in Results,
           NEW citations \in SUBSET Citations,
           MixedReturns(status, citations)
    PROVE  /\ at' \in Places
           /\ steps' \in Seq([status : Results, citations : SUBSET Citations])
           /\ outcome' \in [status : Results \cup {"none", "unsupported"},
                            citations : SUBSET Citations]
<1>1. RoundsAreTyped
  BY TypeParts
<1>2. Result(status, citations) \in [status : Results, citations : SUBSET Citations]
  BY DEF Result
<1>3. CASE config.controlled
  <2>1. Append(steps, Result(status, citations))
            \in Seq([status : Results, citations : SUBSET Citations])
    BY <1>1, <1>2 DEF RoundsAreTyped
  <2> QED
    BY <1>1, <1>3, <2>1 DEF MixedReturns, RoundsAreTyped, Places
<1>4. CASE ~config.controlled
  BY <1>1, <1>4, EndTypes DEF MixedReturns, RoundsAreTyped
<1> QED
  BY <1>3, <1>4

LEMMA SkillFailsTypes ==
    ASSUME TypeOK, SkillFails
    PROVE  /\ at' \in Places
           /\ steps' \in Seq([status : Results, citations : SUBSET Citations])
           /\ outcome' \in [status : Results \cup {"none", "unsupported"},
                            citations : SUBSET Citations]
<1>1. RoundsAreTyped
  BY TypeParts
<1>2. "failed" \in Results /\ {} \in SUBSET Citations
  BY DEF Results
<1>3. CASE route = "mixed"
  BY <1>2, <1>3, MixedReturnsTypes DEF SkillFails
<1>4. CASE route # "mixed"
  BY <1>1, <1>2, <1>4, EndTypes DEF SkillFails, RoundsAreTyped
<1> QED
  BY <1>3, <1>4

(* An agent leaves the path alone. *)
LEMMA AgentTypes ==
    ASSUME TypeOK, RunAgent
    PROVE  TypeOK'
<1>1. CallsAreTyped /\ AgentIsTyped /\ PlaceIsTyped /\ RoundsAreTyped
  BY TypeParts
<1>2. PlaceIsTyped' /\ RoundsAreTyped'
  BY <1>1 DEF RunAgent, path, PlaceIsTyped, RoundsAreTyped
<1>3. CallsAreTyped' /\ AgentIsTyped'
  <2>1. CASE SelectTool(domain)
    BY <1>1, <2>1, AllowedTypes, UselessTypes
    DEF SelectTool, Goto, FirstStage, CallsAreTyped, AgentIsTyped, Stages
  <2>2. CASE PlanDataQuery
    BY <1>1, <2>2, AllowedTypes, UselessTypes
    DEF PlanDataQuery, Goto, Deliver, CallsAreTyped, AgentIsTyped, Stages
  <2>3. CASE ExecuteSafeQuery
    BY <1>1, <2>3
    DEF ExecuteSafeQuery, governed, Goto, CallsAreTyped, AgentIsTyped, Stages,
        Citations
  <2>4. CASE GenerateDataAnswer
    BY <1>1, <2>4, AllowedTypes, UselessTypes
    DEF GenerateDataAnswer, Goto, Deliver, CallsAreTyped, AgentIsTyped, Stages,
        Citations
  <2>5. CASE RetrieveEvidence
    BY <1>1, <2>5
    DEF RetrieveEvidence, governed, Goto, CallsAreTyped, AgentIsTyped, Stages
  <2>6. CASE SelectEvidence
    BY <1>1, <2>6, AllowedTypes, UselessTypes
    DEF SelectEvidence, Goto, CallsAreTyped, AgentIsTyped, Stages, Citations
  <2>7. CASE ReviewAnswerability
    BY <1>1, <2>7, AllowedTypes, UselessTypes
    DEF ReviewAnswerability, governed, Goto, Deliver, CallsAreTyped, AgentIsTyped,
        Stages
  <2>8. CASE GenerateAnswer
    BY <1>1, <2>8, AllowedTypes, UselessTypes
    DEF GenerateAnswer, Goto, Deliver, CallsAreTyped, AgentIsTyped, Stages
  <2>9. CASE CopyAnswer
    BY <1>1, <2>9, AllowedTypes, UselessTypes
    DEF CopyAnswer, Goto, CallsAreTyped, AgentIsTyped, Stages
  <2> QED
    BY <2>1, <2>2, <2>3, <2>4, <2>5, <2>6, <2>7, <2>8, <2>9 DEF RunAgent, AgentStep
<1> QED
  BY <1>2, <1>3, TypePartsNext

(* Every step leaves the types alone. *)
LEMMA TypeStep == TypeOK /\ PlaceInv /\ RoundInv /\ [Next]_vars => TypeOK'
<1> SUFFICES ASSUME TypeOK, PlaceInv, RoundInv, [Next]_vars
             PROVE  CallsAreTyped' /\ AgentIsTyped' /\ PlaceIsTyped' /\ RoundsAreTyped'
  BY TypePartsNext
<1> USE DEF Results
<1>0. CallsAreTyped /\ AgentIsTyped /\ PlaceIsTyped /\ RoundsAreTyped
  BY TypeParts
<1>1. CASE RouteRequest
  <2>1. CallsAreTyped'
    BY <1>0, <1>1, AllowedTypes, UselessTypes DEF RouteRequest, CallsAreTyped
  <2>2. AgentIsTyped'
    BY <1>0, <1>1 DEF RouteRequest, AgentIsTyped
  <2>3. PlaceIsTyped'
    BY <1>0, <1>1
    DEF RouteRequest, TakeRoute, StartSkill, End, PlaceIsTyped, Places, Routes,
        Domains
  <2>4. RoundsAreTyped'
    BY <1>0, <1>1
    DEF RouteRequest, TakeRoute, StartSkill, End, Result, RoundsAreTyped
  <2> QED
    BY <2>1, <2>2, <2>3, <2>4
<1>2. CASE PlanWorkflow
  <2>1. CallsAreTyped'
    BY <1>0, <1>2, AllowedTypes, UselessTypes DEF PlanWorkflow, CallsAreTyped
  <2>2. AgentIsTyped'
    BY <1>0, <1>2 DEF PlanWorkflow, AgentIsTyped
  <2>3. PlaceIsTyped'
    BY <1>0, <1>2
    DEF PlanWorkflow, StartSkill, End, PlaceIsTyped, Places, Routes, Domains
  <2>4. RoundsAreTyped'
    BY <1>0, <1>2 DEF PlanWorkflow, StartSkill, End, Result, RoundsAreTyped
  <2> QED
    BY <2>1, <2>2, <2>3, <2>4
<1>3. CASE EnterSkill
  <2>1. CallsAreTyped'
    BY <1>0, <1>3 DEF EnterSkill, governed, CallsAreTyped
  <2>2. AgentIsTyped'
    BY <1>0, <1>3 DEF EnterSkill, RunsNative, FirstStage, AgentIsTyped, Stages
  <2>3. /\ steps' \in Seq([status : Results, citations : SUBSET Citations])
        /\ outcome' \in [status : Results \cup {"none", "unsupported"},
                         citations : SUBSET Citations]
        /\ at' \in Places
    BY <1>0, <1>3, EndTypes, SkillFailsTypes
    DEF EnterSkill, RoundsAreTyped, PlaceIsTyped
  <2>4. PlaceIsTyped'
    BY <1>0, <1>3, <2>3 DEF EnterSkill, SkillFails, PlaceIsTyped, Domains
  <2>5. RoundsAreTyped'
    BY <1>0, <1>3, <2>3 DEF EnterSkill, RoundsAreTyped
  <2> QED
    BY <2>1, <2>2, <2>4, <2>5
<1>4. CASE RunAgent
  BY <1>4, AgentTypes, TypePartsNext
<1>5. CASE LeaveSkill
  <2>1. CallsAreTyped'
    BY <1>0, <1>5 DEF LeaveSkill, governed, CallsAreTyped
  <2>2. AgentIsTyped'
    BY <1>0, <1>5 DEF LeaveSkill, AgentIsTyped, Stages
  <2>3. /\ steps' \in Seq([status : Results, citations : SUBSET Citations])
        /\ outcome' \in [status : Results \cup {"none", "unsupported"},
                         citations : SUBSET Citations]
        /\ at' \in Places
    BY <1>0, <1>5, EndTypes, SkillFailsTypes
    DEF LeaveSkill, StartSkill, RoundsAreTyped, AgentIsTyped, Places
  <2>4. PlaceIsTyped'
    BY <1>0, <1>5, <2>3
    DEF LeaveSkill, SkillFails, StartSkill, PlaceIsTyped, AgentIsTyped, Domains
  <2>5. RoundsAreTyped'
    BY <1>0, <1>5, <2>3 DEF LeaveSkill, RoundsAreTyped
  <2> QED
    BY <2>1, <2>2, <2>4, <2>5
<1>6. CASE Synthesize
  <2>1. CallsAreTyped'
    BY <1>0, <1>6, AllowedTypes, UselessTypes
    DEF Synthesize, governed, CallsAreTyped
  <2>2. AgentIsTyped'
    BY <1>0, <1>6 DEF Synthesize, AgentIsTyped
  <2>3. /\ steps' \in Seq([status : Results, citations : SUBSET Citations])
        /\ outcome' \in [status : Results \cup {"none", "unsupported"},
                         citations : SUBSET Citations]
        /\ at' \in Places
    BY <1>0, <1>6, EndTypes, SkillFailsTypes, MixedReturnsTypes
    DEF Synthesize, RoundsAreTyped, PlaceIsTyped
  <2>4. PlaceIsTyped'
    BY <1>0, <1>6, <2>3 DEF Synthesize, SkillFails, PlaceIsTyped
  <2>5. RoundsAreTyped'
    BY <1>0, <1>6, <2>3 DEF Synthesize, RoundsAreTyped
  <2> QED
    BY <2>1, <2>2, <2>4, <2>5
<1>7. CASE ReviewWorkflow
  <2>1. CallsAreTyped'
    BY <1>0, <1>7, AllowedTypes, UselessTypes DEF ReviewWorkflow, CallsAreTyped
  <2>2. AgentIsTyped'
    BY <1>0, <1>7 DEF ReviewWorkflow, AgentIsTyped
  <2>3. PlaceIsTyped'
    BY <1>0, <1>7
    DEF ReviewWorkflow, Accept, Repair, StartSkill, End, PlaceIsTyped, Places,
        Domains
  <2>4. outcome' \in [status : Results \cup {"none", "unsupported"},
                      citations : SUBSET Citations]
    <3>1. ASSUME CompletedRounds # {}
          PROVE  steps[Newest(CompletedRounds)].citations \in SUBSET Citations
      <4>1. Len(steps) \in Nat /\ Len(steps) <= 2 /\ DOMAIN steps = 1..Len(steps)
        BY <1>0, <1>7 DEF ReviewWorkflow, RoundInv, RoundsAreTyped
      <4>2. CompletedRounds \in SUBSET (1..2) /\ CompletedRounds \in SUBSET DOMAIN steps
        BY <4>1 DEF CompletedRounds
      <4>3. Newest(CompletedRounds) \in DOMAIN steps
        BY <3>1, <4>2, NewestRound
      <4>4. steps[Newest(CompletedRounds)] \in [status : Results, citations : SUBSET Citations]
        BY <1>0, <4>3, ElementType DEF RoundsAreTyped
      <4> QED
        BY <4>4
    <3> QED
      BY <1>0, <1>7, <3>1
      DEF ReviewWorkflow, Accept, Repair, StartSkill, End, Result, RoundsAreTyped
  <2>5. verdicts' \in Seq(Verdicts)
    BY <1>0, <1>7 DEF ReviewWorkflow, RoundsAreTyped
  <2>6. RoundsAreTyped'
    BY <1>0, <1>7, <2>4, <2>5 DEF ReviewWorkflow, RoundsAreTyped
  <2> QED
    BY <2>1, <2>2, <2>3, <2>6
<1>8. CASE UNCHANGED vars
  BY <1>0, <1>8
  DEF vars, agent, path, CallsAreTyped, AgentIsTyped, PlaceIsTyped, RoundsAreTyped
<1> QED
  BY <1>1, <1>2, <1>3, <1>4, <1>5, <1>6, <1>7, <1>8 DEF Next

-----------------------------------------------------------------------------
(* Every step keeps the place of the request and its running agent apart   *)
(* from the others.                                                        *)
LEMMA PlaceStep == TypeOK /\ PlaceInv /\ [Next]_vars => PlaceInv'
<1> SUFFICES ASSUME TypeOK, PlaceInv, [Next]_vars PROVE PlaceInv'
  OBVIOUS
<1> USE DEF PlaceInv, DataStages, KnowledgeStages
<1>0. AgentIsTyped /\ PlaceIsTyped
  BY TypeParts
<1>1. CASE RouteRequest
  BY <1>0, <1>1
  DEF RouteRequest, TakeRoute, StartSkill, End, PlaceIsTyped, AgentIsTyped, Domains
<1>2. CASE PlanWorkflow
  BY <1>0, <1>2 DEF PlanWorkflow, StartSkill, End
<1>3. CASE EnterSkill
  BY <1>0, <1>3
  DEF EnterSkill, RunsNative, FirstStage, SkillFails, MixedReturns, End,
      PlaceIsTyped, Domains
<1>4. CASE RunAgent
  <2> USE <1>0, <1>4 DEF RunAgent, path, RunsNative, Goto, Deliver
  <2>1. CASE SelectTool(domain)
    BY <2>1 DEF SelectTool, FirstStage
  <2>2. CASE PlanDataQuery
    BY <2>2 DEF PlanDataQuery
  <2>3. CASE ExecuteSafeQuery
    BY <2>3 DEF ExecuteSafeQuery
  <2>4. CASE GenerateDataAnswer
    BY <2>4 DEF GenerateDataAnswer
  <2>5. CASE RetrieveEvidence
    BY <2>5 DEF RetrieveEvidence
  <2>6. CASE SelectEvidence
    BY <2>6 DEF SelectEvidence
  <2>7. CASE ReviewAnswerability
    BY <2>7 DEF ReviewAnswerability
  <2>8. CASE GenerateAnswer
    BY <2>8 DEF GenerateAnswer
  <2>9. CASE CopyAnswer
    BY <2>9 DEF CopyAnswer
  <2> QED
    BY <2>1, <2>2, <2>3, <2>4, <2>5, <2>6, <2>7, <2>8, <2>9 DEF AgentStep
<1>5. CASE LeaveSkill
  BY <1>0, <1>5
  DEF LeaveSkill, SkillFails, MixedReturns, StartSkill, End, PlaceIsTyped, Domains
<1>6. CASE Synthesize
  BY <1>0, <1>6 DEF Synthesize, SkillFails, MixedReturns, End
<1>7. CASE ReviewWorkflow
  BY <1>0, <1>7 DEF ReviewWorkflow, Accept, Repair, StartSkill, End
<1>8. CASE UNCHANGED vars
  BY <1>8 DEF vars, agent, path, RunsNative
<1> QED
  BY <1>1, <1>2, <1>3, <1>4, <1>5, <1>6, <1>7, <1>8 DEF Next

-----------------------------------------------------------------------------
(* The step that a failed or a completed round adds. *)
LEMMA MixedReturnsRound ==
    ASSUME TypeOK,
           NEW status \in Results,
           NEW citations \in SUBSET Citations,
           config.controlled,
           MixedReturns(status, citations)
    PROVE  /\ at' = "review"
           /\ UNCHANGED outcome
           /\ Len(steps') = Len(steps) + 1
           /\ \A i \in DOMAIN steps : steps'[i] = steps[i]
           /\ steps'[Len(steps) + 1] = Result(status, citations)
           /\ DOMAIN steps' = DOMAIN steps \cup {Len(steps) + 1}
<1> DEFINE step == Result(status, citations)
<1>1. /\ steps' = Append(steps, step)
      /\ at' = "review"
      /\ UNCHANGED outcome
  BY DEF MixedReturns
<1>2. /\ steps \in Seq([status : Results, citations : SUBSET Citations])
      /\ step \in [status : Results, citations : SUBSET Citations]
  BY TypeParts DEF RoundsAreTyped, Result
<1> HIDE DEF step
<1>3. /\ Len(Append(steps, step)) = Len(steps) + 1
      /\ DOMAIN Append(steps, step) = 1..(Len(steps) + 1)
      /\ DOMAIN steps = 1..Len(steps)
      /\ \A i \in DOMAIN steps : Append(steps, step)[i] = steps[i]
      /\ Append(steps, step)[Len(steps) + 1] = step
      /\ Len(steps) \in Nat
  BY <1>2
<1>4. 1..(Len(steps) + 1) = 1..Len(steps) \cup {Len(steps) + 1}
  BY <1>3
<1> QED
  BY <1>1, <1>3, <1>4 DEF step

(* A round fails. *)
LEMMA FailedRound ==
    ASSUME TypeOK, PlaceInv, RoundInv,
           at = "skill", route = "mixed", config.controlled,
           "data" \in context', context \subseteq context',
           SkillFails,
           UNCHANGED <<config, route, verdicts, domain>>,
           stage' = "idle"
    PROVE  RoundInv'
<1>0. RoundsAreTyped
  BY TypeParts
<1>1. MixedReturns("failed", {})
  BY DEF SkillFails
<1>2. "failed" \in Results /\ {} \in SUBSET Citations
  BY DEF Results
<1>3. /\ at' = "review"
      /\ Len(steps') = Len(steps) + 1
      /\ \A i \in DOMAIN steps : steps'[i] = steps[i]
      /\ steps'[Len(steps) + 1] = Result("failed", {})
  BY <1>1, <1>2, MixedReturnsRound
<1>4. /\ Len(steps) \in Nat /\ Len(verdicts) \in Nat
      /\ Len(verdicts) = Len(steps) /\ Len(steps) <= 1
      /\ steps # <<>> <=> Len(steps) > 0
      /\ verdicts # <<>> <=> Len(verdicts) > 0
  BY <1>0 DEF RoundInv, RoundsAreTyped
<1>5. Len(steps') = 2 =>
          steps'[2].status = "failed" /\ verdicts # <<>> /\ verdicts[1] = "repair"
  <2> SUFFICES ASSUME Len(steps') = 2
               PROVE  steps'[2].status = "failed" /\ verdicts # <<>> /\ verdicts[1] = "repair"
    OBVIOUS
  <2>1. Len(steps) = 1 /\ steps # <<>> /\ verdicts # <<>>
    BY <1>3, <1>4
  <2>2. verdicts[1] = "repair"
    BY <2>1 DEF RoundInv
  <2>3. steps'[2] = Result("failed", {})
    BY <1>3, <2>1
  <2>4. steps'[2].status = "failed"
    BY <2>3 DEF Result
  <2> QED
    BY <2>1, <2>2, <2>4
<1> QED
  BY <1>3, <1>4, <1>5 DEF RoundInv

(* Every step keeps the rounds, their reviews and the context in step. *)
LEMMA RoundStep == TypeOK /\ PlaceInv /\ RoundInv /\ [Next]_vars => RoundInv'
<1> SUFFICES ASSUME TypeOK, PlaceInv, RoundInv, [Next]_vars PROVE RoundInv'
  OBVIOUS
<1>0. AgentIsTyped /\ PlaceIsTyped /\ RoundsAreTyped
  BY TypeParts
<1>0a. "failed" \in Results /\ "completed" \in Results
  BY DEF Results
<1>1. CASE RouteRequest
  BY <1>0, <1>1
  DEF RouteRequest, TakeRoute, StartSkill, End, RoundInv, PlaceInv, RoundsAreTyped,
      Domains
<1>2. CASE PlanWorkflow
  BY <1>0, <1>2
  DEF PlanWorkflow, StartSkill, End, RoundInv, PlaceInv, RoundsAreTyped
<1>3. CASE EnterSkill
  <2>1. CASE SkillFails /\ domain \in context' /\ context \subseteq context'
             /\ UNCHANGED <<stage, route, config, verdicts>>
    <3>1. CASE route = "mixed" /\ config.controlled
      <4>1. at = "skill" /\ stage' = "idle" /\ "data" \in context' /\ domain' = domain
        BY <1>0, <1>3, <2>1, <3>1
        DEF EnterSkill, SkillFails, RoundInv, PlaceIsTyped, Domains
      <4> QED
        BY <2>1, <3>1, <4>1, FailedRound
    <3>2. CASE ~(route = "mixed" /\ config.controlled)
      BY <1>0, <1>0a, <1>3, <2>1, <3>2
      DEF EnterSkill, SkillFails, MixedReturns, End, RoundInv, PlaceInv,
          PlaceIsTyped, RoundsAreTyped, Domains
    <3> QED
      BY <3>1, <3>2
  <2>2. CASE UNCHANGED <<at, domain, steps, outcome, route, config, verdicts>>
             /\ domain \notin context /\ context' = context \cup {domain}
    BY <1>0, <1>3, <2>2
    DEF EnterSkill, RoundInv, PlaceInv, PlaceIsTyped, RoundsAreTyped, Domains
  <2>3. CASE End("failed", {})
             /\ UNCHANGED <<stage, domain, context, cited, steps, route, config, verdicts>>
    BY <1>0, <1>3, <2>3
    DEF EnterSkill, End, RoundInv, PlaceInv, PlaceIsTyped, RoundsAreTyped, Domains
  <2> QED
    BY <1>3, <2>1, <2>2, <2>3 DEF EnterSkill, InstructionIsNew
<1>4. CASE RunAgent
  <2>1. UNCHANGED path /\ stage # "idle" /\ at = "skill"
    BY <1>4
    DEF RunAgent, AgentStep, SelectTool, PlanDataQuery, ExecuteSafeQuery,
        GenerateDataAnswer,
           RetrieveEvidence, SelectEvidence, ReviewAnswerability, GenerateAnswer,
           CopyAnswer
  <2> QED
    BY <1>0, <2>1 DEF path, RoundInv, PlaceInv, RoundsAreTyped
<1>5. CASE LeaveSkill
  <2>0. stage # "idle" /\ steps = <<>> /\ stage' = "idle"
    BY <1>0, <1>5 DEF LeaveSkill, AgentIsDone, RoundInv, RoundsAreTyped
  <2>1. CASE SkillFails
    <3>1. CASE route = "mixed" /\ config.controlled
      <4>1. /\ at = "skill" /\ "data" \in context'
            /\ UNCHANGED <<config, route, context, verdicts, domain>>
        BY <1>0, <1>5, <2>0, <2>1, <3>1
        DEF LeaveSkill, SkillFails, RoundInv, PlaceIsTyped, Domains
      <4> QED
        BY <2>0, <2>1, <3>1, <4>1, FailedRound
    <3>2. CASE ~(route = "mixed" /\ config.controlled)
      BY <1>0, <1>5, <2>0, <2>1, <3>2
      DEF LeaveSkill, SkillFails, MixedReturns, End, RoundInv, PlaceInv,
          PlaceIsTyped, RoundsAreTyped, Domains
    <3> QED
      BY <3>1, <3>2
  <2>2. CASE ~SkillFails
    BY <1>0, <1>5, <2>0, <2>2
    DEF LeaveSkill, StartSkill, End, RoundInv, PlaceInv, PlaceIsTyped,
        RoundsAreTyped, Domains
  <2> QED
    BY <1>5, <2>1, <2>2 DEF LeaveSkill
<1>6. CASE Synthesize
  <2>0. steps = <<>> /\ route = "mixed" /\ "data" \in context
        /\ UNCHANGED <<config, route, context, verdicts, stage>>
    BY <1>0, <1>6 DEF Synthesize, RoundInv, PlaceInv
  <2>1. CASE config.controlled
             /\ \E status \in Results, citations \in SUBSET Citations :
                    MixedReturns(status, citations)
    <3>1. at' = "review" /\ Len(steps') = 1 /\ Len(verdicts) = 0 /\ Len(steps) = 0
      BY <1>0, <1>6, <2>0, <2>1, MixedReturnsRound
      DEF Synthesize, RoundInv, RoundsAreTyped
    <3> QED
      BY <2>0, <2>1, <3>1 DEF RoundInv
  <2>2. CASE at' = "ended" /\ UNCHANGED steps
    BY <1>0, <1>6, <2>0, <2>2 DEF RoundInv, PlaceInv, RoundsAreTyped
  <2> QED
    BY <1>0, <1>0a, <1>6, <2>0, <2>1, <2>2
    DEF Synthesize, SkillFails, MixedReturns, End, PlaceIsTyped
<1>7. CASE ReviewWorkflow
  <2>0. /\ route = "mixed" /\ config.controlled /\ stage = "idle"
        /\ UNCHANGED <<config, route, context, stage, steps>>
        /\ Len(steps) \in Nat /\ Len(verdicts) \in Nat
        /\ Len(steps) = Len(verdicts) + 1 /\ Len(steps) <= 2
    BY <1>0, <1>7 DEF ReviewWorkflow, RoundInv, PlaceInv, RoundsAreTyped
  <2>1. CASE at' = "ended"
    BY <1>0, <1>7, <2>0, <2>1 DEF ReviewWorkflow, RoundInv, PlaceInv, RoundsAreTyped
  <2>2. CASE at' # "ended"
    <3>1. /\ verdicts' = Append(verdicts, "repair") /\ Len(steps) < 2
          /\ at' = "skill" /\ domain' = "data"
      BY <1>7, <2>2, <2>0
      DEF ReviewWorkflow, Accept, Repair, RepairIsAllowed, MaxRounds, MaxRepairs,
          MaxReviews, StartSkill, End
    <3> QED
      BY <1>0, <1>7, <2>0, <3>1
      DEF ReviewWorkflow, RoundInv, PlaceInv, RoundsAreTyped
  <2> QED
    BY <2>1, <2>2
<1>8. CASE UNCHANGED vars
  BY <1>8 DEF vars, agent, path, RoundInv
<1> QED
  BY <1>1, <1>2, <1>3, <1>4, <1>5, <1>6, <1>7, <1>8 DEF Next

-----------------------------------------------------------------------------
(* The part of EvidenceInv that an agent may disturb. *)
AgentEvidence ==
    /\ draft \subseteq evidence
    /\ stage = "generate_data_answer" => DataEvidence \in evidence
    /\ stage \in {"copy_answer", "answered"} /\ domain = "knowledge" =>
           draft \subseteq Documents
    /\ route = "knowledge" => evidence \subseteq Documents
    /\ route = "data" =>
           /\ evidence \subseteq {DataEvidence}
           /\ stage \in {"idle", "select_tool", "plan_data_query",
                         "execute_safe_query"} => evidence = {}
           /\ stage \in {"copy_answer", "answered"} => draft = evidence

(* What a list of rounds says of the evidence. *)
RoundsAreGrounded ==
    \A i \in DOMAIN steps :
        /\ steps[i].citations \subseteq evidence
        /\ steps[i].status = "completed" => CitesBoth(steps[i].citations)

(* A failed round cites nothing. *)
LEMMA FailedSteps ==
    ASSUME TypeOK, RoundsAreGrounded, SkillFails, UNCHANGED evidence
    PROVE  RoundsAreGrounded'
<1>1. "failed" \in Results /\ {} \in SUBSET Citations
  BY DEF Results
<1>2. CASE UNCHANGED steps
  BY <1>2 DEF RoundsAreGrounded
<1>3. CASE ~UNCHANGED steps
  <2>1. MixedReturns("failed", {}) /\ config.controlled
    BY <1>3 DEF SkillFails, MixedReturns
  <2>2. /\ \A i \in DOMAIN steps : steps'[i] = steps[i]
        /\ steps'[Len(steps) + 1] = Result("failed", {})
        /\ DOMAIN steps' = DOMAIN steps \cup {Len(steps) + 1}
    BY <1>1, <2>1, MixedReturnsRound
  <2>3. Result("failed", {}).status = "failed" /\ Result("failed", {}).citations = {}
    BY DEF Result
  <2> QED
    BY <2>2, <2>3 DEF RoundsAreGrounded
<1> QED
  BY <1>2, <1>3

(* Every step grounds what it writes in the evidence that is held. *)
LEMMA EvidenceStep ==
    TypeOK /\ PlaceInv /\ RoundInv /\ EvidenceInv /\ [Next]_vars => EvidenceInv'
<1> SUFFICES ASSUME TypeOK, PlaceInv, RoundInv, EvidenceInv, [Next]_vars
             PROVE  EvidenceInv'
  OBVIOUS
<1>0. AgentIsTyped /\ PlaceIsTyped /\ RoundsAreTyped
  BY TypeParts
<1>1. CASE RouteRequest
  BY <1>0, <1>1
  DEF RouteRequest, TakeRoute, StartSkill, End, EvidenceInv, PlaceInv, Domains
<1>2. CASE PlanWorkflow
  BY <1>0, <1>2 DEF PlanWorkflow, StartSkill, End, EvidenceInv, PlaceInv
<1>3. CASE EnterSkill
  <2>0. RoundsAreGrounded
    BY DEF EvidenceInv, RoundsAreGrounded
  <2>1. /\ UNCHANGED <<evidence, draft, route, cited>>
        /\ stage' \in {"idle", "select_tool", "plan_data_query", "retrieve_evidence"}
        /\ at = "skill" /\ stage = "idle"
        /\ at' \in {"skill", "review", "ended"}
        /\ domain' = domain
    BY <1>0, <1>3 DEF EnterSkill, SkillFails, MixedReturns, FirstStage, End
  <2>2. RoundsAreGrounded'
    <3>1. CASE UNCHANGED steps
      BY <2>0, <2>1, <3>1 DEF RoundsAreGrounded
    <3>2. CASE SkillFails
      BY <2>0, <2>1, <3>2, FailedSteps
    <3> QED
      BY <1>3, <3>1, <3>2 DEF EnterSkill
  <2> QED
    BY <2>1, <2>2 DEF EvidenceInv, RoundsAreGrounded
<1>4. CASE RunAgent
  <2>1. /\ UNCHANGED path /\ at = "skill"
        /\ domain \in Domains
        /\ evidence \subseteq evidence'
    BY <1>0, <1>4
    DEF RunAgent, AgentStep, SelectTool, PlanDataQuery, ExecuteSafeQuery,
        GenerateDataAnswer,
        RetrieveEvidence, SelectEvidence, ReviewAnswerability, GenerateAnswer,
        CopyAnswer,
        Goto, Deliver, PlaceIsTyped
  <2>2. AgentEvidence'
    <3> USE <1>0, <1>4, <2>1 DEF AgentEvidence, EvidenceInv, PlaceInv, path, Goto,
                                 Deliver,
            DataStages, KnowledgeStages, Domains, AgentIsTyped
    <3>1. CASE SelectTool(domain)
      BY <3>1 DEF SelectTool, FirstStage
    <3>2. CASE PlanDataQuery
      BY <3>2 DEF PlanDataQuery
    <3>3. CASE ExecuteSafeQuery
      BY <3>3 DEF ExecuteSafeQuery
    <3>4. CASE GenerateDataAnswer
      BY <3>4 DEF GenerateDataAnswer
    <3>5. CASE RetrieveEvidence
      BY <3>5 DEF RetrieveEvidence
    <3>6. CASE SelectEvidence
      BY <3>6 DEF SelectEvidence
    <3>7. CASE ReviewAnswerability
      BY <3>7 DEF ReviewAnswerability
    <3>8. CASE GenerateAnswer
      BY <3>8 DEF GenerateAnswer, ValidCitations, selected
    <3>9. CASE CopyAnswer
      BY <3>9 DEF CopyAnswer
    <3> QED
      BY <3>1, <3>2, <3>3, <3>4, <3>5, <3>6, <3>7, <3>8, <3>9
      DEF RunAgent, AgentStep
  <2> QED
    BY <2>1, <2>2 DEF AgentEvidence, EvidenceInv, path
<1>5. CASE LeaveSkill
  <2>0. RoundsAreGrounded
    BY DEF EvidenceInv, RoundsAreGrounded
  <2>1. /\ UNCHANGED <<evidence, draft, route>>
        /\ stage' = "idle"
        /\ at = "skill"
        /\ at' \in {"skill", "synthesize", "review", "ended"}
        /\ cited' \subseteq evidence
        /\ at' = "skill" => route = "mixed"
    BY <1>0, <1>5
    DEF LeaveSkill, SkillFails, MixedReturns, StartSkill, End, EvidenceInv
  <2>2. RoundsAreGrounded'
    <3>1. CASE UNCHANGED steps
      BY <2>0, <2>1, <3>1 DEF RoundsAreGrounded
    <3>2. CASE SkillFails
      BY <2>0, <2>1, <3>2, FailedSteps
    <3> QED
      BY <1>5, <3>1, <3>2 DEF LeaveSkill
  <2> QED
    BY <2>1, <2>2 DEF EvidenceInv, RoundsAreGrounded
<1>6. CASE Synthesize
  <2>0. RoundsAreGrounded
    BY DEF EvidenceInv, RoundsAreGrounded
  <2>1. /\ UNCHANGED <<evidence, draft, route, stage, cited, domain>>
        /\ at' \in {"review", "ended"}
    BY <1>0, <1>6 DEF Synthesize, SkillFails, MixedReturns, End
  <2>2. RoundsAreGrounded'
    <3>1. CASE UNCHANGED steps
      BY <2>0, <2>1, <3>1 DEF RoundsAreGrounded
    <3>2. CASE SkillFails
      BY <2>0, <2>1, <3>2, FailedSteps
    <3>3. ASSUME NEW citations \in SUBSET cited,
                 CitesBoth(citations), MixedReturns("completed", citations)
          PROVE  RoundsAreGrounded'
      <4>1. citations \in SUBSET Citations /\ citations \subseteq evidence
        BY <1>0 DEF PlaceIsTyped, EvidenceInv
      <4>2. CASE ~config.controlled
        BY <2>0, <2>1, <3>3, <4>2 DEF MixedReturns, RoundsAreGrounded
      <4>3. CASE config.controlled
        <5>1. "completed" \in Results
          BY DEF Results
        <5>2. /\ \A i \in DOMAIN steps : steps'[i] = steps[i]
              /\ steps'[Len(steps) + 1] = Result("completed", citations)
              /\ DOMAIN steps' = DOMAIN steps \cup {Len(steps) + 1}
          BY <3>3, <4>1, <4>3, <5>1, MixedReturnsRound
        <5>3. Result("completed", citations).citations = citations
          BY DEF Result
        <5> QED
          BY <2>0, <2>1, <3>3, <4>1, <5>2, <5>3 DEF RoundsAreGrounded
      <4> QED
        BY <4>2, <4>3
    <3> QED
      BY <1>6, <3>1, <3>2, <3>3 DEF Synthesize
  <2> QED
    BY <2>1, <2>2 DEF EvidenceInv, RoundsAreGrounded
<1>7. CASE ReviewWorkflow
  <2>0. RoundsAreGrounded
    BY DEF EvidenceInv, RoundsAreGrounded
  <2>1. /\ UNCHANGED <<evidence, draft, route, stage, cited, steps>>
        /\ at' \in {"skill", "ended"}
        /\ route = "mixed"
        /\ stage = "idle"
    BY <1>7 DEF ReviewWorkflow, Accept, Repair, StartSkill, End, PlaceInv
  <2> QED
    BY <2>1 DEF EvidenceInv
<1>8. CASE UNCHANGED vars
  BY <1>8 DEF vars, agent, path, EvidenceInv
<1> QED
  BY <1>1, <1>2, <1>3, <1>4, <1>5, <1>6, <1>7, <1>8 DEF Next

-----------------------------------------------------------------------------
(* The three properties of what is served, together.                       *)
OutcomeInv ==
    /\ AnswersAreGrounded
    /\ ServedWorkWasAccepted
    /\ RepairsServeTheFirstRound

(* The inductive invariant they rest on, but for the types.                *)
PathInv == PlaceInv /\ RoundInv /\ EvidenceInv

(* Every step serves what the properties of an outcome ask for. *)
LEMMA OutcomeStep ==
    TypeOK /\ PathInv /\ OutcomeInv /\ [Next]_vars /\ TypeOK' /\ PathInv' => OutcomeInv'
<1> SUFFICES ASSUME TypeOK, PathInv, OutcomeInv, [Next]_vars, TypeOK', PathInv'
             PROVE  OutcomeInv'
  OBVIOUS
<1>0. /\ AgentIsTyped /\ PlaceIsTyped /\ RoundsAreTyped
      /\ PlaceInv /\ RoundInv /\ EvidenceInv
      /\ PlaceInv' /\ RoundInv' /\ EvidenceInv'
  BY TypeParts DEF PathInv
<1>1. CASE UNCHANGED vars
  BY <1>1
  DEF vars, agent, path, OutcomeInv, AnswersAreGrounded, ServedWorkWasAccepted,
      RepairsServeTheFirstRound, Completed, CompletedRounds
<1>2. ASSUME ~Completed' PROVE OutcomeInv'
  BY <1>0, <1>2
  DEF OutcomeInv, AnswersAreGrounded, ServedWorkWasAccepted,
      RepairsServeTheFirstRound,
      RoundInv, Completed
<1>3. CASE RouteRequest \/ PlanWorkflow \/ EnterSkill \/ RunAgent
  <2>1. outcome.status = "none"
    BY <1>0, <1>3 DEF RouteRequest, PlanWorkflow, EnterSkill, RunAgent, PlaceInv
  <2>2. CASE RouteRequest \/ PlanWorkflow \/ RunAgent
    BY <1>2, <2>1, <2>2
    DEF RouteRequest, TakeRoute, PlanWorkflow, StartSkill, RunAgent, path, End,
        Result, Completed
  <2>3. CASE EnterSkill
    BY <1>2, <2>1, <2>3
    DEF EnterSkill, SkillFails, MixedReturns, End, Result, Completed
  <2> QED
    BY <1>3, <2>2, <2>3
<1>4. CASE LeaveSkill
  <2>1. outcome.status = "none" /\ steps = <<>>
    BY <1>0, <1>4 DEF LeaveSkill, AgentIsDone, PlaceInv, RoundInv, RoundsAreTyped
  <2>2. CASE SkillFails
    BY <1>2, <2>1, <2>2 DEF SkillFails, MixedReturns, End, Result, Completed
  <2>3. CASE stage = "answered" /\ KeepsResult /\ route = "mixed" /\ UNCHANGED outcome
    BY <1>2, <2>1, <2>3 DEF Completed
  <2>4. CASE stage = "answered" /\ KeepsResult /\ route # "mixed"
             /\ End("completed", draft) /\ UNCHANGED steps
    <3>1. outcome' = Result("completed", draft) /\ outcome'.citations = draft
      BY <2>4 DEF End, Result
    <3>2. UNCHANGED <<evidence, route>> /\ route = domain /\ at = "skill"
      BY <1>0, <1>4, <2>4 DEF LeaveSkill, PlaceInv
    <3>3. draft \subseteq evidence /\ evidence \subseteq Documents \cup {DataEvidence}
      BY <1>0 DEF EvidenceInv, AgentIsTyped, Citations
    <3>4. route = "knowledge" => draft # {} /\ draft \subseteq Documents
      BY <1>0, <2>4, <3>2 DEF KeepsResult, EvidenceInv
    <3>5. route = "data" => draft = evidence
      BY <1>0, <2>4, <3>2 DEF EvidenceInv
    <3>6. route \in {"data", "knowledge"}
      BY <1>0, <3>2 DEF PlaceIsTyped, Domains
    <3>7. AnswersAreGrounded'
      BY <3>1, <3>2, <3>3, <3>4, <3>5, <3>6 DEF AnswersAreGrounded
    <3> QED
      BY <2>1, <2>4, <3>2, <3>7
      DEF OutcomeInv, ServedWorkWasAccepted, RepairsServeTheFirstRound
  <2> QED
    BY <1>4, <2>2, <2>3, <2>4 DEF LeaveSkill
<1>5. CASE Synthesize
  <2>1. outcome.status = "none" /\ steps = <<>> /\ route = "mixed"
        /\ UNCHANGED <<evidence, route, config>>
    BY <1>0, <1>5 DEF Synthesize, PlaceInv, RoundInv
  <2>2. CASE SkillFails \/ End("failed", {})
    BY <1>2, <2>1, <2>2 DEF SkillFails, MixedReturns, End, Result, Completed
  <2>3. ASSUME NEW citations \in SUBSET cited,
               CitesBoth(citations), MixedReturns("completed", citations)
        PROVE  OutcomeInv'
    <3>1. CASE config.controlled
      BY <1>2, <2>1, <2>3, <3>1 DEF MixedReturns, Completed
    <3>2. CASE ~config.controlled
      <4>1. outcome'.citations = citations /\ UNCHANGED steps
        BY <2>3, <3>2 DEF MixedReturns, End, Result
      <4>2. citations \subseteq evidence /\ evidence \subseteq Documents \cup {DataEvidence}
        BY <1>0 DEF EvidenceInv, AgentIsTyped, Citations
      <4>3. AnswersAreGrounded'
        BY <2>1, <2>3, <4>1, <4>2, AgentAssumption DEF AnswersAreGrounded, CitesBoth
      <4> QED
        BY <2>1, <3>2, <4>1, <4>3
        DEF OutcomeInv, ServedWorkWasAccepted, RepairsServeTheFirstRound
    <3> QED
      BY <3>1, <3>2
  <2> QED
    BY <1>5, <2>2, <2>3 DEF Synthesize
<1>6. CASE ReviewWorkflow
  <2>1. /\ outcome.status = "none"
        /\ UNCHANGED <<evidence, route, config, steps>>
        /\ route = "mixed" /\ config.controlled
        /\ Len(steps) = Len(verdicts) + 1 /\ Len(steps) <= 2
        /\ Len(steps) \in Nat /\ Len(verdicts) \in Nat
        /\ DOMAIN steps = 1..Len(steps)
    BY <1>0, <1>6 DEF ReviewWorkflow, PlaceInv, RoundInv, RoundsAreTyped
  <2>2. CASE verdicts' = Append(verdicts, "accept") /\ CompletedRounds # {} /\ Accept
    <3> DEFINE newest == Newest(CompletedRounds)
    <3>1. CompletedRounds \in SUBSET (1..2) /\ CompletedRounds \subseteq DOMAIN steps
      BY <2>1 DEF CompletedRounds
    <3>2. newest \in CompletedRounds
      BY <2>2, <3>1, NewestRound
    <3>3. newest \in DOMAIN steps /\ steps[newest].status = "completed"
      BY <3>2 DEF CompletedRounds
    <3>4. steps[newest].citations \subseteq evidence /\ CitesBoth(steps[newest].citations)
      BY <1>0, <3>3 DEF EvidenceInv
    <3>5. outcome'.citations = steps[newest].citations
      BY <2>2 DEF Accept, End, Result
    <3>6. evidence \subseteq Documents \cup {DataEvidence}
      BY <1>0 DEF AgentIsTyped, Citations
    <3> HIDE DEF newest
    <3>7. AnswersAreGrounded'
      BY <2>1, <3>4, <3>5, <3>6, AgentAssumption DEF AnswersAreGrounded, CitesBoth
    <3>8. CompletedRounds' = CompletedRounds
      BY <2>1 DEF CompletedRounds
    <3>9. verdicts \in Seq(Verdicts) /\ "accept" \in Verdicts
      BY <1>0 DEF RoundsAreTyped, Verdicts
    <3>10. Len(verdicts') = Len(steps') /\ Last(verdicts') = "accept"
      BY <2>1, <2>2, <3>9 DEF Last
    <3>11. ServedWorkWasAccepted'
      BY <2>1, <2>2, <3>5, <3>8, <3>10 DEF ServedWorkWasAccepted, newest
    <3>12. Len(steps') > 1 => newest = 1 /\ verdicts'[1] = "repair"
      BY <1>0, <2>1, <3>1, <3>3 DEF RoundInv
    <3>13. RepairsServeTheFirstRound'
      BY <1>0, <2>1, <3>5, <3>12 DEF RepairsServeTheFirstRound, RoundInv
    <3> QED
      BY <3>7, <3>11, <3>13 DEF OutcomeInv
  <2>3. CASE ~(verdicts' = Append(verdicts, "accept") /\ CompletedRounds # {} /\ Accept)
    BY <1>2, <1>6, <2>1, <2>3
    DEF ReviewWorkflow, Accept, Repair, StartSkill, End, Result, Completed
  <2> QED
    BY <2>2, <2>3
<1> QED
  BY <1>1, <1>3, <1>4, <1>5, <1>6 DEF Next

-----------------------------------------------------------------------------
(* A call counts once and, unless the budget is spent, is not refused      *)
(* without a mishap.                                                       *)
AddsOne == calls' \in {calls, calls + 1}

LEMMA AllowedAdds == Allowed => AddsOne /\ UNCHANGED exhausted
BY DEF Allowed, AddsOne

(* A call that is useless before the budget is spent is a mishap. *)
LEMMA UselessAdds ==
    ASSUME TypeOK, MaxProviderCalls >= 9, calls <= 8, Useless
    PROVE  AddsOne /\ UNCHANGED exhausted /\ mishap' = TRUE
<1>1. calls \in Nat /\ MaxProviderCalls \in Nat
  BY AgentAssumption DEF TypeOK, AgentTypeOK
<1> QED
  BY <1>1 DEF Useless, AddsOne

(* The bounds of a frugal path are at most five and eight. *)
LEMMA StageCallsTypes ==
    ASSUME TypeOK, PlaceInv, IsFrugalHere
    PROVE  StageCalls \in 0..5 /\ CallsSoFar \in 0..8
<1>1. stage \in Stages /\ native \in BOOLEAN /\ domain \in Domains /\ at \in Places
  BY DEF TypeOK, AgentTypeOK
<1>2. StageCalls \in 0..5
  BY <1>1 DEF StageCalls, Stages, Domains
<1>3. at = "skill" /\ route = "mixed" => StageCalls \in 0..3
  BY <1>1
  DEF StageCalls, Stages, Domains, PlaceInv, RunsNative, IsFrugalHere, IsFrugal
<1> QED
  BY <1>1, <1>2, <1>3 DEF CallsSoFar, Places

(* A frugal path has a ninth call left. *)
LEMMA FrugalCalls ==
    ASSUME TypeOK, PlaceInv, BudgetInv, IsFrugalHere
    PROVE  calls \in 0..8 /\ calls <= CallsSoFar /\ CallsSoFar \in 0..8
<1>1. calls \in Nat
  BY AgentAssumption DEF TypeOK, AgentTypeOK
<1> QED
  BY <1>1, StageCallsTypes DEF BudgetInv, IsFrugalHere

(* The rounds of a request only grow. *)
LEMMA PathGrows ==
    ASSUME TypeOK, PlaceInv, [Next]_vars
    PROVE  /\ config' = config
           /\ at # "route" => route' = route
           /\ Len(steps') >= Len(steps)
<1>0. RoundsAreTyped /\ Len(steps) \in Nat
  BY TypeParts DEF RoundsAreTyped
<1>1. config' = config /\ (at # "route" => route' = route)
  BY
  DEF Next, RouteRequest, PlanWorkflow, EnterSkill, RunAgent, LeaveSkill,
      Synthesize,
         ReviewWorkflow, vars, path
<1>2. CASE UNCHANGED steps
  BY <1>0, <1>1, <1>2
<1>3. ASSUME NEW status, NEW citations, MixedReturns(status, citations)
      PROVE  Len(steps') >= Len(steps)
  BY <1>0, <1>3 DEF MixedReturns, RoundsAreTyped
<1>4. CASE ~UNCHANGED steps
  <2>1. \E status, citations : MixedReturns(status, citations)
    BY <1>4
    DEF Next, RouteRequest, PlanWorkflow, EnterSkill, RunAgent, LeaveSkill,
        Synthesize,
         ReviewWorkflow, vars, path, SkillFails
  <2> QED
    BY <1>1, <1>3, <2>1
<1> QED
  BY <1>2, <1>4

(* A bound that grows by what a step costs stays a bound. *)
LEMMA PaidAhead ==
    ASSUME NEW c \in Nat, NEW cc \in Nat, NEW b \in Nat, NEW s \in Nat,
           NEW ss \in Nat,
           NEW d \in Nat, c <= b + s, cc <= c + d, ss >= s + d
    PROVE  cc <= b + ss
OBVIOUS

(* An agent's step pays for the stage it reaches. *)
LEMMA AgentPays ==
    ASSUME TypeOK, PlaceInv, RoundInv, BudgetInv, IsFrugalHere, RunAgent,
           MaxProviderCalls >= 9
    PROVE  UNCHANGED exhausted /\ calls' <= CallsSoFar'
<1>0. /\ AgentIsTyped /\ PlaceIsTyped
      /\ calls \in 0..8 /\ calls <= CallsSoFar /\ CallsSoFar \in 0..8
  BY TypeParts, FrugalCalls
<1> DEFINE before == IF route = "mixed" THEN IF domain = "data" THEN 2 ELSE 4 ELSE 1
           n == IF native THEN 1 ELSE 0
<1>1. /\ at = "skill" /\ UNCHANGED path /\ UNCHANGED native
      /\ domain \in {"data", "knowledge"} /\ native \in BOOLEAN
      /\ CallsSoFar = before + StageCalls
      /\ CallsSoFar' = before + StageCalls'
  BY <1>0
  DEF RunAgent, path, AgentStep, SelectTool, PlanDataQuery, ExecuteSafeQuery,
      GenerateDataAnswer,
      RetrieveEvidence, SelectEvidence, ReviewAnswerability, GenerateAnswer,
      CopyAnswer,
      CallsSoFar, PlaceIsTyped, AgentIsTyped, Domains
<1>2. before \in 0..4 /\ n \in 0..1 /\ StageCalls \in Nat /\ StageCalls' \in Nat
  BY <1>0, <1>1, AgentTypes, TypeParts, TypePartsNext
  DEF StageCalls, AgentIsTyped, PlaceIsTyped, Stages, Domains
<1>3. ASSUME AddsOne, UNCHANGED exhausted, StageCalls' >= StageCalls + 1
      PROVE  UNCHANGED exhausted /\ calls' <= CallsSoFar'
  <2> HIDE DEF before, n
  <2>1. calls' <= calls + 1
    BY <1>0, <1>3 DEF AddsOne
  <2>2. calls' \in Nat
    BY <1>0, <1>3 DEF AddsOne
  <2>3. calls' <= CallsSoFar'
    <3>1. /\ CallsSoFar = before + StageCalls
          /\ CallsSoFar' = before + StageCalls'
          /\ calls <= CallsSoFar
      BY <1>0, <1>1
    <3>2. before \in Nat /\ StageCalls \in Nat /\ StageCalls' \in Nat /\ calls \in Nat
      BY <1>0, <1>2
    <3>3. StageCalls' >= StageCalls + 1
      BY <1>3, <3>2
    <3> QED
      BY <2>1, <2>2, <3>1, <3>2, <3>3, PaidAhead
  <2> QED
    BY <1>3, <2>3 DEF governed
<1>4. ASSUME UNCHANGED governed, StageCalls' >= StageCalls
      PROVE  UNCHANGED exhausted /\ calls' <= CallsSoFar'
  <2> HIDE DEF before, n
  <2>1. calls' <= calls + 0
    BY <1>0, <1>4 DEF governed
  <2>2. calls' \in Nat
    BY <1>0, <1>4 DEF governed
  <2>3. calls' <= CallsSoFar'
    <3>1. /\ CallsSoFar = before + StageCalls
          /\ CallsSoFar' = before + StageCalls'
          /\ calls <= CallsSoFar
      BY <1>0, <1>1
    <3>2. before \in Nat /\ StageCalls \in Nat /\ StageCalls' \in Nat /\ calls \in Nat
      BY <1>0, <1>2
    <3>3. StageCalls' >= StageCalls + 0
      BY <1>4, <3>2
    <3> QED
      BY <2>1, <2>2, <3>1, <3>2, <3>3, PaidAhead
  <2> QED
    BY <1>4, <2>3 DEF governed
<1>5. Allowed \/ Useless => AddsOne /\ UNCHANGED exhausted
  <2>1. calls <= 8
    BY <1>0
  <2> QED
    BY <2>1, AllowedAdds, UselessAdds
<1>6. CASE SelectTool(domain)
  <2>1. Allowed \/ Useless
    BY <1>6 DEF SelectTool
  <2>2. StageCalls' >= StageCalls + 1
    BY <1>1, <1>6
    DEF SelectTool, FirstStage, Goto, Deliver, StageCalls, PlaceInv,
        KnowledgeStages, DataStages
  <2> QED
    BY <1>3, <1>5, <2>1, <2>2
<1>7. CASE PlanDataQuery
  <2>1. Allowed \/ Useless
    BY <1>7 DEF PlanDataQuery
  <2>2. StageCalls' >= StageCalls + 1
    BY <1>1, <1>7
    DEF PlanDataQuery, Goto, Deliver, StageCalls, PlaceInv, KnowledgeStages,
        DataStages
  <2> QED
    BY <1>3, <1>5, <2>1, <2>2
<1>8. CASE GenerateDataAnswer
  <2>1. Allowed \/ Useless
    BY <1>8 DEF GenerateDataAnswer
  <2>2. StageCalls' >= StageCalls + 1
    BY <1>1, <1>8
    DEF GenerateDataAnswer, Goto, Deliver, StageCalls, PlaceInv, KnowledgeStages,
        DataStages
  <2> QED
    BY <1>3, <1>5, <2>1, <2>2
<1>9. CASE SelectEvidence
  <2>1. Allowed \/ Useless
    BY <1>9 DEF SelectEvidence
  <2>2. StageCalls' >= StageCalls + 1
    BY <1>1, <1>9
    DEF SelectEvidence, Goto, Deliver, StageCalls, PlaceInv, KnowledgeStages,
        DataStages
  <2> QED
    BY <1>3, <1>5, <2>1, <2>2
<1>10. CASE GenerateAnswer
  <2>1. Allowed \/ Useless
    BY <1>10 DEF GenerateAnswer
  <2>2. StageCalls' >= StageCalls + 1
    <3>1. /\ stage = "generate_answer" /\ domain = "knowledge"
          /\ stage' \in {"failed", "answered", "copy_answer"}
      BY <1>1, <1>10 DEF GenerateAnswer, Goto, Deliver, PlaceInv, KnowledgeStages
    <3> QED
      BY <1>1, <3>1 DEF StageCalls, path
  <2> QED
    BY <1>3, <1>5, <2>1, <2>2
<1>11. CASE CopyAnswer
  <2>1. Allowed \/ Useless
    BY <1>11 DEF CopyAnswer
  <2>2. StageCalls' >= StageCalls + 1
    <3>1. stage = "copy_answer" /\ native = TRUE /\ stage' \in {"failed", "answered"}
      BY <1>1, <1>11 DEF CopyAnswer, Goto, PlaceInv
    <3> QED
      BY <1>1, <3>1 DEF StageCalls, path
  <2> QED
    BY <1>3, <1>5, <2>1, <2>2
<1>12. CASE ExecuteSafeQuery
  <2>1. StageCalls' >= StageCalls
    BY <1>1, <1>12
    DEF ExecuteSafeQuery, Goto, StageCalls, PlaceInv, KnowledgeStages, DataStages
  <2> QED
    BY <1>4, <1>12, <2>1 DEF ExecuteSafeQuery
<1>13. CASE RetrieveEvidence
  <2>1. StageCalls' >= StageCalls
    BY <1>1, <1>13
    DEF RetrieveEvidence, Goto, StageCalls, PlaceInv, KnowledgeStages, DataStages
  <2> QED
    BY <1>4, <1>13, <2>1 DEF RetrieveEvidence
<1>14. CASE ReviewAnswerability
  <2>1. StageCalls' >= StageCalls + 1
    BY <1>1, <1>14
    DEF ReviewAnswerability, Goto, Deliver, StageCalls, PlaceInv, KnowledgeStages,
        DataStages
  <2>2. CASE Allowed \/ Useless
    BY <1>3, <1>5, <2>1, <2>2
  <2>3. CASE UNCHANGED governed
    BY <1>2, <1>4, <2>1, <2>3
  <2> QED
    BY <1>14, <2>2, <2>3 DEF ReviewAnswerability
<1> QED
  BY <1>6, <1>7, <1>8, <1>9, <1>10, <1>11, <1>12, <1>13, <1>14
  DEF RunAgent, AgentStep

(* Every step of such a path pays for the place it reaches.                *)
LEMMA PathPays ==
    ASSUME TypeOK, PlaceInv, RoundInv, BudgetInv, IsFrugalHere, Next,
           MaxProviderCalls >= 9
    PROVE  UNCHANGED exhausted /\ (IsFrugalHere' => calls' <= CallsSoFar')
<1>0. /\ AgentIsTyped /\ PlaceIsTyped /\ RoundsAreTyped
      /\ calls \in 0..8 /\ calls <= CallsSoFar /\ CallsSoFar \in 0..8
  BY TypeParts, FrugalCalls
<1>1. Allowed \/ Useless => AddsOne /\ UNCHANGED exhausted
  <2>1. calls <= 8
    BY <1>0
  <2> QED
    BY <2>1, AllowedAdds, UselessAdds
<1>2. AddsOne => calls' \in Nat /\ calls' <= calls + 1
  BY <1>0 DEF AddsOne
<1>3. CASE RouteRequest
  <2>1. Allowed \/ Useless
    BY <1>3 DEF RouteRequest
  <2>2. at = "route" /\ stage = "idle" /\ stage' = "idle" /\ calls <= 0
    BY <1>0, <1>3 DEF RouteRequest, PlaceInv, CallsSoFar
  <2>3. calls' <= 1
    BY <1>0, <1>1, <1>2, <2>1, <2>2
  <2>4. at' # "ended" => CallsSoFar' \in {1, 2}
    BY <1>3, <2>2
    DEF RouteRequest, TakeRoute, StartSkill, End, CallsSoFar, StageCalls, Domains
  <2> QED
    BY <1>0, <1>1, <1>2, <2>1, <2>3, <2>4 DEF IsFrugalHere
<1>4. CASE PlanWorkflow
  <2>1. Allowed \/ Useless
    BY <1>4 DEF PlanWorkflow
  <2>2. at = "plan" /\ stage' = "idle" /\ calls <= 1 /\ route' = "mixed"
    BY <1>0, <1>4 DEF PlanWorkflow, PlaceInv, CallsSoFar
  <2>3. calls' <= 2
    BY <1>0, <1>1, <1>2, <2>1, <2>2
  <2>4. at' # "ended" => CallsSoFar' = 2
    BY <1>4, <2>2 DEF PlanWorkflow, StartSkill, End, CallsSoFar, StageCalls
  <2> QED
    BY <1>1, <2>1, <2>3, <2>4 DEF IsFrugalHere
<1>5. CASE EnterSkill
  <2>1. UNCHANGED <<calls, exhausted, route>> /\ at = "skill" /\ stage = "idle"
    BY <1>5 DEF EnterSkill, governed
  <2>2. CASE at' = "ended"
    BY <2>1, <2>2 DEF IsFrugalHere
  <2>3. CASE at' = "review"
    BY <1>0, <2>1, <2>3 DEF CallsSoFar
  <2>4. CASE at' = "skill" /\ stage' \in {"select_tool", FirstStage(domain)}
             /\ UNCHANGED domain /\ (stage' = "select_tool" \/ native' = FALSE)
    <3>1. StageCalls = 0 /\ StageCalls' = 0
      BY <2>1, <2>4 DEF StageCalls, FirstStage
    <3> QED
      BY <1>0, <2>1, <2>4, <3>1 DEF CallsSoFar
  <2> QED
    BY <1>0, <1>5, <2>2, <2>3, <2>4
    DEF EnterSkill, SkillFails, MixedReturns, End, RunsNative
<1>6. CASE RunAgent
  BY <1>6, AgentPays
<1>7. CASE LeaveSkill
  <2>1. /\ UNCHANGED <<calls, exhausted, route, native, config>>
        /\ at = "skill" /\ stage \in {"answered", "failed"} /\ stage' = "idle"
    BY <1>7 DEF LeaveSkill, AgentIsDone, governed
  <2>2. CASE at' = "ended"
    BY <2>1, <2>2 DEF IsFrugalHere
  <2>3. CASE at' = "review"
    BY <1>0, <2>1, <2>3 DEF CallsSoFar
  <2>4. CASE stage = "answered" /\ route = "mixed"
             /\ IF domain = "data" THEN StartSkill("knowledge") ELSE at' = "synthesize"
    <3>1. native = FALSE
      BY <1>0, <2>1, <2>4
      DEF PlaceInv, RunsNative, IsFrugalHere, IsFrugal, AgentIsTyped
    <3>2. CallsSoFar = IF domain = "data" THEN 4 ELSE 7
      BY <1>0, <2>1, <2>4, <3>1 DEF CallsSoFar, StageCalls
    <3>3. CallsSoFar' = IF domain = "data" THEN 4 ELSE 7
      BY <2>1, <2>4 DEF CallsSoFar, StageCalls, StartSkill
    <3> QED
      BY <1>0, <2>1, <3>2, <3>3
  <2> QED
    BY <1>7, <2>2, <2>3, <2>4 DEF LeaveSkill, SkillFails, MixedReturns, End
<1>8. CASE Synthesize
  <2>1. at = "synthesize" /\ calls <= 7
    BY <1>0, <1>8 DEF Synthesize, CallsSoFar
  <2>2. UNCHANGED exhausted /\ calls' <= 8
    <3>1. CASE Allowed \/ Useless
      BY <1>0, <1>1, <1>2, <2>1, <3>1
    <3>2. CASE UNCHANGED governed
      BY <1>0, <2>1, <3>2 DEF governed
    <3> QED
      BY <1>8, <3>1, <3>2 DEF Synthesize
  <2>3. at' \in {"ended", "review"}
    BY <1>8 DEF Synthesize, SkillFails, MixedReturns, End
  <2> QED
    BY <2>2, <2>3 DEF IsFrugalHere, CallsSoFar
<1>9. CASE ReviewWorkflow
  <2>1. UNCHANGED exhausted
    BY <1>1, <1>9 DEF ReviewWorkflow
  <2>2. at' = "ended" \/ (at' = "skill" /\ steps' # <<>>)
    <3>1. steps # <<>> /\ UNCHANGED steps
      BY <1>0, <1>9 DEF ReviewWorkflow, RoundInv, RoundsAreTyped
    <3> QED
      BY <1>9, <3>1 DEF ReviewWorkflow, Accept, Repair, StartSkill, End
  <2> QED
    BY <2>1, <2>2 DEF IsFrugalHere
<1> QED
  BY <1>3, <1>4, <1>5, <1>6, <1>7, <1>8, <1>9 DEF Next

(* What has left such a path does not come back to it.                     *)
LEMMA PathLeft ==
    ASSUME TypeOK, PlaceInv, RoundInv, BudgetInv, ~IsFrugalHere, Next
    PROVE  ~IsFrugalHere' /\ BudgetCoversFirstReview'
<1>0. AgentIsTyped /\ PlaceIsTyped /\ RoundsAreTyped
  BY TypeParts
<1>1. at # "ended"
  BY
  DEF Next, RouteRequest, PlanWorkflow, EnterSkill, RunAgent, LeaveSkill,
      Synthesize,
         ReviewWorkflow
<1>2. /\ config' = config
      /\ at # "route" => route' = route
      /\ Len(steps') >= Len(steps) /\ Len(steps) \in Nat
  BY <1>0, PathGrows DEF RoundsAreTyped
<1>3. CASE ~IsFrugal
  <2>1. at # "route"
    BY <1>3 DEF PlaceInv, IsFrugal
  <2>2. CASE ~config.controlled
    BY <1>2, <1>3, <2>1, <2>2 DEF IsFrugalHere, IsFrugal, BudgetCoversFirstReview
  <2>3. CASE Len(steps) > 1 /\ Len(steps') > 1
    BY <1>2, <1>3, <2>1, <2>3 DEF IsFrugalHere, IsFrugal, BudgetCoversFirstReview
  <2> QED
    <3>1. Len(steps') \in Nat
      BY TypeStep, TypePartsNext DEF RoundsAreTyped
    <3> QED
      BY <1>2, <1>3, <2>2, <2>3, <3>1 DEF IsFrugal
<1>4. CASE at = "skill" /\ steps # <<>>
  <2>1. stage = "idle" /\ route = "mixed" /\ config.controlled /\ Len(steps) = 1
    BY <1>0, <1>4 DEF RoundInv, RoundsAreTyped
  <2>2. EnterSkill
    BY <1>4, <2>1
    DEF Next, RouteRequest, PlanWorkflow, RunAgent, LeaveSkill, Synthesize,
        ReviewWorkflow,
        AgentStep, SelectTool, PlanDataQuery, ExecuteSafeQuery, GenerateDataAnswer,
        RetrieveEvidence, SelectEvidence, ReviewAnswerability, GenerateAnswer,
        CopyAnswer,
        AgentIsDone
  <2>3. UNCHANGED <<exhausted, route>>
    BY <2>2 DEF EnterSkill, governed
  <2>4. ~exhausted
    BY <2>1 DEF BudgetInv, BudgetCoversFirstReview
  <2>5. at' = "ended" \/ (at' = "skill" /\ UNCHANGED steps) \/ Len(steps') = 2
    <3>1. Len(Append(steps, Result("failed", {}))) = 2
      <4>1. Result("failed", {}) \in [status : Results, citations : SUBSET Citations]
        BY DEF Result, Results
      <4>2. steps \in Seq([status : Results, citations : SUBSET Citations])
        BY <1>0 DEF RoundsAreTyped
      <4>3. Len(Append(steps, Result("failed", {}))) = Len(steps) + 1
        BY <4>1, <4>2, LongerByOne
      <4> QED
        BY <2>1, <4>3
    <3> QED
      BY <1>4, <2>1, <2>2, <3>1 DEF EnterSkill, SkillFails, MixedReturns, End
  <2> QED
    BY <1>2, <1>4, <2>1, <2>3, <2>4, <2>5
    DEF IsFrugalHere, IsFrugal, BudgetCoversFirstReview
<1> QED
  BY <1>1, <1>3, <1>4 DEF IsFrugalHere

(* Every step pays, or has left the paths the budget covers. *)
LEMMA BudgetStep ==
    TypeOK /\ PlaceInv /\ RoundInv /\ BudgetInv /\ MaxProviderCalls >= 9 /\ [Next]_vars
        => BudgetInv'
<1> SUFFICES ASSUME TypeOK, PlaceInv, RoundInv, BudgetInv, MaxProviderCalls >= 9,
                    [Next]_vars
             PROVE  BudgetInv'
  OBVIOUS
<1>1. CASE UNCHANGED vars
  BY <1>1
  DEF vars, agent, path, BudgetInv, BudgetCoversFirstReview, IsFrugalHere, IsFrugal,
      CallsSoFar, StageCalls
<1>2. CASE Next /\ IsFrugalHere
  <2>1. UNCHANGED exhausted /\ (IsFrugalHere' => calls' <= CallsSoFar')
    BY <1>2, PathPays
  <2>2. ~exhausted
    BY <1>2, TypeParts
    DEF RoundsAreTyped, BudgetInv, BudgetCoversFirstReview, IsFrugalHere, IsFrugal
  <2> QED
    BY <2>1, <2>2 DEF BudgetInv, BudgetCoversFirstReview, IsFrugalHere
<1>3. CASE Next /\ ~IsFrugalHere
  <2>1. ~IsFrugalHere' /\ BudgetCoversFirstReview'
    BY <1>3, PathLeft
  <2> QED
    BY <2>1 DEF BudgetInv, IsFrugalHere
<1> QED
  BY <1>1, <1>2, <1>3

-----------------------------------------------------------------------------
(* A faithful request stays in its first round, so that it is never denied *)
(* a call, and what is useless to it is a mishap.                          *)
LEMMA FaithStays ==
    ASSUME TypeOK, PlaceInv, RoundInv, BudgetInv, FaithInv, Next, IsFaithful',
           MaxProviderCalls >= 9
    PROVE  /\ IsFaithful
           /\ IsFrugalHere
           /\ UNCHANGED exhausted
           /\ ~Useless
           /\ UNCHANGED config
           /\ at # "route" => UNCHANGED route
<1>0. RoundsAreTyped
  BY TypeParts
<1>1. UNCHANGED config /\ (at # "route" => UNCHANGED route)
  BY PathGrows
<1>2. ~mishap
  BY
  DEF IsFaithful, Next, RouteRequest, PlanWorkflow, EnterSkill, RunAgent,
      LeaveSkill,
         Synthesize, ReviewWorkflow, AgentStep, SelectTool, PlanDataQuery,
         ExecuteSafeQuery,
         GenerateDataAnswer, RetrieveEvidence, SelectEvidence, ReviewAnswerability,
         GenerateAnswer, CopyAnswer, Useless
<1>3. IsFaithful
  BY <1>1, <1>2 DEF IsFaithful, PlaceInv
<1>4. IsFrugalHere
  <2>1. at # "ended"
    BY
    DEF Next, RouteRequest, PlanWorkflow, EnterSkill, RunAgent, LeaveSkill,
        Synthesize,
           ReviewWorkflow
  <2>2. Len(steps) <= 1 /\ (at = "skill" => steps = <<>>)
    BY <1>0, <1>3, <2>1 DEF FaithInv, RoundInv, RoundsAreTyped, TypeOK, Places
  <2> QED
    BY <1>3, <2>1, <2>2 DEF IsFrugalHere, IsFrugal, IsFaithful
<1>5. UNCHANGED exhausted /\ calls <= 8
  BY <1>4, PathPays, FrugalCalls
<1>6. ~Useless
  BY <1>5, UselessAdds DEF IsFaithful
<1> QED
  BY <1>1, <1>3, <1>4, <1>5, <1>6

(* The part of the invariant that is about the running agent.              *)
AgentIsFaithful ==
    /\ stage # "failed"
    /\ stage \in {"copy_answer", "answered"} => draft # {}
    /\ stage \in {"review_answerability", "generate_answer"} => selected # {}

(* An agent of a faithful request does its part. *)
LEMMA AgentStaysFaithful ==
    ASSUME TypeOK, PlaceInv, at = "skill", AgentStep(domain), AgentIsFaithful,
           ~Useless, mishap' = FALSE
    PROVE  AgentIsFaithful' /\ stage' # "idle"
<1>0. AgentIsTyped /\ PlaceIsTyped
  BY TypeParts
<1> USE DEF AgentIsFaithful
<1>1. CASE SelectTool(domain)
  BY <1>1 DEF SelectTool, Goto, FirstStage
<1>2. CASE PlanDataQuery
  BY <1>2 DEF PlanDataQuery, Goto
<1>3. CASE ExecuteSafeQuery
  BY <1>3 DEF ExecuteSafeQuery, Goto
<1>4. CASE GenerateDataAnswer
  BY <1>4 DEF GenerateDataAnswer, Deliver
<1>5. CASE RetrieveEvidence
  BY <1>5 DEF RetrieveEvidence, Goto
<1>6. CASE SelectEvidence
  <2>1. PICK items \in SUBSET Documents :
            evidence' = evidence \cup items /\ mishap' = (mishap \/ items = {})
    BY <1>6 DEF SelectEvidence
  <2>2. items # {}
    BY <2>1
  <2>3. selected' # {}
    BY <2>1, <2>2 DEF selected
  <2>4. stage' = "review_answerability"
    BY <1>6 DEF SelectEvidence
  <2> QED
    BY <2>3, <2>4
<1>7. CASE ReviewAnswerability
  <2>1. selected # {} /\ stage' = "generate_answer" /\ UNCHANGED evidence
    BY <1>7 DEF ReviewAnswerability, Goto
  <2> QED
    BY <2>1 DEF selected
<1>8. CASE GenerateAnswer
  BY <1>8 DEF GenerateAnswer, ValidCitations, Deliver
<1>9. CASE CopyAnswer
  BY <1>9 DEF CopyAnswer, Goto
<1> QED
  BY <1>1, <1>2, <1>3, <1>4, <1>5, <1>6, <1>7, <1>8, <1>9 DEF AgentStep

(* Every step of a faithful request leaves it faithful, or ends it served. *)
LEMMA FaithStep ==
    TypeOK /\ PlaceInv /\ RoundInv /\ BudgetInv /\ FaithInv /\ MaxProviderCalls >= 9
           /\ [Next]_vars
        => FaithInv'
<1> SUFFICES ASSUME TypeOK, PlaceInv, RoundInv, BudgetInv, FaithInv,
                    MaxProviderCalls >= 9,
                    [Next]_vars, IsFaithful'
             PROVE  FaithInv'
  BY DEF FaithInv
<1>1. CASE UNCHANGED vars
  BY <1>1 DEF vars, agent, path, FaithInv, IsFaithful, selected
<1>2. CASE Next
  <2>0. AgentIsTyped /\ PlaceIsTyped /\ RoundsAreTyped
    BY TypeParts
  <2>1. /\ IsFaithful /\ UNCHANGED exhausted /\ ~Useless /\ mishap' = FALSE
        /\ UNCHANGED config /\ (at # "route" => UNCHANGED route)
    <3>1. mishap' = FALSE
      BY TypeStep, TypePartsNext DEF IsFaithful, AgentIsTyped
    <3> QED
      BY <1>2, <3>1, FaithStays
  <2>2. /\ outcome.status # "failed" /\ ~exhausted
        /\ AgentIsFaithful
        /\ at = "skill" => steps = <<>>
        /\ at = "skill" /\ stage = "idle" => domain \notin context
        /\ at = "skill" /\ domain = "data" => "knowledge" \notin context
        /\ at = "review" => Len(steps) = 1 /\ steps[1].status = "completed"
    BY <2>1 DEF FaithInv, AgentIsFaithful
  <2>3. CASE RouteRequest
    BY <2>1, <2>2, <2>3
    DEF RouteRequest, TakeRoute, StartSkill, End, Result, FaithInv,
        AgentIsFaithful, selected,
        PlaceInv, RoundInv
  <2>4. CASE PlanWorkflow
    BY <2>1, <2>2, <2>4
    DEF PlanWorkflow, StartSkill, FaithInv, AgentIsFaithful, selected, PlaceInv,
        RoundInv
  <2>5. CASE EnterSkill
    <3>1. stage' \in {"select_tool", FirstStage(domain)}
          /\ context' = context \cup {domain}
          /\ UNCHANGED <<at, domain, steps, outcome, evidence, draft>>
      BY <2>1, <2>2, <2>5 DEF EnterSkill, InstructionIsNew, RunsNative, IsFaithful
    <3> QED
      BY <2>1, <2>2, <2>5, <3>1
      DEF EnterSkill, FirstStage, FaithInv, AgentIsFaithful, selected
  <2>6. CASE RunAgent
    <3>1. at = "skill" /\ AgentStep(domain) /\ UNCHANGED path
      BY <2>6 DEF RunAgent
    <3>2. AgentIsFaithful' /\ stage' # "idle"
      BY <2>1, <2>2, <3>1, AgentStaysFaithful
    <3> QED
      BY <2>1, <2>2, <3>1, <3>2 DEF path, FaithInv, AgentIsFaithful
  <2>7. CASE LeaveSkill
    <3>1. /\ stage = "answered" /\ KeepsResult /\ at = "skill" /\ stage' = "idle"
          /\ UNCHANGED <<evidence, draft, context>>
      BY <2>2, <2>7 DEF LeaveSkill, AgentIsDone, AgentIsFaithful, KeepsResult
    <3>2. CASE route # "mixed"
      BY <2>1, <2>2, <2>7, <3>1, <3>2
      DEF LeaveSkill, End, Result, FaithInv, AgentIsFaithful, KeepsResult
    <3>3. CASE route = "mixed"
      BY <2>1, <2>2, <2>7, <3>1, <3>3
      DEF LeaveSkill, StartSkill, FaithInv, AgentIsFaithful, KeepsResult
    <3> QED
      BY <3>2, <3>3
  <2>8. CASE Synthesize
    <3>1. at = "synthesize" /\ config.controlled /\ steps = <<>>
          /\ UNCHANGED <<stage, evidence, draft>>
      BY <2>1, <2>8 DEF Synthesize, PlaceInv, RoundInv, IsFaithful
    <3>2. PICK citations \in SUBSET cited : MixedReturns("completed", citations)
      BY <2>1, <2>8 DEF Synthesize
    <3>3. steps' = Append(steps, Result("completed", citations)) /\ at' = "review"
          /\ UNCHANGED outcome
      BY <3>1, <3>2 DEF MixedReturns
    <3>4. Len(steps') = 1 /\ steps'[1].status = "completed"
      <4>1. steps' = <<Result("completed", citations)>>
        BY <3>1, <3>3
      <4> QED
        BY <4>1 DEF Result
    <3> QED
      BY <2>1, <2>2, <3>1, <3>3, <3>4 DEF FaithInv, AgentIsFaithful, selected
  <2>9. CASE ReviewWorkflow
    <3>1. at = "review" /\ Len(steps) = 1 /\ steps[1].status = "completed"
          /\ UNCHANGED <<stage, evidence, draft, steps>>
      BY <2>2, <2>9 DEF ReviewWorkflow
    <3>2. Last(steps).status = "completed"
      BY <3>1 DEF Last
    <3>3. Accept
      BY <2>1, <2>9, <3>2 DEF ReviewWorkflow
    <3>4. CompletedRounds # {}
      BY <2>0, <3>1 DEF CompletedRounds, RoundsAreTyped
    <3>5. outcome'.status = "completed" /\ at' = "ended"
      BY <3>3, <3>4 DEF Accept, End, Result
    <3> QED
      BY <2>1, <2>2, <3>1, <3>5 DEF FaithInv, AgentIsFaithful, selected
  <2> QED
    BY <1>2, <2>3, <2>4, <2>5, <2>6, <2>7, <2>8, <2>9 DEF Next
<1> QED
  BY <1>1, <1>2

-----------------------------------------------------------------------------
(* The initial states, and the invariant of the types, the path and the    *)
(* outcome.                                                                *)
LEMMA PathInit == Init => TypeOK /\ PathInv /\ OutcomeInv
<1> SUFFICES ASSUME Init PROVE TypeOK /\ PathInv /\ OutcomeInv
  OBVIOUS
<1> USE DEF Init, AgentInit, Result
<1>1. PlaceInv
  BY DEF PlaceInv, DataStages, KnowledgeStages
<1>2. RoundInv
  BY DEF RoundInv
<1>3. EvidenceInv
  BY DEF EvidenceInv
<1>4. AgentTypeOK
  <2>1. 0 \in 0..MaxProviderCalls
    BY AgentAssumption
  <2> QED
    BY <2>1 DEF AgentTypeOK, Stages
<1>5. steps \in Seq([status : Results, citations : SUBSET Citations])
  OBVIOUS
<1>6. verdicts \in Seq(Verdicts)
  OBVIOUS
<1>7. TypeOK
  BY <1>4, <1>5, <1>6 DEF TypeOK, Places, Routes, Domains, Citations
<1>8. OutcomeInv
  BY
  DEF OutcomeInv, AnswersAreGrounded, ServedWorkWasAccepted,
      RepairsServeTheFirstRound,
         Completed
<1> QED
  BY <1>1, <1>2, <1>3, <1>7, <1>8 DEF PathInv

(* They hold of every state of a request's path. *)
LEMMA StepsKeepPath == Init /\ [][Next]_vars => [](TypeOK /\ PathInv /\ OutcomeInv)
<1>1. TypeOK /\ PathInv /\ OutcomeInv /\ [Next]_vars => (TypeOK /\ PathInv /\ OutcomeInv)'
  <2> SUFFICES ASSUME TypeOK, PathInv, OutcomeInv, [Next]_vars
               PROVE  TypeOK' /\ PathInv' /\ OutcomeInv'
    OBVIOUS
  <2>1. TypeOK'
    BY TypeStep DEF PathInv
  <2>2. PathInv'
    BY PlaceStep, RoundStep, EvidenceStep DEF PathInv
  <2> QED
    BY <2>1, <2>2, OutcomeStep
<1> QED
  BY <1>1, PathInit, PTL

LEMMA PathInvariant == Spec => [](TypeOK /\ PathInv /\ OutcomeInv)
BY StepsKeepPath, PTL DEF Spec

(* The budget and the faithful requests, for a budget of nine calls.       *)
LEMMA FaithInvariant ==
    ASSUME MaxProviderCalls >= 9
    PROVE  Spec => [](BudgetInv /\ FaithInv)
<1>1. Init => BudgetInv
  <2> SUFFICES ASSUME Init PROVE BudgetInv
    OBVIOUS
  <2>1. at = "route" /\ calls = 0 /\ exhausted = FALSE
    BY DEF Init, AgentInit
  <2> QED
    BY <2>1 DEF BudgetInv, BudgetCoversFirstReview, CallsSoFar
<1>2. Init => FaithInv
  BY DEF Init, AgentInit, Result, FaithInv
<1>3. TypeOK /\ PathInv /\ BudgetInv /\ FaithInv /\ [Next]_vars => (BudgetInv /\ FaithInv)'
  BY BudgetStep, FaithStep DEF PathInv
<1> QED
  BY <1>1, <1>2, <1>3, PathInvariant, PTL DEF Spec

(* Every state of a request's path is well typed.                          *)
THEOREM PathIsTyped == Spec => []TypeOK
BY PathInvariant, PTL

(* Coordinator._execute_business: a completed answer cites only evidence   *)
(* that the agents of its request hold, of each domain its route asks for. *)
THEOREM AnswersCiteWhatTheyHold == Spec => []AnswersAreGrounded
<1>1. OutcomeInv => AnswersAreGrounded
  BY DEF OutcomeInv
<1> QED
  BY <1>1, PathInvariant, PTL

(* ControlledAgentWorkflow: what a workflow serves is its newest completed *)
(* round, and the last review, which saw it, accepted it.                  *)
THEOREM ServedRoundsAreAccepted == Spec => []ServedWorkWasAccepted
<1>1. OutcomeInv => ServedWorkWasAccepted
  BY DEF OutcomeInv
<1> QED
  BY <1>1, PathInvariant, PTL

(* A repair round fails, whatever its context, and a request that serves   *)
(* an answer after one serves the round that its reviewer had sent back.   *)
THEOREM RepairsReplaceNothing == Spec => []RepairsServeTheFirstRound
<1>1. OutcomeInv => RepairsServeTheFirstRound
  BY DEF OutcomeInv
<1> QED
  BY <1>1, PathInvariant, PTL

(* ProviderPolicy.controlled_mixed: nine calls are enough for every single *)
(* skill, and for a controlled mixed request up to its first review.       *)
THEOREM NineCallsSuffice ==
    ASSUME MaxProviderCalls >= 9
    PROVE  Spec => []BudgetCoversFirstReview
<1>1. BudgetInv => BudgetCoversFirstReview
  BY DEF BudgetInv
<1> QED
  BY <1>1, FaithInvariant, PTL

(* Coordinator._execute_business: with nine calls or more, a request that  *)
(* every provider and every source does its part for is not failed, except *)
(* on a mixed path without controlled workflow or with a memory.           *)
THEOREM FaithfulRequestsAreServed ==
    ASSUME MaxProviderCalls >= 9
    PROVE  Spec => []FaithfulRequestsComplete
<1>1. FaithInv => FaithfulRequestsComplete
  <2> SUFFICES ASSUME FaithInv, outcome.status = "failed", ~mishap
               PROVE  route = "mixed" /\ (config.controlled => config.memory)
    BY DEF FaithfulRequestsComplete
  <2>1. ~IsFaithful
    BY DEF FaithInv
  <2> QED
    BY <2>1 DEF IsFaithful
<1> QED
  BY <1>1, FaithInvariant, PTL

-----------------------------------------------------------------------------
(* Induction over the naturals: a set that holds 0 and every successor of  *)
(* its numbers holds every natural number.                                 *)
LEMMA NatsAreReached ==
    ASSUME NEW S, 0 \in S, \A n \in Nat : n \in S => n + 1 \in S
    PROVE  Nat \subseteq S
<1> DEFINE R == OpToRel(<, Nat)
<1> DEFINE T == Nat \ S
<1>1. IsWellFoundedOn(R, Nat)
  BY NatLessThanWellFounded
<1>2. \A x, y \in Nat : x < y => <<x, y>> \in R
  BY DEF OpToRel
<1> HIDE DEF R
<1> SUFFICES ASSUME T # {} PROVE FALSE
  OBVIOUS
<1>3. T \subseteq Nat
  OBVIOUS
<1> HIDE DEF T
<1>4. PICK x \in T : \A y \in T : ~ (<<y, x>> \in R)
  BY <1>1, <1>3, WFMin, Zenon
<1>5. x \in Nat /\ x \notin S
  BY DEF T
<1>6. x # 0
  BY <1>5
<1>7. x - 1 \in Nat /\ x - 1 < x /\ (x - 1) + 1 = x
  BY <1>5, <1>6
<1>8. x - 1 \in S
  BY <1>2, <1>4, <1>5, <1>7 DEF T
<1> QED
  BY <1>5, <1>7, <1>8

-----------------------------------------------------------------------------
(* Played.                                                                 *)

(* What a trace is after each of n events.                                 *)
After(f, t, events, n) == f = [i \in 0 .. n |-> IF i = 0 THEN t ELSE Apply(f[i - 1], events[i])]

LEMMA PlayingRecurs ==
    ASSUME NEW t, NEW S, NEW events \in Seq(S)
    PROVE  \E f : After(f, t, events, Len(events)) /\ Played(t, events) = f[Len(events)]
<1> DEFINE n == Len(events)
<1> DEFINE R == {m \in Nat : \E f : After(f, t, events, m)}
<1>1. 0 \in R
  <2> DEFINE f == [i \in 0 .. 0 |-> t]
  <2>1. After(f, t, events, 0)
    BY DEF After
  <2> QED BY <2>1
<1>2. ASSUME NEW m \in Nat, m \in R PROVE m + 1 \in R
  <2>1. PICK f : After(f, t, events, m)
    BY <1>2
  <2> DEFINE g == [i \in 0 .. m + 1 |-> IF i <= m THEN f[i] ELSE Apply(f[m], events[m + 1])]
  <2> DEFINE h == [i \in 0 .. m + 1 |-> IF i = 0 THEN t ELSE Apply(g[i - 1], events[i])]
  <2>2. ASSUME NEW i \in 0 .. m + 1 PROVE g[i] = h[i]
    <3>1. CASE i = 0
      BY <2>1, <3>1 DEF After
    <3>2. CASE i \in 1 .. m
      <4>1. g[i] = f[i] /\ g[i - 1] = f[i - 1]
        BY <3>2
      <4>2. f[i] = Apply(f[i - 1], events[i])
        BY <2>1, <3>2 DEF After
      <4> QED BY <3>2, <4>1, <4>2
    <3>3. CASE i = m + 1
      <4>1. g[i] = Apply(f[m], events[i]) /\ g[i - 1] = f[m] /\ i # 0
        BY <3>3
      <4> QED BY <4>1
    <3> QED BY <3>1, <3>2, <3>3
  <2>3. g = h
    BY <2>2
  <2> HIDE DEF g
  <2>4. After(g, t, events, m + 1)
    BY <2>3 DEF After
  <2> QED BY <2>4
<1> HIDE DEF R
<1>3. n \in R
  BY <1>1, <1>2, NatsAreReached
<1>4. PICK f : After(f, t, events, n)
  BY <1>3 DEF R
<1> DEFINE played == CHOOSE p : p = [i \in 0 .. n |-> IF i = 0 THEN t ELSE Apply(p[i - 1], events[i])]
<1>5. After(played, t, events, n)
  BY <1>4, Zenon DEF After
<1>6. Played(t, events) = played[n]
  BY DEF Played
<1> HIDE DEF played
<1> QED BY <1>5, <1>6

(* Two ways that start alike and go on by the same events.                 *)
GoesOn(f, k, n, events) == \A i \in 1 .. n : f[k + i] = Apply(f[k + i - 1], events[i])

LEMMA WaysGoOn ==
    ASSUME NEW f, NEW t, NEW events, NEW n \in Nat, After(f, t, events, n)
    PROVE  f[0] = t /\ GoesOn(f, 0, n, events)
<1>1. f[0] = t
  BY DEF After
<1>2. ASSUME NEW i \in 1 .. n PROVE f[0 + i] = Apply(f[0 + i - 1], events[i])
  <2>1. i \in 0 .. n /\ i # 0 /\ 0 + i = i
    OBVIOUS
  <2>2. f[i] = Apply(f[i - 1], events[i])
    BY <2>1 DEF After
  <2> QED BY <2>1, <2>2
<1> QED BY <1>1, <1>2 DEF GoesOn

LEMMA SameEvents ==
    ASSUME NEW f, NEW g, NEW e, NEW k \in Nat, NEW n \in Nat, f[k] = g[0],
           GoesOn(f, k, n, e), GoesOn(g, 0, n, e)
    PROVE  f[k + n] = g[n]
<1> DEFINE R == {m \in Nat : m <= n => f[k + m] = g[m]}
<1>1. 0 \in R
  OBVIOUS
<1>2. ASSUME NEW m \in Nat, m \in R PROVE m + 1 \in R
  <2> SUFFICES ASSUME m + 1 <= n PROVE f[k + (m + 1)] = g[m + 1]
    OBVIOUS
  <2>1. m + 1 \in 1 .. n /\ k + (m + 1) - 1 = k + m /\ 0 + (m + 1) = m + 1 /\ 0 + (m + 1) - 1 = m
    OBVIOUS
  <2>2. f[k + m] = g[m]
    BY <1>2
  <2>3. f[k + (m + 1)] = Apply(f[k + m], e[m + 1])
    BY <2>1 DEF GoesOn
  <2>4. g[m + 1] = Apply(g[m], e[m + 1])
    BY <2>1 DEF GoesOn
  <2> QED BY <2>2, <2>3, <2>4
<1> HIDE DEF R
<1>3. n \in R
  BY <1>1, <1>2, NatsAreReached
<1> QED BY <1>3 DEF R

LEMMA PlayedNone ==
    ASSUME NEW t PROVE Played(t, <<>>) = t
<1>1. <<>> \in Seq({}) /\ Len(<<>>) = 0
  OBVIOUS
<1>2. PICK f : After(f, t, <<>>, 0) /\ Played(t, <<>>) = f[0]
  BY <1>1, PlayingRecurs
<1> QED BY <1>2 DEF After

LEMMA PlayedTogether ==
    ASSUME NEW t, NEW S, NEW a \in Seq(S), NEW b \in Seq(S)
    PROVE  Played(t, a \o b) = Played(Played(t, a), b)
<1> DEFINE k == Len(a)
<1> DEFINE n == Len(b)
<1> DEFINE c == a \o b
<1>1. /\ k \in Nat /\ n \in Nat /\ c \in Seq(S) /\ Len(c) = k + n
      /\ \A i \in 1 .. k : c[i] = a[i]
      /\ \A i \in 1 .. n : c[k + i] = b[i]
  OBVIOUS
<1>2. PICK f : After(f, t, c, k + n) /\ Played(t, c) = f[k + n]
  BY <1>1, PlayingRecurs
<1>3. PICK g : After(g, t, a, k) /\ Played(t, a) = g[k]
  BY PlayingRecurs
<1>4. PICK h : After(h, Played(t, a), b, n) /\ Played(Played(t, a), b) = h[n]
  BY PlayingRecurs
<1> HIDE DEF c, k, n
<1>5. f[k] = g[k]
  <2>1. f[0] = g[0]
    BY <1>1, <1>2, <1>3, WaysGoOn
  <2>2. GoesOn(g, 0, k, a)
    BY <1>1, <1>3, WaysGoOn
  <2>3. GoesOn(f, 0, k + n, c)
    BY <1>1, <1>2, WaysGoOn
  <2>4. GoesOn(f, 0, k, a)
    BY <1>1, <2>3 DEF GoesOn
  <2>5. f[0 + k] = g[k] /\ 0 + k = k
    BY <1>1, <2>1, <2>2, <2>4, SameEvents
  <2> QED BY <2>5
<1>6. f[k + n] = h[n]
  <2>1. f[k] = h[0]
    BY <1>1, <1>3, <1>4, <1>5, WaysGoOn
  <2>2. GoesOn(h, 0, n, b)
    BY <1>1, <1>4, WaysGoOn
  <2>3. GoesOn(f, 0, k + n, c)
    BY <1>1, <1>2, WaysGoOn
  <2>4. GoesOn(f, k, n, b)
    <3> SUFFICES ASSUME NEW i \in 1 .. n PROVE f[k + i] = Apply(f[k + i - 1], b[i])
      BY DEF GoesOn
    <3>1. /\ k + i \in 1 .. k + n /\ c[k + i] = b[i]
          /\ 0 + (k + i) = k + i /\ 0 + (k + i) - 1 = k + i - 1
      BY <1>1
    <3>2. f[0 + (k + i)] = Apply(f[0 + (k + i) - 1], c[k + i])
      BY <2>3, <3>1 DEF GoesOn
    <3> QED BY <3>1, <3>2
  <2> QED BY <1>1, <2>1, <2>2, <2>4, SameEvents
<1> QED BY <1>2, <1>4, <1>6 DEF c

LEMMA PlayedOne ==
    ASSUME NEW t, NEW e PROVE Played(t, <<e>>) = Apply(t, e)
<1>1. <<e>> \in Seq({e}) /\ Len(<<e>>) = 1 /\ <<e>>[1] = e
  OBVIOUS
<1>2. PICK f : After(f, t, <<e>>, 1) /\ Played(t, <<e>>) = f[1]
  BY <1>1, PlayingRecurs
<1>3. f[0] = t /\ f[1] = Apply(f[0], e)
  BY <1>1, <1>2 DEF After
<1> QED BY <1>2, <1>3

(* The trace is bound once.                                                *)
LEMMA Applies ==
    ASSUME NEW t, NEW kind, NEW with
    PROVE  Apply(t, <<kind, with>>) = AppliedTo(t, kind, with)
BY DEF Apply
-----------------------------------------------------------------------------
(* The trace of a request.                                                 *)

Operations ==
    {"request", "memory_read", "memory_write", "memory_summary", "response_mapping",
     "coordination", "routing", "workflow", "planning", "step", "skill", "tool_selection",
     "tool_execution", "provider", "data_access", "evidence_selection", "review",
     "answer_generation", "workflow_review"}

(* Statuses that a seam gives its span while its request runs.             *)
Ends == {"completed", "failed", "not_requested", "unsupported", "none"}

Statuses == Ends \cup {"open", "cancelled", "unclosed"}

Span == [id : Nat, parent : Nat, operation : Operations, status : Statuses]

TraceType ==
    [limit : Nat \ {0}, started : Nat \ {0}, refused : BOOLEAN, active : Nat,
     spans : Seq(Span), dropped : SUBSET Nat, running : Seq(Nat)]

(* The recorded spans are the first ones that were started, each under an  *)
(* earlier one.                                                            *)
IsTree(t) ==
    /\ Len(t.spans) = IF t.started < t.limit THEN t.started ELSE t.limit
    /\ \A i \in DOMAIN t.spans :
          t.spans[i].id = i /\ (i > 1 => t.spans[i].parent \in 1 .. i - 1)

(* The span of every seam that runs is recorded or dropped, so that it is  *)
(* known to the seams it calls, and open.                                  *)
IsStack(t) ==
    /\ t.running # <<>> => t.running[1] = 1
    /\ \A i, j \in DOMAIN t.running : i < j => t.running[i] < t.running[j]
    /\ \A i \in DOMAIN t.running :
          /\ t.running[i] \in 1 .. t.started
          /\ t.running[i] \in DOMAIN t.spans \/ t.running[i] \in t.dropped
          /\ t.running[i] \in DOMAIN t.spans => t.spans[t.running[i]].status = "open"

(* Each seam runs under the one below it, and what was started later runs  *)
(* under it.                                                               *)
IsChain(t) ==
    \A i \in DOMAIN t.running, k \in DOMAIN t.spans :
        /\ k = t.running[i] /\ i > 1 => t.spans[k].parent = t.running[i - 1]
        /\ k > t.running[i] => t.spans[k].parent >= t.running[i]

Sound(t) == t \in TraceType /\ ~t.refused /\ IsTree(t) /\ IsStack(t) /\ IsChain(t)

Normal(t) == \A i \in DOMAIN t.spans : t.spans[i].status \in Ends \cup {"open"}

(* The spans that were left open, which only some seams do.                *)
LeftOpen(t) ==
    {i \in DOMAIN t.spans :
        t.spans[i].status = "open" /\ \A k \in DOMAIN t.running : t.running[k] # i}

MayBeLeft(t, i) ==
    /\ i > 1
    /\ \/ t.spans[i].operation = "tool_selection"
       \/ /\ t.spans[i].operation = "provider"
          /\ t.spans[t.spans[i].parent].operation \in
                {"routing", "tool_execution", "evidence_selection"}

(* The seam above has failed, or is the one that runs, and will.           *)
Settled(t) ==
    \A i \in LeftOpen(t) : MayBeLeft(t, i) /\ t.spans[t.spans[i].parent].status = "failed"

Pending(t) ==
    \A i \in LeftOpen(t) :
        /\ MayBeLeft(t, i)
        /\ \/ t.spans[t.spans[i].parent].status = "failed"
           \/ t.running # <<>> /\ t.spans[i].parent = Last(t.running)

(* The seam that runs is the active one, and a tool's.                     *)
ToolIsActive(t) ==
    /\ t.running # <<>>
    /\ t.active = Last(t.running)
    /\ t.active \in DOMAIN t.spans => t.spans[t.active].operation = "tool_execution"

-----------------------------------------------------------------------------
(* How many seams run at a place, and how many were started at most.       *)

IsReviewed == route = "mixed" /\ config.controlled

SkillRuns ==
    \/ at = "synthesize"
    \/ at = "skill" /\ (stage # "idle" \/ (route = "mixed" /\ domain = "knowledge"))

ToolRuns == stage \in DataStages \cup KnowledgeStages

PathDepth ==
    2 + (IF IsReviewed /\ at # "plan" THEN 1 ELSE 0)
      + (IF ~SkillRuns THEN 0 ELSE IF IsReviewed THEN 2 ELSE 1)
      + (IF ToolRuns THEN 1 ELSE 0)

Depth ==
    IF phase = "coordinate" /\ at # "ended" THEN PathDepth
    ELSE IF phase = "finished" THEN 0 ELSE 1

AgentSpans == IF IsReviewed THEN 7 ELSE 11

StageSpans ==
    LET n == IF native THEN 2 ELSE 0
    IN CASE stage \in {"idle", "select_tool"} -> 0
         [] stage \in {"plan_data_query", "retrieve_evidence", "select_evidence"} -> n + 1
         [] stage = "execute_safe_query" -> n + 2
         [] stage \in {"generate_data_answer", "review_answerability"} -> n + 3
         [] stage = "generate_answer" -> n + 5
         [] stage = "copy_answer" -> 9
         [] OTHER -> AgentSpans

SpansBefore == IF IsReviewed THEN 10 + 20 * Len(steps) ELSE 7

PathSpans ==
    CASE at = "route" -> 5
      [] at = "plan" -> 7
      [] at = "skill" ->
             SpansBefore + (IF SkillRuns THEN 2 ELSE 0)
             + (IF route = "mixed" /\ domain = "knowledge" THEN AgentSpans ELSE 0) + StageSpans
      [] at = "synthesize" -> SpansBefore + 2 + 2 * AgentSpans
      [] at = "review" -> 8 + 20 * Len(steps)
      [] OTHER -> 57

SpansStarted ==
    CASE phase = "read" -> 1
      [] phase = "coordinate" -> PathSpans
      [] phase = "persist" -> 57
      [] phase = "summarize" -> 58
      [] phase = "respond" -> 59
      [] OTHER -> DefaultLimit

(* A request that will not be served, because a seam failed in it.         *)
IsDoomed ==
    \/ at = "skill" /\ stage = "failed"
    \/ steps # <<>> /\ steps[1].status = "failed"
    \/ at = "ended" /\ outcome.status # "completed"

PhaseInv ==
    /\ phase \in {"read", "coordinate", "persist", "summarize", "respond", "finished"}
    /\ phase = "read" => at = "route"
    /\ phase \in {"persist", "summarize", "respond"} => at = "ended"
    /\ phase \in {"persist", "summarize"} => outcome.status = "completed"

RunningInv ==
    phase # "finished" =>
        /\ Sound(trace)
        /\ Normal(trace)
        /\ Len(trace.running) = Depth
        /\ trace.started <= SpansStarted
        /\ IF at = "skill" /\ stage = "failed" /\ native THEN Pending(trace) ELSE Settled(trace)
        /\ LeftOpen(trace) # {} => IsDoomed
        /\ at = "skill" /\ stage \in {"plan_data_query", "retrieve_evidence"} =>
               ToolIsActive(trace)

FinishedInv == phase = "finished" => TraceIsOneTree /\ SpansTellHowSeamsEnded

TraceInv == PhaseInv /\ RunningInv /\ FinishedInv

-----------------------------------------------------------------------------
(* A sequence with one element more.                                       *)
LEMMA Appended ==
    ASSUME NEW S, NEW s \in Seq(S), NEW e \in S
    PROVE  /\ Append(s, e) \in Seq(S) /\ Len(Append(s, e)) = Len(s) + 1
           /\ DOMAIN Append(s, e) = 1 .. Len(s) + 1
           /\ \A i \in 1 .. Len(s) : Append(s, e)[i] = s[i]
           /\ Append(s, e)[Len(s) + 1] = e
OBVIOUS

(* What a trace has.                                                       *)
LEMMA TraceParts ==
    ASSUME NEW t \in TraceType
    PROVE  /\ t.limit \in Nat \ {0} /\ t.started \in Nat \ {0} /\ t.active \in Nat
           /\ t.refused \in BOOLEAN /\ t.dropped \subseteq Nat
           /\ t.spans \in Seq(Span) /\ Len(t.spans) \in Nat /\ DOMAIN t.spans = 1 .. Len(t.spans)
           /\ \A i \in DOMAIN t.spans : t.spans[i] \in Span
           /\ t.running \in Seq(Nat) /\ Len(t.running) \in Nat
           /\ DOMAIN t.running = 1 .. Len(t.running)
           /\ \A i \in DOMAIN t.running : t.running[i] \in Nat
BY DEF TraceType

(* The seam that runs is known.                                            *)
LEMMA ParentIsKnown ==
    ASSUME NEW t, Sound(t), t.running # <<>>
    PROVE  /\ Parent(t) = t.running[Len(t.running)] /\ Len(t.running) \in DOMAIN t.running
           /\ Known(t, Parent(t)) /\ Parent(t) \in 1 .. t.started
<1>1. t \in TraceType
  BY DEF Sound
<1>2. Len(t.running) \in Nat /\ Len(t.running) # 0 /\ Len(t.running) \in DOMAIN t.running
  BY <1>1, TraceParts
<1>3. Parent(t) = t.running[Len(t.running)]
  BY DEF Parent, Last
<1>4. \/ t.running[Len(t.running)] \in DOMAIN t.spans
      \/ t.running[Len(t.running)] \in t.dropped
  BY <1>2 DEF Sound, IsStack
<1>5. \A i \in DOMAIN t.spans : i \in Recorded(t)
  BY DEF Sound, IsTree, Recorded
<1>6. Parent(t) \in 1 .. t.started
  BY <1>2, <1>3 DEF Sound, IsStack
<1> QED BY <1>2, <1>3, <1>4, <1>5, <1>6 DEF Known

(* A span that is started.                                                 *)
NewSpan(t, operation) ==
    [id |-> t.started + 1, parent |-> Parent(t), operation |-> operation, status |-> "open"]

LEMMA StartedTrace ==
    ASSUME NEW t, Sound(t), t.running # <<>>, NEW operation \in Operations
    PROVE  LET u == StartSpan(t, operation)
           IN  /\ u \in TraceType /\ ~u.refused /\ u.limit = t.limit
               /\ u.started = t.started + 1 /\ u.active = t.started + 1
               /\ u.running = Append(t.running, t.started + 1)
               /\ IF t.started < t.limit
                  THEN u.spans = Append(t.spans, NewSpan(t, operation)) /\ u.dropped = t.dropped
                  ELSE u.spans = t.spans /\ u.dropped = t.dropped \cup {t.started + 1}
<1>1. t \in TraceType /\ ~t.refused
  BY DEF Sound
<1>2. Parent(t) \in Nat /\ Known(t, Parent(t))
  BY <1>1, ParentIsKnown, TraceParts
<1>3. HasRoom(t) <=> t.started < t.limit
  BY <1>1, TraceParts DEF HasRoom, Sound, IsTree
<1>4. NewSpan(t, operation) \in Span
  <2>1. t.started + 1 \in Nat
    BY <1>1, TraceParts
  <2> QED BY <1>2, <2>1 DEF NewSpan, Span, Statuses
<1> DEFINE n == t.started + 1
<1> DEFINE spans == IF HasRoom(t) THEN Append(t.spans, NewSpan(t, operation)) ELSE t.spans
<1> DEFINE dropped == IF HasRoom(t) THEN t.dropped ELSE t.dropped \cup {n}
<1> DEFINE running == Append(t.running, n)
<1>5. StartSpan(t, operation) =
          [t EXCEPT !.started = n, !.running = running, !.active = n, !.spans = spans,
                    !.dropped = dropped]
  BY <1>1, <1>2 DEF StartSpan, NewSpan, TraceType
<1>6. n \in Nat \ {0} /\ running \in Seq(Nat)
  BY <1>1, TraceParts
<1>7. spans \in Seq(Span)
  BY <1>1, <1>4, TraceParts
<1>8. dropped \subseteq Nat
  BY <1>1, <1>6, TraceParts
<1>9. /\ n = t.started + 1 /\ running = Append(t.running, t.started + 1)
      /\ IF t.started < t.limit
         THEN spans = Append(t.spans, NewSpan(t, operation)) /\ dropped = t.dropped
         ELSE spans = t.spans /\ dropped = t.dropped \cup {t.started + 1}
  BY <1>3
<1> HIDE DEF n, spans, dropped, running
<1> DEFINE u == StartSpan(t, operation)
<1>10. u \in TraceType
  BY <1>1, <1>5, <1>6, <1>7, <1>8 DEF TraceType
<1>11. /\ u.refused = t.refused /\ u.limit = t.limit /\ u.started = n /\ u.active = n
       /\ u.running = running /\ u.spans = spans /\ u.dropped = dropped
  BY <1>1, <1>5 DEF TraceType
<1> HIDE DEF u
<1>12. /\ u.started = t.started + 1 /\ u.active = t.started + 1
       /\ u.running = Append(t.running, t.started + 1)
  BY <1>9, <1>11
<1>13. IF t.started < t.limit
       THEN u.spans = Append(t.spans, NewSpan(t, operation)) /\ u.dropped = t.dropped
       ELSE u.spans = t.spans /\ u.dropped = t.dropped \cup {t.started + 1}
  BY <1>9, <1>11
<1>14. ~u.refused /\ u.limit = t.limit
  BY <1>1, <1>11
<1> QED BY <1>10, <1>12, <1>13, <1>14 DEF u

LEMMA StartKeeps ==
    ASSUME NEW t, Sound(t), t.running # <<>>, NEW operation \in Operations
    PROVE  LET u == StartSpan(t, operation)
           IN  /\ Sound(u)
               /\ Normal(t) => Normal(u)
               /\ LeftOpen(u) = LeftOpen(t)
               /\ \A i \in DOMAIN t.spans : u.spans[i] = t.spans[i]
               /\ u.active \in DOMAIN u.spans => u.spans[u.active].operation = operation
<1> DEFINE u == StartSpan(t, operation)
<1> DEFINE n == t.started + 1
<1> DEFINE k == Len(t.running)
<1> DEFINE m == Len(t.spans)
<1>1. /\ u \in TraceType /\ ~u.refused /\ u.limit = t.limit
      /\ u.started = n /\ u.active = n
      /\ u.running = Append(t.running, n)
      /\ IF t.started < t.limit
         THEN u.spans = Append(t.spans, NewSpan(t, operation)) /\ u.dropped = t.dropped
         ELSE u.spans = t.spans /\ u.dropped = t.dropped \cup {n}
  BY StartedTrace
<1>2. t \in TraceType /\ IsTree(t) /\ IsStack(t) /\ IsChain(t)
  BY DEF Sound
<1>3. /\ t.limit \in Nat \ {0} /\ t.started \in Nat \ {0}
      /\ t.spans \in Seq(Span) /\ m \in Nat /\ DOMAIN t.spans = 1 .. m
      /\ t.running \in Seq(Nat) /\ k \in Nat /\ DOMAIN t.running = 1 .. k
      /\ n \in Nat /\ n = t.started + 1 /\ m = Len(t.spans) /\ k = Len(t.running)
  BY <1>2, TraceParts
<1>4. m <= t.started /\ (t.started < t.limit => m = t.started)
  BY <1>2, <1>3 DEF IsTree
<1>5. /\ Parent(t) = t.running[k] /\ k \in DOMAIN t.running /\ Parent(t) \in 1 .. t.started
  BY ParentIsKnown
<1>b. NewSpan(t, operation) \in Span
  BY <1>2, <1>3, <1>5 DEF NewSpan, Span, Statuses
<1>a. NewSpan(t, operation) = [id |-> n, parent |-> Parent(t), operation |-> operation, status |-> "open"]
  BY DEF NewSpan
<1> HIDE DEF u, n, k, m
<1>6. /\ \A i \in 1 .. m : i \in DOMAIN u.spans /\ u.spans[i] = t.spans[i]
      /\ \A i \in DOMAIN u.spans :
            \/ i \in 1 .. m
            \/ i = n /\ t.started < t.limit /\ u.spans[i] = NewSpan(t, operation)
  <2>1. CASE t.started < t.limit
    <3>1. u.spans = Append(t.spans, NewSpan(t, operation)) /\ m + 1 = n
      BY <1>1, <1>3, <1>4, <2>1
    <3>2. /\ DOMAIN u.spans = 1 .. m + 1 /\ u.spans[m + 1] = NewSpan(t, operation)
          /\ \A i \in 1 .. m : u.spans[i] = t.spans[i]
      BY <1>3, <1>b, <3>1, Appended
    <3> QED BY <1>3, <2>1, <3>1, <3>2
  <2>2. CASE ~(t.started < t.limit)
    BY <1>1, <1>3, <2>2
  <2> QED BY <2>1, <2>2
<1>7. /\ DOMAIN u.running = 1 .. k + 1 /\ u.running[k + 1] = n
      /\ \A i \in 1 .. k : u.running[i] = t.running[i]
  BY <1>1, <1>3, Appended
<1>8. n \notin DOMAIN t.spans
  BY <1>3, <1>4
<1>9. /\ NewSpan(t, operation).id = n /\ NewSpan(t, operation).parent = t.running[k]
      /\ NewSpan(t, operation).operation = operation /\ NewSpan(t, operation).status = "open"
  BY <1>5, <1>a
<1>c. u.started = n
  BY <1>1
<1>10. IsTree(u)
  <2>1. Len(u.spans) = IF u.started < u.limit THEN u.started ELSE u.limit
    <3>1. CASE t.started < t.limit
      BY <1>1, <1>3, <1>4, <3>1
    <3>2. CASE ~(t.started < t.limit)
      BY <1>1, <1>2, <1>3, <3>2 DEF IsTree
    <3> QED BY <3>1, <3>2
  <2>2. ASSUME NEW i \in DOMAIN u.spans
        PROVE  u.spans[i].id = i /\ (i > 1 => u.spans[i].parent \in 1 .. i - 1)
    <3>1. CASE i \in 1 .. m
      BY <1>2, <1>3, <1>6, <3>1 DEF IsTree
    <3>2. CASE i \notin 1 .. m
      BY <1>3, <1>5, <1>6, <1>9, <2>2, <3>2
    <3> QED BY <3>1, <3>2
  <2> QED BY <2>1, <2>2 DEF IsTree
<1>11. IsStack(u)
  <2>1. u.running # <<>> => u.running[1] = 1
    BY <1>2, <1>3, <1>5, <1>7 DEF IsStack
  <2>2. ASSUME NEW i \in DOMAIN u.running, NEW j \in DOMAIN u.running, i < j
        PROVE  u.running[i] < u.running[j]
    <3>1. i \in 1 .. k /\ t.running[i] \in 1 .. t.started
      BY <1>2, <1>3, <1>7, <2>2 DEF IsStack
    <3>2. CASE j \in 1 .. k
      BY <1>2, <1>3, <1>7, <2>2, <3>1, <3>2 DEF IsStack
    <3>3. CASE j = k + 1
      <4>1. u.running[j] = n /\ u.running[i] = t.running[i]
        BY <1>7, <3>1, <3>3
      <4>2. t.running[i] < n
        BY <1>3, <3>1
      <4> QED BY <4>1, <4>2
    <3> QED BY <1>3, <1>7, <3>2, <3>3
  <2>3. ASSUME NEW i \in DOMAIN u.running
        PROVE  /\ u.running[i] \in 1 .. u.started
               /\ u.running[i] \in DOMAIN u.spans \/ u.running[i] \in u.dropped
               /\ u.running[i] \in DOMAIN u.spans => u.spans[u.running[i]].status = "open"
    <3>1. CASE i \in 1 .. k
      <4>1. /\ u.running[i] = t.running[i] /\ t.running[i] \in 1 .. t.started
            /\ t.running[i] \in 1 .. m \/ t.running[i] \in t.dropped
            /\ t.running[i] \in 1 .. m => t.spans[t.running[i]].status = "open"
        <5>1. i \in DOMAIN t.running
          BY <1>3, <3>1
        <5> QED BY <1>2, <1>3, <1>7, <3>1, <5>1 DEF IsStack
      <4>2. t.running[i] \in 1 .. u.started /\ t.running[i] # n
        BY <1>3, <1>c, <4>1
      <4>3. t.dropped \subseteq u.dropped
        BY <1>1
      <4> QED BY <1>6, <4>1, <4>2, <4>3
    <3>2. CASE i = k + 1
      <4>1. u.running[i] = n /\ n \in 1 .. u.started
        BY <1>1, <1>3, <1>7, <3>2
      <4>2. n \in DOMAIN u.spans \/ n \in u.dropped
        BY <1>1, <1>3, <1>4
      <4>3. n \in DOMAIN u.spans => u.spans[n].status = "open"
        BY <1>3, <1>6, <1>8, <1>9
      <4> QED BY <4>1, <4>2, <4>3
    <3> QED BY <1>3, <1>7, <3>1, <3>2
  <2> QED BY <2>1, <2>2, <2>3 DEF IsStack
<1>12. IsChain(u)
  <2> SUFFICES ASSUME NEW i \in DOMAIN u.running, NEW j \in DOMAIN u.spans
               PROVE  /\ j = u.running[i] /\ i > 1 => u.spans[j].parent = u.running[i - 1]
                      /\ j > u.running[i] => u.spans[j].parent >= u.running[i]
    BY DEF IsChain
  <2>1. CASE i \in 1 .. k /\ j \in 1 .. m
    <3>1. /\ j = t.running[i] /\ i > 1 => t.spans[j].parent = t.running[i - 1]
          /\ j > t.running[i] => t.spans[j].parent >= t.running[i]
      BY <1>2, <1>3, <2>1 DEF IsChain
    <3>2. i > 1 => u.running[i - 1] = t.running[i - 1]
      <4>1. i > 1 => i - 1 \in 1 .. k
        BY <1>3, <2>1
      <4> QED BY <1>7, <4>1
    <3>3. u.spans[j] = t.spans[j] /\ u.running[i] = t.running[i]
      BY <1>6, <1>7, <2>1
    <3> QED BY <3>1, <3>2, <3>3
  <2>2. CASE i \in 1 .. k /\ j \notin 1 .. m
    <3>1. u.spans[j].parent = t.running[k] /\ j = n
      BY <1>6, <1>9, <2>2
    <3>2. t.running[i] <= t.running[k] /\ t.running[i] \in 1 .. t.started
      <4>1. i \in DOMAIN t.running /\ i \in Nat /\ (i < k \/ i = k)
        BY <1>3, <2>2
      <4>2. t.running[i] \in 1 .. t.started /\ t.running[k] \in 1 .. t.started
        BY <1>2, <1>5, <4>1 DEF IsStack
      <4>3. i < k => t.running[i] < t.running[k]
        BY <1>2, <1>5, <4>1 DEF IsStack
      <4> QED BY <1>3, <4>1, <4>2, <4>3
    <3>3. t.running[k] \in Nat
      BY <1>5, <1>3
    <3>4. u.running[i] = t.running[i] /\ t.running[i] \in Nat
      BY <1>7, <2>2, <3>2
    <3>5. j # u.running[i]
      BY <1>3, <3>1, <3>2, <3>4
    <3>6. u.spans[j].parent >= u.running[i]
      BY <3>1, <3>2, <3>3, <3>4
    <3> QED BY <3>5, <3>6
  <2>3. CASE i = k + 1
    <3>1. u.running[i] = n /\ u.running[i - 1] = t.running[k]
      <4>1. i - 1 = k /\ k \in 1 .. k
        BY <1>3, <1>5, <2>3
      <4> QED BY <1>7, <2>3, <4>1
    <3>2. j <= n /\ (j = n => u.spans[j].parent = t.running[k])
      BY <1>3, <1>4, <1>6, <1>8, <1>9
    <3>3. j \in Nat
      BY <1>3, <1>6
    <3> QED BY <1>3, <3>1, <3>2, <3>3
  <2> QED BY <1>3, <1>7, <2>1, <2>2, <2>3
<1>13. Normal(t) => Normal(u)
  BY <1>3, <1>6, <1>9 DEF Normal
<1>14. LeftOpen(u) = LeftOpen(t)
  <2>1. ASSUME NEW i \in LeftOpen(u) PROVE i \in LeftOpen(t)
    <3>1. i \in DOMAIN u.spans /\ u.spans[i].status = "open" /\ \A j \in 1 .. k + 1 : u.running[j] # i
      BY <1>7, <2>1 DEF LeftOpen
    <3>2. i # n /\ i \in 1 .. m
      <4>1. k + 1 \in 1 .. k + 1
        BY <1>3
      <4>2. i # n
        BY <1>7, <3>1, <4>1
      <4> QED BY <1>6, <3>1, <4>2
    <3>3. \A j \in 1 .. k : t.running[j] # i
      <4> TAKE j \in 1 .. k
      <4>1. j \in 1 .. k + 1
        BY <1>3
      <4> QED BY <1>7, <3>1, <4>1
    <3>4. t.spans[i].status = "open" /\ i \in DOMAIN t.spans
      BY <1>3, <1>6, <3>1, <3>2
    <3> QED BY <1>3, <3>3, <3>4 DEF LeftOpen
  <2>2. ASSUME NEW i \in LeftOpen(t) PROVE i \in LeftOpen(u)
    <3>1. i \in 1 .. m /\ t.spans[i].status = "open" /\ \A j \in 1 .. k : t.running[j] # i
      BY <1>3, <2>2 DEF LeftOpen
    <3>2. i # n
      BY <1>3, <1>8, <3>1
    <3>3. \A j \in 1 .. k + 1 : u.running[j] # i
      <4> TAKE j \in 1 .. k + 1
      <4>1. j \in 1 .. k \/ j = k + 1
        BY <1>3
      <4> QED BY <1>7, <3>1, <3>2, <4>1
    <3>4. u.spans[i].status = "open" /\ i \in DOMAIN u.spans
      BY <1>6, <3>1
    <3> QED BY <1>7, <3>3, <3>4 DEF LeftOpen
  <2> QED BY <2>1, <2>2
<1>15. u.active \in DOMAIN u.spans => u.spans[u.active].operation = operation
  BY <1>1, <1>3, <1>6, <1>8, <1>9
<1>16. Sound(u)
  BY <1>1, <1>10, <1>11, <1>12 DEF Sound
<1> QED BY <1>3, <1>6, <1>13, <1>14, <1>15, <1>16 DEF u

(* Seams that end: those above the first h of the running ones.            *)
Upper(t, h) == {t.running[j] : j \in h + 1 .. Len(t.running)}

Closed(t, h, status) ==
    [CompleteSpans(t, Upper(t, h), status) EXCEPT !.running = SubSeq(t.running, 1, h)]

LEMMA Shortened ==
    ASSUME NEW S, NEW s \in Seq(S), NEW h \in 0 .. Len(s)
    PROVE  /\ SubSeq(s, 1, h) \in Seq(S) /\ Len(SubSeq(s, 1, h)) = h
           /\ DOMAIN SubSeq(s, 1, h) = 1 .. h
           /\ \A i \in 1 .. h : SubSeq(s, 1, h)[i] = s[i]
OBVIOUS

LEMMA ClosedTrace ==
    ASSUME NEW t, Sound(t), NEW h \in 0 .. Len(t.running), NEW status \in Statuses
    PROVE  LET u == Closed(t, h, status)
           IN  /\ u \in TraceType /\ ~u.refused /\ u.limit = t.limit /\ u.started = t.started
               /\ Len(u.running) = h /\ DOMAIN u.running = 1 .. h
               /\ \A i \in 1 .. h : u.running[i] = t.running[i]
               /\ u.dropped = t.dropped \ Upper(t, h)
               /\ u.active = IF t.active \in Upper(t, h) THEN NoSpan ELSE t.active
               /\ Len(u.spans) = Len(t.spans) /\ DOMAIN u.spans = DOMAIN t.spans
               /\ \A i \in DOMAIN t.spans :
                     /\ u.spans[i].id = t.spans[i].id
                     /\ u.spans[i].parent = t.spans[i].parent
                     /\ u.spans[i].operation = t.spans[i].operation
                     /\ u.spans[i].status = IF i \in Upper(t, h) /\ t.spans[i].status = "open"
                                            THEN status ELSE t.spans[i].status
<1> DEFINE ids == Upper(t, h)
<1> DEFINE dropped == t.dropped \ ids
<1> DEFINE active == IF t.active \in ids THEN NoSpan ELSE t.active
<1> DEFINE spans ==
        [i \in DOMAIN t.spans |->
            IF t.spans[i].id \in ids /\ t.spans[i].status = "open"
            THEN [t.spans[i] EXCEPT !.status = status]
            ELSE t.spans[i]]
<1> DEFINE running == SubSeq(t.running, 1, h)
<1>1. t \in TraceType /\ ~t.refused /\ IsTree(t)
  BY DEF Sound
<1>2. Closed(t, h, status) =
          [t EXCEPT !.dropped = dropped, !.active = active, !.spans = spans, !.running = running]
  BY <1>1 DEF Closed, CompleteSpans, TraceType
<1>3. /\ t.spans \in Seq(Span) /\ Len(t.spans) \in Nat /\ DOMAIN t.spans = 1 .. Len(t.spans)
      /\ \A i \in DOMAIN t.spans : t.spans[i] \in Span /\ t.spans[i].id = i
  BY <1>1, TraceParts DEF IsTree
<1>4. \A i \in DOMAIN t.spans :
          /\ spans[i] \in Span
          /\ spans[i].id = t.spans[i].id
          /\ spans[i].parent = t.spans[i].parent
          /\ spans[i].operation = t.spans[i].operation
          /\ spans[i].status = IF i \in ids /\ t.spans[i].status = "open"
                               THEN status ELSE t.spans[i].status
  BY <1>3 DEF Span
<1>5. spans \in [1 .. Len(t.spans) -> Span]
  BY <1>3, <1>4
<1>6. spans \in Seq(Span) /\ Len(spans) = Len(t.spans) /\ DOMAIN spans = DOMAIN t.spans
  BY <1>3, <1>5
<1>7. dropped \subseteq Nat /\ active \in Nat
  BY <1>1, TraceParts DEF NoSpan
<1>8. /\ running \in Seq(Nat) /\ Len(running) = h /\ DOMAIN running = 1 .. h
      /\ \A i \in 1 .. h : running[i] = t.running[i]
  BY <1>1, TraceParts, Shortened
<1>9. dropped = t.dropped \ Upper(t, h) /\ active = IF t.active \in Upper(t, h) THEN NoSpan ELSE t.active
  OBVIOUS
<1>10. \A i : i \in ids <=> i \in Upper(t, h)
  OBVIOUS
<1> HIDE DEF ids, dropped, active, spans, running
<1>11. /\ Closed(t, h, status) \in TraceType
       /\ Closed(t, h, status).dropped = dropped /\ Closed(t, h, status).active = active
       /\ Closed(t, h, status).spans = spans /\ Closed(t, h, status).running = running
       /\ Closed(t, h, status).limit = t.limit /\ Closed(t, h, status).started = t.started
       /\ Closed(t, h, status).refused = t.refused
  BY <1>1, <1>2, <1>6, <1>7, <1>8 DEF TraceType
<1> QED BY <1>1, <1>4, <1>6, <1>8, <1>9, <1>10, <1>11

LEMMA ClosingKeeps ==
    ASSUME NEW t, Sound(t), NEW h \in 0 .. Len(t.running), NEW status \in Statuses \ {"open"}
    PROVE  LET u == Closed(t, h, status)
           IN  /\ Sound(u)
               /\ (Normal(t) /\ status \in Ends) => Normal(u)
               /\ LeftOpen(u) \subseteq LeftOpen(t)
               /\ Settled(t) => Settled(u)
               /\ (Pending(t) /\ status = "failed" /\ h < Len(t.running)) => Settled(u)
<1> DEFINE u == Closed(t, h, status)
<1> DEFINE k == Len(t.running)
<1>1. /\ u \in TraceType /\ ~u.refused /\ u.limit = t.limit /\ u.started = t.started
      /\ Len(u.running) = h /\ DOMAIN u.running = 1 .. h
      /\ \A i \in 1 .. h : u.running[i] = t.running[i]
      /\ u.dropped = t.dropped \ Upper(t, h)
      /\ Len(u.spans) = Len(t.spans) /\ DOMAIN u.spans = DOMAIN t.spans
  BY ClosedTrace
<1>2. \A i \in DOMAIN t.spans :
          /\ u.spans[i].id = t.spans[i].id
          /\ u.spans[i].parent = t.spans[i].parent
          /\ u.spans[i].operation = t.spans[i].operation
          /\ u.spans[i].status = IF i \in Upper(t, h) /\ t.spans[i].status = "open"
                                 THEN status ELSE t.spans[i].status
  BY ClosedTrace
<1>3. /\ t \in TraceType /\ IsTree(t) /\ IsStack(t) /\ IsChain(t)
      /\ k \in Nat /\ DOMAIN t.running = 1 .. k /\ h \in Nat /\ h <= k
      /\ \A i \in 1 .. h : i \in 1 .. k
      /\ \A i \in DOMAIN t.running : t.running[i] \in Nat
  BY TraceParts DEF Sound
<1>4. \A i : i \in Upper(t, h) <=> \E j \in h + 1 .. k : i = t.running[j]
  BY DEF Upper
<1> HIDE DEF u, k
<1>5. ASSUME NEW i \in 1 .. h PROVE t.running[i] \notin Upper(t, h)
  <2> SUFFICES ASSUME NEW j \in h + 1 .. k, t.running[i] = t.running[j] PROVE FALSE
    BY <1>4
  <2>1. i \in DOMAIN t.running /\ j \in DOMAIN t.running /\ i < j
    BY <1>3
  <2>2. t.running[i] < t.running[j] /\ t.running[i] \in Nat
    BY <1>3, <2>1 DEF IsStack
  <2> QED BY <2>2
<1>6. IsTree(u)
  BY <1>1, <1>2, <1>3 DEF IsTree
<1>7. IsStack(u)
  <2>1. u.running # <<>> => u.running[1] = 1
    <3>1. u.running # <<>> => h # 0
      BY <1>1
    <3>2. h # 0 => t.running # <<>> /\ 1 \in 1 .. h
      BY <1>3
    <3> QED BY <1>1, <1>3, <3>1, <3>2 DEF IsStack
  <2>2. \A i, j \in DOMAIN u.running : i < j => u.running[i] < u.running[j]
    BY <1>1, <1>3 DEF IsStack
  <2>3. ASSUME NEW i \in DOMAIN u.running
        PROVE  /\ u.running[i] \in 1 .. u.started
               /\ u.running[i] \in DOMAIN u.spans \/ u.running[i] \in u.dropped
               /\ u.running[i] \in DOMAIN u.spans => u.spans[u.running[i]].status = "open"
    <3>1. i \in 1 .. h /\ i \in DOMAIN t.running /\ u.running[i] = t.running[i]
      BY <1>1, <1>3
    <3>2. /\ t.running[i] \in 1 .. t.started
          /\ t.running[i] \in DOMAIN t.spans \/ t.running[i] \in t.dropped
          /\ t.running[i] \in DOMAIN t.spans => t.spans[t.running[i]].status = "open"
      BY <1>3, <3>1 DEF IsStack
    <3>3. t.running[i] \notin Upper(t, h)
      BY <1>5, <3>1
    <3> QED BY <1>1, <1>2, <3>1, <3>2, <3>3
  <2> QED BY <2>1, <2>2, <2>3 DEF IsStack
<1>8. IsChain(u)
  <2> SUFFICES ASSUME NEW i \in DOMAIN u.running, NEW j \in DOMAIN u.spans
               PROVE  /\ j = u.running[i] /\ i > 1 => u.spans[j].parent = u.running[i - 1]
                      /\ j > u.running[i] => u.spans[j].parent >= u.running[i]
    BY DEF IsChain
  <2>1. i \in 1 .. h /\ i \in DOMAIN t.running /\ j \in DOMAIN t.spans
    BY <1>1, <1>3
  <2>2. i > 1 => i - 1 \in 1 .. h
    BY <1>3, <2>1
  <2>3. u.running[i] = t.running[i] /\ (i > 1 => u.running[i - 1] = t.running[i - 1])
    BY <1>1, <2>1, <2>2
  <2>4. /\ j = t.running[i] /\ i > 1 => t.spans[j].parent = t.running[i - 1]
        /\ j > t.running[i] => t.spans[j].parent >= t.running[i]
    BY <1>3, <2>1 DEF IsChain
  <2>5. u.spans[j].parent = t.spans[j].parent
    BY <1>2, <2>1
  <2> QED BY <2>3, <2>4, <2>5
<1>9. Sound(u)
  BY <1>1, <1>6, <1>7, <1>8 DEF Sound
<1>10. (Normal(t) /\ status \in Ends) => Normal(u)
  BY <1>1, <1>2 DEF Normal
<1>11. ASSUME NEW i \in LeftOpen(u)
       PROVE  i \in LeftOpen(t)
  <2>1. i \in DOMAIN t.spans /\ u.spans[i].status = "open" /\ \A j \in 1 .. h : t.running[j] # i
    BY <1>1, <1>11 DEF LeftOpen
  <2>2. i \notin Upper(t, h) /\ t.spans[i].status = "open"
    BY <1>2, <2>1
  <2>3. ASSUME NEW j \in DOMAIN t.running PROVE t.running[j] # i
    <3>1. j \in 1 .. h \/ j \in h + 1 .. k
      BY <1>3
    <3> QED BY <1>4, <2>1, <2>2, <3>1
  <2> QED BY <2>1, <2>2, <2>3 DEF LeftOpen
<1>12. ASSUME NEW i \in LeftOpen(t), MayBeLeft(t, i)
       PROVE  /\ MayBeLeft(u, i) /\ t.spans[i].parent \in DOMAIN t.spans
              /\ u.spans[i].parent = t.spans[i].parent
  <2>1. i \in DOMAIN t.spans /\ i > 1
    BY <1>12 DEF LeftOpen, MayBeLeft
  <2>2. Len(t.spans) \in Nat /\ DOMAIN t.spans = 1 .. Len(t.spans)
    BY <1>3, TraceParts
  <2>3. t.spans[i].parent \in 1 .. i - 1
    BY <1>3, <2>1 DEF IsTree
  <2>4. t.spans[i].parent \in DOMAIN t.spans
    BY <2>1, <2>2, <2>3
  <2> QED BY <1>2, <1>12, <2>1, <2>4 DEF MayBeLeft
<1>13. ASSUME Settled(t) PROVE Settled(u)
  <2> SUFFICES ASSUME NEW i \in LeftOpen(u)
               PROVE  MayBeLeft(u, i) /\ u.spans[u.spans[i].parent].status = "failed"
    BY DEF Settled
  <2>1. i \in LeftOpen(t) /\ MayBeLeft(t, i) /\ t.spans[t.spans[i].parent].status = "failed"
    BY <1>11, <1>13 DEF Settled
  <2>2. /\ MayBeLeft(u, i) /\ t.spans[i].parent \in DOMAIN t.spans
        /\ u.spans[i].parent = t.spans[i].parent
    BY <1>12, <2>1
  <2> QED BY <1>2, <2>1, <2>2
<1>14. ASSUME Pending(t), status = "failed", h < k PROVE Settled(u)
  <2> SUFFICES ASSUME NEW i \in LeftOpen(u)
               PROVE  MayBeLeft(u, i) /\ u.spans[u.spans[i].parent].status = "failed"
    BY DEF Settled
  <2>1. /\ i \in LeftOpen(t) /\ MayBeLeft(t, i)
        /\ \/ t.spans[t.spans[i].parent].status = "failed"
           \/ t.running # <<>> /\ t.spans[i].parent = Last(t.running)
    BY <1>11, <1>14 DEF Pending
  <2>2. /\ MayBeLeft(u, i) /\ t.spans[i].parent \in DOMAIN t.spans
        /\ u.spans[i].parent = t.spans[i].parent
    BY <1>12, <2>1
  <2>3. CASE t.spans[t.spans[i].parent].status = "failed"
    BY <1>2, <2>2, <2>3
  <2>4. CASE t.spans[i].parent = Last(t.running)
    <3>1. t.spans[i].parent = t.running[k] /\ k \in h + 1 .. k /\ k \in DOMAIN t.running
      BY <1>3, <1>14, <2>4 DEF Last, k
    <3>2. t.spans[t.spans[i].parent].status = "open"
      BY <1>3, <2>2, <3>1 DEF IsStack
    <3>3. t.spans[i].parent \in Upper(t, h)
      BY <1>4, <3>1
    <3> QED BY <1>2, <1>14, <2>2, <3>2, <3>3
  <2> QED BY <2>1, <2>3, <2>4
<1> QED BY <1>9, <1>10, <1>11, <1>13, <1>14 DEF u, k

-----------------------------------------------------------------------------
(* What an event does.                                                     *)

LEMMA CompleteCloses ==
    ASSUME NEW t, Sound(t), t.running # <<>>, NEW status
    PROVE  /\ Len(t.running) - 1 \in 0 .. Len(t.running)
           /\ Apply(t, Complete(status)) = Closed(t, Len(t.running) - 1, status)
<1> DEFINE k == Len(t.running)
<1>1. t \in TraceType /\ t.running \in Seq(Nat) /\ k \in Nat /\ k # 0
  BY TraceParts DEF Sound
<1>2. Apply(t, Complete(status))
          = [CompleteSpans(t, {Last(t.running)}, status) EXCEPT !.running = Front(@)]
  BY Applies DEF Complete, AppliedTo
<1>3. CompleteSpans(t, {Last(t.running)}, status).running = t.running
  BY <1>1 DEF CompleteSpans, TraceType
<1>4. Front(t.running) = SubSeq(t.running, 1, k - 1)
  BY DEF Front
<1>5. Upper(t, k - 1) = {Last(t.running)}
  <2>1. (k - 1) + 1 .. k = {k}
    BY <1>1
  <2>2. Upper(t, k - 1) = {t.running[j] : j \in {k}}
    BY <2>1 DEF Upper
  <2> QED BY <2>2 DEF Last
<1> HIDE DEF k
<1>6. Closed(t, k - 1, status)
          = [CompleteSpans(t, {Last(t.running)}, status)
                 EXCEPT !.running = SubSeq(t.running, 1, k - 1)]
  BY <1>5 DEF Closed
<1> DEFINE c == CompleteSpans(t, {Last(t.running)}, status)
<1>8. c.running = t.running /\ Apply(t, Complete(status)) = [c EXCEPT !.running = Front(@)]
      /\ Closed(t, k - 1, status) = [c EXCEPT !.running = SubSeq(t.running, 1, k - 1)]
  BY <1>2, <1>3, <1>6
<1> HIDE DEF c
<1>7. Apply(t, Complete(status)) = Closed(t, k - 1, status)
  BY <1>4, <1>8
<1> QED BY <1>1, <1>7 DEF k

LEMMA CompleteAllCloses ==
    ASSUME NEW t, Sound(t), t.running # <<>>, NEW status
    PROVE  /\ 1 \in 0 .. Len(t.running)
           /\ Apply(t, CompleteAll(status)) = Closed(t, 1, status)
<1> DEFINE k == Len(t.running)
<1>1. t \in TraceType /\ t.running \in Seq(Nat) /\ k \in Nat /\ k # 0
  BY TraceParts DEF Sound
<1>2. Apply(t, CompleteAll(status))
          = [CompleteSpans(t, Range(Tail(t.running)), status) EXCEPT !.running = <<Head(@)>>]
  <2>1. Apply(t, CompleteAll(status)) = AppliedTo(t, "complete_all", status)
    BY Applies DEF CompleteAll
  <2>2. AppliedTo(t, "complete_all", status)
            = [CompleteSpans(t, Range(Tail(t.running)), status) EXCEPT !.running = <<Head(@)>>]
    BY DEF AppliedTo
  <2> QED BY <2>1, <2>2
<1>3. CompleteSpans(t, Range(Tail(t.running)), status).running = t.running
  BY <1>1 DEF CompleteSpans, TraceType
<1>4. <<Head(t.running)>> = SubSeq(t.running, 1, 1)
  <2>1. /\ SubSeq(t.running, 1, 1) \in Seq(Nat) /\ Len(SubSeq(t.running, 1, 1)) = 1
        /\ SubSeq(t.running, 1, 1)[1] = t.running[1] /\ Head(t.running) = t.running[1]
    <3>1. 1 \in 0 .. Len(t.running) /\ 1 \in 1 .. 1
      BY <1>1
    <3>2. Head(t.running) = t.running[1]
      BY <1>1
    <3> QED BY <1>1, <3>1, <3>2, Shortened
  <2> QED BY <1>1, <2>1
<1>5. Upper(t, 1) = Range(Tail(t.running))
  <2>1. /\ DOMAIN Tail(t.running) = 1 .. k - 1
        /\ \A i \in 1 .. k - 1 : Tail(t.running)[i] = t.running[i + 1]
    BY <1>1
  <2>2. ASSUME NEW x \in Upper(t, 1) PROVE x \in Range(Tail(t.running))
    <3>1. PICK j \in 1 + 1 .. k : x = t.running[j]
      BY <2>2 DEF Upper
    <3>2. j - 1 \in 1 .. k - 1 /\ (j - 1) + 1 = j
      BY <1>1
    <3>3. x = Tail(t.running)[j - 1]
      BY <2>1, <3>1, <3>2
    <3> QED BY <2>1, <3>2, <3>3 DEF Range
  <2>3. ASSUME NEW x \in Range(Tail(t.running)) PROVE x \in Upper(t, 1)
    <3>1. PICK i \in 1 .. k - 1 : x = Tail(t.running)[i]
      BY <2>1, <2>3 DEF Range
    <3>2. i + 1 \in 1 + 1 .. k /\ x = t.running[i + 1]
      BY <1>1, <2>1, <3>1
    <3> QED BY <3>2 DEF Upper
  <2> QED BY <2>2, <2>3
<1> DEFINE c == CompleteSpans(t, Upper(t, 1), status)
<1>6. /\ c.running = t.running /\ Apply(t, CompleteAll(status)) = [c EXCEPT !.running = <<Head(@)>>]
      /\ Closed(t, 1, status) = [c EXCEPT !.running = SubSeq(t.running, 1, 1)]
  BY <1>2, <1>3, <1>5 DEF Closed
<1> HIDE DEF c
<1> QED BY <1>1, <1>4, <1>6

(* A trace in which all is well, and what events do to it: they take it    *)
(* d seams deeper, by at most n spans, and leave none of them open, or     *)
(* some.                                                                   *)
IsWell(t) == Sound(t) /\ Normal(t) /\ Settled(t) /\ Len(t.running) > 0

Leads(t, u, d, n, leaves) ==
    /\ IsWell(u)
    /\ Len(u.running) = Len(t.running) + d
    /\ u.limit = t.limit
    /\ u.started <= t.started + n
    /\ leaves = "none" => LeftOpen(u) \subseteq LeftOpen(t)

Events == {"start", "complete", "leave", "complete_all", "cancel_active", "finalize"}
              \X (Operations \cup Statuses)

Plays(events, d, n, leaves) ==
    /\ events \in Seq(Events) /\ d \in Int /\ n \in Nat
    /\ \A t : IsWell(t) /\ Len(t.running) + d > 0
                => Leads(t, Played(t, events), d, n, leaves)

(* A trace that is well has numbers.                                       *)
LEMMA WellParts ==
    ASSUME NEW t, IsWell(t)
    PROVE  /\ t \in TraceType /\ Len(t.running) \in Nat \ {0} /\ t.running # <<>>
           /\ t.started \in Nat /\ t.limit \in Nat
<1>1. t \in TraceType
  BY DEF IsWell, Sound
<1>2. Len(t.running) \in Nat /\ Len(t.running) > 0
  BY <1>1, TraceParts DEF IsWell
<1>3. t.running # <<>>
  BY <1>2
<1> QED BY <1>1, <1>2, <1>3, TraceParts

LEMMA NothingPlays == Plays(<<>>, 0, 0, "none")
<1>1. <<>> \in Seq(Events) /\ 0 \in Int /\ 0 \in Nat
  OBVIOUS
<1> SUFFICES ASSUME NEW t, IsWell(t) PROVE Leads(t, Played(t, <<>>), 0, 0, "none")
  BY <1>1 DEF Plays
<1> QED BY PlayedNone, WellParts DEF Leads

LEMMA PlaysMore ==
    ASSUME NEW events, NEW d, NEW n, NEW l, Plays(events, d, n, l),
           NEW m \in Nat, n <= m, NEW leaves, leaves = "none" => l = "none"
    PROVE  Plays(events, d, m, leaves)
<1>1. events \in Seq(Events) /\ d \in Int /\ n \in Nat
  BY DEF Plays
<1> SUFFICES ASSUME NEW t, IsWell(t), Len(t.running) + d > 0
             PROVE  Leads(t, Played(t, events), d, m, leaves)
  BY <1>1 DEF Plays
<1> DEFINE u == Played(t, events)
<1>2. Leads(t, u, d, n, l)
  BY DEF Plays
<1> HIDE DEF u
<1>3. IsWell(u)
  BY <1>2 DEF Leads
<1>4. u.started \in Nat /\ t.started \in Nat
  BY <1>3, WellParts
<1>5. u.started <= t.started + m
  BY <1>1, <1>2, <1>4 DEF Leads
<1> QED BY <1>2, <1>5 DEF Leads, u

LEMMA PlaysTogether ==
    ASSUME NEW a, NEW b, NEW d, NEW e, NEW n, NEW m, NEW l, NEW r,
           Plays(a, d, n, l), Plays(b, e, m, r), d >= 0 \/ e <= 0,
           NEW f, f = d + e, NEW q, q = n + m,
           NEW leaves, leaves = "none" => l = "none" /\ r = "none"
    PROVE  Plays(a \o b, f, q, leaves)
<1>1. /\ a \in Seq(Events) /\ b \in Seq(Events) /\ a \o b \in Seq(Events)
      /\ d \in Int /\ e \in Int /\ n \in Nat /\ m \in Nat /\ f \in Int /\ q \in Nat
  BY DEF Plays
<1> SUFFICES ASSUME NEW t, IsWell(t), Len(t.running) + f > 0
             PROVE  Leads(t, Played(t, a \o b), f, q, leaves)
  BY <1>1 DEF Plays
<1> DEFINE u == Played(t, a)
<1> DEFINE v == Played(u, b)
<1> DEFINE k == Len(t.running)
<1> DEFINE s == t.started
<1>2. Played(t, a \o b) = v
  BY <1>1, PlayedTogether
<1>3. k \in Nat \ {0} /\ s \in Nat /\ k + f > 0
  BY WellParts
<1>4. k + d > 0
  <2> HIDE DEF k, s
  <2> QED BY <1>1, <1>3
<1>5. Leads(t, u, d, n, l)
  BY <1>4 DEF Plays
<1> HIDE DEF u
<1>6. IsWell(u) /\ Len(u.running) = k + d /\ u.started <= s + n
  BY <1>5 DEF Leads
<1>7. Len(u.running) + e > 0
  <2> HIDE DEF k, s
  <2>1. (k + d) + e > 0
    BY <1>1, <1>3
  <2> QED BY <1>6, <2>1
<1>8. Leads(u, v, e, m, r)
  BY <1>6, <1>7 DEF Plays
<1> HIDE DEF v
<1>9. IsWell(v) /\ u.started \in Nat /\ v.started \in Nat
  BY <1>6, <1>8, WellParts DEF Leads
<1>a. Len(v.running) = Len(u.running) + e /\ v.started <= u.started + m
  BY <1>8 DEF Leads
<1>10. Len(v.running) = Len(t.running) + f
  <2>1. (k + d) + e = k + f
    <3> HIDE DEF k, s
    <3> QED BY <1>1, <1>3
  <2> QED BY <1>6, <1>a, <2>1
<1>11. v.started <= t.started + q
  <2> HIDE DEF k, s
  <2>1. v.started <= s + q
    BY <1>1, <1>3, <1>6, <1>9, <1>a
  <2> QED BY <2>1 DEF s
<1>12. v.limit = t.limit
  BY <1>5, <1>8 DEF Leads
<1>13. leaves = "none" => LeftOpen(v) \subseteq LeftOpen(t)
  BY <1>5, <1>8 DEF Leads
<1> QED BY <1>2, <1>9, <1>10, <1>11, <1>12, <1>13 DEF Leads

(* The seam that runs is one of these.                                     *)
Runs(t, operations) ==
    Last(t.running) \in DOMAIN t.spans => t.spans[Last(t.running)].operation \in operations

LEMMA StartingIsWell ==
    ASSUME NEW t, IsWell(t), NEW operation \in Operations
    PROVE  LET u == Apply(t, Start(operation))
           IN  /\ Leads(t, u, 1, 1, "none")
               /\ Runs(u, {operation})
               /\ u.active = Last(u.running)
               /\ Last(u.running) # 1
               /\ u.running = Append(t.running, Last(u.running))
               /\ \A i \in DOMAIN t.spans : i \in DOMAIN u.spans /\ u.spans[i] = t.spans[i]
               /\ Last(u.running) \in DOMAIN u.spans => Last(t.running) \in DOMAIN t.spans
<1> DEFINE u == Apply(t, Start(operation))
<1>1. u = StartSpan(t, operation)
  BY Applies DEF Start, AppliedTo
<1>2. Sound(t) /\ Normal(t) /\ Settled(t) /\ t.running # <<>> /\ t \in TraceType
  BY WellParts DEF IsWell
<1>3. /\ u \in TraceType /\ u.limit = t.limit
      /\ u.started = t.started + 1 /\ u.active = t.started + 1
      /\ u.running = Append(t.running, t.started + 1)
      /\ IF t.started < t.limit
         THEN u.spans = Append(t.spans, NewSpan(t, operation)) /\ u.dropped = t.dropped
         ELSE u.spans = t.spans /\ u.dropped = t.dropped \cup {t.started + 1}
  BY <1>1, <1>2, StartedTrace
<1>4. /\ Sound(u) /\ Normal(u) /\ LeftOpen(u) = LeftOpen(t)
      /\ \A i \in DOMAIN t.spans : u.spans[i] = t.spans[i]
      /\ u.active \in DOMAIN u.spans => u.spans[u.active].operation = operation
  BY <1>1, <1>2, StartKeeps
<1> HIDE DEF u
<1>5. /\ Len(t.running) \in Nat /\ t.running \in Seq(Nat) /\ t.started \in Nat \ {0}
      /\ t.limit \in Nat /\ t.spans \in Seq(Span) /\ Len(t.spans) \in Nat
      /\ DOMAIN t.spans = 1 .. Len(t.spans) /\ DOMAIN t.running = 1 .. Len(t.running)
      /\ DOMAIN u.spans = 1 .. Len(u.spans)
  BY <1>2, <1>3, TraceParts
<1>6. Len(u.running) = Len(t.running) + 1 /\ Last(u.running) = t.started + 1
  <2>1. t.started + 1 \in Nat
    BY <1>5
  <2>2. /\ Len(Append(t.running, t.started + 1)) = Len(t.running) + 1
        /\ Append(t.running, t.started + 1)[Len(t.running) + 1] = t.started + 1
    BY <1>5, <2>1, Appended
  <2> QED BY <1>3, <2>2 DEF Last
<1>7. Len(t.spans) = IF t.started < t.limit THEN t.started ELSE t.limit
  BY <1>2 DEF Sound, IsTree
<1>e. Len(u.spans) = IF t.started + 1 < t.limit THEN t.started + 1 ELSE t.limit
  BY <1>3, <1>4 DEF Sound, IsTree
<1>8. \A i \in DOMAIN t.spans : i \in DOMAIN u.spans
  <2>1. Len(t.spans) <= Len(u.spans)
    BY <1>5, <1>7, <1>e
  <2> QED BY <1>5, <2>1
<1>9. Settled(u)
  <2> SUFFICES ASSUME NEW i \in LeftOpen(u)
               PROVE  MayBeLeft(u, i) /\ u.spans[u.spans[i].parent].status = "failed"
    BY DEF Settled
  <2>1. /\ i \in LeftOpen(t) /\ MayBeLeft(t, i) /\ t.spans[t.spans[i].parent].status = "failed"
    BY <1>2, <1>4 DEF Settled
  <2>2. i \in DOMAIN t.spans /\ i > 1
    BY <2>1 DEF LeftOpen, MayBeLeft
  <2>3. t.spans[i].parent \in 1 .. i - 1
    BY <1>2, <2>2 DEF Sound, IsTree
  <2>4. t.spans[i].parent \in DOMAIN t.spans
    BY <1>5, <2>2, <2>3
  <2>5. u.spans[i] = t.spans[i] /\ u.spans[t.spans[i].parent] = t.spans[t.spans[i].parent]
    BY <1>4, <2>2, <2>4
  <2> QED BY <2>1, <2>5 DEF MayBeLeft
<1>10. Len(u.running) > 0 /\ u.started <= t.started + 1
  BY <1>3, <1>5, <1>6
<1>11. Leads(t, u, 1, 1, "none")
  BY <1>3, <1>4, <1>6, <1>9, <1>10 DEF Leads, IsWell
<1>12. Last(u.running) \in DOMAIN u.spans => Last(t.running) \in DOMAIN t.spans
  <2> SUFFICES ASSUME t.started + 1 \in DOMAIN u.spans PROVE Last(t.running) \in DOMAIN t.spans
    BY <1>6
  <2>1. t.started \in DOMAIN t.spans /\ Len(t.spans) = t.started
    BY <1>5, <1>7, <1>e
  <2>2. Last(t.running) \in 1 .. t.started
    BY <1>2, ParentIsKnown DEF Last
  <2> QED BY <1>5, <2>1, <2>2
<1>13. t.started + 1 # 1
  BY <1>5
<1> QED BY <1>3, <1>4, <1>6, <1>8, <1>11, <1>12, <1>13 DEF Runs, u

LEMMA StartPlays ==
    ASSUME NEW operation \in Operations
    PROVE  Plays(<<Start(operation)>>, 1, 1, "none")
<1>1. <<Start(operation)>> \in Seq(Events) /\ 1 \in Int /\ 1 \in Nat
  <2>1. Start(operation) \in Events
    BY DEF Start, Events
  <2> QED BY <2>1
<1> SUFFICES ASSUME NEW t, IsWell(t)
             PROVE  Leads(t, Played(t, <<Start(operation)>>), 1, 1, "none")
  BY <1>1 DEF Plays
<1>2. Leads(t, Apply(t, Start(operation)), 1, 1, "none")
  BY StartingIsWell
<1> QED BY <1>2, PlayedOne

(* The seam that runs ends, and so do all above the first h.               *)
LEMMA ClosingIsWell ==
    ASSUME NEW t, Sound(t), Normal(t), NEW h \in Nat, 0 < h, h < Len(t.running),
           NEW status \in Ends,
           Settled(t) \/ (Pending(t) /\ status = "failed")
    PROVE  LET u == Closed(t, h, status)
           IN  /\ IsWell(u) /\ Len(u.running) = h /\ u.limit = t.limit /\ u.started = t.started
               /\ LeftOpen(u) \subseteq LeftOpen(t)
<1> DEFINE u == Closed(t, h, status)
<1>1. t \in TraceType /\ Len(t.running) \in Nat
  BY TraceParts DEF Sound
<1>2. h \in 0 .. Len(t.running) /\ status \in Statuses \ {"open"}
  BY <1>1 DEF Statuses, Ends
<1>3. Len(u.running) = h /\ u.limit = t.limit /\ u.started = t.started
  BY <1>2, ClosedTrace DEF Ends
<1>4. /\ Sound(u) /\ Normal(u) /\ LeftOpen(u) \subseteq LeftOpen(t) /\ Settled(u)
  BY <1>2, ClosingKeeps
<1> QED BY <1>3, <1>4 DEF IsWell

LEMMA CompletingIsWell ==
    ASSUME NEW t, Sound(t), Normal(t), Len(t.running) > 1, NEW status \in Ends,
           Settled(t) \/ (Pending(t) /\ status = "failed")
    PROVE  Leads(t, Apply(t, Complete(status)), -1, 0, "none")
<1> DEFINE u == Apply(t, Complete(status))
<1> DEFINE h == Len(t.running) - 1
<1>1. t \in TraceType /\ Len(t.running) \in Nat /\ t.running # <<>>
  <2>1. t \in TraceType /\ Len(t.running) \in Nat
    BY TraceParts DEF Sound
  <2> QED BY <2>1
<1>2. u = Closed(t, h, status)
  BY <1>1, CompleteCloses
<1>3. h \in Nat /\ 0 < h /\ h < Len(t.running) /\ h = Len(t.running) + (-1) /\ t.started \in Nat
  BY <1>1, TraceParts
<1> HIDE DEF u, h
<1>4. /\ IsWell(u) /\ Len(u.running) = h /\ u.limit = t.limit /\ u.started = t.started
      /\ LeftOpen(u) \subseteq LeftOpen(t)
  BY <1>2, <1>3, ClosingIsWell
<1>5. u.started <= t.started + 0
  BY <1>3, <1>4
<1> QED BY <1>3, <1>4, <1>5 DEF Leads, u

LEMMA CompletePlays ==
    ASSUME NEW status \in Ends
    PROVE  Plays(<<Complete(status)>>, -1, 0, "none")
<1>1. <<Complete(status)>> \in Seq(Events) /\ -1 \in Int /\ 0 \in Nat
  <2>1. Complete(status) \in Events
    BY DEF Complete, Events, Statuses, Ends
  <2> QED BY <2>1
<1> SUFFICES ASSUME NEW t, IsWell(t), Len(t.running) + (-1) > 0
             PROVE  Leads(t, Played(t, <<Complete(status)>>), -1, 0, "none")
  BY <1>1 DEF Plays
<1>2. Len(t.running) > 1
  BY WellParts
<1>3. Sound(t) /\ Normal(t) /\ Settled(t)
  BY DEF IsWell
<1> QED BY <1>2, <1>3, CompletingIsWell, PlayedOne

LEMMA SeamPlays ==
    ASSUME NEW operation \in Operations, NEW inner, NEW status \in Ends, NEW n, NEW leaves,
           Plays(inner, 0, n, leaves)
    PROVE  Plays(Seam(operation, inner, status), 0, n + 1, leaves)
<1>1. Plays(<<Start(operation)>>, 1, 1, "none") /\ Plays(<<Complete(status)>>, -1, 0, "none")
  BY StartPlays, CompletePlays
<1>2. n \in Nat /\ 1 = 1 + 0 /\ 0 = 1 + (-1) /\ n + 1 = 1 + n /\ n + 1 = (n + 1) + 0 /\ 1 >= 0
  BY DEF Plays
<1>3. Plays(<<Start(operation)>> \o inner, 1, n + 1, leaves)
  BY <1>1, <1>2, PlaysTogether, Zenon
<1>4. Plays((<<Start(operation)>> \o inner) \o <<Complete(status)>>, 0, n + 1, leaves)
  BY <1>1, <1>2, <1>3, PlaysTogether, Zenon
<1>5. Seam(operation, inner, status) = (<<Start(operation)>> \o inner) \o <<Complete(status)>>
  BY DEF Seam
<1> QED BY <1>4, <1>5

-----------------------------------------------------------------------------
(* Seams that leave their span open.                                       *)

IsPending(t, u, n) ==
    /\ Sound(u) /\ Normal(u) /\ Pending(u)
    /\ Len(u.running) = Len(t.running)
    /\ u.limit = t.limit
    /\ u.started <= t.started + n

LEMMA LeavingTrace ==
    ASSUME NEW t, Sound(t), Len(t.running) > 1
    PROVE  LET u == Apply(t, Leave)
           IN  /\ Sound(u) /\ u.limit = t.limit /\ u.started = t.started /\ u.spans = t.spans
               /\ Len(u.running) = Len(t.running) - 1
               /\ \A i \in 1 .. Len(t.running) - 1 : u.running[i] = t.running[i]
<1> DEFINE u == Apply(t, Leave)
<1> DEFINE k == Len(t.running)
<1> DEFINE running == SubSeq(t.running, 1, k - 1)
<1>1. /\ t \in TraceType /\ ~t.refused /\ t.running \in Seq(Nat) /\ k \in Nat /\ k > 1
      /\ DOMAIN t.running = 1 .. k
  BY TraceParts DEF Sound
<1>2. u = [t EXCEPT !.running = running]
  BY Applies DEF Leave, AppliedTo, Front
<1>3. /\ running \in Seq(Nat) /\ Len(running) = k - 1 /\ DOMAIN running = 1 .. k - 1
      /\ \A i \in 1 .. k - 1 : running[i] = t.running[i]
  <2>1. k - 1 \in 0 .. Len(t.running)
    BY <1>1
  <2> QED BY <1>1, <2>1, Shortened
<1> HIDE DEF u, running, k
<1>4. /\ u \in TraceType /\ u.running = running /\ u.limit = t.limit /\ u.started = t.started
      /\ u.refused = t.refused /\ u.spans = t.spans /\ u.dropped = t.dropped
  BY <1>1, <1>2, <1>3 DEF TraceType
<1>5. IsTree(u)
  BY <1>4 DEF Sound, IsTree
<1>6. \A i \in 1 .. k - 1 : i \in DOMAIN t.running /\ u.running[i] = t.running[i]
  BY <1>1, <1>3, <1>4
<1>7. DOMAIN u.running = 1 .. k - 1 /\ 1 \in 1 .. k - 1
  BY <1>1, <1>3, <1>4
<1>8. IsStack(u)
  <2>1. u.running[1] = 1
    <3>1. t.running # <<>>
      BY <1>1, <1>6, <1>7
    <3> QED BY <1>6, <1>7, <3>1 DEF Sound, IsStack
  <2>2. \A i, j \in DOMAIN u.running : i < j => u.running[i] < u.running[j]
    BY <1>6, <1>7 DEF Sound, IsStack
  <2>3. \A i \in DOMAIN u.running :
          /\ u.running[i] \in 1 .. u.started
          /\ u.running[i] \in DOMAIN u.spans \/ u.running[i] \in u.dropped
          /\ u.running[i] \in DOMAIN u.spans => u.spans[u.running[i]].status = "open"
    BY <1>4, <1>6, <1>7 DEF Sound, IsStack
  <2> QED BY <2>1, <2>2, <2>3 DEF IsStack
<1>9. IsChain(u)
  <2> SUFFICES ASSUME NEW i \in DOMAIN u.running, NEW j \in DOMAIN u.spans
               PROVE  /\ j = u.running[i] /\ i > 1 => u.spans[j].parent = u.running[i - 1]
                      /\ j > u.running[i] => u.spans[j].parent >= u.running[i]
    BY DEF IsChain
  <2>1. i > 1 => i - 1 \in 1 .. k - 1
    BY <1>1, <1>7
  <2>2. /\ j = t.running[i] /\ i > 1 => t.spans[j].parent = t.running[i - 1]
        /\ j > t.running[i] => t.spans[j].parent >= t.running[i]
    BY <1>4, <1>6, <1>7 DEF Sound, IsChain
  <2> QED BY <1>4, <1>6, <1>7, <2>1, <2>2
<1>10. Sound(u)
  BY <1>1, <1>4, <1>5, <1>8, <1>9 DEF Sound
<1> QED BY <1>3, <1>4, <1>6, <1>10 DEF u, k

LEMMA LeavingIsPending ==
    ASSUME NEW t, IsWell(t), Len(t.running) > 1,
           Last(t.running) \in DOMAIN t.spans => MayBeLeft(t, Last(t.running))
    PROVE  LET u == Apply(t, Leave)
           IN  /\ Sound(u) /\ Normal(u) /\ Pending(u)
               /\ Len(u.running) = Len(t.running) - 1
               /\ u.limit = t.limit
               /\ u.started = t.started
<1> DEFINE u == Apply(t, Leave)
<1> DEFINE k == Len(t.running)
<1>1. /\ Sound(u) /\ u.limit = t.limit /\ u.started = t.started /\ u.spans = t.spans
      /\ Len(u.running) = k - 1 /\ \A i \in 1 .. k - 1 : u.running[i] = t.running[i]
  BY LeavingTrace DEF IsWell
<1>2. Sound(t) /\ Normal(t) /\ Settled(t) /\ Last(t.running) = t.running[k]
  BY DEF IsWell, Last
<1>3. k \in Nat /\ k > 1 /\ DOMAIN t.running = 1 .. k /\ k \in 1 .. k /\ k - 1 \in 1 .. k - 1
  <2>1. k \in Nat /\ k > 1 /\ DOMAIN t.running = 1 .. k
    BY WellParts, TraceParts
  <2> HIDE DEF k
  <2> QED BY <2>1
<1> HIDE DEF u, k
<1>4. Normal(u)
  BY <1>1, <1>2 DEF Normal
<1>5. DOMAIN u.running = 1 .. k - 1 /\ u.running # <<>> /\ Last(u.running) = t.running[k - 1]
  <2>1. u \in TraceType
    BY <1>1 DEF Sound
  <2>2. DOMAIN u.running = 1 .. k - 1
    BY <1>1, <2>1, TraceParts
  <2>3. u.running # <<>>
    BY <1>3, <2>2
  <2> QED BY <1>1, <1>3, <2>2, <2>3 DEF Last
<1>6. Pending(u)
  <2> SUFFICES ASSUME NEW i \in LeftOpen(u)
               PROVE  /\ MayBeLeft(u, i)
                      /\ \/ u.spans[u.spans[i].parent].status = "failed"
                         \/ u.running # <<>> /\ u.spans[i].parent = Last(u.running)
    BY DEF Pending
  <2>1. i \in DOMAIN t.spans /\ t.spans[i].status = "open" /\ \A j \in 1 .. k - 1 : t.running[j] # i
    BY <1>1, <1>5 DEF LeftOpen
  <2>2. CASE i = t.running[k]
    <3>1. MayBeLeft(t, i)
      BY <1>2, <2>1, <2>2
    <3>2. t.spans[i].parent = t.running[k - 1]
      BY <1>2, <1>3, <2>1, <2>2 DEF Sound, IsChain
    <3> QED BY <1>1, <1>5, <3>1, <3>2 DEF MayBeLeft
  <2>3. CASE i # t.running[k]
    <3>1. ASSUME NEW j \in DOMAIN t.running PROVE t.running[j] # i
      <4>1. j \in 1 .. k - 1 \/ j = k
        BY <1>3
      <4> QED BY <2>1, <2>3, <4>1
    <3>2. i \in LeftOpen(t)
      BY <2>1, <3>1 DEF LeftOpen
    <3>3. MayBeLeft(t, i) /\ t.spans[t.spans[i].parent].status = "failed"
      BY <1>2, <3>2 DEF Settled
    <3> QED BY <1>1, <3>3 DEF MayBeLeft
  <2> QED BY <2>2, <2>3
<1> QED BY <1>1, <1>4, <1>6 DEF u, k

(* A provider call that no listed exception ended.                         *)
Unlisted == <<Start("provider"), Leave>>

LEMMA EventsAreEvents ==
    /\ \A operation \in Operations : Start(operation) \in Events
    /\ \A status \in Statuses : Complete(status) \in Events
    /\ Leave \in Events
BY DEF Events, Start, Complete, Leave, Statuses

LEMMA ProviderLeft ==
    ASSUME NEW t, IsWell(t), Runs(t, {"routing", "tool_execution", "evidence_selection"})
    PROVE  IsPending(t, Played(t, Unlisted), 1)
<1> DEFINE v == Apply(t, Start("provider"))
<1> DEFINE u == Apply(v, Leave)
<1>1. "provider" \in Operations
  BY DEF Operations
<1>2. Played(t, Unlisted) = u
  <2> DEFINE a == <<Start("provider")>>
  <2> DEFINE b == <<Leave>>
  <2>1. Unlisted = a \o b
    BY DEF Unlisted
  <2>2. a \in Seq(Events) /\ b \in Seq(Events)
    BY <1>1, EventsAreEvents
  <2> HIDE DEF a, b
  <2>3. Played(t, a \o b) = Played(Played(t, a), b)
    BY <2>2, PlayedTogether
  <2>4. Played(t, a) = v
    BY PlayedOne DEF a
  <2>5. Played(v, b) = u
    BY PlayedOne DEF b
  <2> QED BY <2>1, <2>3, <2>4, <2>5
<1>3. /\ Leads(t, v, 1, 1, "none") /\ Runs(v, {"provider"}) /\ Last(v.running) # 1
      /\ v.running = Append(t.running, Last(v.running))
      /\ \A i \in DOMAIN t.spans : i \in DOMAIN v.spans /\ v.spans[i] = t.spans[i]
      /\ Last(v.running) \in DOMAIN v.spans => Last(t.running) \in DOMAIN t.spans
  BY <1>1, StartingIsWell
<1> HIDE DEF v
<1>4. /\ IsWell(v) /\ Len(v.running) = Len(t.running) + 1 /\ v.limit = t.limit
      /\ v.started <= t.started + 1
  BY <1>3 DEF Leads
<1>5. /\ Len(t.running) \in Nat \ {0} /\ Len(v.running) > 1 /\ t.running \in Seq(Nat)
      /\ Len(v.running) \in DOMAIN v.running /\ Last(v.running) \in Nat
  BY <1>4, WellParts, TraceParts DEF Last
<1>6. Last(v.running) \in DOMAIN v.spans => MayBeLeft(v, Last(v.running))
  <2> SUFFICES ASSUME Last(v.running) \in DOMAIN v.spans PROVE MayBeLeft(v, Last(v.running))
    OBVIOUS
  <2>1. v.spans[Last(v.running)].operation = "provider"
    BY <1>3 DEF Runs
  <2>2. Last(v.running) > 1
    <3>1. DOMAIN v.spans = 1 .. Len(v.spans) /\ Len(v.spans) \in Nat
      BY <1>4, WellParts, TraceParts
    <3> QED BY <1>3, <1>5, <3>1
  <2>3. v.spans[Last(v.running)].parent = v.running[Len(v.running) - 1]
    <3>1. Last(v.running) = v.running[Len(v.running)]
      BY DEF Last
    <3>2. IsChain(v)
      BY <1>4 DEF IsWell, Sound
    <3> QED BY <1>5, <3>1, <3>2 DEF IsChain
  <2>4. v.running[Len(v.running) - 1] = Last(t.running)
    <3>1. Len(v.running) - 1 = Len(t.running) /\ Len(t.running) \in 1 .. Len(t.running)
      BY <1>4, <1>5
    <3>2. v.running[Len(t.running)] = t.running[Len(t.running)]
      <4> DEFINE w == Last(v.running)
      <4>1. v.running = Append(t.running, w) /\ w \in Nat
        BY <1>3, <1>5
      <4> HIDE DEF w
      <4>2. \A i \in 1 .. Len(t.running) : Append(t.running, w)[i] = t.running[i]
        BY <1>5, <4>1, Appended
      <4> QED BY <3>1, <4>1, <4>2
    <3> QED BY <3>1, <3>2 DEF Last
  <2>5. /\ Last(t.running) \in DOMAIN t.spans
        /\ v.spans[Last(t.running)] = t.spans[Last(t.running)]
    BY <1>3, Zenon
  <2>6. t.spans[Last(t.running)].operation \in {"routing", "tool_execution", "evidence_selection"}
    BY <2>5 DEF Runs
  <2> QED BY <2>1, <2>2, <2>3, <2>4, <2>5, <2>6 DEF MayBeLeft
<1>7. /\ Sound(u) /\ Normal(u) /\ Pending(u) /\ Len(u.running) = Len(v.running) - 1
      /\ u.limit = v.limit /\ u.started = v.started
  BY <1>4, <1>5, <1>6, LeavingIsPending
<1> HIDE DEF u
<1>8. Len(u.running) = Len(t.running)
  BY <1>4, <1>5, <1>7
<1> QED BY <1>2, <1>4, <1>7, <1>8 DEF IsPending

LEMMA ProviderPlays ==
    ASSUME NEW status \in Ends
    PROVE  Plays(ProviderSpan(status), 0, 1, "none")
<1>1. Plays(<<Start("provider")>>, 1, 1, "none") /\ Plays(<<Complete(status)>>, -1, 0, "none")
  BY StartPlays, CompletePlays DEF Operations
<1>2. 0 = 1 + (-1) /\ 1 = 1 + 0 /\ 1 >= 0
  OBVIOUS
<1>3. Plays(<<Start("provider")>> \o <<Complete(status)>>, 0, 1, "none")
  BY <1>1, <1>2, PlaysTogether, Zenon
<1>4. ProviderSpan(status) = <<Start("provider")>> \o <<Complete(status)>>
  BY DEF ProviderSpan
<1> QED BY <1>3, <1>4

(* After a provider call its caller runs again.                            *)
LEMMA CallerRunsAgain ==
    ASSUME NEW t, IsWell(t), NEW status \in Ends
    PROVE  LET u == Played(t, ProviderSpan(status))
           IN  /\ Leads(t, u, 0, 1, "none")
               /\ Last(u.running) = Last(t.running)
               /\ Last(t.running) \in DOMAIN u.spans =>
                     /\ Last(t.running) \in DOMAIN t.spans
                     /\ u.spans[Last(t.running)].operation = t.spans[Last(t.running)].operation
<1> DEFINE v == Apply(t, Start("provider"))
<1> DEFINE u == Apply(v, Complete(status))
<1> DEFINE k == Len(t.running)
<1> DEFINE id == Last(t.running)
<1>1. "provider" \in Operations /\ status \in Statuses
  BY DEF Operations, Statuses
<1>2. Played(t, ProviderSpan(status)) = u
  <2> DEFINE a == <<Start("provider")>>
  <2> DEFINE b == <<Complete(status)>>
  <2>1. ProviderSpan(status) = a \o b
    BY DEF ProviderSpan
  <2>2. a \in Seq(Events) /\ b \in Seq(Events)
    BY <1>1, EventsAreEvents
  <2> HIDE DEF a, b
  <2>3. Played(t, a \o b) = Played(Played(t, a), b)
    BY <2>2, PlayedTogether
  <2>4. Played(t, a) = v
    BY PlayedOne DEF a
  <2>5. Played(v, b) = u
    BY PlayedOne DEF b
  <2> QED BY <2>1, <2>3, <2>4, <2>5
<1>3. Leads(t, u, 0, 1, "none")
  <2>1. Plays(ProviderSpan(status), 0, 1, "none")
    BY ProviderPlays
  <2>2. Len(t.running) + 0 > 0
    BY WellParts
  <2> QED BY <1>2, <2>1, <2>2 DEF Plays
<1>4. /\ Leads(t, v, 1, 1, "none") /\ v.running = Append(t.running, Last(v.running))
      /\ \A i \in DOMAIN t.spans : i \in DOMAIN v.spans /\ v.spans[i] = t.spans[i]
  BY <1>1, StartingIsWell
<1> HIDE DEF v
<1>5. IsWell(v) /\ Sound(v) /\ Len(v.running) = k + 1 /\ v.limit = t.limit /\ v.started <= t.started + 1
  BY <1>4 DEF Leads, IsWell
<1>6. /\ k \in Nat \ {0} /\ t.running \in Seq(Nat) /\ v.running # <<>> /\ Last(v.running) \in Nat
      /\ k \in 0 .. Len(v.running) /\ k = Len(v.running) - 1 /\ k \in 1 .. k
      /\ Sound(t) /\ t.running # <<>>
  <2>1. k \in Nat \ {0} /\ v.running # <<>> /\ t.running \in Seq(Nat) /\ Sound(t) /\ t.running # <<>>
    BY <1>5, WellParts, TraceParts DEF IsWell
  <2>2. Last(v.running) \in Nat
    <3>1. Len(v.running) \in DOMAIN v.running
      BY <1>5, <2>1, WellParts, TraceParts
    <3> QED BY <1>5, <3>1, WellParts, TraceParts DEF Last
  <2> HIDE DEF k
  <2> QED BY <1>5, <2>1, <2>2
<1>7. u = Closed(v, k, status)
  BY <1>5, <1>6, CompleteCloses
<1> HIDE DEF u
<1>8. /\ Len(u.running) = k /\ \A i \in 1 .. k : u.running[i] = v.running[i]
      /\ DOMAIN u.spans = DOMAIN v.spans
      /\ \A i \in DOMAIN v.spans : u.spans[i].operation = v.spans[i].operation
  <2> HIDE DEF k
  <2> DEFINE c == Closed(v, k, status)
  <2>1. /\ Len(c.running) = k /\ \A i \in 1 .. k : c.running[i] = v.running[i]
        /\ DOMAIN c.spans = DOMAIN v.spans
        /\ \A i \in DOMAIN v.spans : c.spans[i].operation = v.spans[i].operation
    BY <1>1, <1>5, <1>6, ClosedTrace
  <2> QED BY <1>7, <2>1
<1>9. Last(u.running) = id
  <2> DEFINE w == Last(v.running)
  <2>1. v.running = Append(t.running, w) /\ w \in Nat
    BY <1>4, <1>6
  <2> HIDE DEF w
  <2>2. \A i \in 1 .. k : Append(t.running, w)[i] = t.running[i]
    BY <1>6, <2>1, Appended
  <2>3. u.running[k] = t.running[k]
    BY <1>6, <1>8, <2>1, <2>2
  <2> QED BY <1>8, <2>3 DEF Last
<1>10. ASSUME id \in DOMAIN u.spans
       PROVE  id \in DOMAIN t.spans /\ u.spans[id].operation = t.spans[id].operation
  <2>1. id \in 1 .. t.started
    BY <1>6, ParentIsKnown DEF Last
  <2>2. /\ Len(t.spans) = IF t.started < t.limit THEN t.started ELSE t.limit
        /\ Len(v.spans) = IF v.started < v.limit THEN v.started ELSE v.limit
    BY <1>5, <1>6 DEF Sound, IsTree
  <2>3. /\ DOMAIN t.spans = 1 .. Len(t.spans) /\ DOMAIN v.spans = 1 .. Len(v.spans)
        /\ t.started \in Nat /\ t.limit \in Nat /\ v.started \in Nat
    BY <1>5, WellParts, TraceParts
  <2>4. id <= v.limit
    BY <1>5, <1>8, <1>10, <2>2, <2>3
  <2>5. id \in DOMAIN t.spans
    BY <1>5, <2>1, <2>2, <2>3, <2>4
  <2> QED BY <1>4, <1>8, <2>5
<1> QED BY <1>2, <1>3, <1>9, <1>10

(* The selection of a native tool call leaves its own span.                *)
Unselected == <<Start("tool_selection")>> \o ProviderSpan("failed") \o <<Leave>>

LEMMA SelectionLeft ==
    ASSUME NEW t, IsWell(t)
    PROVE  IsPending(t, Played(t, Unselected), 2)
<1> DEFINE v == Apply(t, Start("tool_selection"))
<1> DEFINE w == Played(v, ProviderSpan("failed"))
<1> DEFINE u == Apply(w, Leave)
<1>1. "tool_selection" \in Operations /\ "failed" \in Ends
  BY DEF Operations, Ends
<1>2. Played(t, Unselected) = u
  <2> DEFINE a == <<Start("tool_selection")>>
  <2> DEFINE b == ProviderSpan("failed")
  <2> DEFINE c == <<Leave>>
  <2>1. Unselected = (a \o b) \o c
    BY DEF Unselected
  <2>2. a \in Seq(Events) /\ c \in Seq(Events)
    BY <1>1, EventsAreEvents
  <2>3. b \in Seq(Events)
    BY <1>1, ProviderPlays DEF Plays
  <2>4. Played(t, a) = v
    BY PlayedOne DEF a
  <2>5. Played(v, b) = w
    OBVIOUS
  <2>6. Played(w, c) = u
    BY PlayedOne DEF c
  <2> HIDE DEF a, b, c
  <2>7. Played(t, a \o b) = Played(Played(t, a), b)
    BY <2>2, <2>3, PlayedTogether
  <2>9. a \o b \in Seq(Events)
    BY <2>2, <2>3
  <2> DEFINE e == a \o b
  <2>10. e \in Seq(Events)
    BY <2>9
  <2> HIDE DEF e
  <2>8. Played(t, e \o c) = Played(Played(t, e), c)
    BY <2>2, <2>10, PlayedTogether
  <2> USE DEF e
  <2> QED BY <2>1, <2>4, <2>5, <2>6, <2>7, <2>8
<1>3. /\ Leads(t, v, 1, 1, "none") /\ Runs(v, {"tool_selection"}) /\ Last(v.running) # 1
  BY <1>1, StartingIsWell
<1> HIDE DEF v
<1>4. /\ IsWell(v) /\ Len(v.running) = Len(t.running) + 1 /\ v.limit = t.limit
      /\ v.started <= t.started + 1
  BY <1>3 DEF Leads
<1>5. /\ Leads(v, w, 0, 1, "none") /\ Last(w.running) = Last(v.running)
      /\ Last(v.running) \in DOMAIN w.spans =>
            /\ Last(v.running) \in DOMAIN v.spans
            /\ w.spans[Last(v.running)].operation = v.spans[Last(v.running)].operation
  BY <1>1, <1>4, CallerRunsAgain
<1> HIDE DEF w
<1>6. /\ IsWell(w) /\ Len(w.running) = Len(v.running) + 0 /\ w.limit = v.limit
      /\ w.started <= v.started + 1
  BY <1>5 DEF Leads
<1>7. /\ Len(t.running) \in Nat \ {0} /\ t.started \in Nat /\ v.started \in Nat /\ w.started \in Nat
      /\ Len(w.running) > 1 /\ Len(w.running) = Len(t.running) + 1
  BY <1>4, <1>6, WellParts
<1>8. ASSUME Last(w.running) \in DOMAIN w.spans PROVE MayBeLeft(w, Last(w.running))
  <2>1. w.spans[Last(w.running)].operation = "tool_selection"
    BY <1>3, <1>5, <1>8 DEF Runs
  <2>2. DOMAIN w.spans = 1 .. Len(w.spans) /\ Len(w.spans) \in Nat
    BY <1>6, WellParts, TraceParts
  <2>3. Last(w.running) > 1
    BY <1>3, <1>5, <1>8, <2>2
  <2> QED BY <2>1, <2>3 DEF MayBeLeft
<1>9. /\ Sound(u) /\ Normal(u) /\ Pending(u) /\ Len(u.running) = Len(w.running) - 1
      /\ u.limit = w.limit /\ u.started = w.started
  BY <1>6, <1>7, <1>8, LeavingIsPending
<1> HIDE DEF u
<1>10. Len(u.running) = Len(t.running) /\ u.started <= t.started + 2
  BY <1>4, <1>6, <1>7, <1>9
<1> QED BY <1>2, <1>4, <1>6, <1>9, <1>10 DEF IsPending

(* The seam above fails.                                                   *)
LEMMA CallerFails ==
    ASSUME NEW t, IsWell(t), Runs(t, {"routing", "tool_execution", "evidence_selection"}),
           Len(t.running) > 1
    PROVE  Leads(t, Played(t, Unlisted \o <<Complete("failed")>>), -1, 1, "some")
<1> DEFINE v == Played(t, Unlisted)
<1> DEFINE u == Apply(v, Complete("failed"))
<1>1. "failed" \in Ends /\ "failed" \in Statuses /\ "provider" \in Operations
  BY DEF Ends, Statuses, Operations
<1>2. Played(t, Unlisted \o <<Complete("failed")>>) = u
  <2> DEFINE b == <<Complete("failed")>>
  <2>1. Unlisted \in Seq(Events) /\ b \in Seq(Events)
    BY <1>1, EventsAreEvents DEF Unlisted
  <2>2. Played(v, b) = u
    BY PlayedOne
  <2> HIDE DEF b
  <2>3. Played(t, Unlisted \o b) = Played(Played(t, Unlisted), b)
    BY <2>1, PlayedTogether
  <2> QED BY <2>2, <2>3 DEF b
<1>3. IsPending(t, v, 1)
  BY ProviderLeft
<1> HIDE DEF v
<1>4. /\ Sound(v) /\ Normal(v) /\ Pending(v) /\ Len(v.running) = Len(t.running)
      /\ v.limit = t.limit /\ v.started <= t.started + 1
  BY <1>3 DEF IsPending
<1>5. Leads(v, u, -1, 0, "none")
  BY <1>1, <1>4, CompletingIsWell
<1> HIDE DEF u
<1>6. /\ IsWell(u) /\ Len(u.running) = Len(t.running) + (-1) /\ u.limit = t.limit
      /\ u.started <= v.started + 0
  BY <1>4, <1>5 DEF Leads
<1>7. u.started \in Nat /\ v.started \in Nat /\ t.started \in Nat
  BY <1>4, <1>6, WellParts, TraceParts DEF Sound
<1>8. u.started <= t.started + 1
  BY <1>4, <1>6, <1>7
<1> QED BY <1>2, <1>6, <1>8 DEF Leads

LEMMA UnlistedFails ==
    ASSUME NEW operation \in {"routing", "evidence_selection"}
    PROVE  Plays(Seam(operation, Unlisted, "failed"), 0, 2, "some")
<1> DEFINE a == <<Start(operation)>>
<1> DEFINE b == Unlisted \o <<Complete("failed")>>
<1>1. operation \in Operations /\ "failed" \in Statuses /\ "provider" \in Operations
  BY DEF Operations, Statuses, Ends
<1>2. a \in Seq(Events) /\ b \in Seq(Events) /\ a \o b \in Seq(Events)
  BY <1>1, EventsAreEvents DEF Unlisted
<1>3. Seam(operation, Unlisted, "failed") = a \o b
  BY DEF Seam, Unlisted
<1> SUFFICES ASSUME NEW t, IsWell(t) PROVE Leads(t, Played(t, a \o b), 0, 2, "some")
  <2> DEFINE e == Seam(operation, Unlisted, "failed")
  <2>3. e = a \o b
    BY <1>3, Zenon
  <2> HIDE DEF a, b, e
  <2>1. e \in Seq(Events) /\ 0 \in Int /\ 2 \in Nat
    BY <1>2, <2>3
  <2>2. (\A t : IsWell(t) => Leads(t, Played(t, e), 0, 2, "some")) => Plays(e, 0, 2, "some")
    BY <2>1 DEF Plays
  <2>4. Plays(e, 0, 2, "some")
    BY <2>2, <2>3
  <2> QED BY <2>4 DEF e
<1> DEFINE v == Apply(t, Start(operation))
<1> DEFINE u == Played(v, b)
<1>4. Played(t, a) = v
  BY PlayedOne
<1>5. Leads(t, v, 1, 1, "none") /\ Runs(v, {operation})
  BY <1>1, StartingIsWell
<1> HIDE DEF v
<1>6. /\ IsWell(v) /\ Len(v.running) = Len(t.running) + 1 /\ v.limit = t.limit
      /\ v.started <= t.started + 1
  BY <1>5 DEF Leads
<1>7. Len(t.running) \in Nat \ {0} /\ t.started \in Nat /\ v.started \in Nat
  BY <1>6, WellParts
<1>8. Runs(v, {"routing", "tool_execution", "evidence_selection"}) /\ Len(v.running) > 1
  BY <1>5, <1>6, <1>7 DEF Runs
<1>9. Leads(v, u, -1, 1, "some")
  BY <1>6, <1>8, CallerFails
<1>10. Played(t, a \o b) = u
  <2> HIDE DEF a, b
  <2>1. Played(t, a \o b) = Played(Played(t, a), b)
    BY <1>2, PlayedTogether
  <2> QED BY <1>4, <2>1 DEF u
<1> HIDE DEF u
<1>11. /\ IsWell(u) /\ Len(u.running) = Len(v.running) + (-1) /\ u.limit = v.limit
       /\ u.started <= v.started + 1
  BY <1>9 DEF Leads
<1>12. Len(u.running) = Len(t.running) + 0 /\ u.started <= t.started + 2
  BY <1>6, <1>7, <1>11, WellParts
<1> QED BY <1>6, <1>10, <1>11, <1>12 DEF Leads

-----------------------------------------------------------------------------
(* All seams but the request's end.                                        *)
LEMMA EndingIsWell ==
    ASSUME NEW t, Sound(t), Normal(t), Len(t.running) > 0, NEW status \in Ends,
           Settled(t) \/ (Pending(t) /\ status = "failed" /\ Len(t.running) > 1)
    PROVE  LET u == Apply(t, CompleteAll(status))
           IN  /\ IsWell(u) /\ Len(u.running) = 1 /\ u.limit = t.limit /\ u.started = t.started
               /\ LeftOpen(u) \subseteq LeftOpen(t)
<1> DEFINE u == Apply(t, CompleteAll(status))
<1> DEFINE c == Closed(t, 1, status)
<1>1. t \in TraceType /\ Len(t.running) \in Nat /\ t.running # <<>>
  <2>1. t \in TraceType /\ Len(t.running) \in Nat
    BY TraceParts DEF Sound
  <2> QED BY <2>1
<1>2. u = c /\ 1 \in 0 .. Len(t.running)
  BY <1>1, CompleteAllCloses
<1>3. status \in Statuses \ {"open"} /\ status \in Statuses
  BY DEF Statuses, Ends
<1>4. Len(c.running) = 1 /\ c.limit = t.limit /\ c.started = t.started
  <2> DEFINE h == 1
  <2>1. h \in 0 .. Len(t.running)
    BY <1>2
  <2> HIDE DEF h
  <2>2. /\ Len(Closed(t, h, status).running) = h /\ Closed(t, h, status).limit = t.limit
        /\ Closed(t, h, status).started = t.started
    BY <1>3, <2>1, ClosedTrace
  <2> QED BY <2>2 DEF h
<1>5. /\ Sound(c) /\ Normal(c) /\ LeftOpen(c) \subseteq LeftOpen(t) /\ Settled(c)
  <2>1. /\ Sound(c)
        /\ (Normal(t) /\ status \in Ends) => Normal(c)
        /\ LeftOpen(c) \subseteq LeftOpen(t)
        /\ Settled(t) => Settled(c)
        /\ (Pending(t) /\ status = "failed" /\ 1 < Len(t.running)) => Settled(c)
    BY <1>2, <1>3, ClosingKeeps
  <2>2. Len(t.running) > 1 => 1 < Len(t.running)
    BY <1>1
  <2> HIDE DEF c
  <2> QED BY <2>1, <2>2
<1> HIDE DEF u, c
<1>6. IsWell(c)
  BY <1>4, <1>5 DEF IsWell
<1> QED BY <1>2, <1>4, <1>5, <1>6 DEF u

(* Events that are followed by the end of all seams.                       *)
LEMMA PlayedAndEnded ==
    ASSUME NEW t, IsWell(t), NEW e, NEW d, NEW n, NEW l, Plays(e, d, n, l),
           Len(t.running) + d > 0, NEW status \in Ends
    PROVE  LET u == Played(t, Append(e, CompleteAll(status)))
           IN  /\ IsWell(u) /\ Len(u.running) = 1 /\ u.limit = t.limit
               /\ u.started <= t.started + n
               /\ l = "none" => LeftOpen(u) \subseteq LeftOpen(t)
<1> DEFINE b == <<CompleteAll(status)>>
<1> DEFINE v == Played(t, e)
<1> DEFINE u == Apply(v, CompleteAll(status))
<1>1. e \in Seq(Events) /\ b \in Seq(Events) /\ CompleteAll(status) \in Events
  <2>1. CompleteAll(status) \in Events
    BY DEF CompleteAll, Events, Statuses
  <2> QED BY <2>1 DEF Plays
<1>2. Append(e, CompleteAll(status)) = e \o b
  BY <1>1
<1>3. Played(v, b) = u
  BY PlayedOne
<1>4. Played(t, e \o b) = u
  <2> HIDE DEF b
  <2> QED BY <1>1, <1>3, PlayedTogether
<1>5. Leads(t, v, d, n, l)
  BY DEF Plays
<1> HIDE DEF b, v
<1>6. /\ Sound(v) /\ Normal(v) /\ Settled(v) /\ Len(v.running) > 0 /\ v.limit = t.limit
      /\ v.started <= t.started + n
      /\ l = "none" => LeftOpen(v) \subseteq LeftOpen(t)
  BY <1>5 DEF Leads, IsWell
<1>7. /\ IsWell(u) /\ Len(u.running) = 1 /\ u.limit = v.limit /\ u.started = v.started
      /\ LeftOpen(u) \subseteq LeftOpen(v)
  BY <1>6, EndingIsWell
<1> HIDE DEF u
<1> QED BY <1>2, <1>4, <1>6, <1>7

-----------------------------------------------------------------------------
(* What a step of the coordinator has to show.                             *)

MayPend == at = "skill" /\ stage = "failed" /\ native

IsWellHere == IsWell(trace) /\ (LeftOpen(trace) # {} => IsDoomed)

LEMMA RunningParts ==
    ASSUME RunningInv, phase # "finished", ~MayPend, Depth > 0
    PROVE  /\ IsWellHere
           /\ Len(trace.running) = Depth
           /\ trace.started <= SpansStarted
BY DEF RunningInv, MayPend, IsWellHere, IsWell

LEMMA SettledIsPending == ASSUME NEW t, Settled(t) PROVE Pending(t)
BY DEF Settled, Pending

LEMMA StepLeads ==
    ASSUME IsWellHere, NEW d, NEW n \in Nat, NEW l, Leads(trace, trace', d, n, l),
           phase' # "finished", Depth' = Len(trace.running) + d,
           NEW s \in Nat, trace.started <= s, s + n <= SpansStarted', SpansStarted' \in Nat,
           IsDoomed' \/ (l = "none" /\ ~IsDoomed),
           at' = "skill" /\ stage' \in {"plan_data_query", "retrieve_evidence"}
              => ToolIsActive(trace')
    PROVE  RunningInv'
<1>1. /\ IsWell(trace') /\ Len((trace').running) = Len(trace.running) + d
      /\ (trace').started <= trace.started + n
      /\ l = "none" => LeftOpen(trace') \subseteq LeftOpen(trace)
  BY DEF Leads
<1>2. (trace').started \in Nat /\ trace.started \in Nat
  BY <1>1, WellParts DEF IsWellHere
<1>3. (trace').started <= SpansStarted'
  BY <1>1, <1>2
<1>4. LeftOpen(trace') # {} => IsDoomed'
  BY <1>1 DEF IsWellHere
<1>5. /\ Sound(trace') /\ Normal(trace') /\ Settled(trace') /\ Len((trace').running) = Depth'
  BY <1>1 DEF IsWell
<1>6. Pending(trace')
  BY <1>5, SettledIsPending
<1> QED BY <1>3, <1>4, <1>5, <1>6 DEF RunningInv

LEMMA StepIsWell ==
    ASSUME IsWellHere, NEW e, NEW d, NEW n, NEW l, Plays(e, d, n, l),
           trace' = Played(trace, e), Len(trace.running) + d > 0,
           phase' # "finished", Depth' = Len(trace.running) + d,
           NEW s \in Nat, trace.started <= s, s + n <= SpansStarted', SpansStarted' \in Nat,
           IsDoomed' \/ (l = "none" /\ ~IsDoomed),
           at' = "skill" /\ stage' \in {"plan_data_query", "retrieve_evidence"}
              => ToolIsActive(trace')
    PROVE  RunningInv'
<1>1. Leads(trace, trace', d, n, l) /\ n \in Nat
  BY DEF Plays, IsWellHere
<1> QED BY <1>1, StepLeads

LEMMA EndIsWell ==
    ASSUME IsWellHere, NEW e, NEW d, NEW n, NEW l, Plays(e, d, n, l),
           NEW status \in Ends, status = outcome'.status,
           trace' = Played(trace, Append(e, CompleteAll(status))), Len(trace.running) + d > 0,
           phase' = "coordinate", at' = "ended",
           NEW s \in Nat, trace.started <= s, s + n <= 57,
           status # "completed" \/ (l = "none" /\ ~IsDoomed)
    PROVE  RunningInv'
<1>1. /\ IsWell(trace') /\ Len((trace').running) = 1
      /\ (trace').started <= trace.started + n
      /\ l = "none" => LeftOpen(trace') \subseteq LeftOpen(trace)
  <2> DEFINE u == Played(trace, Append(e, CompleteAll(status)))
  <2>1. /\ IsWell(u) /\ Len(u.running) = 1 /\ u.started <= trace.started + n
        /\ l = "none" => LeftOpen(u) \subseteq LeftOpen(trace)
    BY PlayedAndEnded DEF IsWellHere
  <2> HIDE DEF u
  <2> QED BY <2>1 DEF u
<1>2. (trace').started \in Nat /\ trace.started \in Nat /\ n \in Nat
  BY <1>1, WellParts DEF Plays, IsWellHere
<1>3. SpansStarted' = 57 /\ Depth' = 1 /\ ~MayPend'
  BY DEF SpansStarted, PathSpans, Depth, MayPend
<1>4. (trace').started <= SpansStarted'
  BY <1>1, <1>2, <1>3
<1>5. LeftOpen(trace') # {} => IsDoomed'
  BY <1>1 DEF IsWellHere, IsDoomed
<1>6. /\ Sound(trace') /\ Normal(trace') /\ Settled(trace') /\ Len((trace').running) = Depth'
  BY <1>1, <1>3 DEF IsWell
<1> QED BY <1>3, <1>4, <1>5, <1>6 DEF RunningInv, MayPend

-----------------------------------------------------------------------------
(* The seams of provider calls.                                            *)

LEMMA PlainSeamPlays ==
    ASSUME NEW operation \in Operations, NEW status \in Ends
    PROVE  Plays(Seam(operation, <<>>, status), 0, 1, "none")
<1>1. Plays(Seam(operation, <<>>, status), 0, 0 + 1, "none")
  BY NothingPlays, SeamPlays, Zenon
<1>2. 0 + 1 = 1
  OBVIOUS
<1> QED BY <1>1, <1>2

LEMMA ProviderSeamPlays ==
    ASSUME NEW operation \in Operations, NEW status \in Ends, NEW inner \in Ends
    PROVE  Plays(Seam(operation, ProviderSpan(inner), status), 0, 2, "none")
<1>1. Plays(Seam(operation, ProviderSpan(inner), status), 0, 1 + 1, "none")
  BY ProviderPlays, SeamPlays, Zenon
<1>2. 1 + 1 = 2
  OBVIOUS
<1> QED BY <1>1, <1>2

LEMMA AnsweredPlays ==
    ASSUME NEW operation \in Operations, NEW e \in Answered(operation)
    PROVE  Plays(e, 0, 2, "none")
BY ProviderSeamPlays DEF Answered, Ends

(* Failures that leave nothing open.                                       *)
Failures == {<<>>, ProviderSpan("completed"), ProviderSpan("failed")}

LEMMA FailuresAreFew ==
    /\ EveryFailure \subseteq Failures /\ ClientFailures \subseteq Failures
    /\ ListedFailures \subseteq Failures \cup {Unlisted}
BY DEF EveryFailure, ClientFailures, ListedFailures, Failures, Unlisted

LEMMA FailedPlays ==
    ASSUME NEW operation \in Operations, NEW e \in Failed(operation, Failures)
    PROVE  Plays(e, 0, 2, "none")
<1>1. PICK inner \in Failures : e = Seam(operation, inner, "failed")
  BY DEF Failed
<1>2. "failed" \in Ends /\ "completed" \in Ends
  BY DEF Ends
<1>3. CASE inner = <<>>
  <2>1. Plays(e, 0, 1, "none")
    BY <1>1, <1>2, <1>3, PlainSeamPlays
  <2>2. 2 \in Nat /\ 1 <= 2
    OBVIOUS
  <2> QED BY <2>1, <2>2, PlaysMore, Zenon
<1>4. CASE inner # <<>>
  <2>1. inner = ProviderSpan("completed") \/ inner = ProviderSpan("failed")
    BY <1>4 DEF Failures
  <2> QED BY <1>1, <1>2, <2>1, ProviderSeamPlays
<1> QED BY <1>3, <1>4

LEMMA ListedPlays ==
    ASSUME NEW operation \in {"routing", "evidence_selection"},
           NEW e \in Failed(operation, ListedFailures)
    PROVE  Plays(e, 0, 2, "some")
<1>1. PICK inner \in ListedFailures : e = Seam(operation, inner, "failed")
  BY DEF Failed
<1>2. operation \in Operations
  BY DEF Operations
<1>3. CASE inner \in Failures
  <2>1. e \in Failed(operation, Failures)
    BY <1>1, <1>3 DEF Failed
  <2>2. Plays(e, 0, 2, "none") /\ 2 \in Nat /\ 2 <= 2 /\ "some" # "none"
    BY <1>2, <2>1, FailedPlays
  <2> QED BY <2>2, PlaysMore, Zenon
<1>4. CASE inner = Unlisted
  BY <1>1, <1>4, UnlistedFails
<1> QED BY <1>3, <1>4, FailuresAreFew

LEMMA FailedHere ==
    ASSUME NEW operation \in Operations, NEW failures \in SUBSET Failures,
           NEW e \in Failed(operation, failures)
    PROVE  Plays(e, 0, 2, "none")
<1>1. e \in Failed(operation, Failures)
  BY DEF Failed
<1> QED BY <1>1, FailedPlays

(* What may have left spans open, or left none, may leave some.            *)
LEMMA SomeLeft ==
    ASSUME NEW e, NEW d, NEW n, NEW l, Plays(e, d, n, l)
    PROVE  Plays(e, d, n, "some")
<1>1. n \in Nat /\ n <= n
  BY DEF Plays
<1>2. "some" # "none"
  OBVIOUS
<1> QED BY <1>1, <1>2, PlaysMore, Zenon

-----------------------------------------------------------------------------
(* The steps of the coordinator.                                           *)

LEMMA RoutingPlays ==
    ASSUME NEW e \in RoutingEvents
    PROVE  Plays(e, 0, 2, IF outcome'.status = "failed" THEN "some" ELSE "none")
<1>1. "routing" \in Operations /\ "routing" \in {"routing", "evidence_selection"}
  BY DEF Operations
<1>2. CASE outcome'.status # "failed"
  <2>1. e \in Answered("routing")
    BY <1>2 DEF RoutingEvents
  <2> QED BY <1>1, <1>2, <2>1, AnsweredPlays
<1>3. CASE outcome'.status = "failed"
  <2>1. e = <<>> \/ e \in Failed("routing", ListedFailures) \/ e \in Answered("routing")
    BY <1>3 DEF RoutingEvents, RouterFailures
  <2>2. CASE e = <<>>
    <3>1. Plays(e, 0, 0, "none") /\ 2 \in Nat /\ 0 <= 2 /\ "some" # "none"
      BY <2>2, NothingPlays
    <3>2. Plays(e, 0, 2, "some")
      BY <3>1, PlaysMore, Zenon
    <3> QED BY <1>3, <3>2
  <2>3. CASE e \in Failed("routing", ListedFailures)
    BY <1>1, <1>3, <2>3, ListedPlays
  <2>4. CASE e \in Answered("routing")
    <3>1. Plays(e, 0, 2, "some")
      BY <1>1, <2>4, AnsweredPlays, SomeLeft
    <3> QED BY <1>3, <3>1
  <2> QED BY <2>1, <2>2, <2>3, <2>4
<1> QED BY <1>2, <1>3

(* What is recorded in a step of the coordinator.                          *)
Observes(events) ==
    /\ phase = "coordinate" /\ phase' = phase
    /\ Record(IF at' = "ended" THEN Append(events, CompleteAll(outcome'.status)) ELSE events)

LEMMA OutcomeIsAnEnd == TypeOK' => outcome'.status \in Ends
BY DEF TypeOK, Ends, Results

LEMMA RouteStep ==
    ASSUME TypeOK, TypeOK', PlaceInv, RoundInv, RunningInv, RouteRequest,
           NEW e \in RoutingEvents, Observes(e)
    PROVE  RunningInv'
<1>1. /\ at = "route" /\ stage = "idle" /\ route = "none" /\ domain = "data" /\ steps = <<>>
      /\ outcome.status = "none" /\ phase = "coordinate"
  BY DEF RouteRequest, PlaceInv, RoundInv, Observes
<1>2. /\ stage' = "idle" /\ steps' = <<>> /\ config' = config /\ phase' = "coordinate"
  BY <1>1 DEF RouteRequest, Observes
<1>3. Depth = 2 /\ SpansStarted = 5 /\ ~MayPend /\ ~IsDoomed
  BY <1>1 DEF Depth, PathDepth, IsReviewed, SkillRuns, ToolRuns, DataStages, KnowledgeStages,
              SpansStarted, PathSpans, MayPend, IsDoomed
<1>4. IsWellHere /\ Len(trace.running) = 2 /\ trace.started <= 5
  <2>1. Depth > 0
    BY <1>3
  <2> QED BY <1>1, <1>3, <2>1, RunningParts
<1> DEFINE l == IF outcome'.status = "failed" THEN "some" ELSE "none"
<1>5. Plays(e, 0, 2, l)
  BY RoutingPlays
<1>6. CASE at' = "ended"
  <2>1. /\ outcome'.status \in Ends /\ outcome'.status # "completed"
        /\ trace' = Played(trace, Append(e, CompleteAll(outcome'.status)))
    BY <1>6, <1>1, OutcomeIsAnEnd DEF Observes, Record, RouteRequest, TakeRoute, End, Result, StartSkill
  <2>2. Len(trace.running) + 0 > 0 /\ 5 \in Nat /\ 5 + 2 <= 57
    BY <1>4
  <2> QED BY <1>2, <1>4, <1>5, <1>6, <2>1, <2>2, EndIsWell
<1>7. CASE at' # "ended"
  <2>1. /\ outcome'.status = "none" /\ trace' = Played(trace, e)
        /\ \/ at' = "skill" /\ (route' = "mixed" => domain' = "data" /\ ~config.controlled)
           \/ at' = "plan" /\ route' = "mixed" /\ config.controlled
    BY <1>7, <1>1 DEF Observes, Record, RouteRequest, TakeRoute, End, Result, StartSkill, Domains
  <2>2. l = "none"
    BY <2>1
  <2>3. SpansStarted' = 7 /\ Depth' = 2
    BY <1>2, <2>1
    DEF Depth, PathDepth, IsReviewed, SkillRuns, ToolRuns, DataStages, KnowledgeStages,
        SpansStarted, PathSpans, SpansBefore, StageSpans
  <2>4. /\ Len(trace.running) + 0 > 0 /\ Depth' = Len(trace.running) + 0
        /\ 5 \in Nat /\ 5 + 2 <= SpansStarted' /\ SpansStarted' \in Nat
    BY <1>4, <2>3
  <2>5. ~(at' = "skill" /\ stage' \in {"plan_data_query", "retrieve_evidence"})
    BY <1>2
  <2>6. phase' # "finished"
    BY <1>2
  <2> HIDE DEF l
  <2> QED BY <1>3, <1>4, <1>5, <2>1, <2>2, <2>3, <2>4, <2>5, <2>6, StepIsWell
<1> QED BY <1>6, <1>7

LEMMA PlanningPlays ==
    ASSUME NEW e \in PlanningEvents
    PROVE  \/ Plays(e, 1, 3, "none")
           \/ at' = "ended" /\ Plays(e, 0, 0, "none")
<1>1. {"workflow", "planning"} \subseteq Operations /\ WorkflowFailures \subseteq Failures
  BY FailuresAreFew DEF Operations, WorkflowFailures
<1>2. CASE e = <<>> /\ at' = "ended"
  BY <1>2, NothingPlays
<1>3. CASE \E x \in Failed("planning", WorkflowFailures) \cup Answered("planning") :
              e = <<Start("workflow")>> \o x
  <2>1. PICK x \in Failed("planning", WorkflowFailures) \cup Answered("planning") :
            e = <<Start("workflow")>> \o x
    BY <1>3
  <2>2. Plays(x, 0, 2, "none")
    BY <1>1, AnsweredPlays, FailedHere
  <2>3. Plays(<<Start("workflow")>>, 1, 1, "none") /\ 1 = 1 + 0 /\ 3 = 1 + 2 /\ 1 >= 0
    BY <1>1, StartPlays
  <2>4. Plays(<<Start("workflow")>> \o x, 1, 3, "none")
    BY <2>2, <2>3, PlaysTogether, Zenon
  <2> QED BY <2>1, <2>4
<1> QED BY <1>2, <1>3 DEF PlanningEvents

LEMMA PlanStep ==
    ASSUME TypeOK, TypeOK', PlaceInv, RoundInv, RunningInv, PlanWorkflow,
           NEW e \in PlanningEvents, Observes(e)
    PROVE  RunningInv'
<1>1. /\ at = "plan" /\ stage = "idle" /\ route = "mixed" /\ config.controlled /\ domain = "data"
      /\ steps = <<>> /\ outcome.status = "none" /\ phase = "coordinate"
  BY DEF PlanWorkflow, PlaceInv, RoundInv, Observes
<1>2. /\ stage' = "idle" /\ steps' = <<>> /\ config' = config /\ route' = route
      /\ phase' = "coordinate"
  BY <1>1 DEF PlanWorkflow, Observes
<1>3. Depth = 2 /\ SpansStarted = 7 /\ ~MayPend /\ ~IsDoomed
  BY <1>1 DEF Depth, PathDepth, IsReviewed, SkillRuns, ToolRuns, DataStages, KnowledgeStages,
              SpansStarted, PathSpans, MayPend, IsDoomed
<1>4. IsWellHere /\ Len(trace.running) = 2 /\ trace.started <= 7
  <2>1. Depth > 0
    BY <1>3
  <2> QED BY <1>1, <1>3, <2>1, RunningParts
<1>5. CASE at' = "ended"
  <2>1. /\ outcome'.status \in Ends /\ outcome'.status # "completed"
        /\ trace' = Played(trace, Append(e, CompleteAll(outcome'.status)))
    BY <1>5, <1>1, OutcomeIsAnEnd DEF Observes, Record, PlanWorkflow, End, Result, StartSkill
  <2>2. PICK d \in {0, 1}, n \in {0, 3} : Plays(e, d, n, "none")
    BY PlanningPlays
  <2>3. Len(trace.running) + d > 0 /\ 7 \in Nat /\ 7 + n <= 57
    BY <1>4
  <2> QED BY <1>2, <1>4, <1>5, <2>1, <2>2, <2>3, EndIsWell
<1>6. CASE at' # "ended"
  <2>1. trace' = Played(trace, e) /\ at' = "skill" /\ domain' = "data"
    BY <1>6, <1>1 DEF Observes, Record, PlanWorkflow, End, Result, StartSkill
  <2>2. Plays(e, 1, 3, "none")
    BY <1>6, PlanningPlays
  <2>3. SpansStarted' = 10 /\ Depth' = 3
    BY <1>1, <1>2, <2>1
    DEF Depth, PathDepth, IsReviewed, SkillRuns, ToolRuns, DataStages, KnowledgeStages,
        SpansStarted, PathSpans, SpansBefore, StageSpans
  <2>4. /\ Len(trace.running) + 1 > 0 /\ Depth' = Len(trace.running) + 1
        /\ 7 \in Nat /\ 7 + 3 <= SpansStarted' /\ SpansStarted' \in Nat
    BY <1>4, <2>3
  <2>5. ~(at' = "skill" /\ stage' \in {"plan_data_query", "retrieve_evidence"})
    BY <1>2
  <2>6. phase' # "finished"
    BY <1>2
  <2> QED BY <1>3, <1>4, <2>1, <2>2, <2>4, <2>5, <2>6, StepIsWell
<1> QED BY <1>5, <1>6

(* The skill and its step.                                                 *)
SkillDepth == IF IsReviewed THEN 5 ELSE 3

LEMMA NoneOf ==
    ASSUME NEW S, NEW s \in Seq(S)
    PROVE  SubSeq(s, 1, 0) = <<>>
<1>1. 0 \in 0 .. Len(s)
  OBVIOUS
<1>2. SubSeq(s, 1, 0) \in Seq(S) /\ Len(SubSeq(s, 1, 0)) = 0
  BY <1>1, Shortened
<1> QED BY <1>2

LEMMA OneOf ==
    ASSUME NEW S, NEW s \in Seq(S), Len(s) > 0
    PROVE  SubSeq(s, 1, 1) = <<s[1]>>
<1>1. 1 \in 0 .. Len(s) /\ 1 \in 1 .. 1
  OBVIOUS
<1> DEFINE u == SubSeq(s, 1, 1)
<1>2. u \in Seq(S) /\ Len(u) = 1 /\ u[1] = s[1]
  BY <1>1, Shortened
<1>3. s[1] \in S
  OBVIOUS
<1> DEFINE e == s[1]
<1> HIDE DEF u, e
<1>4. u = <<e>>
  BY <1>2, <1>3 DEF e
<1> QED BY <1>4 DEF u, e

LEMMA AllOf ==
    ASSUME NEW S, NEW s \in Seq(S)
    PROVE  SubSeq(s, 1, Len(s)) = s
<1> DEFINE u == SubSeq(s, 1, Len(s))
<1>1. Len(s) \in 0 .. Len(s) /\ Len(s) \in Nat
  OBVIOUS
<1>2. /\ u \in Seq(S) /\ Len(u) = Len(s) /\ DOMAIN u = 1 .. Len(s)
      /\ \A i \in 1 .. Len(s) : u[i] = s[i]
  BY <1>1, Shortened
<1>3. DOMAIN s = 1 .. Len(s) /\ s = [i \in DOMAIN s |-> s[i]]
  OBVIOUS
<1> HIDE DEF u
<1>5. u = [i \in DOMAIN u |-> u[i]]
  BY <1>2
<1>4. u = s
  BY <1>2, <1>3, <1>5
<1> QED BY <1>4 DEF u

LEMMA SkillSpansPlay ==
    ASSUME NEW n \in 0 .. Len(SkillSpans)
    PROVE  /\ Plays(SubSeq(SkillSpans, 1, n), n, n, "none")
           /\ SubSeq(SkillSpans, 1, Len(SkillSpans)) = SkillSpans
           /\ SkillSpans \in Seq(Events)
<1>1. {"step", "skill"} \subseteq Operations
  BY DEF Operations
<1>2. /\ Plays(<<Start("skill")>>, 1, 1, "none") /\ Plays(<<Start("step")>>, 1, 1, "none")
      /\ Plays(<<>>, 0, 0, "none")
  BY <1>1, StartPlays, NothingPlays
<1>3. CASE SkillSpans = <<>>
  <2>1. SkillSpans \in Seq(Events) /\ Len(SkillSpans) = 0 /\ n = 0
    BY <1>3
  <2>2. SubSeq(SkillSpans, 1, 0) = <<>>
    BY <2>1, NoneOf
  <2> QED BY <1>2, <1>3, <2>1, <2>2
<1>4. CASE SkillSpans = <<Start("skill")>>
  <2>1. SkillSpans \in Seq(Events) /\ Len(SkillSpans) = 1 /\ (n = 0 \/ n = 1)
    BY <1>1, <1>4, EventsAreEvents
  <2>2. SubSeq(SkillSpans, 1, 0) = <<>> /\ SubSeq(SkillSpans, 1, 1) = SkillSpans
    BY <2>1, NoneOf, AllOf
  <2> QED BY <1>2, <1>4, <2>1, <2>2
<1>5. CASE SkillSpans = <<Start("step"), Start("skill")>>
  <2>1. /\ SkillSpans \in Seq(Events) /\ Len(SkillSpans) = 2 /\ SkillSpans[1] = Start("step")
        /\ n = 0 \/ n = 1 \/ n = 2
    BY <1>1, <1>5, EventsAreEvents
  <2>2. SubSeq(SkillSpans, 1, 0) = <<>> /\ SubSeq(SkillSpans, 1, 2) = SkillSpans
    BY <2>1, NoneOf, AllOf
  <2>3. SubSeq(SkillSpans, 1, 1) = <<Start("step")>>
    BY <2>1, OneOf
  <2>4. 2 = 1 + 1 /\ 1 >= 0
    OBVIOUS
  <2>5. Plays(<<Start("step")>> \o <<Start("skill")>>, 2, 2, "none")
    BY <1>2, <2>4, PlaysTogether, Zenon
  <2>6. SkillSpans = <<Start("step")>> \o <<Start("skill")>>
    BY <1>5
  <2>7. Plays(SkillSpans, 2, 2, "none")
    BY <2>5, <2>6
  <2> QED BY <1>2, <2>1, <2>2, <2>3, <2>7
<1> QED BY <1>3, <1>4, <1>5 DEF SkillSpans

LEMMA TwoEnd ==
    ASSUME NEW status \in Ends
    PROVE  Plays(<<Complete(status), Complete(status)>>, -2, 0, "none")
<1>1. Plays(<<Complete(status)>>, -1, 0, "none")
  BY CompletePlays
<1>2. -2 = (-1) + (-1) /\ 0 = 0 + 0 /\ -1 <= 0
  OBVIOUS
<1>3. Plays(<<Complete(status)>> \o <<Complete(status)>>, -2, 0, "none")
  BY <1>1, <1>2, PlaysTogether, Zenon
<1>4. <<Complete(status), Complete(status)>> = <<Complete(status)>> \o <<Complete(status)>>
  OBVIOUS
<1> QED BY <1>3, <1>4

LEMMA ReturnedPlays ==
    ASSUME TypeOK', at' = "review" => steps' # <<>>
    PROVE  /\ at' = "review" => Plays(Returned, -2, 0, "none")
           /\ at' # "review" => Returned = <<>>
           /\ Returned \in Seq(Events)
<1>1. CASE at' = "review"
  <2>1. steps' \in Seq([status : Results, citations : SUBSET Citations]) /\ steps' # <<>>
    BY <1>1 DEF TypeOK
  <2>2. Len(steps') \in DOMAIN steps'
    BY <2>1
  <2>3. Last(steps') \in [status : Results, citations : SUBSET Citations]
    BY <2>1, <2>2, ElementType DEF Last
  <2>4. Last(steps').status \in Ends
    BY <2>3 DEF Results, Ends
  <2>5. Returned = <<Complete(Last(steps').status), Complete(Last(steps').status)>>
    BY <1>1 DEF Returned
  <2>6. Plays(Returned, -2, 0, "none")
    BY <2>4, <2>5, TwoEnd
  <2> QED BY <1>1, <2>6 DEF Plays
<1>2. CASE at' # "review"
  <2>1. Returned = <<>>
    BY <1>2 DEF Returned
  <2> QED BY <1>2, <2>1
<1> QED BY <1>1, <1>2

(* Nothing more is played.                                                 *)
LEMMA PlaysNoMore == \A e \in Seq(Events) : e \o <<>> = e
OBVIOUS

(* A tool's seam that starts is the active one.                            *)
LEMMA ToolStarts ==
    ASSUME NEW t, IsWell(t), NEW e, NEW d, NEW n, NEW l, Plays(e, d, n, l),
           Len(t.running) + d > 0
    PROVE  /\ ToolIsActive(Played(t, e \o <<Start("tool_execution")>>))
           /\ d >= 0 => Plays(e \o <<Start("tool_execution")>>, d + 1, n + 1, l)
<1> DEFINE b == <<Start("tool_execution")>>
<1> DEFINE v == Played(t, e)
<1> DEFINE u == Apply(v, Start("tool_execution"))
<1>1. "tool_execution" \in Operations
  BY DEF Operations
<1>2. e \in Seq(Events) /\ b \in Seq(Events) /\ d \in Int /\ n \in Nat
  BY <1>1, EventsAreEvents DEF Plays
<1>3. Played(v, b) = u /\ Plays(b, 1, 1, "none")
  BY <1>1, PlayedOne, StartPlays
<1>4. IsWell(v)
  BY DEF Plays, Leads
<1>5. Leads(v, u, 1, 1, "none") /\ Runs(u, {"tool_execution"}) /\ u.active = Last(u.running)
  BY <1>1, <1>4, StartingIsWell
<1> HIDE DEF u, b
<1>6. Played(t, e \o b) = u
  BY <1>2, <1>3, PlayedTogether
<1> HIDE DEF v
<1>7. u.running # <<>>
  BY <1>5, WellParts DEF Leads
<1>8. ToolIsActive(u)
  BY <1>5, <1>7 DEF ToolIsActive, Runs
<1>9. ASSUME d >= 0 PROVE Plays(e \o b, d + 1, n + 1, l)
  BY <1>3, <1>9, PlaysTogether, Zenon
<1> QED BY <1>6, <1>8, <1>9 DEF b

(* How many spans were started before a skill, at most.                    *)
LEMMA SpansBeforeBounds ==
    ASSUME Len(steps) \in Nat, Len(steps) <= 1
    PROVE  /\ SpansBefore \in Nat /\ SpansBefore <= 30
           /\ IsReviewed => SpansBefore = 10 + 20 * Len(steps)
           /\ ~IsReviewed => SpansBefore = 7
           /\ AgentSpans \in Nat /\ AgentSpans <= 11
           /\ IsReviewed => AgentSpans = 7
           /\ ~IsReviewed => AgentSpans = 11
<1>1. CASE IsReviewed
  BY <1>1 DEF SpansBefore, AgentSpans
<1>2. CASE ~IsReviewed
  BY <1>2 DEF SpansBefore, AgentSpans
<1> QED BY <1>1, <1>2

LEMMA SkillSpansAt ==
    ASSUME phase = "coordinate", at = "skill", Len(steps) \in Nat, Len(steps) <= 1
    PROVE  SpansStarted = SpansBefore + (IF SkillRuns THEN 2 ELSE 0)
               + (IF route = "mixed" /\ domain = "knowledge" THEN AgentSpans ELSE 0) + StageSpans
<1>1. SpansStarted = PathSpans
  BY DEF SpansStarted
<1> QED BY <1>1 DEF PathSpans

LEMMA EnterStep ==
    ASSUME TypeOK, TypeOK', PlaceInv, RoundInv, RunningInv, EnterSkill,
           NEW e \in EnterEvents, Observes(e)
    PROVE  RunningInv'
<1> DEFINE k == Len(SkillSpans)
<1> DEFINE s == SpansStarted
<1>1. /\ at = "skill" /\ stage = "idle" /\ phase = "coordinate"
      /\ steps \in Seq([status : Results, citations : SUBSET Citations])
      /\ Len(steps) \in Nat /\ Len(steps) <= 1
      /\ steps # <<>> => domain = "data" /\ "data" \in context /\ IsReviewed
  BY DEF EnterSkill, RoundInv, Observes, TypeOK, IsReviewed
<1>2. /\ config' = config /\ route' = route /\ phase' = "coordinate" /\ native' = RunsNative
      /\ RunsNative <=> ~IsReviewed
  BY <1>1 DEF EnterSkill, Observes, RunsNative, IsReviewed
<1>3. /\ k \in 0 .. 2
      /\ Depth + k = SkillDepth /\ Depth > 0
      /\ k # 0 => Depth = IF IsReviewed THEN 3 ELSE 2
      /\ Depth = SkillDepth => k = 0
      /\ ~MayPend
  <2>1. k = IF route = "mixed" /\ domain = "knowledge" THEN 0
            ELSE IF route = "mixed" /\ config.controlled THEN 2 ELSE 1
    BY DEF SkillSpans
  <2> HIDE DEF k
  <2> QED BY <1>1, <2>1 DEF Depth, PathDepth, IsReviewed, SkillRuns, ToolRuns, DataStages,
              KnowledgeStages, SkillDepth, MayPend
<1>4. /\ ~(route = "mixed" /\ domain = "knowledge") => s = SpansBefore
      /\ route = "mixed" /\ domain = "knowledge" => s = SpansBefore + 2 + AgentSpans
  <2>1. /\ SkillRuns <=> route = "mixed" /\ domain = "knowledge"
        /\ StageSpans = 0
    BY <1>1 DEF SkillRuns, StageSpans
  <2>2. s = SpansBefore + (IF SkillRuns THEN 2 ELSE 0)
               + (IF route = "mixed" /\ domain = "knowledge" THEN AgentSpans ELSE 0) + StageSpans
    BY <1>1, SkillSpansAt
  <2> HIDE DEF s
  <2>3. SpansBefore \in Nat /\ AgentSpans \in Nat
    BY <1>1, SpansBeforeBounds
  <2>4. CASE route = "mixed" /\ domain = "knowledge"
    BY <2>1, <2>2, <2>3, <2>4
  <2>5. CASE ~(route = "mixed" /\ domain = "knowledge")
    BY <2>1, <2>2, <2>3, <2>5
  <2> QED BY <2>4, <2>5
<1>5. s \in Nat /\ s <= 50 /\ SpansBefore \in Nat /\ AgentSpans \in Nat
  <2> HIDE DEF s
  <2>1. SpansBefore \in Nat /\ SpansBefore <= 30 /\ AgentSpans \in Nat /\ AgentSpans <= 11
    BY <1>1, SpansBeforeBounds
  <2> QED BY <1>4, <2>1
<1>6. IsWellHere /\ Len(trace.running) = Depth /\ trace.started <= s
  BY <1>1, <1>3, RunningParts
<1>7. at' = "review" => steps' # <<>>
  BY <1>1 DEF EnterSkill, SkillFails, MixedReturns, End
<1>8. /\ at' = "review" => Plays(Returned, -2, 0, "none")
      /\ at' # "review" => Returned = <<>>
      /\ Returned \in Seq(Events)
  BY <1>7, ReturnedPlays
<1>9. Plays(SkillSpans, k, k, "none") /\ SkillSpans \in Seq(Events) /\ k >= 0
  <2>1. k \in 0 .. Len(SkillSpans) /\ k >= 0
    <3>1. k = Len(SkillSpans)
      OBVIOUS
    <3> HIDE DEF k
    <3> QED BY <1>3, <3>1
  <2>2. /\ Plays(SubSeq(SkillSpans, 1, k), k, k, "none")
        /\ SubSeq(SkillSpans, 1, k) = SkillSpans /\ SkillSpans \in Seq(Events)
    BY <2>1, SkillSpansPlay
  <2> QED BY <2>1, <2>2
<1>10. CASE at' = "ended"
  <2>1. /\ outcome'.status = "failed" /\ outcome'.status \in Ends
        /\ trace' = Played(trace, Append(e, CompleteAll(outcome'.status)))
    BY <1>10, <1>1, OutcomeIsAnEnd
    DEF Observes, Record, EnterSkill, End, Result, SkillFails, MixedReturns
  <2>2. PICK n \in (k \div 2) .. k : e = SubSeq(SkillSpans, 1, n)
    BY <1>10 DEF EnterEvents
  <2>3. n \in 0 .. k
    <3>1. k \div 2 \in Nat
      <4> HIDE DEF k
      <4> QED BY <1>3
    <3> HIDE DEF k
    <3> QED BY <1>3, <3>1
  <2>4. Plays(e, n, n, "none")
    BY <2>2, <2>3, SkillSpansPlay
  <2>5. Len(trace.running) + n > 0 /\ s + n <= 57
    <3> HIDE DEF k, s
    <3>1. Len(trace.running) \in Nat /\ Len(trace.running) > 0
      BY <1>6, WellParts DEF IsWellHere
    <3> QED BY <1>3, <1>5, <2>3, <3>1
  <2> HIDE DEF s, k
  <2> QED BY <1>2, <1>5, <1>6, <1>10, <2>1, <2>4, <2>5, EndIsWell
<1>11. CASE at' = "review"
  <2>1. /\ SkillFails /\ stage' = "idle" /\ IsReviewed
        /\ steps' = Append(steps, Result("failed", {}))
    BY <1>1, <1>11 DEF EnterSkill, SkillFails, MixedReturns, End, IsReviewed
  <2>2. e = SkillSpans \o Returned
    <3>1. e = SkillSpans \o Returned \o <<>>
      BY <1>11, <2>1 DEF EnterEvents
    <3>2. SkillSpans \o Returned \in Seq(Events)
      BY <1>8, <1>9
    <3> QED BY <3>1, <3>2, PlaysNoMore
  <2>3. Plays(e, k - 2, k, "none")
    <3>1. k - 2 = k + (-2) /\ k = k + 0
      <4> HIDE DEF k
      <4> QED BY <1>3
    <3>2. Plays(SkillSpans \o Returned, k - 2, k, "none")
      <4> HIDE DEF k
      <4> QED BY <1>8, <1>9, <1>11, <3>1, PlaysTogether, Zenon
    <3> QED BY <2>2, <3>2
  <2>4. Depth' = 3 /\ SpansStarted' = 28 + 20 * Len(steps)
    <3>1. IsReviewed' /\ Len(steps') = Len(steps) + 1
      <4>1. Result("failed", {}) \in [status : Results, citations : SUBSET Citations]
        BY DEF Result, Results
      <4> QED BY <1>1, <1>2, <2>1, <4>1, LongerByOne DEF IsReviewed
    <3>2. Depth' = 3
      BY <1>2, <1>11, <2>1, <3>1
      DEF Depth, PathDepth, SkillRuns, ToolRuns, DataStages, KnowledgeStages
    <3>3. SpansStarted' = 8 + 20 * Len(steps')
      BY <1>2, <1>11 DEF SpansStarted, PathSpans
    <3> QED BY <1>1, <3>1, <3>2, <3>3
  <2>5. /\ Len(trace.running) + (k - 2) > 0 /\ Depth' = Len(trace.running) + (k - 2)
        /\ s + k <= SpansStarted' /\ SpansStarted' \in Nat
    <3>1. SkillDepth = 5
      BY <2>1 DEF SkillDepth
    <3>2. Depth + (k - 2) = 3
      <4>1. Depth \in Nat
        BY <1>6, WellParts DEF IsWellHere
      <4> HIDE DEF k
      <4> QED BY <1>3, <3>1, <4>1
    <3>3. s + k <= 28 + 20 * Len(steps)
      <4>1. s <= 19 + 20 * Len(steps) /\ AgentSpans = 7
        <5> HIDE DEF s
        <5>1. SpansBefore = 10 + 20 * Len(steps) /\ AgentSpans = 7
          BY <1>1, <2>1, SpansBeforeBounds
        <5> QED BY <1>1, <1>4, <5>1
      <4> HIDE DEF s, k
      <4> QED BY <1>1, <1>3, <1>5, <4>1
    <3>4. 28 + 20 * Len(steps) \in Nat
      BY <1>1
    <3> HIDE DEF k, s
    <3> QED BY <1>6, <2>4, <3>2, <3>3, <3>4
  <2>6. IsDoomed' \/ ~IsDoomed
    <3>1. ASSUME IsDoomed PROVE IsDoomed'
      <4>1. steps # <<>> /\ steps[1].status = "failed"
        BY <1>1, <3>1 DEF IsDoomed
      <4>2. steps' # <<>> /\ steps'[1] = steps[1]
        BY <1>1, <2>1, <4>1
      <4> QED BY <4>1, <4>2 DEF IsDoomed
    <3> QED BY <3>1
  <2>7. trace' = Played(trace, e) /\ phase' # "finished"
    BY <1>2, <1>11 DEF Observes, Record
  <2> HIDE DEF k, s
  <2>8. IsDoomed' \/ ("none" = "none" /\ ~IsDoomed)
    BY <2>6
  <2> QED BY <1>5, <1>6, <1>11, <2>3, <2>5, <2>7, <2>8, StepIsWell
<1>12. CASE at' \notin {"ended", "review"}
  <2>1. /\ at' = "skill" /\ domain' = domain /\ steps' = steps /\ steps = <<>>
        /\ \/ stage' = "select_tool" /\ RunsNative
           \/ stage' \in {"plan_data_query", "retrieve_evidence"} /\ ~RunsNative
    BY <1>1, <1>12
    DEF EnterSkill, SkillFails, MixedReturns, End, InstructionIsNew, FirstStage
  <2>2. Returned = <<>> /\ SkillSpans \o Returned = SkillSpans
    BY <1>8, <1>9, <1>12
  <2>3. trace' = Played(trace, e) /\ phase' # "finished"
    BY <1>2, <2>1 DEF Observes, Record
  <2>4. ~IsDoomed
    BY <1>1, <2>1 DEF IsDoomed
  <2>5. SkillRuns' /\ (IsReviewed' <=> IsReviewed) /\ AgentSpans' = AgentSpans /\ SpansBefore' = SpansBefore
    BY <1>2, <2>1 DEF SkillRuns, IsReviewed, AgentSpans, SpansBefore
  <2>6. CASE stage' = "select_tool"
    <3>1. e = SkillSpans
      <4>1. e = SkillSpans \o Returned \o <<>>
        BY <2>1, <2>6 DEF EnterEvents
      <4> QED BY <1>9, <2>2, <4>1, PlaysNoMore
    <3>2. Depth' = SkillDepth
      BY <1>2, <2>1, <2>5, <2>6
      DEF Depth, PathDepth, ToolRuns, DataStages, KnowledgeStages, SkillDepth
    <3>3. SpansStarted' = SpansBefore + 2
              + (IF route = "mixed" /\ domain = "knowledge" THEN AgentSpans ELSE 0) + 0
      BY <1>2, <2>1, <2>5, <2>6 DEF SpansStarted, PathSpans, StageSpans
    <3>4. /\ Len(trace.running) + k > 0 /\ Depth' = Len(trace.running) + k
          /\ s + k <= SpansStarted' /\ SpansStarted' \in Nat
      <4>1. /\ s + k <= SpansStarted' /\ SpansStarted' \in Nat
        <5>1. route = "mixed" /\ domain = "knowledge" => k = 0
          BY DEF SkillSpans
        <5> HIDE DEF k, s
        <5>2. CASE route = "mixed" /\ domain = "knowledge"
          BY <1>4, <1>5, <3>3, <5>1, <5>2
        <5>3. CASE ~(route = "mixed" /\ domain = "knowledge")
          BY <1>3, <1>4, <1>5, <3>3, <5>3
        <5> QED BY <5>2, <5>3
      <4>2. SkillDepth > 0
        BY DEF SkillDepth
      <4> HIDE DEF k, s
      <4> QED BY <1>3, <1>6, <3>2, <4>1, <4>2
    <3>5. Plays(e, k, k, "none")
      BY <1>9, <3>1
    <3> HIDE DEF k, s
    <3> QED BY <1>3, <1>5, <1>6, <2>3, <2>4, <2>6, <3>4, <3>5, StepIsWell
  <2>7. CASE stage' \in {"plan_data_query", "retrieve_evidence"}
    <3>1. e = SkillSpans \o <<Start("tool_execution")>>
      BY <2>1, <2>2, <2>7 DEF EnterEvents
    <3>2. Depth' = SkillDepth + 1
      BY <1>2, <2>1, <2>5, <2>7
      DEF Depth, PathDepth, ToolRuns, DataStages, KnowledgeStages, SkillDepth
    <3>3. native' = FALSE
      BY <1>2, <2>1, <2>7
    <3>4. SpansStarted' = SpansBefore + 2
              + (IF route = "mixed" /\ domain = "knowledge" THEN AgentSpans ELSE 0) + 1
      BY <1>2, <2>1, <2>5, <2>7, <3>3 DEF SpansStarted, PathSpans, StageSpans
    <3>5. /\ Len(trace.running) + (k + 1) > 0 /\ Depth' = Len(trace.running) + (k + 1)
          /\ s + (k + 1) <= SpansStarted' /\ SpansStarted' \in Nat /\ Len(trace.running) + k > 0
      <4>1. s + (k + 1) <= SpansStarted' /\ SpansStarted' \in Nat
        <5>1. route = "mixed" /\ domain = "knowledge" => k = 0
          BY DEF SkillSpans
        <5> HIDE DEF k, s
        <5>2. CASE route = "mixed" /\ domain = "knowledge"
          BY <1>4, <1>5, <3>4, <5>1, <5>2
        <5>3. CASE ~(route = "mixed" /\ domain = "knowledge")
          BY <1>3, <1>4, <1>5, <3>4, <5>3
        <5> QED BY <5>2, <5>3
      <4>2. SkillDepth > 0
        BY DEF SkillDepth
      <4>3. Depth \in Nat
        BY <1>6, WellParts DEF IsWellHere
      <4> HIDE DEF k, s
      <4> QED BY <1>3, <1>6, <3>2, <4>1, <4>2, <4>3
    <3> HIDE DEF k, s
    <3>6. Plays(e, k + 1, k + 1, "none") /\ ToolIsActive(Played(trace, e))
      BY <1>6, <1>9, <3>1, <3>5, ToolStarts DEF IsWellHere
    <3> QED BY <1>3, <1>5, <1>6, <2>3, <2>4, <3>5, <3>6, StepIsWell
  <2> QED BY <2>1, <2>6, <2>7
<1>13. at' \in Places
  BY DEF TypeOK
<1> QED BY <1>10, <1>11, <1>12

-----------------------------------------------------------------------------
(* The steps of an agent.                                                  *)

ToolStages == DataStages \cup KnowledgeStages

(* What holds when an agent's step is taken.                               *)
AgentRuns ==
    /\ IsWellHere /\ ~IsDoomed /\ phase' = "coordinate"
    /\ SkillDepth \in Nat /\ SkillDepth > 2
    /\ Len(trace.running) = IF stage \in ToolStages THEN SkillDepth + 1 ELSE SkillDepth
    /\ Depth' = IF stage' \in ToolStages THEN SkillDepth + 1 ELSE SkillDepth
    /\ StageSpans \in Nat /\ StageSpans' \in Nat
    /\ \E b \in Nat : trace.started <= b + StageSpans /\ SpansStarted' = b + StageSpans'

LEMMA StageSpansValues ==
    ASSUME stage \in Stages, native <=> ~IsReviewed
    PROVE  /\ StageSpans \in Nat
           /\ LET n == IF native THEN 2 ELSE 0
              IN  /\ stage \in {"idle", "select_tool"} => StageSpans = 0
                  /\ stage \in {"plan_data_query", "retrieve_evidence", "select_evidence"}
                        => StageSpans = n + 1
                  /\ stage = "execute_safe_query" => StageSpans = n + 2
                  /\ stage \in {"generate_data_answer", "review_answerability"}
                        => StageSpans = n + 3
                  /\ stage = "generate_answer" => StageSpans = n + 5
                  /\ stage = "copy_answer" => StageSpans = 9
                  /\ stage \in {"answered", "failed"} => StageSpans = IF native THEN 11 ELSE 7
<1>1. CASE native
  BY <1>1 DEF StageSpans, AgentSpans, Stages
<1>2. CASE ~native
  BY <1>2 DEF StageSpans, AgentSpans, Stages
<1> QED BY <1>1, <1>2

LEMMA StageSpansNext ==
    ASSUME stage' \in Stages, native' <=> ~IsReviewed'
    PROVE  /\ StageSpans' \in Nat
           /\ LET n == IF native' THEN 2 ELSE 0
              IN  /\ stage' \in {"idle", "select_tool"} => StageSpans' = 0
                  /\ stage' \in {"plan_data_query", "retrieve_evidence", "select_evidence"}
                        => StageSpans' = n + 1
                  /\ stage' = "execute_safe_query" => StageSpans' = n + 2
                  /\ stage' \in {"generate_data_answer", "review_answerability"}
                        => StageSpans' = n + 3
                  /\ stage' = "generate_answer" => StageSpans' = n + 5
                  /\ stage' = "copy_answer" => StageSpans' = 9
                  /\ stage' \in {"answered", "failed"} => StageSpans' = IF native' THEN 11 ELSE 7
<1>1. CASE native'
  BY <1>1 DEF StageSpans, AgentSpans, Stages
<1>2. CASE ~native'
  BY <1>2 DEF StageSpans, AgentSpans, Stages
<1> QED BY <1>1, <1>2

LEMMA AgentPlace ==
    ASSUME TypeOK, TypeOK', PlaceInv, RoundInv, RunAgent
    PROVE  /\ at = "skill" /\ UNCHANGED path /\ UNCHANGED native
           /\ stage \in Stages \ {"idle", "answered", "failed"}
           /\ stage' \in Stages \ {"idle", "select_tool"}
           /\ steps = <<>> /\ (native <=> ~IsReviewed) /\ (native' <=> ~IsReviewed')
<1>1. at = "skill" /\ UNCHANGED path /\ AgentStep(domain)
  BY DEF RunAgent
<1>2. /\ stage \in Stages \ {"idle", "answered", "failed"} /\ UNCHANGED native
      /\ stage' # "idle" /\ stage' # "select_tool"
  BY <1>1 DEF AgentStep, SelectTool, PlanDataQuery, ExecuteSafeQuery, GenerateDataAnswer,
              RetrieveEvidence, SelectEvidence, ReviewAnswerability, GenerateAnswer, CopyAnswer,
              Goto, Deliver, FirstStage, Stages
<1>3. stage' \in Stages /\ native \in BOOLEAN
  BY DEF TypeOK, AgentTypeOK
<1>4. steps = <<>> /\ (native <=> RunsNative)
  BY <1>1, <1>2 DEF RoundInv, PlaceInv
<1>5. (native <=> ~IsReviewed) /\ (IsReviewed' <=> IsReviewed)
  BY <1>1, <1>4 DEF RunsNative, IsReviewed, path
<1> QED BY <1>1, <1>2, <1>3, <1>4, <1>5

LEMMA AgentIsRunning ==
    ASSUME TypeOK, TypeOK', PlaceInv, RoundInv, RunningInv, RunAgent, phase = "coordinate",
           phase' = "coordinate"
    PROVE  AgentRuns
<1>1. /\ at = "skill" /\ UNCHANGED path /\ UNCHANGED native
      /\ stage \in Stages \ {"idle", "answered", "failed"}
      /\ stage' \in Stages \ {"idle", "select_tool"}
      /\ steps = <<>> /\ (native <=> ~IsReviewed) /\ (native' <=> ~IsReviewed')
  BY AgentPlace
<1>2. /\ IsReviewed' <=> IsReviewed
      /\ AgentSpans' = AgentSpans /\ SpansBefore' = SpansBefore
      /\ SkillRuns /\ SkillRuns' /\ ~MayPend /\ ~IsDoomed
      /\ at' = "skill" /\ route' = route /\ domain' = domain
  BY <1>1 DEF IsReviewed, AgentSpans, SpansBefore, SkillRuns, MayPend, IsDoomed, path
<1>3. /\ Depth = IF stage \in ToolStages THEN SkillDepth + 1 ELSE SkillDepth
      /\ SkillDepth \in Nat /\ SkillDepth > 2
  BY <1>1, <1>2 DEF Depth, PathDepth, ToolRuns, ToolStages, SkillDepth
<1>4. Depth' = IF stage' \in ToolStages THEN SkillDepth + 1 ELSE SkillDepth
  BY <1>1, <1>2 DEF Depth, PathDepth, ToolRuns, ToolStages, SkillDepth
<1>5. Depth > 0
  BY <1>3
<1>6. IsWellHere /\ Len(trace.running) = Depth /\ trace.started <= SpansStarted
  BY <1>2, <1>5, RunningParts
<1>7. StageSpans \in Nat /\ StageSpans' \in Nat
  BY <1>1, StageSpansValues, StageSpansNext
<1> DEFINE b == SpansBefore + 2 + (IF route = "mixed" /\ domain = "knowledge" THEN AgentSpans ELSE 0)
<1>8. Len(steps) = 0
  BY <1>1
<1>9. b \in Nat
  <2>1. SpansBefore \in Nat /\ AgentSpans \in Nat
    BY <1>8, SpansBeforeBounds
  <2> QED BY <2>1
<1>10. SpansStarted = b + StageSpans /\ SpansStarted' = b + StageSpans'
  <2>1. SpansStarted = SpansBefore + (IF SkillRuns THEN 2 ELSE 0)
               + (IF route = "mixed" /\ domain = "knowledge" THEN AgentSpans ELSE 0) + StageSpans
    BY <1>1, <1>8, SkillSpansAt
  <2>2. SpansStarted' = PathSpans' /\ PathSpans' = SpansBefore' + (IF SkillRuns' THEN 2 ELSE 0)
               + (IF route' = "mixed" /\ domain' = "knowledge" THEN AgentSpans' ELSE 0) + StageSpans'
    BY <1>2 DEF SpansStarted, PathSpans
  <2>3. SpansBefore \in Nat /\ AgentSpans \in Nat
    BY <1>8, SpansBeforeBounds
  <2>4. CASE route = "mixed" /\ domain = "knowledge"
    <3>1. SpansStarted = SpansBefore + 2 + AgentSpans + StageSpans
      BY <1>2, <2>1, <2>4
    <3>2. SpansStarted' = SpansBefore + 2 + AgentSpans + StageSpans'
      BY <1>2, <2>2, <2>4
    <3> QED BY <2>4, <3>1, <3>2
  <2>5. CASE ~(route = "mixed" /\ domain = "knowledge")
    <3>1. SpansStarted = SpansBefore + 2 + 0 + StageSpans
      BY <1>2, <2>1, <2>5
    <3>2. SpansStarted' = SpansBefore + 2 + 0 + StageSpans'
      BY <1>2, <2>2, <2>5
    <3> QED BY <2>5, <3>1, <3>2
  <2> QED BY <2>4, <2>5
<1> HIDE DEF b
<1>11. \E c \in Nat : trace.started <= c + StageSpans /\ SpansStarted' = c + StageSpans'
  BY <1>6, <1>9, <1>10
<1>12. Len(trace.running) = IF stage \in ToolStages THEN SkillDepth + 1 ELSE SkillDepth
  BY <1>3, <1>6
<1> QED BY <1>2, <1>3, <1>4, <1>6, <1>7, <1>11, <1>12 DEF AgentRuns

(* What is left to show of an agent's step.                                *)
LEMMA AgentLeads ==
    ASSUME AgentRuns, NEW d, NEW n \in Nat, NEW l, Leads(trace, trace', d, n, l),
           Depth' = Len(trace.running) + d, StageSpans + n <= StageSpans',
           (stage' = "failed" /\ at' = "skill") \/ l = "none",
           at' = "skill" /\ stage' \in {"plan_data_query", "retrieve_evidence"}
              => ToolIsActive(trace')
    PROVE  RunningInv'
<1>1. PICK b \in Nat : trace.started <= b + StageSpans /\ SpansStarted' = b + StageSpans'
  BY DEF AgentRuns
<1> DEFINE s == b + StageSpans
<1>2. IsWellHere /\ ~IsDoomed /\ phase' # "finished" /\ StageSpans \in Nat /\ StageSpans' \in Nat
  BY DEF AgentRuns
<1>3. s \in Nat /\ trace.started <= s /\ s + n <= SpansStarted' /\ SpansStarted' \in Nat
  <2> DEFINE p == StageSpans
  <2> DEFINE q == StageSpans'
  <2>1. p \in Nat /\ q \in Nat /\ p + n <= q /\ trace.started <= s /\ s = b + p
    BY <1>1, <1>2
  <2>2. SpansStarted' = b + q
    BY <1>1
  <2> HIDE DEF p, q, s
  <2> QED BY <2>1, <2>2
<1>4. IsDoomed' \/ (l = "none" /\ ~IsDoomed)
  BY <1>2 DEF IsDoomed
<1> HIDE DEF s
<1> QED BY <1>2, <1>3, <1>4, StepLeads

LEMMA ToolReturns ==
    ASSUME NEW x, NEW n, NEW l, Plays(x, 0, n, l),
           stage' \in Stages \ {"idle", "select_tool"}
    PROVE  Plays(x \o ToolReturned, IF stage' \in ToolStages THEN 0 ELSE -1, n, l)
<1>1. "completed" \in Ends /\ "failed" \in Ends
  BY DEF Ends
<1>2. x \in Seq(Events) /\ n \in Nat /\ -1 = 0 + (-1) /\ n = n + 0 /\ 0 >= 0
  BY DEF Plays
<1>3. ASSUME NEW status \in {"completed", "failed"}, ToolReturned = <<Complete(status)>>
      PROVE  Plays(x \o ToolReturned, -1, n, l)
  <2>1. Plays(<<Complete(status)>>, -1, 0, "none")
    BY <1>1, CompletePlays
  <2> QED BY <1>2, <1>3, <2>1, PlaysTogether, Zenon
<1>4. CASE stage' \in {"copy_answer", "answered", "failed"}
  <2>1. \E status \in {"completed", "failed"} : ToolReturned = <<Complete(status)>>
    BY <1>4 DEF ToolReturned
  <2>2. stage' \notin ToolStages
    BY <1>4 DEF ToolStages, DataStages, KnowledgeStages
  <2> QED BY <1>3, <2>1, <2>2
<1>5. CASE stage' \notin {"copy_answer", "answered", "failed"}
  <2>1. ToolReturned = <<>> /\ stage' \in ToolStages
    BY <1>5 DEF ToolReturned, ToolStages, DataStages, KnowledgeStages, Stages
  <2>2. x \o <<>> = x
    BY <1>2, PlaysNoMore
  <2> QED BY <2>1, <2>2
<1> QED BY <1>4, <1>5

LEMMA ToolStep ==
    ASSUME AgentRuns, stage \in ToolStages, stage' \in Stages \ {"idle", "select_tool"},
           NEW x, NEW n, NEW l, Plays(x, 0, n, l), trace' = Played(trace, x \o ToolReturned),
           StageSpans + n <= StageSpans',
           (stage' = "failed" /\ at' = "skill") \/ l = "none",
           stage' \notin {"plan_data_query", "retrieve_evidence"}
    PROVE  RunningInv'
<1> DEFINE d == IF stage' \in ToolStages THEN 0 ELSE -1
<1>1. Plays(x \o ToolReturned, d, n, l) /\ n \in Nat
  BY ToolReturns DEF Plays
<1>2. Depth' = Len(trace.running) + d /\ Len(trace.running) + d > 0
  BY DEF AgentRuns
<1> HIDE DEF d
<1>3. Leads(trace, trace', d, n, l)
  BY <1>1, <1>2 DEF Plays, AgentRuns, IsWellHere
<1> QED BY <1>1, <1>2, <1>3, AgentLeads

LEMMA NodePlays ==
    ASSUME NEW operation \in Operations, NEW failures \in SUBSET Failures,
           NEW e \in NodeEvents(operation, failures)
    PROVE  Plays(e, 0, 2, "none")
BY AnsweredPlays, FailedHere DEF NodeEvents

LEMMA SelectToolStep ==
    ASSUME TypeOK, TypeOK', PlaceInv, RoundInv, RunningInv, RunAgent, SelectTool(domain),
           NEW e \in AgentEvents, Observes(e)
    PROVE  RunningInv'
<1>1. /\ at = "skill" /\ UNCHANGED path /\ UNCHANGED native
      /\ stage' \in Stages \ {"idle", "select_tool"} /\ stage \in Stages
      /\ (native <=> ~IsReviewed) /\ (native' <=> ~IsReviewed')
  BY AgentPlace
<1>2. /\ stage = "select_tool" /\ native /\ native' /\ at' = "skill"
      /\ stage' \in {"plan_data_query", "retrieve_evidence", "failed"}
  BY <1>1 DEF SelectTool, PlaceInv, Goto, FirstStage, path
<1>3. AgentRuns
  BY AgentIsRunning DEF Observes
<1>4. StageSpans = 0 /\ (stage' = "failed" => StageSpans' = 11) /\ (stage' # "failed" => StageSpans' = 3)
  BY <1>1, <1>2, StageSpansValues, StageSpansNext
<1>5. e \in SelectionEvents /\ trace' = Played(trace, e)
  BY <1>2 DEF AgentEvents, Observes, Record
<1>6. /\ IsWell(trace) /\ Len(trace.running) = SkillDepth /\ SkillDepth \in Nat /\ SkillDepth > 2
      /\ Depth' = IF stage' = "failed" THEN SkillDepth ELSE SkillDepth + 1
  BY <1>2, <1>3 DEF AgentRuns, IsWellHere, ToolStages, DataStages, KnowledgeStages
<1>7. "tool_selection" \in Operations /\ {ProviderSpan("completed")} \in SUBSET Failures
  BY DEF Operations, Failures
<1>8. CASE stage' # "failed"
  <2>1. PICK x \in Answered("tool_selection") : e = x \o <<Start("tool_execution")>>
    BY <1>5, <1>8 DEF SelectionEvents
  <2>2. Plays(x, 0, 2, "none")
    BY <1>7, AnsweredPlays
  <2>3. Len(trace.running) + 0 > 0
    BY <1>6
  <2>4. ToolIsActive(trace') /\ Plays(e, 0 + 1, 2 + 1, "none")
    <3>1. IsWell(trace) /\ 0 >= 0
      BY <1>6
    <3>2. /\ ToolIsActive(Played(trace, x \o <<Start("tool_execution")>>))
          /\ Plays(x \o <<Start("tool_execution")>>, 0 + 1, 2 + 1, "none")
      BY <2>2, <2>3, <3>1, ToolStarts, Zenon
    <3> QED BY <1>5, <2>1, <3>2, Zenon
  <2>5. 0 + 1 = 1 /\ 2 + 1 = 3 /\ 3 \in Nat
    OBVIOUS
  <2>6. Plays(e, 1, 3, "none")
    BY <2>4, <2>5
  <2>7. Len(trace.running) + 1 > 0 /\ Depth' = Len(trace.running) + 1 /\ StageSpans + 3 <= StageSpans'
    BY <1>4, <1>6, <1>8
  <2>8. Leads(trace, trace', 1, 3, "none")
    BY <1>5, <1>6, <2>6, <2>7 DEF Plays
  <2> QED BY <1>3, <2>4, <2>5, <2>7, <2>8, AgentLeads
<1>9. CASE stage' = "failed" /\ (e = <<>> \/ e \in Failed("tool_selection", {ProviderSpan("completed")}))
  <2>1. PICK n \in {0, 2} : Plays(e, 0, n, "none")
    BY <1>7, <1>9, FailedHere, NothingPlays
  <2>2. /\ Len(trace.running) + 0 > 0 /\ Depth' = Len(trace.running) + 0
        /\ StageSpans + n <= StageSpans' /\ n \in Nat
    BY <1>4, <1>6, <1>9, <2>1
  <2>3. Leads(trace, trace', 0, n, "none")
    BY <1>5, <1>6, <2>1, <2>2 DEF Plays
  <2>4. ~(stage' \in {"plan_data_query", "retrieve_evidence"})
    BY <1>9
  <2> QED BY <1>3, <2>2, <2>3, <2>4, AgentLeads
<1>10. CASE stage' = "failed" /\ e = Unselected
  <2>1. IsPending(trace, trace', 2)
    BY <1>5, <1>6, <1>10, SelectionLeft
  <2>2. /\ Sound(trace') /\ Normal(trace') /\ Pending(trace') /\ Len((trace').running) = Depth'
        /\ (trace').started <= trace.started + 2
    BY <1>6, <1>10, <2>1 DEF IsPending
  <2>3. (trace').started <= SpansStarted'
    <3>1. PICK b \in Nat : trace.started <= b + StageSpans /\ SpansStarted' = b + StageSpans'
      BY <1>3 DEF AgentRuns
    <3>2. (trace').started \in Nat /\ trace.started \in Nat
      BY <1>6, <2>2, WellParts, TraceParts DEF Sound
    <3> QED BY <1>4, <1>10, <2>2, <3>1, <3>2
  <2>4. IsDoomed'
    BY <1>2, <1>10 DEF IsDoomed
  <2> QED BY <1>2, <1>10, <2>2, <2>3, <2>4 DEF RunningInv
<1>11. stage' = "failed" => \/ e = <<>> \/ e \in Failed("tool_selection", {ProviderSpan("completed")})
                            \/ e = Unselected
  BY <1>5 DEF SelectionEvents, Unselected
<1> QED BY <1>8, <1>9, <1>10, <1>11

LEMMA CopyStep ==
    ASSUME TypeOK, TypeOK', PlaceInv, RoundInv, RunningInv, RunAgent, CopyAnswer,
           NEW e \in AgentEvents, Observes(e)
    PROVE  RunningInv'
<1>1. /\ at = "skill" /\ UNCHANGED path /\ UNCHANGED native
      /\ stage' \in Stages \ {"idle", "select_tool"} /\ stage \in Stages
      /\ (native <=> ~IsReviewed) /\ (native' <=> ~IsReviewed')
  BY AgentPlace
<1>2. /\ stage = "copy_answer" /\ native /\ native' /\ at' = "skill"
      /\ stage' \in {"answered", "failed"}
  BY <1>1 DEF CopyAnswer, PlaceInv, Goto, path
<1>3. AgentRuns
  BY AgentIsRunning DEF Observes
<1>4. StageSpans = 9 /\ StageSpans' = 11
  BY <1>1, <1>2, StageSpansValues, StageSpansNext
<1>5. e \in NodeEvents("answer_generation", CopyFailures) /\ trace' = Played(trace, e)
  BY <1>2 DEF AgentEvents, Observes, Record
<1>6. /\ IsWell(trace) /\ Len(trace.running) + 0 > 0 /\ Depth' = Len(trace.running) + 0
  BY <1>2, <1>3 DEF AgentRuns, IsWellHere, ToolStages, DataStages, KnowledgeStages
<1>7. Plays(e, 0, 2, "none")
  <2>1. "answer_generation" \in Operations /\ CopyFailures \in SUBSET Failures
    BY FailuresAreFew DEF Operations, CopyFailures
  <2> QED BY <1>5, <2>1, NodePlays
<1>8. Leads(trace, trace', 0, 2, "none") /\ 2 \in Nat /\ StageSpans + 2 <= StageSpans'
  BY <1>4, <1>5, <1>6, <1>7 DEF Plays
<1>9. ~(stage' \in {"plan_data_query", "retrieve_evidence"})
  BY <1>2
<1> QED BY <1>3, <1>6, <1>8, <1>9, AgentLeads

(* A step of the agent behind a tool.                                      *)
LEMMA ToolEventsPlay ==
    ASSUME NEW x \in ToolEvents, stage \in ToolStages
    PROVE  \/ Plays(x, 0, 2, "none") /\ stage \in {"generate_data_answer", "generate_answer"}
           \/ Plays(x, 0, 2, "none") /\ stage \in {"select_evidence", "review_answerability"}
           \/ Plays(x, 0, 2, "some") /\ stage = "select_evidence" /\ stage' = "failed"
           \/ Plays(x, 0, 1, "none") /\ stage \in {"plan_data_query", "execute_safe_query"}
           \/ Plays(x, 0, 0, "none") /\ stage \in {"plan_data_query", "retrieve_evidence"}
           \/ x = Unlisted /\ stage = "plan_data_query" /\ stage' = "failed"
<1>1. /\ {"data_access", "answer_generation", "evidence_selection", "review"} \subseteq Operations
      /\ "completed" \in Ends /\ "failed" \in Ends
  BY DEF Operations, Ends
<1>2. /\ DataAnswerFailures \in SUBSET Failures /\ ReviewerFailures \in SUBSET Failures
      /\ GroundedAnswerFailures \in SUBSET Failures
  BY FailuresAreFew DEF DataAnswerFailures, ReviewerFailures, GroundedAnswerFailures
<1>3. CASE stage = "plan_data_query"
  <2>1. x \in PlanDataEvents
    BY <1>3 DEF ToolEvents
  <2>2. CASE stage' = "failed"
    <3>1. x \in Failures \/ x = Unlisted
      BY <2>1, <2>2, FailuresAreFew DEF PlanDataEvents, PlannerFailures
    <3>2. x \in Failures => Plays(x, 0, 0, "none") \/ Plays(x, 0, 1, "none")
      BY <1>1, NothingPlays, ProviderPlays DEF Failures
    <3> QED BY <1>3, <2>2, <3>1, <3>2
  <2>3. CASE stage' # "failed"
    <3>1. x = ProviderSpan("completed")
      BY <2>1, <2>3 DEF PlanDataEvents
    <3> QED BY <1>1, <1>3, <3>1, ProviderPlays
  <2> QED BY <2>2, <2>3
<1>4. CASE stage = "execute_safe_query"
  <2>1. \E status \in Ends : x = Seam("data_access", <<>>, status)
    BY <1>1, <1>4 DEF ToolEvents, DataAccessEvents
  <2> QED BY <1>1, <1>4, <2>1, PlainSeamPlays
<1>5. CASE stage = "generate_data_answer"
  BY <1>1, <1>2, <1>5, NodePlays DEF ToolEvents
<1>6. CASE stage = "retrieve_evidence"
  BY <1>6, NothingPlays DEF ToolEvents
<1>7. CASE stage = "select_evidence"
  <2>1. x \in NodeEvents("evidence_selection", SelectorFailures)
    BY <1>7 DEF ToolEvents
  <2>2. CASE stage' = "failed"
    BY <1>7, <2>1, <2>2, ListedPlays DEF NodeEvents, SelectorFailures
  <2>3. CASE stage' # "failed"
    BY <1>1, <1>7, <2>1, <2>3, AnsweredPlays DEF NodeEvents
  <2> QED BY <2>2, <2>3
<1>8. CASE stage = "review_answerability"
  <2>1. x \in AnswerabilityEvents
    BY <1>8 DEF ToolEvents
  <2>2. CASE selected = {}
    <3>1. Plays(x, 0, 1, "none") /\ 2 \in Nat /\ 1 <= 2
      BY <1>1, <2>1, <2>2, PlainSeamPlays DEF AnswerabilityEvents
    <3>2. Plays(x, 0, 2, "none")
      BY <3>1, PlaysMore, Zenon
    <3> QED BY <1>8, <3>2
  <2>3. CASE selected # {}
    BY <1>1, <1>2, <1>8, <2>1, <2>3, NodePlays DEF AnswerabilityEvents
  <2> QED BY <2>2, <2>3
<1>9. CASE stage = "generate_answer"
  BY <1>1, <1>2, <1>9, NodePlays DEF ToolEvents
<1> QED BY <1>3, <1>4, <1>5, <1>6, <1>7, <1>8, <1>9 DEF ToolStages, DataStages, KnowledgeStages
(* Where the agent behind a tool goes, and the spans that are left to it.  *)
LEMMA ToolGoesOn ==
    ASSUME TypeOK, TypeOK', PlaceInv, RoundInv, RunAgent, stage \in ToolStages
    PROVE  \/ stage' \in {"failed", IF native THEN "copy_answer" ELSE "answered"}
           \/ stage = "plan_data_query" /\ stage' = "execute_safe_query"
           \/ stage = "execute_safe_query" /\ stage' = "generate_data_answer"
           \/ stage = "retrieve_evidence" /\ stage' = "select_evidence"
           \/ stage = "select_evidence" /\ stage' = "review_answerability"
           \/ stage = "review_answerability" /\ stage' = "generate_answer"
<1>1. AgentStep(domain) /\ stage \notin {"select_tool", "copy_answer"}
  BY DEF RunAgent, ToolStages, DataStages, KnowledgeStages
<1> QED BY <1>1
    DEF AgentStep, SelectTool, PlanDataQuery, ExecuteSafeQuery, GenerateDataAnswer,
        RetrieveEvidence, SelectEvidence, ReviewAnswerability, GenerateAnswer, CopyAnswer,
        Goto, Deliver

LEMMA ToolBudget ==
    ASSUME TypeOK, TypeOK', PlaceInv, RoundInv, RunAgent, stage \in ToolStages
    PROVE  /\ stage \in {"generate_data_answer", "generate_answer", "select_evidence",
                         "review_answerability"} => StageSpans + 2 <= StageSpans'
           /\ stage \in {"plan_data_query", "execute_safe_query"} => StageSpans + 1 <= StageSpans'
           /\ StageSpans + 0 <= StageSpans'
           /\ stage' \notin {"plan_data_query", "retrieve_evidence"}
<1>1. /\ at = "skill" /\ UNCHANGED path /\ UNCHANGED native
      /\ stage' \in Stages /\ stage \in Stages
      /\ (native <=> ~IsReviewed) /\ (native' <=> ~IsReviewed')
  BY AgentPlace
<1> DEFINE p == StageSpans
<1> DEFINE q == StageSpans'
<1> DEFINE n == IF native THEN 2 ELSE 0
<1>2. /\ stage \in {"plan_data_query", "retrieve_evidence", "select_evidence"} => p = n + 1
      /\ stage = "execute_safe_query" => p = n + 2
      /\ stage \in {"generate_data_answer", "review_answerability"} => p = n + 3
      /\ stage = "generate_answer" => p = n + 5
  BY <1>1, StageSpansValues
<1>3. /\ stage' = "select_evidence" => q = n + 1
      /\ stage' = "execute_safe_query" => q = n + 2
      /\ stage' \in {"generate_data_answer", "review_answerability"} => q = n + 3
      /\ stage' = "generate_answer" => q = n + 5
      /\ stage' = "copy_answer" => q = 9
      /\ stage' \in {"answered", "failed"} => q = IF native THEN 11 ELSE 7
  BY <1>1, StageSpansNext
<1>4. stage \in {"plan_data_query", "execute_safe_query", "generate_data_answer",
                 "retrieve_evidence", "select_evidence", "review_answerability", "generate_answer"}
  BY DEF ToolStages, DataStages, KnowledgeStages
<1> HIDE DEF p, q
<1>5. CASE native
  BY <1>2, <1>3, <1>4, <1>5, ToolGoesOn DEF p, q
<1>6. CASE ~native
  BY <1>2, <1>3, <1>4, <1>6, ToolGoesOn DEF p, q
<1> QED BY <1>5, <1>6

LEMMA ToolRunStep ==
    ASSUME TypeOK, TypeOK', PlaceInv, RoundInv, RunningInv, RunAgent, stage \in ToolStages,
           NEW e \in AgentEvents, Observes(e)
    PROVE  RunningInv'
<1>1. at = "skill" /\ at' = "skill" /\ stage' \in Stages \ {"idle", "select_tool"}
  <2>1. at = "skill" /\ UNCHANGED path /\ stage' \in Stages \ {"idle", "select_tool"}
    BY AgentPlace
  <2> QED BY <2>1 DEF path
<1>2. AgentRuns
  BY AgentIsRunning DEF Observes
<1>3. PICK x \in ToolEvents : e = x \o ToolReturned
  BY DEF AgentEvents, ToolStages, DataStages, KnowledgeStages
<1>4. trace' = Played(trace, x \o ToolReturned)
  BY <1>1, <1>3 DEF Observes, Record
<1>5. /\ StageSpans + 0 <= StageSpans'
      /\ stage \in {"generate_data_answer", "generate_answer", "select_evidence",
                    "review_answerability"} => StageSpans + 2 <= StageSpans'
      /\ stage \in {"plan_data_query", "execute_safe_query"} => StageSpans + 1 <= StageSpans'
      /\ stage' \notin {"plan_data_query", "retrieve_evidence"}
  BY ToolBudget
<1>6. CASE x = Unlisted /\ stage = "plan_data_query" /\ stage' = "failed"
  <2>1. /\ IsWell(trace) /\ SkillDepth \in Nat /\ SkillDepth > 2
        /\ Len(trace.running) = SkillDepth + 1 /\ Depth' = SkillDepth
    BY <1>2, <1>6 DEF AgentRuns, IsWellHere, ToolStages, DataStages, KnowledgeStages
  <2>2. ToolIsActive(trace)
    BY <1>1, <1>6 DEF RunningInv, Observes
  <2>3. Runs(trace, {"routing", "tool_execution", "evidence_selection"}) /\ Len(trace.running) > 1
    BY <2>1, <2>2 DEF Runs, ToolIsActive
  <2>4. Leads(trace, Played(trace, Unlisted \o <<Complete("failed")>>), -1, 1, "some")
    BY <2>1, <2>3, CallerFails
  <2>5. Leads(trace, trace', -1, 1, "some")
    BY <1>4, <1>6, <2>4 DEF ToolReturned
  <2>6. Depth' = Len(trace.running) + -1 /\ 1 \in Nat /\ StageSpans + 1 <= StageSpans'
    BY <1>5, <1>6, <2>1
  <2>7. -1 \in Int
    OBVIOUS
  <2> HIDE DEF AgentRuns
  <2> QED BY <1>1, <1>2, <1>5, <1>6, <2>5, <2>6, AgentLeads
<1>7. ASSUME NEW n \in Nat, NEW l, Plays(x, 0, n, l), StageSpans + n <= StageSpans',
             stage' = "failed" \/ l = "none"
      PROVE  RunningInv'
  BY <1>1, <1>2, <1>4, <1>5, <1>7, ToolStep
<1>8. \/ Plays(x, 0, 2, "none") /\ StageSpans + 2 <= StageSpans'
      \/ Plays(x, 0, 2, "some") /\ StageSpans + 2 <= StageSpans' /\ stage' = "failed"
      \/ Plays(x, 0, 1, "none") /\ StageSpans + 1 <= StageSpans'
      \/ Plays(x, 0, 0, "none") /\ StageSpans + 0 <= StageSpans'
      \/ x = Unlisted /\ stage = "plan_data_query" /\ stage' = "failed"
  BY <1>3, <1>5, ToolEventsPlay
<1>9. 0 \in Nat /\ 1 \in Nat /\ 2 \in Nat
  OBVIOUS
<1> QED BY <1>6, <1>7, <1>8, <1>9

LEMMA AgentStepIsWell ==
    ASSUME TypeOK, TypeOK', PlaceInv, RoundInv, RunningInv, RunAgent,
           NEW e \in AgentEvents, Observes(e)
    PROVE  RunningInv'
<1>1. CASE SelectTool(domain)
  BY <1>1, SelectToolStep
<1>2. CASE CopyAnswer
  BY <1>2, CopyStep
<1>3. CASE ~SelectTool(domain) /\ ~CopyAnswer
  <2>1. stage \in ToolStages
    BY <1>3
    DEF RunAgent, AgentStep, PlanDataQuery, ExecuteSafeQuery, GenerateDataAnswer,
        RetrieveEvidence, SelectEvidence, ReviewAnswerability, GenerateAnswer,
        ToolStages, DataStages, KnowledgeStages
  <2> QED BY <2>1, ToolRunStep
<1> QED BY <1>1, <1>2, <1>3

-----------------------------------------------------------------------------
(* A skill is left.                                                        *)

LEMMA LeavePlace ==
    ASSUME TypeOK, TypeOK', PlaceInv, RoundInv, LeaveSkill
    PROVE  /\ at = "skill" /\ stage \in {"answered", "failed"} /\ stage' = "idle"
           /\ steps = <<>> /\ (native <=> ~IsReviewed) /\ UNCHANGED <<config, route>>
           /\ \/ at' = "ended" /\ outcome'.status = "failed"
              \/ at' = "ended" /\ outcome'.status = "completed" /\ stage = "answered"
              \/ /\ at' = "review" /\ IsReviewed /\ steps' = <<Result("failed", {})>>
              \/ /\ at' = "skill" /\ stage = "answered" /\ route = "mixed" /\ domain = "data"
                 /\ domain' = "knowledge" /\ steps' = steps
              \/ /\ at' = "synthesize" /\ stage = "answered" /\ route = "mixed"
                 /\ domain = "knowledge" /\ domain' = domain /\ steps' = steps
<1>1. /\ at = "skill" /\ stage \in {"answered", "failed"} /\ stage' = "idle"
      /\ UNCHANGED <<config, route>>
  BY DEF LeaveSkill, AgentIsDone
<1>2. steps = <<>> /\ (native <=> RunsNative)
  BY <1>1 DEF RoundInv, PlaceInv
<1>3. native <=> ~IsReviewed
  BY <1>2 DEF RunsNative, IsReviewed
<1>4. SkillFails => \/ at' = "ended" /\ outcome'.status = "failed"
                    \/ /\ at' = "review" /\ IsReviewed /\ steps' = <<Result("failed", {})>>
  BY <1>2 DEF SkillFails, MixedReturns, End, Result, IsReviewed
<1>5. CASE stage = "failed" \/ ~KeepsResult
  BY <1>1, <1>2, <1>3, <1>4, <1>5 DEF LeaveSkill
<1>6. CASE ~(stage = "failed" \/ ~KeepsResult)
  <2>1. /\ stage = "answered"
        /\ \/ at' = "ended" /\ outcome'.status = "completed"
           \/ /\ route = "mixed" /\ steps' = steps
              /\ \/ at' = "skill" /\ domain = "data" /\ domain' = "knowledge"
                 \/ at' = "synthesize" /\ domain # "data" /\ domain' = domain
    BY <1>6 DEF LeaveSkill, End, Result, StartSkill
  <2>2. domain \in {"data", "knowledge"}
    BY DEF TypeOK, Domains
  <2> QED BY <1>1, <1>2, <1>3, <2>1, <2>2
<1> QED BY <1>5, <1>6

LEMMA LeaveSpans ==
    ASSUME TypeOK, TypeOK', PlaceInv, RoundInv, LeaveSkill, phase = "coordinate"
    PROVE  /\ Depth = SkillDepth /\ SkillDepth = (IF native THEN 3 ELSE 5)
           /\ SpansStarted \in Nat
           /\ SpansBefore = (IF native THEN 7 ELSE 10) /\ AgentSpans = (IF native THEN 11 ELSE 7)
           /\ SpansStarted = (IF native THEN 20 ELSE 19)
                             + (IF route = "mixed" /\ domain = "knowledge" THEN AgentSpans ELSE 0)
<1>1. /\ at = "skill" /\ stage \in {"answered", "failed"} /\ steps = <<>>
      /\ (native <=> ~IsReviewed)
  BY LeavePlace
<1>2. Len(steps) = 0 /\ SkillRuns /\ ~ToolRuns
  BY <1>1 DEF SkillRuns, ToolRuns, DataStages, KnowledgeStages
<1>3. Depth = SkillDepth /\ SkillDepth = (IF native THEN 3 ELSE 5)
  BY <1>1, <1>2 DEF Depth, PathDepth, SkillDepth
<1>4. /\ SpansBefore = (IF native THEN 7 ELSE 10) /\ AgentSpans = (IF native THEN 11 ELSE 7)
      /\ StageSpans = AgentSpans
  BY <1>1, <1>2 DEF SpansBefore, AgentSpans, StageSpans
<1>5. SpansStarted = SpansBefore + (IF SkillRuns THEN 2 ELSE 0)
               + (IF route = "mixed" /\ domain = "knowledge" THEN AgentSpans ELSE 0) + StageSpans
  BY <1>1, <1>2, SkillSpansAt
<1>6. CASE native /\ route = "mixed" /\ domain = "knowledge"
  BY <1>2, <1>3, <1>4, <1>5, <1>6
<1>7. CASE native /\ ~(route = "mixed" /\ domain = "knowledge")
  BY <1>2, <1>3, <1>4, <1>5, <1>7
<1>8. CASE ~native /\ route = "mixed" /\ domain = "knowledge"
  BY <1>2, <1>3, <1>4, <1>5, <1>8
<1>9. CASE ~native /\ ~(route = "mixed" /\ domain = "knowledge")
  BY <1>2, <1>3, <1>4, <1>5, <1>9
<1> QED BY <1>6, <1>7, <1>8, <1>9

LEMMA PendingSkillEnds ==
    ASSUME TypeOK, TypeOK', PlaceInv, RoundInv, RunningInv, LeaveSkill, MayPend,
           NEW e \in {Returned}, Observes(e)
    PROVE  RunningInv'
<1>1. /\ at = "skill" /\ stage = "failed" /\ native /\ phase = "coordinate" /\ phase' = "coordinate"
      /\ at' = "ended" /\ outcome'.status = "failed" /\ stage' = "idle"
  BY LeavePlace DEF MayPend, Observes
<1>2. /\ Sound(trace) /\ Normal(trace) /\ Pending(trace) /\ Len(trace.running) = 3
      /\ trace.started <= SpansStarted /\ SpansStarted \in Nat /\ SpansStarted <= 31
  <2>1. Depth = 3 /\ SpansStarted \in Nat /\ SpansStarted <= 31
    BY <1>1, LeaveSpans
  <2> QED BY <1>1, <2>1 DEF RunningInv
<1>3. "failed" \in Ends /\ Len(trace.running) > 1 /\ Len(trace.running) > 0
  BY <1>2 DEF Ends
<1> DEFINE u == Apply(trace, CompleteAll("failed"))
<1>4. trace' = u
  <2>1. Returned = <<>> /\ CompleteAll("failed") \in Events
    BY <1>1, <1>3 DEF Returned, CompleteAll, Events, Statuses
  <2>2. Append(e, CompleteAll("failed")) = <<CompleteAll("failed")>>
    BY <2>1
  <2>3. trace' = Played(trace, <<CompleteAll("failed")>>)
    BY <1>1, <2>2 DEF Observes, Record
  <2> QED BY <2>3, PlayedOne
<1>5. IsWell(u) /\ Len(u.running) = 1 /\ u.started = trace.started
  BY <1>2, <1>3, EndingIsWell
<1> HIDE DEF u
<1>6. SpansStarted' = 57 /\ Depth' = 1 /\ ~MayPend' /\ IsDoomed'
  BY <1>1 DEF SpansStarted, PathSpans, Depth, MayPend, IsDoomed
<1>7. trace.started \in Nat
  BY <1>5, WellParts
<1>8. (trace').started <= SpansStarted'
  BY <1>2, <1>4, <1>5, <1>6, <1>7
<1>9. /\ Sound(trace') /\ Normal(trace') /\ Settled(trace') /\ Len((trace').running) = Depth'
  BY <1>4, <1>5, <1>6 DEF IsWell
<1> QED BY <1>1, <1>6, <1>8, <1>9 DEF RunningInv, MayPend

LEMMA LeaveStep ==
    ASSUME TypeOK, TypeOK', PlaceInv, RoundInv, RunningInv, LeaveSkill,
           NEW e \in {Returned}, Observes(e)
    PROVE  RunningInv'
<1> DEFINE s == SpansStarted
<1>1. /\ at = "skill" /\ stage \in {"answered", "failed"} /\ stage' = "idle"
      /\ steps = <<>> /\ (native <=> ~IsReviewed) /\ UNCHANGED <<config, route>>
      /\ phase = "coordinate" /\ phase' = "coordinate"
  BY LeavePlace DEF Observes
<1>2. /\ Depth = SkillDepth /\ SkillDepth = (IF native THEN 3 ELSE 5)
      /\ s \in Nat
      /\ SpansBefore = (IF native THEN 7 ELSE 10) /\ AgentSpans = (IF native THEN 11 ELSE 7)
      /\ s = (IF native THEN 20 ELSE 19)
              + (IF route = "mixed" /\ domain = "knowledge" THEN AgentSpans ELSE 0)
  BY <1>1, LeaveSpans
<1> HIDE DEF s
<1>3. CASE MayPend
  BY <1>3, PendingSkillEnds
<1>4. CASE ~MayPend
  <2>1. /\ IsWellHere /\ Len(trace.running) = SkillDepth /\ trace.started <= s
        /\ SkillDepth \in Nat /\ SkillDepth > 2
    <3>1. Depth > 0 /\ SkillDepth \in Nat /\ SkillDepth > 2
      BY <1>2
    <3> QED BY <1>1, <1>2, <1>4, <3>1, RunningParts DEF s
  <2>2. stage = "answered" => ~IsDoomed
    BY <1>1 DEF IsDoomed
  <2>3. s <= 31
    BY <1>2
  <2>4. Plays(<<>>, 0, 0, "none") /\ 0 \in Nat
    BY NothingPlays
  <2>5. CASE at' = "ended"
    <3>1. /\ outcome'.status \in Ends
          /\ outcome'.status # "completed" \/ ("none" = "none" /\ ~IsDoomed)
      BY <2>2, <2>5, LeavePlace, OutcomeIsAnEnd
    <3>2. e = <<>> /\ trace' = Played(trace, Append(e, CompleteAll(outcome'.status)))
      BY <2>5 DEF Returned, Observes, Record
    <3>3. Len(trace.running) + 0 > 0 /\ s + 0 <= 57
      BY <1>2, <2>1, <2>3
    <3> QED BY <1>1, <1>2, <2>1, <2>4, <2>5, <3>1, <3>2, <3>3, EndIsWell
  <2>6. CASE at' = "review"
    <3>1. IsReviewed /\ steps' = <<Result("failed", {})>> /\ ~native
      BY <1>1, <2>6, LeavePlace
    <3>2. IsDoomed'
      BY <3>1 DEF IsDoomed, Result
    <3>3. Plays(Returned, -2, 0, "none")
      BY <2>6, <3>1, ReturnedPlays
    <3>4. Len(steps') = 1 /\ IsReviewed'
      BY <1>1, <3>1 DEF IsReviewed
    <3>5. Depth' = 3 /\ SpansStarted' = 28
      <4>1. Depth' = 3
        BY <1>1, <2>6, <3>4 DEF Depth, PathDepth, SkillRuns, ToolRuns, DataStages, KnowledgeStages
      <4>2. SpansStarted' = 8 + 20 * Len(steps')
        BY <1>1, <2>6 DEF SpansStarted, PathSpans
      <4> QED BY <3>4, <4>1, <4>2
    <3>6. /\ Len(trace.running) + -2 > 0 /\ Depth' = Len(trace.running) + -2
          /\ s + 0 <= SpansStarted' /\ SpansStarted' \in Nat
      <4>1. SkillDepth = 5 /\ s <= 26
        BY <1>2, <3>1
      <4> QED BY <1>2, <2>1, <3>5, <4>1
    <3>7. trace' = Played(trace, Returned) /\ phase' # "finished"
      BY <1>1, <2>6 DEF Observes, Record
    <3>8. IsDoomed' \/ ("none" = "none" /\ ~IsDoomed)
      BY <3>2
    <3> QED BY <1>2, <2>1, <2>6, <3>3, <3>6, <3>7, <3>8, StepIsWell
  <2>7. CASE at' \in {"skill", "synthesize"}
    <3>1. /\ stage = "answered" /\ route = "mixed" /\ steps' = <<>> /\ domain' = "knowledge"
          /\ at' = "skill" => domain = "data"
          /\ at' = "synthesize" => domain = "knowledge"
      BY <1>1, <2>7, LeavePlace
    <3>2. /\ IsReviewed' <=> IsReviewed
          /\ AgentSpans' = AgentSpans /\ SpansBefore' = SpansBefore
          /\ SkillRuns' /\ ~ToolRuns' /\ route' = "mixed" /\ StageSpans' = 0
      BY <1>1, <2>7, <3>1
      DEF IsReviewed, AgentSpans, SpansBefore, SkillRuns, ToolRuns, DataStages, KnowledgeStages,
          StageSpans
    <3>3. Depth' = SkillDepth
      BY <1>1, <2>7, <3>1, <3>2 DEF Depth, PathDepth, SkillDepth
    <3>4. SpansStarted' = s
      <4>1. /\ at' = "skill" => SpansStarted' = SpansBefore + 2 + AgentSpans + 0
            /\ at' = "synthesize" => SpansStarted' = SpansBefore + 2 + 2 * AgentSpans
        BY <1>1, <3>1, <3>2 DEF SpansStarted, PathSpans
      <4>2. CASE at' = "skill"
        BY <1>2, <3>1, <4>1, <4>2
      <4>3. CASE at' = "synthesize"
        BY <1>2, <3>1, <4>1, <4>3
      <4> QED BY <2>7, <4>2, <4>3
    <3>5. trace' = Played(trace, <<>>) /\ phase' # "finished"
      BY <1>1, <2>7 DEF Observes, Record, Returned
    <3>6. /\ Len(trace.running) + 0 > 0 /\ Depth' = Len(trace.running) + 0
          /\ s + 0 <= SpansStarted' /\ SpansStarted' \in Nat
      BY <1>2, <2>1, <3>3, <3>4
    <3>7. IsDoomed' \/ ("none" = "none" /\ ~IsDoomed)
      BY <2>2, <3>1
    <3>8. ~(at' = "skill" /\ stage' \in {"plan_data_query", "retrieve_evidence"})
      BY <1>1
    <3> QED BY <1>2, <2>1, <2>4, <3>5, <3>6, <3>7, <3>8, StepIsWell
  <2> QED BY <2>5, <2>6, <2>7, LeavePlace
<1> QED BY <1>3, <1>4

-----------------------------------------------------------------------------
(* The synthesis of the mixed skill, and the review of the workflow.       *)

LEMMA SynthesisPlays ==
    ASSUME NEW e \in SynthesisEvents
    PROVE  e = Returned \/ \E x : e = x \o Returned /\ Plays(x, 0, 2, "none")
<1>1. "answer_generation" \in Operations /\ SynthesizerFailures \in SUBSET Failures
  BY FailuresAreFew DEF Operations, SynthesizerFailures
<1>2. CASE outcome'.status = "completed" \/ (at' = "review" /\ Last(steps').status = "completed")
  BY <1>1, <1>2, AnsweredPlays DEF SynthesisEvents
<1>3. CASE ~(outcome'.status = "completed" \/ (at' = "review" /\ Last(steps').status = "completed"))
  <2>1. \/ e = Returned
        \/ \E x \in Failed("answer_generation", SynthesizerFailures) : e = x \o Returned
    BY <1>3 DEF SynthesisEvents
  <2> QED BY <1>1, <2>1, FailedHere
<1> QED BY <1>2, <1>3

LEMMA SynthesizePlace ==
    ASSUME TypeOK, TypeOK', PlaceInv, RoundInv, Synthesize
    PROVE  /\ at = "synthesize" /\ stage = "idle" /\ stage' = "idle" /\ steps = <<>>
           /\ route = "mixed" /\ UNCHANGED <<config, route>>
           /\ \/ at' = "ended" /\ outcome'.status \in {"completed", "failed"}
              \/ at' = "review" /\ IsReviewed /\ Len(steps') = 1 /\ steps' # <<>>
<1>1. /\ at = "synthesize" /\ stage = "idle" /\ stage' = "idle" /\ steps = <<>>
      /\ route = "mixed" /\ UNCHANGED <<config, route>>
  BY DEF Synthesize, PlaceInv, RoundInv
<1>2. SkillFails => \/ at' = "ended" /\ outcome'.status = "failed"
                    \/ at' = "review" /\ IsReviewed /\ steps' = <<Result("failed", {})>>
  BY <1>1 DEF SkillFails, MixedReturns, End, Result, IsReviewed
<1>3. \A citations : MixedReturns("completed", citations) =>
         \/ at' = "ended" /\ outcome'.status = "completed"
         \/ at' = "review" /\ IsReviewed /\ steps' = <<Result("completed", citations)>>
  BY <1>1 DEF MixedReturns, End, Result, IsReviewed
<1>4. \A r : Len(<<r>>) = 1 /\ <<r>> # <<>>
  OBVIOUS
<1> QED BY <1>1, <1>2, <1>3, <1>4 DEF Synthesize, End, Result

LEMMA SynthesizeStep ==
    ASSUME TypeOK, TypeOK', PlaceInv, RoundInv, RunningInv, Synthesize,
           NEW e \in SynthesisEvents, Observes(e)
    PROVE  RunningInv'
<1> DEFINE s == SpansStarted
<1>1. /\ at = "synthesize" /\ stage = "idle" /\ stage' = "idle" /\ steps = <<>>
      /\ route = "mixed" /\ UNCHANGED <<config, route>>
      /\ phase = "coordinate" /\ phase' = "coordinate" /\ ~IsDoomed /\ ~MayPend
  BY SynthesizePlace DEF Observes, IsDoomed, MayPend
<1>2. /\ Depth = (IF IsReviewed THEN 5 ELSE 3)
      /\ s = (IF IsReviewed THEN 26 ELSE 31)
  <2>1. Len(steps) = 0
    BY <1>1
  <2>2. s = SpansBefore + 2 + 2 * AgentSpans
    BY <1>1 DEF SpansStarted, PathSpans
  <2>3. SpansBefore = (IF IsReviewed THEN 10 ELSE 7) /\ AgentSpans = (IF IsReviewed THEN 7 ELSE 11)
    BY <2>1 DEF SpansBefore, AgentSpans
  <2>4. Depth = (IF IsReviewed THEN 5 ELSE 3)
    BY <1>1 DEF Depth, PathDepth, SkillRuns, ToolRuns, DataStages, KnowledgeStages
  <2> HIDE DEF s
  <2>5. CASE IsReviewed
    BY <2>2, <2>3, <2>4, <2>5
  <2>6. CASE ~IsReviewed
    BY <2>2, <2>3, <2>4, <2>6
  <2> QED BY <2>5, <2>6
<1> HIDE DEF s
<1>3. IsWellHere /\ Len(trace.running) = Depth /\ trace.started <= s /\ s \in Nat
  <2>1. Depth > 0 /\ s \in Nat
    BY <1>2
  <2> QED BY <1>1, <2>1, RunningParts DEF s
<1>4. CASE at' = "ended"
  <2>1. outcome'.status \in Ends /\ ("none" = "none" /\ ~IsDoomed)
    BY <1>1, OutcomeIsAnEnd
  <2>2. trace' = Played(trace, Append(e, CompleteAll(outcome'.status)))
    BY <1>4 DEF Observes, Record
  <2>3. Plays(e, 0, 2, "none") \/ Plays(e, 0, 0, "none")
    <3>1. Returned = <<>>
      BY <1>4 DEF Returned
    <3>2. CASE e = Returned
      BY <3>1, <3>2, NothingPlays
    <3>3. CASE \E x : e = x \o Returned /\ Plays(x, 0, 2, "none")
      <4>1. PICK x : e = x \o Returned /\ Plays(x, 0, 2, "none")
        BY <3>3
      <4>2. x \in Seq(Events)
        BY <4>1 DEF Plays
      <4>3. e = x
        BY <3>1, <4>1, <4>2, PlaysNoMore
      <4> QED BY <4>1, <4>3
    <3> QED BY <3>2, <3>3, SynthesisPlays
  <2>4. Len(trace.running) + 0 > 0 /\ s + 0 <= 57 /\ s + 2 <= 57
    BY <1>2, <1>3
  <2>5. CASE Plays(e, 0, 2, "none")
    BY <1>1, <1>3, <1>4, <2>1, <2>2, <2>4, <2>5, EndIsWell
  <2>6. CASE Plays(e, 0, 0, "none")
    BY <1>1, <1>3, <1>4, <2>1, <2>2, <2>4, <2>6, EndIsWell
  <2> QED BY <2>3, <2>5, <2>6
<1>5. CASE at' = "review"
  <2>1. IsReviewed /\ Len(steps') = 1 /\ steps' # <<>>
    BY <1>5, SynthesizePlace
  <2>2. Plays(Returned, -2, 0, "none")
    BY <1>5, <2>1, ReturnedPlays
  <2>3. trace' = Played(trace, e) /\ phase' # "finished"
    BY <1>1, <1>5 DEF Observes, Record
  <2>4. Depth' = 3 /\ SpansStarted' = 28
    <3>1. Depth' = 3
      BY <1>1, <1>5, <2>1
      DEF Depth, PathDepth, SkillRuns, ToolRuns, DataStages, KnowledgeStages, IsReviewed
    <3>2. SpansStarted' = 8 + 20 * Len(steps')
      BY <1>1, <1>5 DEF SpansStarted, PathSpans
    <3> QED BY <2>1, <3>1, <3>2
  <2>5. Plays(e, -2, 2, "none") \/ Plays(e, -2, 0, "none")
    <3>1. CASE e = Returned
      BY <2>2, <3>1
    <3>2. CASE \E x : e = x \o Returned /\ Plays(x, 0, 2, "none")
      <4>1. PICK x : e = x \o Returned /\ Plays(x, 0, 2, "none")
        BY <3>2
      <4>2. -2 = 0 + -2 /\ 2 = 2 + 0 /\ 0 >= 0
        OBVIOUS
      <4>3. Plays(x \o Returned, -2, 2, "none")
        BY <2>2, <4>1, <4>2, PlaysTogether, Zenon
      <4> QED BY <4>1, <4>3
    <3> QED BY <3>1, <3>2, SynthesisPlays
  <2>6. /\ Len(trace.running) + -2 > 0 /\ Depth' = Len(trace.running) + -2
        /\ s + 0 <= SpansStarted' /\ s + 2 <= SpansStarted' /\ SpansStarted' \in Nat
    BY <1>2, <1>3, <2>1, <2>4
  <2>7. IsDoomed' \/ ("none" = "none" /\ ~IsDoomed)
    BY <1>1
  <2>8. CASE Plays(e, -2, 2, "none")
    BY <1>3, <1>5, <2>3, <2>6, <2>7, <2>8, StepIsWell
  <2>9. CASE Plays(e, -2, 0, "none")
    BY <1>3, <1>5, <2>3, <2>6, <2>7, <2>9, StepIsWell
  <2> QED BY <2>5, <2>8, <2>9
<1> QED BY <1>4, <1>5, SynthesizePlace

LEMMA ReviewPlays ==
    ASSUME NEW e \in ReviewEvents
    PROVE  \/ Plays(e, 0, 2, "none")
           \/ /\ Plays(e, -1, 2, "none")
              /\ verdicts' # verdicts /\ Last(verdicts') = "unanswerable"
<1>1. "workflow_review" \in Operations /\ WorkflowFailures \in SUBSET Failures
  BY FailuresAreFew DEF Operations, WorkflowFailures
<1>2. CASE verdicts' = verdicts
  BY <1>1, <1>2, FailedHere DEF ReviewEvents
<1>3. CASE verdicts' # verdicts /\ Last(verdicts') # "unanswerable"
  <2>1. PICK x \in Answered("workflow_review") : e = x \o <<>>
    BY <1>3 DEF ReviewEvents
  <2>2. Plays(x, 0, 2, "none")
    BY <1>1, AnsweredPlays
  <2>3. e = x
    BY <2>1, <2>2, PlaysNoMore DEF Plays
  <2> QED BY <2>2, <2>3
<1>4. CASE verdicts' # verdicts /\ Last(verdicts') = "unanswerable"
  <2>1. PICK x \in Answered("workflow_review") : e = x \o <<Complete("completed")>>
    BY <1>4 DEF ReviewEvents
  <2>2. Plays(x, 0, 2, "none")
    BY <1>1, AnsweredPlays
  <2>3. Plays(<<Complete("completed")>>, -1, 0, "none")
    BY CompletePlays DEF Ends
  <2>4. -1 = 0 + -1 /\ 2 = 2 + 0 /\ 0 >= 0
    OBVIOUS
  <2>5. Plays(x \o <<Complete("completed")>>, -1, 2, "none")
    BY <2>2, <2>3, <2>4, PlaysTogether, Zenon
  <2> QED BY <1>4, <2>1, <2>5
<1> QED BY <1>2, <1>3, <1>4

LEMMA ReviewPlace ==
    ASSUME TypeOK, TypeOK', PlaceInv, RoundInv, ReviewWorkflow
    PROVE  /\ at = "review" /\ stage = "idle" /\ stage' = "idle" /\ IsReviewed
           /\ UNCHANGED <<config, route, steps>> /\ Len(steps) \in 1 .. 2
           /\ \/ at' = "ended" /\ outcome'.status = "failed"
              \/ at' = "ended" /\ outcome'.status = "completed" /\ ~IsDoomed
              \/ at' = "skill" /\ domain' = "data" /\ Last(verdicts') = "repair"
<1>1. /\ at = "review" /\ stage = "idle" /\ stage' = "idle" /\ IsReviewed
      /\ UNCHANGED <<config, route, steps>>
  BY DEF ReviewWorkflow, PlaceInv, IsReviewed
<1>2. /\ Len(steps) = Len(verdicts) + 1 /\ Len(steps) <= 2
      /\ Len(steps) > 1 => steps[2].status = "failed"
      /\ steps \in Seq([status : Results, citations : SUBSET Citations])
      /\ verdicts \in Seq(Verdicts)
  BY <1>1 DEF RoundInv, TypeOK
<1>3. Len(steps) \in 1 .. 2 /\ DOMAIN steps = 1 .. Len(steps)
  BY <1>2
<1>4. ASSUME CompletedRounds # {} PROVE ~IsDoomed
  <2>1. PICK i \in DOMAIN steps : steps[i].status = "completed"
    BY <1>4 DEF CompletedRounds
  <2>2. steps[1].status # "failed"
    <3>1. CASE i = 1
      BY <2>1, <3>1
    <3>2. CASE i # 1
      BY <1>2, <1>3, <2>1, <3>2
    <3> QED BY <3>1, <3>2
  <2> QED BY <1>1, <2>2 DEF IsDoomed
<1>5. Accept => \/ at' = "ended" /\ outcome'.status = "failed"
                \/ at' = "ended" /\ outcome'.status = "completed" /\ ~IsDoomed
  BY <1>4 DEF Accept, End, Result
<1>6. Repair => \/ at' = "ended" /\ outcome'.status = "failed"
                \/ at' = "skill" /\ domain' = "data"
  BY DEF Repair, End, Result, StartSkill
<1>7. \A verdict \in Verdicts : verdicts' = Append(verdicts, verdict) => Last(verdicts') = verdict
  BY <1>2 DEF Last
<1>8. CASE Useless /\ End("failed", {})
  BY <1>1, <1>3, <1>8 DEF End, Result
<1>9. CASE \E verdict \in Verdicts :
             /\ verdicts' = Append(verdicts, verdict)
             /\ \/ verdict = "accept" /\ Accept
                \/ verdict = "repair" /\ Repair
                \/ verdict \in {"unanswerable", "fail_closed"} /\ End("failed", {})
  BY <1>1, <1>3, <1>5, <1>6, <1>7, <1>9 DEF End, Result
<1> QED BY <1>8, <1>9 DEF ReviewWorkflow

LEMMA ReviewStep ==
    ASSUME TypeOK, TypeOK', PlaceInv, RoundInv, RunningInv, ReviewWorkflow,
           NEW e \in ReviewEvents, Observes(e)
    PROVE  RunningInv'
<1> DEFINE s == 8 + 20 * Len(steps)
<1>1. /\ at = "review" /\ stage = "idle" /\ stage' = "idle" /\ IsReviewed
      /\ UNCHANGED <<config, route, steps>> /\ Len(steps) \in 1 .. 2
      /\ phase = "coordinate" /\ phase' = "coordinate" /\ ~MayPend
  BY ReviewPlace DEF Observes, MayPend
<1>2. Depth = 3 /\ SpansStarted = s /\ s \in Nat /\ s <= 48
  <2>1. Depth = 3
    BY <1>1 DEF Depth, PathDepth, SkillRuns, ToolRuns, DataStages, KnowledgeStages
  <2>2. SpansStarted = s
    BY <1>1 DEF SpansStarted, PathSpans
  <2>3. s \in Nat /\ s <= 48
    <3> DEFINE k == Len(steps)
    <3>1. k \in 1 .. 2
      BY <1>1
    <3>2. s = 8 + 20 * k
      OBVIOUS
    <3> HIDE DEF k, s
    <3> QED BY <3>1, <3>2
  <2> QED BY <2>1, <2>2, <2>3
<1>3. IsWellHere /\ Len(trace.running) = 3 /\ trace.started <= s
  <2>1. Depth > 0
    BY <1>2
  <2> QED BY <1>1, <1>2, <2>1, RunningParts
<1> HIDE DEF s
<1>4. CASE at' = "ended"
  <2>1. /\ outcome'.status \in Ends
        /\ outcome'.status # "completed" \/ ("none" = "none" /\ ~IsDoomed)
        /\ trace' = Played(trace, Append(e, CompleteAll(outcome'.status)))
    BY <1>4, OutcomeIsAnEnd, ReviewPlace DEF Observes, Record
  <2>2. Len(trace.running) + 0 > 0 /\ Len(trace.running) + -1 > 0 /\ s + 2 <= 57
    BY <1>2, <1>3
  <2>3. CASE Plays(e, 0, 2, "none")
    BY <1>1, <1>2, <1>3, <1>4, <2>1, <2>2, <2>3, EndIsWell
  <2>4. CASE Plays(e, -1, 2, "none")
    BY <1>1, <1>2, <1>3, <1>4, <2>1, <2>2, <2>4, EndIsWell
  <2> QED BY <2>3, <2>4, ReviewPlays
<1>5. CASE at' = "skill"
  <2>1. domain' = "data" /\ Last(verdicts') = "repair"
    BY <1>5, ReviewPlace
  <2>2. Plays(e, 0, 2, "none")
    BY <2>1, ReviewPlays
  <2>3. trace' = Played(trace, e) /\ phase' # "finished"
    BY <1>1, <1>5 DEF Observes, Record
  <2>4. Depth' = 3
    BY <1>1, <1>5, <2>1
    DEF Depth, PathDepth, SkillRuns, ToolRuns, DataStages, KnowledgeStages, IsReviewed
  <2>5. SpansStarted' = 10 + 20 * Len(steps)
    <3>1. /\ SpansStarted' = PathSpans' /\ ~SkillRuns' /\ IsReviewed' /\ StageSpans' = 0
      BY <1>1, <1>5, <2>1 DEF SpansStarted, SkillRuns, IsReviewed, StageSpans
    <3>2. SpansBefore' = 10 + 20 * Len(steps)
      BY <1>1, <3>1 DEF SpansBefore
    <3>3. PathSpans' = SpansBefore' + 0 + 0 + StageSpans'
      BY <1>5, <2>1, <3>1 DEF PathSpans
    <3> QED BY <1>1, <3>1, <3>2, <3>3
  <2>6. /\ Len(trace.running) + 0 > 0 /\ Depth' = Len(trace.running) + 0
        /\ s + 2 <= SpansStarted' /\ SpansStarted' \in Nat
    BY <1>1, <1>3, <2>4, <2>5 DEF s
  <2>7. IsDoomed' \/ ("none" = "none" /\ ~IsDoomed)
    BY <1>1 DEF IsDoomed
  <2>8. ~(at' = "skill" /\ stage' \in {"plan_data_query", "retrieve_evidence"})
    BY <1>1
  <2> QED BY <1>2, <1>3, <2>2, <2>3, <2>6, <2>7, <2>8, StepIsWell
<1> QED BY <1>4, <1>5, ReviewPlace

-----------------------------------------------------------------------------
(* How the trace of a request ends.                                        *)

(* u is t with some spans completed.                                       *)
Completes(t, u, ids, status) ==
    /\ u \in TraceType /\ u.refused = t.refused /\ u.limit = t.limit /\ u.started = t.started
    /\ u.running = t.running /\ u.dropped = t.dropped \ ids
    /\ u.active = IF t.active \in ids THEN NoSpan ELSE t.active
    /\ Len(u.spans) = Len(t.spans) /\ DOMAIN u.spans = DOMAIN t.spans
    /\ \A i \in DOMAIN t.spans :
          /\ u.spans[i].id = t.spans[i].id
          /\ u.spans[i].parent = t.spans[i].parent
          /\ u.spans[i].operation = t.spans[i].operation
          /\ u.spans[i].status = IF i \in ids /\ t.spans[i].status = "open"
                                 THEN status ELSE t.spans[i].status

LEMMA CompletedSpans ==
    ASSUME NEW t \in TraceType, IsTree(t), NEW ids, NEW status \in Statuses
    PROVE  Completes(t, CompleteSpans(t, ids, status), ids, status)
<1> DEFINE dropped == t.dropped \ ids
<1> DEFINE active == IF t.active \in ids THEN NoSpan ELSE t.active
<1> DEFINE spans ==
        [i \in DOMAIN t.spans |->
            IF t.spans[i].id \in ids /\ t.spans[i].status = "open"
            THEN [t.spans[i] EXCEPT !.status = status]
            ELSE t.spans[i]]
<1> DEFINE c == CompleteSpans(t, ids, status)
<1>1. c = [t EXCEPT !.dropped = dropped, !.active = active, !.spans = spans]
  BY DEF CompleteSpans, TraceType
<1>2. /\ t.spans \in Seq(Span) /\ Len(t.spans) \in Nat /\ DOMAIN t.spans = 1 .. Len(t.spans)
      /\ \A i \in DOMAIN t.spans : t.spans[i] \in Span /\ t.spans[i].id = i
  BY TraceParts DEF IsTree
<1>3. \A i \in DOMAIN t.spans :
          /\ spans[i] \in Span
          /\ spans[i].id = t.spans[i].id
          /\ spans[i].parent = t.spans[i].parent
          /\ spans[i].operation = t.spans[i].operation
          /\ spans[i].status = IF i \in ids /\ t.spans[i].status = "open"
                               THEN status ELSE t.spans[i].status
  BY <1>2 DEF Span
<1>4. spans \in [1 .. Len(t.spans) -> Span]
  BY <1>2, <1>3
<1>5. spans \in Seq(Span) /\ Len(spans) = Len(t.spans) /\ DOMAIN spans = DOMAIN t.spans
  BY <1>2, <1>4
<1>6. dropped \subseteq Nat /\ active \in Nat
  BY TraceParts DEF NoSpan
<1>7. dropped = t.dropped \ ids /\ active = IF t.active \in ids THEN NoSpan ELSE t.active
  OBVIOUS
<1> HIDE DEF dropped, active, spans, c
<1>8. /\ c \in TraceType
      /\ c.dropped = dropped /\ c.active = active /\ c.spans = spans /\ c.running = t.running
      /\ c.limit = t.limit /\ c.started = t.started /\ c.refused = t.refused
  BY <1>1, <1>5, <1>6 DEF TraceType
<1>9. Completes(t, c, ids, status)
  BY <1>3, <1>5, <1>7, <1>8 DEF Completes
<1> QED BY <1>9 DEF c

(* w is what becomes of u when its running seams end with a status and its *)
(* trace is finished.                                                      *)
Ended(u, w, status) ==
    /\ ~w.refused /\ w.limit = u.limit /\ w.started = u.started
    /\ Len(w.spans) = Len(u.spans) /\ DOMAIN w.spans = DOMAIN u.spans
    /\ \A i \in DOMAIN u.spans :
          /\ w.spans[i].id = u.spans[i].id
          /\ w.spans[i].parent = u.spans[i].parent
          /\ w.spans[i].operation = u.spans[i].operation
          /\ w.spans[i].status =
                IF u.spans[i].status # "open" THEN u.spans[i].status
                ELSE IF i \in Upper(u, 0) THEN status ELSE "unclosed"

LEMMA FinalizeEnds ==
    ASSUME NEW t \in TraceType, IsTree(t), ~t.refused
    PROVE  Ended(t, Apply(t, Finalize), "unclosed")
<1> DEFINE w == CompleteSpans(t, Recorded(t), "unclosed")
<1>1. Apply(t, Finalize) = w
  <2>1. Apply(t, Finalize) = AppliedTo(t, "finalize", "unclosed")
    BY Applies DEF Finalize
  <2> QED BY <2>1 DEF AppliedTo
<1>2. "unclosed" \in Statuses
  BY DEF Statuses
<1>3. Completes(t, w, Recorded(t), "unclosed")
  BY <1>2, CompletedSpans
<1>4. \A i \in DOMAIN t.spans : i \in Recorded(t)
  BY DEF IsTree, Recorded
<1> HIDE DEF w
<1>5. /\ ~w.refused /\ w.limit = t.limit /\ w.started = t.started
      /\ Len(w.spans) = Len(t.spans) /\ DOMAIN w.spans = DOMAIN t.spans
      /\ \A i \in DOMAIN t.spans :
            /\ w.spans[i].id = t.spans[i].id
            /\ w.spans[i].parent = t.spans[i].parent
            /\ w.spans[i].operation = t.spans[i].operation
            /\ w.spans[i].status = IF t.spans[i].status = "open"
                                   THEN "unclosed" ELSE t.spans[i].status
  BY <1>3, <1>4 DEF Completes
<1> QED BY <1>1, <1>5 DEF Ended

(* The request's seam ends, and then its trace.                            *)
LEMMA ClosedAndEnded ==
    ASSUME NEW u, Sound(u), NEW c, Sound(c), NEW status \in Statuses \ {"open"},
           u.running # <<>>, c.running # <<>>,
           c.started = u.started, c.limit = u.limit, DOMAIN c.spans = DOMAIN u.spans,
           Len(c.spans) = Len(u.spans), Upper(c, 0) \subseteq Upper(u, 0),
           \A i \in DOMAIN u.spans :
              /\ c.spans[i].id = u.spans[i].id
              /\ c.spans[i].parent = u.spans[i].parent
              /\ c.spans[i].operation = u.spans[i].operation
              /\ c.spans[i].status =
                    IF i \in Upper(u, 0) \ Upper(c, 0) /\ u.spans[i].status = "open"
                    THEN status ELSE u.spans[i].status
    PROVE  Len(c.running) = 1 =>
             Ended(u, Apply(Apply(c, Complete(status)), Finalize), status)
<1> SUFFICES ASSUME Len(c.running) = 1
             PROVE  Ended(u, Apply(Apply(c, Complete(status)), Finalize), status)
  OBVIOUS
<1> DEFINE v == Apply(c, Complete(status))
<1> DEFINE w == Apply(v, Finalize)
<1>1. v = Closed(c, 0, status) /\ 0 \in 0 .. Len(c.running)
  <2>1. Len(c.running) - 1 = 0
    OBVIOUS
  <2>2. /\ Len(c.running) - 1 \in 0 .. Len(c.running)
        /\ v = Closed(c, Len(c.running) - 1, status)
    BY CompleteCloses
  <2> HIDE DEF v
  <2> QED BY <2>1, <2>2
<1> HIDE DEF v
<1>2. Sound(v)
  BY <1>1, ClosingKeeps
<1>3. /\ v.limit = c.limit /\ v.started = c.started
      /\ Len(v.spans) = Len(c.spans) /\ DOMAIN v.spans = DOMAIN c.spans
      /\ \A i \in DOMAIN c.spans :
            /\ v.spans[i].id = c.spans[i].id
            /\ v.spans[i].parent = c.spans[i].parent
            /\ v.spans[i].operation = c.spans[i].operation
            /\ v.spans[i].status = IF i \in Upper(c, 0) /\ c.spans[i].status = "open"
                                   THEN status ELSE c.spans[i].status
  BY <1>1, ClosedTrace
<1>4. Ended(v, w, "unclosed")
  BY <1>2, FinalizeEnds DEF Sound
<1> HIDE DEF w
<1>5. /\ ~w.refused /\ w.limit = v.limit /\ w.started = v.started
      /\ Len(w.spans) = Len(v.spans) /\ DOMAIN w.spans = DOMAIN v.spans
      /\ \A i \in DOMAIN v.spans :
            /\ w.spans[i].id = v.spans[i].id
            /\ w.spans[i].parent = v.spans[i].parent
            /\ w.spans[i].operation = v.spans[i].operation
            /\ w.spans[i].status = IF v.spans[i].status # "open" THEN v.spans[i].status
                                   ELSE "unclosed"
  BY <1>4 DEF Ended
<1>6. ASSUME NEW i \in DOMAIN u.spans
      PROVE  w.spans[i].status =
                IF u.spans[i].status # "open" THEN u.spans[i].status
                ELSE IF i \in Upper(u, 0) THEN status ELSE "unclosed"
  <2>1. v.spans[i].status = IF i \in Upper(u, 0) /\ u.spans[i].status = "open"
                            THEN status ELSE u.spans[i].status
    BY <1>3, <1>6
  <2>2. status # "open"
    OBVIOUS
  <2> QED BY <1>3, <1>5, <2>1, <2>2
<1>7. Ended(u, w, status)
  BY <1>3, <1>5, <1>6 DEF Ended
<1> QED BY <1>7 DEF w, v

LEMMA TwoEvents ==
    ASSUME NEW S, NEW x \in S, NEW y \in S
    PROVE  /\ <<x>> \in Seq(S) /\ <<y>> \in Seq(S)
           /\ <<x, y>> = <<x>> \o <<y>>
<1>1. <<x>> \in Seq(S) /\ <<y>> \in Seq(S) /\ <<x, y>> \in Seq(S)
  OBVIOUS
<1> DEFINE c == <<x>> \o <<y>>
<1>2. c \in Seq(S) /\ Len(c) = 2 /\ c[1] = x /\ c[2] = y
  BY <1>1
<1> HIDE DEF c
<1>3. c = <<x, y>>
  BY <1>2
<1> QED BY <1>1, <1>3 DEF c

LEMMA PlayedTwo ==
    ASSUME NEW t, NEW x, NEW y PROVE Played(t, <<x, y>>) = Apply(Apply(t, x), y)
<1> DEFINE S == {x, y}
<1> DEFINE a == <<x>>
<1> DEFINE b == <<y>>
<1>1. x \in S /\ y \in S
  OBVIOUS
<1>2. Played(t, a) = Apply(t, x) /\ Played(Apply(t, x), b) = Apply(Apply(t, x), y)
  BY PlayedOne
<1> HIDE DEF S
<1>3. a \in Seq(S) /\ b \in Seq(S) /\ <<x, y>> = a \o b
  BY <1>1, TwoEvents
<1> HIDE DEF a, b
<1>4. Played(t, a \o b) = Played(Played(t, a), b)
  BY <1>3, PlayedTogether
<1> QED BY <1>2, <1>3, <1>4

LEMMA FinishEnds ==
    ASSUME NEW u, Sound(u), Len(u.running) = 1, NEW status \in Ends
    PROVE  Ended(u, Played(u, <<Complete(status), Finalize>>), status)
<1>1. u.running # <<>> /\ status \in Statuses \ {"open"}
  <2>1. u \in TraceType
    BY DEF Sound
  <2> QED BY <2>1 DEF Statuses, Ends
<1>2. Ended(u, Apply(Apply(u, Complete(status)), Finalize), status)
  BY <1>1, ClosedAndEnded
<1> QED BY <1>2, PlayedTwo

(* The active span was completed with its seam.                            *)
LEMMA NothingIsActive ==
    ASSUME NEW c, Sound(c), c.active = NoSpan
    PROVE  LET d == Apply(c, CancelActive)
           IN  /\ Sound(d) /\ d.running = c.running
               /\ d.started = c.started /\ d.limit = c.limit /\ DOMAIN d.spans = DOMAIN c.spans
               /\ Len(d.spans) = Len(c.spans)
               /\ \A i \in DOMAIN c.spans :
                     /\ d.spans[i].id = c.spans[i].id
                     /\ d.spans[i].parent = c.spans[i].parent
                     /\ d.spans[i].operation = c.spans[i].operation
                     /\ d.spans[i].status = c.spans[i].status
<1> DEFINE d == Apply(c, CancelActive)
<1> DEFINE e == CompleteSpans(c, {NoSpan}, "cancelled")
<1>1. d = e
  <2>1. Apply(c, CancelActive) = AppliedTo(c, "cancel_active", "cancelled")
    BY Applies DEF CancelActive
  <2> QED BY <2>1 DEF AppliedTo
<1>2. c \in TraceType /\ ~c.refused /\ IsTree(c) /\ IsStack(c) /\ IsChain(c)
  BY DEF Sound
<1>3. "cancelled" \in Statuses
  BY DEF Statuses
<1>4. Completes(c, e, {NoSpan}, "cancelled")
  BY <1>2, <1>3, CompletedSpans
<1> HIDE DEF d, e
<1>5. \A i \in DOMAIN c.spans : i \notin {NoSpan}
  BY <1>2, TraceParts DEF NoSpan
<1>6. /\ d \in TraceType /\ ~d.refused /\ d.limit = c.limit /\ d.started = c.started
      /\ d.running = c.running /\ d.dropped = c.dropped \ {NoSpan}
      /\ Len(d.spans) = Len(c.spans) /\ DOMAIN d.spans = DOMAIN c.spans
      /\ \A i \in DOMAIN c.spans :
            /\ d.spans[i].id = c.spans[i].id
            /\ d.spans[i].parent = c.spans[i].parent
            /\ d.spans[i].operation = c.spans[i].operation
            /\ d.spans[i].status = c.spans[i].status
  BY <1>1, <1>2, <1>4, <1>5 DEF Completes
<1>7. IsTree(d)
  BY <1>2, <1>6 DEF IsTree
<1>8. IsStack(d)
  <2>1. \A i \in DOMAIN c.running : c.running[i] # NoSpan
    BY <1>2, TraceParts DEF IsStack, NoSpan
  <2> QED BY <1>2, <1>6, <2>1 DEF IsStack
<1>9. IsChain(d)
  <2> SUFFICES ASSUME NEW i \in DOMAIN c.running, NEW k \in DOMAIN c.spans
               PROVE  /\ k = c.running[i] /\ i > 1 => d.spans[k].parent = c.running[i - 1]
                      /\ k > c.running[i] => d.spans[k].parent >= c.running[i]
    BY <1>6 DEF IsChain
  <2>1. /\ k = c.running[i] /\ i > 1 => c.spans[k].parent = c.running[i - 1]
        /\ k > c.running[i] => c.spans[k].parent >= c.running[i]
    BY <1>2 DEF IsChain
  <2> QED BY <1>6, <2>1
<1>10. Sound(d)
  BY <1>6, <1>7, <1>8, <1>9 DEF Sound
<1> QED BY <1>6, <1>10 DEF d

LEMMA CancelledEnds ==
    ASSUME NEW u, Sound(u), Len(u.running) > 1, u.active = Last(u.running)
    PROVE  LET c == Apply(u, CompleteAll("cancelled"))
               d == Apply(c, CancelActive)
           IN  Ended(u, Apply(Apply(d, Complete("cancelled")), Finalize), "cancelled")
<1> DEFINE c == Apply(u, CompleteAll("cancelled"))
<1> DEFINE d == Apply(c, CancelActive)
<1>1. u \in TraceType /\ Len(u.running) \in Nat /\ u.running # <<>> /\ DOMAIN u.running = 1 .. Len(u.running)
  <2>1. u \in TraceType
    BY DEF Sound
  <2> QED BY <2>1, TraceParts
<1> DEFINE h == 1
<1>2. c = Closed(u, h, "cancelled") /\ h \in 0 .. Len(u.running)
  BY <1>1, CompleteAllCloses
<1>3. "cancelled" \in Statuses /\ "cancelled" # "open"
  BY DEF Statuses
<1> HIDE DEF c, d
<1>4. Sound(c)
  BY <1>2, <1>3, ClosingKeeps
<1>5. /\ c.limit = u.limit /\ c.started = u.started
      /\ Len(c.running) = 1 /\ DOMAIN c.running = 1 .. 1 /\ c.running[1] = u.running[1]
      /\ c.active = IF u.active \in Upper(u, 1) THEN NoSpan ELSE u.active
      /\ Len(c.spans) = Len(u.spans) /\ DOMAIN c.spans = DOMAIN u.spans
      /\ \A i \in DOMAIN u.spans :
            /\ c.spans[i].id = u.spans[i].id
            /\ c.spans[i].parent = u.spans[i].parent
            /\ c.spans[i].operation = u.spans[i].operation
            /\ c.spans[i].status = IF i \in Upper(u, 1) /\ u.spans[i].status = "open"
                                   THEN "cancelled" ELSE u.spans[i].status
  <2> HIDE DEF h
  <2>1. /\ c.limit = u.limit /\ c.started = u.started
        /\ Len(c.running) = h /\ DOMAIN c.running = 1 .. h
        /\ \A i \in 1 .. h : c.running[i] = u.running[i]
        /\ c.active = IF u.active \in Upper(u, h) THEN NoSpan ELSE u.active
        /\ Len(c.spans) = Len(u.spans) /\ DOMAIN c.spans = DOMAIN u.spans
        /\ \A i \in DOMAIN u.spans :
              /\ c.spans[i].id = u.spans[i].id
              /\ c.spans[i].parent = u.spans[i].parent
              /\ c.spans[i].operation = u.spans[i].operation
              /\ c.spans[i].status = IF i \in Upper(u, h) /\ u.spans[i].status = "open"
                                     THEN "cancelled" ELSE u.spans[i].status
    BY <1>2, <1>3, ClosedTrace
  <2>2. h = 1 /\ h \in 1 .. h
    BY DEF h
  <2> QED BY <2>1, <2>2
<1>6. c.active = NoSpan
  <2>1. u.active = u.running[Len(u.running)] /\ Len(u.running) \in 1 + 1 .. Len(u.running)
    BY <1>1 DEF Last
  <2>2. u.active \in Upper(u, 1)
    BY <2>1 DEF Upper
  <2> QED BY <1>5, <2>2
<1>7. /\ Sound(d) /\ d.running = c.running
      /\ d.started = c.started /\ d.limit = c.limit /\ DOMAIN d.spans = DOMAIN c.spans
      /\ Len(d.spans) = Len(c.spans)
      /\ \A i \in DOMAIN c.spans :
            /\ d.spans[i].id = c.spans[i].id
            /\ d.spans[i].parent = c.spans[i].parent
            /\ d.spans[i].operation = c.spans[i].operation
            /\ d.spans[i].status = c.spans[i].status
  BY <1>4, <1>6, NothingIsActive DEF d
<1>8. Upper(d, 0) = {u.running[1]}
  <2>1. Upper(d, 0) = {d.running[j] : j \in 0 + 1 .. 1}
    BY <1>5, <1>7 DEF Upper
  <2>2. 0 + 1 .. 1 = {1}
    OBVIOUS
  <2> QED BY <1>5, <1>7, <2>1, <2>2
<1>9. Upper(u, 0) = Upper(u, 1) \cup {u.running[1]} /\ u.running[1] \notin Upper(u, 1)
  <2>1. 0 + 1 .. Len(u.running) = (1 + 1 .. Len(u.running)) \cup {1}
    BY <1>1
  <2>2. \A j \in 1 + 1 .. Len(u.running) : u.running[1] # u.running[j]
    <3>1. \A j \in DOMAIN u.running : 1 < j => u.running[1] < u.running[j]
      BY <1>1 DEF Sound, IsStack
    <3>2. \A j \in DOMAIN u.running : u.running[j] \in Nat
      BY <1>1, TraceParts
    <3> QED BY <1>1, <3>1, <3>2
  <2> QED BY <2>1, <2>2 DEF Upper
<1>10. Upper(d, 0) \subseteq Upper(u, 0) /\ Upper(u, 0) \ Upper(d, 0) = Upper(u, 1)
  BY <1>8, <1>9
<1>11. /\ d.started = u.started /\ d.limit = u.limit /\ DOMAIN d.spans = DOMAIN u.spans
       /\ Len(d.spans) = Len(u.spans) /\ Len(d.running) = 1
  BY <1>5, <1>7
<1>12. d.running # <<>>
  <2>1. d \in TraceType
    BY <1>7 DEF Sound
  <2>2. d.running \in Seq(Nat) /\ Len(d.running) # 0
    BY <1>11, <2>1, TraceParts
  <2> QED BY <2>2
<1>13. \A i \in DOMAIN u.spans :
          /\ d.spans[i].id = u.spans[i].id
          /\ d.spans[i].parent = u.spans[i].parent
          /\ d.spans[i].operation = u.spans[i].operation
          /\ d.spans[i].status =
                IF i \in Upper(u, 0) \ Upper(d, 0) /\ u.spans[i].status = "open"
                THEN "cancelled" ELSE u.spans[i].status
  BY <1>5, <1>7, <1>10
<1>14. Ended(u, Apply(Apply(d, Complete("cancelled")), Finalize), "cancelled")
  BY <1>1, <1>3, <1>7, <1>10, <1>11, <1>12, <1>13, ClosedAndEnded
<1> QED BY <1>14 DEF c, d

(* What an ended trace tells: of the seams that left their span, and of    *)
(* those that were cancelled.                                              *)
LEMMA EndedParts ==
    ASSUME NEW u, Sound(u), NEW w, NEW status, Ended(u, w, status)
    PROVE  /\ IsTree(w) /\ DOMAIN w.spans = DOMAIN u.spans /\ DOMAIN u.spans = 1 .. Len(u.spans)
           /\ Len(u.spans) \in Nat
           /\ \A i \in DOMAIN u.spans :
                 /\ i > 1 => u.spans[i].parent \in 1 .. i - 1 /\ u.spans[i].parent \in DOMAIN u.spans
                 /\ u.spans[i].parent \in Nat
           /\ \A i : i \in Upper(u, 0) <=> \E k \in DOMAIN u.running : i = u.running[k]
<1>1. u \in TraceType /\ IsTree(u)
  BY DEF Sound
<1>2. /\ DOMAIN u.spans = 1 .. Len(u.spans) /\ Len(u.spans) \in Nat
      /\ u.limit \in Nat /\ u.started \in Nat
      /\ DOMAIN u.running = 1 .. Len(u.running) /\ Len(u.running) \in Nat
      /\ \A i \in DOMAIN u.spans : u.spans[i] \in Span
  BY <1>1, TraceParts
<1>3. \A i \in DOMAIN u.spans :
          /\ i > 1 => u.spans[i].parent \in 1 .. i - 1 /\ u.spans[i].parent \in DOMAIN u.spans
          /\ u.spans[i].parent \in Nat
  <2>1. \A i \in DOMAIN u.spans : i > 1 => u.spans[i].parent \in 1 .. i - 1
    BY <1>1 DEF IsTree
  <2>2. \A i \in DOMAIN u.spans : u.spans[i].parent \in Nat
    BY <1>2 DEF Span
  <2> QED BY <1>2, <2>1, <2>2
<1>4. IsTree(w)
  BY <1>1 DEF IsTree, Ended
<1>5. 0 + 1 = 1
  OBVIOUS
<1>6. \A i : i \in Upper(u, 0) <=> \E k \in DOMAIN u.running : i = u.running[k]
  BY <1>2, <1>5 DEF Upper
<1> QED BY <1>2, <1>3, <1>4, <1>6 DEF Ended

LEMMA EndedTells ==
    ASSUME NEW u, Sound(u), Normal(u), Settled(u), u.running # <<>>, NEW w,
           NEW status \in Ends \cup {"cancelled"}, Ended(u, w, status)
    PROVE  /\ 1 \in DOMAIN w.spans /\ w.spans[1].status = status
           /\ \A i \in DOMAIN w.spans :
                 w.spans[i].status = "unclosed" =>
                    LeftOpen(u) # {} /\ MayBeLeft(w, i)
                    /\ w.spans[w.spans[i].parent].status = "failed"
           /\ \A i \in DOMAIN w.spans :
                 w.spans[i].status = "cancelled" => status = "cancelled" /\ i \in Upper(u, 0)
<1>1. /\ DOMAIN w.spans = DOMAIN u.spans /\ DOMAIN u.spans = 1 .. Len(u.spans)
      /\ Len(u.spans) \in Nat
      /\ \A i \in DOMAIN u.spans :
            i > 1 => u.spans[i].parent \in 1 .. i - 1 /\ u.spans[i].parent \in DOMAIN u.spans
      /\ \A i : i \in Upper(u, 0) <=> \E k \in DOMAIN u.running : i = u.running[k]
  BY EndedParts
<1>2. \A i \in DOMAIN u.spans :
          /\ w.spans[i].parent = u.spans[i].parent
          /\ w.spans[i].operation = u.spans[i].operation
          /\ w.spans[i].status =
                IF u.spans[i].status # "open" THEN u.spans[i].status
                ELSE IF i \in Upper(u, 0) THEN status ELSE "unclosed"
  BY DEF Ended
<1>3. \A i \in DOMAIN u.spans : u.spans[i].status \in Ends \cup {"open"}
  BY DEF Normal
<1>4. /\ "unclosed" \notin Ends \cup {"open", "cancelled"} /\ "cancelled" \notin Ends \cup {"open"}
      /\ "cancelled" # "unclosed" /\ "failed" # "open"
  BY DEF Ends
<1>5. 1 \in DOMAIN u.spans /\ 1 \in Upper(u, 0) /\ u.spans[1].status = "open"
  <2>1. u.started \in Nat \ {0} /\ u.limit \in Nat \ {0} /\ DOMAIN u.running = 1 .. Len(u.running)
        /\ Len(u.running) \in Nat /\ u.running \in Seq(Nat)
    BY TraceParts DEF Sound
  <2>2. Len(u.spans) = IF u.started < u.limit THEN u.started ELSE u.limit
    BY DEF Sound, IsTree
  <2>3. 1 \in DOMAIN u.running
    <3>1. Len(u.running) # 0
      BY <2>1
    <3> QED BY <2>1, <3>1
  <2>4. 1 \in DOMAIN u.spans
    BY <1>1, <2>1, <2>2
  <2>5. u.running[1] = 1
    BY DEF Sound, IsStack
  <2>6. u.spans[1].status = "open"
    BY <2>3, <2>4, <2>5 DEF Sound, IsStack
  <2> QED BY <1>1, <2>3, <2>4, <2>5, <2>6
<1>6. w.spans[1].status = status
  BY <1>2, <1>5
<1>7. ASSUME NEW i \in DOMAIN u.spans, w.spans[i].status = "unclosed"
      PROVE  /\ LeftOpen(u) # {} /\ MayBeLeft(w, i)
             /\ w.spans[w.spans[i].parent].status = "failed"
  <2>1. u.spans[i].status = "open" /\ i \notin Upper(u, 0)
    BY <1>2, <1>3, <1>4, <1>7
  <2>2. i \in LeftOpen(u)
    BY <1>1, <2>1 DEF LeftOpen
  <2>3. MayBeLeft(u, i) /\ u.spans[u.spans[i].parent].status = "failed"
    BY <2>2 DEF Settled
  <2>4. i > 1 /\ u.spans[i].parent \in DOMAIN u.spans
    BY <1>1, <2>3 DEF MayBeLeft
  <2>5. w.spans[w.spans[i].parent].status = "failed"
    BY <1>2, <1>4, <2>3, <2>4
  <2>6. MayBeLeft(w, i)
    BY <1>2, <2>3, <2>4 DEF MayBeLeft
  <2> QED BY <2>2, <2>5, <2>6
<1>8. ASSUME NEW i \in DOMAIN u.spans, w.spans[i].status = "cancelled"
      PROVE  status = "cancelled" /\ i \in Upper(u, 0)
  BY <1>2, <1>3, <1>4, <1>8
<1> QED BY <1>1, <1>5, <1>6, <1>7, <1>8

(* A cancellation is recorded by a chain, and nothing was started after    *)
(* one of its seams under the seam that called it.                         *)
LEMMA CancelledTells ==
    ASSUME NEW u, Sound(u), Normal(u), Settled(u), u.running # <<>>, NEW w,
           Ended(u, w, "cancelled"), NEW i \in DOMAIN w.spans, i > 1,
           w.spans[i].status = "cancelled"
    PROVE  /\ w.spans[w.spans[i].parent].status = "cancelled"
           /\ \A j \in DOMAIN w.spans : w.spans[j].parent = w.spans[i].parent /\ j # i => j < i
<1>1. /\ DOMAIN w.spans = DOMAIN u.spans /\ DOMAIN u.spans = 1 .. Len(u.spans)
      /\ Len(u.spans) \in Nat
      /\ \A k \in DOMAIN u.spans :
            /\ k > 1 => u.spans[k].parent \in 1 .. k - 1 /\ u.spans[k].parent \in DOMAIN u.spans
            /\ u.spans[k].parent \in Nat
      /\ \A k : k \in Upper(u, 0) <=> \E a \in DOMAIN u.running : k = u.running[a]
  BY EndedParts
<1>2. \A k \in DOMAIN u.spans :
          /\ w.spans[k].parent = u.spans[k].parent
          /\ w.spans[k].status =
                IF u.spans[k].status # "open" THEN u.spans[k].status
                ELSE IF k \in Upper(u, 0) THEN "cancelled" ELSE "unclosed"
  BY DEF Ended
<1>3. i \in Upper(u, 0)
  BY EndedTells
<1>4. PICK a \in DOMAIN u.running : i = u.running[a]
  BY <1>1, <1>3
<1>5. DOMAIN u.running = 1 .. Len(u.running) /\ Len(u.running) \in Nat
  BY TraceParts DEF Sound
<1>6. a > 1
  BY <1>4, <1>5 DEF Sound, IsStack
<1>7. u.spans[i].parent = u.running[a - 1] /\ a - 1 \in DOMAIN u.running
  BY <1>1, <1>4, <1>5, <1>6 DEF Sound, IsChain
<1> DEFINE p == u.spans[i].parent
<1>8. p \in DOMAIN u.spans /\ p \in 1 .. i - 1
  BY <1>1
<1>9. u.spans[p].status = "open" /\ p \in Upper(u, 0)
  BY <1>1, <1>7, <1>8 DEF Sound, IsStack
<1> HIDE DEF p
<1>10. w.spans[p].status = "cancelled"
  BY <1>2, <1>8, <1>9
<1>11. ASSUME NEW j \in DOMAIN u.spans, u.spans[j].parent = p, j # i
       PROVE  j < i
  <2>1. j > i => u.spans[j].parent >= i
    BY <1>4 DEF Sound, IsChain
  <2>2. i \in Nat /\ j \in Nat /\ p \in Nat /\ p < i
    BY <1>1, <1>8
  <2> QED BY <1>11, <2>1, <2>2
<1> QED BY <1>1, <1>2, <1>10, <1>11 DEF p

LEMMA EndTells ==
    ASSUME NEW u, IsWell(u), NEW status \in Ends \cup {"cancelled"}, Ended(u, trace', status),
           u.started <= DefaultLimit,
           status = "completed" => LeftOpen(u) = {} /\ outcome'.status = "completed"
    PROVE  TraceIsOneTree' /\ SpansTellHowSeamsEnded'
<1> DEFINE w == trace'
<1>1. Sound(u) /\ Normal(u) /\ Settled(u) /\ u.running # <<>> /\ u.limit \in Nat /\ u.started \in Nat
  BY WellParts DEF IsWell
<1>2. /\ IsTree(w) /\ DOMAIN w.spans = DOMAIN u.spans /\ DOMAIN u.spans = 1 .. Len(u.spans)
      /\ Len(u.spans) \in Nat
  BY <1>1, EndedParts
<1>3. /\ 1 \in DOMAIN w.spans /\ w.spans[1].status = status
      /\ \A i \in DOMAIN w.spans :
            w.spans[i].status = "unclosed" =>
               LeftOpen(u) # {} /\ MayBeLeft(w, i)
               /\ w.spans[w.spans[i].parent].status = "failed"
      /\ \A i \in DOMAIN w.spans :
            w.spans[i].status = "cancelled" => status = "cancelled" /\ i \in Upper(u, 0)
  BY <1>1, EndedTells
<1>4. ~w.refused /\ w.limit = u.limit /\ w.started = u.started
  BY DEF Ended
<1>5. TraceIsOneTree'
  BY <1>1, <1>2, <1>4 DEF TraceIsOneTree, IsTree
<1>6. Served' => status = "completed"
  BY <1>3 DEF Served
<1>7. OnlyFailedSeamsLeaveSpans'
  <2>1. Served' => outcome'.status = "completed"
    BY <1>6
  <2>2. ASSUME NEW i \in DOMAIN w.spans, w.spans[i].status = "unclosed"
        PROVE  /\ ~Served' /\ i > 1 /\ w.spans[w.spans[i].parent].status = "failed"
               /\ \/ w.spans[i].operation = "tool_selection"
                  \/ /\ w.spans[i].operation = "provider"
                     /\ w.spans[w.spans[i].parent].operation \in
                           {"routing", "tool_execution", "evidence_selection"}
    BY <1>3, <1>6, <2>2 DEF MayBeLeft
  <2> QED BY <2>1, <2>2 DEF OnlyFailedSeamsLeaveSpans
<1>8. CancellationReachesEverySeam'
  <2>1. ASSUME NEW i \in DOMAIN w.spans, w.spans[i].status = "cancelled", i > 1
        PROVE  /\ w.spans[w.spans[i].parent].status = "cancelled"
               /\ \A j \in DOMAIN w.spans : w.spans[j].parent = w.spans[i].parent /\ j # i => j < i
    <3>1. status = "cancelled"
      BY <1>3, <2>1
    <3> HIDE DEF w
    <3>2. Ended(u, w, "cancelled")
      BY <3>1 DEF w
    <3> QED BY <1>1, <2>1, <3>2, CancelledTells
  <2> QED BY <2>1 DEF CancellationReachesEverySeam
<1> QED BY <1>5, <1>7, <1>8 DEF SpansTellHowSeamsEnded

(* The trace of a request that has a result.                               *)
LEMMA FinishTells ==
    ASSUME IsWellHere, Len(trace.running) = 1, NEW e, NEW n, Plays(e, 0, n, "none"),
           NEW status \in Ends, trace' = Played(trace, e \o <<Complete(status), Finalize>>),
           NEW s \in Nat, trace.started <= s, s + n <= DefaultLimit, outcome' = outcome,
           status = "completed" => outcome.status = "completed" /\ ~IsDoomed
    PROVE  TraceIsOneTree' /\ SpansTellHowSeamsEnded'
<1> DEFINE u == Played(trace, e)
<1>1. IsWell(trace) /\ Len(trace.running) + 0 > 0
  BY DEF IsWellHere
<1>2. Leads(trace, u, 0, n, "none") /\ n \in Nat /\ e \in Seq(Events)
  BY <1>1 DEF Plays
<1> DEFINE x == Complete(status)
<1> DEFINE y == Finalize
<1> DEFINE b == <<x, y>>
<1>3. x \in Events /\ y \in Events
  BY DEF Complete, Finalize, Events, Statuses
<1>4. Ended(u, Played(u, b), status)
  <2> HIDE DEF u
  <2>1. Sound(u) /\ Len(u.running) = 1
    BY <1>1, <1>2 DEF Leads, IsWell
  <2> QED BY <2>1, FinishEnds
<1> HIDE DEF x, y
<1>5. b \in Seq(Events)
  BY <1>3
<1> HIDE DEF b
<1>6. Played(trace, e \o b) = Played(u, b)
  BY <1>2, <1>5, PlayedTogether
<1>7. trace' = Played(u, b)
  BY <1>6 DEF b, x, y
<1> HIDE DEF u
<1>8. IsWell(u) /\ u.started <= trace.started + n /\ LeftOpen(u) \subseteq LeftOpen(trace)
  BY <1>2 DEF Leads
<1>9. u.started <= DefaultLimit
  BY <1>1, <1>2, <1>8, WellParts DEF DefaultLimit
<1>10. status = "completed" => LeftOpen(u) = {} /\ outcome'.status = "completed"
  BY <1>8 DEF IsWellHere
<1>11. Ended(u, trace', status) /\ status \in Ends \cup {"cancelled"}
  BY <1>4, <1>7
<1> QED BY <1>8, <1>9, <1>10, <1>11, EndTells

(* The trace of a request that was cancelled.                              *)
LEMMA CancelTells ==
    ASSUME IsWellHere, NEW e, NEW d, NEW n, NEW l, Plays(e, d, n, l), Len(trace.running) + d > 1,
           Played(trace, e).active = Last(Played(trace, e).running),
           trace' = Played(trace, Append(Cancelled(e), CancelActive)
                                    \o <<Complete("cancelled"), Finalize>>),
           NEW s \in Nat, trace.started <= s, s + n <= DefaultLimit
    PROVE  TraceIsOneTree' /\ SpansTellHowSeamsEnded'
<1> DEFINE u == Played(trace, e)
<1>1. IsWell(trace) /\ Len(trace.running) + d > 0
  <2>1. IsWell(trace)
    BY DEF IsWellHere
  <2> QED BY <2>1, WellParts DEF Plays
<1>2. Leads(trace, u, d, n, l) /\ n \in Nat /\ e \in Seq(Events)
  BY <1>1 DEF Plays
<1> DEFINE v == CompleteAll("cancelled")
<1> DEFINE r == CancelActive
<1> DEFINE x == Complete("cancelled")
<1> DEFINE y == Finalize
<1> DEFINE a == <<v, r>>
<1> DEFINE b == <<x, y>>
<1>3. v \in Events /\ r \in Events /\ x \in Events /\ y \in Events
  BY DEF Complete, CompleteAll, CancelActive, Finalize, Events, Statuses
<1>4. trace' = Played(trace, Append(Append(e, v), r) \o b)
  BY DEF Cancelled
<1> DEFINE g == Apply(Apply(u, v), r)
<1> DEFINE w == Apply(Apply(g, x), y)
<1>5. Ended(u, w, "cancelled")
  <2> HIDE DEF u
  <2>1. Sound(u) /\ Len(u.running) > 1 /\ u.active = Last(u.running)
    <3>1. IsWell(u) /\ Len(u.running) = Len(trace.running) + d
      BY <1>2 DEF Leads
    <3>2. u.active = Last(u.running)
      BY DEF u
    <3> QED BY <3>1, <3>2 DEF IsWell
  <2> QED BY <2>1, CancelledEnds
<1>6. Played(u, a) = g /\ Played(g, b) = w
  <2> HIDE DEF v, r, x, y, u
  <2> QED BY PlayedTwo
<1> HIDE DEF v, r, x, y, u, g, w
<1>7. /\ a \in Seq(Events) /\ b \in Seq(Events) /\ e \o a \in Seq(Events)
      /\ Append(Append(e, v), r) = e \o a
  BY <1>2, <1>3
<1> HIDE DEF a, b
<1>8. Played(trace, (e \o a) \o b) = Played(Played(trace, e \o a), b)
  <2> DEFINE h == e \o a
  <2>1. h \in Seq(Events)
    BY <1>7
  <2> HIDE DEF h
  <2>2. Played(trace, h \o b) = Played(Played(trace, h), b)
    BY <1>7, <2>1, PlayedTogether
  <2> QED BY <2>2 DEF h
<1>9. Played(trace, e \o a) = Played(Played(trace, e), a)
  BY <1>2, <1>7, PlayedTogether
<1>10. trace' = w
  BY <1>4, <1>6, <1>7, <1>8, <1>9 DEF u
<1>11. IsWell(u) /\ u.started <= trace.started + n
  BY <1>2 DEF Leads
<1>12. u.started <= DefaultLimit
  BY <1>1, <1>2, <1>11, WellParts DEF DefaultLimit
<1>13. /\ Ended(u, trace', "cancelled") /\ "cancelled" \in Ends \cup {"cancelled"}
       /\ "cancelled" # "completed"
  BY <1>5, <1>10
<1> QED BY <1>11, <1>12, <1>13, EndTells

-----------------------------------------------------------------------------
(* How many spans a request has started at most.                           *)

LEMMA StageSpansBound == StageSpans \in Nat /\ StageSpans <= 11
<1>1. AgentSpans \in {7, 11}
  BY DEF AgentSpans
<1>2. CASE native
  BY <1>1, <1>2 DEF StageSpans
<1>3. CASE ~native
  BY <1>1, <1>3 DEF StageSpans
<1> QED BY <1>2, <1>3

LEMMA PathSpansBound ==
    ASSUME TypeOK, RoundInv
    PROVE  PathSpans \in Nat /\ PathSpans <= 57
<1>1. AgentSpans \in Nat /\ AgentSpans <= 11
  BY DEF AgentSpans
<1>2. CASE at \in {"skill", "synthesize"}
  <2>1. Len(steps) \in Nat /\ Len(steps) <= 1
    BY <1>2 DEF TypeOK, RoundInv
  <2>2. SpansBefore \in Nat /\ SpansBefore <= 30
    BY <2>1, SpansBeforeBounds
  <2>3. CASE at = "skill"
    <3> DEFINE a == IF SkillRuns THEN 2 ELSE 0
    <3> DEFINE b == IF route = "mixed" /\ domain = "knowledge" THEN AgentSpans ELSE 0
    <3>1. PathSpans = SpansBefore + a + b + StageSpans
      BY <2>3 DEF PathSpans
    <3>2. a \in Nat /\ a <= 2 /\ b \in Nat /\ b <= 11
      BY <1>1
    <3> HIDE DEF a, b
    <3> QED BY <2>2, <3>1, <3>2, StageSpansBound
  <2>4. CASE at = "synthesize"
    <3>1. PathSpans = SpansBefore + 2 + 2 * AgentSpans
      BY <2>4 DEF PathSpans
    <3> QED BY <1>1, <2>2, <3>1
  <2> QED BY <1>2, <2>3, <2>4
<1>3. CASE at = "review"
  <2> DEFINE k == Len(steps)
  <2>1. k \in Nat /\ k <= 2
    BY <1>3 DEF TypeOK, RoundInv
  <2>2. PathSpans = 8 + 20 * k
    BY <1>3 DEF PathSpans
  <2> HIDE DEF k
  <2> QED BY <2>1, <2>2
<1>4. CASE at \notin {"skill", "synthesize", "review"}
  BY <1>4 DEF PathSpans
<1> QED BY <1>2, <1>3, <1>4

LEMMA SpansStartedBound ==
    ASSUME TypeOK, RoundInv, PhaseInv, phase # "finished"
    PROVE  SpansStarted \in Nat /\ SpansStarted <= 59
<1>1. PathSpans \in Nat /\ PathSpans <= 57
  BY PathSpansBound
<1> QED BY <1>1 DEF SpansStarted, PhaseInv

(* A request that is served is not doomed.                                 *)
LEMMA ServedIsNotDoomed ==
    ASSUME TypeOK, RoundInv, OutcomeInv, at = "ended", outcome.status = "completed"
    PROVE  ~IsDoomed
<1> SUFFICES ASSUME steps # <<>>, steps[1].status = "failed" PROVE FALSE
  BY DEF IsDoomed
<1>1. /\ route = "mixed" /\ config.controlled
      /\ Len(steps) > 1 => Len(steps) = 2 /\ steps[2].status = "failed"
      /\ DOMAIN steps = 1 .. Len(steps) /\ Len(steps) \in Nat
  BY DEF RoundInv, TypeOK
<1>2. PICK i \in DOMAIN steps : steps[i].status = "completed"
  BY <1>1 DEF OutcomeInv, ServedWorkWasAccepted, Completed, CompletedRounds
<1>3. CASE i = 1
  BY <1>2, <1>3
<1>4. CASE i # 1
  BY <1>1, <1>2, <1>4
<1> QED BY <1>3, <1>4

-----------------------------------------------------------------------------
(* FormalRequestExecutor.execute around the coordinator.                   *)

LEMMA OneSeamRuns ==
    ASSUME TypeOK, PlaceInv, RoundInv, RunningInv, PhaseInv,
           phase \in {"read", "persist", "summarize", "respond"} \/ (phase = "coordinate" /\ at = "ended")
    PROVE  /\ IsWellHere /\ Len(trace.running) = 1 /\ trace.started <= SpansStarted
           /\ SpansStarted \in Nat /\ SpansStarted + 5 <= DefaultLimit
           /\ at = "route" \/ at = "ended"
           /\ stage = "idle" /\ (at = "route" => ~IsDoomed)
<1>1. at = "route" \/ at = "ended"
  BY DEF PhaseInv
<1>2. stage = "idle" /\ ~MayPend /\ phase # "finished"
  BY <1>1 DEF PlaceInv, MayPend
<1>3. Depth = 1
  <2>1. ~(phase = "coordinate" /\ at # "ended")
    BY <1>1
  <2> QED BY <1>2, <2>1 DEF Depth
<1>4. Depth > 0
  BY <1>3
<1>5. IsWellHere /\ Len(trace.running) = 1 /\ trace.started <= SpansStarted
  BY <1>2, <1>3, <1>4, RunningParts
<1>6. SpansStarted \in Nat /\ SpansStarted + 5 <= DefaultLimit
  BY <1>2, SpansStartedBound DEF DefaultLimit
<1>7. at = "route" => ~IsDoomed
  BY DEF IsDoomed, RoundInv
<1> QED BY <1>1, <1>2, <1>5, <1>6, <1>7

LEMMA ReadPlays ==
    /\ Plays(MapResponse("completed"), 0, 1, "none")
    /\ Plays(MapResponse("failed"), 0, 1, "none")
    /\ Plays(Seam("memory_read", <<>>, "completed"), 0, 1, "none")
    /\ Plays(Seam("memory_read", <<>>, "failed"), 0, 1, "none")
    /\ Plays(NotRequested("memory_read") \o NotRequested("memory_write")
                \o NotRequested("memory_summary"), 0, 3, "none")
<1>1. /\ {"memory_read", "memory_write", "memory_summary", "response_mapping"} \subseteq Operations
      /\ {"completed", "failed", "not_requested"} \subseteq Ends
  BY DEF Operations, Ends
<1>2. \A operation \in Operations, status \in Ends :
         Plays(Seam(operation, <<>>, status), 0, 1, "none")
  BY PlainSeamPlays
<1> DEFINE a == NotRequested("memory_read")
<1> DEFINE b == NotRequested("memory_write")
<1> DEFINE c == NotRequested("memory_summary")
<1>3. Plays(a, 0, 1, "none") /\ Plays(b, 0, 1, "none") /\ Plays(c, 0, 1, "none")
  BY <1>1, <1>2 DEF NotRequested
<1> HIDE DEF a, b, c
<1>4. 0 = 0 + 0 /\ 2 = 1 + 1 /\ 3 = 2 + 1 /\ 0 >= 0
  OBVIOUS
<1>5. Plays(a \o b, 0, 2, "none")
  BY <1>3, <1>4, PlaysTogether, Zenon
<1>6. Plays((a \o b) \o c, 0, 3, "none")
  BY <1>3, <1>4, <1>5, PlaysTogether, Zenon
<1>7. Plays(a \o b \o c, 0, 3, "none")
  BY <1>6
<1> QED BY <1>1, <1>2, <1>7 DEF MapResponse, a, b, c

(* The coordinator's span starts after what was read.                      *)
LEMMA CoordinationStarts ==
    ASSUME NEW e, NEW n, NEW m, Plays(e, 0, n, "none"), m = n + 1
    PROVE  Plays(Append(e, Start("coordination")), 1, m, "none")
<1> DEFINE x == Start("coordination")
<1>1. x \in Events /\ Plays(<<x>>, 1, 1, "none")
  BY StartPlays, EventsAreEvents DEF Operations
<1>2. 1 = 0 + 1 /\ 0 >= 0
  OBVIOUS
<1>3. Plays(e \o <<x>>, 1, m, "none")
  BY <1>1, <1>2, PlaysTogether, Zenon
<1> HIDE DEF x
<1>4. Append(e, x) = e \o <<x>>
  BY <1>1 DEF Plays
<1> QED BY <1>3, <1>4 DEF x

LEMMA ReadStep ==
    ASSUME TypeOK, TypeOK', PlaceInv, RoundInv, RunningInv, PhaseInv, ReadMemory
    PROVE  PhaseInv' /\ RunningInv' /\ FinishedInv'
<1> DEFINE s == SpansStarted
<1>1. phase = "read" /\ at = "route" /\ UNCHANGED vars
  BY DEF ReadMemory, PhaseInv
<1>2. /\ at' = at /\ stage' = stage /\ outcome' = outcome /\ steps' = steps /\ route' = route
      /\ config' = config /\ domain' = domain
  BY <1>1 DEF vars, agent, path
<1>3. /\ IsWellHere /\ Len(trace.running) = 1 /\ trace.started <= s
      /\ stage = "idle" /\ ~IsDoomed
  BY <1>1, OneSeamRuns
<1>4. s = 1 /\ s \in Nat
  BY <1>1 DEF SpansStarted
<1> HIDE DEF s
<1>5. ASSUME NEW e, NEW n \in 1 .. 3, Plays(e, 0, n, "none"), Finish(e, "failed")
      PROVE  PhaseInv' /\ RunningInv' /\ FinishedInv'
  <2>1. phase' = "finished" /\ trace' = Played(trace, e \o <<Complete("failed"), Finalize>>)
    BY <1>5 DEF Finish, Record
  <2>2. s + n <= DefaultLimit /\ "failed" \in Ends /\ "failed" # "completed"
    BY <1>4 DEF DefaultLimit, Ends
  <2>3. TraceIsOneTree' /\ SpansTellHowSeamsEnded'
    BY <1>2, <1>3, <1>4, <1>5, <2>1, <2>2, FinishTells
  <2> QED BY <2>1, <2>3 DEF PhaseInv, RunningInv, FinishedInv
<1>6. ASSUME NEW e, NEW n \in 1 .. 4, Plays(e, 1, n, "none"), Record(e), phase' = "coordinate"
      PROVE  PhaseInv' /\ RunningInv' /\ FinishedInv'
  <2>1. route = "none"
    BY <1>1 DEF PlaceInv
  <2>2. Depth' = 2 /\ SpansStarted' = 5
    BY <1>1, <1>2, <1>3, <1>6, <2>1
    DEF Depth, PathDepth, IsReviewed, SkillRuns, ToolRuns, DataStages, KnowledgeStages,
        SpansStarted, PathSpans
  <2>3. /\ Len(trace.running) + 1 > 0 /\ Depth' = Len(trace.running) + 1
        /\ s + n <= SpansStarted' /\ SpansStarted' \in Nat
    BY <1>3, <1>4, <2>2
  <2>4. /\ trace' = Played(trace, e) /\ phase' # "finished" /\ at' # "skill"
        /\ IsDoomed' \/ ("none" = "none" /\ ~IsDoomed)
    BY <1>1, <1>2, <1>3, <1>6 DEF Record
  <2>5. RunningInv'
    BY <1>3, <1>4, <1>6, <2>3, <2>4, StepIsWell
  <2> QED BY <1>6, <2>5 DEF PhaseInv, FinishedInv
<1> DEFINE all == NotRequested("memory_read") \o NotRequested("memory_write")
                     \o NotRequested("memory_summary")
<1> DEFINE one == Seam("memory_read", <<>>, "completed")
<1>7. /\ 1 \in 1 .. 3 /\ 3 \in 1 .. 3 /\ 2 \in 1 .. 4 /\ 4 \in 1 .. 4
      /\ 2 = 1 + 1 /\ 4 = 3 + 1
  OBVIOUS
<1>8. /\ Plays(all, 0, 3, "none") /\ Plays(one, 0, 1, "none")
      /\ Plays(MapResponse("completed"), 0, 1, "none")
      /\ Plays(Seam("memory_read", <<>>, "failed"), 0, 1, "none")
  BY ReadPlays
<1>9. /\ Plays(Append(all, Start("coordination")), 1, 4, "none")
      /\ Plays(Append(one, Start("coordination")), 1, 2, "none")
  <2> HIDE DEF all, one
  <2> QED BY <1>7, <1>8, CoordinationStarts, Zenon
<1>10. \/ Finish(MapResponse("completed"), "failed")
       \/ Record(Append(all, Start("coordination"))) /\ phase' = "coordinate"
       \/ Finish(all, "failed")
       \/ Record(Append(one, Start("coordination"))) /\ phase' = "coordinate"
       \/ Finish(one, "failed")
       \/ Finish(Seam("memory_read", <<>>, "failed"), "failed")
  BY DEF ReadMemory
<1> HIDE DEF all, one
<1> QED BY <1>5, <1>6, <1>7, <1>8, <1>9, <1>10

(* One seam more, and the request goes on.                                 *)
LEMMA GoingOn ==
    ASSUME TypeOK, PlaceInv, RoundInv, RunningInv, PhaseInv, at = "ended", UNCHANGED vars,
           phase \in {"coordinate", "persist", "summarize", "respond"},
           phase' \in {"persist", "summarize", "respond"},
           NEW e, NEW n, Plays(e, 0, n, "none"), Record(e),
           SpansStarted + n <= SpansStarted'
    PROVE  RunningInv'
<1> DEFINE s == SpansStarted
<1>1. IsWellHere /\ Len(trace.running) = 1 /\ trace.started <= s /\ s \in Nat
  BY OneSeamRuns
<1>2. /\ at' = at /\ stage' = stage /\ outcome' = outcome /\ steps' = steps
  BY DEF vars, agent, path
<1>3. IsDoomed' \/ ("none" = "none" /\ ~IsDoomed)
  BY <1>2 DEF IsDoomed
<1>4. Depth' = 1 /\ SpansStarted' \in Nat /\ phase' # "finished"
  BY DEF Depth, SpansStarted
<1>5. Len(trace.running) + 0 > 0 /\ Depth' = Len(trace.running) + 0
  BY <1>1, <1>4
<1>6. s + n <= SpansStarted' /\ trace' = Played(trace, e)
  BY DEF Record
<1>7. ~(at' = "skill" /\ stage' \in {"plan_data_query", "retrieve_evidence"})
  BY <1>2
<1> HIDE DEF s
<1> QED BY <1>1, <1>3, <1>4, <1>5, <1>6, <1>7, StepIsWell

(* A seam, or none, and the trace is finished.                             *)
LEMMA Finishing ==
    ASSUME TypeOK, PlaceInv, RoundInv, RunningInv, PhaseInv, at = "ended", UNCHANGED vars,
           phase \in {"coordinate", "persist", "summarize", "respond"},
           NEW e, NEW n, n \in 0 .. 1, Plays(e, 0, n, "none"),
           NEW status \in Ends, Finish(e, status),
           status = "completed" => outcome.status = "completed" /\ ~IsDoomed
    PROVE  PhaseInv' /\ RunningInv' /\ FinishedInv'
<1> DEFINE s == SpansStarted
<1>1. /\ IsWellHere /\ Len(trace.running) = 1 /\ trace.started <= s /\ s \in Nat
      /\ s + 5 <= DefaultLimit
  BY OneSeamRuns
<1> HIDE DEF s
<1>2. outcome' = outcome
  BY DEF vars, path
<1>3. phase' = "finished" /\ trace' = Played(trace, e \o <<Complete(status), Finalize>>)
  BY DEF Finish, Record
<1>4. s + n <= DefaultLimit
  BY <1>1 DEF DefaultLimit
<1>5. TraceIsOneTree' /\ SpansTellHowSeamsEnded'
  BY <1>1, <1>2, <1>3, <1>4, FinishTells
<1> QED BY <1>3, <1>5 DEF PhaseInv, RunningInv, FinishedInv

LEMMA LeaveCoordinatorStep ==
    ASSUME TypeOK, TypeOK', PlaceInv, RoundInv, OutcomeInv, RunningInv, PhaseInv, LeaveCoordinator
    PROVE  PhaseInv' /\ RunningInv' /\ FinishedInv'
<1>1. phase = "coordinate" /\ at = "ended" /\ UNCHANGED vars
  BY DEF LeaveCoordinator
<1>2. at' = at /\ outcome' = outcome
  BY <1>1 DEF vars, path
<1>3. Plays(<<>>, 0, 0, "none") /\ 0 \in 0 .. 1 /\ "failed" \in Ends /\ "failed" # "completed"
  BY NothingPlays DEF Ends
<1>4. CASE Finish(<<>>, "failed")
  BY <1>1, <1>3, <1>4, Finishing
<1>5. CASE /\ phase' = IF session /\ outcome.status = "completed" THEN "persist" ELSE "respond"
           /\ UNCHANGED trace
  <2>1. Record(<<>>)
    BY <1>5, PlayedNone DEF Record
  <2>2. phase' \in {"persist", "summarize", "respond"} /\ phase' # "finished"
    BY <1>5
  <2>3. SpansStarted + 0 <= SpansStarted'
    BY <1>1, <1>5 DEF SpansStarted, PathSpans
  <2>4. RunningInv'
    BY <1>1, <1>3, <2>1, <2>2, <2>3, GoingOn
  <2>5. PhaseInv'
    BY <1>1, <1>2, <1>5 DEF PhaseInv
  <2> QED BY <2>2, <2>4, <2>5 DEF FinishedInv
<1> QED BY <1>4, <1>5 DEF LeaveCoordinator

LEMMA MemoryPlays ==
    ASSUME NEW operation \in {"memory_write", "memory_summary"},
           NEW status \in {"completed", "failed", "not_requested"}
    PROVE  Plays(Seam(operation, <<>>, status), 0, 1, "none")
BY PlainSeamPlays DEF Operations, Ends

LEMMA PersistStep ==
    ASSUME TypeOK, TypeOK', PlaceInv, RoundInv, RunningInv, PhaseInv, PersistTurn
    PROVE  PhaseInv' /\ RunningInv' /\ FinishedInv'
<1>1. phase = "persist" /\ at = "ended" /\ UNCHANGED vars /\ outcome.status = "completed"
  BY DEF PersistTurn, PhaseInv
<1>2. at' = at /\ outcome' = outcome
  BY <1>1 DEF vars, path
<1>3. /\ Plays(<<>>, 0, 0, "none")
      /\ Plays(Seam("memory_write", <<>>, "completed"), 0, 1, "none")
      /\ Plays(Seam("memory_write", <<>>, "failed"), 0, 1, "none")
  BY NothingPlays, MemoryPlays
<1>4. ASSUME NEW e, NEW n \in 0 .. 1, Plays(e, 0, n, "none"), Record(e),
             phase' \in {"summarize", "respond"}
      PROVE  PhaseInv' /\ RunningInv' /\ FinishedInv'
  <2>1. phase' \in {"persist", "summarize", "respond"} /\ phase' # "finished"
    BY <1>4
  <2>2. SpansStarted + n <= SpansStarted'
    BY <1>1, <1>4 DEF SpansStarted
  <2>3. RunningInv'
    BY <1>1, <1>4, <2>1, <2>2, GoingOn
  <2>4. PhaseInv'
    BY <1>1, <1>2, <1>4 DEF PhaseInv
  <2> QED BY <2>1, <2>3, <2>4 DEF FinishedInv
<1>5. 0 \in 0 .. 1 /\ 1 \in 0 .. 1
  OBVIOUS
<1> QED BY <1>3, <1>4, <1>5 DEF PersistTurn

LEMMA SummarizeStep ==
    ASSUME TypeOK, TypeOK', PlaceInv, RoundInv, RunningInv, PhaseInv, SummarizeTurn
    PROVE  PhaseInv' /\ RunningInv' /\ FinishedInv'
<1>1. phase = "summarize" /\ phase' = "respond" /\ at = "ended" /\ UNCHANGED vars
  BY DEF SummarizeTurn, PhaseInv
<1>2. at' = at /\ outcome' = outcome
  BY <1>1 DEF vars, path
<1>3. PICK status \in {"completed", "failed", "not_requested"} :
          Record(Seam("memory_summary", <<>>, status))
  BY DEF SummarizeTurn
<1>4. Plays(Seam("memory_summary", <<>>, status), 0, 1, "none")
  BY MemoryPlays
<1>5. SpansStarted + 1 <= SpansStarted' /\ phase' \in {"persist", "summarize", "respond"}
  BY <1>1 DEF SpansStarted
<1>6. RunningInv'
  BY <1>1, <1>3, <1>4, <1>5, GoingOn
<1>7. PhaseInv' /\ FinishedInv'
  BY <1>1, <1>2 DEF PhaseInv, FinishedInv
<1> QED BY <1>6, <1>7

LEMMA RespondStep ==
    ASSUME TypeOK, TypeOK', PlaceInv, RoundInv, OutcomeInv, RunningInv, PhaseInv, Respond
    PROVE  PhaseInv' /\ RunningInv' /\ FinishedInv'
<1>1. phase = "respond" /\ at = "ended" /\ UNCHANGED vars
  BY DEF Respond, PhaseInv
<1>2. /\ Plays(MapResponse("completed"), 0, 1, "none")
      /\ Plays(MapResponse("failed"), 0, 1, "none")
      /\ 1 \in 0 .. 1
  BY ReadPlays
<1>3. "failed" \in Ends /\ "failed" # "completed" /\ outcome.status \in Ends
  BY DEF Ends, TypeOK, Results
<1>4. outcome.status = "completed" => outcome.status = "completed" /\ ~IsDoomed
  BY <1>1, ServedIsNotDoomed
<1>5. CASE Finish(MapResponse("completed"), outcome.status)
  BY <1>1, <1>2, <1>3, <1>4, <1>5, Finishing
<1>6. CASE Finish(MapResponse("failed"), "failed")
  BY <1>1, <1>2, <1>3, <1>6, Finishing
<1> QED BY <1>5, <1>6 DEF Respond

-----------------------------------------------------------------------------
(* A cancellation.                                                         *)

(* The seam that has started last is the active one.                       *)
LastIsActive(t) == t.active = Last(t.running)

(* d seams start, each under the one before.                               *)
StartsSeams(e, d) ==
    Plays(e, d, d, "none") /\ \A t : IsWell(t) => LastIsActive(Played(t, e))

LEMMA OneMoreStarts ==
    ASSUME NEW e, NEW d \in Nat, Plays(e, d, d, "none"), NEW operation \in Operations
    PROVE  StartsSeams(e \o <<Start(operation)>>, d + 1)
<1> DEFINE x == Start(operation)
<1> DEFINE b == <<x>>
<1>1. e \in Seq(Events) /\ x \in Events /\ Plays(b, 1, 1, "none")
  BY StartPlays, EventsAreEvents DEF Plays
<1>2. d >= 0 /\ b \in Seq(Events)
  BY <1>1
<1>3. ASSUME NEW t, IsWell(t) PROVE LastIsActive(Played(t, e \o b))
  <2> DEFINE v == Played(t, e)
  <2>1. Len(t.running) + d > 0
    <3>1. Len(t.running) \in Nat \ {0}
      BY <1>3, WellParts
    <3> QED BY <3>1
  <2>2. IsWell(v)
    BY <1>3, <2>1 DEF Plays, Leads
  <2> HIDE DEF v
  <2> DEFINE u == Apply(v, x)
  <2>3. u.active = Last(u.running)
    BY <2>2, StartingIsWell
  <2>4. Played(v, b) = u
    BY PlayedOne
  <2> HIDE DEF u, b
  <2>5. Played(t, e \o b) = u
    BY <1>1, <1>2, <2>4, PlayedTogether DEF v
  <2> QED BY <2>3, <2>5 DEF LastIsActive
<1>4. Plays(e \o b, d + 1, d + 1, "none")
  <2> HIDE DEF b
  <2> QED BY <1>1, <1>2, PlaysTogether, Zenon
<1> HIDE DEF b
<1>5. StartsSeams(e \o b, d + 1)
  BY <1>3, <1>4 DEF StartsSeams
<1> QED BY <1>5 DEF b

LEMMA OneStarts ==
    ASSUME NEW operation \in Operations
    PROVE  StartsSeams(<<Start(operation)>>, 1)
<1> DEFINE x == Start(operation)
<1>1. Plays(<<>>, 0, 0, "none") /\ 0 \in Nat /\ 0 + 1 = 1
  BY NothingPlays
<1>2. StartsSeams(<<>> \o <<x>>, 0 + 1)
  BY <1>1, OneMoreStarts
<1>3. <<>> \o <<x>> = <<x>>
  OBVIOUS
<1> HIDE DEF x
<1>4. StartsSeams(<<x>>, 1)
  BY <1>1, <1>2, <1>3
<1> QED BY <1>4 DEF x

LEMMA TwoStart ==
    ASSUME NEW operation \in Operations, NEW e \in Calling(operation)
    PROVE  StartsSeams(e, 2)
<1> DEFINE x == Start(operation)
<1> DEFINE y == Start("provider")
<1>1. "provider" \in Operations
  BY DEF Operations
<1>2. Plays(<<x>>, 1, 1, "none") /\ 1 \in Nat /\ 1 + 1 = 2
  BY OneStarts DEF StartsSeams
<1>3. StartsSeams(<<x>> \o <<y>>, 1 + 1)
  BY <1>1, <1>2, OneMoreStarts
<1>4. e = <<x, y>>
  BY DEF Calling
<1> HIDE DEF x, y
<1>5. <<x, y>> = <<x>> \o <<y>>
  <2>1. x \in {x, y} /\ y \in {x, y}
    OBVIOUS
  <2> QED BY <2>1, TwoEvents
<1> QED BY <1>2, <1>3, <1>4, <1>5

LEMMA ThreeStart ==
    ASSUME NEW e \in Calling("planning")
    PROVE  StartsSeams(<<Start("workflow")>> \o e, 3)
<1> DEFINE w == Start("workflow")
<1> DEFINE x == Start("planning")
<1> DEFINE y == Start("provider")
<1>1. {"workflow", "planning", "provider"} \subseteq Operations
  BY DEF Operations
<1>2. Plays(<<w>>, 1, 1, "none") /\ 1 \in Nat /\ 2 \in Nat /\ 1 + 1 = 2 /\ 2 + 1 = 3
  BY <1>1, OneStarts DEF StartsSeams
<1>3. StartsSeams(<<w>> \o <<x>>, 2)
  <2>1. StartsSeams(<<w>> \o <<x>>, 1 + 1)
    BY <1>1, <1>2, OneMoreStarts
  <2> QED BY <1>2, <2>1
<1>4. StartsSeams((<<w>> \o <<x>>) \o <<y>>, 3)
  <2> DEFINE a == <<w>> \o <<x>>
  <2>1. Plays(a, 2, 2, "none")
    BY <1>3 DEF StartsSeams
  <2> HIDE DEF a
  <2>2. StartsSeams(a \o <<y>>, 2 + 1)
    BY <1>1, <1>2, <2>1, OneMoreStarts
  <2> QED BY <1>2, <2>2 DEF a
<1>5. e = <<x, y>>
  BY DEF Calling
<1> HIDE DEF w, x, y
<1>6. <<w>> \o <<x, y>> = (<<w>> \o <<x>>) \o <<y>>
  <2> DEFINE S == {w, x, y}
  <2> DEFINE f == <<w>>
  <2> DEFINE g == <<x>>
  <2> DEFINE h == <<y>>
  <2>1. w \in S /\ x \in S /\ y \in S
    OBVIOUS
  <2> HIDE DEF S
  <2>2. f \in Seq(S) /\ g \in Seq(S) /\ h \in Seq(S) /\ <<x, y>> = g \o h
    BY <2>1, TwoEvents
  <2> HIDE DEF f, g, h
  <2>3. f \o (g \o h) = (f \o g) \o h
    BY <2>2
  <2> QED BY <2>2, <2>3 DEF f, g, h
<1>7. StartsSeams(<<w>> \o e, 3)
  BY <1>4, <1>5, <1>6
<1> QED BY <1>7 DEF w

(* Where nothing has to start, the tool's seam runs.                       *)
ToolWaits == phase = "coordinate" /\ at = "skill" /\ stage \in {"plan_data_query", "retrieve_evidence"}

LEMMA AgentAwaitsStart ==
    ASSUME NEW e \in AgentAwaits
    PROVE  /\ \/ e = <<>> /\ stage \in {"plan_data_query", "retrieve_evidence"}
              \/ \E d \in 1 .. 3 : StartsSeams(e, d)
           /\ stage # "failed" /\ stage # "idle"
<1>1. 1 \in 1 .. 3 /\ 2 \in 1 .. 3
  OBVIOUS
<1>2. {"provider", "data_access", "tool_selection", "evidence_selection", "review",
       "answer_generation"} \subseteq Operations
  BY DEF Operations
<1>3. \/ e = <<>> /\ stage \in {"plan_data_query", "retrieve_evidence"}
      \/ e = <<Start("provider")>> \/ e = <<Start("data_access")>>
      \/ \E operation \in {"tool_selection", "evidence_selection", "review",
                           "answer_generation"} : e \in Calling(operation)
  BY DEF AgentAwaits
<1>4. stage # "failed" /\ stage # "idle"
  BY DEF AgentAwaits
<1>5. CASE e = <<Start("provider")>> \/ e = <<Start("data_access")>>
  BY <1>1, <1>2, <1>4, <1>5, OneStarts
<1>6. CASE \E operation \in {"tool_selection", "evidence_selection", "review",
                             "answer_generation"} : e \in Calling(operation)
  BY <1>1, <1>2, <1>4, <1>6, TwoStart
<1> QED BY <1>3, <1>4, <1>5, <1>6

LEMMA AwaitsStart ==
    ASSUME PhaseInv, NEW e \in Awaits
    PROVE  /\ (e = <<>> /\ ToolWaits) \/ \E d \in 1 .. 3 : StartsSeams(e, d)
           /\ phase \in {"read", "coordinate", "persist", "summarize"} /\ ~MayPend
<1>1. 1 \in 1 .. 3 /\ 2 \in 1 .. 3 /\ 3 \in 1 .. 3
  OBVIOUS
<1>2. {"memory_read", "memory_write", "memory_summary", "routing", "answer_generation",
       "workflow_review"} \subseteq Operations
  BY DEF Operations
<1>3. /\ phase \in {"read", "coordinate", "persist", "summarize"}
      /\ \/ \E operation \in {"memory_read", "memory_write", "memory_summary"} :
                e = <<Start(operation)>> /\ phase # "coordinate"
         \/ \E operation \in {"routing", "answer_generation", "workflow_review"} :
                e \in Calling(operation) /\ phase = "coordinate" /\ at # "skill"
         \/ /\ phase = "coordinate" /\ at = "plan"
            /\ \E f \in Calling("planning") : e = <<Start("workflow")>> \o f
         \/ phase = "coordinate" /\ at = "skill" /\ e \in AgentAwaits
  BY DEF Awaits
<1>4. phase # "coordinate" => at # "skill"
  BY <1>3 DEF PhaseInv
<1>5. CASE \E operation \in {"memory_read", "memory_write", "memory_summary"} :
                e = <<Start(operation)>> /\ phase # "coordinate"
  BY <1>1, <1>2, <1>3, <1>4, <1>5, OneStarts DEF MayPend
<1>6. CASE \E operation \in {"routing", "answer_generation", "workflow_review"} :
                e \in Calling(operation) /\ phase = "coordinate" /\ at # "skill"
  BY <1>1, <1>2, <1>3, <1>6, TwoStart DEF MayPend
<1>7. CASE /\ phase = "coordinate" /\ at = "plan"
           /\ \E f \in Calling("planning") : e = <<Start("workflow")>> \o f
  BY <1>1, <1>3, <1>7, ThreeStart DEF MayPend
<1>8. CASE phase = "coordinate" /\ at = "skill" /\ e \in AgentAwaits
  BY <1>3, <1>8, AgentAwaitsStart DEF MayPend, ToolWaits
<1> QED BY <1>3, <1>5, <1>6, <1>7, <1>8

LEMMA CancelStep ==
    ASSUME TypeOK, PlaceInv, RoundInv, RunningInv, PhaseInv, Cancel
    PROVE  PhaseInv' /\ RunningInv' /\ FinishedInv'
<1> DEFINE s == SpansStarted
<1>1. PICK e \in Awaits : Finish(Append(Cancelled(e), CancelActive), "cancelled")
  BY DEF Cancel
<1>2. /\ (e = <<>> /\ ToolWaits) \/ \E d \in 1 .. 3 : StartsSeams(e, d)
      /\ phase # "finished" /\ ~MayPend
  BY <1>1, AwaitsStart
<1>3. phase' = "finished" /\ trace' = Played(trace, Append(Cancelled(e), CancelActive)
                                                     \o <<Complete("cancelled"), Finalize>>)
  BY <1>1 DEF Finish, Record
<1>4. s \in Nat /\ s <= 59
  BY <1>2, SpansStartedBound
<1>5. Depth \in Nat \ {0} /\ (ToolWaits => Depth > 1)
  BY <1>2 DEF Depth, PathDepth, ToolWaits, ToolRuns, DataStages, KnowledgeStages
<1>6. IsWellHere /\ Len(trace.running) = Depth /\ trace.started <= s
  BY <1>2, <1>5, RunningParts
<1> HIDE DEF s
<1>7. TraceIsOneTree' /\ SpansTellHowSeamsEnded'
  <2>1. CASE e = <<>> /\ ToolWaits
    <3>1. Plays(e, 0, 0, "none")
      BY <2>1, NothingPlays
    <3>2. Len(trace.running) + 0 > 1 /\ s + 0 <= DefaultLimit
      BY <1>4, <1>5, <1>6, <2>1 DEF DefaultLimit
    <3>3. trace.active = Last(trace.running)
      BY <2>1 DEF RunningInv, ToolWaits, ToolIsActive
    <3>4. Played(trace, e).active = Last(Played(trace, e).running)
      BY <2>1, <3>3, PlayedNone
    <3> QED BY <1>3, <1>4, <1>6, <3>1, <3>2, <3>4, CancelTells
  <2>2. CASE \E d \in 1 .. 3 : StartsSeams(e, d)
    <3>1. PICK d \in 1 .. 3 : StartsSeams(e, d)
      BY <2>2
    <3>2. Plays(e, d, d, "none")
      BY <3>1 DEF StartsSeams
    <3>3. Len(trace.running) + d > 1 /\ s + d <= DefaultLimit
      BY <1>4, <1>5, <1>6 DEF DefaultLimit
    <3>4. Played(trace, e).active = Last(Played(trace, e).running)
      BY <1>6, <3>1 DEF StartsSeams, LastIsActive, IsWellHere
    <3> QED BY <1>3, <1>4, <1>6, <3>2, <3>3, <3>4, CancelTells
  <2> QED BY <1>2, <2>1, <2>2
<1> QED BY <1>3, <1>7 DEF PhaseInv, RunningInv, FinishedInv

-----------------------------------------------------------------------------
(* Every step.                                                             *)

LEMMA CoordinatorStep ==
    ASSUME TypeOK, TypeOK', PathInv, RunningInv, phase = "coordinate",
           \/ Observe(RouteRequest, RoutingEvents)
           \/ Observe(PlanWorkflow, PlanningEvents)
           \/ Observe(EnterSkill, EnterEvents)
           \/ Observe(RunAgent, AgentEvents)
           \/ Observe(LeaveSkill, {Returned})
           \/ Observe(Synthesize, SynthesisEvents)
           \/ Observe(ReviewWorkflow, ReviewEvents)
    PROVE  phase' = "coordinate" /\ RunningInv'
<1> USE DEF PathInv
<1>1. CASE Observe(RouteRequest, RoutingEvents)
  <2>1. RouteRequest /\ \E e \in RoutingEvents : Observes(e)
    BY <1>1 DEF Observe, Observes
  <2> QED BY <1>1, <2>1, RouteStep DEF Observe
<1>2. CASE Observe(PlanWorkflow, PlanningEvents)
  <2>1. PlanWorkflow /\ \E e \in PlanningEvents : Observes(e)
    BY <1>2 DEF Observe, Observes
  <2> QED BY <1>2, <2>1, PlanStep DEF Observe
<1>3. CASE Observe(EnterSkill, EnterEvents)
  <2>1. EnterSkill /\ \E e \in EnterEvents : Observes(e)
    BY <1>3 DEF Observe, Observes
  <2> QED BY <1>3, <2>1, EnterStep DEF Observe
<1>4. CASE Observe(RunAgent, AgentEvents)
  <2>1. RunAgent /\ \E e \in AgentEvents : Observes(e)
    BY <1>4 DEF Observe, Observes
  <2> QED BY <1>4, <2>1, AgentStepIsWell DEF Observe
<1>5. CASE Observe(LeaveSkill, {Returned})
  <2>1. LeaveSkill /\ \E e \in {Returned} : Observes(e)
    BY <1>5 DEF Observe, Observes
  <2> QED BY <1>5, <2>1, LeaveStep DEF Observe
<1>6. CASE Observe(Synthesize, SynthesisEvents)
  <2>1. Synthesize /\ \E e \in SynthesisEvents : Observes(e)
    BY <1>6 DEF Observe, Observes
  <2> QED BY <1>6, <2>1, SynthesizeStep DEF Observe
<1>7. CASE Observe(ReviewWorkflow, ReviewEvents)
  <2>1. ReviewWorkflow /\ \E e \in ReviewEvents : Observes(e)
    BY <1>7 DEF Observe, Observes
  <2> QED BY <1>7, <2>1, ReviewStep DEF Observe
<1> QED BY <1>1, <1>2, <1>3, <1>4, <1>5, <1>6, <1>7

(* Nothing happens.                                                        *)
LEMMA TraceStays == TraceInv /\ UNCHANGED observedVars => TraceInv'
<1> SUFFICES ASSUME TraceInv, UNCHANGED observedVars PROVE TraceInv'
  OBVIOUS
<1>1. /\ phase' = phase /\ trace' = trace /\ at' = at /\ stage' = stage /\ native' = native
      /\ outcome' = outcome /\ steps' = steps /\ route' = route /\ domain' = domain
      /\ config' = config
  BY DEF observedVars, vars, agent, path
<1>2. PhaseInv'
  BY <1>1 DEF TraceInv, PhaseInv
<1>3. FinishedInv'
  BY <1>1
  DEF TraceInv, FinishedInv, TraceIsOneTree, SpansTellHowSeamsEnded, OnlyFailedSeamsLeaveSpans,
      CancellationReachesEverySeam, Served
<1>4. /\ Depth' = Depth /\ SpansStarted' = SpansStarted /\ IsDoomed' = IsDoomed
  <2>1. IsReviewed' = IsReviewed /\ SkillRuns' = SkillRuns /\ ToolRuns' = ToolRuns
    BY <1>1 DEF IsReviewed, SkillRuns, ToolRuns
  <2>2. Depth' = Depth /\ IsDoomed' = IsDoomed /\ AgentSpans' = AgentSpans
    BY <1>1, <2>1 DEF Depth, PathDepth, IsDoomed, AgentSpans
  <2>3. StageSpans' = StageSpans /\ SpansBefore' = SpansBefore
    BY <1>1, <2>1, <2>2 DEF StageSpans, SpansBefore
  <2>4. PathSpans' = PathSpans
    BY <1>1, <2>1, <2>2, <2>3 DEF PathSpans
  <2> QED BY <1>1, <2>2, <2>4 DEF SpansStarted
<1>5. RunningInv'
  BY <1>1, <1>4 DEF TraceInv, RunningInv
<1> QED BY <1>2, <1>3, <1>5 DEF TraceInv

LEMMA TraceStep ==
    TypeOK /\ TypeOK' /\ PathInv /\ OutcomeInv /\ TraceInv /\ [ObservedNext]_observedVars
        => TraceInv'
<1> SUFFICES ASSUME TypeOK, TypeOK', PathInv, OutcomeInv, TraceInv, [ObservedNext]_observedVars
             PROVE  TraceInv'
  OBVIOUS
<1>1. PhaseInv /\ RunningInv /\ FinishedInv /\ PlaceInv /\ RoundInv
  BY DEF TraceInv, PathInv
<1>2. CASE UNCHANGED observedVars
  BY <1>2, TraceStays
<1>3. CASE \/ Observe(RouteRequest, RoutingEvents)
           \/ Observe(PlanWorkflow, PlanningEvents)
           \/ Observe(EnterSkill, EnterEvents)
           \/ Observe(RunAgent, AgentEvents)
           \/ Observe(LeaveSkill, {Returned})
           \/ Observe(Synthesize, SynthesisEvents)
           \/ Observe(ReviewWorkflow, ReviewEvents)
  <2>1. phase = "coordinate"
    BY <1>3 DEF Observe
  <2>2. phase' = "coordinate" /\ RunningInv'
    BY <1>1, <1>3, <2>1, CoordinatorStep
  <2> QED BY <2>2 DEF TraceInv, PhaseInv, FinishedInv
<1>4. CASE ReadMemory
  BY <1>1, <1>4, ReadStep DEF TraceInv
<1>5. CASE LeaveCoordinator
  BY <1>1, <1>5, LeaveCoordinatorStep DEF TraceInv
<1>6. CASE PersistTurn
  BY <1>1, <1>6, PersistStep DEF TraceInv
<1>7. CASE SummarizeTurn
  BY <1>1, <1>7, SummarizeStep DEF TraceInv
<1>8. CASE Respond
  BY <1>1, <1>8, RespondStep DEF TraceInv
<1>9. CASE Cancel
  BY <1>1, <1>9, CancelStep DEF TraceInv
<1> QED BY <1>2, <1>3, <1>4, <1>5, <1>6, <1>7, <1>8, <1>9 DEF ObservedNext, Proceed

(* The trace of a request that has begun: its own span.                    *)
LEMMA TraceInit ==
    ASSUME ObservedInit PROVE TraceInv
<1>1. /\ phase = "read" /\ at = "route" /\ stage = "idle" /\ steps = <<>>
  BY DEF ObservedInit, Init, AgentInit
<1>2. PICK limit \in Nat \ {0} : trace = StartSpan(NewTrace(limit), "request")
  BY LimitsAssumption DEF ObservedInit
<1> DEFINE span == [id |-> 1, parent |-> 0, operation |-> "request", status |-> "open"]
<1>4. span \in Span /\ span.status = "open"
  BY DEF Span, Operations, Statuses
<1>5. /\ trace \in TraceType /\ ~trace.refused /\ trace.started = 1 /\ trace.limit = limit
      /\ DOMAIN trace.spans = {1} /\ Len(trace.spans) = 1 /\ trace.spans[1] = span
      /\ DOMAIN trace.running = {1} /\ Len(trace.running) = 1 /\ trace.running[1] = 1
  <2> DEFINE t == NewTrace(limit)
  <2>1. /\ t.limit = limit /\ t.started = 0 /\ ~t.refused /\ t.active = 0 /\ t.spans = <<>>
        /\ t.dropped = {} /\ t.running = <<>>
        /\ t \in [limit : Nat \ {0}, started : Nat, refused : BOOLEAN, active : Nat,
                  spans : Seq(Span), dropped : SUBSET Nat, running : Seq(Nat)]
    BY DEF NewTrace, NoSpan
  <2> HIDE DEF t
  <2>2. Parent(t) = 0 /\ Known(t, 0) /\ HasRoom(t)
    BY <2>1 DEF Parent, Known, HasRoom, NoSpan
  <2>3. /\ t.started + 1 = 1
        /\ [id |-> 1, parent |-> Parent(t), operation |-> "request", status |-> "open"] = span
    BY <2>1, <2>2
  <2> HIDE DEF span
  <2> DEFINE a == <<span>>
  <2> DEFINE b == <<1>>
  <2>4. Append(t.spans, span) = a /\ Append(t.running, 1) = b
    BY <2>1
  <2>5. /\ a \in Seq(Span) /\ DOMAIN a = {1} /\ Len(a) = 1 /\ a[1] = span
        /\ b \in Seq(Nat) /\ DOMAIN b = {1} /\ Len(b) = 1 /\ b[1] = 1
    BY <1>4
  <2> HIDE DEF a, b
  <2>6. trace = [t EXCEPT !.started = 1, !.running = b, !.active = 1, !.spans = a,
                          !.dropped = t.dropped]
    BY <1>2, <2>2, <2>3, <2>4 DEF StartSpan, t
  <2> HIDE DEF t
  <2>7. DOMAIN t = {"limit", "started", "refused", "active", "spans", "dropped", "running"}
    BY <2>1
  <2>8. /\ trace.limit = limit /\ trace.started = 1 /\ trace.refused = t.refused
        /\ trace.active = 1 /\ trace.spans = a /\ trace.dropped = {} /\ trace.running = b
    BY <2>1, <2>6, <2>7
  <2>9. trace \in TraceType
    <3> DEFINE h == 1
    <3>1. trace = [t EXCEPT !.started = h, !.running = b, !.active = h, !.spans = a,
                            !.dropped = t.dropped]
      BY <2>6
    <3>2. h \in Nat \ {0} /\ a \in Seq(Span) /\ b \in Seq(Nat)
      BY <2>5
    <3> HIDE DEF h
    <3>3. t \in [limit : Nat \ {0}, started : Nat, refused : BOOLEAN, active : Nat,
                spans : Seq(Span), dropped : SUBSET Nat, running : Seq(Nat)]
      BY <2>1
    <3> QED BY <3>1, <3>2, <3>3 DEF TraceType
  <2> QED BY <2>1, <2>5, <2>8, <2>9
<1>6. span.id = 1 /\ span.status \in Ends \cup {"open"}
  OBVIOUS
<1> HIDE DEF span
<1>7. Sound(trace)
  <2>1. IsTree(trace)
    BY <1>5, <1>6 DEF IsTree
  <2>2. IsStack(trace)
    BY <1>4, <1>5 DEF IsStack
  <2>3. IsChain(trace)
    BY <1>5 DEF IsChain
  <2> QED BY <1>5, <2>1, <2>2, <2>3 DEF Sound
<1>8. Normal(trace)
  BY <1>5, <1>6 DEF Normal
<1>9. LeftOpen(trace) = {}
  BY <1>5 DEF LeftOpen
<1>10. Depth = 1 /\ SpansStarted = 1
  BY <1>1 DEF Depth, SpansStarted
<1>11. Settled(trace)
  BY <1>9 DEF Settled
<1>12. RunningInv
  BY <1>1, <1>5, <1>7, <1>8, <1>9, <1>10, <1>11 DEF RunningInv
<1> QED BY <1>1, <1>12 DEF TraceInv, PhaseInv, FinishedInv

-----------------------------------------------------------------------------
(* FormalRequestExecutor.execute: a request that is traced, whose audit or *)
(* memory may fail and that may be cancelled at any await, takes the steps *)
(* of a path or none, so that what is proved of a path holds of it.        *)
THEOREM ObservedRequestsTakePaths == ObservedSpec => Init /\ [][Next]_vars
<1>1. ObservedInit => Init
  BY DEF ObservedInit
<1>2. [ObservedNext]_observedVars => [Next]_vars
  <2>1. CASE UNCHANGED observedVars
    BY <2>1 DEF observedVars
  <2>2. CASE ObservedNext
    BY <2>2
    DEF ObservedNext, Proceed, Observe, ReadMemory, LeaveCoordinator, PersistTurn,
        SummarizeTurn, Respond, Cancel, Next
  <2> QED BY <2>1, <2>2
<1> QED BY <1>1, <1>2, PTL DEF ObservedSpec

LEMMA ObservedPath == ObservedSpec => [](TypeOK /\ PathInv /\ OutcomeInv)
BY ObservedRequestsTakePaths, StepsKeepPath, PTL

LEMMA TraceInvariant == ObservedSpec => [](TypeOK /\ PathInv /\ TraceInv)
<1>1. ObservedInit => TraceInv
  BY TraceInit
<1> QED BY <1>1, TraceStep, ObservedPath, PTL DEF ObservedSpec

(* While a request runs, no span is unclosed or cancelled.                 *)
LEMMA RunningTells ==
    ASSUME TypeOK, RoundInv, PhaseInv, RunningInv, phase # "finished"
    PROVE  TraceIsOneTree /\ SpansTellHowSeamsEnded
<1>1. Sound(trace) /\ Normal(trace) /\ trace.started <= SpansStarted
  BY DEF RunningInv
<1>2. trace \in TraceType /\ trace.started \in Nat /\ trace.limit \in Nat
  BY <1>1, TraceParts DEF Sound
<1>3. SpansStarted \in Nat /\ SpansStarted <= 59
  BY SpansStartedBound
<1>4. trace.limit = DefaultLimit => trace.started <= trace.limit
  BY <1>1, <1>2, <1>3 DEF DefaultLimit
<1>5. TraceIsOneTree
  BY <1>1, <1>4 DEF TraceIsOneTree, Sound, IsTree
<1>6. ASSUME NEW i \in DOMAIN trace.spans
      PROVE  trace.spans[i].status \notin {"unclosed", "cancelled"}
  BY <1>1 DEF Normal, Ends
<1> QED
  BY <1>5, <1>6
  DEF SpansTellHowSeamsEnded, OnlyFailedSeamsLeaveSpans, CancellationReachesEverySeam, Served

LEMMA TracesTell ==
    ASSUME TypeOK, PathInv, TraceInv PROVE TraceIsOneTree /\ SpansTellHowSeamsEnded
<1>1. CASE phase = "finished"
  BY <1>1 DEF TraceInv, FinishedInv
<1>2. CASE phase # "finished"
  BY <1>2, RunningTells DEF TraceInv, PathInv
<1> QED BY <1>1, <1>2

(* TraceCollector.start_span: whatever limit a collector has, the trace of *)
(* a request is one tree, the first spans its seams started; no seam is    *)
(* refused its span, and under the default limit none is dropped.          *)
THEOREM TracesAreTrees == ObservedSpec => []TraceIsOneTree
<1>1. TypeOK /\ PathInv /\ TraceInv => TraceIsOneTree
  BY TracesTell
<1> QED BY <1>1, TraceInvariant, PTL

(* TraceExecution.finish and the seams: however a request ends, only a     *)
(* failed one leaves spans open, those of a native tool selection and of a *)
(* role that lists its exceptions, and a cancellation is recorded by all   *)
(* the seams it reaches, from the request down to its await.               *)
THEOREM SeamsTellTheirEnds == ObservedSpec => []SpansTellHowSeamsEnded
<1>1. TypeOK /\ PathInv /\ TraceInv => SpansTellHowSeamsEnded
  BY TracesTell
<1> QED BY <1>1, TraceInvariant, PTL

-----------------------------------------------------------------------------
(* RequestPolicy: the paths of the demo cases, gate by gate.               *)

(* The gates of a path that no provider is called at, and the calls made   *)
(* when the path is past its n-th gate.                                    *)
AskedFor(case) ==
    {Gate("scenario", case), Gate("workflow", Specification[case].workflow),
     Gate("skill", SkillOf[case])}
    \cup {Gate("tool", tool) : tool \in Specification[case].tools}
    \cup (IF case # "data" THEN {Gate("knowledge", "")} ELSE {})
    \cup (IF case # "knowledge" THEN {Gate("data", Domain)} ELSE {})

CallsUpTo(case, n) ==
    IF n = 0 THEN 0
    ELSE IF n <= 6 THEN 1
    ELSE IF case # "mixed" THEN n - 5
    ELSE IF n <= 10 THEN 2
    ELSE n - 8

WholePath(case) == IF case = "knowledge" THEN 6 ELSE IF case = "data" THEN 5 ELSE 9

(* A gate of a path: a call of a role, or one that it takes a grant for.   *)
IsGateOf(case, gate, n) ==
    \/ /\ \E role \in DOMAIN Roles : gate = Call(role)
       /\ CallsUpTo(case, n) = CallsUpTo(case, n - 1) + 1
    \/ /\ gate \in AskedFor(case)
       /\ CallsUpTo(case, n) = CallsUpTo(case, n - 1)
       /\ CallsUpTo(case, n) <= 2

IsPathOf(case, p) ==
    /\ Len(p) \in 10 .. 17 /\ DOMAIN p = 1 .. Len(p)
    /\ CallsUpTo(case, Len(p)) = WholePath(case)
    /\ p[1] = Call("router") /\ p[2] = Gate("scenario", case)
    /\ \A n \in 1 .. Len(p) : IsGateOf(case, p[n], n)
    /\ \A gate \in AskedFor(case) : \E n \in 1 .. Len(p) : p[n] = gate

(* The elements of a sequence that is put together.                        *)
LEMMA ElevenGates ==
    ASSUME NEW S, NEW a \in S, NEW b \in S, NEW c \in S, NEW d \in S, NEW e \in S, NEW f \in S,
           NEW w \in S, NEW x \in S, NEW y \in S, NEW z \in S, NEW p,
           p = <<a, b>> \o <<c>> \o <<d, e>> \o (<<f>> \o (<<w>> \o <<x, y, z>> \o <<w>>))
    PROVE  /\ DOMAIN p = 1 .. 11 /\ Len(p) = 11
           /\ p[1] = a /\ p[2] = b /\ p[3] = c /\ p[4] = d /\ p[5] = e /\ p[6] = f /\ p[7] = w
           /\ p[8] = x /\ p[9] = y /\ p[10] = z /\ p[11] = w
OBVIOUS

LEMMA TenGates ==
    ASSUME NEW S, NEW a \in S, NEW b \in S, NEW c \in S, NEW d \in S, NEW e \in S, NEW f \in S,
           NEW w \in S, NEW x \in S, NEW y \in S, NEW p,
           p = <<a, b>> \o <<c>> \o <<d, e>> \o (<<f>> \o (<<w>> \o <<x, y>> \o <<w>>))
    PROVE  /\ DOMAIN p = 1 .. 10 /\ Len(p) = 10
           /\ p[1] = a /\ p[2] = b /\ p[3] = c /\ p[4] = d /\ p[5] = e /\ p[6] = f /\ p[7] = w
           /\ p[8] = x /\ p[9] = y /\ p[10] = w
OBVIOUS

LEMMA SeventeenGates ==
    ASSUME NEW S, NEW a \in S, NEW b \in S, NEW c \in S, NEW d \in S, NEW e \in S, NEW f \in S,
           NEW g \in S, NEW h \in S, NEW i \in S, NEW k \in S, NEW l \in S, NEW x \in S,
           NEW y \in S, NEW z \in S, NEW u \in S, NEW v \in S, NEW p,
           p = <<a, b>> \o <<c, d>> \o <<e, f>>
                 \o (<<g, f>> \o <<h, i>> \o <<k, l>> \o <<x, y, z>> \o <<u, v>>)
    PROVE  /\ DOMAIN p = 1 .. 17 /\ Len(p) = 17
           /\ p[1] = a /\ p[2] = b /\ p[3] = c /\ p[4] = d /\ p[5] = e /\ p[6] = f /\ p[7] = g
           /\ p[8] = f /\ p[9] = h /\ p[10] = i /\ p[11] = k /\ p[12] = l /\ p[13] = x
           /\ p[14] = y /\ p[15] = z /\ p[16] = u /\ p[17] = v
OBVIOUS

LEMMA RolesAre ==
    DOMAIN Roles = {"router", "planner", "native_model", "data_query_planner",
                    "data_answer_generator", "evidence_selector", "answerability_reviewer",
                    "answer_generator", "synthesizer", "reviewer"}
BY DEF Roles

LEMMA KnowledgePath == IsPathOf("knowledge", Path("knowledge"))
<1> DEFINE case == "knowledge"
<1> DEFINE p == Path(case)
<1> DEFINE S == AskedFor(case) \cup {Call(role) : role \in DOMAIN Roles}
<1> DEFINE a == Call("router")
<1> DEFINE b == Gate("scenario", case)
<1> DEFINE c == Gate("knowledge", "")
<1> DEFINE d == Gate("workflow", "direct")
<1> DEFINE e == Gate("skill", "enterprise-knowledge-qa")
<1> DEFINE f == Gate("tool", KnowledgeTool)
<1> DEFINE w == Call("native_model")
<1> DEFINE x == Call("evidence_selector")
<1> DEFINE y == Call("answerability_reviewer")
<1> DEFINE z == Call("answer_generator")
<1>1. /\ Specification[case].workflow = "direct" /\ Specification[case].tools = {KnowledgeTool}
      /\ SkillOf[case] = "enterprise-knowledge-qa"
  BY DEF Specification, SkillOf
<1>2. AskedFor(case) = {b, c, d, e, f}
  BY <1>1 DEF AskedFor
<1>3. SkillGates(case) = <<Gate("tool", KnowledgeTool)>>
  BY DEF SkillGates, AllowedTools
<1>4. RouteScopes[case] = <<c>>
  BY DEF RouteScopes
<1>5. p = <<a, b>> \o <<c>> \o <<d, e>> \o (<<f>> \o (<<w>> \o <<x, y, z>> \o <<w>>))
  <2>1. Execution(case) = SkillGates(case) \o Native(KnowledgeAgent)
    BY <1>1 DEF Execution
  <2>2. (IF case = "mixed" THEN "controlled_mixed" ELSE "direct") = "direct"
    OBVIOUS
  <2> QED BY <1>1, <1>3, <1>4, <2>1, <2>2 DEF Path, Native, KnowledgeAgent
<1>6. /\ a \in S /\ w \in S /\ x \in S /\ y \in S /\ z \in S
  <2>1. \A role \in DOMAIN Roles : Call(role) \in S
    OBVIOUS
  <2> QED BY <2>1, RolesAre
<1>7. /\ b \in S /\ c \in S /\ d \in S /\ e \in S /\ f \in S
  BY <1>2
<1>8. {a, w, x, y, z} \subseteq {Call(role) : role \in DOMAIN Roles}
  BY RolesAre
<1> HIDE DEF a, b, c, d, e, f, w, x, y, z, p, S
<1>9. /\ DOMAIN p = 1 .. 11 /\ Len(p) = 11
      /\ p[1] = a /\ p[2] = b /\ p[3] = c /\ p[4] = d /\ p[5] = e /\ p[6] = f /\ p[7] = w
      /\ p[8] = x /\ p[9] = y /\ p[10] = z /\ p[11] = w
  BY <1>5, <1>6, <1>7, ElevenGates
<1>10. ASSUME NEW n \in 1 .. 11 PROVE IsGateOf(case, p[n], n)
  <2>1. CASE n = 1 \/ n > 6
    <3>1. n \in {1, 7, 8, 9, 10, 11}
      BY <2>1
    <3>2. p[n] \in {a, w, x, y, z}
      BY <1>9, <3>1
    <3>3. CallsUpTo(case, n) = CallsUpTo(case, n - 1) + 1
      BY <2>1 DEF CallsUpTo
    <3> QED BY <1>8, <3>2, <3>3 DEF IsGateOf
  <2>2. CASE n \in 2 .. 6
    <3>1. n \in {2, 3, 4, 5, 6}
      BY <2>2
    <3>2. p[n] \in AskedFor(case)
      BY <1>2, <1>9, <3>1
    <3>3. CallsUpTo(case, n) = CallsUpTo(case, n - 1) /\ CallsUpTo(case, n) <= 2
      BY <2>2 DEF CallsUpTo
    <3> QED BY <3>2, <3>3 DEF IsGateOf
  <2> QED BY <2>1, <2>2
<1>11. ASSUME NEW gate \in AskedFor(case) PROVE \E n \in 1 .. 11 : p[n] = gate
  BY <1>2, <1>9
<1>12. p[1] = Call("router") /\ p[2] = Gate("scenario", case)
  BY <1>9 DEF a, b
<1>13. CallsUpTo(case, 11) = WholePath(case)
  BY DEF CallsUpTo, WholePath
<1>14. IsPathOf(case, p)
  BY <1>9, <1>10, <1>11, <1>12, <1>13 DEF IsPathOf
<1> QED BY <1>14 DEF p

LEMMA DataPath == IsPathOf("data", Path("data"))
<1> DEFINE case == "data"
<1> DEFINE p == Path(case)
<1> DEFINE S == AskedFor(case) \cup {Call(role) : role \in DOMAIN Roles}
<1> DEFINE a == Call("router")
<1> DEFINE b == Gate("scenario", case)
<1> DEFINE c == Gate("data", Domain)
<1> DEFINE d == Gate("workflow", "direct")
<1> DEFINE e == Gate("skill", "enterprise-data-analysis")
<1> DEFINE f == Gate("tool", DataTool)
<1> DEFINE w == Call("native_model")
<1> DEFINE x == Call("data_query_planner")
<1> DEFINE y == Call("data_answer_generator")
<1>1. /\ Specification[case].workflow = "direct" /\ Specification[case].tools = {DataTool}
      /\ SkillOf[case] = "enterprise-data-analysis"
  BY DEF Specification, SkillOf
<1>2. AskedFor(case) = {b, c, d, e, f}
  BY <1>1 DEF AskedFor
<1>3. SkillGates(case) = <<Gate("tool", DataTool)>>
  BY DEF SkillGates, AllowedTools
<1>4. RouteScopes[case] = <<c>>
  BY DEF RouteScopes
<1>5. p = <<a, b>> \o <<c>> \o <<d, e>> \o (<<f>> \o (<<w>> \o <<x, y>> \o <<w>>))
  <2>1. Execution(case) = SkillGates(case) \o Native(DataAgent)
    BY <1>1 DEF Execution
  <2>2. (IF case = "mixed" THEN "controlled_mixed" ELSE "direct") = "direct"
    OBVIOUS
  <2> QED BY <1>1, <1>3, <1>4, <2>1, <2>2 DEF Path, Native, DataAgent
<1>6. /\ a \in S /\ w \in S /\ x \in S /\ y \in S
  <2>1. \A role \in DOMAIN Roles : Call(role) \in S
    OBVIOUS
  <2> QED BY <2>1, RolesAre
<1>7. /\ b \in S /\ c \in S /\ d \in S /\ e \in S /\ f \in S
  BY <1>2
<1>8. {a, w, x, y} \subseteq {Call(role) : role \in DOMAIN Roles}
  BY RolesAre
<1> HIDE DEF a, b, c, d, e, f, w, x, y, p, S
<1>9. /\ DOMAIN p = 1 .. 10 /\ Len(p) = 10
      /\ p[1] = a /\ p[2] = b /\ p[3] = c /\ p[4] = d /\ p[5] = e /\ p[6] = f /\ p[7] = w
      /\ p[8] = x /\ p[9] = y /\ p[10] = w
  BY <1>5, <1>6, <1>7, TenGates
<1>10. ASSUME NEW n \in 1 .. 10 PROVE IsGateOf(case, p[n], n)
  <2>1. CASE n = 1 \/ n > 6
    <3>1. n \in {1, 7, 8, 9, 10}
      BY <2>1
    <3>2. p[n] \in {a, w, x, y}
      BY <1>9, <3>1
    <3>3. CallsUpTo(case, n) = CallsUpTo(case, n - 1) + 1
      BY <2>1 DEF CallsUpTo
    <3> QED BY <1>8, <3>2, <3>3 DEF IsGateOf
  <2>2. CASE n \in 2 .. 6
    <3>1. n \in {2, 3, 4, 5, 6}
      BY <2>2
    <3>2. p[n] \in AskedFor(case)
      BY <1>2, <1>9, <3>1
    <3>3. CallsUpTo(case, n) = CallsUpTo(case, n - 1) /\ CallsUpTo(case, n) <= 2
      BY <2>2 DEF CallsUpTo
    <3> QED BY <3>2, <3>3 DEF IsGateOf
  <2> QED BY <2>1, <2>2
<1>11. ASSUME NEW gate \in AskedFor(case) PROVE \E n \in 1 .. 10 : p[n] = gate
  BY <1>2, <1>9
<1>12. p[1] = Call("router") /\ p[2] = Gate("scenario", case)
  BY <1>9 DEF a, b
<1>13. CallsUpTo(case, 10) = WholePath(case)
  BY DEF CallsUpTo, WholePath
<1>14. IsPathOf(case, p)
  BY <1>9, <1>10, <1>11, <1>12, <1>13 DEF IsPathOf
<1> QED BY <1>14 DEF p

LEMMA MixedPath == IsPathOf("mixed", Path("mixed"))
<1> DEFINE case == "mixed"
<1> DEFINE p == Path(case)
<1> DEFINE S == AskedFor(case) \cup {Call(role) : role \in DOMAIN Roles}
<1> DEFINE a == Call("router")
<1> DEFINE b == Gate("scenario", case)
<1> DEFINE c == Gate("knowledge", "")
<1> DEFINE d == Gate("data", Domain)
<1> DEFINE e == Gate("workflow", "controlled_mixed")
<1> DEFINE f == Gate("skill", "inventory-risk-diagnosis")
<1> DEFINE g == Call("planner")
<1> DEFINE h == Gate("tool", DataTool)
<1> DEFINE i == Gate("tool", KnowledgeTool)
<1> DEFINE k == Call("data_query_planner")
<1> DEFINE l == Call("data_answer_generator")
<1> DEFINE x == Call("evidence_selector")
<1> DEFINE y == Call("answerability_reviewer")
<1> DEFINE z == Call("answer_generator")
<1> DEFINE u == Call("synthesizer")
<1> DEFINE v == Call("reviewer")
<1>1. /\ Specification[case].workflow = "controlled_mixed" /\ Specification[case].tools = {DataTool, KnowledgeTool}
      /\ SkillOf[case] = "inventory-risk-diagnosis"
  BY DEF Specification, SkillOf
<1>2. AskedFor(case) = {b, c, d, e, f, h, i}
  BY <1>1 DEF AskedFor
<1>3. SkillGates(case) = <<Gate("tool", DataTool), Gate("tool", KnowledgeTool)>>
  BY DEF SkillGates, AllowedTools
<1>4. RouteScopes[case] = <<c, d>>
  BY DEF RouteScopes
<1>5. p = <<a, b>> \o <<c, d>> \o <<e, f>>
            \o (<<g, f>> \o <<h, i>> \o <<k, l>> \o <<x, y, z>> \o <<u, v>>)
  <2>1. Execution(case) = <<g, f>> \o SkillGates(case) \o DataAgent \o KnowledgeAgent
                              \o <<u, v>>
    BY <1>1 DEF Execution
  <2>2. (IF case = "mixed" THEN "controlled_mixed" ELSE "direct") = "controlled_mixed"
    OBVIOUS
  <2> QED BY <1>1, <1>3, <1>4, <2>1, <2>2 DEF Path, DataAgent, KnowledgeAgent
<1>6. /\ a \in S /\ g \in S /\ k \in S /\ l \in S /\ x \in S /\ y \in S /\ z \in S /\ u \in S
      /\ v \in S
  <2>1. \A role \in DOMAIN Roles : Call(role) \in S
    OBVIOUS
  <2> QED BY <2>1, RolesAre
<1>7. /\ b \in S /\ c \in S /\ d \in S /\ e \in S /\ f \in S /\ h \in S /\ i \in S
  BY <1>2
<1>8. {a, g, k, l, x, y, z, u, v} \subseteq {Call(role) : role \in DOMAIN Roles}
  BY RolesAre
<1> HIDE DEF a, b, c, d, e, f, g, h, i, k, l, x, y, z, u, v, p, S
<1>9. /\ DOMAIN p = 1 .. 17 /\ Len(p) = 17
      /\ p[1] = a /\ p[2] = b /\ p[3] = c /\ p[4] = d /\ p[5] = e /\ p[6] = f /\ p[7] = g
      /\ p[8] = f /\ p[9] = h /\ p[10] = i /\ p[11] = k /\ p[12] = l /\ p[13] = x /\ p[14] = y
      /\ p[15] = z /\ p[16] = u /\ p[17] = v
  BY <1>5, <1>6, <1>7, SeventeenGates
<1>10. ASSUME NEW n \in 1 .. 17 PROVE IsGateOf(case, p[n], n)
  <2>1. CASE n \in {1, 7} \/ n > 10
    <3>1. n \in {1, 7, 11, 12, 13, 14, 15, 16, 17}
      BY <2>1
    <3>2. p[n] \in {a, g, k, l, x, y, z, u, v}
      BY <1>9, <3>1
    <3>3. CallsUpTo(case, n) = CallsUpTo(case, n - 1) + 1
      BY <2>1 DEF CallsUpTo
    <3> QED BY <1>8, <3>2, <3>3 DEF IsGateOf
  <2>2. CASE n \in 2 .. 6 \/ n \in 8 .. 10
    <3>1. n \in {2, 3, 4, 5, 6, 8, 9, 10}
      BY <2>2
    <3>2. p[n] \in AskedFor(case)
      BY <1>2, <1>9, <3>1
    <3>3. CallsUpTo(case, n) = CallsUpTo(case, n - 1) /\ CallsUpTo(case, n) <= 2
      BY <2>2 DEF CallsUpTo
    <3> QED BY <3>2, <3>3 DEF IsGateOf
  <2> QED BY <2>1, <2>2
<1>11. ASSUME NEW gate \in AskedFor(case) PROVE \E n \in 1 .. 17 : p[n] = gate
  BY <1>2, <1>9
<1>12. p[1] = Call("router") /\ p[2] = Gate("scenario", case)
  BY <1>9 DEF a, b
<1>13. CallsUpTo(case, 17) = WholePath(case)
  BY DEF CallsUpTo, WholePath
<1>14. IsPathOf(case, p)
  BY <1>9, <1>10, <1>11, <1>12, <1>13 DEF IsPathOf
<1> QED BY <1>14 DEF p

(* The case of a path, by its gates.                                       *)
LEMMA CasePath ==
    ASSUME NEW case \in Cases PROVE IsPathOf(case, Path(case))
BY KnowledgePath, DataPath, MixedPath DEF Cases

-----------------------------------------------------------------------------
(* Walk. *)

(* The walk so far, past every gate.                                       *)
Walks(f, grantee, oversized, p, n) ==
    f = [i \in 0 .. n |-> IF i = 0 THEN [refusal |-> "none", calls |-> 0]
                                   ELSE Pass(grantee, oversized, f[i - 1], p[i])]

LEMMA WalkRecurs ==
    ASSUME NEW grantee, NEW oversized, NEW case, Len(Path(case)) \in Nat
    PROVE  \E f : /\ Walks(f, grantee, oversized, Path(case), Len(Path(case)))
                  /\ Walk(grantee, oversized, case) = f[Len(Path(case))]
<1> DEFINE t == [refusal |-> "none", calls |-> 0]
<1> DEFINE p == Path(case)
<1> DEFINE n == Len(p)
<1> DEFINE R == {m \in Nat : \E f : Walks(f, grantee, oversized, p, m)}
<1>1. 0 \in R
  <2> DEFINE f == [i \in 0 .. 0 |-> t]
  <2>1. Walks(f, grantee, oversized, p, 0)
    BY DEF Walks
  <2> QED BY <2>1
<1>2. ASSUME NEW m \in Nat, m \in R PROVE m + 1 \in R
  <2>1. PICK f : Walks(f, grantee, oversized, p, m)
    BY <1>2
  <2> HIDE DEF t, p
  <2> DEFINE g == [i \in 0 .. m + 1 |->
                      IF i <= m THEN f[i] ELSE Pass(grantee, oversized, f[m], p[m + 1])]
  <2> DEFINE h == [i \in 0 .. m + 1 |->
                      IF i = 0 THEN t ELSE Pass(grantee, oversized, g[i - 1], p[i])]
  <2>2. ASSUME NEW i \in 0 .. m + 1 PROVE g[i] = h[i]
    <3>1. CASE i = 0
      BY <2>1, <3>1 DEF Walks, t
    <3>2. CASE i \in 1 .. m
      <4>1. g[i] = f[i] /\ g[i - 1] = f[i - 1]
        BY <3>2
      <4>2. f[i] = Pass(grantee, oversized, f[i - 1], p[i])
        BY <2>1, <3>2 DEF Walks
      <4> QED BY <3>2, <4>1, <4>2
    <3>3. CASE i = m + 1
      <4>1. g[i] = Pass(grantee, oversized, f[m], p[i]) /\ g[i - 1] = f[m] /\ i # 0
        BY <3>3
      <4> QED BY <4>1
    <3> QED BY <3>1, <3>2, <3>3
  <2>3. g = h
    BY <2>2
  <2> HIDE DEF g
  <2>4. Walks(g, grantee, oversized, p, m + 1)
    BY <2>3 DEF Walks, t
  <2> QED BY <2>4
<1> HIDE DEF R
<1>3. n \in R
  BY <1>1, <1>2, NatsAreReached
<1>4. PICK f : Walks(f, grantee, oversized, p, n)
  BY <1>3 DEF R
<1> DEFINE walked == CHOOSE w : w = [i \in 0 .. n |->
                        IF i = 0 THEN t ELSE Pass(grantee, oversized, w[i - 1], p[i])]
<1>5. Walks(walked, grantee, oversized, p, n)
  BY <1>4, Zenon DEF Walks
<1>6. Walk(grantee, oversized, case) = walked[n]
  BY DEF Walk
<1> HIDE DEF walked
<1> QED BY <1>5, <1>6

(* What a walk is at the start and past a gate.                            *)
LEMMA WalkGoesOn ==
    ASSUME NEW f, NEW grantee, NEW oversized, NEW p, NEW n \in Nat,
           Walks(f, grantee, oversized, p, n)
    PROVE  /\ f[0] = [refusal |-> "none", calls |-> 0]
           /\ \A i \in 1 .. n : f[i] = Pass(grantee, oversized, f[i - 1], p[i])
<1>1. f[0] = [refusal |-> "none", calls |-> 0]
  BY DEF Walks
<1>2. ASSUME NEW i \in 1 .. n PROVE f[i] = Pass(grantee, oversized, f[i - 1], p[i])
  <2>1. i \in 0 .. n /\ i # 0
    OBVIOUS
  <2> QED BY <2>1 DEF Walks
<1> QED BY <1>1, <1>2

(* A walk that is refused ends where it is.                                *)
LEMMA RefusalStays ==
    ASSUME NEW f, NEW grantee, NEW oversized, NEW p, NEW n \in Nat,
           Walks(f, grantee, oversized, p, n), NEW k \in 0 .. n, f[k].refusal # "none"
    PROVE  f[n] = f[k]
<1> DEFINE R == {m \in Nat : k <= m /\ m <= n => f[m] = f[k]}
<1>1. 0 \in R
  <2>1. k <= 0 => k = 0
    OBVIOUS
  <2> QED BY <2>1
<1>2. ASSUME NEW m \in Nat, m \in R PROVE m + 1 \in R
  <2>1. CASE k = m + 1
    BY <2>1
  <2>2. CASE k <= m /\ m + 1 <= n
    <3>1. m + 1 \in 1 .. n /\ (m + 1) - 1 = m
      BY <2>2
    <3>2. f[m + 1] = Pass(grantee, oversized, f[m], p[m + 1])
      BY <3>1, WalkGoesOn
    <3>3. f[m] = f[k]
      BY <1>2, <2>2
    <3> QED BY <3>2, <3>3 DEF Pass
  <2>3. CASE ~(k <= m + 1 /\ m + 1 <= n)
    BY <2>3
  <2>4. k = m + 1 \/ (k <= m /\ m + 1 <= n) \/ ~(k <= m + 1 /\ m + 1 <= n)
    OBVIOUS
  <2> QED BY <2>1, <2>2, <2>3, <2>4
<1> HIDE DEF R
<1>3. n \in R
  BY <1>1, <1>2, NatsAreReached
<1> QED BY <1>3 DEF R

-----------------------------------------------------------------------------
(* The tables. *)

(* The matrix: a role's call may leave as long as the budget lasts, unless *)
(* its payload is too large.                                               *)
LEMMA RolesMayCall ==
    ASSUME MaxProviderCalls >= 9, NEW role \in DOMAIN Roles, NEW oversized, NEW made \in 0 .. 8
    PROVE  Egress(role, oversized, made)
             = IF role \in oversized THEN "provider_payload_too_large" ELSE "none"
<1>1. Projects(role)
  BY DEF Projects, Projectors, CallNames, Traced
<1>2. /\ Roles[role].class \in StagePolicies[Roles[role].stage].classes
      /\ ~(Roles[role].items > StagePolicies[Roles[role].stage].items)
  BY RolesAre DEF Roles, Wired, StagePolicies, Query, Summary, EvidenceMaxCount
<1>3. ~(made >= MaxProviderCalls)
  BY AgentAssumption
<1> QED BY <1>1, <1>2, <1>3 DEF Egress

(* What a demo context grants: what the paths of its cases ask for.        *)
LEMMA DemoGrants ==
    ASSUME NEW cases \in SUBSET Cases, NEW case \in cases,
           NEW gate \in AskedFor(case)
    PROVE  Authorize(DemoContext("demo", cases), gate) = "none"
<1> DEFINE g == DemoContext("demo", cases)
<1>1. case \in Cases
  OBVIOUS
<1>2. CASE gate = Gate("scenario", case)
  BY <1>2 DEF Gate, Authorize, Granted, DemoContext
<1>3. CASE gate = Gate("workflow", Specification[case].workflow)
  BY <1>3 DEF Gate, Authorize, Granted, DemoContext
<1>4. CASE gate = Gate("skill", SkillOf[case])
  <2>1. SkillOf[case] = Specification[case].skill
    BY <1>1 DEF Cases, SkillOf, Specification
  <2> QED BY <1>4, <2>1 DEF Gate, Authorize, Granted, DemoContext
<1>5. CASE \E tool \in Specification[case].tools : gate = Gate("tool", tool)
  BY <1>5 DEF Gate, Authorize, Granted, DemoContext
<1>6. CASE gate = Gate("knowledge", "") /\ case # "data"
  <2> DEFINE documents == UNION {Specification[c].documents : c \in cases}
  <2>0. Specification[case].documents # {}
    <3>1. CASE case = "knowledge"
      <4>1. "DOC-ORG-001" \in Specification[case].documents
        BY <3>1 DEF Specification
      <4> QED BY <4>1
    <3>2. CASE case = "mixed"
      <4>1. "DOC-INV-001" \in Specification[case].documents
        BY <3>2 DEF Specification
      <4> QED BY <4>1
    <3> QED BY <1>1, <1>6, <3>1, <3>2 DEF Cases
  <2>1. documents # {}
    BY <2>0
  <2> DEFINE scope == [tenant |-> "demo", documents |-> documents]
  <2>2. g.knowledgeScope = {scope} /\ g.tenant = "demo"
    BY <2>1 DEF DemoContext
  <2>3. scope.tenant = "demo" /\ scope.documents # {}
    BY <2>1
  <2> HIDE DEF scope, g
  <2>4. (CHOOSE s \in {scope} : TRUE) = scope
    OBVIOUS
  <2>5. scope \in {s \in g.knowledgeScope : s.documents # {}} /\ g.knowledgeScope # {}
    BY <2>2, <2>3
  <2>6. Authorize(g, gate) = InScope(g, g.knowledgeScope,
                                     {s \in g.knowledgeScope : s.documents # {}},
                                     "knowledge_scope_missing", "knowledge_scope_violation")
    BY <1>6 DEF Gate, Authorize
  <2> QED BY <2>2, <2>3, <2>4, <2>5, <2>6 DEF InScope, g
<1>7. CASE gate = Gate("data", Domain) /\ case # "knowledge"
  <2> DEFINE resources == UNION {Specification[c].resources : c \in cases}
  <2>0. Specification[case].resources # {}
    BY <1>1, <1>7 DEF Cases, Specification
  <2>1. resources # {}
    BY <2>0
  <2> DEFINE scope == [tenant |-> "demo", domains |-> {Domain}, resources |-> resources,
                       capabilities |-> {"read"}]
  <2>2. g.dataScope = {scope} /\ g.tenant = "demo"
    BY <2>1 DEF DemoContext
  <2>3. scope.tenant = "demo" /\ Permits(scope) /\ scope.resources # {}
    BY <2>1 DEF Permits
  <2> HIDE DEF scope, g
  <2>4. (CHOOSE s \in {scope} : TRUE) = scope
    OBVIOUS
  <2>5. scope \in {s \in g.dataScope : Permits(s) /\ s.resources # {}} /\ g.dataScope # {}
    BY <2>2, <2>3
  <2>6. Authorize(g, gate) = InScope(g, g.dataScope,
                                     {s \in g.dataScope : Permits(s) /\ s.resources # {}},
                                     "data_scope_missing", "data_scope_violation")
    BY <1>7 DEF Gate, Authorize
  <2> QED BY <2>2, <2>3, <2>4, <2>5, <2>6 DEF InScope, g
<1> QED BY <1>2, <1>3, <1>4, <1>5, <1>6, <1>7 DEF AskedFor

(* Every context with less lacks something that the path asks for.         *)
LEMMA LessIsRefused ==
    ASSUME NEW case \in Cases, NEW weakened \in Weakened(DemoContext("demo", {case}))
    PROVE  \E gate \in AskedFor(case) : Authorize(weakened, gate) # "none"
<1> DEFINE g == DemoContext("demo", {case})
<1>1. /\ g.scenarios = {case} /\ g.workflows = {Specification[case].workflow}
      /\ g.skills = {SkillOf[case]} /\ g.tools = Specification[case].tools
      /\ g.tenant = "demo"
      /\ DOMAIN g = {"tenant", "scenarios", "workflows", "skills", "tools", "dataScope",
                     "knowledgeScope"}
  <2>1. SkillOf[case] = Specification[case].skill
    BY DEF Cases, SkillOf, Specification
  <2>2. UNION {Specification[c].tools : c \in {case}} = Specification[case].tools
    OBVIOUS
  <2> QED BY <2>1, <2>2 DEF DemoContext
<1>2. /\ case # "other" /\ Specification[case].workflow # "other" /\ SkillOf[case] # "other"
      /\ "other" \notin Specification[case].tools
  BY DEF Cases, SkillOf, Specification, KnowledgeTool, DataTool
<1>3. CASE \E kind \in {"scenarios", "workflows", "skills", "tools"} : \E grant \in g[kind] :
              weakened = [g EXCEPT ![kind] = Without(@, grant)]
  <2>0. PICK kind \in {"scenarios", "workflows", "skills", "tools"} :
              \E grant \in g[kind] : weakened = [g EXCEPT ![kind] = Without(@, grant)]
    BY <1>3
  <2>1. PICK grant \in g[kind] : weakened = [g EXCEPT ![kind] = Without(@, grant)]
    BY <2>0
  <2>2. weakened[kind] = (g[kind] \ {grant}) \cup {"other"} /\ grant # "other"
    BY <1>1, <1>2, <2>1 DEF Without
  <2> HIDE DEF g
  <2>3. grant \notin weakened[kind]
    BY <2>2
  <2>4. CASE kind = "scenarios"
    <3>1. grant = case /\ Gate("scenario", case) \in AskedFor(case)
      BY <1>1, <2>1, <2>4 DEF AskedFor
    <3>2. Authorize(weakened, Gate("scenario", case)) = "scenario_forbidden"
      BY <2>3, <2>4, <3>1 DEF Authorize, Gate, Granted
    <3> QED BY <3>1, <3>2
  <2>5. CASE kind = "workflows"
    <3> DEFINE gate == Gate("workflow", Specification[case].workflow)
    <3>1. grant = Specification[case].workflow /\ gate \in AskedFor(case)
      BY <1>1, <2>1, <2>5 DEF AskedFor
    <3>2. Authorize(weakened, gate) = "workflow_forbidden"
      BY <2>3, <2>5, <3>1 DEF Authorize, Gate, Granted
    <3> QED BY <3>1, <3>2
  <2>6. CASE kind = "skills"
    <3>1. grant = SkillOf[case] /\ Gate("skill", SkillOf[case]) \in AskedFor(case)
      BY <1>1, <2>1, <2>6 DEF AskedFor
    <3>2. Authorize(weakened, Gate("skill", SkillOf[case])) = "skill_forbidden"
      BY <2>3, <2>6, <3>1 DEF Authorize, Gate, Granted
    <3> QED BY <3>1, <3>2
  <2>7. CASE kind = "tools"
    <3>1. Gate("tool", grant) \in AskedFor(case)
      BY <1>1, <2>1, <2>7 DEF AskedFor
    <3>2. Authorize(weakened, Gate("tool", grant)) = "tool_forbidden"
      BY <2>3, <2>7 DEF Authorize, Gate, Granted
    <3> QED BY <3>1, <3>2
  <2> QED BY <2>4, <2>5, <2>6, <2>7
<1>4. CASE \E weaker \in WeakerDataScopes(g.dataScope) \ {g.dataScope} :
              weakened = [g EXCEPT !.dataScope = weaker]
  <2>1. PICK weaker \in WeakerDataScopes(g.dataScope) \ {g.dataScope} :
              weakened = [g EXCEPT !.dataScope = weaker]
    BY <1>4
  <2>2. weakened.dataScope = weaker /\ weakened.tenant = "demo"
    BY <1>1, <2>1
  <2>3. g.dataScope # {}
    BY <2>1 DEF WeakerDataScopes
  <2> DEFINE resources == UNION {Specification[c].resources : c \in {case}}
  <2> DEFINE scope == [tenant |-> "demo", domains |-> {Domain}, resources |-> resources,
                       capabilities |-> {"read"}]
  <2>4. g.dataScope = {scope} /\ resources # {}
    BY <2>3 DEF DemoContext
  <2>5. Gate("data", Domain) \in AskedFor(case)
    <3>1. case # "knowledge"
      BY <2>4 DEF Specification
    <3> QED BY <3>1 DEF AskedFor
  <2> HIDE DEF g
  <2>6. weaker \in {{}, {[scope EXCEPT !.domains = {}]}, {[scope EXCEPT !.capabilities = {}]},
                    {[scope EXCEPT !.tenant = "other"]}}
    <3> HIDE DEF scope
    <3>1. WeakerDataScopes({scope})
            = {{}} \cup {{[scope EXCEPT !.domains = {}]}, {[scope EXCEPT !.capabilities = {}]},
                         {[scope EXCEPT !.tenant = "other"]}}
      BY DEF WeakerDataScopes
    <3> QED BY <2>1, <2>4, <3>1
  <2>7. ASSUME NEW s, weaker = {s}, s.tenant # "demo" \/ ~Permits(s)
        PROVE  Authorize(weakened, Gate("data", Domain)) # "none"
    <3>1. (CHOOSE x \in {s} : TRUE) = s /\ {s} # {}
      OBVIOUS
    <3>2. Authorize(weakened, Gate("data", Domain))
            = InScope(weakened, {s}, {x \in {s} : Permits(x) /\ x.resources # {}},
                      "data_scope_missing", "data_scope_violation")
      BY <2>2, <2>7 DEF Authorize, Gate
    <3>3. s.tenant # "demo" \/ s \notin {x \in {s} : Permits(x) /\ x.resources # {}}
      BY <2>7
    <3> QED BY <2>2, <3>1, <3>2, <3>3 DEF InScope
  <2>8. Authorize(weakened, Gate("data", Domain)) # "none"
    <3>1. CASE weaker = {}
      BY <2>2, <3>1 DEF Authorize, Gate, InScope
    <3>2. CASE weaker = {[scope EXCEPT !.domains = {}]}
      BY <2>7, <3>2 DEF Permits
    <3>3. CASE weaker = {[scope EXCEPT !.capabilities = {}]}
      BY <2>7, <3>3 DEF Permits
    <3>4. CASE weaker = {[scope EXCEPT !.tenant = "other"]}
      BY <2>7, <3>4
    <3> QED BY <2>6, <3>1, <3>2, <3>3, <3>4
  <2> QED BY <2>5, <2>8
<1>5. CASE \E weaker \in WeakerKnowledgeScopes(g.knowledgeScope) \ {g.knowledgeScope} :
              weakened = [g EXCEPT !.knowledgeScope = weaker]
  <2>1. PICK weaker \in WeakerKnowledgeScopes(g.knowledgeScope) \ {g.knowledgeScope} :
              weakened = [g EXCEPT !.knowledgeScope = weaker]
    BY <1>5
  <2>2. weakened.knowledgeScope = weaker /\ weakened.tenant = "demo"
    BY <1>1, <2>1
  <2>3. g.knowledgeScope # {}
    BY <2>1 DEF WeakerKnowledgeScopes
  <2> DEFINE documents == UNION {Specification[c].documents : c \in {case}}
  <2> DEFINE scope == [tenant |-> "demo", documents |-> documents]
  <2>4. g.knowledgeScope = {scope} /\ documents # {}
    BY <2>3 DEF DemoContext
  <2>5. Gate("knowledge", "") \in AskedFor(case)
    <3>1. case # "data"
      BY <2>4 DEF Specification
    <3> QED BY <3>1 DEF AskedFor
  <2> HIDE DEF g
  <2>6. weaker \in {{}, {[scope EXCEPT !.tenant = "other"]}}
    BY <2>1, <2>4 DEF WeakerKnowledgeScopes
  <2>7. Authorize(weakened, Gate("knowledge", "")) # "none"
    <3>1. CASE weaker = {}
      BY <2>2, <3>1 DEF Authorize, Gate, InScope
    <3>2. CASE weaker = {[scope EXCEPT !.tenant = "other"]}
      <4> DEFINE s == [scope EXCEPT !.tenant = "other"]
      <4>1. s.tenant = "other"
        OBVIOUS
      <4> HIDE DEF s
      <4>2. (CHOOSE x \in {s} : TRUE) = s /\ {s} # {}
        OBVIOUS
      <4>3. Authorize(weakened, Gate("knowledge", ""))
              = InScope(weakened, {s}, {x \in {s} : x.documents # {}},
                        "knowledge_scope_missing", "knowledge_scope_violation")
        BY <2>2, <3>2 DEF Authorize, Gate, s
      <4> QED BY <2>2, <4>1, <4>2, <4>3 DEF InScope
    <3> QED BY <2>6, <3>1, <3>2
  <2> QED BY <2>5, <2>7
<1>6. \/ weakened \in UNION {{[g EXCEPT ![kind] = Without(@, grant)] : grant \in g[kind]} :
                                kind \in {"scenarios", "workflows", "skills", "tools"}}
      \/ weakened \in {[g EXCEPT !.dataScope = weaker] :
                          weaker \in WeakerDataScopes(g.dataScope) \ {g.dataScope}}
      \/ weakened \in {[g EXCEPT !.knowledgeScope = weaker] :
                          weaker \in WeakerKnowledgeScopes(g.knowledgeScope)
                                       \ {g.knowledgeScope}}
  BY Zenon DEF Weakened
<1> QED BY <1>3, <1>4, <1>5, <1>6

-----------------------------------------------------------------------------
(* What a walk comes to. *)

(* The gates of a path, and the calls made at each.                        *)
LEMMA GatesOfPaths ==
    ASSUME NEW case \in Cases
    PROVE  /\ Len(Path(case)) \in 10 .. 17
           /\ Path(case)[1] = Call("router") /\ Path(case)[2] = Gate("scenario", case)
           /\ \A n \in 1 .. Len(Path(case)) : IsGateOf(case, Path(case)[n], n)
           /\ \A n \in 0 .. Len(Path(case)) : CallsUpTo(case, n) \in 0 .. 9
           /\ CallsUpTo(case, Len(Path(case))) = WholePath(case)
           /\ CallsUpTo(case, 0) = 0 /\ CallsUpTo(case, 1) = 1
<1> DEFINE p == Path(case)
<1>1. IsPathOf(case, p)
  BY CasePath
<1> HIDE DEF p
<1>2. Len(p) \in 10 .. 17 /\ CallsUpTo(case, Len(p)) = WholePath(case)
  BY <1>1 DEF IsPathOf
<1>3. ASSUME NEW n \in 0 .. Len(p) PROVE CallsUpTo(case, n) \in 0 .. 9
  <2> DEFINE l == Len(p)
  <2>1. l \in 10 .. 17 /\ CallsUpTo(case, l) = WholePath(case) /\ n \in 0 .. l
    BY <1>2
  <2> HIDE DEF l
  <2>2. ASSUME case # "mixed" PROVE n <= 11
    <3>1. l - 5 = WholePath(case)
      BY <2>1, <2>2 DEF CallsUpTo
    <3>2. WholePath(case) \in {5, 6}
      BY <2>2 DEF WholePath, Cases
    <3> QED BY <2>1, <3>1, <3>2
  <2> QED BY <2>1, <2>2 DEF CallsUpTo
<1>4. CallsUpTo(case, 0) = 0 /\ CallsUpTo(case, 1) = 1
  BY DEF CallsUpTo
<1>5. /\ p[1] = Call("router") /\ p[2] = Gate("scenario", case)
      /\ \A n \in 1 .. Len(p) : IsGateOf(case, p[n], n)
  BY <1>1 DEF IsPathOf
<1> USE DEF p
<1> QED BY <1>2, <1>3, <1>4, <1>5

LEMMA GrantsAreNoCalls ==
    ASSUME NEW case, NEW gate \in AskedFor(case) PROVE gate.kind # "call"
<1>1. \E kind \in {"scenario", "workflow", "skill", "tool", "knowledge", "data"} : \E name :
          gate = Gate(kind, name)
  BY DEF AskedFor
<1> QED BY <1>1 DEF Gate

LEMMA CallsAreCalls ==
    ASSUME NEW role PROVE Call(role).kind = "call" /\ Call(role).name = role
BY DEF Call, Gate

(* A walk past n gates and the calls it has made.                          *)
Tallied(walk, most) ==
    walk = [refusal |-> walk.refusal, calls |-> walk.calls] /\ walk.calls \in 0 .. most

(* A walk makes the calls of its gates at most.                            *)
LEMMA WalksAreTallied ==
    ASSUME NEW grantee, NEW oversized, NEW case \in Cases, NEW f,
           Walks(f, grantee, oversized, Path(case), Len(Path(case)))
    PROVE  \A n \in 0 .. Len(Path(case)) : Tallied(f[n], CallsUpTo(case, n))
<1> DEFINE p == Path(case)
<1> DEFINE R == {n \in Nat : n <= Len(p) => Tallied(f[n], CallsUpTo(case, n))}
<1>1. Len(p) \in Nat
  BY GatesOfPaths
<1>2. 0 \in R
  <2>1. f[0] = [refusal |-> "none", calls |-> 0]
    BY <1>1, WalkGoesOn
  <2> QED BY <2>1, GatesOfPaths DEF Tallied
<1>3. ASSUME NEW n \in Nat, n \in R PROVE n + 1 \in R
  <2> SUFFICES ASSUME n + 1 <= Len(p) PROVE Tallied(f[n + 1], CallsUpTo(case, n + 1))
    OBVIOUS
  <2>1. n + 1 \in 1 .. Len(p) /\ (n + 1) - 1 = n /\ n <= Len(p)
    BY <1>1
  <2> DEFINE gate == p[n + 1]
  <2> DEFINE c == CallsUpTo(case, n)
  <2> DEFINE d == CallsUpTo(case, n + 1)
  <2>2. f[n + 1] = Pass(grantee, oversized, f[n], gate)
    BY <1>1, <2>1, WalkGoesOn
  <2>3. f[n] = [refusal |-> f[n].refusal, calls |-> f[n].calls] /\ f[n].calls \in 0 .. c
    BY <1>3, <2>1 DEF Tallied
  <2>4. IsGateOf(case, gate, n + 1) /\ d \in 0 .. 9
    BY <2>1, GatesOfPaths
  <2>5. (gate.kind = "call" /\ d = c + 1) \/ (gate.kind # "call" /\ d = c)
    BY <2>1, <2>4, GrantsAreNoCalls, CallsAreCalls DEF IsGateOf
  <2>6. c \in Nat
    <3>1. n \in 0 .. Len(p)
      BY <1>1, <2>1
    <3>2. c \in 0 .. 9
      BY <3>1, GatesOfPaths
    <3> QED BY <3>2
  <2> HIDE DEF c, d, gate, p
  <2>7. CASE f[n].refusal # "none"
    BY <2>2, <2>3, <2>4, <2>5, <2>6, <2>7 DEF Pass, Tallied, d
  <2>8. CASE f[n].refusal = "none" /\ gate.kind # "call"
    <3> DEFINE code == Authorize(grantee, gate)
    <3>1. f[n + 1] = [f[n] EXCEPT !.refusal = code]
      BY <2>2, <2>8 DEF Pass
    <3> HIDE DEF code
    <3>2. f[n + 1] = [refusal |-> code, calls |-> f[n].calls]
      BY <2>3, <3>1
    <3> QED BY <2>3, <2>5, <2>8, <3>2 DEF Tallied, d
  <2>9. CASE f[n].refusal = "none" /\ gate.kind = "call"
    <3> DEFINE code == Egress(gate.name, oversized, f[n].calls)
    <3>1. f[n + 1] = [refusal |-> code, calls |-> f[n].calls + IF code = "none" THEN 1 ELSE 0]
      BY <2>2, <2>9 DEF Pass
    <3> HIDE DEF code
    <3>2. f[n + 1].calls \in 0 .. d
      BY <2>3, <2>5, <2>6, <2>9, <3>1
    <3> QED BY <3>1, <3>2 DEF Tallied, d
  <2> QED BY <2>7, <2>8, <2>9
<1> HIDE DEF R
<1>4. \A n \in Nat : n \in R
  BY <1>2, <1>3, NatsAreReached
<1> QED BY <1>1, <1>4 DEF R

(* A context that lacks what the path asks for is refused, and early.      *)
LEMMA MissingGrantsRefuse ==
    ASSUME NEW grantee, NEW oversized, NEW case \in Cases, NEW gate \in AskedFor(case),
           Authorize(grantee, gate) # "none"
    PROVE  /\ Walk(grantee, oversized, case).refusal # "none"
           /\ Walk(grantee, oversized, case).calls <= 2
<1> DEFINE p == Path(case)
<1>1. Len(p) \in Nat
  BY GatesOfPaths
<1>2. PICK f : /\ Walks(f, grantee, oversized, p, Len(p))
               /\ Walk(grantee, oversized, case) = f[Len(p)]
  BY <1>1, WalkRecurs
<1>3. PICK n \in 1 .. Len(p) : p[n] = gate
  BY CasePath DEF IsPathOf
<1>4. CallsUpTo(case, n) <= 2 /\ CallsUpTo(case, n) \in Nat
  <2>1. IsGateOf(case, p[n], n) /\ CallsUpTo(case, n) \in 0 .. 9
    BY GatesOfPaths
  <2>2. gate.kind # "call"
    BY GrantsAreNoCalls
  <2> QED BY <1>3, <2>1, <2>2, CallsAreCalls DEF IsGateOf
<1>5. n - 1 \in 0 .. Len(p) /\ n \in 0 .. Len(p)
  BY <1>1
<1>6. Tallied(f[n - 1], CallsUpTo(case, n - 1)) /\ Tallied(f[n], CallsUpTo(case, n))
  BY <1>2, <1>5, WalksAreTallied
<1>7. f[n] = Pass(grantee, oversized, f[n - 1], gate)
  BY <1>1, <1>2, <1>3, WalkGoesOn
<1>8. f[n].refusal # "none"
  <2>1. CASE f[n - 1].refusal # "none"
    BY <1>7, <2>1 DEF Pass
  <2>2. CASE f[n - 1].refusal = "none"
    <3> DEFINE code == Authorize(grantee, gate)
    <3>1. gate.kind # "call"
      BY GrantsAreNoCalls
    <3>2. f[n] = [f[n - 1] EXCEPT !.refusal = code]
      BY <1>7, <2>2, <3>1 DEF Pass
    <3>3. code # "none"
      OBVIOUS
    <3> HIDE DEF code
    <3> QED BY <1>6, <3>2, <3>3 DEF Tallied
  <2> QED BY <2>1, <2>2
<1>9. f[Len(p)] = f[n]
  BY <1>1, <1>2, <1>5, <1>8, RefusalStays
<1>10. f[n].calls <= 2
  BY <1>4, <1>6 DEF Tallied
<1> QED BY <1>2, <1>8, <1>9, <1>10

(* Who was not granted a case is refused when its router was called.       *)
LEMMA OtherCasesRefuse ==
    ASSUME MaxProviderCalls >= 9, NEW grantee, NEW case \in Cases, case \notin grantee.scenarios
    PROVE  Walk(grantee, {}, case).refusal # "none" /\ Walk(grantee, {}, case).calls = 1
<1> DEFINE p == Path(case)
<1>1. Len(p) \in 10 .. 17 /\ p[1] = Call("router") /\ p[2] = Gate("scenario", case)
  BY GatesOfPaths
<1>2. PICK f : Walks(f, grantee, {}, p, Len(p)) /\ Walk(grantee, {}, case) = f[Len(p)]
  BY <1>1, WalkRecurs
<1> HIDE DEF p
<1>3. /\ f[0] = [refusal |-> "none", calls |-> 0]
      /\ f[1] = Pass(grantee, {}, f[0], p[1])
      /\ f[2] = Pass(grantee, {}, f[1], p[2])
  <2>1. 1 \in 1 .. Len(p) /\ 2 \in 1 .. Len(p) /\ 1 - 1 = 0 /\ 2 - 1 = 1
    BY <1>1
  <2> QED BY <1>1, <1>2, <2>1, WalkGoesOn
<1>4. f[1] = [refusal |-> "none", calls |-> 1]
  <2>1. Egress("router", {}, 0) = "none"
    BY RolesMayCall, RolesAre
  <2> QED BY <1>1, <1>3, <2>1, CallsAreCalls DEF Pass
<1>5. f[2] = [refusal |-> "scenario_forbidden", calls |-> 1]
  <2>1. p[2].kind # "call" /\ Authorize(grantee, p[2]) = "scenario_forbidden"
    BY <1>1 DEF Gate, Authorize, Granted
  <2> QED BY <1>3, <1>4, <2>1 DEF Pass
<1>6. f[Len(p)] = f[2]
  BY <1>1, <1>2, <1>5, RefusalStays
<1> QED BY <1>2, <1>5, <1>6

(* Where a walk is that has every grant: past its gates, or refused at the *)
(* call of a role whose payload is too large.                              *)
WalksOn(walk, oversized, case, n) ==
    \/ /\ walk = [refusal |-> "none", calls |-> CallsUpTo(case, n)]
       /\ \A i \in 1 .. n : \A role \in oversized : Path(case)[i] # Call(role)
    \/ /\ walk.refusal = "provider_payload_too_large"
       /\ \E i \in 1 .. n : \E role \in oversized : Path(case)[i] = Call(role)

LEMMA GrantedWalksGoOn ==
    ASSUME MaxProviderCalls >= 9, NEW grantee, NEW oversized, NEW case \in Cases,
           \A gate \in AskedFor(case) : Authorize(grantee, gate) = "none"
    PROVE  WalksOn(Walk(grantee, oversized, case), oversized, case, Len(Path(case)))
<1> DEFINE p == Path(case)
<1>1. Len(p) \in 10 .. 17
  BY GatesOfPaths
<1>2. PICK f : /\ Walks(f, grantee, oversized, p, Len(p))
               /\ Walk(grantee, oversized, case) = f[Len(p)]
  BY <1>1, WalkRecurs
<1> DEFINE R == {n \in Nat : n <= Len(p) => WalksOn(f[n], oversized, case, n)}
<1>3. 0 \in R
  <2>1. f[0] = [refusal |-> "none", calls |-> 0]
    BY <1>1, <1>2, WalkGoesOn
  <2>2. CallsUpTo(case, 0) = 0
    BY DEF CallsUpTo
  <2> QED BY <2>1, <2>2 DEF WalksOn
<1>4. ASSUME NEW n \in Nat, n \in R PROVE n + 1 \in R
  <2> SUFFICES ASSUME n + 1 <= Len(p) PROVE WalksOn(f[n + 1], oversized, case, n + 1)
    OBVIOUS
  <2> DEFINE gate == p[n + 1]
  <2>1. n + 1 \in 1 .. Len(p) /\ (n + 1) - 1 = n /\ n <= Len(p)
    BY <1>1
  <2>2. f[n + 1] = Pass(grantee, oversized, f[n], gate)
    BY <1>1, <1>2, <2>1, WalkGoesOn
  <2>3. WalksOn(f[n], oversized, case, n)
    BY <1>4, <2>1
  <2>4. IsGateOf(case, gate, n + 1) /\ CallsUpTo(case, n + 1) \in 0 .. 9
    BY <2>1, GatesOfPaths
  <2>5. CASE f[n].refusal = "provider_payload_too_large"
    <3>1. f[n + 1] = f[n]
      BY <2>2, <2>5 DEF Pass
    <3>2. \E i \in 1 .. n : \E role \in oversized : Path(case)[i] = Call(role)
      BY <2>3, <2>5 DEF WalksOn
    <3>3. \E i \in 1 .. n + 1 : \E role \in oversized : Path(case)[i] = Call(role)
      BY <3>2
    <3> QED BY <2>5, <3>1, <3>3 DEF WalksOn
  <2>6. CASE f[n].refusal # "provider_payload_too_large"
    <3>1. /\ f[n] = [refusal |-> "none", calls |-> CallsUpTo(case, n)]
          /\ \A i \in 1 .. n : \A role \in oversized : Path(case)[i] # Call(role)
      BY <2>3, <2>6 DEF WalksOn
    <3>2. CASE gate \in AskedFor(case) /\ CallsUpTo(case, n + 1) = CallsUpTo(case, n)
      <4>1. gate.kind # "call" /\ Authorize(grantee, gate) = "none"
        BY <3>2, GrantsAreNoCalls
      <4>2. f[n + 1] = [f[n] EXCEPT !.refusal = "none"]
        BY <2>2, <3>1, <4>1 DEF Pass
      <4>3. f[n + 1] = [refusal |-> "none", calls |-> CallsUpTo(case, n + 1)]
        BY <3>1, <3>2, <4>2
      <4>4. ASSUME NEW i \in 1 .. n + 1, NEW role \in oversized PROVE p[i] # Call(role)
        <5>1. CASE i \in 1 .. n
          BY <3>1, <5>1
        <5>2. CASE i = n + 1
          BY <4>1, <5>2, CallsAreCalls
        <5> QED BY <5>1, <5>2
      <4> QED BY <4>3, <4>4 DEF WalksOn
    <3>3. CASE /\ \E role \in DOMAIN Roles : gate = Call(role)
               /\ CallsUpTo(case, n + 1) = CallsUpTo(case, n) + 1
      <4>1. PICK role \in DOMAIN Roles : gate = Call(role)
        BY <3>3
      <4>2. CallsUpTo(case, n) \in 0 .. 8
        <5>1. n \in 0 .. Len(p)
          BY <1>1, <2>1
        <5>2. CallsUpTo(case, n) \in 0 .. 9
          BY <5>1, GatesOfPaths
        <5> QED BY <2>4, <3>3, <5>2
      <4>3. Egress(role, oversized, f[n].calls)
              = IF role \in oversized THEN "provider_payload_too_large" ELSE "none"
        BY <3>1, <4>2, RolesMayCall
      <4>4. gate.kind = "call" /\ gate.name = role
        BY <4>1, CallsAreCalls
      <4>5. CASE role \in oversized
        <5>1. f[n + 1].refusal = "provider_payload_too_large"
          BY <2>2, <3>1, <4>3, <4>4, <4>5 DEF Pass
        <5>2. \E i \in 1 .. n + 1 : \E other \in oversized : Path(case)[i] = Call(other)
          BY <4>1, <4>5
        <5> QED BY <5>1, <5>2 DEF WalksOn
      <4>6. CASE role \notin oversized
        <5>1. f[n + 1] = [refusal |-> "none", calls |-> CallsUpTo(case, n + 1)]
          BY <2>2, <3>1, <3>3, <4>3, <4>4, <4>6 DEF Pass
        <5>2. ASSUME NEW i \in 1 .. n + 1, NEW other \in oversized PROVE p[i] # Call(other)
          <6>1. CASE i \in 1 .. n
            BY <3>1, <6>1
          <6>2. CASE i = n + 1
            BY <4>4, <4>6, <6>2, CallsAreCalls
          <6> QED BY <6>1, <6>2
        <5> QED BY <5>1, <5>2 DEF WalksOn
      <4> QED BY <4>5, <4>6
    <3> QED BY <2>1, <2>4, <3>2, <3>3 DEF IsGateOf
  <2> QED BY <2>5, <2>6
<1> HIDE DEF R
<1>5. Len(p) \in R
  BY <1>1, <1>3, <1>4, NatsAreReached
<1> QED BY <1>1, <1>2, <1>5 DEF R

(* The grants of a case open its path and no other, and it needs them all. *)
LEMMA PathsAreGuarded ==
    ASSUME MaxProviderCalls >= 9, NEW case \in Cases
    PROVE  case \in GuardedPaths /\ PathCalls[case] = WholePath(case)
<1>1. Len(Path(case)) \in 10 .. 17 /\ CallsUpTo(case, Len(Path(case))) = WholePath(case)
  BY GatesOfPaths
<1>2. ASSUME NEW cases \in SUBSET Cases, case \in cases
      PROVE  /\ Walk(DemoContext("demo", cases), {}, case).refusal = "none"
             /\ Walk(DemoContext("demo", cases), {}, case).calls = WholePath(case)
  <2>1. \A gate \in AskedFor(case) : Authorize(DemoContext("demo", cases), gate) = "none"
    BY <1>2, DemoGrants
  <2>2. WalksOn(Walk(DemoContext("demo", cases), {}, case), {}, case, Len(Path(case)))
    BY <2>1, GrantedWalksGoOn
  <2> QED BY <1>1, <2>2 DEF WalksOn
<1>3. OnlyGrantedOpen(case)
  <2>1. ASSUME NEW cases \in (SUBSET Cases) \ {{}}, case \notin cases
        PROVE  LET end == Walk(DemoContext("demo", cases), {}, case)
               IN  end.refusal # "none" /\ end.calls = 1
    <3>1. DemoContext("demo", cases).scenarios = cases
      BY DEF DemoContext
    <3> QED BY <2>1, <3>1, OtherCasesRefuse
  <2> QED BY <1>2, <2>1 DEF OnlyGrantedOpen
<1>4. EveryGateMatters(case)
  <2> DEFINE g == DemoContext("demo", {case})
  <2>1. ASSUME NEW weakened \in Weakened(g)
        PROVE  LET end == Walk(weakened, {}, case) IN end.refusal # "none" /\ end.calls <= 2
    <3>1. PICK gate \in AskedFor(case) : Authorize(weakened, gate) # "none"
      BY LessIsRefused
    <3> QED BY <3>1, MissingGrantsRefuse
  <2>2. ASSUME NEW role \in DOMAIN Roles, Call(role) \in Range(Path(case))
        PROVE  Walk(g, {role}, case).refusal = "provider_payload_too_large"
    <3>1. DOMAIN Path(case) = 1 .. Len(Path(case))
      BY CasePath DEF IsPathOf
    <3>2. PICK n \in 1 .. Len(Path(case)) : Path(case)[n] = Call(role)
      BY <2>2, <3>1 DEF Range
    <3>3. case \in {case} /\ {case} \in SUBSET Cases
      OBVIOUS
    <3>4. \A gate \in AskedFor(case) : Authorize(g, gate) = "none"
      BY <3>3, DemoGrants
    <3> HIDE DEF g
    <3>5. WalksOn(Walk(g, {role}, case), {role}, case, Len(Path(case)))
      BY <3>4, GrantedWalksGoOn
    <3> QED BY <3>2, <3>5 DEF WalksOn
  <2> QED BY <2>1, <2>2 DEF EveryGateMatters
<1>5. PathCalls[case] = WholePath(case)
  BY <1>2 DEF PathCalls
<1> QED BY <1>3, <1>4, <1>5 DEF GuardedPaths

-----------------------------------------------------------------------------
(* The calls of a request, and those of its path.                          *)

(* While it runs, a request has made the calls of its path so far.         *)
HereInv == IsFrugalHere /\ route \in Cases => calls <= WholePath(route)

LEMMA HereIsWithinPath ==
    ASSUME TypeOK, PlaceInv, BudgetInv PROVE HereInv
<1> SUFFICES ASSUME IsFrugalHere, route \in Cases PROVE calls <= WholePath(route)
  BY DEF HereInv
<1>1. /\ stage \in Stages /\ native \in BOOLEAN /\ domain \in Domains /\ at \in Places
      /\ calls \in 0 .. 8 /\ calls <= CallsSoFar /\ CallsSoFar \in 0 .. 8
  BY FrugalCalls DEF TypeOK, AgentTypeOK
<1>2. CASE route = "mixed"
  BY <1>1, <1>2 DEF WholePath
<1>3. CASE route # "mixed"
  <2>1. route = domain /\ at = "skill"
    BY <1>1, <1>3 DEF PlaceInv, Cases, IsFrugalHere, Places
  <2>2. CallsSoFar = 1 + StageCalls
    BY <1>3, <2>1 DEF CallsSoFar
  <2>3. StageCalls \in 0 .. (IF domain = "data" THEN 4 ELSE 5)
    BY <1>1, <2>1 DEF StageCalls, Stages, Domains, PlaceInv, KnowledgeStages, DataStages
  <2>4. WholePath(route) = IF domain = "data" THEN 5 ELSE 6
    BY <1>1, <2>1 DEF WholePath, Domains
  <2> QED BY <1>1, <2>2, <2>3, <2>4
<1> QED BY <1>2, <1>3

(* And when it has ended, or was sent back by its review.                  *)
WholeInv ==
    route \in Cases /\ (route = "mixed" => config.controlled) /\ Len(steps) <= 1 =>
        calls <= WholePath(route)

LEMMA WholeStep ==
    ASSUME TypeOK, TypeOK', PlaceInv, RoundInv, BudgetInv, HereInv, HereInv', WholeInv,
           MaxProviderCalls >= 9, [Next]_vars
    PROVE  WholeInv'
<1> SUFFICES ASSUME route' \in Cases, route' = "mixed" => config'.controlled, Len(steps') <= 1
             PROVE  calls' <= WholePath(route')
  BY DEF WholeInv
<1>0. /\ AgentIsTyped /\ PlaceIsTyped /\ RoundsAreTyped /\ RoundsAreTyped'
      /\ calls \in Nat /\ Len(steps) \in Nat /\ Len(steps') \in Nat
  BY TypeParts, TypePartsNext DEF RoundsAreTyped, CallsAreTyped
<1>1. CASE IsFrugalHere'
  BY <1>1 DEF HereInv
<1>2. CASE UNCHANGED vars
  BY <1>2 DEF vars, agent, path, WholeInv
<1>3. CASE Next /\ ~IsFrugalHere' /\ IsFrugalHere
  <2>1. at' = "ended" \/ (at' = "skill" /\ steps' # <<>>)
    BY <1>3 DEF IsFrugalHere, IsFrugal
  <2>2. calls \in 0 .. 8
    BY <1>3, FrugalCalls
  <2>3. ASSUME Allowed \/ Useless PROVE calls' <= 9
    <3>1. calls \in Nat /\ calls <= 8
      BY <2>2
    <3>2. AddsOne
      BY <2>3, <3>1, AllowedAdds, UselessAdds
    <3> QED BY <3>1, <3>2 DEF AddsOne
  <2>4. WholePath("mixed") = 9
    BY DEF WholePath
  <2>5. CASE RouteRequest
    <3>1. route' = "none"
      BY <1>0, <2>1, <2>5
      DEF RouteRequest, TakeRoute, StartSkill, End, PlaceInv, RoundInv
    <3> QED BY <3>1 DEF Cases
  <2>6. CASE PlanWorkflow
    <3>1. route' = "mixed" /\ (Allowed \/ Useless)
      BY <2>6 DEF PlanWorkflow, PlaceInv
    <3> QED BY <2>3, <2>4, <3>1
  <2>7. CASE EnterSkill \/ LeaveSkill
    <3>1. UNCHANGED <<calls, route>>
      BY <2>7 DEF EnterSkill, LeaveSkill, governed
    <3> QED BY <1>3, <3>1 DEF HereInv
  <2>8. CASE RunAgent
    BY <1>3, <2>1, <2>8 DEF RunAgent, path, IsFrugalHere
  <2>9. CASE Synthesize
    <3>1. route' = "mixed" /\ (Allowed \/ Useless \/ calls' = calls)
      BY <2>9 DEF Synthesize, PlaceInv, governed
    <3> QED BY <2>2, <2>3, <2>4, <3>1
  <2>10. CASE ReviewWorkflow
    <3>1. route' = "mixed" /\ (Allowed \/ Useless)
      BY <2>10 DEF ReviewWorkflow, PlaceInv
    <3> QED BY <2>3, <2>4, <3>1
  <2> QED BY <1>3, <2>5, <2>6, <2>7, <2>8, <2>9, <2>10 DEF Next
<1>4. CASE Next /\ ~IsFrugalHere
  <2>1. /\ config' = config /\ (at # "route" => route' = route) /\ Len(steps') >= Len(steps)
    BY PathGrows
  <2>2. at # "route"
    BY <1>4 DEF PlaceInv, IsFrugalHere, IsFrugal
  <2>3. route' = route /\ Len(steps) <= 1 /\ IsFrugal
    BY <1>0, <2>1, <2>2 DEF IsFrugal
  <2>4. calls <= WholePath(route)
    BY <2>1, <2>3 DEF WholeInv, IsFrugal
  <2>5. at # "ended"
    BY <1>4
    DEF Next, RouteRequest, PlanWorkflow, EnterSkill, RunAgent, LeaveSkill, Synthesize,
        ReviewWorkflow
  <2>6. at = "skill" /\ steps # <<>> /\ stage = "idle"
    BY <1>4, <2>3, <2>5 DEF IsFrugalHere, RoundInv
  <2>7. EnterSkill
    BY <1>4, <2>6
    DEF Next, RouteRequest, PlanWorkflow, RunAgent, LeaveSkill, Synthesize, ReviewWorkflow,
        AgentStep, SelectTool, PlanDataQuery, ExecuteSafeQuery, GenerateDataAnswer,
        RetrieveEvidence, SelectEvidence, ReviewAnswerability, GenerateAnswer, CopyAnswer,
        AgentIsDone
  <2>8. calls' = calls
    BY <2>7 DEF EnterSkill, governed
  <2> QED BY <2>3, <2>4, <2>8
<1> QED BY <1>1, <1>2, <1>3, <1>4

(* DemoContext, the gates and the matrix, for every budget of nine calls   *)
(* or more: the grants of a demo case open its path and no other one, each *)
(* is needed, and a request makes the calls of its path, until a review    *)
(* asks for a second round.                                                *)
THEOREM GrantsOpenPaths ==
    ASSUME MaxProviderCalls >= 9
    PROVE  Spec => []GrantsOpenTheirPaths
<1>1. Init => WholeInv
  BY DEF Init, AgentInit, WholeInv, Cases
<1>2. TypeOK /\ PathInv /\ BudgetInv => HereInv
  BY HereIsWithinPath DEF PathInv
<1>3. TypeOK /\ PathInv /\ BudgetInv /\ HereInv /\ WholeInv /\ TypeOK' /\ HereInv' /\ [Next]_vars
      => WholeInv'
  <2> SUFFICES ASSUME TypeOK, PathInv, BudgetInv, HereInv, WholeInv,
                      TypeOK', HereInv', [Next]_vars
               PROVE  WholeInv'
    OBVIOUS
  <2>1. PlaceInv /\ RoundInv
    BY DEF PathInv
  <2> QED BY <2>1, WholeStep
<1>4. WholeInv => GrantsOpenTheirPaths
  <2> SUFFICES ASSUME WholeInv, route \in Cases, route = "mixed" => config.controlled
               PROVE  route \in GuardedPaths /\ (Len(steps) <= 1 => calls <= PathCalls[route])
    BY DEF GrantsOpenTheirPaths
  <2>1. route \in GuardedPaths /\ PathCalls[route] = WholePath(route)
    BY PathsAreGuarded
  <2> QED BY <2>1 DEF WholeInv
<1> QED BY <1>1, <1>2, <1>3, <1>4, PathInvariant, FaithInvariant, PTL DEF Spec

-----------------------------------------------------------------------------
(* RoleContracts: lists of citations.                                      *)

(* What is kept of the first n marks.                                      *)
KeptSoFar(f, marks, places, m) ==
    f = [n \in 0 .. m |-> IF n = 0 THEN <<>> ELSE Keep(f[n - 1], marks, places, n)]

LEMMA KeepingRecurs ==
    ASSUME NEW S, NEW marks \in Seq(S), NEW places
    PROVE  \E f : /\ KeptSoFar(f, marks, places, Len(marks))
                  /\ Kept(marks, places) = f[Len(marks)]
<1> DEFINE n == Len(marks)
<1> DEFINE R == {m \in Nat : \E f : KeptSoFar(f, marks, places, m)}
<1>1. 0 \in R
  <2> DEFINE f == [i \in 0 .. 0 |-> <<>>]
  <2>1. KeptSoFar(f, marks, places, 0)
    BY DEF KeptSoFar
  <2> QED BY <2>1
<1>2. ASSUME NEW m \in Nat, m \in R PROVE m + 1 \in R
  <2>1. PICK f : KeptSoFar(f, marks, places, m)
    BY <1>2
  <2> DEFINE g == [i \in 0 .. m + 1 |-> IF i <= m THEN f[i] ELSE Keep(f[m], marks, places, m + 1)]
  <2> DEFINE h == [i \in 0 .. m + 1 |-> IF i = 0 THEN <<>> ELSE Keep(g[i - 1], marks, places, i)]
  <2>2. ASSUME NEW i \in 0 .. m + 1 PROVE g[i] = h[i]
    <3>1. CASE i = 0
      BY <2>1, <3>1 DEF KeptSoFar
    <3>2. CASE i \in 1 .. m
      <4>1. g[i] = f[i] /\ g[i - 1] = f[i - 1]
        BY <3>2
      <4>2. f[i] = Keep(f[i - 1], marks, places, i)
        BY <2>1, <3>2 DEF KeptSoFar
      <4> QED BY <3>2, <4>1, <4>2
    <3>3. CASE i = m + 1
      <4>1. g[i] = Keep(f[m], marks, places, m + 1) /\ g[i - 1] = f[m] /\ i # 0
        BY <3>3
      <4> QED BY <3>3, <4>1
    <3> QED BY <3>1, <3>2, <3>3
  <2>3. g = h
    BY <2>2
  <2> HIDE DEF g
  <2>4. KeptSoFar(g, marks, places, m + 1)
    BY <2>3 DEF KeptSoFar
  <2> QED BY <2>4
<1> HIDE DEF R
<1>3. n \in R
  BY <1>1, <1>2, NatsAreReached
<1>4. PICK f : KeptSoFar(f, marks, places, n)
  BY <1>3 DEF R
<1> DEFINE kept ==
        CHOOSE k : k = [i \in 0 .. n |-> IF i = 0 THEN <<>> ELSE Keep(k[i - 1], marks, places, i)]
<1>5. KeptSoFar(kept, marks, places, n)
  BY <1>4, Zenon DEF KeptSoFar
<1>6. Kept(marks, places) = kept[n]
  BY DEF Kept
<1> HIDE DEF kept
<1> QED BY <1>5, <1>6

(* A list grows by a mark.                                                 *)
LEMMA ListGrows ==
    ASSUME NEW S, NEW list \in Seq(S), NEW mark \in S
    PROVE  /\ Append(list, mark) \in Seq(S)
           /\ Len(Append(list, mark)) = Len(list) + 1
           /\ Range(Append(list, mark)) = Range(list) \cup {mark}
           /\ IsInjective(list) /\ mark \notin Range(list) => IsInjective(Append(list, mark))
<1> DEFINE more == Append(list, mark)
<1>1. /\ more \in Seq(S) /\ Len(more) = Len(list) + 1 /\ DOMAIN more = 1 .. Len(list) + 1
      /\ DOMAIN list = 1 .. Len(list) /\ Len(list) \in Nat
      /\ \A i \in 1 .. Len(list) : more[i] = list[i]
      /\ more[Len(list) + 1] = mark
  OBVIOUS
<1> HIDE DEF more
<1>2. Range(more) = Range(list) \cup {mark}
  <2>1. ASSUME NEW x \in Range(more) PROVE x \in Range(list) \cup {mark}
    <3>1. PICK i \in 1 .. Len(list) + 1 : x = more[i]
      BY <1>1, <2>1 DEF Range
    <3>2. i \in 1 .. Len(list) \/ i = Len(list) + 1
      BY <1>1
    <3> QED BY <1>1, <3>1, <3>2 DEF Range
  <2>2. ASSUME NEW x \in Range(list) PROVE x \in Range(more)
    <3>1. PICK i \in 1 .. Len(list) : x = list[i]
      BY <1>1, <2>2 DEF Range
    <3>2. i \in 1 .. Len(list) + 1
      BY <1>1
    <3> QED BY <1>1, <3>1, <3>2 DEF Range
  <2>3. mark \in Range(more)
    <3>1. Len(list) + 1 \in DOMAIN more
      BY <1>1
    <3> QED BY <1>1, <3>1 DEF Range
  <2> QED BY <2>1, <2>2, <2>3
<1>3. ASSUME IsInjective(list), mark \notin Range(list) PROVE IsInjective(more)
  <2> SUFFICES ASSUME NEW i \in DOMAIN more, NEW j \in DOMAIN more, more[i] = more[j] PROVE i = j
    BY DEF IsInjective
  <2>1. (i \in 1 .. Len(list) \/ i = Len(list) + 1) /\ (j \in 1 .. Len(list) \/ j = Len(list) + 1)
    BY <1>1
  <2>2. \A k \in 1 .. Len(list) : more[k] # mark
    BY <1>1, <1>3 DEF Range
  <2> QED BY <1>1, <1>3, <2>1, <2>2 DEF IsInjective
<1> QED BY <1>1, <1>2, <1>3 DEF more

(* What is kept of a list: the marks at those places, each place once.     *)
LEMMA KeptHolds ==
    ASSUME NEW S, NEW marks \in Seq(S), NEW places
    PROVE  /\ Kept(marks, places) \in Seq(S)
           /\ Len(Kept(marks, places)) <= Len(marks)
           /\ Range(Kept(marks, places)) = {marks[i] : i \in DOMAIN marks \cap places}
           /\ (\A i, j \in DOMAIN marks \cap places : marks[i] = marks[j] => i = j) =>
                  IsInjective(Kept(marks, places))
<1>1. PICK f : /\ KeptSoFar(f, marks, places, Len(marks))
               /\ Kept(marks, places) = f[Len(marks)]
  BY KeepingRecurs
<1> DEFINE Placed(n) == {i \in 1 .. n : i \in places}
<1> DEFINE Apart == \A i, j \in DOMAIN marks \cap places : marks[i] = marks[j] => i = j
<1> DEFINE R == {n \in Nat : n <= Len(marks) =>
                    /\ f[n] \in Seq(S) /\ Len(f[n]) <= n
                    /\ Range(f[n]) = {marks[i] : i \in Placed(n)}
                    /\ Apart => IsInjective(f[n])}
<1>2. DOMAIN marks = 1 .. Len(marks) /\ Len(marks) \in Nat
  OBVIOUS
<1>3. 0 \in R
  <2>1. f[0] = <<>>
    BY <1>1, <1>2 DEF KeptSoFar
  <2>2. Range(<<>>) = {} /\ IsInjective(<<>>)
    BY DEF Range, IsInjective
  <2>3. Placed(0) = {}
    OBVIOUS
  <2>4. {marks[i] : i \in Placed(0)} = {}
    BY <2>3
  <2>5. <<>> \in Seq(S) /\ Len(<<>>) = 0
    OBVIOUS
  <2>6. /\ f[0] \in Seq(S) /\ Len(f[0]) <= 0
        /\ Range(f[0]) = {marks[i] : i \in Placed(0)}
        /\ Apart => IsInjective(f[0])
    <3> HIDE DEF Apart, Placed
    <3> QED BY <2>1, <2>2, <2>4, <2>5
  <2> QED BY <2>6
<1>4. ASSUME NEW n \in Nat, n \in R PROVE n + 1 \in R
  <2> SUFFICES ASSUME n + 1 <= Len(marks)
               PROVE  /\ f[n + 1] \in Seq(S) /\ Len(f[n + 1]) <= n + 1
                      /\ Range(f[n + 1]) = {marks[i] : i \in Placed(n + 1)}
                      /\ Apart => IsInjective(f[n + 1])
    OBVIOUS
  <2>1. /\ f[n] \in Seq(S) /\ Len(f[n]) <= n
        /\ Range(f[n]) = {marks[i] : i \in Placed(n)}
        /\ Apart => IsInjective(f[n])
    BY <1>2, <1>4
  <2>2. n + 1 \in 1 .. Len(marks) /\ marks[n + 1] \in S /\ (n + 1) - 1 = n /\ n + 1 # 0
    BY <1>2
  <2>3. f[n + 1] = IF n + 1 \in places THEN Append(f[n], marks[n + 1]) ELSE f[n]
    <3>1. f[n + 1] = Keep(f[n], marks, places, n + 1)
      BY <1>1, <1>2, <2>2 DEF KeptSoFar
    <3> QED BY <3>1 DEF Keep
  <2>4. CASE n + 1 \notin places
    <3>1. Placed(n + 1) = Placed(n)
      BY <2>4
    <3>2. Len(f[n]) \in Nat
      BY <2>1
    <3> QED BY <2>1, <2>3, <2>4, <3>1, <3>2
  <2>5. CASE n + 1 \in places
    <3>1. Placed(n + 1) = Placed(n) \cup {n + 1}
      BY <2>5
    <3>2. Apart => marks[n + 1] \notin Range(f[n])
      <4> SUFFICES ASSUME Apart, NEW i \in Placed(n), marks[n + 1] = marks[i] PROVE FALSE
        BY <2>1
      <4>1. i \in DOMAIN marks \cap places /\ n + 1 \in DOMAIN marks \cap places /\ i # n + 1
        BY <1>2, <2>2, <2>5
      <4> QED BY <4>1
    <3> HIDE DEF Apart, Placed
    <3>3. /\ f[n + 1] \in Seq(S) /\ Len(f[n + 1]) = Len(f[n]) + 1
          /\ Range(f[n + 1]) = Range(f[n]) \cup {marks[n + 1]}
          /\ Apart => IsInjective(f[n + 1])
      BY <2>1, <2>2, <2>3, <2>5, <3>2, ListGrows
    <3>4. Len(f[n]) \in Nat
      BY <2>1
    <3> QED BY <2>1, <3>1, <3>3, <3>4
  <2> QED BY <2>4, <2>5
<1> HIDE DEF R
<1>5. Len(marks) \in R
  BY <1>2, <1>3, <1>4, NatsAreReached
<1>6. Placed(Len(marks)) = DOMAIN marks \cap places
  BY <1>2
<1> QED BY <1>1, <1>2, <1>5, <1>6 DEF R

(* A set of numbers has a least one.                                       *)
LEMMA LeastNumber ==
    ASSUME NEW T, T \subseteq Nat, T # {}
    PROVE  \E x \in T : \A y \in T : x <= y
<1> DEFINE S == {n \in Nat : \A m \in 0 .. n : m \notin T}
<1> SUFFICES ASSUME \A x \in T : \E y \in T : y < x PROVE FALSE
  OBVIOUS
<1>1. 0 \in S
  OBVIOUS
<1>2. ASSUME NEW n \in Nat, n \in S PROVE n + 1 \in S
  <2>1. n + 1 \notin T
    <3> SUFFICES ASSUME n + 1 \in T PROVE FALSE
      OBVIOUS
    <3>1. PICK y \in T : y < n + 1
      OBVIOUS
    <3>2. y \in 0 .. n
      BY <3>1
    <3> QED BY <1>2, <3>2
  <2> QED BY <1>2, <2>1
<1> HIDE DEF S
<1>3. PICK x \in T : x \in S
  BY <1>1, <1>2, NatsAreReached
<1>4. x \in 0 .. x
  OBVIOUS
<1> QED BY <1>3, <1>4 DEF S

(* Distinct names what the list names, once.                               *)
LEMMA DistinctHolds ==
    ASSUME NEW S, NEW marks \in Seq(S)
    PROVE  /\ Distinct(marks) \in Seq(S) /\ Len(Distinct(marks)) <= Len(marks)
           /\ Range(Distinct(marks)) = Range(marks) /\ IsInjective(Distinct(marks))
<1> DEFINE first == {n \in DOMAIN marks : \A m \in 1 .. n - 1 : marks[m] # marks[n]}
<1>1. DOMAIN marks = 1 .. Len(marks) /\ Len(marks) \in Nat
  OBVIOUS
<1>2. \A i, j \in DOMAIN marks \cap first : marks[i] = marks[j] => i = j
  <2> SUFFICES ASSUME NEW i \in first, NEW j \in first, marks[i] = marks[j], i < j PROVE FALSE
    BY <1>1
  <2>1. i \in 1 .. j - 1
    BY <1>1
  <2> QED BY <2>1
<1>3. Range(marks) = {marks[i] : i \in DOMAIN marks \cap first}
  <2> SUFFICES ASSUME NEW k \in DOMAIN marks
               PROVE  \E i \in DOMAIN marks \cap first : marks[i] = marks[k]
    BY DEF Range
  <2> DEFINE T == {m \in DOMAIN marks : marks[m] = marks[k]}
  <2>1. T \subseteq Nat /\ k \in T
    BY <1>1
  <2> HIDE DEF T
  <2>2. PICK i \in T : \A y \in T : i <= y
    BY <2>1, LeastNumber
  <2>3. i \in DOMAIN marks /\ marks[i] = marks[k]
    BY DEF T
  <2>4. ASSUME NEW m \in 1 .. i - 1 PROVE marks[m] # marks[i]
    <3>1. m \in DOMAIN marks /\ ~ (i <= m)
      BY <1>1, <2>3
    <3> QED BY <2>2, <2>3, <3>1 DEF T
  <2> QED BY <2>3, <2>4
<1> HIDE DEF first
<1>4. /\ Kept(marks, first) \in Seq(S)
      /\ Len(Kept(marks, first)) <= Len(marks)
      /\ Range(Kept(marks, first)) = {marks[i] : i \in DOMAIN marks \cap first}
      /\ IsInjective(Kept(marks, first))
  BY <1>2, KeptHolds
<1>5. Distinct(marks) = Kept(marks, first)
  BY DEF Distinct, first
<1> QED BY <1>3, <1>4, <1>5

(* Among names what the list and the set have in common.                   *)
LEMMA AmongHolds ==
    ASSUME NEW S, NEW allowed \in Seq(S), NEW marks
    PROVE  /\ Among(allowed, marks) \in Seq(S) /\ Len(Among(allowed, marks)) <= Len(allowed)
           /\ Range(Among(allowed, marks)) = Range(allowed) \cap marks
           /\ IsInjective(allowed) => IsInjective(Among(allowed, marks))
<1> DEFINE places == {n \in DOMAIN allowed : allowed[n] \in marks}
<1>1. {allowed[i] : i \in DOMAIN allowed \cap places} = Range(allowed) \cap marks
  BY DEF Range
<1>2. IsInjective(allowed) =>
          \A i, j \in DOMAIN allowed \cap places : allowed[i] = allowed[j] => i = j
  BY DEF IsInjective
<1> HIDE DEF places
<1>3. /\ Kept(allowed, places) \in Seq(S)
      /\ Len(Kept(allowed, places)) <= Len(allowed)
      /\ Range(Kept(allowed, places)) = {allowed[i] : i \in DOMAIN allowed \cap places}
      /\ (\A i, j \in DOMAIN allowed \cap places : allowed[i] = allowed[j] => i = j) =>
             IsInjective(Kept(allowed, places))
  BY KeptHolds
<1>4. Among(allowed, marks) = Kept(allowed, places)
  BY DEF Among, places
<1> QED BY <1>1, <1>2, <1>3, <1>4

(* Retrieval's numbers keep the citations of a request few.                *)
LEMMA CitationsAreFew == IsFiniteSet(Citations) /\ Cardinality(Citations) \in 1 .. 6
<1>1. IsFiniteSet(Documents) /\ Cardinality(Documents) <= 5 /\ DataEvidence \notin Documents
  BY EvidenceAssumption, AgentAssumption DEF EvidenceMaxCount
<1>2. Cardinality(Documents) \in Nat
  BY <1>1, FS_CardinalityType
<1>3. /\ IsFiniteSet(Documents \cup {DataEvidence})
      /\ Cardinality(Documents \cup {DataEvidence}) = Cardinality(Documents) + 1
  BY <1>1, FS_AddElement
<1> QED BY <1>1, <1>2, <1>3 DEF Citations

LEMMA ListsAreShort ==
    ASSUME NEW list \in Lists
    PROVE  /\ list \in Seq(Marks) /\ Len(list) \in Nat /\ Len(list) <= 6
           /\ Range(list) \subseteq Marks
<1>1. PICK n \in 0 .. Cardinality(Citations) : list \in [1 .. n -> Marks]
  BY DEF Lists, BoundedSeq, SeqOf
<1>2. n \in 0 .. 6
  BY <1>1, CitationsAreFew
<1>3. list \in Seq(Marks) /\ Len(list) = n
  BY <1>1, <1>2
<1>4. Range(list) \subseteq Marks
  BY <1>1 DEF Range
<1> QED BY <1>2, <1>3, <1>4

(* Any citations can be named by a list.                                   *)
LEMMA ListsNameAll ==
    ASSUME NEW named, named \subseteq Citations
    PROVE  \E list \in Lists : Range(list) = named
<1>1. IsFiniteSet(named) /\ Cardinality(named) <= Cardinality(Citations)
  BY CitationsAreFew, FS_Subset
<1>2. Cardinality(named) \in Nat /\ ExistsBijection(1 .. Cardinality(named), named)
  BY <1>1, FS_CardinalityType
<1>3. PICK list \in [1 .. Cardinality(named) -> named] :
          \A x \in named : \E i \in 1 .. Cardinality(named) : list[i] = x
  BY <1>2 DEF ExistsBijection, Bijection, Surjection
<1>4. Range(list) = named
  BY <1>3 DEF Range
<1>5. list \in [1 .. Cardinality(named) -> Marks]
  BY <1>3 DEF Marks
<1>6. Cardinality(named) \in 0 .. Cardinality(Citations)
  BY <1>1, <1>2, CitationsAreFew
<1>7. list \in Lists
  BY <1>5, <1>6 DEF Lists, BoundedSeq, SeqOf
<1> QED BY <1>4, <1>7

-----------------------------------------------------------------------------
(* From an accepted answer to the coordinator's result.                    *)

(* A text is what its two lengths say, and none is missing.                *)
LEMMA TextsHold ==
    ASSUME NEW max \in Nat, max >= 1, NEW text \in Texts(max)
    PROVE  /\ text.raw \in Nat /\ text.inner \in Nat /\ text.inner <= text.raw
           /\ text # Missing
BY DEF Texts, Text, Short, Missing

LEMMA OptionalTextsHold ==
    ASSUME NEW max \in Nat, max >= 1, NEW text \in OptionalTexts(max), text # Missing
    PROVE  text.raw \in Nat /\ text.inner \in Nat /\ text.inner <= text.raw
BY TextsHold DEF OptionalTexts

LEMMA TextsAreBounded ==
    ASSUME NEW text, text # Missing, text.raw \in Nat, text.raw >= 1, NEW max \in Nat
    PROVE  Bounded(text, max) <=> text.raw <= max
BY DEF Bounded

(* An answer that an agent accepts: a text that says something, and the    *)
(* citations it makes, each once.                                          *)
IsAnswer(answer, held) ==
    /\ answer = Answer(answer.text, answer.citations)
    /\ answer.text \in Texts(AnswerMax) /\ Nonblank(answer.text)
    /\ answer.citations \in Seq(Citations) /\ Len(answer.citations) \in 1 .. 6
    /\ answer.citations # <<>>
    /\ Range(answer.citations) \subseteq held /\ IsInjective(answer.citations)

LEMMA AnswersGetThrough ==
    ASSUME NEW r \in Domains, NEW held, held \subseteq SkillMark(r),
           NEW answer, IsAnswer(answer, held)
    PROVE  GetsThrough(r, answer) = (answer.text.raw <= AnswerMax)
<1> DEFINE text == answer.text
<1> DEFINE cites == answer.citations
<1>1. /\ text.raw \in Nat /\ text.inner \in Nat /\ text.inner <= text.raw /\ text # Missing
      /\ text.inner > 0
  BY TextsHold DEF IsAnswer, AnswerMax, Nonblank
<1>2. /\ answer = Answer(text, cites)
      /\ Range(cites) \subseteq SkillMark(r) /\ Len(cites) \in 1 .. 100 /\ IsInjective(cites)
  BY DEF IsAnswer
<1>3. answer.text = text /\ answer.citations = cites
  OBVIOUS
<1> DEFINE clean == Stripped(text)
<1>4. clean.raw = text.inner /\ clean.inner = text.inner /\ clean # Missing
  BY <1>1 DEF Stripped, Text, Missing
<1> HIDE DEF text, cites, clean
<1>5. /\ Bounded(text, AnswerMax) <=> text.raw <= AnswerMax
      /\ Nonblank(text)
  <2>1. text.raw >= 1 /\ AnswerMax \in Nat
    BY <1>1 DEF AnswerMax
  <2> QED BY <1>1, <2>1, TextsAreBounded DEF Nonblank
<1>6. CASE text.raw <= AnswerMax
  <2>1. ToolAnswer(answer) = Answer(clean, cites)
    BY <1>3, <1>5, <1>6 DEF ToolAnswer, clean
  <2>2. Answer(clean, cites) # Refused /\ Answer(clean, cites).text = clean
        /\ Answer(clean, cites).citations = cites
    BY <1>4 DEF Answer, Refused
  <2>3. CopyIsServed(Answer(clean, cites), "stop", answer)
    BY <1>3, <1>5, <1>6 DEF CopyIsServed, clean
  <2>4. Bounded(clean, AnswerMax) /\ Nonblank(clean)
    <3>1. clean.raw >= 1 /\ clean.raw \in Nat /\ clean.raw <= AnswerMax /\ AnswerMax \in Nat
      BY <1>1, <1>4, <1>6 DEF AnswerMax
    <3> QED BY <1>1, <1>4, <3>1, TextsAreBounded DEF Nonblank
  <2>5. ResultHolds(r, Answer(clean, cites)) /\ ChildHolds(r, Answer(clean, cites))
    BY <1>2, <2>2, <2>4 DEF ResultHolds, ChildHolds
  <2>6. GetsThrough(r, answer)
    BY <2>1, <2>2, <2>3, <2>5 DEF GetsThrough
  <2> QED BY <1>3, <1>6, <2>6 DEF GetsThrough
<1>7. CASE ~ (text.raw <= AnswerMax)
  <2>1. ToolAnswer(answer) = Refused
    BY <1>3, <1>5, <1>7 DEF ToolAnswer
  <2>2. GetsThrough(r, answer) = FALSE
    BY <2>1 DEF GetsThrough
  <2>3. (text.raw <= AnswerMax) = FALSE
    BY <1>7
  <2> QED BY <1>3, <2>2, <2>3
<1> QED BY <1>6, <1>7

(* What the knowledge agent accepts of a draft.                            *)
LEMMA KnowledgeAnswersHold ==
    ASSUME NEW held, held \subseteq Documents, NEW answer \in KnowledgeChoices[held]
    PROVE  IsAnswer(answer, held)
<1>1. PICK sent \in Drafts : /\ WellFormed(sent)
                             /\ answer = KnowledgeAnswer(held, sent) /\ answer # Refused
  BY DEF KnowledgeChoices
<1> DEFINE normalized == Distinct(sent.declared)
<1>2. sent.text \in Texts(AnswerMax) /\ sent.declared \in Lists
  BY <1>1 DEF Drafts
<1>3. /\ sent.declared \in Seq(Marks) /\ Len(sent.declared) \in Nat /\ Len(sent.declared) <= 6
  BY <1>2, ListsAreShort
<1>4. /\ normalized \in Seq(Marks) /\ Len(normalized) <= Len(sent.declared)
      /\ IsInjective(normalized)
  BY <1>3, DistinctHolds
<1> HIDE DEF normalized
<1>5. /\ answer = Answer(sent.text, normalized)
      /\ Range(normalized) \subseteq held
      /\ sent.inline = Range(normalized) /\ normalized # <<>>
  BY <1>1 DEF KnowledgeAnswer, normalized
<1>6. Len(normalized) \in 1 .. 6 /\ DOMAIN normalized = 1 .. Len(normalized)
  <2>1. Len(normalized) \in Nat /\ DOMAIN normalized = 1 .. Len(normalized)
    BY <1>4
  <2>2. Len(normalized) # 0
    BY <1>4, <1>5
  <2>3. Len(sent.declared) \in Nat /\ Len(sent.declared) <= 6
    BY <1>3
  <2> DEFINE n == Len(normalized)
  <2> DEFINE m == Len(sent.declared)
  <2>4. n \in Nat /\ n # 0 /\ m \in Nat /\ m <= 6 /\ n <= m
    BY <1>4, <2>1, <2>2, <2>3
  <2> HIDE DEF n, m
  <2>5. n \in 1 .. 6
    BY <2>4
  <2> QED BY <2>1, <2>5 DEF n
<1>7. normalized[1] \in Range(normalized)
  BY <1>6 DEF Range
<1>8. Nonblank(sent.text)
  BY <1>1, <1>5, <1>7 DEF WellFormed
<1>9. normalized \in Seq(Citations)
  <2>1. \A i \in 1 .. Len(normalized) : normalized[i] \in Citations
    BY <1>5, <1>6 DEF Range, Citations
  <2> QED BY <1>4, <1>6, <2>1
<1>10. answer.text = sent.text /\ answer.citations = normalized
  BY <1>5 DEF Answer
<1> QED BY <1>2, <1>4, <1>5, <1>6, <1>8, <1>9, <1>10 DEF IsAnswer

LEMMA KnowledgeIsCited ==
    ASSUME NEW held, held \subseteq Documents
    PROVE  Cited(KnowledgeChoices[held]) = {c \in SUBSET Citations : c # {} /\ c \subseteq held}
<1>1. ASSUME NEW answer \in KnowledgeChoices[held]
      PROVE  Range(answer.citations) # {} /\ Range(answer.citations) \subseteq held
  <2>1. /\ answer.citations \in Seq(Citations) /\ Len(answer.citations) \in 1 .. 6
        /\ Range(answer.citations) \subseteq held
    BY KnowledgeAnswersHold DEF IsAnswer
  <2>2. 1 \in DOMAIN answer.citations
    BY <2>1
  <2> QED BY <2>1, <2>2 DEF Range
<1>2. ASSUME NEW c, c # {}, c \subseteq held
      PROVE  \E answer \in KnowledgeChoices[held] : Range(answer.citations) = c
  <2>1. c \subseteq Citations
    BY <1>2 DEF Citations
  <2>2. PICK list \in Lists : Range(list) = c
    BY <2>1, ListsNameAll
  <2> DEFINE text == Text(Short, Short)
  <2> DEFINE sent == [text |-> text, inline |-> c, declared |-> list, bare |-> FALSE]
  <2> DEFINE normalized == Distinct(list)
  <2>3. normalized \in Seq(Marks) /\ Range(normalized) = c
    BY <2>2, ListsAreShort, DistinctHolds
  <2>4. normalized # <<>>
    BY <1>2, <2>3 DEF Range
  <2> HIDE DEF normalized
  <2>5. text \in Texts(AnswerMax) /\ text.raw = 40 /\ text.inner = 40
    BY DEF Texts, Text, Short
  <2>6. sent \in Drafts /\ WellFormed(sent) /\ ~ sent.bare
    BY <2>1, <2>2, <2>5 DEF Drafts, WellFormed, Nonblank, Marks
  <2>7. KnowledgeAnswer(held, sent) = Answer(text, normalized)
    <3>1. /\ sent.text = text /\ sent.inline = c /\ sent.declared = list
          /\ Distinct(sent.declared) = normalized
      BY DEF normalized
    <3>2. text.raw > 0 /\ Range(normalized) \cup c \subseteq KnowledgeMark \cap held
      BY <1>2, <2>3, <2>5 DEF KnowledgeMark
    <3> HIDE DEF sent, text
    <3> QED BY <2>3, <2>4, <3>1, <3>2 DEF KnowledgeAnswer
  <2>8. Answer(text, normalized) # Refused /\ Answer(text, normalized).citations = normalized
    BY DEF Answer, Refused, Text, Short, Missing
  <2> HIDE DEF sent, text
  <2>9. KnowledgeAnswer(held, sent) \in KnowledgeChoices[held]
    BY <2>6, <2>7, <2>8 DEF KnowledgeChoices
  <2> QED BY <2>3, <2>7, <2>8, <2>9
<1>3. held \subseteq Citations
  BY DEF Citations
<1> QED BY <1>1, <1>2, <1>3 DEF Cited

(* What the data agent accepts of a draft.                                 *)
LEMMA DataIsAList ==
    /\ <<DataEvidence>> \in Seq(Citations) /\ Len(<<DataEvidence>>) = 1
    /\ Range(<<DataEvidence>>) = {DataEvidence} /\ IsInjective(<<DataEvidence>>)
<1>1. DataEvidence \in Citations
  BY DEF Citations
<1>2. /\ <<DataEvidence>> \in Seq(Citations) /\ Len(<<DataEvidence>>) = 1
      /\ DOMAIN <<DataEvidence>> = 1 .. 1 /\ <<DataEvidence>>[1] = DataEvidence
  BY <1>1
<1> QED BY <1>2 DEF Range, IsInjective

LEMMA DataAmong ==
    ASSUME NEW marks
    PROVE  LET cites == Among(<<DataEvidence>>, marks)
           IN  /\ cites \in Seq(Citations) /\ Len(cites) <= 1
               /\ Range(cites) = {DataEvidence} \cap marks
               /\ IsInjective(cites)
<1> DEFINE list == <<DataEvidence>>
<1>1. list \in Seq(Citations) /\ Len(list) = 1 /\ Range(list) = {DataEvidence} /\ IsInjective(list)
  BY DataIsAList
<1> HIDE DEF list
<1>2. /\ Among(list, marks) \in Seq(Citations) /\ Len(Among(list, marks)) <= Len(list)
      /\ Range(Among(list, marks)) = Range(list) \cap marks
      /\ IsInjective(list) => IsInjective(Among(list, marks))
  BY <1>1, AmongHolds
<1>3. /\ Among(list, marks) \in Seq(Citations) /\ Len(Among(list, marks)) <= 1
      /\ Range(Among(list, marks)) = {DataEvidence} \cap marks
      /\ IsInjective(Among(list, marks))
  BY <1>1, <1>2
<1> QED BY <1>3 DEF list

LEMMA DataAnswersHold ==
    ASSUME NEW answer \in DataChoices
    PROVE  IsAnswer(answer, {DataEvidence}) /\ Range(answer.citations) = {DataEvidence}
<1>1. PICK sent \in Drafts : /\ WellFormed(sent)
                             /\ answer = DataAnswer(<<DataEvidence>>, sent) /\ answer # Refused
  BY DEF DataChoices
<1> DEFINE cites == Among(<<DataEvidence>>, Range(sent.declared))
<1>2. sent.text \in Texts(AnswerMax)
  BY <1>1 DEF Drafts
<1>3. /\ cites \in Seq(Citations) /\ Len(cites) <= 1
      /\ Range(cites) = {DataEvidence} \cap Range(sent.declared)
      /\ IsInjective(cites)
  BY DataAmong
<1> HIDE DEF cites
<1>4. /\ answer = Answer(sent.text, cites)
      /\ Range(sent.declared) \subseteq {DataEvidence}
      /\ sent.inline # {} /\ sent.inline = Range(sent.declared)
  BY <1>1, DataIsAList DEF DataAnswer, DataMark, cites
<1>5. Range(cites) = {DataEvidence}
  BY <1>3, <1>4
<1>6. cites # <<>>
  BY <1>5 DEF Range
<1>7. Len(cites) \in 1 .. 6
  <2>1. Len(cites) \in Nat /\ Len(cites) # 0
    BY <1>3, <1>6
  <2> DEFINE n == Len(cites)
  <2>2. n \in Nat /\ n # 0 /\ n <= 1
    BY <1>3, <2>1
  <2> HIDE DEF n
  <2>3. n \in 1 .. 6
    BY <2>2
  <2> QED BY <2>3 DEF n
<1>8. Nonblank(sent.text)
  BY <1>1, <1>4 DEF WellFormed
<1>9. answer.text = sent.text /\ answer.citations = cites
  BY <1>4 DEF Answer
<1> QED BY <1>2, <1>3, <1>4, <1>5, <1>6, <1>7, <1>8, <1>9 DEF IsAnswer

LEMMA DataIsCited == Cited(DataChoices) = {{DataEvidence}}
<1>1. \E answer \in DataChoices : TRUE
  <2> DEFINE text == Text(Short, Short)
  <2>1. {DataEvidence} \subseteq Citations /\ {DataEvidence} \subseteq Marks
    BY DEF Citations, Marks
  <2>2. PICK list \in Lists : Range(list) = {DataEvidence}
    BY <2>1, ListsNameAll
  <2> DEFINE sent == [text |-> text, inline |-> {DataEvidence}, declared |-> list, bare |-> FALSE]
  <2> DEFINE cites == Among(<<DataEvidence>>, Range(list))
  <2>3. text \in Texts(AnswerMax) /\ text.raw = 40 /\ text.inner = 40
    BY DEF Texts, Text, Short
  <2>4. sent \in Drafts /\ WellFormed(sent)
    BY <2>1, <2>2, <2>3 DEF Drafts, WellFormed, Nonblank
  <2>5. DataAnswer(<<DataEvidence>>, sent) = Answer(text, cites)
    <3>1. /\ sent.text = text /\ sent.inline = {DataEvidence} /\ sent.declared = list
          /\ ~ sent.bare
      OBVIOUS
    <3>2. text.raw > 0
      BY <2>3
    <3> HIDE DEF sent, text
    <3> QED BY <2>2, <3>1, <3>2, DataIsAList DEF DataAnswer, DataMark
  <2>6. Answer(text, cites) # Refused
    BY DEF Answer, Refused, Text, Short, Missing
  <2> HIDE DEF sent, text, cites
  <2> QED BY <2>4, <2>5, <2>6 DEF DataChoices
<1> QED BY <1>1, DataAnswersHold DEF Cited

(* What the evidence selector may select.                                  *)
LEMMA SelectionsAreAll == SelectionChoices = SUBSET Documents
<1>1. Zero \notin Documents
  BY EvidenceAssumption DEF Citations
<1>2. ASSUME NEW chosen \in SelectionChoices PROVE chosen \subseteq Documents
  <2>1. PICK requested \in Lists, reason \in Texts(500) :
            chosen = SelectedIds(Documents, requested, reason)
    BY DEF SelectionChoices
  <2>2. chosen # NoSelection
    BY DEF SelectionChoices
  <2> QED BY <2>1, <2>2 DEF SelectedIds, KnowledgeMark
<1>3. ASSUME NEW chosen, chosen \subseteq Documents PROVE chosen \in SelectionChoices
  <2>1. PICK requested \in Lists : Range(requested) = chosen
    BY <1>3, ListsNameAll DEF Citations
  <2> DEFINE reason == Text(Short, Short)
  <2>2. reason \in Texts(500) /\ reason.raw = 40 /\ reason.inner = 40 /\ reason # Missing
    BY DEF Texts, Text, Short, Missing
  <2>3. Bounded(reason, 500) /\ Nonblank(reason)
    BY <2>2 DEF Bounded, Nonblank
  <2> HIDE DEF reason
  <2>4. SelectedIds(Documents, requested, reason) = chosen
    BY <1>3, <2>1, <2>3 DEF SelectedIds, KnowledgeMark
  <2>5. chosen # NoSelection
    BY <1>1, <1>3 DEF NoSelection
  <2> QED BY <2>1, <2>2, <2>4, <2>5 DEF SelectionChoices
<1> QED BY <1>2, <1>3

-----------------------------------------------------------------------------
(* The citations of a mixed answer.                                        *)

(* A finite set as a list.                                                 *)
LEMMA SetsAreListed ==
    ASSUME NEW S, IsFiniteSet(S)
    PROVE  SetToSeq(S) \in Seq(S) /\ Range(SetToSeq(S)) = S
<1> DEFINE n == Cardinality(S)
<1>1. n \in Nat /\ ExistsBijection(1 .. n, S)
  BY FS_CardinalityType
<1>2. \E f \in [1 .. n -> S] : IsInjective(f)
  BY <1>1 DEF ExistsBijection, Bijection, Injection
<1> DEFINE list == SetToSeq(S)
<1>3. list \in [1 .. n -> S] /\ IsInjective(list)
  BY <1>2, Zenon DEF SetToSeq
<1> HIDE DEF list
<1>4. list \in Injection(1 .. n, S)
  BY <1>3 DEF Injection
<1>5. IsFiniteSet(1 .. n) /\ Cardinality(1 .. n) = n
  <2>1. 1 \in Int /\ n \in Int
    BY <1>1
  <2>2. IsFiniteSet(1 .. n) /\ Cardinality(1 .. n) = IF 1 > n THEN 0 ELSE n - 1 + 1
    BY <2>1, FS_Interval
  <2> HIDE DEF n
  <2> QED BY <1>1, <2>2
<1>6. list \in Surjection(1 .. n, S)
  BY <1>4, <1>5, FS_Injection
<1>7. \A x \in S : \E i \in 1 .. n : list[i] = x
  BY <1>6 DEF Surjection
<1>8. Range(list) = S
  BY <1>3, <1>7 DEF Range
<1>9. list \in Seq(S)
  <2> HIDE DEF n
  <2> QED BY <1>1, <1>3
<1> QED BY <1>8, <1>9 DEF list

LEMMA JoinedLists ==
    ASSUME NEW S, NEW s \in Seq(S), NEW t \in Seq(S)
    PROVE  s \o t \in Seq(S) /\ Range(s \o t) = Range(s) \cup Range(t)
<1> DEFINE u == s \o t
<1>1. /\ u \in Seq(S) /\ DOMAIN u = 1 .. Len(s) + Len(t)
      /\ DOMAIN s = 1 .. Len(s) /\ DOMAIN t = 1 .. Len(t) /\ Len(s) \in Nat /\ Len(t) \in Nat
      /\ \A i \in 1 .. Len(s) : u[i] = s[i]
      /\ \A i \in 1 .. Len(t) : u[Len(s) + i] = t[i]
      /\ \A i \in 1 .. Len(s) + Len(t) : i > Len(s) => u[i] = t[i - Len(s)]
  OBVIOUS
<1> HIDE DEF u
<1>2. ASSUME NEW x \in Range(u) PROVE x \in Range(s) \cup Range(t)
  <2>1. PICK i \in 1 .. Len(s) + Len(t) : x = u[i]
    BY <1>1, <1>2 DEF Range
  <2>2. CASE i <= Len(s)
    <3>1. i \in 1 .. Len(s)
      BY <1>1, <2>2
    <3> QED BY <1>1, <2>1, <3>1 DEF Range
  <2>3. CASE i > Len(s)
    <3>1. i - Len(s) \in 1 .. Len(t)
      BY <1>1, <2>3
    <3> QED BY <1>1, <2>1, <2>3, <3>1 DEF Range
  <2> QED BY <1>1, <2>2, <2>3
<1>3. ASSUME NEW x \in Range(s) PROVE x \in Range(u)
  <2>1. PICK i \in 1 .. Len(s) : x = s[i]
    BY <1>1, <1>3 DEF Range
  <2>2. i \in 1 .. Len(s) + Len(t)
    BY <1>1
  <2> QED BY <1>1, <2>1, <2>2 DEF Range
<1>4. ASSUME NEW x \in Range(t) PROVE x \in Range(u)
  <2>1. PICK i \in 1 .. Len(t) : x = t[i]
    BY <1>1, <1>4 DEF Range
  <2>2. Len(s) + i \in 1 .. Len(s) + Len(t)
    BY <1>1
  <2> QED BY <1>1, <2>1, <2>2 DEF Range
<1> QED BY <1>1, <1>2, <1>3, <1>4 DEF u

LEMMA MixedIsCited ==
    ASSUME NEW held, held \subseteq Citations
    PROVE  MixedChoices[held] = {c \in SUBSET held : CitesBoth(c)}
<1> DEFINE data == Among(<<DataEvidence>>, held)
<1> DEFINE knowledge == SetToSeq(held \cap Documents)
<1>1. data \in Seq(Citations) /\ Range(data) = {DataEvidence} \cap held
  BY DataAmong
<1>2. knowledge \in Seq(Citations) /\ Range(knowledge) = held \cap Documents
  <2>1. IsFiniteSet(held \cap Documents)
    <3>1. held \cap Documents \in SUBSET Documents
      OBVIOUS
    <3> QED BY <3>1, EvidenceAssumption, FS_Subset
  <2>2. knowledge \in Seq(held \cap Documents) /\ Range(knowledge) = held \cap Documents
    BY <2>1, SetsAreListed
  <2> HIDE DEF knowledge
  <2>3. held \cap Documents \subseteq Citations
    BY DEF Citations
  <2> QED BY <2>2, <2>3
<1> HIDE DEF data, knowledge
<1>3. /\ data \o knowledge \in Seq(Citations)
      /\ Range(data) \cup Range(knowledge) = held
      /\ Range(data \o knowledge) = held
  <2>1. Range(data) \cup Range(knowledge) = held
    BY <1>1, <1>2 DEF Citations
  <2>2. data \in Seq(Citations) /\ knowledge \in Seq(Citations)
    BY <1>1, <1>2
  <2>3. /\ data \o knowledge \in Seq(Citations)
        /\ Range(data \o knowledge) = Range(data) \cup Range(knowledge)
    BY <2>2, JoinedLists
  <2> QED BY <2>1, <2>3
<1>4. ASSUME NEW declared
      PROVE  Range(Among(data \o knowledge, Range(declared))) = held \cap Range(declared)
  <2> DEFINE joined == data \o knowledge
  <2>1. joined \in Seq(Citations) /\ Range(joined) = held
    BY <1>3
  <2> HIDE DEF joined
  <2>2. Range(Among(joined, Range(declared))) = Range(joined) \cap Range(declared)
    BY <2>1, AmongHolds
  <2> QED BY <2>1, <2>2 DEF joined
<1> DEFINE Accepted(declared) == MixedCitations(data, knowledge, declared)
<1>5. ASSUME NEW declared \in Lists, Range(Accepted(declared)) # {}
      PROVE  Range(Accepted(declared)) \subseteq held /\ CitesBoth(Range(Accepted(declared)))
  <2> DEFINE marks == Range(declared)
  <2>1. Range(<<>>) = {}
    BY DEF Range
  <2>2. /\ Accepted(declared) = Among(data \o knowledge, marks)
        /\ marks \subseteq held /\ DataEvidence \in marks
        /\ marks \cap (Documents \cup {Zero}) # {}
    BY <1>3, <1>5, <2>1 DEF MixedCitations, SkillMark
  <2>3. Range(Accepted(declared)) = marks
    BY <1>4, <2>2
  <2>4. Zero \notin held
    BY EvidenceAssumption
  <2> HIDE DEF marks
  <2> QED BY <2>2, <2>3, <2>4 DEF CitesBoth
<1>6. ASSUME NEW c, c \subseteq held, CitesBoth(c)
      PROVE  \E declared \in Lists : Range(Accepted(declared)) = c
  <2>1. c \subseteq Citations
    BY <1>6
  <2>2. PICK declared \in Lists : Range(declared) = c
    BY <2>1, ListsNameAll
  <2>3. declared # <<>>
    BY <1>6, <2>2 DEF CitesBoth, Range
  <2>4. /\ c \subseteq SkillMark("mixed")
        /\ c \cap SkillMark("data") # {} /\ c \cap SkillMark("knowledge") # {}
    BY <1>6, <2>1 DEF CitesBoth, SkillMark
  <2>5. Accepted(declared) = Among(data \o knowledge, c)
    BY <1>3, <1>6, <2>2, <2>3, <2>4 DEF MixedCitations
  <2> QED BY <1>4, <1>6, <2>2, <2>5
<1>7. MixedChoices[held] = {Range(Accepted(declared)) : declared \in Lists} \ {{}}
  BY DEF MixedChoices, data, knowledge
<1>8. \A c \in SUBSET held : CitesBoth(c) => c # {}
  BY DEF CitesBoth
<1> HIDE DEF Accepted
<1> QED BY <1>5, <1>6, <1>7, <1>8

(* What is said of the text the validators strip.                          *)
LEMMA StrippedHolds ==
    ASSUME NEW text, text.raw \in Nat, text.inner \in Nat, text.inner <= text.raw, Nonblank(text)
    PROVE  LET clean == Stripped(text)
           IN  /\ clean.raw = text.inner /\ clean.inner = text.inner /\ clean.raw \in Nat
               /\ clean.raw >= 1 /\ clean.raw <= text.raw
               /\ clean # Missing /\ Nonblank(clean)
BY DEF Stripped, Text, Missing, Nonblank

LEMMA DecisionsAreSplit == DecisionsSplit
<1> SUFFICES ASSUME NEW decision \in Decisions, DecisionHolds(decision), decision.route = "mixed",
                    NEW r \in Domains
             PROVE  DecisionHolds(Subdecision(decision, r))
  BY DEF DecisionsSplit
<1> DEFINE text == IF r = "knowledge" THEN decision.knowledge ELSE decision.data
<1> DEFINE clean == Stripped(text)
<1>1. text \in OptionalTexts(SubqueryMax) /\ text # Missing
  BY DEF Decisions, DecisionHolds
<1>2. text.raw <= SubqueryMax /\ Nonblank(text)
  BY <1>1 DEF DecisionHolds
<1>3. text.raw \in Nat /\ text.inner \in Nat /\ text.inner <= text.raw
  BY <1>1, OptionalTextsHold DEF SubqueryMax
<1> HIDE DEF text
<1>4. /\ clean.raw \in Nat /\ clean.raw >= 1 /\ clean.raw <= text.raw
      /\ clean # Missing /\ Nonblank(clean)
  BY <1>2, <1>3, StrippedHolds
<1> HIDE DEF clean
<1>5. /\ clean.raw <= SubqueryMax /\ Bounded(clean, RequestMax)
  BY <1>2, <1>3, <1>4, TextsAreBounded DEF SubqueryMax, RequestMax
<1>6. Subdecision(decision, r) =
          [route |-> r, normalized |-> clean,
           knowledge |-> IF r = "knowledge" THEN clean ELSE Missing,
           data |-> IF r = "data" THEN clean ELSE Missing]
  BY DEF Subdecision, Subquery, Domains, clean, text
<1>7. CASE r = "knowledge"
  BY <1>4, <1>5, <1>6, <1>7 DEF DecisionHolds
<1>8. CASE r = "data"
  BY <1>4, <1>5, <1>6, <1>8 DEF DecisionHolds
<1> QED BY <1>7, <1>8 DEF Domains

(* The tool a domain's model may ask for.                                  *)
LEMMA ToolsAreAllowed ==
    ASSUME NEW r \in Domains
    PROVE  ToolChoices[r] = Range(AllowedTools[r])
<1>1. Range(AllowedTools[r]) = {ToolOf(r)}
  <2>1. AllowedTools[r] = <<ToolOf(r)>>
    BY DEF AllowedTools, ToolOf, Domains
  <2>2. DOMAIN <<ToolOf(r)>> = 1 .. 1 /\ <<ToolOf(r)>>[1] = ToolOf(r)
    OBVIOUS
  <2> QED BY <2>1, <2>2 DEF Range
<1>2. ToolOf(r) \in {KnowledgeTool, DataTool} /\ ToolOf(r) # "none"
  BY DEF ToolOf, KnowledgeTool, DataTool
<1>3. ToolChoices[r] = {RequestedTool(request, ToolOf(r)) : request \in ToolRequests} \ {"none"}
  BY DEF ToolChoices
<1>4. ASSUME NEW request, RequestedTool(request, ToolOf(r)) # "none"
      PROVE  RequestedTool(request, ToolOf(r)) = ToolOf(r)
  BY <1>4 DEF RequestedTool
<1>5. \E request \in ToolRequests : RequestedTool(request, ToolOf(r)) = ToolOf(r)
  <2> DEFINE query == Text(Short, Short)
  <2> DEFINE wanted == [name |-> ToolOf(r), query |-> query]
  <2> DEFINE request == [finish |-> "tool_calls", requests |-> <<wanted>>]
  <2>1. query \in Texts(RequestMax) /\ query.raw = 40 /\ query.inner = 40
    BY DEF Texts, Text, Short
  <2>2. wanted \in [name : {KnowledgeTool, DataTool, "other"}, query : Texts(RequestMax)]
    BY <1>2, <2>1
  <2>3. wanted.name = ToolOf(r) /\ Nonblank(wanted.query) /\ wanted.query.raw <= RequestMax
    BY <2>1 DEF Nonblank, RequestMax
  <2> HIDE DEF wanted
  <2>4. <<wanted>> \in BoundedSeq([name : {KnowledgeTool, DataTool, "other"},
                                    query : Texts(RequestMax)], 2)
    <3> DEFINE T == [name : {KnowledgeTool, DataTool, "other"}, query : Texts(RequestMax)]
    <3>1. wanted \in T
      BY <2>2
    <3> HIDE DEF T
    <3>2. <<wanted>> \in [1 .. 1 -> T] /\ 1 \in 0 .. 2
      BY <3>1
    <3>3. <<wanted>> \in BoundedSeq(T, 2)
      BY <3>2 DEF BoundedSeq, SeqOf
    <3> QED BY <3>3 DEF T
  <2>5. request \in ToolRequests
    BY <2>4 DEF ToolRequests
  <2>6. /\ request.finish = "tool_calls" /\ request.requests = <<wanted>>
        /\ Len(request.requests) = 1 /\ request.requests[1] = wanted
    OBVIOUS
  <2> HIDE DEF request
  <2>7. RequestedTool(request, ToolOf(r)) = ToolOf(r)
    BY <2>3, <2>6 DEF RequestedTool
  <2> QED BY <2>5, <2>7
<1> QED BY <1>1, <1>2, <1>3, <1>4, <1>5

(* A plan's texts and a review's are the texts of the agents' states.      *)
LEMMA PlansStayValid == PlansAreKept
<1> SUFFICES ASSUME NEW plan \in Plans, PlanHolds(plan) PROVE StateHolds(PlannedState(plan))
  BY DEF PlansAreKept
<1>1. /\ plan.status \in {"ready", "needs_clarification", "unsupported"}
      /\ plan.intent \in Texts(240) /\ plan.sql \in OptionalTexts(20000)
      /\ plan.reason \in Texts(500) /\ plan.missing \in OptionalTexts(300)
      /\ plan = [status |-> plan.status, intent |-> plan.intent, sql |-> plan.sql,
                 reason |-> plan.reason, missing |-> plan.missing, speaks |-> plan.speaks]
  BY DEF Plans
<1>2. plan.intent.raw > 0 /\ plan.reason.raw > 0
  BY DEF PlanHolds, Bounded
<1>3. Missing.raw = 0 /\ ~ Nonblank(Missing)
  BY DEF Missing, Nonblank
<1>4. Nonblank(plan.sql) => plan.sql.raw > 0
  BY <1>1, <1>3, OptionalTextsHold DEF Nonblank
<1>5. Nonblank(plan.missing) => plan.missing.raw > 0
  BY <1>1, <1>3, OptionalTextsHold DEF Nonblank
<1> DEFINE state == PlannedState(plan)
<1>6. /\ state.status = plan.status /\ state.intent = plan.intent /\ state.sql = plan.sql
      /\ state.reason = plan.reason
      /\ state.missing = IF plan.status = "needs_clarification" THEN plan.missing ELSE Missing
  BY <1>1 DEF PlannedState
<1> HIDE DEF state
<1>7. (state.sql.raw > 0) = (state.status = "ready")
  BY <1>1, <1>3, <1>4, <1>6 DEF PlanHolds
<1>8. (state.missing.raw > 0) = (state.status = "needs_clarification")
  BY <1>1, <1>3, <1>5, <1>6 DEF PlanHolds
<1>9. StateHolds(state)
  BY <1>2, <1>6, <1>7, <1>8 DEF StateHolds
<1> QED BY <1>9 DEF state

LEMMA ReviewsStayValid == ReviewsAreKept
<1> SUFFICES ASSUME NEW review \in Reviews, ReviewHolds(review)
             PROVE  /\ ReviewedHolds(review, Refused)
                    /\ review.answerability = "answerable" =>
                          \A answer \in UNION {KnowledgeChoices[held] : held \in SUBSET Documents} :
                              ReviewedHolds(review, answer)
  BY DEF ReviewsAreKept
<1>1. /\ Nonblank(review.reason)
      /\ IF review.answerability = "answerable"
         THEN review.missing = Missing
         ELSE Nonblank(review.missing)
  BY DEF ReviewHolds
<1>2. ReviewedHolds(review, Refused)
  BY <1>1 DEF ReviewedHolds
<1>3. ASSUME review.answerability = "answerable", NEW held \in SUBSET Documents,
             NEW answer \in KnowledgeChoices[held]
      PROVE  ReviewedHolds(review, answer)
  <2>1. Nonblank(answer.text) /\ answer.citations # <<>>
    BY KnowledgeAnswersHold DEF IsAnswer
  <2> QED BY <1>1, <1>3, <2>1 DEF ReviewedHolds
<1> QED BY <1>2, <1>3

(* As many values as columns, if no column is named twice.                 *)
LEMMA ColumnsAreCounted ==
    ASSUME NEW S, NEW list \in Seq(S), IsInjective(list)
    PROVE  Cardinality(Range(list)) = Len(list)
<1> DEFINE n == Len(list)
<1>1. n \in Nat /\ DOMAIN list = 1 .. n /\ list \in [1 .. n -> Range(list)]
  BY DEF Range
<1>2. list \in Bijection(1 .. n, Range(list))
  BY <1>1 DEF Bijection, Injection, Surjection, IsInjective, Range
<1>3. IsFiniteSet(1 .. n) /\ Cardinality(1 .. n) = n
  <2>1. 1 \in Int /\ n \in Int
    BY <1>1
  <2>2. IsFiniteSet(1 .. n) /\ Cardinality(1 .. n) = IF 1 > n THEN 0 ELSE n - 1 + 1
    BY <2>1, FS_Interval
  <2> HIDE DEF n
  <2> QED BY <1>1, <2>2
<1>4. ExistsBijection(1 .. n, Range(list))
  BY <1>2 DEF ExistsBijection
<1> QED BY <1>3, <1>4, FS_Bijection

LEMMA ProjectionsTell == ProjectionsTellWhatTheyCut
<1> SUFFICES ASSUME NEW queried \in QueryResults, Projection(queried).shown > 0
             PROVE  LET projection == Projection(queried)
                    IN  /\ (projection.shown = projection.row_count) = ~ projection.truncated
                        /\ projection.width = Len(queried.columns)
  BY DEF ProjectionsTellWhatTheyCut
<1> DEFINE shown == IF queried.rows < MaxProviderRecords THEN queried.rows ELSE MaxProviderRecords
<1>1. /\ Projection(queried) =
            [shown |-> shown, width |-> Cardinality(Range(queried.columns)),
             row_count |-> queried.rows, truncated |-> queried.rows > MaxProviderRecords]
      /\ IsInjective(queried.columns)
  BY DEF Projection
<1>2. queried.rows \in {1, MaxProviderRecords, MaxProviderRecords + 1}
  BY DEF QueryResults
<1>3. queried.columns \in Seq(Columns)
  <2>1. \/ queried.columns \in BoundedSeq(Columns, 2)
        \/ queried.columns = [i \in 1 .. (MaxProviderColumns + 1) |-> "safe_a"]
    BY DEF QueryResults
  <2>2. CASE queried.columns \in BoundedSeq(Columns, 2)
    <3>1. PICK n \in 0 .. 2 : queried.columns \in [1 .. n -> Columns]
      BY <2>2 DEF BoundedSeq, SeqOf
    <3> QED BY <3>1
  <2>3. CASE queried.columns = [i \in 1 .. (MaxProviderColumns + 1) |-> "safe_a"]
    BY <2>3 DEF Columns, MaxProviderColumns
  <2> QED BY <2>1, <2>2, <2>3
<1>4. Cardinality(Range(queried.columns)) = Len(queried.columns)
  BY <1>1, <1>3, ColumnsAreCounted
<1>5. (shown = queried.rows) = ~ (queried.rows > MaxProviderRecords)
  BY <1>2 DEF MaxProviderRecords
<1> DEFINE cut == queried.rows > MaxProviderRecords
<1> HIDE DEF shown, cut
<1>6. Projection(queried) =
          [shown |-> shown, width |-> Cardinality(Range(queried.columns)),
           row_count |-> queried.rows, truncated |-> cut]
  BY <1>1 DEF cut
<1>7. Projection(queried).truncated = cut
  BY <1>6
<1>8. /\ Projection(queried).shown = shown /\ Projection(queried).row_count = queried.rows
      /\ Projection(queried).width = Cardinality(Range(queried.columns))
  BY <1>6
<1>9. (shown = queried.rows) = ~ cut
  BY <1>5 DEF cut
<1> QED BY <1>4, <1>7, <1>8, <1>9, Zenon

(* The parts of a rendered answer: an accepted text is short, or one of    *)
(* them is too long.                                                       *)
ShortOrLong(text) ==
    /\ text.inner \in Nat
    /\ \/ text = Text(Short, Short) /\ text.inner = 40
       \/ text # Text(Short, Short) /\ text.inner >= 8000

LEMMA TextsAreShortOrLong ==
    ASSUME NEW text \in Texts(AnswerMax), Nonblank(text)
    PROVE  ShortOrLong(text)
BY DEF ShortOrLong, Texts, Text, Nonblank, AnswerMax, Short

LEMMA ShortOnesFit == ShortContentsFit
<1> SUFFICES ASSUME NEW content \in Contents, ContentAccepted(content)
             PROVE  LET parts == {content.summary, content.basis, content.action}
                    IN  (RenderedLength(content, EvidenceMaxCount + 1) <= AnswerMax)
                            = (parts = {Text(Short, Short)})
  BY DEF ShortContentsFit
<1> DEFINE a == content.summary.inner
<1> DEFINE b == content.basis.inner
<1> DEFINE c == content.action.inner
<1> DEFINE n == content.actions
<1> DEFINE short == Text(Short, Short)
<1>1. /\ a \in Nat /\ IF content.summary = short THEN a = 40 ELSE a >= 8000
      /\ b \in Nat /\ IF content.basis = short THEN b = 40 ELSE b >= 8000
      /\ c \in Nat /\ IF content.action = short THEN c = 40 ELSE c >= 8000
  <2>1. /\ content.summary \in Texts(AnswerMax) /\ Nonblank(content.summary)
        /\ content.basis \in Texts(AnswerMax) /\ Nonblank(content.basis)
        /\ content.action \in Texts(AnswerMax) /\ Nonblank(content.action)
    BY DEF Contents, ContentAccepted
  <2>2. ShortOrLong(content.summary) /\ ShortOrLong(content.basis) /\ ShortOrLong(content.action)
    BY <2>1, TextsAreShortOrLong
  <2> QED BY <2>2 DEF ShortOrLong
<1>2. n \in {1, 20}
  BY DEF Contents, ContentAccepted
<1>3. RenderedLength(content, EvidenceMaxCount + 1) =
          28 + a + b + n * (c + 4) - 1 + (IF n < 10 THEN 0 ELSE n - 9) + 5 * 6 - 1
  BY DEF RenderedLength, EvidenceMaxCount
<1> DEFINE length == 28 + a + b + n * (c + 4) - 1 + (IF n < 10 THEN 0 ELSE n - 9) + 5 * 6 - 1
<1> HIDE DEF a, b, c, n, short
<1>4. CASE content.summary = short /\ content.basis = short /\ content.action = short
  <2>1. a = 40 /\ b = 40 /\ c = 40
    BY <1>1, <1>4
  <2>2. length <= 8000
    BY <1>2, <2>1
  <2> QED BY <1>3, <1>4, <2>2 DEF AnswerMax, short
<1>5. CASE ~ (content.summary = short /\ content.basis = short /\ content.action = short)
  <2>1. a >= 0 /\ b >= 0 /\ c >= 0 /\ (a >= 8000 \/ b >= 8000 \/ c >= 8000)
    BY <1>1, <1>5
  <2>2. ~ (length <= 8000)
    <3>1. CASE n = 1
      BY <1>1, <2>1, <3>1
    <3>2. CASE n = 20
      BY <1>1, <2>1, <3>2
    <3> QED BY <1>2, <3>1, <3>2
  <2>3. ({content.summary, content.basis, content.action} = {short}) = FALSE
    BY <1>5
  <2>4. (RenderedLength(content, EvidenceMaxCount + 1) <= AnswerMax) = FALSE
    BY <1>3, <2>2 DEF AnswerMax
  <2> QED BY <2>3, <2>4 DEF short
<1> QED BY <1>4, <1>5

(* The step of a plan, by another name.                                    *)
LEMMA StepsAreRenamed ==
    ASSUME NEW step \in PlanSteps, NEW name \in StepIds
    PROVE  [step EXCEPT !.id = name] =
               [id |-> name, sequence |-> step.sequence, skill |-> step.skill,
                depends |-> step.depends, optional |-> step.optional]
<1> DEFINE renamed == [step EXCEPT !.id = name]
<1>1. /\ renamed \in PlanSteps /\ renamed.id = name /\ renamed.sequence = step.sequence
      /\ renamed.skill = step.skill /\ renamed.depends = step.depends
      /\ renamed.optional = step.optional
  BY DEF PlanSteps
<1> HIDE DEF renamed
<1>2. renamed = [id |-> renamed.id, sequence |-> renamed.sequence, skill |-> renamed.skill,
                 depends |-> renamed.depends, optional |-> renamed.optional]
  BY <1>1 DEF PlanSteps
<1>3. renamed = [id |-> name, sequence |-> step.sequence, skill |-> step.skill,
                 depends |-> step.depends, optional |-> step.optional]
  BY <1>1, <1>2
<1> QED BY <1>3 DEF renamed

(* Every valid plan is one step of the mixed skill.                        *)
LEMMA ValidPlansAreOfOneStep == PlansRunTheMixedSkill
<1>1. PromptedPlan \in ValidPlans
  <2> DEFINE s == PromptedPlan.steps[1]
  <2>1. /\ PromptedPlan.steps = <<s>> /\ PromptedPlan.rounds = 1
        /\ s = [id |-> "step", sequence |-> 1, skill |-> SkillOf["mixed"], depends |-> {},
                optional |-> FALSE]
        /\ PromptedPlan = [steps |-> <<s>>, rounds |-> 1]
    BY DEF PromptedPlan
  <2>2. s \in PlanSteps
    BY <2>1 DEF PlanSteps, StepIds
  <2> HIDE DEF s
  <2>3. <<s>> \in [1 .. 1 -> PlanSteps] /\ 1 \in 0 .. 1
    BY <2>2
  <2>4. <<s>> \in BoundedSeq(PlanSteps, 1)
    BY <2>3 DEF BoundedSeq, SeqOf
  <2>5. PromptedPlan \in ExecutionPlans
    BY <2>1, <2>4 DEF ExecutionPlans
  <2>6. PlanIsValid(PromptedPlan)
    <3>1. DOMAIN <<s>> = {1} /\ Len(<<s>>) = 1 /\ <<s>> # <<>> /\ <<s>>[1] = s
      OBVIOUS
    <3>2. s.sequence = 1 /\ s.depends = {} /\ s.skill = SkillOf["mixed"] /\ ~ s.optional
      BY <2>1
    <3> QED BY <2>1, <3>1, <3>2 DEF PlanIsValid, IsInjective, MaxRounds
  <2> QED BY <2>5, <2>6 DEF ValidPlans
<1>2. ASSUME NEW plan \in ValidPlans
      PROVE  [plan.steps EXCEPT ![1].id = PromptedPlan.steps[1].id] = PromptedPlan.steps
  <2>1. plan \in ExecutionPlans /\ PlanIsValid(plan)
    BY DEF ValidPlans
  <2> DEFINE p == plan.steps
  <2>2. Len(p) = 1
    BY <2>1 DEF PlanIsValid
  <2>3. p \in Seq(PlanSteps)
    <3>1. p \in BoundedSeq(PlanSteps, 1) \/ \E s, t \in PlanSteps : p = <<s, t>>
      BY <2>1 DEF ExecutionPlans
    <3>2. ASSUME p \in BoundedSeq(PlanSteps, 1) PROVE p \in Seq(PlanSteps)
      <4>1. PICK n \in 0 .. 1 : p \in [1 .. n -> PlanSteps]
        BY <3>2 DEF BoundedSeq, SeqOf
      <4> HIDE DEF p
      <4> QED BY <4>1
    <3>3. ASSUME NEW s \in PlanSteps, NEW t \in PlanSteps, p = <<s, t>> PROVE p \in Seq(PlanSteps)
      BY <3>3
    <3> QED BY <3>1, <3>2, <3>3
  <2> DEFINE s == p[1]
  <2>4. /\ s \in PlanSteps /\ DOMAIN p = {1}
        /\ s.sequence = 1 /\ s.skill = SkillOf["mixed"] /\ ~ s.optional
        /\ s.depends \subseteq {p[j].id : j \in 1 .. 0}
    <3>1. DOMAIN p = {1} /\ s \in PlanSteps
      BY <2>2, <2>3
    <3> DEFINE ids == [i \in DOMAIN p |-> p[i].id]
    <3>2. s.sequence = 1 /\ s.depends \subseteq {ids[j] : j \in 1 .. (1 - 1)}
      BY <2>1, <3>1 DEF PlanIsValid
    <3>3. s.skill = SkillOf["mixed"] /\ ~ s.optional
      BY <2>1 DEF PlanIsValid
    <3>4. {ids[j] : j \in 1 .. (1 - 1)} = {}
      OBVIOUS
    <3> HIDE DEF ids
    <3> QED BY <3>1, <3>2, <3>3, <3>4
  <2>5. s.depends = {} /\ s.optional = FALSE
    <3>1. {p[j].id : j \in 1 .. 0} = {}
      OBVIOUS
    <3> QED BY <2>4, <3>1 DEF PlanSteps
  <2>6. p = <<s>>
    <3> HIDE DEF p
    <3> QED BY <2>2, <2>3
  <2> HIDE DEF s, p
  <2>7. [<<s>> EXCEPT ![1].id = "step"] = <<[s EXCEPT !.id = "step"]>>
    OBVIOUS
  <2>8. [s EXCEPT !.id = "step"] =
            [id |-> "step", sequence |-> 1, skill |-> SkillOf["mixed"], depends |-> {},
             optional |-> FALSE]
    <3>1. "step" \in StepIds
      BY DEF StepIds
    <3>2. [s EXCEPT !.id = "step"] =
              [id |-> "step", sequence |-> s.sequence, skill |-> s.skill, depends |-> s.depends,
               optional |-> s.optional]
      BY <2>4, <3>1, StepsAreRenamed
    <3> QED BY <2>4, <2>5, <3>2
  <2>9. PromptedPlan.steps[1].id = "step"
         /\ PromptedPlan.steps =
                <<[id |-> "step", sequence |-> 1, skill |-> SkillOf["mixed"], depends |-> {},
                   optional |-> FALSE]>>
    BY DEF PromptedPlan
  <2> QED BY <2>6, <2>7, <2>8, <2>9 DEF p
<1> QED BY <1>1, <1>2 DEF PlansRunTheMixedSkill

(* What a review can do.                                                   *)
LEMMA EffectsArePossible ==
    {Effect(decision) : decision \in ReviewerDecisions}
        = {"failed"} \cup (IF CompletedRounds # {} THEN {"accept"} ELSE {})
                     \cup (IF RepairIsAllowed THEN {"repair"} ELSE {})
<1> DEFINE fails == [outcome |-> "fail_closed", final |-> "fail_closed", accepted |-> "none",
                     target |-> "none"]
<1> DEFINE accepts == [outcome |-> "accept", final |-> "accept", accepted |-> "step",
                       target |-> "none"]
<1> DEFINE repairs == [outcome |-> "repair", final |-> "repair", accepted |-> "none",
                       target |-> "step"]
<1>1. {fails, accepts, repairs} \subseteq ReviewerDecisions
  BY DEF ReviewerDecisions, Verdicts
<1>2. Effect(fails) = "failed"
  BY DEF Effect
<1>3. CompletedRounds # {} => Effect(accepts) = "accept"
  BY DEF Effect
<1>4. RepairIsAllowed => Effect(repairs) = "repair"
  BY DEF Effect
<1>5. ASSUME NEW decision \in ReviewerDecisions
      PROVE  \/ Effect(decision) = "failed"
             \/ Effect(decision) = "accept" /\ CompletedRounds # {}
             \/ Effect(decision) = "repair" /\ RepairIsAllowed
  BY DEF Effect
<1> HIDE DEF fails, accepts, repairs
<1> QED BY <1>1, <1>2, <1>3, <1>4, <1>5

(* What is accepted of the replies of the agents gets through.             *)
LEMMA AnswersAreServed ==
    /\ ServedUnlessTooLong("data", DataChoices)
    /\ \A held \in SUBSET Documents : ServedUnlessTooLong("knowledge", KnowledgeChoices[held])
<1>1. "data" \in Domains /\ "knowledge" \in Domains
  BY DEF Domains
<1>2. {DataEvidence} \subseteq SkillMark("data") /\ Documents \subseteq SkillMark("knowledge")
  BY DEF SkillMark
<1>3. ASSUME NEW answer \in DataChoices
      PROVE  GetsThrough("data", answer) = (answer.text.raw <= AnswerMax)
  BY <1>1, <1>2, DataAnswersHold, AnswersGetThrough
<1>4. ASSUME NEW held \in SUBSET Documents, NEW answer \in KnowledgeChoices[held]
      PROVE  GetsThrough("knowledge", answer) = (answer.text.raw <= AnswerMax)
  <2>1. held \subseteq SkillMark("knowledge")
    BY <1>2
  <2> QED BY <1>1, <2>1, KnowledgeAnswersHold, AnswersGetThrough
<1> QED BY <1>3, <1>4 DEF ServedUnlessTooLong

LEMMA RepliesAreServed == ASSUME TypeOK PROVE AcceptedRepliesAreServed
<1>1. domain \in Domains /\ cited \subseteq Citations
  BY DEF TypeOK
<1>2. selected \subseteq Documents
  BY DEF selected
<1>3. /\ DecisionsSplit /\ PlansAreKept /\ ReviewsAreKept /\ ProjectionsTellWhatTheyCut
      /\ ShortContentsFit /\ PlansRunTheMixedSkill
  BY DecisionsAreSplit, PlansStayValid, ReviewsStayValid, ProjectionsTell, ShortOnesFit,
     ValidPlansAreOfOneStep
<1>4. ToolChoices[domain] = Range(AllowedTools[domain])
  BY <1>1, ToolsAreAllowed
<1>5. Cited(KnowledgeChoices[selected]) = {c \in SUBSET Citations : ValidCitations(c)}
  BY <1>2, KnowledgeIsCited DEF ValidCitations
<1>6. MixedChoices[cited] = {c \in SUBSET cited : CitesBoth(c)}
  BY <1>1, MixedIsCited
<1>7. ServedUnlessTooLong("knowledge", KnowledgeChoices[selected])
  BY <1>2, AnswersAreServed
<1> QED
  BY <1>3, <1>4, <1>5, <1>6, <1>7, AnswersAreServed, DataIsCited, SelectionsAreAll, EffectsArePossible
  DEF AcceptedRepliesAreServed

(* Every contract between a provider's reply and the answer of a request,  *)
(* for any evidence a request can hold: what a role's contract accepts is  *)
(* what the path goes on with, and no later one refuses it, except for its *)
(* length.                                                                 *)
THEOREM ContractsAgree == Spec => []AcceptedRepliesAreServed
<1>1. TypeOK => AcceptedRepliesAreServed
  BY RepliesAreServed
<1> QED BY <1>1, PathIsTyped, PTL
=============================================================================
