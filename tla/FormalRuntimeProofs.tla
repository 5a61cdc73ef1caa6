------------------------ MODULE FormalRuntimeProofs ------------------------
(***************************************************************************)
(* Proofs about FormalRuntime, for every set of requests and calls, every  *)
(* budget and every number of failing appends.                             *)
(***************************************************************************)
EXTENDS FormalRuntime, TLAPS

-----------------------------------------------------------------------------
(* The lifespan. *)

(* What is on a stack before and after its last element was taken off.     *)
LEMMA FrontOfStack ==
    ASSUME NEW s \in Seq(Resources), s # <<>>
    PROVE  /\ Front(s) \in Seq(Resources)
           /\ Len(Front(s)) = Len(s) - 1
           /\ \A i \in 1..(Len(s) - 1) : Front(s)[i] = s[i]
           /\ Last(s) = s[Len(s)]
           /\ Last(s) \in Resources
           /\ ToSet(s) = ToSet(Front(s)) \cup {Last(s)}
<1>1. Len(s) \in Nat \ {0}
  OBVIOUS
<1>2. /\ Front(s) \in Seq(Resources)
      /\ Len(Front(s)) = Len(s) - 1
      /\ \A i \in 1..(Len(s) - 1) : Front(s)[i] = s[i]
  <2> DEFINE n == Len(s) - 1
  <2>1. n \in Nat /\ n <= Len(s) /\ n - 1 + 1 = n
    BY <1>1
  <2>2. /\ SubSeq(s, 1, n) \in Seq(Resources)
        /\ Len(SubSeq(s, 1, n)) = n
        /\ \A i \in 1..n : SubSeq(s, 1, n)[i] = s[i]
    BY <2>1
  <2> QED
    BY <2>2 DEF Front
<1>3. DOMAIN s = 1..Len(s) /\ DOMAIN Front(s) = 1..(Len(s) - 1)
  BY <1>2
<1>4. ToSet(s) = ToSet(Front(s)) \cup {s[Len(s)]}
  <2>1. \A i \in 1..Len(s) : i \in 1..(Len(s) - 1) \/ i = Len(s)
    BY <1>1
  <2> QED
    BY <1>1, <1>2, <1>3, <2>1 DEF ToSet
<1> QED
  BY <1>1, <1>2, <1>4 DEF Last

(* The stacks of the startup. *)
LEMMA StartupStacks ==
    /\ <<"audit">> \in Seq(Resources)
    /\ <<"audit", "store", "pipeline">> \in Seq(Resources)
    /\ ToSet(<<"audit">>) = {"audit"}
    /\ ToSet(<<"audit", "store", "pipeline">>) = {"audit", "store", "pipeline"}
<1>1. "audit" \in Resources /\ "store" \in Resources /\ "pipeline" \in Resources
  BY DEF Resources
<1>2. <<"audit">> \in Seq(Resources) /\ <<"audit", "store", "pipeline">> \in Seq(Resources)
  BY <1>1
<1>3. ToSet(<<"audit">>) = {"audit"}
  BY DEF ToSet
<1>4. ToSet(<<"audit", "store", "pipeline">>) = {"audit", "store", "pipeline"}
  BY DEF ToSet
<1> QED
  BY <1>2, <1>3, <1>4

LEMMA LifecycleTypeStep ==
    LifecycleTypeOK /\ [Next]_vars => LifecycleTypeOK'
<1> SUFFICES ASSUME LifecycleTypeOK, [Next]_vars
             PROVE  LifecycleTypeOK'
  OBVIOUS
<1> USE DEF LifecycleTypeOK, Awaits, Startup, Statuses, Abort, Publish, handle
<1>1. CASE UNCHANGED lifecycle
  BY <1>1 DEF lifecycle
<1>2. CASE Begin
  BY <1>2, StartupStacks DEF Begin, Resources
<1>3. CASE Connect
  BY <1>3 DEF Connect, Resources
<1>4. CASE Collection \/ Index \/ Handshake \/ Ping \/ StartupFails
  BY <1>4 DEF Collection, Index, Handshake, Ping, StartupFails, Resources
<1>5. CASE Hangup
  <2>1. "redis" \in Resources /\ "mcp" \in Resources
    BY DEF Resources
  <2>2. Append(stack, "redis") \in Seq(Resources)
    BY <2>1
  <2> QED
    BY <1>5, <2>1, <2>2 DEF Hangup
<1>6. CASE CloseNext
  BY <1>6, FrontOfStack DEF CloseNext
<1>7. CASE RolledBack \/ Stop \/ Shutdown
  BY <1>7 DEF RolledBack, Stop, Shutdown
<1>8. CASE \E r \in Requests : RequestStep(r)
  BY <1>8, <1>1 DEF RequestStep, Refused, Admit, Start, Complete, Release, ProviderCall,
                  Summarize, BeginSummary, SendSummary, EndSummary, Interrupt
<1> QED
  BY <1>1, <1>2, <1>3, <1>4, <1>5, <1>6, <1>7, <1>8
     DEF Next, Lifespan, LifespanStep, StartupStep, vars

(* Every open resource that somebody can still close has its callback on   *)
(* the stack (the MCP client of the handshake closes itself), and the      *)
(* audit log is at the bottom of it.                                       *)
StackOwnsLive ==
    /\ live \ abandoned \subseteq ToSet(stack) \cup (IF at = "hangup" THEN {"mcp"} ELSE {})
    /\ "audit" \notin abandoned
    /\ "audit" \in live <=> stack # <<>>
    /\ \A i \in 1..Len(stack) : stack[i] = "audit" <=> i = 1

(* What is open at each await of the startup, and what was published.      *)
StageInv ==
    /\ at = "start" => live = {} /\ stack = <<>> /\ abandoned = {}
    /\ at \in Startup => live = (
         CASE at = "connect" -> {"audit"}
           [] at \in {"collection", "index"} -> {"audit", "store"}
           [] at = "handshake" -> {"audit", "store", "pipeline"}
           [] at = "hangup" -> {"audit", "store", "pipeline", "mcp"}
           [] at = "ping" -> {"audit", "store", "pipeline", "redis"})
    /\ at \in Startup \ {"ping"} => stack = <<"audit", "store", "pipeline">>
    /\ at = "ping" => ToSet(stack) = live
    /\ (at = "serve" /\ status = "ready") =>
         executor /\ ToSet(stack) = live /\ {"audit", "store", "pipeline"} \subseteq live
    /\ executor => at = "serve" /\ status = "ready"
    /\ (at = "ended" \/ (at = "serve" /\ status # "ready")) => stack = <<>>

LifecycleInv == StackOwnsLive /\ StageInv

LEMMA AppendStack ==
    ASSUME NEW s \in Seq(Resources), NEW e \in Resources
    PROVE  /\ ToSet(Append(s, e)) = ToSet(s) \cup {e}
           /\ Append(s, e) # <<>>
           /\ Len(Append(s, e)) = Len(s) + 1
           /\ Append(s, e)[Len(s) + 1] = e
           /\ \A i \in 1..Len(s) : Append(s, e)[i] = s[i]
<1>1. /\ Len(s) \in Nat
      /\ Len(Append(s, e)) = Len(s) + 1
      /\ Append(s, e)[Len(s) + 1] = e
      /\ \A i \in 1..Len(s) : Append(s, e)[i] = s[i]
  OBVIOUS
<1>2. DOMAIN Append(s, e) = 1..(Len(s) + 1) /\ DOMAIN s = 1..Len(s)
  OBVIOUS
<1>3. \A i \in 1..(Len(s) + 1) : i \in 1..Len(s) \/ i = Len(s) + 1
  BY <1>1
<1>4. Len(s) + 1 \in 1..(Len(s) + 1) /\ \A i \in 1..Len(s) : i \in 1..(Len(s) + 1)
  BY <1>1
<1> QED
  BY <1>1, <1>2, <1>3, <1>4 DEF ToSet

LEMMA LifecycleStep ==
    LifecycleTypeOK /\ LifecycleInv /\ [Next]_vars => LifecycleInv'
<1> SUFFICES ASSUME LifecycleTypeOK, LifecycleInv, [Next]_vars
             PROVE  LifecycleInv'
  OBVIOUS
<1> USE DEF LifecycleInv, StackOwnsLive, StageInv, Startup, Abort, Publish, handle
<1>1. CASE UNCHANGED lifecycle
  BY <1>1 DEF lifecycle
<1>2. CASE Begin
  <2>1. /\ at = "start" /\ live = {} /\ stack = <<>> /\ abandoned = {} /\ abandoned' = {}
        /\ executor' = FALSE /\ status' = "starting"
    BY <1>2 DEF Begin, LifecycleTypeOK
  <2>2. CASE live' = {"audit"} /\ stack' = <<"audit", "store", "pipeline">> /\ at' = "connect"
    <3>1. stack' # <<>> /\ \A i \in 1..Len(stack') : stack'[i] = "audit" <=> i = 1
      BY <2>2
    <3>2. ToSet(stack') = {"audit", "store", "pipeline"}
      BY <2>2, StartupStacks
    <3> QED
      BY <2>1, <2>2, <3>1, <3>2
  <2>3. CASE live' = {"audit"} /\ stack' = <<"audit">> /\ Abort("error")
    <3>1. stack' # <<>> /\ \A i \in 1..Len(stack') : stack'[i] = "audit" <=> i = 1
      BY <2>3
    <3>2. ToSet(stack') = {"audit"}
      BY <2>3, StartupStacks
    <3> QED
      BY <2>1, <2>3, <3>1, <3>2
  <2>4. CASE Abort("error") /\ UNCHANGED <<live, stack>>
    BY <2>1, <2>4
  <2> QED
    BY <1>2, <2>2, <2>3, <2>4 DEF Begin
<1>3. CASE Connect
  BY <1>3, StartupStacks DEF Connect
<1>4. CASE Collection
  BY <1>4 DEF Collection
<1>5. CASE Index
  BY <1>5, StartupStacks DEF Index
<1>6. CASE Handshake
  BY <1>6 DEF Handshake
<1>7. CASE Hangup
  <2> DEFINE built == <<"audit", "store", "pipeline">>
  <2>1. /\ stack = built
        /\ live = {"audit", "store", "pipeline", "mcp"}
        /\ built # <<>>
        /\ \A i \in 1..Len(built) : built[i] = "audit" <=> i = 1
    BY <1>7 DEF Hangup
  <2>2. CASE Publish /\ live' = live \ {"mcp"} /\ UNCHANGED <<failure, stack, abandoned>>
    BY <1>7, <2>1, <2>2, StartupStacks DEF Hangup
  <2>3. CASE /\ live' = (live \ {"mcp"}) \cup {"redis"}
             /\ stack' = Append(stack, "redis")
             /\ at' = "ping"
             /\ UNCHANGED <<handle, failure, abandoned>>
    <3>1. "redis" \in Resources /\ built \in Seq(Resources) /\ Len(built) = 3
      BY StartupStacks DEF Resources
    <3>2. /\ ToSet(stack') = {"audit", "store", "pipeline", "redis"}
          /\ stack' # <<>>
          /\ Len(stack') = 4
          /\ stack'[4] = "redis"
          /\ \A i \in 1..3 : stack'[i] = built[i]
      <4>1. stack' = Append(built, "redis")
        BY <2>1, <2>3
      <4>2. /\ ToSet(Append(built, "redis")) = ToSet(built) \cup {"redis"}
            /\ Append(built, "redis") # <<>>
            /\ Len(Append(built, "redis")) = Len(built) + 1
            /\ Append(built, "redis")[Len(built) + 1] = "redis"
            /\ \A i \in 1..Len(built) : Append(built, "redis")[i] = built[i]
        BY <3>1, AppendStack
      <4>3. ToSet(built) = {"audit", "store", "pipeline"} /\ Len(built) + 1 = 4
        BY <3>1, StartupStacks
      <4> HIDE DEF built
      <4> QED
        BY <3>1, <4>1, <4>2, <4>3
    <3>3. \A i \in 1..4 : stack'[i] = "audit" <=> i = 1
      BY <2>1, <3>1, <3>2
    <3> QED
      BY <1>7, <2>1, <2>3, <3>2, <3>3 DEF Hangup
  <2>4. CASE /\ \E reason \in {"error", "cancelled"} : Abort(reason)
             /\ \/ live' = live \ {"mcp"} /\ UNCHANGED abandoned
                \/ abandoned' = abandoned \cup {"mcp"} /\ UNCHANGED live
             /\ UNCHANGED <<handle, stack>>
    BY <1>7, <2>1, <2>4, StartupStacks DEF Hangup
  <2> QED
    BY <1>7, <2>2, <2>3, <2>4 DEF Hangup
<1>8. CASE Ping
  BY <1>8 DEF Ping
<1>9. CASE StartupFails
  BY <1>9 DEF StartupFails
<1>10. CASE CloseNext
  <2> DEFINE top == Last(stack)
  <2>1. /\ at \in {"rollback", "close"}
        /\ at' = at
        /\ stack # <<>>
        /\ stack' = Front(stack)
        /\ UNCHANGED <<status, executor>>
    BY <1>10 DEF CloseNext
  <2>2. /\ Len(stack) \in Nat \ {0}
        /\ Len(stack') = Len(stack) - 1
        /\ stack' \in Seq(Resources)
        /\ \A i \in 1..(Len(stack) - 1) : stack'[i] = stack[i]
        /\ top = stack[Len(stack)]
        /\ ToSet(stack) = ToSet(stack') \cup {top}
    BY <2>1, FrontOfStack DEF LifecycleTypeOK
  <2>3. \A i \in 1..Len(stack') : stack'[i] = "audit" <=> i = 1
    BY <2>2
  <2>4. top = "audit" <=> Len(stack) = 1
    BY <2>2
  <2>5. stack' = <<>> <=> Len(stack) = 1
    BY <2>2
  <2>6. /\ live' \ abandoned' \subseteq ToSet(stack')
        /\ "audit" \notin abandoned'
        /\ "audit" \in live' <=> top # "audit"
    BY <1>10, <2>1, <2>2 DEF CloseNext
  <2> QED
    BY <2>1, <2>3, <2>4, <2>5, <2>6
<1>11. CASE RolledBack
  BY <1>11 DEF RolledBack
<1>12. CASE Shutdown
  BY <1>12 DEF Shutdown
<1>13. CASE Stop
  BY <1>13 DEF Stop
<1>14. CASE \E r \in Requests : RequestStep(r)
  BY <1>14, <1>1 DEF RequestStep, Refused, Admit, Start, Complete, Release, ProviderCall,
                  Summarize, BeginSummary, SendSummary, EndSummary, Interrupt
<1> QED
  BY <1>1, <1>2, <1>3, <1>4, <1>5, <1>6, <1>7, <1>8, <1>9, <1>10, <1>11, <1>12, <1>13, <1>14
     DEF Next, Lifespan, LifespanStep, StartupStep, vars

LEMMA LifecycleInvariant == Spec => [](LifecycleTypeOK /\ LifecycleInv)
<1>1. Init => LifecycleTypeOK /\ LifecycleInv
  <2> SUFFICES ASSUME Init
               PROVE  LifecycleTypeOK /\ LifecycleInv
    OBVIOUS
  <2>1. LifecycleTypeOK
    <3>1. <<>> \in Seq(Resources)
      OBVIOUS
    <3> QED
      BY <3>1 DEF Init, LifecycleInit, LifecycleTypeOK, Awaits, Startup, Statuses
  <2>2. LifecycleInv
    BY DEF Init, LifecycleInit, LifecycleInv, StackOwnsLive, StageInv, Startup
  <2> QED
    BY <2>1, <2>2
<1>2. LifecycleTypeOK /\ LifecycleInv /\ [Next]_vars => (LifecycleTypeOK /\ LifecycleInv)'
  BY LifecycleTypeStep, LifecycleStep
<1> QED
  BY <1>1, <1>2, PTL DEF Spec

(* A request that finds an executor finds every resource under it open.    *)
(* Inductive: the closing callbacks on the stack are exactly the open      *)
(* resources, and an executor is only held while the lifespan serves.      *)
THEOREM RuntimeIsServedWhole == Spec => []ServedRuntimeIsWhole
<1>1. LifecycleTypeOK /\ LifecycleInv => ServedRuntimeIsWhole
  BY DEF LifecycleInv, StageInv, ServedRuntimeIsWhole, Available
<1> QED
  BY <1>1, LifecycleInvariant, PTL

(* No startup, failed or cancelled anywhere, and no shutdown leaves an     *)
(* open resource behind that it could have closed, and the audit log is    *)
(* the last to go.                                                         *)
THEOREM RuntimeLeaksNothing == Spec => []NothingLeaks
<1>1. LifecycleTypeOK /\ LifecycleInv => NothingLeaks
  <2> SUFFICES ASSUME LifecycleTypeOK, LifecycleInv
               PROVE  NothingLeaks
    OBVIOUS
  <2>1. stack = <<>> => ToSet(stack) = {}
    BY DEF ToSet
  <2>2. ("audit" \notin live /\ at # "start") => at # "hangup" /\ stack = <<>>
    BY DEF LifecycleInv, StackOwnsLive, StageInv, Startup
  <2> QED
    BY <2>1, <2>2 DEF LifecycleInv, StackOwnsLive, StageInv, NothingLeaks, Available
<1> QED
  BY <1>1, LifecycleInvariant, PTL

-----------------------------------------------------------------------------
(* The governance. *)

(* What one step may do to the log: nothing, or one event at the end of    *)
(* the log of one request.                                                 *)
MayRecord(r, event) == Record(r, event) \/ UNCHANGED log

(* An event of one call, or of the request, changes nothing of what the    *)
(* log holds about another call.                                           *)
LEMMA OtherEvents ==
    ASSUME GovernanceTypeOK, NEW r \in Requests, NEW event \in AuditEvents,
           MayRecord(r, event),
           NEW d \in Calls, RequestOf[d] \in Requests,
           event.type \in CallEvents => event.call # d,
           NEW type \in CallEvents
    PROVE  /\ Recorded(d, type)' = Recorded(d, type)
           /\ \A i \in Recorded(d, type) : log'[RequestOf[d]][i] = log[RequestOf[d]][i]
<1> DEFINE events == log[RequestOf[d]]
<1>1. events \in Seq(AuditEvents)
  BY DEF GovernanceTypeOK
<1>2. CASE log' = log
  BY <1>2 DEF Recorded
<1>3. CASE Record(r, event) /\ r # RequestOf[d]
  <2>1. log'[RequestOf[d]] = log[RequestOf[d]]
    BY <1>3 DEF Record, GovernanceTypeOK
  <2> QED
    BY <2>1 DEF Recorded
<1>4. CASE Record(r, event) /\ r = RequestOf[d]
  <2>1. log'[RequestOf[d]] = Append(events, event)
    BY <1>4 DEF Record, GovernanceTypeOK
  <2>2. /\ DOMAIN Append(events, event) = 1..(Len(events) + 1)
        /\ DOMAIN events = 1..Len(events)
        /\ Len(events) \in Nat
        /\ Append(events, event)[Len(events) + 1] = event
        /\ \A i \in 1..Len(events) : Append(events, event)[i] = events[i]
    BY <1>1
  <2>3. ~(event.type = type /\ event.call = d)
    OBVIOUS
  <2> HIDE DEF events
  <2>4. \A i \in 1..(Len(events) + 1) : i \in 1..Len(events) \/ i = Len(events) + 1
    BY <2>2
  <2>5. \A i \in 1..Len(events) : i \in 1..(Len(events) + 1)
    BY <2>2
  <2>6. {i \in 1..(Len(events) + 1) :
            Append(events, event)[i].type = type /\ Append(events, event)[i].call = d}
          = {i \in 1..Len(events) : events[i].type = type /\ events[i].call = d}
    BY <2>2, <2>3, <2>4, <2>5
  <2> QED
    BY <2>1, <2>2, <2>6 DEF Recorded, events
<1> QED
  BY <1>2, <1>3, <1>4 DEF MayRecord

(* A recorded event of a call is the last of the log of its request.       *)
LEMMA OwnEvent ==
    ASSUME GovernanceTypeOK, NEW c \in Calls, RequestOf[c] \in Requests,
           NEW kind \in CallEvents, NEW n \in 0..MaxProviderCalls,
           Record(RequestOf[c], CallEvent(c, kind, n)),
           NEW type \in CallEvents
    PROVE  /\ Recorded(c, type)' =
                 IF kind = type THEN Recorded(c, type) \cup {Len(log[RequestOf[c]]) + 1}
                                ELSE Recorded(c, type)
           /\ \A i \in Recorded(c, type) :
                /\ log'[RequestOf[c]][i] = log[RequestOf[c]][i]
                /\ i < Len(log[RequestOf[c]]) + 1
           /\ log'[RequestOf[c]][Len(log[RequestOf[c]]) + 1] = CallEvent(c, kind, n)
<1> DEFINE events == log[RequestOf[c]]
           event == CallEvent(c, kind, n)
<1>1. events \in Seq(AuditEvents)
  BY DEF GovernanceTypeOK
<1>2. log'[RequestOf[c]] = Append(events, event)
  BY DEF Record, GovernanceTypeOK
<1>3. event.type = kind /\ event.call = c
  BY DEF CallEvent
<1> HIDE DEF event
<1>4. /\ DOMAIN Append(events, event) = 1..(Len(events) + 1)
      /\ DOMAIN events = 1..Len(events)
      /\ Len(events) \in Nat
      /\ Append(events, event)[Len(events) + 1] = event
      /\ \A i \in 1..Len(events) : Append(events, event)[i] = events[i]
  BY <1>1
<1> HIDE DEF events
<1>5. /\ \A i \in 1..(Len(events) + 1) : i \in 1..Len(events) \/ i = Len(events) + 1
      /\ \A i \in 1..Len(events) : i \in 1..(Len(events) + 1) /\ i < Len(events) + 1
      /\ Len(events) + 1 \in 1..(Len(events) + 1)
      /\ Len(events) + 1 \notin 1..Len(events)
  BY <1>4
<1>6. {i \in 1..(Len(events) + 1) :
          Append(events, event)[i].type = type /\ Append(events, event)[i].call = c}
        = {i \in 1..Len(events) : events[i].type = type /\ events[i].call = c}
            \cup (IF kind = type THEN {Len(events) + 1} ELSE {})
  BY <1>3, <1>4, <1>5
<1> QED
  BY <1>2, <1>4, <1>5, <1>6 DEF Recorded, events, event

(* Every event the runtime records is an audit event, so a record keeps    *)
(* the log well typed.                                                     *)
LEMMA RecordType ==
    ASSUME GovernanceTypeOK, NEW r \in Requests, NEW event \in AuditEvents,
           MayRecord(r, event)
    PROVE  log' \in [Requests -> Seq(AuditEvents)]
<1>1. log[r] \in Seq(AuditEvents)
  BY DEF GovernanceTypeOK
<1>2. Append(log[r], event) \in Seq(AuditEvents)
  BY <1>1
<1> QED
  BY <1>2 DEF MayRecord, Record, GovernanceTypeOK

LEMMA EventTypes ==
    ASSUME GovernanceTypeOK
    PROVE  /\ \A c \in Calls, kind \in CallEvents, n \in 0..MaxProviderCalls :
                 /\ CallEvent(c, kind, n) \in AuditEvents
                 /\ CallEvent(c, kind, n).type = kind
                 /\ CallEvent(c, kind, n).call = c
           /\ \A r \in Requests, kind \in RequestEvents :
                 /\ RequestEvent(r, kind) \in AuditEvents
                 /\ RequestEvent(r, kind).type \notin CallEvents
           /\ \A kind \in RequestEvents :
                 /\ ReleaseEvent(kind) \in AuditEvents
                 /\ ReleaseEvent(kind).type \notin CallEvents
<1>1. 0 \in 0..MaxProviderCalls
  BY GovernanceAssumption
<1>2. \A r \in Requests : callCount[r] \in 0..MaxProviderCalls
  BY DEF GovernanceTypeOK
<1>3. RequestEvents \cap CallEvents = {}
  BY DEF RequestEvents, CallEvents
<1>4. \A c \in Calls, kind \in CallEvents, n \in 0..MaxProviderCalls :
        /\ CallEvent(c, kind, n) \in AuditEvents
        /\ CallEvent(c, kind, n).type = kind
        /\ CallEvent(c, kind, n).call = c
  BY DEF CallEvent, AuditEvents
<1>5. \A r \in Requests, kind \in RequestEvents :
        /\ RequestEvent(r, kind) \in AuditEvents
        /\ RequestEvent(r, kind).type = kind
  BY <1>2 DEF RequestEvent, AuditEvents
<1>6. \A kind \in RequestEvents :
        ReleaseEvent(kind) \in AuditEvents /\ ReleaseEvent(kind).type = kind
  BY <1>1 DEF ReleaseEvent, AuditEvents
<1> QED
  BY <1>3, <1>4, <1>5, <1>6

(* What a failing append does is at most a record.                         *)
LEMMA AppendsMayRecord ==
    ASSUME NEW r, NEW event
    PROVE  /\ AppendReturns(r, event) => MayRecord(r, event)
           /\ AppendRaises(r, event) => MayRecord(r, event)
           /\ AppendEnds(r, event) => MayRecord(r, event)
BY DEF AppendReturns, AppendRaises, AppendEnds, MayRecord

(* A failing append is counted, whatever it appends.                       *)
LEMMA FailuresType ==
    ASSUME GovernanceTypeOK, NEW r, NEW event, AppendEnds(r, event)
    PROVE  failures' \in 0..MaxFailures
BY GovernanceAssumption DEF AppendEnds, AppendReturns, AppendRaises, GovernanceTypeOK

(* A step of the runtime, as the governance sees it: nothing, an event of  *)
(* the request, or one step of one of its calls.                           *)
StepOfRequest(r) ==
    /\ UNCHANGED <<callCount, call, number>>
    /\ \/ UNCHANGED <<log, failures>>
       \/ \E event \in AuditEvents :
              event.type \notin CallEvents /\ AppendEnds(r, event)

StepOfCall(c) == (Begins(c) \/ Ends(c) \/ CancelCall(c)) /\ UNCHANGED lifecycle

LEMMA GovernanceSteps ==
    ASSUME GovernanceTypeOK, Next
    PROVE  \/ UNCHANGED <<log, callCount, call, number, failures>>
           \/ \E r \in Requests : StepOfRequest(r)
           \/ \E c \in Calls : StepOfCall(c)
<1>1. CASE Lifespan
  BY <1>1 DEF Lifespan
<1>2. CASE \E r \in Requests : RequestStep(r)
  <2>1. PICK r \in Requests : RequestStep(r)
    BY <1>2
  <2>2. CASE Refused(r)
    BY <2>2 DEF Refused, governance
  <2>3. CASE Admit(r) \/ Start(r)
    <3>1. "workflow_started" \in RequestEvents
      BY DEF RequestEvents
    <3>2. \/ AppendEnds(r, RequestEvent(r, "workflow_started"))
          \/ UNCHANGED <<log, failures>>
      BY <2>3 DEF Admit, Start, AppendEnds, governance
    <3> QED
      BY <2>3, <3>1, <3>2, EventTypes DEF Admit, Start, StepOfRequest, governance
  <2>4. CASE Complete(r)
    <3>1. {"workflow_completed", "workflow_failed"} \subseteq RequestEvents
      BY DEF RequestEvents
    <3>2. \/ \E kind \in {"workflow_completed", "workflow_failed"} :
              AppendEnds(r, RequestEvent(r, kind))
          \/ UNCHANGED <<log, failures>>
      BY <2>4 DEF Complete, AppendEnds
    <3> QED
      BY <2>4, <3>1, <3>2, EventTypes DEF Complete, StepOfRequest
  <2>5. CASE Release(r)
    <3>1. {"response_release_allowed", "response_release_blocked"} \subseteq RequestEvents
      BY DEF RequestEvents
    <3>2. \E kind \in {"response_release_allowed", "response_release_blocked"} :
              AppendEnds(r, ReleaseEvent(kind))
      BY <2>5 DEF Release, AppendEnds
    <3> QED
      BY <2>5, <3>1, <3>2, EventTypes DEF Release, StepOfRequest
  <2>6. CASE \E c \in CallsOf(r) : ProviderCall(c)
    BY <2>6 DEF ProviderCall, StepOfCall, CallsOf
  <2>7. CASE Summarize(r)
    BY <2>7 DEF Summarize, BeginSummary, SendSummary, EndSummary, Interrupt, governance
  <2> QED
    BY <2>1, <2>2, <2>3, <2>4, <2>5, <2>6, <2>7 DEF RequestStep
<1> QED
  BY <1>1, <1>2 DEF Next

LEMMA GovernanceTypeStep ==
    GovernanceTypeOK /\ [Next]_vars => GovernanceTypeOK'
<1> SUFFICES ASSUME GovernanceTypeOK, [Next]_vars
             PROVE  GovernanceTypeOK'
  OBVIOUS
<1>1. sinkOpen' \in BOOLEAN
  <2>1. sinkOpen' = sinkOpen \/ Lifespan
    BY DEF Next, RequestStep, Refused, Admit, Start, Complete, Release, ProviderCall, Begins, Ends,
           Refuse, Allow, Unrecorded, TransportReturns, UnsafeOutput, TransportFails, CancelCall,
           Block, Summarize, BeginSummary, SendSummary, EndSummary, Interrupt, governance, vars
  <2>2. Lifespan => sinkOpen' \in BOOLEAN
    BY DEF Lifespan
  <2> QED
    BY <2>1, <2>2 DEF GovernanceTypeOK
<1> DEFINE Rest == /\ log' \in [Requests -> Seq(AuditEvents)]
                   /\ callCount' \in [Requests -> 0..MaxProviderCalls]
                   /\ call' \in [Calls -> CallPhases]
                   /\ number' \in [Calls -> 0..MaxProviderCalls]
                   /\ failures' \in 0..MaxFailures
<1> SUFFICES Rest
  BY <1>1 DEF GovernanceTypeOK
<1>2. CASE UNCHANGED <<log, callCount, call, number, failures>>
  BY <1>2 DEF GovernanceTypeOK
<1>3. CASE \E r \in Requests : StepOfRequest(r)
  <2>1. PICK r \in Requests : StepOfRequest(r)
    BY <1>3
  <2>2. CASE UNCHANGED <<log, failures>>
    BY <2>1, <2>2 DEF StepOfRequest, GovernanceTypeOK
  <2>3. CASE \E event \in AuditEvents : AppendEnds(r, event)
    BY <2>1, <2>3, RecordType, AppendsMayRecord, FailuresType DEF StepOfRequest, GovernanceTypeOK
  <2> QED
    BY <2>1, <2>2, <2>3 DEF StepOfRequest
<1>4. CASE \E c \in Calls : StepOfCall(c)
  <2>1. PICK c \in Calls : StepOfCall(c)
    BY <1>4
  <2> DEFINE r == RequestOf[c]
  <2>2. r \in Requests /\ callCount[r] \in 0..MaxProviderCalls
    BY GovernanceAssumption DEF GovernanceTypeOK
  <2>3. ASSUME NEW kind \in CallEvents, AppendEnds(r, CallEvent(c, kind, callCount[r]))
        PROVE  log' \in [Requests -> Seq(AuditEvents)] /\ failures' \in 0..MaxFailures
    <3>1. CallEvent(c, kind, callCount[r]) \in AuditEvents
      BY <2>2, EventTypes
    <3> QED
      BY <2>2, <2>3, <3>1, RecordType, AppendsMayRecord, FailuresType
  <2>4. \A phase \in CallPhases : Goto(c, phase) => call' \in [Calls -> CallPhases]
    BY DEF Goto, GovernanceTypeOK
  <2>5. {"denied", "transport", "returned", "unsafe", "failed", "cancelled"} \subseteq CallPhases
    BY DEF CallPhases
  <2>6. /\ "provider_call_allowed" \in CallEvents /\ "provider_call_blocked" \in CallEvents
        /\ "provider_call_failed" \in CallEvents /\ "provider_call_completed" \in CallEvents
    BY DEF CallEvents
  <2>7. CASE Refuse(c)
    BY <2>3, <2>4, <2>5, <2>6, <2>7 DEF Refuse, Block, GovernanceTypeOK
  <2>8. CASE Allow(c)
    <3>1. AppendEnds(r, CallEvent(c, "provider_call_allowed", callCount[r]))
      BY <2>8 DEF Allow, AppendEnds
    <3>2. callCount[r] + 1 \in 0..MaxProviderCalls
      BY <2>2, <2>8, GovernanceAssumption DEF Allow
    <3>3. callCount' \in [Requests -> 0..MaxProviderCalls] /\ number' \in [Calls -> 0..MaxProviderCalls]
      BY <2>2, <2>8, <3>2 DEF Allow, GovernanceTypeOK
    <3> QED
      BY <2>3, <2>4, <2>5, <2>6, <2>8, <3>1, <3>3 DEF Allow
  <2>9. CASE Unrecorded(c)
    <3>1. AppendEnds(r, CallEvent(c, "provider_call_allowed", callCount[r]))
      BY <2>9 DEF Unrecorded, AppendEnds
    <3> QED
      BY <2>3, <2>4, <2>5, <2>6, <2>9, <3>1 DEF Unrecorded, GovernanceTypeOK
  <2>10. CASE TransportReturns(c)
    <3>1. AppendEnds(r, CallEvent(c, "provider_call_completed", callCount[r]))
      BY <2>10 DEF TransportReturns, AppendEnds
    <3> QED
      BY <2>3, <2>4, <2>5, <2>6, <2>10, <3>1 DEF TransportReturns, GovernanceTypeOK
  <2>11. CASE UnsafeOutput(c)
    BY <2>3, <2>4, <2>5, <2>6, <2>11 DEF UnsafeOutput, Block, GovernanceTypeOK
  <2>12. CASE TransportFails(c)
    BY <2>3, <2>4, <2>5, <2>6, <2>12 DEF TransportFails, GovernanceTypeOK
  <2>13. CASE CancelCall(c)
    BY <2>4, <2>5, <2>13 DEF CancelCall, GovernanceTypeOK
  <2> QED
    BY <2>1, <2>7, <2>8, <2>9, <2>10, <2>11, <2>12, <2>13 DEF StepOfCall, Begins, Ends
<1> HIDE DEF Rest
<1> QED
  BY <1>2, <1>3, <1>4, GovernanceSteps DEF vars, governance

(* What the log and the counter say of one call.                           *)
CallInv(c) ==
    /\ call[c] = "idle" => \A type \in CallEvents : Recorded(c, type) = {}
    /\ Sent(c) => IsAllowed(c) /\ number[c] < callCount[RequestOf[c]]
    /\ call[c] \in {"transport", "returned"} =>
         /\ Recorded(c, "provider_call_allowed") # {}
         /\ Recorded(c, "provider_call_blocked") = {}
         /\ Recorded(c, "provider_call_failed") = {}
    /\ call[c] = "transport" => Recorded(c, "provider_call_completed") = {}
    /\ call[c] = "returned" =>
         \E i \in Recorded(c, "provider_call_allowed"),
            j \in Recorded(c, "provider_call_completed") : i < j

NumbersDiffer ==
    \A c, d \in Calls :
        (c # d /\ Sent(c) /\ Sent(d) /\ RequestOf[c] = RequestOf[d]) => number[c] # number[d]

GovernanceInv == (\A c \in Calls : CallInv(c)) /\ NumbersDiffer

(* A call nothing happened to keeps its invariant. *)
LEMMA KeptCall ==
    ASSUME GovernanceTypeOK, NEW d \in Calls, CallInv(d),
           \A type \in CallEvents :
               /\ Recorded(d, type)' = Recorded(d, type)
               /\ \A i \in Recorded(d, type) : log'[RequestOf[d]][i] = log[RequestOf[d]][i],
           call'[d] = call[d], number'[d] = number[d],
           callCount'[RequestOf[d]] \in {callCount[RequestOf[d]], callCount[RequestOf[d]] + 1}
    PROVE  CallInv(d)' /\ Sent(d)' = Sent(d)
<1>1. "provider_call_allowed" \in CallEvents /\ "provider_call_blocked" \in CallEvents
      /\ "provider_call_failed" \in CallEvents /\ "provider_call_completed" \in CallEvents
  BY DEF CallEvents
<1>2. Sent(d)' <=> Sent(d)
  BY DEF Sent
<1>3. IsAllowed(d) => IsAllowed(d)'
  BY <1>1 DEF IsAllowed
<1>4. RequestOf[d] \in Requests /\ callCount[RequestOf[d]] \in Nat /\ number[d] \in Nat
  BY GovernanceAssumption DEF GovernanceTypeOK
<1>5. number[d] < callCount[RequestOf[d]] => (number[d] < callCount[RequestOf[d]])'
  BY <1>4
<1> HIDE DEF Sent
<1>6. CallInv(d)'
  BY <1>1, <1>2, <1>3, <1>5 DEF CallInv
<1> QED
  BY <1>2, <1>6 DEF Sent

(* Whether the log still allows a call after another event about it. *)
LEMMA StaysAllowed ==
    ASSUME GovernanceTypeOK, NEW c \in Calls, RequestOf[c] \in Requests, IsAllowed(c),
           number' = number,
           NEW kind \in CallEvents, NEW n \in 0..MaxProviderCalls,
           MayRecord(RequestOf[c], CallEvent(c, kind, n))
    PROVE  IsAllowed(c)'
<1>1. "provider_call_allowed" \in CallEvents
  BY DEF CallEvents
<1>2. CASE log' = log
  BY <1>2 DEF IsAllowed, Recorded
<1>3. CASE Record(RequestOf[c], CallEvent(c, kind, n))
  <2>1. PICK i \in Recorded(c, "provider_call_allowed") :
            log[RequestOf[c]][i].number = number[c]
    BY DEF IsAllowed
  <2>2. i \in Recorded(c, "provider_call_allowed")' /\ log'[RequestOf[c]][i] = log[RequestOf[c]][i]
    BY <1>1, <1>3, OwnEvent
  <2> QED
    BY <2>1, <2>2 DEF IsAllowed
<1> QED
  BY <1>2, <1>3 DEF MayRecord

LEMMA CallStep ==
    ASSUME GovernanceTypeOK, GovernanceInv, NEW c \in Calls, StepOfCall(c)
    PROVE  CallInv(c)'
<1> DEFINE r == RequestOf[c]
           n == callCount[r]
<1>1. r \in Requests /\ n \in 0..MaxProviderCalls /\ n \in Nat
  BY GovernanceAssumption DEF GovernanceTypeOK
<1>2. CallInv(c) /\ call[c] \in CallPhases
  BY DEF GovernanceInv, GovernanceTypeOK
<1>3. \A phase : Goto(c, phase) => call'[c] = phase
  BY DEF Goto, GovernanceTypeOK
<1>4. "provider_call_allowed" \in CallEvents /\ "provider_call_blocked" \in CallEvents
      /\ "provider_call_failed" \in CallEvents /\ "provider_call_completed" \in CallEvents
  BY DEF CallEvents
<1>5. CASE Refuse(c) \/ Unrecorded(c)
  <2>1. call'[c] = "denied"
    BY <1>3, <1>5 DEF Refuse, Unrecorded, Block
  <2> QED
    BY <2>1 DEF CallInv, Sent
<1>6. CASE Allow(c)
  <2> DEFINE event == CallEvent(c, "provider_call_allowed", n)
             next == Len(log[r]) + 1
  <2>1. /\ call'[c] = "transport"
        /\ Record(r, event)
        /\ number'[c] = n
        /\ callCount'[r] = n + 1
        /\ \A type \in CallEvents : Recorded(c, type) = {}
    BY <1>1, <1>2, <1>3, <1>6 DEF Allow, AppendReturns, CallInv, GovernanceTypeOK
  <2>2. /\ Recorded(c, "provider_call_allowed")' = {next}
        /\ Recorded(c, "provider_call_blocked")' = {}
        /\ Recorded(c, "provider_call_failed")' = {}
        /\ Recorded(c, "provider_call_completed")' = {}
        /\ log'[r][next] = event
    BY <1>1, <1>4, <2>1, OwnEvent
  <2>3. event.number = n
    BY DEF CallEvent
  <2>4. IsAllowed(c)'
    BY <2>1, <2>2, <2>3 DEF IsAllowed
  <2>5. number'[c] < callCount'[r]
    BY <1>1, <2>1
  <2> QED
    BY <2>1, <2>2, <2>4, <2>5 DEF CallInv
<1>7. CASE Ends(c) \/ CancelCall(c)
  <2>1. /\ call[c] = "transport"
        /\ UNCHANGED <<number, callCount>>
    BY <1>7 DEF Ends, TransportReturns, UnsafeOutput, Block, TransportFails, CancelCall
  <2>2. IsAllowed(c) /\ number'[c] < callCount'[r]
    BY <1>2, <2>1 DEF CallInv, Sent
  <2>3. \/ \E kind \in CallEvents : MayRecord(r, CallEvent(c, kind, n))
        \/ UNCHANGED log
    BY <1>4, <1>7, AppendsMayRecord
       DEF Ends, TransportReturns, UnsafeOutput, Block, TransportFails, CancelCall
  <2>4. IsAllowed(c)'
    <3>1. CASE UNCHANGED log
      BY <2>1, <2>2, <3>1 DEF IsAllowed, Recorded
    <3> QED
      BY <1>1, <2>1, <2>2, <2>3, <3>1, StaysAllowed
  <2>5. CASE call'[c] \in {"unsafe", "failed", "cancelled"}
    BY <2>2, <2>4, <2>5 DEF CallInv
  <2>6. CASE AppendReturns(r, CallEvent(c, "provider_call_completed", n)) /\ call'[c] = "returned"
    <3> DEFINE next == Len(log[r]) + 1
    <3>1. Record(r, CallEvent(c, "provider_call_completed", n))
      BY <2>6 DEF AppendReturns
    <3>2. /\ Recorded(c, "provider_call_allowed")' = Recorded(c, "provider_call_allowed")
          /\ Recorded(c, "provider_call_blocked")' = Recorded(c, "provider_call_blocked")
          /\ Recorded(c, "provider_call_failed")' = Recorded(c, "provider_call_failed")
          /\ next \in Recorded(c, "provider_call_completed")'
          /\ \A i \in Recorded(c, "provider_call_allowed") : i < next
      BY <1>1, <1>4, <3>1, OwnEvent
    <3>3. /\ Recorded(c, "provider_call_allowed") # {}
          /\ Recorded(c, "provider_call_blocked") = {}
          /\ Recorded(c, "provider_call_failed") = {}
      BY <1>2, <2>1 DEF CallInv
    <3> HIDE DEF next
    <3> QED
      BY <2>2, <2>4, <2>6, <3>2, <3>3 DEF CallInv
  <2> QED
    BY <1>3, <1>7, <2>5, <2>6
       DEF Ends, TransportReturns, UnsafeOutput, Block, TransportFails, CancelCall
<1> QED
  BY <1>5, <1>6, <1>7 DEF StepOfCall, Begins

(* The counter of a request only ever grows by the call it allows, whose   *)
(* number is what it was.                                                  *)
LEMMA CounterStep ==
    ASSUME GovernanceTypeOK, NEW c \in Calls, StepOfCall(c)
    PROVE  /\ \A d \in Calls \ {c} : call'[d] = call[d] /\ number'[d] = number[d]
           /\ \A s \in Requests : callCount'[s] \in {callCount[s], callCount[s] + 1}
           /\ \E event \in AuditEvents :
                  /\ event.type \in CallEvents => event.call = c
                  /\ MayRecord(RequestOf[c], event)
           /\ Sent(c)' => \/ Sent(c) /\ number'[c] = number[c]
                          \/ number'[c] = callCount[RequestOf[c]]
<1> DEFINE r == RequestOf[c]
           n == callCount[r]
<1>1. r \in Requests /\ n \in 0..MaxProviderCalls
  BY GovernanceAssumption DEF GovernanceTypeOK
<1>2. \A phase : Goto(c, phase) => /\ call'[c] = phase
                                   /\ \A d \in Calls \ {c} : call'[d] = call[d]
  BY DEF Goto, GovernanceTypeOK
<1>3. \A kind \in CallEvents : MayRecord(r, CallEvent(c, kind, n)) =>
        \E event \in AuditEvents :
            /\ event.type \in CallEvents => event.call = c
            /\ MayRecord(RequestOf[c], event)
  BY <1>1, EventTypes
<1>4. "provider_call_allowed" \in CallEvents /\ "provider_call_blocked" \in CallEvents
      /\ "provider_call_failed" \in CallEvents /\ "provider_call_completed" \in CallEvents
  BY DEF CallEvents
<1>5. CASE Refuse(c) \/ Unrecorded(c)
  BY <1>2, <1>3, <1>4, <1>5, AppendsMayRecord DEF Refuse, Unrecorded, Block, Sent
<1>6. CASE Allow(c)
  <2>1. /\ \A d \in Calls \ {c} : number'[d] = number[d]
        /\ number'[c] = n
        /\ \A s \in Requests : callCount'[s] \in {callCount[s], callCount[s] + 1}
    BY <1>6 DEF Allow, GovernanceTypeOK
  <2> QED
    BY <1>2, <1>3, <1>4, <1>6, <2>1, AppendsMayRecord DEF Allow
<1>7. CASE Ends(c) \/ CancelCall(c)
  <2>1. call[c] = "transport" /\ UNCHANGED <<number, callCount>>
    BY <1>7 DEF Ends, TransportReturns, UnsafeOutput, Block, TransportFails, CancelCall
  <2>2. \A d \in Calls \ {c} : call'[d] = call[d]
    BY <1>2, <1>7 DEF Ends, TransportReturns, UnsafeOutput, Block, TransportFails, CancelCall
  <2>3. \E kind \in CallEvents : MayRecord(r, CallEvent(c, kind, n))
    BY <1>4, <1>7, AppendsMayRecord
       DEF Ends, TransportReturns, UnsafeOutput, Block, TransportFails, CancelCall, MayRecord
  <2> QED
    BY <1>3, <2>1, <2>2, <2>3 DEF Sent
<1> QED
  BY <1>5, <1>6, <1>7 DEF StepOfCall, Begins

LEMMA GovernanceInvStep ==
    GovernanceTypeOK /\ GovernanceInv /\ [Next]_vars => GovernanceInv'
<1> SUFFICES ASSUME GovernanceTypeOK, GovernanceInv, [Next]_vars
             PROVE  GovernanceInv'
  OBVIOUS
<1>1. \A d \in Calls : CallInv(d) /\ RequestOf[d] \in Requests
  BY GovernanceAssumption DEF GovernanceInv
<1>2. CASE UNCHANGED <<log, callCount, call, number, failures>>
  BY <1>2 DEF GovernanceInv, CallInv, NumbersDiffer, Sent, IsAllowed, Recorded
<1>3. CASE \E r \in Requests : StepOfRequest(r)
  <2>1. PICK r \in Requests : StepOfRequest(r)
    BY <1>3
  <2>2. ASSUME NEW d \in Calls
        PROVE  CallInv(d)' /\ Sent(d)' = Sent(d)
    <3>1. ASSUME NEW type \in CallEvents
          PROVE  /\ Recorded(d, type)' = Recorded(d, type)
                 /\ \A i \in Recorded(d, type) : log'[RequestOf[d]][i] = log[RequestOf[d]][i]
      <4>1. CASE UNCHANGED log
        BY <4>1 DEF Recorded
      <4>2. CASE \E event \in AuditEvents :
                     event.type \notin CallEvents /\ MayRecord(r, event)
        BY <1>1, <4>2, OtherEvents
      <4> QED
        BY <2>1, <4>1, <4>2, AppendsMayRecord DEF StepOfRequest
    <3> QED
      BY <1>1, <2>1, <3>1, KeptCall DEF StepOfRequest
  <2> QED
    BY <2>1, <2>2 DEF StepOfRequest, GovernanceInv, NumbersDiffer
<1>4. CASE \E c \in Calls : StepOfCall(c)
  <2>1. PICK c \in Calls : StepOfCall(c)
    BY <1>4
  <2>2. ASSUME NEW d \in Calls \ {c}
        PROVE  CallInv(d)' /\ Sent(d)' = Sent(d) /\ number'[d] = number[d]
    <3>1. ASSUME NEW type \in CallEvents
          PROVE  /\ Recorded(d, type)' = Recorded(d, type)
                 /\ \A i \in Recorded(d, type) : log'[RequestOf[d]][i] = log[RequestOf[d]][i]
      <4>1. PICK event \in AuditEvents :
                /\ event.type \in CallEvents => event.call = c
                /\ MayRecord(RequestOf[c], event)
        BY <2>1, CounterStep
      <4> QED
        BY <1>1, <4>1, OtherEvents
    <3>2. /\ call'[d] = call[d] /\ number'[d] = number[d]
          /\ callCount'[RequestOf[d]] \in {callCount[RequestOf[d]], callCount[RequestOf[d]] + 1}
      BY <1>1, <2>1, CounterStep
    <3> QED
      BY <1>1, <3>1, <3>2, KeptCall
  <2>3. CallInv(c)'
    BY <2>1, CallStep
  <2>4. ASSUME NEW d \in Calls \ {c}, Sent(c)', Sent(d)', RequestOf[d] = RequestOf[c]
        PROVE  number'[d] # number'[c]
    <3>1. Sent(d) /\ number'[d] = number[d]
      BY <2>2, <2>4
    <3>2. number[d] < callCount[RequestOf[c]]
      BY <1>1, <2>4, <3>1 DEF CallInv
    <3>3. CASE Sent(c) /\ number'[c] = number[c]
      BY <2>4, <3>1, <3>3 DEF GovernanceInv, NumbersDiffer
    <3>4. CASE number'[c] = callCount[RequestOf[c]]
      <4>1. number[d] \in Nat /\ callCount[RequestOf[c]] \in Nat
        BY <1>1 DEF GovernanceTypeOK
      <4> QED
        BY <3>1, <3>2, <3>4, <4>1
    <3> QED
      BY <2>1, <2>4, <3>3, <3>4, CounterStep
  <2>5. NumbersDiffer'
    <3> SUFFICES ASSUME NEW d \in Calls, NEW e \in Calls, d # e,
                        Sent(d)', Sent(e)', RequestOf[d] = RequestOf[e]
                 PROVE  number'[d] # number'[e]
      BY DEF NumbersDiffer
    <3>1. CASE d = c \/ e = c
      BY <2>4, <3>1
    <3>2. CASE d # c /\ e # c
      BY <2>2, <3>2 DEF GovernanceInv, NumbersDiffer
    <3> QED
      BY <3>1, <3>2
  <2> QED
    BY <2>2, <2>3, <2>5 DEF GovernanceInv
<1> QED
  BY <1>2, <1>3, <1>4, GovernanceSteps DEF vars, governance

LEMMA GovernanceInvariant == Spec => [](GovernanceTypeOK /\ GovernanceInv)
<1>1. Init => GovernanceTypeOK /\ GovernanceInv
  <2> SUFFICES ASSUME Init
               PROVE  GovernanceTypeOK /\ GovernanceInv
    OBVIOUS
  <2>1. GovernanceTypeOK
    <3>1. <<>> \in Seq(AuditEvents) /\ "idle" \in CallPhases
      BY DEF CallPhases
    <3>2. 0 \in 0..MaxProviderCalls /\ 0 \in 0..MaxFailures
      BY GovernanceAssumption
    <3> QED
      BY <3>1, <3>2 DEF Init, GovernanceInit, GovernanceTypeOK
  <2>2. \A c \in Calls : call[c] = "idle" /\ log[RequestOf[c]] = <<>>
    BY GovernanceAssumption DEF Init, GovernanceInit
  <2>3. \A c \in Calls, type \in CallEvents : Recorded(c, type) = {}
    BY <2>2 DEF Recorded
  <2> QED
    BY <2>1, <2>2, <2>3 DEF GovernanceInv, CallInv, NumbersDiffer, Sent
<1>2. GovernanceTypeOK /\ GovernanceInv /\ [Next]_vars => (GovernanceTypeOK /\ GovernanceInv)'
  BY GovernanceTypeStep, GovernanceInvStep
<1> QED
  BY <1>1, <1>2, PTL DEF Spec

(* However many requests run and however many of their tasks call at once, *)
(* every governed call a provider saw has a number of its own below the    *)
(* limit of the policy.  Inductive: a numbered call has its allowed event in the    *)
(* log, and a number below the counter of its request.                     *)
THEOREM BudgetHolds == Spec => []WithinBudget
<1>1. GovernanceTypeOK /\ GovernanceInv => WithinBudget
  <2> SUFFICES ASSUME GovernanceTypeOK, GovernanceInv, NEW c \in Calls, Sent(c)
               PROVE  /\ IsAllowed(c)
                      /\ number[c] < MaxProviderCalls
                      /\ \A d \in Calls \ {c} :
                           (Sent(d) /\ RequestOf[d] = RequestOf[c]) => number[d] # number[c]
    BY DEF WithinBudget
  <2>1. IsAllowed(c) /\ number[c] < callCount[RequestOf[c]]
    BY DEF GovernanceInv, CallInv
  <2>2. /\ callCount[RequestOf[c]] \in 0..MaxProviderCalls
        /\ number[c] \in Nat /\ MaxProviderCalls \in Nat
    BY GovernanceAssumption DEF GovernanceTypeOK
  <2>3. number[c] < MaxProviderCalls
    BY <2>1, <2>2
  <2> QED
    BY <2>1, <2>3 DEF GovernanceInv, NumbersDiffer
<1> QED
  BY <1>1, GovernanceInvariant, PTL

(* No governed call starts its transport before its allowed event, and none *)
(* returns a result before its completed event, whatever failed to be      *)
(* recorded in between.  The summarizer's calls are not governed.          *)
THEOREM CallsAreAccountedFor == Spec => []CallsAreAudited
<1>1. GovernanceInv => CallsAreAudited
  BY DEF GovernanceInv, CallInv, CallsAreAudited
<1> QED
  BY <1>1, GovernanceInvariant, PTL

-----------------------------------------------------------------------------
(* The two together. *)

RequestTypeOK ==
    request \in [Requests -> RequestPhases] /\ summary \in [Requests -> SummaryPhases]

(* Every reachable state of the runtime is well typed.                     *)
THEOREM RuntimeIsTyped == Spec => []TypeOK
<1>1. Init => RequestTypeOK
  BY DEF Init, RequestTypeOK, RequestPhases, SummaryPhases
<1>2. RequestTypeOK /\ [Next]_vars => RequestTypeOK'
  BY DEF Next, Lifespan, RequestStep, Refused, Admit, Start, Complete, Release, ProviderCall, Move,
         Summarize, BeginSummary, SendSummary, EndSummary, Interrupt, PutSummary,
         RequestTypeOK, RequestPhases, SummaryPhases, vars
<1>3. Spec => []RequestTypeOK
  BY <1>1, <1>2, PTL DEF Spec
<1> QED
  BY <1>3, LifecycleInvariant, GovernanceInvariant, PTL DEF TypeOK, RequestTypeOK

(* The sink takes events exactly while the lifespan holds it open.         *)
SinkMatches == sinkOpen = ("audit" \in live)

(* The log of a request names its completed workflow as soon as it can be  *)
(* summarized.                                                             *)
SummariesFollow ==
    \A r \in Requests :
        request[r] = "completed" \/ summary[r] # "none" => IsCompleted(r)

(* A log only grows, so it keeps naming a completed workflow.              *)
LEMMA LogsGrow ==
    ASSUME GovernanceTypeOK, NEW s \in Requests, NEW event \in AuditEvents,
           MayRecord(s, event),
           NEW r \in Requests, IsCompleted(r)
    PROVE  IsCompleted(r)'
<1>1. log[r] \in Seq(AuditEvents)
  BY DEF GovernanceTypeOK
<1>2. log'[r] \in {log[r], Append(log[r], event)}
  BY DEF MayRecord, Record, GovernanceTypeOK
<1>3. PICK i \in DOMAIN log[r] : log[r][i].type = "workflow_completed"
  BY DEF IsCompleted
<1>4. i \in DOMAIN Append(log[r], event) /\ Append(log[r], event)[i] = log[r][i]
  BY <1>1, <1>3
<1> QED
  BY <1>2, <1>3, <1>4 DEF IsCompleted

(* What is recorded as completed is in the log.                            *)
LEMMA CompletionIsRecorded ==
    ASSUME GovernanceTypeOK, NEW r \in Requests,
           AppendReturns(r, RequestEvent(r, "workflow_completed"))
    PROVE  IsCompleted(r)'
<1> DEFINE event == RequestEvent(r, "workflow_completed")
<1>1. log[r] \in Seq(AuditEvents) /\ event \in AuditEvents
  BY EventTypes DEF GovernanceTypeOK, RequestEvents
<1>2. event.type = "workflow_completed"
  BY DEF RequestEvent
<1>3. log'[r] = Append(log[r], event)
  BY DEF AppendReturns, Record, GovernanceTypeOK
<1> HIDE DEF event
<1>4. /\ Len(log[r]) + 1 \in DOMAIN Append(log[r], event)
      /\ Append(log[r], event)[Len(log[r]) + 1] = event
  BY <1>1
<1> QED
  BY <1>2, <1>3, <1>4 DEF IsCompleted

LEMMA SummariesStep ==
    GovernanceTypeOK /\ RequestTypeOK /\ SummariesFollow /\ [Next]_vars => SummariesFollow'
<1> SUFFICES ASSUME GovernanceTypeOK, RequestTypeOK, SummariesFollow, [Next]_vars,
                    NEW r \in Requests,
                    request'[r] = "completed" \/ summary'[r] # "none"
             PROVE  IsCompleted(r)'
  BY DEF SummariesFollow
<1>1. IsCompleted(r) => IsCompleted(r)'
  <2>1. CASE UNCHANGED log
    BY <2>1 DEF IsCompleted
  <2>2. CASE \E s \in Requests : StepOfRequest(s)
    BY <2>1, <2>2, LogsGrow, AppendsMayRecord DEF StepOfRequest
  <2>3. CASE \E c \in Calls : StepOfCall(c)
    <3>1. PICK c \in Calls : StepOfCall(c)
      BY <2>3
    <3>2. RequestOf[c] \in Requests
      BY GovernanceAssumption
    <3> QED
      BY <3>1, <3>2, CounterStep, LogsGrow
  <2> QED
    BY <2>1, <2>2, <2>3, GovernanceSteps DEF vars, governance
<1>2. CASE request[r] = "completed" \/ summary[r] # "none"
  BY <1>1, <1>2 DEF SummariesFollow
<1>3. CASE request[r] # "completed" /\ summary[r] = "none"
  <2>1. CASE \E s \in Requests : Complete(s)
    <3>1. PICK s \in Requests : Complete(s)
      BY <2>1
    <3>2. s = r /\ AppendReturns(r, RequestEvent(r, "workflow_completed"))
      BY <1>3, <3>1 DEF Complete, Move, RequestTypeOK
    <3> QED
      BY <3>2, CompletionIsRecorded
  <2>2. CASE ~\E s \in Requests : Complete(s)
    BY <1>3, <2>2 DEF Next, Lifespan, RequestStep, Refused, Admit, Start, Release, ProviderCall, Move,
         Summarize, BeginSummary, SendSummary, EndSummary, Interrupt, PutSummary, RequestTypeOK, vars
  <2> QED
    BY <2>1, <2>2
<1> QED
  BY <1>2, <1>3

(* Once the audit log is closed no governed payload reaches a provider and *)
(* no answer a caller, although the requests go on: an append that         *)
(* returned stands before every transport and every answer, and the sink   *)
(* of the requests is the resource the lifespan closes.  A summary may     *)
(* still be sent, for a request whose completion is in the log and for no  *)
(* other.                                                                  *)
THEOREM OnlySummariesLeaveAfterTheLog == Spec => OnlySummariesLeaveUnaudited
<1>1. Init => SinkMatches /\ SummariesFollow
  <2>1. Init => sinkOpen = FALSE /\ ("audit" \in live) = FALSE
    BY DEF Init, LifecycleInit, GovernanceInit
  <2> QED
    BY <2>1 DEF SinkMatches, SummariesFollow, Init
<1>2. SinkMatches /\ [Next]_vars => SinkMatches'
  BY DEF SinkMatches, Next, Lifespan, RequestStep, Refused, Admit, Start, Complete, Release, ProviderCall,
         Summarize, BeginSummary, SendSummary, EndSummary, Interrupt,
         Begins, Ends, Refuse, Allow, Unrecorded, TransportReturns, UnsafeOutput, TransportFails,
         CancelCall, Block, lifecycle, governance, vars
<1>3. SinkMatches /\ SummariesFollow /\ GovernanceTypeOK /\ RequestTypeOK /\ [Next]_vars => [LeavesOnlySummaries]_vars
  <2> SUFFICES ASSUME SinkMatches, SummariesFollow, GovernanceTypeOK, RequestTypeOK, Next
               PROVE  LeavesOnlySummaries
    OBVIOUS
  <2>1. ~sinkOpen => \A r, event : ~AppendReturns(r, event)
    BY DEF AppendReturns
  <2>2. ASSUME ~sinkOpen, NEW c \in Calls, StepOfCall(c), NEW d \in Calls, Sent(d)'
        PROVE  Sent(d)
    <3>1. \A phase : Goto(c, phase) => call'[c] = phase /\ (d # c => call'[d] = call[d])
      BY DEF Goto, GovernanceTypeOK
    <3> QED
      BY <2>1, <2>2, <3>1
         DEF StepOfCall, Begins, Ends, Refuse, Allow, Unrecorded, TransportReturns, UnsafeOutput,
             TransportFails, CancelCall, Block, Sent
  <2>3. ~sinkOpen => \A d \in Calls : Sent(d)' => Sent(d)
    BY <2>2, GovernanceSteps DEF StepOfRequest, Sent
  <2>4. ~sinkOpen => \A r \in Requests : request'[r] = "answered" => request[r] = "answered"
    BY <2>1 DEF Next, Lifespan, RequestStep, Refused, Admit, Start, Complete, Release, ProviderCall, Move,
         Summarize, BeginSummary, SendSummary, EndSummary, Interrupt, RequestTypeOK
  <2>5. ASSUME NEW r \in Requests, summary'[r] = "sent", summary[r] # "sent"
        PROVE  IsCompleted(r)
    <3>1. summary[r] = "thread"
      BY <2>5 DEF Next, Lifespan, RequestStep, Refused, Admit, Start, Complete, Release, ProviderCall,
         Summarize, BeginSummary, SendSummary, EndSummary, Interrupt, PutSummary, RequestTypeOK
    <3> QED
      BY <3>1 DEF SummariesFollow
  <2> QED
    BY <2>3, <2>4, <2>5 DEF SinkMatches, LeavesOnlySummaries
<1>4. Spec => [](GovernanceTypeOK /\ RequestTypeOK)
  BY GovernanceInvariant, RuntimeIsTyped, PTL DEF TypeOK, RequestTypeOK
<1> QED
  BY <1>1, <1>2, <1>3, <1>4, SummariesStep, PTL DEF Spec, OnlySummariesLeaveUnaudited

=============================================================================
