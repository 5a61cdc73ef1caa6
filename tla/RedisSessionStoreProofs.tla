----------------------- MODULE RedisSessionStoreProofs -----------------------
(***************************************************************************)
(* Proofs about RedisSessionStore, for any number of clients and retries,  *)
(* any turns, any memory policy and any bounds: it implements SessionStore *)
(* with heldBar.                                                           *)
(***************************************************************************)
EXTENDS RedisSessionStore, FiniteSetTheorems, TLAPS

-----------------------------------------------------------------------------
(* The record of a call, the session and the snapshots held, by shape.     *)

Fields == {"call", "phase", "attempt", "dirty", "fetched", "result"}
SessionFields == {"version", "turns", "summary", "life", "era", "history", "dropped"}
IsRecord(r) == r = [x \in Fields |-> r[x]]

Shape ==
    /\ session = [x \in SessionFields |-> session[x]]
    /\ held = [c \in Clients |-> held[c]]
    /\ op = [c \in Clients |-> op[c]]
    /\ \A c \in Clients : IsRecord(op[c])

IsAppend(c) ==
    /\ \E t \in Turns : op[c].call = AppendCall(t)
    /\ held[c] # None
    /\ held[c].version < MaxVersion

IsCompact(c) ==
    /\ \E n \in CompactablePrefixes(held[c]), text \in SummaryTexts :
         op[c].call = CompactCall(n, RollingSummary(held[c], n, text),
                                  IdsOf(SubSeq(held[c].turns, 1, n)))
    /\ held[c] # None
    /\ held[c].version < MaxVersion

IsClear(c) == op[c].call = ClearCall /\ held[c] # None

(* A call goes on with the snapshot it began with.  What it fetched is the *)
(* session until the key is modified, and it only gets to EXEC when the    *)
(* checks found something to write.                                        *)
CallInv(c) ==
    /\ op[c].phase \in Phases
    /\ op[c].phase = "idle" => op[c] = Idle
    /\ op[c].phase # "idle" =>
         \/ op[c].call = ReadCall /\ op[c].phase \in {"get", "ttl"}
         \/ IsAppend(c) \/ IsCompact(c) \/ IsClear(c)
    /\ op[c].phase \in {"ttl", "exec"} /\ ~op[c].dirty => op[c].fetched = SnapshotOf(session)
    /\ op[c].phase = "exec" =>
         /\ ~ReturnsFetched(c, op[c].fetched)
         /\ IsWritable(op[c].call, op[c].fetched, held[c].version)

(* The clears that have not been done yet. *)
Clearing == {c \in Clients : op[c].call = ClearCall /\ op[c].phase # "reply"}

EraInv == session.era \in Nat /\ session.era + Cardinality(Clearing) <= MaxEra

Inv == Shape /\ EraInv /\ \A c \in Clients : CallInv(c)

-----------------------------------------------------------------------------
(* The mapping. *)

LEMMA BarIs ==
    ASSUME NEW c \in Clients
    PROVE  /\ op[c].phase = "reply" => heldBar[c] = op[c].result
           /\ op[c].phase = "ttl" /\ ReturnsFetched(c, op[c].fetched) => heldBar[c] = op[c].fetched
           /\ op[c].phase = "ttl" /\ ~ReturnsFetched(c, op[c].fetched) => heldBar[c] = held[c]
           /\ op[c].phase \notin {"reply", "ttl"} => heldBar[c] = held[c]
BY DEF heldBar

(* The mapping of a client whose call did not move.                        *)
Same(d) ==
    /\ held'[d] = held[d]
    /\ op'[d].call = op[d].call
    /\ op'[d].phase = op[d].phase
    /\ op'[d].fetched = op[d].fetched
    /\ op'[d].result = op[d].result

LEMMA BarStays ==
    ASSUME NEW d \in Clients, Same(d)
    PROVE  heldBar'[d] = heldBar[d]
<1>1. ReturnsFetched(d, op[d].fetched) <=> ReturnsFetched(d, op[d].fetched)'
  BY DEF Same, ReturnsFetched, IsRetry, IsTurnRetry, IsSummaryRetry
<1> QED
  BY <1>1 DEF Same, heldBar

LEMMA BarMoves ==
    ASSUME NEW c \in Clients, \A d \in Clients \ {c} : Same(d)
    PROVE  heldBar' = [heldBar EXCEPT ![c] = heldBar'[c]]
<1>1. \A d \in Clients \ {c} : heldBar'[d] = heldBar[d]
  BY BarStays
<1>2. heldBar = [d \in Clients |-> heldBar[d]] /\ heldBar' = [d \in Clients |-> heldBar'[d]]
  BY DEF heldBar
<1> QED
  BY <1>1, <1>2

(* A step that does nothing for SessionStore, or ends a call without a     *)
(* snapshot.                                                               *)
LEMMA BarIsQuiet ==
    ASSUME NEW c \in Clients, \A d \in Clients \ {c} : Same(d), session' = session,
           heldBar'[c] \in {heldBar[c], None}
    PROVE  [Atomic!Next]_Atomic!vars
<1>1. heldBar' = [heldBar EXCEPT ![c] = heldBar'[c]]
  BY BarMoves
<1>2. CASE heldBar'[c] = heldBar[c]
  <2>1. heldBar' = heldBar
    BY <1>1, <1>2 DEF heldBar
  <2> QED
    BY <2>1 DEF Atomic!vars
<1>3. CASE heldBar'[c] = None /\ heldBar[c] # None
  BY <1>1, <1>3 DEF Atomic!Next, Atomic!Forget, Atomic!Return
<1> QED
  BY <1>2, <1>3

(* SessionStore's operators on sessions are those of SessionMemory.        *)
LEMMA SameMemory ==
    /\ Atomic!SnapshotOf(session) = SnapshotOf(session)
    /\ \A e : Atomic!EmptySession(e) = EmptySession(e)
    /\ Atomic!IsLive(session) = IsLive(session)
    /\ \A turns, t : /\ Atomic!IsTurnRetry(turns, t) <=> IsTurnRetry(turns, t)
                     /\ Atomic!Reused(turns, t) <=> Reused(turns, t)
    /\ \A turns : Atomic!IdsOf(turns) = IdsOf(turns)
    /\ \A s, t : Atomic!Appended(s, t) = Appended(s, t)
    /\ \A s, summary, n : Atomic!Compacted(s, summary, n) = Compacted(s, summary, n)
    /\ \A s, summary : Atomic!IsSummaryRetry(s, summary) <=> IsSummaryRetry(s, summary)
    /\ \A snap : Atomic!CompactablePrefixes(snap) = CompactablePrefixes(snap)
    /\ \A snap, n, text : Atomic!RollingSummary(snap, n, text) = RollingSummary(snap, n, text)
<1>1. \A snap : Atomic!PreviousId(snap) = PreviousId(snap)
                /\ Atomic!PreviouslyCovered(snap) = PreviouslyCovered(snap)
  BY DEF Atomic!PreviousId, PreviousId, Atomic!PreviouslyCovered, PreviouslyCovered
<1>2. \A turns : Atomic!IdsOf(turns) = IdsOf(turns)
  BY DEF Atomic!IdsOf, IdsOf
<1>3. \A turns, n : Atomic!Newest(turns, n) = Newest(turns, n)
  BY DEF Atomic!Newest, Newest
<1>4. \A snap, n, text : Atomic!RollingSummary(snap, n, text) = RollingSummary(snap, n, text)
  BY <1>1, <1>2 DEF Atomic!RollingSummary, RollingSummary
<1>5. \A s, t : Atomic!Appended(s, t) = Appended(s, t)
  BY <1>3 DEF Atomic!Appended, Appended
<1>6. \A s, summary, n : Atomic!Compacted(s, summary, n) = Compacted(s, summary, n)
  BY DEF Atomic!Compacted, Compacted
<1>7. \A turns, t : /\ Atomic!IsTurnRetry(turns, t) <=> IsTurnRetry(turns, t)
                    /\ Atomic!Reused(turns, t) <=> Reused(turns, t)
  BY DEF Atomic!IsTurnRetry, IsTurnRetry, Atomic!Reused, Reused, Atomic!SameTurn, SameTurn
<1>8. \A s, summary : Atomic!IsSummaryRetry(s, summary) <=> IsSummaryRetry(s, summary)
  BY DEF Atomic!IsSummaryRetry, IsSummaryRetry
<1>9. \A snap : Atomic!CompactablePrefixes(snap) = CompactablePrefixes(snap)
  BY DEF Atomic!CompactablePrefixes, CompactablePrefixes
<1>10. /\ Atomic!SnapshotOf(session) = SnapshotOf(session)
       /\ \A e : Atomic!EmptySession(e) = EmptySession(e)
       /\ Atomic!IsLive(session) = IsLive(session)
  BY DEF Atomic!SnapshotOf, SnapshotOf, Atomic!EmptySession, EmptySession, Atomic!IsLive, IsLive
<1> QED
  BY <1>2, <1>4, <1>5, <1>6, <1>7, <1>8, <1>9, <1>10

(* The checks of a compaction only look at what a snapshot has.            *)
LEMMA SameValidity ==
    ASSUME NEW summary, NEW ids, NEW expected
    PROVE  Atomic!ValidCompaction(session, summary, ids, expected)
             <=> ValidCompaction(SnapshotOf(session), summary, ids, expected)
BY DEF Atomic!ValidCompaction, ValidCompaction, SnapshotOf, Atomic!IsIdentityConflict, IsIdentityConflict,
       Atomic!ContinuesLineage, ContinuesLineage, Atomic!IsOldestStrictPrefix, IsOldestStrictPrefix,
       Atomic!PreviousId, PreviousId, Atomic!PreviouslyCovered, PreviouslyCovered

-----------------------------------------------------------------------------
(* The two steps that SessionStore sees. *)

(* A call that will return the session it sees takes effect.               *)
LEMMA TakesEffect ==
    ASSUME NEW c \in Clients, CallInv(c), op[c].phase = "get",
           ReturnsFetched(c, SnapshotOf(session)), session' = session,
           heldBar' = [heldBar EXCEPT ![c] = SnapshotOf(session)]
    PROVE  Atomic!Next
<1>1. heldBar[c] = held[c]
  BY BarIs
<1>2. Atomic!Return(c, Atomic!SnapshotOf(session))
  BY SameMemory DEF Atomic!Return
<1>3. CASE op[c].call = ReadCall
  BY <1>2, <1>3 DEF Atomic!Next, Atomic!Read
<1>4. CASE IsAppend(c)
  <2>1. PICK t \in Turns : op[c].call = AppendCall(t)
    BY <1>4 DEF IsAppend
  <2>2. IsTurnRetry(session.turns, t)
    BY <2>1 DEF ReturnsFetched, IsRetry, AppendCall, SnapshotOf
  <2>3. Atomic!AppendRetry(c, t)
    BY <1>1, <1>2, <1>4, <2>2, SameMemory DEF Atomic!AppendRetry, IsAppend
  <2> QED
    BY <2>3 DEF Atomic!Next, Atomic!AppendTurn
<1>5. CASE IsCompact(c)
  <2>1. PICK n \in CompactablePrefixes(held[c]), text \in SummaryTexts :
             op[c].call = CompactCall(n, RollingSummary(held[c], n, text),
                                      IdsOf(SubSeq(held[c].turns, 1, n)))
    BY <1>5 DEF IsCompact
  <2>2. IsSummaryRetry(session, RollingSummary(held[c], n, text))
    BY <2>1 DEF ReturnsFetched, IsRetry, CompactCall, SnapshotOf, IsSummaryRetry
  <2>3. Atomic!CompactPrefix(c, n, text)
    BY <1>1, <1>2, <2>2, SameMemory DEF Atomic!CompactPrefix
  <2>4. Atomic!Compact(c)
    BY <1>1, <1>5, <2>3, SameMemory DEF Atomic!Compact, IsCompact
  <2> QED
    BY <2>4 DEF Atomic!Next
<1>6. CASE IsClear(c)
  <2>1. session.version = 0 /\ held[c].version = session.version
    BY <1>6 DEF IsClear, ReturnsFetched, IsRetry, ClearCall, SnapshotOf
  <2>2. Atomic!Return(c, Atomic!SnapshotOf(session)')
    BY <1>2 DEF Atomic!Return, Atomic!SnapshotOf
  <2>3. ~(session.version > 0)
    BY <2>1
  <2>4. Atomic!ClearSession(c)
    BY <1>1, <1>6, <2>1, <2>2, <2>3 DEF Atomic!ClearSession, IsClear
  <2> QED
    BY <2>4 DEF Atomic!Next, Atomic!Clear
<1> QED
  BY <1>3, <1>4, <1>5, <1>6 DEF CallInv

(* A transaction that is executed is one write of SessionStore.            *)
LEMMA Writes ==
    ASSUME NEW c \in Clients, Shape, EraInv, CallInv(c), op[c].phase = "exec", ~op[c].dirty,
           session' = Written(op[c].call, op[c].fetched),
           heldBar' = [heldBar EXCEPT ![c] = SnapshotOf(session')],
           IsClear(c) => session.era < MaxEra
    PROVE  Atomic!Next
<1>1. heldBar[c] = held[c]
  BY BarIs
<1>2. op[c].fetched = SnapshotOf(session)
  BY DEF CallInv
<1>3. /\ ~ReturnsFetched(c, SnapshotOf(session))
      /\ IsWritable(op[c].call, SnapshotOf(session), held[c].version)
  BY <1>2 DEF CallInv
<1>4. Atomic!Return(c, Atomic!SnapshotOf(session)')
  BY DEF Atomic!Return, Atomic!SnapshotOf, SnapshotOf
<1>5. [session EXCEPT !.version = session.version, !.turns = session.turns,
                      !.summary = session.summary] = session
  BY DEF Shape, SessionFields
<1>6. CASE IsAppend(c)
  <2>1. PICK t \in Turns : op[c].call = AppendCall(t)
    BY <1>6 DEF IsAppend
  <2>2. ~Reused(session.turns, t) /\ held[c].version = session.version
    BY <1>3, <2>1 DEF IsWritable, AppendCall, SnapshotOf
  <2>3. session' = Appended(session, t)
    BY <1>2, <1>5, <2>1 DEF Written, AppendCall, SnapshotOf
  <2>4. Atomic!AppendNew(c, t)
    BY <1>1, <1>4, <1>6, <2>2, <2>3, SameMemory DEF Atomic!AppendNew, IsAppend, Atomic!SnapshotOf, Atomic!Return
  <2> QED
    BY <2>4 DEF Atomic!Next, Atomic!AppendTurn
<1>7. CASE IsCompact(c)
  <2>1. PICK n \in CompactablePrefixes(held[c]), text \in SummaryTexts :
             op[c].call = CompactCall(n, RollingSummary(held[c], n, text),
                                      IdsOf(SubSeq(held[c].turns, 1, n)))
    BY <1>7 DEF IsCompact
  <2> DEFINE summary == RollingSummary(held[c], n, text)
             ids == IdsOf(SubSeq(held[c].turns, 1, n))
  <2> HIDE DEF summary, ids
  <2>2. op[c].call = CompactCall(n, summary, ids)
    BY <2>1 DEF summary, ids
  <2>3. ~IsSummaryRetry(session, summary)
    BY <1>3, <2>2 DEF ReturnsFetched, IsRetry, CompactCall, ClearCall, SnapshotOf, IsSummaryRetry
  <2>4. ValidCompaction(SnapshotOf(session), summary, ids, held[c].version)
    BY <1>3, <2>2 DEF IsWritable, CompactCall
  <2>5. Atomic!ValidCompaction(session, summary, ids, held[c].version)
    BY <2>4, SameValidity
  <2>6. held[c].version = session.version
    BY <2>4 DEF ValidCompaction, SnapshotOf
  <2>7. session' = Compacted(session, summary, n)
    BY <1>2, <1>5, <2>2 DEF Written, CompactCall, SnapshotOf
  <2>8. Atomic!CompactPrefix(c, n, text)
    BY <1>1, <1>4, <1>7, <2>3, <2>5, <2>6, <2>7, SameMemory
       DEF Atomic!CompactPrefix, IsCompact, summary, ids, Atomic!SnapshotOf, Atomic!Return
  <2>9. Atomic!Compact(c)
    BY <1>1, <1>7, <2>8, SameMemory DEF Atomic!Compact, IsCompact
  <2> QED
    BY <2>9 DEF Atomic!Next
<1>8. CASE IsClear(c)
  <2>1. held[c].version = session.version /\ session.version # 0
    BY <1>3, <1>8 DEF IsClear, ReturnsFetched, IsRetry, IsWritable, ClearCall, SnapshotOf
  <2>2. session' = EmptySession(session.era + 1)
    BY <1>8 DEF Written, IsClear, ClearCall
  <2>3. Atomic!ClearSession(c)
    BY <1>1, <1>4, <1>8, <2>1, <2>2, SameMemory DEF Atomic!ClearSession, IsClear, Atomic!SnapshotOf, Atomic!Return
  <2> QED
    BY <2>3 DEF Atomic!Next, Atomic!Clear
<1> QED
  BY <1>6, <1>7, <1>8 DEF CallInv

-----------------------------------------------------------------------------
(* The invariant. *)

LEMMA OthersStand ==
    ASSUME Shape, NEW d \in Clients, CallInv(d), held'[d] = held[d],
           \/ op'[d] = op[d] /\ session' = session
           \/ op'[d] = IF op[d].phase \in {"get", "ttl", "exec"}
                       THEN [op[d] EXCEPT !.dirty = TRUE] ELSE op[d]
    PROVE  Same(d) /\ CallInv(d)' /\ IsRecord(op[d])'
<1>0. IsRecord(op[d])
  BY DEF Shape
<1>1. Same(d) /\ IsRecord(op[d])'
  BY <1>0 DEF Same, IsRecord, Fields
<1>2. op[d].phase = "idle" => op'[d] = op[d]
  OBVIOUS
<1>3. op[d].phase \in {"ttl", "exec"} /\ ~op'[d].dirty => op'[d] = op[d] /\ session' = session
  BY <1>0 DEF IsRecord, Fields
<1>4. /\ IsAppend(d)' <=> IsAppend(d)
      /\ IsCompact(d)' <=> IsCompact(d)
      /\ IsClear(d)' <=> IsClear(d)
  BY <1>1 DEF Same, IsAppend, IsCompact, IsClear
<1>5. ReturnsFetched(d, op[d].fetched)' <=> ReturnsFetched(d, op[d].fetched)
  BY <1>1 DEF Same, ReturnsFetched, IsRetry, IsTurnRetry, IsSummaryRetry
<1>6. IsWritable(op[d].call, op[d].fetched, held[d].version)'
        <=> IsWritable(op[d].call, op[d].fetched, held[d].version)
  BY <1>1 DEF Same, IsWritable
<1>7. CallInv(d)'
  BY <1>1, <1>2, <1>3, <1>4, <1>5, <1>6 DEF CallInv, Same, SnapshotOf
<1> QED
  BY <1>1, <1>7

LEMMA EraStands ==
    ASSUME EraInv, session'.era = session.era, Clearing' \subseteq Clearing
    PROVE  EraInv'
<1>1. IsFiniteSet(Clearing)
  BY ClientsAssumption, FS_Subset DEF Clearing
<1>2. Cardinality(Clearing') <= Cardinality(Clearing) /\ Cardinality(Clearing') \in Nat
      /\ Cardinality(Clearing) \in Nat
  BY <1>1, FS_Subset, FS_CardinalityType
<1> QED
  BY <1>2, BoundsAssumption DEF EraInv

(* A step of one client that leaves the key alone.                         *)
LEMMA LocalStep ==
    ASSUME Inv, NEW c \in Clients, NEW r, NEW h, session' = session,
           op' = [op EXCEPT ![c] = r], held' = [held EXCEPT ![c] = h], IsRecord(r)
    PROVE  /\ op'[c] = r
           /\ held'[c] = h
           /\ \A d \in Clients \ {c} : Same(d)
           /\ r.call # ClearCall \/ c \in Clearing => EraInv'
           /\ EraInv' /\ CallInv(c)' => Inv'
<1>1. Shape' /\ op'[c] = r /\ held'[c] = h
  BY DEF Inv, Shape, IsRecord
<1>2. ASSUME NEW d \in Clients \ {c} PROVE op'[d] = op[d] /\ held'[d] = held[d]
  BY DEF Inv, Shape
<1>3. \A d \in Clients \ {c} : Same(d) /\ CallInv(d)'
  BY <1>2, OthersStand DEF Inv
<1>4. r.call # ClearCall \/ c \in Clearing => Clearing' \subseteq Clearing
  BY <1>1, <1>3 DEF Clearing, Same
<1>5. r.call # ClearCall \/ c \in Clearing => EraInv'
  BY <1>4, EraStands DEF Inv
<1> QED
  BY <1>1, <1>3, <1>5 DEF Inv

LEMMA IdleShape ==
    /\ IsRecord(Idle)
    /\ Idle.phase = "idle" /\ Idle.call = NoCall
    /\ NoCall # ClearCall
BY DEF Idle, NoCall, ClearCall, IsRecord, Fields

(* A call is over. *)
LEMMA CallEnds ==
    ASSUME Inv, NEW c \in Clients, NEW h, session' = session,
           op' = [op EXCEPT ![c] = Idle], held' = [held EXCEPT ![c] = h]
    PROVE  Inv' /\ heldBar'[c] = h /\ \A d \in Clients \ {c} : Same(d)
<1>1. /\ op'[c] = Idle /\ held'[c] = h
      /\ \A d \in Clients \ {c} : Same(d)
      /\ EraInv' /\ CallInv(c)' => Inv'
      /\ EraInv'
  BY LocalStep, IdleShape
<1>2. CallInv(c)'
  BY <1>1, IdleShape DEF CallInv, Phases
<1>3. heldBar'[c] = h
  BY <1>1, IdleShape DEF heldBar
<1> QED
  BY <1>1, <1>2, <1>3

Follows == Inv' /\ [Atomic!Next]_Atomic!vars

-----------------------------------------------------------------------------
(* Steps that SessionStore does not see. *)

LEMMA CallsOfAKind ==
    ASSUME NEW c \in Clients
    PROVE  /\ IsAppend(c) => op[c].call.kind = "append" /\ op[c].call # ClearCall
           /\ IsCompact(c) => op[c].call.kind = "compact" /\ op[c].call # ClearCall
           /\ IsClear(c) => op[c].call.kind = "clear"
           /\ op[c].call = ReadCall => op[c].call.kind = "read" /\ op[c].call # ClearCall
<1>1. /\ \A t : AppendCall(t).kind = "append"
      /\ \A n, summary, ids : CompactCall(n, summary, ids).kind = "compact"
      /\ ClearCall.kind = "clear"
      /\ ReadCall.kind = "read"
  BY DEF AppendCall, CompactCall, ClearCall, ReadCall
<1>2. IsCompact(c) => op[c].call.kind = "compact"
  <2>1. ASSUME IsCompact(c) PROVE \E n, summary, ids : op[c].call = CompactCall(n, summary, ids)
    BY <2>1 DEF IsCompact
  <2> QED
    BY <1>1, <2>1
<1>3. IsAppend(c) => op[c].call.kind = "append"
  BY <1>1 DEF IsAppend
<1>4. IsClear(c) => op[c].call.kind = "clear"
  BY <1>1 DEF IsClear
<1> QED
  BY <1>1, <1>2, <1>3, <1>4

(* A call begins with the snapshot its client holds.                       *)
LEMMA Begins ==
    ASSUME Inv, NEW c \in Clients, NEW call, NEW phase, Begin(c, call, phase)
    PROVE  /\ op'[c].call = call /\ op'[c].phase = phase /\ held' = held /\ session' = session
           /\ op[c] = Idle
           /\ \A d \in Clients \ {c} : Same(d)
           /\ call # ClearCall => EraInv'
           /\ EraInv' /\ CallInv(c)' => Inv'
           /\ phase \in {"watch", "get"} => [Atomic!Next]_Atomic!vars
<1> DEFINE r == [Idle EXCEPT !.call = call, !.phase = phase,
                             !.attempt = IF call = ReadCall THEN 0 ELSE 1]
<1>1. /\ op' = [op EXCEPT ![c] = r]
      /\ session' = session /\ held' = held
      /\ held' = [held EXCEPT ![c] = held[c]]
      /\ op[c].phase = "idle" /\ op[c] = Idle
  BY DEF Begin, Inv, CallInv, Shape
<1>2. IsRecord(r) /\ r.call = call /\ r.phase = phase
  BY IdleShape DEF IsRecord, Fields
<1> HIDE DEF r
<1>3. /\ op'[c] = r
      /\ \A d \in Clients \ {c} : Same(d)
      /\ call # ClearCall => EraInv'
      /\ EraInv' /\ CallInv(c)' => Inv'
  <2> DEFINE h == held[c]
  <2>1. held' = [held EXCEPT ![c] = h]
    BY <1>1
  <2> HIDE DEF h
  <2>2. session' = session /\ op' = [op EXCEPT ![c] = r] /\ IsRecord(r)
    BY <1>1, <1>2
  <2>3. /\ op'[c] = r
        /\ \A d \in Clients \ {c} : Same(d)
        /\ r.call # ClearCall \/ c \in Clearing => EraInv'
        /\ EraInv' /\ CallInv(c)' => Inv'
    BY <2>1, <2>2, LocalStep, Zenon
  <2> QED
    BY <1>2, <2>3
<1>4. ASSUME phase \in {"watch", "get"} PROVE [Atomic!Next]_Atomic!vars
  <2>1. heldBar[c] = held[c] /\ heldBar'[c] = held[c]
    <3>1. op[c].phase \notin {"reply", "ttl"}
      BY <1>1
    <3>2. op'[c].phase \notin {"reply", "ttl"}
      BY <1>2, <1>3, <1>4
    <3> QED
      BY <1>1, <3>1, <3>2 DEF heldBar
  <2> QED
    BY <1>1, <1>3, <2>1, BarIsQuiet
<1> QED
  BY <1>1, <1>2, <1>3, <1>4

LEMMA BeginningFollows ==
    ASSUME Inv, NEW c \in Clients, BeginRead(c) \/ BeginAppend(c) \/ BeginClear(c) \/ BeginCompact(c)
    PROVE  Follows
<1>1. CASE BeginRead(c)
  <2>1. Begin(c, ReadCall, "get")
    BY <1>1 DEF BeginRead
  <2>2. ReadCall # ClearCall
    BY DEF ReadCall, ClearCall
  <2>3. CallInv(c)'
    BY <2>1, Begins DEF CallInv, Phases
  <2> QED
    BY <2>1, <2>2, <2>3, Begins DEF Follows
<1>2. CASE BeginAppend(c)
  <2>1. PICK t \in Turns : Begin(c, AppendCall(t), "watch")
    BY <1>2 DEF BeginAppend
  <2>2. AppendCall(t) # ClearCall
    BY DEF AppendCall, ClearCall
  <2>3. IsAppend(c)'
    BY <1>2, <2>1, Begins DEF BeginAppend, IsAppend
  <2>4. CallInv(c)'
    BY <2>1, <2>3, Begins DEF CallInv, Phases
  <2> QED
    BY <2>1, <2>2, <2>4, Begins DEF Follows
<1>3. CASE BeginCompact(c)
  <2>1. PICK n \in CompactablePrefixes(held[c]), text \in SummaryTexts :
          Begin(c, CompactCall(n, RollingSummary(held[c], n, text),
                               IdsOf(SubSeq(held[c].turns, 1, n))), "watch")
    BY <1>3 DEF BeginCompact
  <2> DEFINE call == CompactCall(n, RollingSummary(held[c], n, text), IdsOf(SubSeq(held[c].turns, 1, n)))
  <2>2. call # ClearCall
    BY DEF CompactCall, ClearCall
  <2>3. op'[c].call = call /\ held' = held
    BY <2>1, Begins
  <2>4. IsCompact(c)'
    BY <1>3, <2>3 DEF BeginCompact, IsCompact
  <2>5. CallInv(c)'
    BY <2>1, <2>4, Begins DEF CallInv, Phases
  <2> HIDE DEF call
  <2> QED
    BY <2>1, <2>2, <2>5, Begins DEF Follows, call
<1>4. CASE BeginClear(c)
  <2>1. Begin(c, ClearCall, "watch")
    BY <1>4 DEF BeginClear
  <2>2. IsClear(c)'
    BY <1>4, <2>1, Begins DEF BeginClear, IsClear
  <2>3. CallInv(c)'
    BY <2>1, <2>2, Begins DEF CallInv, Phases
  <2>4. EraInv'
    <3> DEFINE Pending == {d \in Clients : op[d].call = ClearCall}
    <3>1. IsFiniteSet(Pending) /\ Cardinality(Pending) \in Nat /\ c \notin Pending
      BY <2>1, Begins, IdleShape, ClientsAssumption, FS_Subset, FS_CardinalityType
    <3>2. Clearing' \subseteq Pending \cup {c}
      BY <2>1, Begins DEF Clearing, Same
    <3>3. IsFiniteSet(Pending \cup {c}) /\ Cardinality(Pending \cup {c}) = Cardinality(Pending) + 1
      BY <3>1, FS_AddElement
    <3>4. IsFiniteSet(Clearing') /\ Cardinality(Clearing') <= Cardinality(Pending) + 1
          /\ Cardinality(Clearing') \in Nat
      BY <3>2, <3>3, FS_Subset, FS_CardinalityType
    <3>5. session'.era = session.era /\ session.era + Cardinality(Pending) < MaxEra
      BY <1>4, <2>1, Begins DEF BeginClear, PendingClears
    <3> QED
      BY <3>1, <3>4, <3>5, BoundsAssumption DEF EraInv, Inv
  <2> QED
    BY <2>1, <2>3, <2>4, Begins DEF Follows
<1> QED
  BY <1>1, <1>2, <1>3, <1>4

(* A call that ends raising, or by Forget, has no snapshot.                *)
LEMMA RaisingFollows ==
    ASSUME Inv, NEW c \in Clients, session' = session, Raise(c)
    PROVE  Follows
BY CallEnds, BarIsQuiet DEF Raise, Follows

LEMMA ForgettingFollows ==
    ASSUME Inv, NEW c \in Clients, Forget(c)
    PROVE  Follows
<1>1. op[c] = Idle /\ op' = [op EXCEPT ![c] = Idle]
  BY DEF Forget, Inv, Shape, CallInv
<1> QED
  BY <1>1, CallEnds, BarIsQuiet DEF Forget, Follows

LEMMA ReplyFollows ==
    ASSUME Inv, NEW c \in Clients, Reply(c)
    PROVE  Follows
<1>1. /\ session' = session
      /\ op' = [op EXCEPT ![c] = Idle]
      /\ held' = [held EXCEPT ![c] = op[c].result]
      /\ heldBar[c] = op[c].result
  BY BarIs DEF Reply, Return
<1> QED
  BY <1>1, CallEnds, BarIsQuiet DEF Follows

(* A call goes on to another command. *)
LEMMA CallGoesOn ==
    ASSUME Inv, NEW c \in Clients, NEW r, session' = session, held' = held,
           op[c].phase \notin {"idle", "reply"},
           op' = [op EXCEPT ![c] = r], IsRecord(r), r.call = op[c].call,
           r.phase \in {"watch", "get", "ttl", "exec"},
           op[c].call = ReadCall => r.phase \in {"get", "ttl"},
           r.phase \in {"ttl", "exec"} /\ ~r.dirty => r.fetched = SnapshotOf(session),
           r.phase = "exec" => /\ ~ReturnsFetched(c, r.fetched)
                               /\ IsWritable(op[c].call, r.fetched, held[c].version)
    PROVE  Inv' /\ op'[c] = r /\ \A d \in Clients \ {c} : Same(d)
<1> DEFINE h == held[c]
<1>1. held' = [held EXCEPT ![c] = h]
  BY DEF Inv, Shape
<1> HIDE DEF h
<1>2. r.call # ClearCall \/ c \in Clearing
  BY DEF Clearing
<1>3. /\ op'[c] = r
      /\ \A d \in Clients \ {c} : Same(d)
      /\ EraInv' /\ CallInv(c)' => Inv'
      /\ EraInv'
  BY <1>1, <1>2, LocalStep
<1>4. \/ op[c].call = ReadCall
      \/ IsAppend(c) \/ IsCompact(c) \/ IsClear(c)
  BY DEF Inv, CallInv
<1>5. /\ IsAppend(c)' <=> IsAppend(c)
      /\ IsCompact(c)' <=> IsCompact(c)
      /\ IsClear(c)' <=> IsClear(c)
  BY <1>3 DEF IsAppend, IsCompact, IsClear
<1>6. r.phase = "exec" => /\ ~ReturnsFetched(c, op[c].fetched)'
                          /\ IsWritable(op[c].call, op[c].fetched, held[c].version)'
  BY <1>3 DEF ReturnsFetched, IsRetry, IsTurnRetry, IsSummaryRetry, IsWritable
<1>7. CallInv(c)'
  BY <1>3, <1>4, <1>5, <1>6 DEF CallInv, Phases, SnapshotOf
<1> QED
  BY <1>3, <1>7

LEMMA WatchFollows ==
    ASSUME Inv, NEW c \in Clients, Watch(c)
    PROVE  Follows
<1> DEFINE r == [op[c] EXCEPT !.phase = "get", !.dirty = FALSE]
<1>1. /\ op[c].phase = "watch"
      /\ op' = [op EXCEPT ![c] = r]
      /\ session' = session /\ held' = held
      /\ IsRecord(op[c])
  BY DEF Watch, Inv, Shape
<1>2. IsRecord(r) /\ r.call = op[c].call /\ r.phase = "get"
  BY <1>1 DEF IsRecord, Fields
<1> HIDE DEF r
<1>3. Inv' /\ op'[c] = r /\ \A d \in Clients \ {c} : Same(d)
  BY <1>1, <1>2, CallGoesOn
<1>4. heldBar[c] = held[c] /\ heldBar'[c] = held[c]
  BY <1>1, <1>2, <1>3 DEF heldBar
<1> QED
  BY <1>1, <1>3, <1>4, BarIsQuiet DEF Follows

LEMMA WatchErrorFollows ==
    ASSUME Inv, NEW c \in Clients, WatchError(c)
    PROVE  Follows
<1> DEFINE r == [op[c] EXCEPT !.phase = "watch", !.attempt = @ + 1,
                              !.fetched = None, !.dirty = FALSE]
<1>1. CASE op[c].attempt < MaxRetries
  <2>1. /\ op[c].phase = "exec"
        /\ op' = [op EXCEPT ![c] = r]
        /\ session' = session /\ held' = held
        /\ IsRecord(op[c])
    BY <1>1 DEF WatchError, Inv, Shape
  <2>2. IsRecord(r) /\ r.call = op[c].call /\ r.phase = "watch"
    BY <2>1 DEF IsRecord, Fields
  <2> HIDE DEF r
  <2>3. op[c].call # ReadCall
    BY <2>1 DEF Inv, CallInv, ReturnsFetched, ReadCall
  <2>4. Inv' /\ op'[c] = r /\ \A d \in Clients \ {c} : Same(d)
    BY <2>1, <2>2, <2>3, CallGoesOn
  <2>5. heldBar[c] = held[c] /\ heldBar'[c] = held[c]
    BY <2>1, <2>2, <2>4 DEF heldBar
  <2> QED
    BY <2>1, <2>4, <2>5, BarIsQuiet DEF Follows
<1>2. CASE ~(op[c].attempt < MaxRetries)
  BY <1>2, RaisingFollows DEF WatchError
<1> QED
  BY <1>1, <1>2

(* The checks on a snapshot that let the transaction be executed.          *)
LEMMA CheckedFollows ==
    ASSUME Inv, NEW c \in Clients, NEW snap, session' = session, held' = held,
           op[c].phase \in {"get", "ttl"}, heldBar[c] = held[c],
           op' = [op EXCEPT ![c].phase = "exec", ![c].fetched = snap],
           ~ReturnsFetched(c, snap), IsWritable(op[c].call, snap, held[c].version),
           op[c].dirty \/ snap = SnapshotOf(session)
    PROVE  Follows
<1> DEFINE r == [op[c] EXCEPT !.phase = "exec", !.fetched = snap]
<1>1. op' = [op EXCEPT ![c] = r] /\ IsRecord(op[c])
  BY DEF Inv, Shape
<1>2. /\ IsRecord(r) /\ r.call = op[c].call /\ r.phase = "exec"
      /\ r.fetched = snap /\ r.dirty = op[c].dirty
  BY <1>1 DEF IsRecord, Fields
<1> HIDE DEF r
<1>3. op[c].call # ReadCall
  BY DEF ReturnsFetched, ReadCall
<1>4. Inv' /\ op'[c] = r /\ \A d \in Clients \ {c} : Same(d)
  BY <1>1, <1>2, <1>3, CallGoesOn
<1>5. heldBar'[c] = held[c]
  BY <1>2, <1>4 DEF heldBar
<1> QED
  BY <1>4, <1>5, BarIsQuiet DEF Follows

LEMMA GetFollows ==
    ASSUME Inv, NEW c \in Clients, Get(c)
    PROVE  Follows
<1>1. op[c].phase = "get" /\ session' = session /\ heldBar[c] = held[c] /\ CallInv(c)
  BY BarIs DEF Get, Inv
<1>2. CASE IsLive(session)
  <2> DEFINE r == [op[c] EXCEPT !.phase = "ttl", !.fetched = SnapshotOf(session)]
  <2>1. op' = [op EXCEPT ![c] = r] /\ held' = held /\ IsRecord(op[c])
    BY <1>2 DEF Get, Inv, Shape
  <2>2. /\ IsRecord(r) /\ r.call = op[c].call /\ r.phase = "ttl"
        /\ r.fetched = SnapshotOf(session) /\ r.dirty = op[c].dirty
    BY <2>1 DEF IsRecord, Fields
  <2> HIDE DEF r
  <2>3. Inv' /\ op'[c] = r /\ \A d \in Clients \ {c} : Same(d)
    BY <1>1, <2>1, <2>2, CallGoesOn
  <2>4. ReturnsFetched(c, op[c].fetched)' <=> ReturnsFetched(c, SnapshotOf(session))
    BY <2>1, <2>2, <2>3 DEF ReturnsFetched, IsRetry, IsTurnRetry, IsSummaryRetry
  <2>5. CASE ReturnsFetched(c, SnapshotOf(session))
    <3>1. heldBar'[c] = SnapshotOf(session)
      BY <2>2, <2>3, <2>4, <2>5 DEF heldBar
    <3>2. heldBar' = [heldBar EXCEPT ![c] = SnapshotOf(session)]
      BY <2>3, <3>1, BarMoves
    <3>3. Atomic!Next
      BY <1>1, <2>5, <3>2, TakesEffect
    <3> QED
      BY <2>3, <3>3 DEF Follows
  <2>6. CASE ~ReturnsFetched(c, SnapshotOf(session))
    <3>1. heldBar'[c] = held[c]
      BY <2>1, <2>2, <2>3, <2>4, <2>6 DEF heldBar
    <3> QED
      BY <1>1, <2>3, <3>1, BarIsQuiet DEF Follows
  <2> QED
    BY <2>5, <2>6
<1>3. CASE ~IsLive(session)
  <2> DEFINE snap == SnapshotOf(session)
  <2>1. Decide(c, snap)
    BY <1>3 DEF Get
  <2> HIDE DEF snap
  <2>2. CASE ReturnsFetched(c, snap) /\ Return(c, snap)
    <3>1. Inv' /\ heldBar'[c] = snap /\ \A d \in Clients \ {c} : Same(d)
      BY <1>1, <2>2, CallEnds DEF Return
    <3>2. heldBar' = [heldBar EXCEPT ![c] = snap]
      BY <3>1, BarMoves
    <3>3. Atomic!Next
      BY <1>1, <2>2, <3>2, TakesEffect DEF snap
    <3> QED
      BY <3>1, <3>3 DEF Follows
  <2>3. CASE /\ ~ReturnsFetched(c, snap)
             /\ IsWritable(op[c].call, snap, held[c].version)
             /\ op' = [op EXCEPT ![c].phase = "exec", ![c].fetched = snap]
             /\ held' = held
    <3>1. op[c].dirty \/ snap = SnapshotOf(session)
      BY DEF snap
    <3> QED
      BY <1>1, <2>3, <3>1, CheckedFollows
  <2>4. CASE Raise(c)
    BY <1>1, <2>4, RaisingFollows
  <2> QED
    BY <2>1, <2>2, <2>3, <2>4 DEF Decide
<1> QED
  BY <1>2, <1>3

LEMMA TtlFollows ==
    ASSUME Inv, NEW c \in Clients, Ttl(c)
    PROVE  Follows
<1> DEFINE snap == op[c].fetched
<1>1. op[c].phase = "ttl" /\ session' = session /\ CallInv(c)
  BY DEF Ttl, Inv
<1>2. op[c].dirty \/ snap = SnapshotOf(session)
  BY <1>1 DEF CallInv
<1>3. /\ ReturnsFetched(c, snap) => heldBar[c] = snap
      /\ ~ReturnsFetched(c, snap) => heldBar[c] = held[c]
  BY <1>1, BarIs
<1>4. Raise(c) \/ Decide(c, snap)
  BY DEF Ttl
<1> HIDE DEF snap
<1>5. CASE ReturnsFetched(c, snap) /\ Return(c, snap)
  BY <1>1, <1>3, <1>5, CallEnds, BarIsQuiet DEF Return, Follows
<1>6. CASE /\ ~ReturnsFetched(c, snap)
           /\ IsWritable(op[c].call, snap, held[c].version)
           /\ op' = [op EXCEPT ![c].phase = "exec", ![c].fetched = snap]
           /\ held' = held
  BY <1>1, <1>2, <1>3, <1>6, CheckedFollows
<1>7. CASE Raise(c)
  BY <1>1, <1>7, RaisingFollows
<1> QED
  BY <1>4, <1>5, <1>6, <1>7 DEF Decide

-----------------------------------------------------------------------------
(* Steps that modify the key. *)

LEMMA WrittenIsSession ==
    ASSUME Shape, NEW c \in Clients, NEW snap,
           IsAppend(c) \/ IsCompact(c) \/ IsClear(c),
           session' = Written(op[c].call, snap)
    PROVE  /\ session' = [x \in SessionFields |-> session'[x]]
           /\ session'.era = IF IsClear(c) THEN session.era + 1 ELSE session.era
<1> DEFINE base == [session EXCEPT !.version = snap.version, !.turns = snap.turns,
                                   !.summary = snap.summary]
<1>1. base = [x \in SessionFields |-> base[x]] /\ base.era = session.era
  BY DEF Shape, SessionFields
<1>2. CASE IsAppend(c)
  <2>1. PICK t : op[c].call = AppendCall(t)
    BY <1>2 DEF IsAppend
  <2>2. session' = Appended(base, t)
    BY <2>1 DEF Written, AppendCall
  <2> HIDE DEF base
  <2> QED
    BY <1>1, <1>2, <2>2, CallsOfAKind DEF Appended, SessionFields, IsClear
<1>3. CASE IsCompact(c)
  <2>1. PICK n, summary, ids : op[c].call = CompactCall(n, summary, ids)
    BY <1>3 DEF IsCompact
  <2>2. session' = Compacted(base, summary, n)
    BY <2>1 DEF Written, CompactCall
  <2> HIDE DEF base
  <2> QED
    BY <1>1, <1>3, <2>2, CallsOfAKind DEF Compacted, SessionFields, IsClear
<1>4. CASE IsClear(c)
  BY <1>4 DEF IsClear, ClearCall, Written, EmptySession, SessionFields
<1> QED
  BY <1>2, <1>3, <1>4

LEMMA ExecFollows ==
    ASSUME Inv, NEW c \in Clients, Exec(c)
    PROVE  Follows
<1> DEFINE r == [op[c] EXCEPT !.phase = "reply", !.fetched = None, !.result = SnapshotOf(session')]
<1>1. /\ op[c].phase = "exec" /\ ~op[c].dirty /\ held' = held
      /\ session' = Written(op[c].call, op[c].fetched)
      /\ op' = SetDirty([op EXCEPT ![c] = r], c)
      /\ CallInv(c) /\ IsRecord(op[c]) /\ Shape /\ EraInv
  BY DEF Exec, Inv, Shape
<1>2. /\ IsRecord(r) /\ r.call = op[c].call /\ r.phase = "reply"
      /\ r.result = SnapshotOf(session')
  BY <1>1 DEF IsRecord, Fields
<1> HIDE DEF r
<1>3. /\ op' = [d \in Clients |-> op'[d]]
      /\ op'[c] = r
      /\ \A d \in Clients \ {c} :
            op'[d] = IF op[d].phase \in {"get", "ttl", "exec"}
                     THEN [op[d] EXCEPT !.dirty = TRUE] ELSE op[d]
  BY <1>1 DEF SetDirty, Shape
<1>4. \A d \in Clients \ {c} : Same(d) /\ CallInv(d)' /\ IsRecord(op[d])'
  BY <1>1, <1>3, OthersStand DEF Inv
<1>5. IsAppend(c) \/ IsCompact(c) \/ IsClear(c)
  BY <1>1 DEF CallInv
<1>6. /\ session' = [x \in SessionFields |-> session'[x]]
      /\ session'.era = IF IsClear(c) THEN session.era + 1 ELSE session.era
  BY <1>1, <1>5, WrittenIsSession
<1>7. Shape'
  <2>1. held' = [d \in Clients |-> held'[d]]
    BY <1>1 DEF Shape
  <2> QED
    BY <1>2, <1>3, <1>4, <1>6, <2>1 DEF Shape
<1>8. CallInv(c)'
  <2>1. /\ IsAppend(c)' <=> IsAppend(c)
        /\ IsCompact(c)' <=> IsCompact(c)
        /\ IsClear(c)' <=> IsClear(c)
    BY <1>1, <1>2, <1>3 DEF IsAppend, IsCompact, IsClear
  <2> QED
    BY <1>2, <1>3, <1>5, <2>1 DEF CallInv, Phases
<1>9. IsFiniteSet(Clearing) /\ Cardinality(Clearing) \in Nat
  BY ClientsAssumption, FS_Subset, FS_CardinalityType DEF Clearing
<1>10. Clearing' \subseteq Clearing \ {c}
  BY <1>2, <1>3, <1>4 DEF Clearing, Same
<1>11. IsClear(c) => c \in Clearing
  BY <1>1 DEF Clearing, IsClear
<1>12. EraInv' /\ (IsClear(c) => session.era < MaxEra)
  <2>1. CASE IsClear(c)
    <3>1. IsFiniteSet(Clearing \ {c}) /\ Cardinality(Clearing \ {c}) = Cardinality(Clearing) - 1
      BY <1>9, <1>11, <2>1, FS_RemoveElement
    <3>2. /\ Cardinality(Clearing') <= Cardinality(Clearing \ {c})
          /\ Cardinality(Clearing') \in Nat /\ Cardinality(Clearing \ {c}) \in Nat
      BY <1>10, <3>1, FS_Subset, FS_CardinalityType
    <3> QED
      BY <1>1, <1>6, <1>9, <2>1, <3>1, <3>2, BoundsAssumption DEF EraInv
  <2>2. CASE ~IsClear(c)
    BY <1>1, <1>6, <1>10, <2>2, EraStands
  <2> QED
    BY <2>1, <2>2
<1>13. heldBar' = [heldBar EXCEPT ![c] = SnapshotOf(session')]
  <2>1. heldBar'[c] = SnapshotOf(session')
    BY <1>2, <1>3 DEF heldBar
  <2> QED
    BY <1>4, <2>1, BarMoves
<1>14. Atomic!Next
  BY <1>1, <1>12, <1>13, Writes
<1> QED
  BY <1>4, <1>7, <1>8, <1>12, <1>14 DEF Follows, Inv

LEMMA TickFollows ==
    ASSUME Inv, Tick
    PROVE  Follows
<1>1. IsLive(session) /\ held' = held /\ Shape /\ EraInv
  BY DEF Tick, Inv
<1>2. CASE session.life = 1
  <2>1. /\ session' = EmptySession(session.era + 1) /\ op' = SetDirty(op, None)
        /\ session.era + PendingClears < MaxEra
    BY <1>2 DEF Tick
  <2>2. op' = [d \in Clients |-> op'[d]] /\ held' = [d \in Clients |-> held'[d]]
    BY <1>1, <2>1 DEF SetDirty, Shape
  <2>3. \A d \in Clients : op'[d] = IF op[d].phase \in {"get", "ttl", "exec"}
                                   THEN [op[d] EXCEPT !.dirty = TRUE] ELSE op[d]
    BY <2>1, ClientsAssumption DEF SetDirty
  <2>4. \A d \in Clients : Same(d) /\ CallInv(d)' /\ IsRecord(op[d])'
    BY <1>1, <2>3, OthersStand DEF Inv
  <2>5. Shape'
    BY <2>1, <2>2, <2>4 DEF Shape, EmptySession, SessionFields
  <2>6. EraInv'
    <3> DEFINE Pending == {d \in Clients : op[d].call = ClearCall}
    <3>1. IsFiniteSet(Pending) /\ Cardinality(Pending) \in Nat /\ Clearing' \subseteq Pending
      BY <2>4, ClientsAssumption, FS_Subset, FS_CardinalityType DEF Clearing, Same
    <3>2. Cardinality(Clearing') <= Cardinality(Pending) /\ Cardinality(Clearing') \in Nat
      BY <3>1, FS_Subset, FS_CardinalityType
    <3>3. session'.era = session.era + 1 /\ session.era + Cardinality(Pending) < MaxEra
      BY <2>1 DEF EmptySession, PendingClears
    <3> QED
      BY <1>1, <3>1, <3>2, <3>3, BoundsAssumption DEF EraInv
  <2>7. heldBar' = heldBar
    BY <2>4, BarStays DEF heldBar
  <2>8. session.era < MaxEra
    <3>1. PendingClears \in Nat
      BY ClientsAssumption, FS_Subset, FS_CardinalityType DEF PendingClears
    <3> QED
      BY <1>1, <2>1, <3>1, BoundsAssumption DEF EraInv
  <2>9. Atomic!Tick
    BY <1>1, <1>2, <2>1, <2>7, <2>8, SameMemory DEF Atomic!Tick
  <2> QED
    BY <2>4, <2>5, <2>6, <2>9 DEF Follows, Inv, Atomic!Next
<1>3. CASE session.life # 1
  <2>1. session' = [session EXCEPT !.life = @ - 1] /\ op' = op
    BY <1>3 DEF Tick
  <2>2. /\ session' = [x \in SessionFields |-> session'[x]]
        /\ session'.era = session.era /\ SnapshotOf(session)' = SnapshotOf(session)
    BY <1>1, <2>1 DEF Shape, SessionFields, SnapshotOf
  <2>3. Shape' /\ Clearing' = Clearing
    BY <1>1, <2>1, <2>2 DEF Shape, Clearing
  <2>4. EraInv'
    BY <1>1, <2>2, <2>3 DEF EraInv
  <2>5. ASSUME NEW d \in Clients PROVE CallInv(d)'
    <3>1. CallInv(d)
      BY DEF Inv
    <3>2. /\ IsAppend(d)' <=> IsAppend(d)
          /\ IsCompact(d)' <=> IsCompact(d)
          /\ IsClear(d)' <=> IsClear(d)
          /\ ReturnsFetched(d, op[d].fetched)' <=> ReturnsFetched(d, op[d].fetched)
      BY <1>1, <2>1 DEF IsAppend, IsCompact, IsClear, ReturnsFetched
    <3> QED
      BY <1>1, <2>1, <2>2, <3>1, <3>2 DEF CallInv
  <2>6. heldBar' = heldBar
    BY <1>1, <2>1 DEF heldBar, ReturnsFetched
  <2>7. Atomic!Tick
    BY <1>1, <1>3, <2>1, <2>6, SameMemory DEF Atomic!Tick
  <2> QED
    BY <2>3, <2>4, <2>5, <2>7 DEF Follows, Inv, Atomic!Next
<1> QED
  BY <1>2, <1>3

-----------------------------------------------------------------------------
(* The theorem. *)

LEMMA InitFollows == Init => Inv /\ Atomic!Init
<1> SUFFICES ASSUME Init PROVE Inv /\ Atomic!Init
  OBVIOUS
<1>1. \A c \in Clients : op[c] = Idle /\ held[c] = None /\ heldBar[c] = None
  BY IdleShape DEF Init, heldBar
<1>2. heldBar = [c \in Clients |-> None]
  BY <1>1 DEF heldBar
<1>3. Shape
  BY <1>1, IdleShape DEF Init, Shape, EmptySession, SessionFields
<1>4. \A c \in Clients : CallInv(c)
  BY <1>1, IdleShape DEF CallInv, Phases
<1>5. Clearing = {}
  BY <1>1, IdleShape DEF Clearing
<1>6. EraInv
  BY <1>5, FS_EmptySet, BoundsAssumption DEF EraInv, Init, EmptySession
<1> QED
  BY <1>2, <1>3, <1>4, <1>6, SameMemory DEF Inv, Init, Atomic!Init, Atomic!EmptySession, EmptySession

LEMMA StepFollows ==
    ASSUME Inv, [Next]_vars
    PROVE  Follows
<1>1. ASSUME NEW c \in Clients, ConnectionFailure(c) PROVE Follows
  BY <1>1, RaisingFollows DEF ConnectionFailure
<1>2. ASSUME NEW c \in Clients, Command(c) PROVE Follows
  BY <1>2, WatchFollows, GetFollows, TtlFollows, ExecFollows, WatchErrorFollows, ReplyFollows
     DEF Command
<1>3. CASE Next
  BY <1>1, <1>2, <1>3, BeginningFollows, ForgettingFollows, TickFollows DEF Next
<1>4. CASE UNCHANGED vars
  <2>1. session' = session /\ held' = held /\ op' = op
    BY <1>4 DEF vars
  <2>2. Inv'
    BY <2>1 DEF Inv, Shape, IsRecord, EraInv, Clearing, CallInv, IsAppend, IsCompact, IsClear,
                ReturnsFetched
  <2>3. heldBar' = heldBar
    BY <2>1 DEF heldBar, ReturnsFetched
  <2> QED
    BY <2>1, <2>2, <2>3 DEF Follows, Atomic!vars
<1> QED
  BY <1>3, <1>4

(* Every behaviour of the Redis store, with its clients interleaved command *)
(* by command, with the expiry of the key, refused transactions, failed     *)
(* connections and lost replies, is a behaviour of the atomic store.        *)
THEOREM RedisStoreIsAtomic == Spec => ImplementsSessionStore
<1>1. Init => Inv /\ Atomic!Init
  BY InitFollows
<1>2. Inv /\ [Next]_vars => Inv' /\ [Atomic!Next]_Atomic!vars
  BY StepFollows DEF Follows
<1> QED
  BY <1>1, <1>2, PTL DEF Spec, ImplementsSessionStore, Atomic!Spec
=============================================================================
