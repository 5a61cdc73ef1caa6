------------------------- MODULE SessionStoreProofs -------------------------
(***************************************************************************)
(* Proofs about SessionStore, for every set of clients and turns, every    *)
(* policy and every bound, and about what a request remembers of a         *)
(* session: ConversationMemory and RequestContext.                         *)
(***************************************************************************)
EXTENDS ConversationMemory, FiniteSetTheorems, WellFoundedInduction, TLAPS

-----------------------------------------------------------------------------
(* What the operations return. *)

(* Newest keeps the last n turns, in their order. *)
LEMMA NewestIsSuffix ==
    ASSUME NEW q \in Seq(Turns), NEW n \in Nat
    PROVE  /\ Newest(q, n) \in Seq(Turns)
           /\ Len(Newest(q, n)) = IF Len(q) <= n THEN Len(q) ELSE n
           /\ \A i \in 1..Len(Newest(q, n)) :
                Newest(q, n)[i] = q[i + Len(q) - Len(Newest(q, n))]
<1>1. CASE Len(q) <= n
  <2>1. Newest(q, n) = q
    BY <1>1 DEF Newest
  <2>2. \A i \in 1..Len(q) : i + Len(q) - Len(q) = i
    OBVIOUS
  <2> QED
    BY <1>1, <2>1, <2>2
<1>2. CASE ~(Len(q) <= n)
  <2> DEFINE m == Len(q) - n + 1
  <2>1. m \in 1..(Len(q) + 1) /\ Len(q) - m + 1 = n
    BY <1>2
  <2>2. Newest(q, n) = SubSeq(q, m, Len(q))
    BY <1>2 DEF Newest
  <2>3. /\ SubSeq(q, m, Len(q)) \in Seq(Turns)
        /\ Len(SubSeq(q, m, Len(q))) = Len(q) - m + 1
        /\ \A i \in 1..(Len(q) - m + 1) : SubSeq(q, m, Len(q))[i] = q[m + i - 1]
    BY <2>1
  <2>4. \A i \in 1..n : m + i - 1 = i + Len(q) - n
    BY <2>1
  <2> QED
    BY <1>2, <2>1, <2>2, <2>3, <2>4
<1> QED
  BY <1>1, <1>2

(* A snapshot has the four fields of a session that clients see. *)
LEMMA SnapshotType ==
    ASSUME NEW s \in Sessions
    PROVE  /\ SnapshotOf(s) \in Snapshots
           /\ SnapshotOf(s) # None
BY NoneAssumption DEF SnapshotOf, Sessions, Snapshots

LEMMA EmptySessionType ==
    ASSUME NEW e \in Nat
    PROVE  EmptySession(e) \in Sessions
BY PolicyAssumption DEF EmptySession, Sessions

(* An appended turn is the last one, and what max_turns pushes out is      *)
(* counted as dropped.                                                     *)
LEMMA AppendedType ==
    ASSUME NEW s \in Sessions, NEW t \in Turns
    PROVE  Appended(s, t) \in Sessions
<1> DEFINE turns == Append(s.turns, t)
<1>1. /\ turns \in Seq(Turns)
      /\ Append(s.history, t) \in Seq(Turns)
      /\ s.version + 1 \in Nat
  BY DEF Sessions
<1> HIDE DEF turns
<1>2. /\ Newest(turns, MaxTurns) \in Seq(Turns)
      /\ Len(Newest(turns, MaxTurns)) <= Len(turns)
  <2>1. MaxTurns \in Nat /\ Len(turns) \in Nat
    BY <1>1, PolicyAssumption
  <2> QED
    BY <1>1, <2>1, NewestIsSuffix
<1>3. s.dropped + Len(turns) - Len(Newest(turns, MaxTurns)) \in Nat
  BY <1>1, <1>2 DEF Sessions
<1>4. Lifetime \in 0..Lifetime
  BY PolicyAssumption
<1> QED
  BY <1>1, <1>2, <1>3, <1>4 DEF Appended, Sessions, turns

(* The turn ids of a prefix, one for each turn. *)
LEMMA PrefixIds ==
    ASSUME NEW q \in Seq(Turns), NEW n \in 1..Len(q)
    PROVE  /\ IdsOf(SubSeq(q, 1, n)) \in Seq(TurnIds)
           /\ Len(IdsOf(SubSeq(q, 1, n))) = n
           /\ \A i \in 1..n : IdsOf(SubSeq(q, 1, n))[i] = q[i].turn_id
<1> DEFINE prefix == SubSeq(q, 1, n)
<1>1. /\ prefix \in Seq(Turns)
      /\ Len(prefix) = n
      /\ DOMAIN prefix = 1..n
      /\ \A i \in 1..n : prefix[i] = q[i]
  OBVIOUS
<1>2. \A i \in 1..n : q[i].turn_id \in TurnIds
  BY DEF TurnIds
<1> HIDE DEF prefix
<1>3. IdsOf(prefix) = [i \in 1..n |-> q[i].turn_id]
  BY <1>1 DEF IdsOf
<1>4. [i \in 1..n |-> q[i].turn_id] \in Seq(TurnIds)
  BY <1>2
<1>5. Len(IdsOf(prefix)) = n
  BY <1>3
<1> QED
  BY <1>3, <1>4, <1>5 DEF prefix

(* A rolling summary covers one turn at least. *)
LEMMA RollingSummaryType ==
    ASSUME NEW snap \in Snapshots, NEW n \in CompactablePrefixes(snap),
           NEW text \in SummaryTexts
    PROVE  /\ RollingSummary(snap, n, text) \in Summaries
           /\ RollingSummary(snap, n, text) # None
           /\ RollingSummary(snap, n, text).covered_turn_count >= 1
<1>1. /\ n \in 1..Len(snap.turns)
      /\ snap.turns \in Seq(Turns)
      /\ snap.version \in Nat
  BY DEF CompactablePrefixes, Snapshots
<1>2. /\ PreviousId(snap) \in SummaryIds
      /\ PreviouslyCovered(snap) \in Nat
  <2>1. CASE snap.summary = None
    BY <2>1 DEF PreviousId, PreviouslyCovered, SummaryIds
  <2>2. CASE snap.summary # None
    BY <2>2 DEF PreviousId, PreviouslyCovered, Snapshots, Summaries
  <2> QED
    BY <2>1, <2>2
<1>3. IdsOf(SubSeq(snap.turns, 1, n)) \in Seq(TurnIds)
  BY <1>1, PrefixIds
<1>4. Append(PreviousId(snap),
             [version |-> snap.version, turns |-> IdsOf(SubSeq(snap.turns, 1, n))])
        \in SummaryIds
  BY <1>1, <1>2, <1>3 DEF SummaryIds
<1>5. snap.turns[n].turn_id \in TurnIds
  BY <1>1 DEF TurnIds
<1>6. RollingSummary(snap, n, text) \in Summaries
  BY <1>1, <1>2, <1>4, <1>5 DEF RollingSummary, Summaries
<1>7. RollingSummary(snap, n, text).covered_turn_count = PreviouslyCovered(snap) + n
  BY DEF RollingSummary
<1> QED
  BY <1>1, <1>2, <1>6, <1>7, NoneAssumption

(* A compaction takes n turns off the front. *)
LEMMA CompactedType ==
    ASSUME NEW s \in Sessions, NEW summary \in Summaries, NEW n \in 1..Len(s.turns)
    PROVE  Compacted(s, summary, n) \in Sessions
<1>1. SubSeq(s.turns, n + 1, Len(s.turns)) \in Seq(Turns)
  BY DEF Sessions
<1>2. s.version + 1 \in Nat /\ Lifetime \in 0..Lifetime
  BY PolicyAssumption DEF Sessions
<1> QED
  BY <1>1, <1>2 DEF Compacted, Sessions

-----------------------------------------------------------------------------
(* The type invariant. *)

(* A summary made from a held snapshot, when the store accepts it, covers  *)
(* turns of the stored window.                                             *)
LEMMA ValidPrefix ==
    ASSUME NEW s \in Sessions, NEW snap \in Snapshots, NEW n \in CompactablePrefixes(snap),
           NEW text \in SummaryTexts,
           ValidCompaction(s, RollingSummary(snap, n, text),
                           IdsOf(SubSeq(snap.turns, 1, n)), snap.version)
    PROVE  /\ n \in 1..(Len(s.turns) - 1)
           /\ \A i \in 1..n : s.turns[i].turn_id = snap.turns[i].turn_id
           /\ snap.version = s.version
           /\ RollingSummary(snap, n, text).covered_turn_count = PreviouslyCovered(s) + n
           /\ RollingSummary(snap, n, text).covered_through_turn_id = s.turns[n].turn_id
<1> DEFINE ids == IdsOf(SubSeq(snap.turns, 1, n))
<1> DEFINE summary == RollingSummary(snap, n, text)
<1>1. n \in 1..Len(snap.turns) /\ snap.turns \in Seq(Turns)
  BY DEF CompactablePrefixes, Snapshots
<1>2. /\ Len(ids) = n
      /\ \A i \in 1..n : ids[i] = snap.turns[i].turn_id
  BY <1>1, PrefixIds
<1> HIDE DEF ids, summary
<1>3. /\ snap.version = s.version
      /\ IsOldestStrictPrefix(s, ids)
      /\ ContinuesLineage(s, summary, ids)
  BY DEF ValidCompaction, ids, summary
<1>4. /\ n \in 1..(Len(s.turns) - 1)
      /\ \A i \in 1..n : s.turns[i].turn_id = ids[i]
  BY <1>2, <1>3 DEF IsOldestStrictPrefix
<1>5. /\ summary.covered_turn_count = PreviouslyCovered(s) + n
      /\ summary.covered_through_turn_id = ids[n]
  BY <1>2, <1>3 DEF ContinuesLineage
<1> QED
  BY <1>1, <1>2, <1>3, <1>4, <1>5 DEF summary

(* The steps by what they do to the session and to the snapshots.          *)
Reads ==
    /\ UNCHANGED session
    /\ \/ UNCHANGED held
       \/ \E c \in Clients : held' = [held EXCEPT ![c] = None]
       \/ \E c \in Clients : held' = [held EXCEPT ![c] = SnapshotOf(session)]

Writes(c) ==
    /\ held[c] # None
    /\ held' = [held EXCEPT ![c] = SnapshotOf(session')]

Appends(c, t) ==
    /\ Writes(c)
    /\ held[c].version = session.version
    /\ ~Reused(session.turns, t)
    /\ session' = Appended(session, t)

Clears(c) ==
    /\ Writes(c)
    /\ held[c].version = session.version
    /\ session' = EmptySession(session.era + 1)

Compacts(c, n, text) ==
    /\ Writes(c)
    /\ ValidCompaction(session, RollingSummary(held[c], n, text),
                       IdsOf(SubSeq(held[c].turns, 1, n)), held[c].version)
    /\ session' = Compacted(session, RollingSummary(held[c], n, text), n)

Expires == session' = EmptySession(session.era + 1) /\ UNCHANGED held

Ages ==
    /\ IsLive(session)
    /\ session' = [session EXCEPT !.life = @ - 1]
    /\ UNCHANGED held

LEMMA Steps ==
    ASSUME TypeOK, [Next]_vars
    PROVE  \/ Reads
           \/ \E c \in Clients, t \in Turns : Appends(c, t)
           \/ \E c \in Clients : Clears(c)
           \/ \E c \in Clients : \E n \in CompactablePrefixes(held[c]), text \in SummaryTexts :
                Compacts(c, n, text)
           \/ Expires
           \/ Ages
<1>1. CASE UNCHANGED vars
  BY <1>1 DEF vars, Reads
<1>2. CASE Tick
  BY <1>2 DEF Tick, Expires, Ages
<1>3. ASSUME NEW c \in Clients, Forget(c) \/ Read(c)
      PROVE  Reads
  BY <1>3 DEF Forget, Read, Return, Reads
<1>4. ASSUME NEW c \in Clients, NEW t \in Turns, AppendTurn(c, t)
      PROVE  Reads \/ Appends(c, t)
  BY <1>4 DEF AppendTurn, AppendRetry, AppendNew, AppendConflict, Return, Reads, Appends, Writes
<1>5. ASSUME NEW c \in Clients, Clear(c)
      PROVE  Reads \/ Clears(c)
  BY <1>5 DEF Clear, ClearSession, ClearConflict, Return, Reads, Clears, Writes
<1>6. ASSUME NEW c \in Clients, Compact(c)
      PROVE  \/ Reads
             \/ \E n \in CompactablePrefixes(held[c]), text \in SummaryTexts :
                    Compacts(c, n, text)
  BY <1>6 DEF Compact, CompactPrefix, Return, Reads, Compacts, Writes
<1> QED
  BY <1>1, <1>2, <1>3, <1>4, <1>5, <1>6 DEF Next

(* What a write leaves in held. *)
LEMMA HeldType ==
    ASSUME TypeOK, session' \in Sessions,
           NEW c \in Clients, held' = [held EXCEPT ![c] = SnapshotOf(session')]
    PROVE  held' \in [Clients -> Snapshots \cup {None}]
BY SnapshotType DEF TypeOK

LEMMA TypeStep ==
    ASSUME TypeOK, [Next]_vars
    PROVE  TypeOK'
<1> USE DEF TypeOK
<1>1. CASE Reads
  <2>1. SnapshotOf(session) \in Snapshots
    BY SnapshotType
  <2> QED
    BY <1>1, <2>1 DEF Reads
<1>2. ASSUME NEW c \in Clients, NEW t \in Turns, Appends(c, t)
      PROVE  TypeOK'
  BY <1>2, AppendedType, HeldType DEF Appends, Writes
<1>3. ASSUME NEW c \in Clients, Clears(c)
      PROVE  TypeOK'
  <2>1. session.era + 1 \in Nat
    BY DEF Sessions
  <2> QED
    BY <1>3, <2>1, EmptySessionType, HeldType DEF Clears, Writes
<1>4. ASSUME NEW c \in Clients, NEW n \in CompactablePrefixes(held[c]),
             NEW text \in SummaryTexts, Compacts(c, n, text)
      PROVE  TypeOK'
  <2>1. held[c] \in Snapshots
    BY <1>4 DEF Compacts, Writes
  <2>2. RollingSummary(held[c], n, text) \in Summaries
    BY <2>1, RollingSummaryType
  <2>3. n \in 1..Len(session.turns)
    <3>1. n \in 1..(Len(session.turns) - 1)
      BY <1>4, <2>1, ValidPrefix DEF Compacts
    <3> QED
      BY <3>1 DEF Sessions
  <2> QED
    BY <1>4, <2>2, <2>3, CompactedType, HeldType DEF Compacts, Writes
<1>5. CASE Expires
  <2>1. session.era + 1 \in Nat
    BY DEF Sessions
  <2> QED
    BY <1>5, <2>1, EmptySessionType DEF Expires
<1>6. CASE Ages
  <2>1. session.life - 1 \in 0..Lifetime
    BY <1>6, PolicyAssumption DEF Ages, IsLive, Sessions
  <2> QED
    BY <1>6, <2>1 DEF Ages, Sessions
<1> QED
  BY <1>1, <1>2, <1>3, <1>4, <1>5, <1>6, Steps

(* TypeOK is an invariant. *)
THEOREM TypeCorrect == Spec => []TypeOK
<1>1. Init => TypeOK
  <2>1. EmptySession(0) \in Sessions
    BY EmptySessionType
  <2> QED
    BY <2>1 DEF Init, TypeOK
<1>2. TypeOK /\ [Next]_vars => TypeOK'
  BY TypeStep
<1> QED
  BY <1>1, <1>2, PTL DEF Spec

-----------------------------------------------------------------------------
(* Versions.  A version number alone identifies a state only because a     *)
(* held snapshot is never ahead of the store: VersionsOrdered is the       *)
(* strengthening that makes VersionIdentifiesState inductive.              *)
VersionsOrdered ==
    \A c \in Clients :
        held[c] # None =>
            /\ held[c].era <= session.era
            /\ held[c].era = session.era => held[c].version <= session.version

VersionInv == VersionsOrdered /\ VersionIdentifiesState

(* A write that leaves the writer with what it wrote, and takes the version *)
(* or the era up.                                                          *)
LEMMA VersionWrite ==
    ASSUME TypeOK, VersionInv, session' \in Sessions,
           \/ session'.era = session.era /\ session'.version = session.version + 1
           \/ session'.era = session.era + 1,
           \/ UNCHANGED held
           \/ \E c \in Clients : held' = [held EXCEPT ![c] = SnapshotOf(session')]
    PROVE  VersionInv'
<1> SUFFICES ASSUME NEW d \in Clients, held'[d] # None
             PROVE  /\ held'[d].era <= session'.era
                    /\ held'[d].era = session'.era => held'[d].version <= session'.version
                    /\ (held'[d].era = session'.era /\ held'[d].version = session'.version)
                          => held'[d] = SnapshotOf(session')
  BY DEF VersionInv, VersionsOrdered, VersionIdentifiesState
<1>1. CASE held'[d] = held[d]
  <2>1. /\ held[d].era \in Nat /\ held[d].version \in Nat
        /\ session.era \in Nat /\ session.version \in Nat
    BY <1>1 DEF TypeOK, Snapshots, Sessions
  <2>2. /\ held[d].era <= session.era
        /\ held[d].era = session.era => held[d].version <= session.version
    BY <1>1 DEF VersionInv, VersionsOrdered
  <2> QED
    BY <1>1, <2>1, <2>2
<1>2. CASE held'[d] = SnapshotOf(session')
  <2>1. /\ held'[d].era = session'.era /\ held'[d].version = session'.version
        /\ session'.era \in Nat /\ session'.version \in Nat
    BY <1>2 DEF SnapshotOf, Sessions
  <2> QED
    BY <1>2, <2>1
<1>3. held'[d] = held[d] \/ held'[d] = SnapshotOf(session')
  BY DEF TypeOK
<1> QED
  BY <1>1, <1>2, <1>3

LEMMA VersionStep ==
    ASSUME TypeOK, VersionInv, [Next]_vars
    PROVE  VersionInv'
<1>1. TypeOK' /\ session' \in Sessions
  BY TypeStep DEF TypeOK
<1>2. CASE Reads
  <2> SUFFICES ASSUME NEW d \in Clients, held'[d] # None
               PROVE  /\ held'[d].era <= session.era
                      /\ held'[d].era = session.era => held'[d].version <= session.version
                      /\ (held'[d].era = session.era /\ held'[d].version = session.version)
                            => held'[d] = SnapshotOf(session)
    BY <1>2 DEF VersionInv, VersionsOrdered, VersionIdentifiesState, Reads
  <2>1. CASE held'[d] = held[d]
    BY <2>1 DEF VersionInv, VersionsOrdered, VersionIdentifiesState
  <2>2. CASE held'[d] = SnapshotOf(session)
    <3>1. /\ held'[d].era = session.era /\ held'[d].version = session.version
          /\ session.era \in Nat /\ session.version \in Nat
      BY <2>2 DEF SnapshotOf, Sessions, TypeOK
    <3> QED
      BY <2>2, <3>1
  <2>3. held'[d] = held[d] \/ held'[d] = SnapshotOf(session)
    BY <1>2 DEF TypeOK, Reads
  <2> QED
    BY <2>1, <2>2, <2>3
<1>3. ASSUME NEW c \in Clients, NEW t \in Turns, Appends(c, t)
      PROVE  VersionInv'
  <2>1. session'.era = session.era /\ session'.version = session.version + 1
    BY <1>3 DEF Appends, Appended, TypeOK, Sessions
  <2> QED
    BY <1>1, <1>3, <2>1, VersionWrite DEF Appends, Writes
<1>4. ASSUME NEW c \in Clients, Clears(c)
      PROVE  VersionInv'
  <2>1. session'.era = session.era + 1
    BY <1>4 DEF Clears, EmptySession
  <2> QED
    BY <1>1, <1>4, <2>1, VersionWrite DEF Clears, Writes
<1>5. ASSUME NEW c \in Clients, NEW n \in CompactablePrefixes(held[c]),
             NEW text \in SummaryTexts, Compacts(c, n, text)
      PROVE  VersionInv'
  <2>1. session'.era = session.era /\ session'.version = session.version + 1
    BY <1>5 DEF Compacts, Compacted, TypeOK, Sessions
  <2> QED
    BY <1>1, <1>5, <2>1, VersionWrite DEF Compacts, Writes
<1>6. CASE Expires
  <2>1. session'.era = session.era + 1
    BY <1>6 DEF Expires, EmptySession
  <2> QED
    BY <1>1, <1>6, <2>1, VersionWrite DEF Expires
<1>7. CASE Ages
  <2>1. /\ SnapshotOf(session') = SnapshotOf(session)
        /\ session'.era = session.era /\ session'.version = session.version
    BY <1>7 DEF Ages, SnapshotOf, TypeOK, Sessions
  <2>2. held' = held
    BY <1>7 DEF Ages
  <2> QED
    BY <2>1, <2>2 DEF VersionInv, VersionsOrdered, VersionIdentifiesState
<1> QED
  BY <1>2, <1>3, <1>4, <1>5, <1>6, <1>7, Steps

LEMMA VersionInvariant == Spec => [](TypeOK /\ VersionInv)
<1>1. Init => TypeOK /\ VersionInv
  <2>1. Init => TypeOK
    BY EmptySessionType DEF Init, TypeOK
  <2>2. Init => VersionInv
    BY DEF Init, VersionInv, VersionsOrdered, VersionIdentifiesState
  <2> QED
    BY <2>1, <2>2
<1>2. TypeOK /\ VersionInv /\ [Next]_vars => (TypeOK /\ VersionInv)'
  BY TypeStep, VersionStep
<1> QED
  BY <1>1, <1>2, PTL DEF Spec

(* Within an incarnation of the key, a snapshot with the stored version is *)
(* the stored state.                                                       *)
THEOREM VersionsIdentifyStates == Spec => []VersionIdentifiesState
<1>1. TypeOK /\ VersionInv => VersionIdentifiesState
  BY DEF VersionInv
<1> QED
  BY <1>1, VersionInvariant, PTL

(* No lost update: whoever changes the session had read what it replaces.  *)
THEOREM NoLostUpdate == Spec => WritesBuildOnWhatWasRead
<1> DEFINE Built ==
      \A c \in Clients :
         (/\ session' # session
          /\ held'[c] # held[c]
          /\ held[c] # None
          /\ held[c].era = session.era)
            => held[c] = SnapshotOf(session)
<1>1. TypeOK /\ VersionInv /\ [Next]_vars => Built
  <2> SUFFICES ASSUME TypeOK, VersionInv, [Next]_vars,
                      NEW c \in Clients, session' # session, held'[c] # held[c],
                      held[c] # None, held[c].era = session.era
               PROVE  held[c] = SnapshotOf(session)
    OBVIOUS
  <2> SUFFICES held[c].version = session.version
    BY DEF VersionInv, VersionIdentifiesState
  <2>1. CASE Reads
    BY <2>1 DEF Reads
  <2>2. ASSUME NEW d \in Clients, NEW t \in Turns, Appends(d, t)
        PROVE  held[c].version = session.version
    <3>1. c = d
      BY <2>2 DEF Appends, Writes, TypeOK
    <3> QED
      BY <2>2, <3>1 DEF Appends
  <2>3. ASSUME NEW d \in Clients, Clears(d)
        PROVE  held[c].version = session.version
    <3>1. c = d
      BY <2>3 DEF Clears, Writes, TypeOK
    <3> QED
      BY <2>3, <3>1 DEF Clears
  <2>4. ASSUME NEW d \in Clients, NEW n \in CompactablePrefixes(held[d]),
               NEW text \in SummaryTexts, Compacts(d, n, text)
        PROVE  held[c].version = session.version
    <3>1. c = d
      BY <2>4 DEF Compacts, Writes, TypeOK
    <3> QED
      BY <2>4, <3>1 DEF Compacts, ValidCompaction
  <2>5. CASE Expires
    BY <2>5 DEF Expires
  <2>6. CASE Ages
    BY <2>6 DEF Ages
  <2> QED
    BY <2>1, <2>2, <2>3, <2>4, <2>5, <2>6, Steps
<1> QED
  BY <1>1, VersionInvariant, PTL DEF Spec, WritesBuildOnWhatWasRead

-----------------------------------------------------------------------------
(* The window is a suffix of the history. *)

IsTail(p, q) ==
    /\ Len(p) <= Len(q)
    /\ \A i \in 1..Len(p) : p[i] = q[i + Len(q) - Len(p)]

NoTurnTwice(q) == \A i, j \in DOMAIN q : SameTurn(q[i], q[j]) => i = j

LEMMA TailOfTail ==
    ASSUME NEW p \in Seq(Turns), NEW q \in Seq(Turns), NEW r \in Seq(Turns),
           IsTail(p, q), IsTail(q, r)
    PROVE  IsTail(p, r)
<1>1. Len(p) \in Nat /\ Len(q) \in Nat /\ Len(r) \in Nat
  OBVIOUS
<1>2. Len(p) <= Len(q) /\ Len(q) <= Len(r)
  BY DEF IsTail
<1> SUFFICES ASSUME NEW i \in 1..Len(p)
             PROVE  p[i] = r[i + Len(r) - Len(p)]
  BY <1>1, <1>2 DEF IsTail
<1> DEFINE j == i + Len(q) - Len(p)
<1>3. j \in 1..Len(q) /\ j + Len(r) - Len(q) = i + Len(r) - Len(p)
  BY <1>1, <1>2
<1>4. p[i] = q[j] /\ q[j] = r[j + Len(r) - Len(q)]
  BY <1>3 DEF IsTail
<1> QED
  BY <1>3, <1>4

LEMMA TailAppend ==
    ASSUME NEW p \in Seq(Turns), NEW q \in Seq(Turns), NEW t \in Turns, IsTail(p, q)
    PROVE  IsTail(Append(p, t), Append(q, t))
<1>1. /\ Len(Append(p, t)) = Len(p) + 1 /\ Len(Append(q, t)) = Len(q) + 1
      /\ Len(p) \in Nat /\ Len(q) \in Nat /\ Len(p) <= Len(q)
  BY DEF IsTail
<1> DEFINE u == Append(p, t)
<1> DEFINE v == Append(q, t)
<1> SUFFICES ASSUME NEW i \in 1..(Len(p) + 1)
             PROVE  u[i] = v[i + Len(q) - Len(p)]
  <2>1. Len(u) = Len(p) + 1 /\ Len(v) = Len(q) + 1
    BY <1>1
  <2> HIDE DEF u, v
  <2>2. \A i \in 1..Len(u) : i + Len(v) - Len(u) = i + Len(q) - Len(p)
    BY <1>1, <2>1
  <2>3. IsTail(u, v)
    BY <1>1, <2>1, <2>2 DEF IsTail
  <2> QED
    BY <2>3 DEF u, v
<1>2. CASE i = Len(p) + 1
  <2>1. i + Len(q) - Len(p) = Len(q) + 1
    BY <1>1, <1>2
  <2> QED
    BY <1>2, <2>1
<1>3. CASE i \in 1..Len(p)
  <2>1. i + Len(q) - Len(p) \in 1..Len(q)
    BY <1>1, <1>3
  <2>2. p[i] = q[i + Len(q) - Len(p)]
    BY <1>3 DEF IsTail
  <2> QED
    BY <1>3, <2>1, <2>2
<1> QED
  BY <1>1, <1>2, <1>3

LEMMA NewestIsTail ==
    ASSUME NEW q \in Seq(Turns), NEW n \in Nat
    PROVE  IsTail(Newest(q, n), q)
BY NewestIsSuffix DEF IsTail

LEMMA TailIsNewest ==
    ASSUME NEW p \in Seq(Turns), NEW q \in Seq(Turns), IsTail(p, q)
    PROVE  p = Newest(q, Len(p))
<1> DEFINE r == Newest(q, Len(p))
<1>1. Len(p) \in Nat /\ Len(p) <= Len(q)
  BY DEF IsTail
<1>2. /\ r \in Seq(Turns) /\ Len(r) = Len(p)
      /\ \A i \in 1..Len(r) : r[i] = q[i + Len(q) - Len(r)]
  BY <1>1, NewestIsSuffix
<1> HIDE DEF r
<1>3. \A i \in 1..Len(p) : p[i] = r[i]
  BY <1>2 DEF IsTail
<1>4. p = r
  BY <1>2, <1>3
<1> QED
  BY <1>4 DEF r

LEMMA CutIsTail ==
    ASSUME NEW q \in Seq(Turns), NEW n \in 1..Len(q)
    PROVE  /\ SubSeq(q, n + 1, Len(q)) \in Seq(Turns)
           /\ Len(SubSeq(q, n + 1, Len(q))) = Len(q) - n
           /\ IsTail(SubSeq(q, n + 1, Len(q)), q)
<1> DEFINE p == SubSeq(q, n + 1, Len(q))
<1>1. n \in Nat /\ Len(q) \in Nat /\ n <= Len(q)
  OBVIOUS
<1>2. /\ p \in Seq(Turns) /\ Len(p) = Len(q) - n
      /\ \A i \in 1..(Len(q) - n) : p[i] = q[n + i]
  BY <1>1
<1> HIDE DEF p
<1>3. \A i \in 1..Len(p) : i + Len(q) - Len(p) = n + i
  BY <1>1, <1>2
<1>4. IsTail(p, q)
  BY <1>1, <1>2, <1>3 DEF IsTail
<1> QED
  BY <1>2, <1>4 DEF p

LEMMA TailKeepsDistinct ==
    ASSUME NEW p \in Seq(Turns), NEW q \in Seq(Turns), IsTail(p, q), NoTurnTwice(q)
    PROVE  NoTurnTwice(p)
<1> SUFFICES ASSUME NEW i \in 1..Len(p), NEW j \in 1..Len(p), SameTurn(p[i], p[j])
             PROVE  i = j
  BY DEF NoTurnTwice
<1>1. Len(p) \in Nat /\ Len(q) \in Nat /\ Len(p) <= Len(q)
  BY DEF IsTail
<1> DEFINE k == i + Len(q) - Len(p)
<1> DEFINE l == j + Len(q) - Len(p)
<1>2. k \in 1..Len(q) /\ l \in 1..Len(q)
  BY <1>1
<1>3. p[i] = q[k] /\ p[j] = q[l]
  BY DEF IsTail
<1>4. k = l
  BY <1>2, <1>3 DEF NoTurnTwice
<1> QED
  BY <1>1, <1>4

LEMMA AppendKeepsDistinct ==
    ASSUME NEW q \in Seq(Turns), NEW t \in Turns, NoTurnTwice(q), ~Reused(q, t)
    PROVE  NoTurnTwice(Append(q, t))
<1> SUFFICES ASSUME NEW i \in 1..(Len(q) + 1), NEW j \in 1..(Len(q) + 1),
                    SameTurn(Append(q, t)[i], Append(q, t)[j])
             PROVE  i = j
  BY DEF NoTurnTwice
<1>1. \A k \in 1..Len(q) : Append(q, t)[k] = q[k] /\ ~SameTurn(q[k], t) /\ ~SameTurn(t, q[k])
  BY DEF Reused, SameTurn
<1>2. Append(q, t)[Len(q) + 1] = t
  OBVIOUS
<1>3. CASE i \in 1..Len(q) /\ j \in 1..Len(q)
  BY <1>1, <1>3 DEF NoTurnTwice
<1>4. CASE i = Len(q) + 1 \/ j = Len(q) + 1
  BY <1>1, <1>2, <1>4
<1> QED
  BY <1>3, <1>4

-----------------------------------------------------------------------------
(* The history of an incarnation.  That the summary covers a turn places   *)
(* the end of what it covers inside the history, and that is what keeps    *)
(* that end next to the window when a turn is appended.                    *)
HistoryOf(s) ==
    /\ IsTail(s.turns, s.history)
    /\ Len(s.turns) <= MaxTurns
    /\ NoTurnTwice(s.turns)
    /\ Len(s.history) = PreviouslyCovered(s) + s.dropped + Len(s.turns)
    /\ (s.summary # None /\ s.dropped = 0) =>
          s.history[Len(s.history) - Len(s.turns)].turn_id = s.summary.covered_through_turn_id
    /\ s.summary # None => s.summary.covered_turn_count >= 1

LEMMA EmptyHistory ==
    ASSUME NEW e \in Nat
    PROVE  HistoryOf(EmptySession(e))
BY PolicyAssumption DEF HistoryOf, EmptySession, IsTail, NoTurnTwice, PreviouslyCovered

LEMMA AppendedHistory ==
    ASSUME NEW s \in Sessions, NEW t \in Turns, HistoryOf(s), ~Reused(s.turns, t)
    PROVE  HistoryOf(Appended(s, t))
<1> DEFINE turns == Append(s.turns, t)
<1> DEFINE history == Append(s.history, t)
<1> DEFINE window == Newest(turns, MaxTurns)
<1> DEFINE new == Appended(s, t)
<1>1. /\ s.turns \in Seq(Turns) /\ s.history \in Seq(Turns)
      /\ turns \in Seq(Turns) /\ history \in Seq(Turns)
      /\ Len(turns) = Len(s.turns) + 1 /\ Len(history) = Len(s.history) + 1
      /\ Len(s.turns) \in Nat /\ Len(s.history) \in Nat
      /\ s.dropped \in Nat /\ MaxTurns \in Nat
  BY PolicyAssumption DEF Sessions
<1>2. IsTail(turns, history) /\ NoTurnTwice(turns)
  BY <1>1, TailAppend, AppendKeepsDistinct DEF HistoryOf
<1>3. /\ new.turns = window /\ new.history = history /\ new.summary = s.summary
      /\ new.dropped = s.dropped + Len(turns) - Len(window)
  BY DEF Appended, Sessions
<1> HIDE DEF turns, new
<1>4. /\ window \in Seq(Turns)
      /\ Len(window) = IF Len(turns) <= MaxTurns THEN Len(turns) ELSE MaxTurns
      /\ IsTail(window, turns)
  BY <1>1, NewestIsSuffix, NewestIsTail
<1>5. Len(window) \in Nat /\ Len(window) <= Len(turns) /\ Len(window) <= MaxTurns
  BY <1>1, <1>4
<1> HIDE DEF history, window
<1>6. IsTail(window, history) /\ NoTurnTwice(window)
  BY <1>1, <1>2, <1>4, TailOfTail, TailKeepsDistinct
<1>7. PreviouslyCovered(new) = PreviouslyCovered(s) /\ PreviouslyCovered(s) \in Nat
  BY <1>3 DEF PreviouslyCovered, Sessions, Summaries
<1>8. Len(history) = PreviouslyCovered(new) + new.dropped + Len(window)
  BY <1>1, <1>3, <1>5, <1>7 DEF HistoryOf
<1>9. ASSUME new.summary # None, new.dropped = 0
      PROVE  history[Len(history) - Len(window)].turn_id = new.summary.covered_through_turn_id
  <2>1. s.dropped = 0 /\ Len(window) = Len(turns) /\ s.summary # None
    <3>1. Len(turns) \in Nat
      BY <1>1
    <3>2. s.dropped + Len(turns) - Len(window) = 0
      BY <1>3, <1>9
    <3>3. s.dropped = 0 /\ Len(window) = Len(turns)
      BY <1>1, <1>5, <3>1, <3>2
    <3> QED
      BY <1>3, <1>9, <3>3
  <2>2. PreviouslyCovered(s) >= 1
    BY <2>1 DEF PreviouslyCovered, HistoryOf
  <2>3. /\ Len(s.history) - Len(s.turns) \in 1..Len(s.history)
        /\ Len(history) - Len(window) = Len(s.history) - Len(s.turns)
    <3>1. Len(s.history) = PreviouslyCovered(s) + Len(s.turns)
      BY <1>1, <1>7, <2>1 DEF HistoryOf
    <3> QED
      BY <1>1, <1>7, <2>1, <2>2, <3>1
  <2>4. history[Len(s.history) - Len(s.turns)] = s.history[Len(s.history) - Len(s.turns)]
    BY <1>1, <2>3 DEF history
  <2> QED
    BY <1>3, <2>1, <2>3, <2>4 DEF HistoryOf
<1>10. new.summary # None => new.summary.covered_turn_count >= 1
  BY <1>3 DEF HistoryOf
<1> QED
  BY <1>3, <1>5, <1>6, <1>8, <1>9, <1>10 DEF HistoryOf, new

LEMMA CompactedHistory ==
    ASSUME NEW s \in Sessions, HistoryOf(s), NEW summary \in Summaries, summary # None,
           NEW n \in 1..(Len(s.turns) - 1),
           summary.covered_turn_count = PreviouslyCovered(s) + n,
           summary.covered_turn_count >= 1,
           summary.covered_through_turn_id = s.turns[n].turn_id
    PROVE  HistoryOf(Compacted(s, summary, n))
<1> DEFINE window == SubSeq(s.turns, n + 1, Len(s.turns))
<1> DEFINE new == Compacted(s, summary, n)
<1>1. /\ s.turns \in Seq(Turns) /\ s.history \in Seq(Turns)
      /\ Len(s.turns) \in Nat /\ Len(s.history) \in Nat /\ s.dropped \in Nat
      /\ n \in 1..Len(s.turns) /\ MaxTurns \in Nat
      /\ PreviouslyCovered(s) \in Nat
  BY PolicyAssumption DEF Sessions, PreviouslyCovered, Summaries
<1>2. /\ new.turns = window /\ new.history = s.history /\ new.summary = summary
      /\ new.dropped = s.dropped
  BY DEF Compacted, Sessions
<1>3. /\ window \in Seq(Turns) /\ Len(window) = Len(s.turns) - n
      /\ IsTail(window, s.turns)
  BY <1>1, CutIsTail
<1> HIDE DEF window, new
<1>4. IsTail(window, s.history) /\ NoTurnTwice(window) /\ Len(window) <= MaxTurns
  BY <1>1, <1>3, TailOfTail, TailKeepsDistinct DEF HistoryOf
<1>5. PreviouslyCovered(new) = PreviouslyCovered(s) + n
  BY <1>2 DEF PreviouslyCovered
<1>6. Len(s.history) = PreviouslyCovered(new) + new.dropped + Len(window)
  BY <1>1, <1>2, <1>3, <1>5 DEF HistoryOf
<1>7. s.history[Len(s.history) - Len(window)] = s.turns[n]
  <2>1. s.turns[n] = s.history[n + Len(s.history) - Len(s.turns)]
    BY <1>1 DEF HistoryOf, IsTail
  <2>2. Len(s.history) - Len(window) = n + Len(s.history) - Len(s.turns)
    <3>1. \A h, w, t \in Nat : w = t - n => h - w = n + h - t
      BY <1>1
    <3>2. Len(window) \in Nat
      BY <1>3
    <3> HIDE DEF window
    <3> QED BY <1>1, <1>3, <3>1, <3>2
  <2> QED
    BY <2>1, <2>2
<1> QED
  BY <1>2, <1>4, <1>6, <1>7 DEF HistoryOf, new

LEMMA HistoryStep ==
    ASSUME TypeOK, HistoryOf(session), [Next]_vars
    PROVE  HistoryOf(session')
<1>1. CASE Reads
  BY <1>1 DEF Reads
<1>2. ASSUME NEW c \in Clients, NEW t \in Turns, Appends(c, t)
      PROVE  HistoryOf(session')
  BY <1>2, AppendedHistory DEF Appends, TypeOK
<1>3. ASSUME session' = EmptySession(session.era + 1)
      PROVE  HistoryOf(session')
  <2>1. session.era + 1 \in Nat
    BY DEF TypeOK, Sessions
  <2> QED
    BY <1>3, <2>1, EmptyHistory
<1>4. ASSUME NEW c \in Clients, NEW n \in CompactablePrefixes(held[c]),
             NEW text \in SummaryTexts, Compacts(c, n, text)
      PROVE  HistoryOf(session')
  <2> DEFINE summary == RollingSummary(held[c], n, text)
  <2>1. held[c] \in Snapshots /\ session \in Sessions
    BY <1>4 DEF Compacts, Writes, TypeOK
  <2>2. summary \in Summaries /\ summary # None /\ summary.covered_turn_count >= 1
    BY <2>1, RollingSummaryType
  <2>3. /\ n \in 1..(Len(session.turns) - 1)
        /\ summary.covered_turn_count = PreviouslyCovered(session) + n
        /\ summary.covered_through_turn_id = session.turns[n].turn_id
    BY <1>4, <2>1, ValidPrefix DEF Compacts
  <2>4. session' = Compacted(session, summary, n)
    BY <1>4 DEF Compacts
  <2> HIDE DEF summary
  <2> QED
    BY <2>1, <2>2, <2>3, <2>4, CompactedHistory
<1>5. CASE Ages
  <2>1. /\ session'.turns = session.turns /\ session'.history = session.history
        /\ session'.summary = session.summary /\ session'.dropped = session.dropped
    BY <1>5 DEF Ages, TypeOK, Sessions
  <2> QED
    BY <2>1 DEF HistoryOf, PreviouslyCovered
<1> QED
  BY <1>1, <1>2, <1>3, <1>4, <1>5, Steps DEF Clears, Expires

LEMMA HistoryInvariant == Spec => [](TypeOK /\ HistoryOf(session))
<1>1. Init => TypeOK /\ HistoryOf(session)
  BY EmptySessionType, EmptyHistory DEF Init, TypeOK
<1>2. TypeOK /\ HistoryOf(session) /\ [Next]_vars => TypeOK' /\ HistoryOf(session')
  BY TypeStep, HistoryStep
<1>3. TypeOK' /\ HistoryOf(session') => (TypeOK /\ HistoryOf(session))'
  OBVIOUS
<1> QED
  BY <1>1, <1>2, <1>3, PTL DEF Spec

(* The stored turns are the newest of the incarnation, in order, none      *)
(* twice and never more than max_turns.                                    *)
THEOREM WindowsAreNewest == Spec => []WindowIsNewestHistory
<1>1. TypeOK /\ HistoryOf(session) => WindowIsNewestHistory
  BY TailIsNewest DEF TypeOK, Sessions, HistoryOf, NoTurnTwice, WindowIsNewestHistory
<1> QED
  BY <1>1, HistoryInvariant, PTL

(* Every turn is in the summary, dropped by max_turns or stored, once; and *)
(* while none was dropped, the summary ends where the window begins.       *)
THEOREM TurnsAreAccountedFor == Spec => []EveryTurnAccountedFor
<1>1. HistoryOf(session) => EveryTurnAccountedFor
  BY DEF HistoryOf, EveryTurnAccountedFor
<1> QED
  BY <1>1, HistoryInvariant, PTL

-----------------------------------------------------------------------------
(* Total is a sum: the order in which SumFunction adds does not matter.     *)

(* A set that holds 0 and is closed under successor holds every number.    *)
LEMMA NatsAreReached ==
    ASSUME NEW S, 0 \in S, \A n \in Nat : n \in S => n + 1 \in S
    PROVE  Nat \subseteq S
<1> DEFINE R == OpToRel(<, Nat)
<1> DEFINE T == Nat \ S
<1>1. IsWellFoundedOn(R, Nat)
  BY NatLessThanWellFounded
<1>2. \A x, y \in Nat : x < y => <<x, y>> \in R
  BY DEF OpToRel
<1> HIDE DEF R
<1> SUFFICES ASSUME T # {} PROVE FALSE
  OBVIOUS
<1>3. T \subseteq Nat
  OBVIOUS
<1> HIDE DEF T
<1>4. PICK x \in T : \A y \in T : ~ (<<y, x>> \in R)
  BY <1>1, <1>3, WFMin, Zenon
<1>5. x \in Nat /\ x \notin S
  BY DEF T
<1>6. x # 0
  BY <1>5
<1>7. x - 1 \in Nat /\ x - 1 < x /\ (x - 1) + 1 = x
  BY <1>5, <1>6
<1>8. x - 1 \in S
  BY <1>2, <1>4, <1>5, <1>7 DEF T
<1> QED
  BY <1>5, <1>7, <1>8

(* The element that SumFunction adds first, and the sums it computes of the *)
(* subsets of S with at most n elements.                                   *)
First(s) == CHOOSE x \in s : TRUE
Adds(f, g, s) == IF s = {} THEN 0 ELSE f[First(s)] + g[s \ {First(s)}]
Small(S, n) == {s \in SUBSET S : Cardinality(s) <= n}
SumsUpTo(g, S, f, n) == g = [s \in Small(S, n) |-> Adds(f, g, s)]
Sums(g, S, f) == g = [s \in SUBSET S |-> Adds(f, g, s)]

LEMMA FirstIsIn ==
    ASSUME NEW s, s # {} PROVE First(s) \in s
BY DEF First

LEMMA SmallerWithout ==
    ASSUME NEW S, IsFiniteSet(S), NEW n \in Nat, NEW s \in Small(S, n + 1), NEW x \in s
    PROVE  s \ {x} \in Small(S, n)
<1>1. IsFiniteSet(s) /\ Cardinality(s) <= n + 1
  BY FS_Subset DEF Small
<1>2. Cardinality(s) \in Nat
  BY <1>1, FS_CardinalityType
<1>3. Cardinality(s \ {x}) = Cardinality(s) - 1
  BY <1>1, FS_RemoveElement
<1> QED
  BY <1>1, <1>2, <1>3 DEF Small

(* An induction over sizes reaches every subset of S.                      *)
LEMMA SizesAreReached ==
    ASSUME NEW S, IsFiniteSet(S), NEW R, 0 \in R, \A n \in Nat : n \in R => n + 1 \in R
    PROVE  Cardinality(S) \in R /\ Small(S, Cardinality(S)) = SUBSET S
<1>1. Cardinality(S) \in Nat
  BY FS_CardinalityType
<1>2. Cardinality(S) \in R
  BY <1>1, NatsAreReached
<1> QED
  BY <1>2, FS_Subset DEF Small

LEMMA SmallestIsEmpty ==
    ASSUME NEW S, IsFiniteSet(S), NEW s \in Small(S, 0)
    PROVE  s = {}
<1>1. IsFiniteSet(s) /\ Cardinality(s) <= 0
  BY FS_Subset DEF Small
<1>2. Cardinality(s) \in Nat
  BY <1>1, FS_CardinalityType
<1>3. Cardinality(s) = 0
  BY <1>1, <1>2
<1> QED BY <1>1, <1>3, FS_EmptySet

LEMMA SumsExist ==
    ASSUME NEW S, IsFiniteSet(S), NEW f
    PROVE  \E g : Sums(g, S, f)
<1> DEFINE R == {n \in Nat : \E g : SumsUpTo(g, S, f, n)}
<1>1. 0 \in R
  <2> DEFINE g == [s \in Small(S, 0) |-> 0]
  <2>1. ASSUME NEW s \in Small(S, 0) PROVE s = {}
    BY SmallestIsEmpty
  <2>2. g = [s \in Small(S, 0) |-> Adds(f, g, s)]
    BY <2>1 DEF Adds
  <2> HIDE DEF g
  <2>3. SumsUpTo(g, S, f, 0)
    BY <2>2 DEF SumsUpTo
  <2> QED BY <2>3
<1>2. ASSUME NEW n \in Nat, n \in R PROVE n + 1 \in R
  <2>1. PICK g : SumsUpTo(g, S, f, n)
    BY <1>2
  <2> DEFINE h == [s \in Small(S, n + 1) |-> Adds(f, g, s)]
  <2>2. ASSUME NEW s \in Small(S, n + 1) PROVE Adds(f, g, s) = Adds(f, h, s)
    <3>1. CASE s = {}
      BY <3>1 DEF Adds
    <3>2. CASE s # {}
      <4> DEFINE r == s \ {First(s)}
      <4>1. r \in Small(S, n)
        BY <3>2, FirstIsIn, SmallerWithout
      <4>2. r \in Small(S, n + 1)
        <5>1. IsFiniteSet(r) /\ Cardinality(r) <= n
          BY <4>1, FS_Subset DEF Small
        <5>2. Cardinality(r) \in Nat
          BY <5>1, FS_CardinalityType
        <5>3. Cardinality(r) <= n + 1
          BY <5>1, <5>2
        <5> QED BY <4>1, <5>3 DEF Small
      <4> HIDE DEF r
      <4>3. g[r] = Adds(f, g, r) /\ h[r] = Adds(f, g, r)
        BY <2>1, <4>1, <4>2 DEF SumsUpTo
      <4> HIDE DEF h
      <4> QED BY <3>2, <4>3 DEF Adds, r
    <3> QED BY <3>1, <3>2
  <2>3. h = [s \in Small(S, n + 1) |-> Adds(f, h, s)]
    BY <2>2
  <2> HIDE DEF h
  <2>4. SumsUpTo(h, S, f, n + 1)
    BY <2>3 DEF SumsUpTo
  <2> QED BY <2>4
<1> HIDE DEF R
<1>3. Cardinality(S) \in R /\ Small(S, Cardinality(S)) = SUBSET S
  BY <1>1, <1>2, SizesAreReached
<1> QED BY <1>3 DEF R, SumsUpTo, Sums

(* Sums over a set and over a part of it agree on the part.                *)
LEMMA SumsAgree ==
    ASSUME NEW S, NEW T \in SUBSET S, IsFiniteSet(S), NEW f, NEW k, \A x \in T : f[x] = k[x],
           NEW g, Sums(g, S, f), NEW h, Sums(h, T, k)
    PROVE  \A s \in SUBSET T : g[s] = h[s]
<1> DEFINE R == {n \in Nat : \A s \in Small(T, n) : g[s] = h[s]}
<1>0. IsFiniteSet(T)
  BY FS_Subset
<1>1. 0 \in R
  <2> SUFFICES ASSUME NEW s \in Small(T, 0) PROVE g[s] = h[s]
    OBVIOUS
  <2>1. s = {}
    BY <1>0, SmallestIsEmpty
  <2> QED BY <2>1 DEF Sums, Adds
<1>2. ASSUME NEW n \in Nat, n \in R PROVE n + 1 \in R
  <2> SUFFICES ASSUME NEW s \in Small(T, n + 1) PROVE g[s] = h[s]
    OBVIOUS
  <2>1. g[s] = Adds(f, g, s) /\ h[s] = Adds(k, h, s)
    BY DEF Sums, Small
  <2>2. CASE s = {}
    BY <2>1, <2>2 DEF Adds
  <2>3. CASE s # {}
    <3>1. s \ {First(s)} \in Small(T, n)
      BY <1>0, <2>3, FirstIsIn, SmallerWithout
    <3>2. g[s \ {First(s)}] = h[s \ {First(s)}]
      BY <1>2, <3>1
    <3>3. First(s) \in T
      BY <2>3, FirstIsIn DEF Small
    <3> QED BY <2>1, <2>3, <3>2, <3>3 DEF Adds
  <2> QED BY <2>2, <2>3
<1> HIDE DEF R
<1>3. Cardinality(T) \in R /\ Small(T, Cardinality(T)) = SUBSET T
  BY <1>0, <1>1, <1>2, SizesAreReached
<1> QED BY <1>3 DEF R

LEMMA TotalIsSum ==
    ASSUME NEW S, IsFiniteSet(S), NEW tokens
    PROVE  \E g : Sums(g, S, [label \in S |-> tokens[label]]) /\ Total(S, tokens) = g[S]
<1> DEFINE f == [label \in S |-> tokens[label]]
<1>1. DOMAIN f = S
  OBVIOUS
<1>2. Total(S, tokens) = SumFunction(f)
  BY DEF Total
<1> HIDE DEF f
<1>3. SumFunction(f) = (CHOOSE g : Sums(g, S, f))[S]
  BY <1>1 DEF SumFunction, SumFunctionOnSet, FoldFunctionOnSet, MapThenFoldSet, Sums, Adds, First
<1>4. \E g : Sums(g, S, f)
  BY SumsExist
<1>5. Sums(CHOOSE g : Sums(g, S, f), S, f)
  BY <1>4
<1> QED BY <1>2, <1>3, <1>5 DEF f

LEMMA TotalOfNone ==
    ASSUME NEW tokens PROVE Total({}, tokens) = 0
<1>1. IsFiniteSet({})
  BY FS_EmptySet
<1>2. PICK g : Sums(g, {}, [label \in {} |-> tokens[label]]) /\ Total({}, tokens) = g[{}]
  BY <1>1, TotalIsSum
<1> QED BY <1>2 DEF Sums, Adds

LEMMA TotalFromFirst ==
    ASSUME NEW S, IsFiniteSet(S), S # {}, NEW tokens
    PROVE  Total(S, tokens) = tokens[First(S)] + Total(S \ {First(S)}, tokens)
<1> DEFINE T == S \ {First(S)}
<1> DEFINE f == [label \in S |-> tokens[label]]
<1> DEFINE k == [label \in T |-> tokens[label]]
<1>1. First(S) \in S
  BY FirstIsIn
<1>2. T \in SUBSET S /\ IsFiniteSet(T)
  BY FS_Subset
<1>3. f[First(S)] = tokens[First(S)] /\ \A x \in T : f[x] = k[x]
  BY <1>1
<1>4. PICK g : Sums(g, S, f) /\ Total(S, tokens) = g[S]
  BY TotalIsSum
<1>5. PICK h : Sums(h, T, k) /\ Total(T, tokens) = h[T]
  BY <1>2, TotalIsSum
<1> HIDE DEF T, f, k
<1>6. g[T] = h[T]
  BY <1>2, <1>3, <1>4, <1>5, SumsAgree
<1>7. g[S] = f[First(S)] + g[T]
  BY <1>4 DEF Sums, Adds, T
<1> QED BY <1>3, <1>4, <1>5, <1>6, <1>7 DEF T

LEMMA TotalIsNat ==
    ASSUME NEW S, IsFiniteSet(S), NEW tokens, \A x \in S : tokens[x] \in Nat
    PROVE  \A s \in SUBSET S : Total(s, tokens) \in Nat
<1> DEFINE R == {n \in Nat : \A s \in Small(S, n) : Total(s, tokens) \in Nat}
<1>1. 0 \in R
  BY SmallestIsEmpty, TotalOfNone
<1>2. ASSUME NEW n \in Nat, n \in R PROVE n + 1 \in R
  <2> SUFFICES ASSUME NEW s \in Small(S, n + 1) PROVE Total(s, tokens) \in Nat
    OBVIOUS
  <2>0. CASE s = {}
    BY <2>0, TotalOfNone
  <2> SUFFICES ASSUME s # {} PROVE Total(s, tokens) \in Nat
    BY <2>0
  <2>1. First(s) \in s /\ IsFiniteSet(s) /\ s \subseteq S
    BY FirstIsIn, FS_Subset DEF Small
  <2>2. s \ {First(s)} \in Small(S, n)
    BY <2>1, SmallerWithout
  <2>3. Total(s \ {First(s)}, tokens) \in Nat
    BY <1>2, <2>2
  <2>4. tokens[First(s)] \in Nat
    BY <2>1
  <2>5. Total(s, tokens) = tokens[First(s)] + Total(s \ {First(s)}, tokens)
    BY <2>1, TotalFromFirst
  <2> QED BY <2>3, <2>4, <2>5
<1> HIDE DEF R
<1>3. Cardinality(S) \in R /\ Small(S, Cardinality(S)) = SUBSET S
  BY <1>1, <1>2, SizesAreReached
<1> QED BY <1>3 DEF R

LEMMA TotalWithout ==
    ASSUME NEW S, IsFiniteSet(S), NEW tokens, \A x \in S : tokens[x] \in Nat
    PROVE  \A s \in SUBSET S : \A y \in s : Total(s, tokens) = tokens[y] + Total(s \ {y}, tokens)
<1> DEFINE Removes(s) == \A y \in s : Total(s, tokens) = tokens[y] + Total(s \ {y}, tokens)
<1> DEFINE R == {n \in Nat : \A s \in Small(S, n) : Removes(s)}
<1>1. 0 \in R
  BY SmallestIsEmpty
<1>2. ASSUME NEW n \in Nat, n \in R PROVE n + 1 \in R
  <2> SUFFICES ASSUME NEW s \in Small(S, n + 1), NEW y \in s
               PROVE  Total(s, tokens) = tokens[y] + Total(s \ {y}, tokens)
    OBVIOUS
  <2> DEFINE x == First(s)
  <2>1. x \in s /\ IsFiniteSet(s) /\ s \subseteq S
    BY FirstIsIn, FS_Subset DEF Small
  <2>2. Total(s, tokens) = tokens[x] + Total(s \ {x}, tokens)
    BY <2>1, TotalFromFirst
  <2> HIDE DEF x
  <2>3. CASE x = y
    BY <2>2, <2>3
  <2>4. CASE x # y
    <3>1. s \ {x} \in Small(S, n) /\ s \ {y} \in Small(S, n)
      BY <2>1, SmallerWithout
    <3>2. y \in s \ {x} /\ x \in s \ {y}
      BY <2>1, <2>4
    <3> DEFINE r == s \ {x, y}
    <3>3. (s \ {x}) \ {y} = r /\ (s \ {y}) \ {x} = r
      OBVIOUS
    <3>4. /\ Total(s \ {x}, tokens) = tokens[y] + Total((s \ {x}) \ {y}, tokens)
          /\ Total(s \ {y}, tokens) = tokens[x] + Total((s \ {y}) \ {x}, tokens)
      <4>1. Removes(s \ {x}) /\ Removes(s \ {y})
        BY <1>2, <3>1
      <4> QED BY <3>2, <4>1
    <3>5. r \in SUBSET S /\ tokens[x] \in Nat /\ tokens[y] \in Nat
      BY <2>1
    <3>6. Total(r, tokens) \in Nat
      BY <3>5, TotalIsNat
    <3> HIDE DEF r
    <3> QED BY <2>2, <3>3, <3>4, <3>5, <3>6
  <2> QED BY <2>3, <2>4
<1> HIDE DEF R
<1>3. Cardinality(S) \in R /\ Small(S, Cardinality(S)) = SUBSET S
  BY <1>1, <1>2, SizesAreReached
<1> QED BY <1>3 DEF R

(* The tokens of one more item are added, and what else has tokens does    *)
(* not count.                                                              *)
LEMMA TotalWith ==
    ASSUME NEW S, IsFiniteSet(S), NEW x, x \notin S,
           NEW tokens, \A y \in S \cup {x} : tokens[y] \in Nat
    PROVE  Total(S \cup {x}, tokens) = Total(S, tokens) + tokens[x]
<1> DEFINE T == S \cup {x}
<1>1. IsFiniteSet(T)
  BY FS_AddElement
<1>2. x \in T /\ T \ {x} = S /\ S \in SUBSET T
  OBVIOUS
<1> HIDE DEF T
<1>3. \A y \in T : tokens[y] \in Nat
  BY DEF T
<1>4. Total(T, tokens) = tokens[x] + Total(S, tokens)
  BY <1>1, <1>2, <1>3, TotalWithout
<1>5. Total(S, tokens) \in Nat /\ tokens[x] \in Nat
  BY <1>1, <1>2, <1>3, TotalIsNat
<1> QED BY <1>4, <1>5 DEF T

LEMMA TotalOfSame ==
    ASSUME NEW S, NEW t, NEW u, \A x \in S : t[x] = u[x]
    PROVE  Total(S, t) = Total(S, u)
<1>1. [label \in S |-> t[label]] = [label \in S |-> u[label]]
  OBVIOUS
<1> QED BY <1>1 DEF Total

-----------------------------------------------------------------------------
(* The order of the items: a strict total order with the memory last.       *)

Items == Range(Labels)

LEMMA RankIsPlace ==
    ASSUME NEW order, NEW value \in Range(order)
    PROVE  Rank(value, order) \in DOMAIN order /\ order[Rank(value, order)] = value
<1>1. \E i \in DOMAIN order : order[i] = value
  BY DEF Range
<1> QED BY <1>1 DEF Rank

LEMMA LabelPlaces == DOMAIN Labels = 1 .. 14
BY DEF Labels

LEMMA ItemsAreFinite == IsFiniteSet(Items)
<1>1. IsFiniteSet(1 .. 14)
  <2>1. 1 \in Int /\ 14 \in Int
    OBVIOUS
  <2> QED BY <2>1, FS_Interval, Zenon
<1>2. DOMAIN Labels = 1 .. 14
  BY LabelPlaces
<1>3. Labels \in Surjection(1 .. 14, Range(Labels))
  <2>1. Labels = [i \in 1 .. 14 |-> Labels[i]]
    BY DEF Labels
  <2>2. \A v \in Range(Labels) : \E i \in 1 .. 14 : Labels[i] = v
    BY <1>2 DEF Range
  <2>3. \A i \in 1 .. 14 : Labels[i] \in Range(Labels)
    BY <1>2 DEF Range
  <2>4. Labels \in [1 .. 14 -> Range(Labels)]
    BY <2>1, <2>3, Zenon
  <2> QED BY <2>2, <2>4 DEF Surjection
<1> QED BY <1>1, <1>3, FS_Surjection DEF Items

(* No item of a request is refused by the contract of ContextItem.          *)
LEMMA ItemsAreConstructible == \A label \in Items : Constructible(label)
<1> SUFFICES ASSUME NEW label \in Items PROVE Constructible(label)
  OBVIOUS
<1>1. PICK i \in 1 .. 14 : label = Labels[i]
  BY LabelPlaces DEF Items, Range
<1>2. label \in {"conversation-memory", "data-answer-evidence", "data-answer-summary",
      "data-skill-instruction", "knowledge-answer-evidence",
      "knowledge-answer-summary", "knowledge-skill-instruction",
      "mixed-data-answer-summary", "mixed-data-evidence",
      "mixed-knowledge-answer-summary", "mixed-knowledge-evidence",
      "router-decision", "router-instruction", "user-request"}
  BY <1>1 DEF Labels
<1> QED
  BY <1>2 DEF Constructible, Kind, Source, Trust, Memory, SkillInstructions, AnswerSummaries,
              MixedSummaries, DataItems, KnowledgeItems

(* The places of an item: that of its trust and that of its label.         *)
TrustPlace(a) == Rank(Trust(a), TrustPriority)
LabelPlace(a) == Rank(a, Labels)

LEMMA TrustPlaces ==
    ASSUME NEW a
    PROVE  /\ TrustPlace(a) \in 1 .. 5
           /\ TrustPriority[TrustPlace(a)] = Trust(a)
           /\ (a = Memory) <=> (TrustPlace(a) = 5)
<1>1. /\ DOMAIN TrustPriority = 1 .. 5
      /\ TrustPriority[1] = "trusted_system" /\ TrustPriority[2] = "verified_internal"
      /\ TrustPriority[4] = "untrusted_user" /\ TrustPriority[5] = "untrusted_external"
  BY DEF TrustPriority
<1>2. /\ Trust(a) \in {"trusted_system", "verified_internal", "untrusted_user", "untrusted_external"}
      /\ a = Memory <=> Trust(a) = "untrusted_external"
  BY DEF Trust, Memory
<1>3. Trust(a) \in Range(TrustPriority)
  BY <1>1, <1>2 DEF Range
<1>4. TrustPlace(a) \in 1 .. 5 /\ TrustPriority[TrustPlace(a)] = Trust(a)
  BY <1>1, <1>3, RankIsPlace DEF TrustPlace
<1>5. Trust(a) = "untrusted_external" => TrustPlace(a) = 5
  <2>1. TrustPriority[3] = "trusted_tool_result"
    BY DEF TrustPriority
  <2> HIDE DEF TrustPlace
  <2> QED BY <1>1, <1>4, <2>1
<1> QED BY <1>1, <1>2, <1>4, <1>5

LEMMA LabelPlaceOf ==
    ASSUME NEW a \in Items
    PROVE  LabelPlace(a) \in Nat /\ Labels[LabelPlace(a)] = a
BY RankIsPlace, LabelPlaces DEF LabelPlace, Items

LEMMA PrecedesByPlace ==
    ASSUME NEW a, NEW b
    PROVE  Precedes(a, b) <=>
               \/ TrustPlace(a) < TrustPlace(b)
               \/ TrustPlace(a) = TrustPlace(b) /\ LabelPlace(a) < LabelPlace(b)
<1>1. Trust(a) = Trust(b) <=> TrustPlace(a) = TrustPlace(b)
  <2>1. Trust(a) = Trust(b) => TrustPlace(a) = TrustPlace(b)
    BY DEF TrustPlace
  <2>2. TrustPlace(a) = TrustPlace(b) => Trust(a) = Trust(b)
    BY TrustPlaces
  <2> QED BY <2>1, <2>2
<1> QED BY <1>1 DEF Precedes, TrustPlace, LabelPlace

LEMMA PrecedesIsStrict ==
    ASSUME NEW a \in Items, NEW b \in Items, NEW c \in Items
    PROVE  /\ ~Precedes(a, a)
           /\ a # b => Precedes(a, b) \/ Precedes(b, a)
           /\ Precedes(a, b) /\ Precedes(b, c) => Precedes(a, c)
<1>1. /\ TrustPlace(a) \in 1 .. 5 /\ TrustPlace(b) \in 1 .. 5 /\ TrustPlace(c) \in 1 .. 5
  BY TrustPlaces
<1>2. LabelPlace(a) \in Nat /\ LabelPlace(b) \in Nat /\ LabelPlace(c) \in Nat
  BY LabelPlaceOf
<1>3. a # b => LabelPlace(a) # LabelPlace(b)
  BY LabelPlaceOf
<1> QED BY <1>1, <1>2, <1>3, PrecedesByPlace

LEMMA MemoryIsLast ==
    ASSUME NEW a, a # Memory
    PROVE  Precedes(a, Memory) /\ ~Precedes(Memory, a)
<1>1. TrustPlace(a) \in 1 .. 5 /\ TrustPlace(Memory) = 5 /\ TrustPlace(a) # 5
  BY TrustPlaces
<1> QED BY <1>1, PrecedesByPlace

(* Sorted.                                                                 *)
Before(S, a) == {b \in S : Precedes(b, a)}

LEMMA BeforeSize ==
    ASSUME NEW S \in SUBSET Items, NEW a \in S
    PROVE  /\ IsFiniteSet(S) /\ IsFiniteSet(Before(S, a))
           /\ Cardinality(S) \in Nat /\ Cardinality(Before(S, a)) \in Nat
           /\ Cardinality(Before(S, a)) < Cardinality(S)
<1>1. IsFiniteSet(S)
  BY ItemsAreFinite, FS_Subset
<1>2. Before(S, a) \in SUBSET S /\ a \notin Before(S, a)
  BY PrecedesIsStrict DEF Before
<1>3. /\ IsFiniteSet(Before(S, a)) /\ Cardinality(Before(S, a)) <= Cardinality(S)
      /\ Cardinality(S) = Cardinality(Before(S, a)) => S = Before(S, a)
  BY <1>1, <1>2, FS_Subset
<1>4. Cardinality(S) \in Nat /\ Cardinality(Before(S, a)) \in Nat
  BY <1>1, <1>3, FS_CardinalityType
<1> QED BY <1>1, <1>2, <1>3, <1>4

LEMMA BeforeGrows ==
    ASSUME NEW S \in SUBSET Items, NEW a \in S, NEW b \in S, Precedes(a, b)
    PROVE  Cardinality(Before(S, a)) < Cardinality(Before(S, b))
<1>1. Before(S, a) \in SUBSET Before(S, b) /\ a \in Before(S, b) /\ a \notin Before(S, a)
  BY PrecedesIsStrict DEF Before
<1>2. /\ IsFiniteSet(Before(S, b))
      /\ Cardinality(Before(S, a)) \in Nat /\ Cardinality(Before(S, b)) \in Nat
  BY BeforeSize
<1>3. /\ Cardinality(Before(S, a)) <= Cardinality(Before(S, b))
      /\ Cardinality(Before(S, b)) = Cardinality(Before(S, a)) => Before(S, b) = Before(S, a)
  BY <1>1, <1>2, FS_Subset
<1> QED BY <1>1, <1>2, <1>3

(* Every place has its item.                                               *)
LEMMA PlacesAreTaken ==
    ASSUME NEW S \in SUBSET Items, NEW i \in 1 .. Cardinality(S)
    PROVE  \E a \in S : Cardinality(Before(S, a)) = i - 1
<1> DEFINE n == Cardinality(S)
<1> DEFINE T == 0 .. n - 1
<1> DEFINE f == [a \in S |-> Cardinality(Before(S, a))]
<1>1. IsFiniteSet(S) /\ n \in Nat
  BY ItemsAreFinite, FS_Subset, FS_CardinalityType
<1>2. IsFiniteSet(T) /\ Cardinality(T) = n
  <2>1. n - 1 \in Int /\ (n - 1) - 0 + 1 = n /\ (0 > n - 1 => n = 0)
    BY <1>1
  <2>2. IsFiniteSet(0 .. n - 1) /\ Cardinality(0 .. n - 1) = IF 0 > n - 1 THEN 0 ELSE (n - 1) - 0 + 1
    BY <2>1, FS_Interval
  <2> QED BY <2>1, <2>2
<1>3. f \in [S -> T]
  <2>1. \A a \in S : Cardinality(Before(S, a)) \in T
    BY <1>1, BeforeSize
  <2> QED BY <2>1
<1>4. \A a, b \in S : f[a] = f[b] => a = b
  <2> SUFFICES ASSUME NEW a \in S, NEW b \in S, a # b PROVE f[a] # f[b]
    OBVIOUS
  <2>1. Precedes(a, b) \/ Precedes(b, a)
    BY PrecedesIsStrict
  <2>2. Cardinality(Before(S, a)) \in Nat /\ Cardinality(Before(S, b)) \in Nat
    BY BeforeSize
  <2>3. \/ Cardinality(Before(S, a)) < Cardinality(Before(S, b))
        \/ Cardinality(Before(S, b)) < Cardinality(Before(S, a))
    BY <2>1, BeforeGrows
  <2>4. f[a] = Cardinality(Before(S, a)) /\ f[b] = Cardinality(Before(S, b))
    OBVIOUS
  <2> QED BY <2>2, <2>3, <2>4
<1> HIDE DEF f, T
<1>5. f \in Injection(S, T)
  BY <1>3, <1>4 DEF Injection, IsInjective
<1>6. f \in Surjection(S, T)
  BY <1>2, <1>5, FS_Injection
<1>7. i - 1 \in T
  BY <1>1 DEF T
<1>8. PICK a \in S : f[a] = i - 1
  BY <1>6, <1>7 DEF Surjection
<1> QED BY <1>8 DEF f

LEMMA SortedIsSequence ==
    ASSUME NEW S \in SUBSET Items
    PROVE  Sorted(S) \in Seq(S) /\ Len(Sorted(S)) = Cardinality(S) /\ Cardinality(S) \in Nat
<1>1. Cardinality(S) \in Nat
  BY ItemsAreFinite, FS_Subset, FS_CardinalityType
<1>2. \A i \in 1 .. Cardinality(S) :
        (CHOOSE a \in S : Cardinality(Before(S, a)) = i - 1) \in S
  BY PlacesAreTaken
<1>3. Sorted(S) = [i \in 1 .. Cardinality(S) |-> CHOOSE a \in S : Cardinality(Before(S, a)) = i - 1]
  BY DEF Sorted, Before
<1> DEFINE At(i) == CHOOSE a \in S : Cardinality(Before(S, a)) = i - 1
<1>4. Sorted(S) = [i \in 1 .. Cardinality(S) |-> At(i)] /\ \A i \in 1 .. Cardinality(S) : At(i) \in S
  BY <1>2, <1>3
<1> HIDE DEF At
<1> QED BY <1>1, <1>4

(* A memory comes after everything else a request has.                     *)
LEMMA SortedWithMemory ==
    ASSUME NEW S \in SUBSET Items, Memory \notin S
    PROVE  /\ S \cup {Memory} \in SUBSET Items
           /\ Len(Sorted(S \cup {Memory})) = Len(Sorted(S)) + 1
           /\ \A i \in 1 .. Len(Sorted(S)) : Sorted(S \cup {Memory})[i] = Sorted(S)[i]
           /\ Sorted(S \cup {Memory})[Len(Sorted(S)) + 1] = Memory
<1> DEFINE M == S \cup {Memory}
<1> DEFINE n == Cardinality(S)
<1>0. Memory \in Items
  <2>1. Labels[1] = Memory
    BY DEF Labels, Memory
  <2> QED BY <2>1, LabelPlaces DEF Range, Items
<1>1. M \in SUBSET Items
  BY <1>0
<1>2. Cardinality(M) = n + 1 /\ n \in Nat
  BY ItemsAreFinite, FS_Subset, FS_AddElement, FS_CardinalityType
<1>3. Before(M, Memory) = S
  BY MemoryIsLast, PrecedesIsStrict, <1>0 DEF Before
<1>4. \A a \in S : Before(M, a) = Before(S, a)
  BY MemoryIsLast DEF Before
<1>5. \A a \in S : Cardinality(Before(S, a)) \in Nat /\ Cardinality(Before(S, a)) < n
  BY BeforeSize
<1>6. /\ Len(Sorted(S)) = n /\ Len(Sorted(M)) = n + 1
  BY <1>1, <1>2, SortedIsSequence
<1>7. ASSUME NEW i \in 1 .. n PROVE Sorted(M)[i] = Sorted(S)[i]
  <2>1. \A a : (a \in M /\ Cardinality(Before(M, a)) = i - 1)
               <=> (a \in S /\ Cardinality(Before(S, a)) = i - 1)
    <3>1. n # i - 1
      BY <1>2
    <3> QED BY <1>3, <1>4, <3>1
  <2>2. (CHOOSE a \in M : Cardinality(Before(M, a)) = i - 1)
          = (CHOOSE a \in S : Cardinality(Before(S, a)) = i - 1)
    BY <2>1
  <2>3. i \in 1 .. n + 1
    BY <1>2
  <2> HIDE DEF M
  <2>4. Sorted(M)[i] = CHOOSE a \in M : Cardinality(Before(M, a)) = i - 1
    BY <1>2, <2>3 DEF Sorted, Before
  <2>5. Sorted(S)[i] = CHOOSE a \in S : Cardinality(Before(S, a)) = i - 1
    BY DEF Sorted, Before
  <2> QED BY <2>2, <2>4, <2>5
<1>8. Sorted(M)[n + 1] = Memory
  <2>1. \A a \in M : Cardinality(Before(M, a)) = n <=> a = Memory
    BY <1>2, <1>3, <1>4, <1>5
  <2>2. Memory \in M /\ n + 1 \in 1 .. n + 1 /\ (n + 1) - 1 = n
    BY <1>2
  <2> HIDE DEF M, n
  <2>3. Sorted(M)[n + 1] = CHOOSE a \in M : Cardinality(Before(M, a)) = n
    BY <1>2, <2>2 DEF Sorted, Before
  <2> QED BY <2>1, <2>2, <2>3
<1> QED BY <1>1, <1>6, <1>7, <1>8

-----------------------------------------------------------------------------
(* Select, with and without a memory.                                      *)

(* What has been taken after each of n candidates.                         *)
Takes(g, node, tokens, candidates, n) ==
    g = [i \in 0 .. n |-> IF i = 0 THEN Required(node)
                          ELSE Take(node, tokens, g[i - 1], candidates[i])]

LEMMA TakingRecurs ==
    ASSUME NEW node, NEW tokens, NEW S, NEW candidates \in Seq(S)
    PROVE  \E g : /\ Takes(g, node, tokens, candidates, Len(candidates))
                  /\ Taking(node, tokens, candidates) = g[Len(candidates)]
<1> DEFINE n == Len(candidates)
<1> DEFINE R == {m \in Nat : \E g : Takes(g, node, tokens, candidates, m)}
<1>1. 0 \in R
  <2> DEFINE g == [i \in 0 .. 0 |-> Required(node)]
  <2>1. Takes(g, node, tokens, candidates, 0)
    BY DEF Takes
  <2> QED BY <2>1
<1>2. ASSUME NEW m \in Nat, m \in R PROVE m + 1 \in R
  <2>1. PICK f : Takes(f, node, tokens, candidates, m)
    BY <1>2
  <2> DEFINE g == [i \in 0 .. m + 1 |-> IF i <= m THEN f[i]
                                        ELSE Take(node, tokens, f[m], candidates[m + 1])]
  <2> DEFINE h == [i \in 0 .. m + 1 |-> IF i = 0 THEN Required(node)
                                        ELSE Take(node, tokens, g[i - 1], candidates[i])]
  <2>2. ASSUME NEW i \in 0 .. m + 1 PROVE g[i] = h[i]
    <3>1. CASE i = 0
      BY <2>1, <3>1 DEF Takes
    <3>2. CASE i \in 1 .. m
      <4>1. g[i] = f[i] /\ g[i - 1] = f[i - 1]
        BY <3>2
      <4>2. f[i] = Take(node, tokens, f[i - 1], candidates[i])
        BY <2>1, <3>2 DEF Takes
      <4> QED BY <3>2, <4>1, <4>2
    <3>3. CASE i = m + 1
      <4>1. g[i] = Take(node, tokens, f[m], candidates[i]) /\ g[i - 1] = f[m] /\ i # 0
        BY <3>3
      <4> QED BY <4>1
    <3> QED BY <3>1, <3>2, <3>3
  <2>3. g = h
    BY <2>2
  <2> HIDE DEF g
  <2>4. Takes(g, node, tokens, candidates, m + 1)
    BY <2>3 DEF Takes
  <2> QED BY <2>4
<1> HIDE DEF R
<1>3. n \in R
  BY <1>1, <1>2, NatsAreReached
<1>4. PICK f : Takes(f, node, tokens, candidates, n)
  BY <1>3 DEF R
<1> DEFINE taken == CHOOSE g : g = [i \in 0 .. n |-> IF i = 0 THEN Required(node)
                                     ELSE Take(node, tokens, g[i - 1], candidates[i])]
<1>5. Takes(taken, node, tokens, candidates, n)
  BY <1>4, Zenon DEF Takes
<1>6. Taking(node, tokens, candidates) = taken[n]
  BY DEF Taking
<1> HIDE DEF taken
<1> QED BY <1>5, <1>6

LEMMA TakesGoOn ==
    ASSUME NEW g, NEW node, NEW tokens, NEW candidates, NEW n \in Nat,
           Takes(g, node, tokens, candidates, n)
    PROVE  /\ g[0] = Required(node)
           /\ \A i \in 0 .. n - 1 : g[i + 1] = Take(node, tokens, g[i], candidates[i + 1])
<1>1. g[0] = Required(node)
  BY DEF Takes
<1>2. ASSUME NEW i \in 0 .. n - 1
      PROVE  g[i + 1] = Take(node, tokens, g[i], candidates[i + 1])
  <2>1. i + 1 \in 0 .. n /\ i + 1 # 0 /\ (i + 1) - 1 = i
    OBVIOUS
  <2>2. g[i + 1] = Take(node, tokens, g[(i + 1) - 1], candidates[i + 1])
    BY <2>1 DEF Takes
  <2> QED BY <2>1, <2>2
<1> QED BY <1>1, <1>2

(* A request that a node can be shown something of.                        *)
Selectable(node, tokens) ==
    /\ Required(node) \subseteq DOMAIN tokens
    /\ \A label \in Required(node) : Eligible(label, node)
    /\ Total(Required(node), tokens) <= Available(node)

WithinBudget(node, tokens, taken) ==
    /\ Required(node) \subseteq taken
    /\ taken \subseteq DOMAIN tokens
    /\ Total(taken, tokens) <= Available(node)

LEMMA AvailableIsNat ==
    ASSUME NEW node \in Nodes PROVE Available(node) \in Nat
BY DEF Available, Nodes

LEMMA TakeKeeps ==
    ASSUME NEW node \in Nodes, NEW items \in SUBSET Items, NEW tokens \in [items -> Nat],
           NEW taken, WithinBudget(node, tokens, taken), NEW label \in items
    PROVE  WithinBudget(node, tokens, Take(node, tokens, taken, label))
<1>1. CASE Eligible(label, node) /\ Total(taken, tokens) + tokens[label] <= Available(node)
  <2>1. Take(node, tokens, taken, label) = taken \cup {label}
    BY <1>1 DEF Take
  <2>2. CASE label \in taken
    <3>1. taken \cup {label} = taken
      BY <2>2
    <3> QED BY <2>1, <3>1
  <2>3. CASE label \notin taken
    <3>1. IsFiniteSet(taken) /\ taken \subseteq items
      BY ItemsAreFinite, FS_Subset DEF WithinBudget
    <3>2. \A y \in taken \cup {label} : tokens[y] \in Nat
      BY <3>1
    <3>3. Total(taken \cup {label}, tokens) = Total(taken, tokens) + tokens[label]
      BY <2>3, <3>1, <3>2, TotalWith
    <3> QED BY <1>1, <2>1, <3>1, <3>3 DEF WithinBudget
  <2> QED BY <2>2, <2>3
<1>2. CASE ~(Eligible(label, node) /\ Total(taken, tokens) + tokens[label] <= Available(node))
  BY <1>2 DEF Take
<1> QED BY <1>1, <1>2

LEMMA TakingKeeps ==
    ASSUME NEW node \in Nodes, NEW items \in SUBSET Items, NEW tokens \in [items -> Nat],
           Selectable(node, tokens), NEW candidates \in Seq(items),
           NEW g, Takes(g, node, tokens, candidates, Len(candidates))
    PROVE  \A i \in 0 .. Len(candidates) : WithinBudget(node, tokens, g[i])
<1> DEFINE n == Len(candidates)
<1> DEFINE R == {i \in Nat : i <= n => WithinBudget(node, tokens, g[i])}
<1>0. n \in Nat
  OBVIOUS
<1>1. 0 \in R
  <2>1. g[0] = Required(node)
    BY <1>0, TakesGoOn
  <2> QED BY <2>1 DEF WithinBudget, Selectable
<1>2. ASSUME NEW i \in Nat, i \in R PROVE i + 1 \in R
  <2> SUFFICES ASSUME i + 1 <= n PROVE WithinBudget(node, tokens, g[i + 1])
    OBVIOUS
  <2>1. i \in 0 .. n - 1 /\ i <= n /\ i + 1 \in 1 .. n
    BY <1>0
  <2>2. candidates[i + 1] \in items
    BY <2>1
  <2>3. g[i + 1] = Take(node, tokens, g[i], candidates[i + 1])
    BY <1>0, <2>1, TakesGoOn
  <2>4. WithinBudget(node, tokens, g[i])
    BY <1>2, <2>1
  <2> QED BY <2>2, <2>3, <2>4, TakeKeeps
<1> HIDE DEF R
<1>3. Nat \subseteq R
  BY <1>1, <1>2, NatsAreReached
<1> QED BY <1>0, <1>3 DEF R

(* A selection is within its budget and has the required items.            *)
LEMMA SelectKeeps ==
    ASSUME NEW node \in Nodes, NEW items \in SUBSET Items, NEW tokens \in [items -> Nat],
           Selectable(node, tokens)
    PROVE  /\ Select(node, tokens) = Taking(node, tokens, Sorted(items \ Required(node)))
           /\ WithinBudget(node, tokens, Select(node, tokens))
<1> DEFINE candidates == Sorted(items \ Required(node))
<1>1. DOMAIN tokens = items
  OBVIOUS
<1>2. Select(node, tokens) = Taking(node, tokens, candidates)
  BY <1>1 DEF Select, Selectable
<1>3. candidates \in Seq(items)
  <2>1. items \ Required(node) \in SUBSET Items
    OBVIOUS
  <2>2. candidates \in Seq(items \ Required(node))
    BY <2>1, SortedIsSequence
  <2> QED BY <2>2
<1> HIDE DEF candidates
<1>4. PICK g : /\ Takes(g, node, tokens, candidates, Len(candidates))
               /\ Taking(node, tokens, candidates) = g[Len(candidates)]
  BY <1>3, TakingRecurs
<1>5. Len(candidates) \in 0 .. Len(candidates)
  BY <1>3
<1>6. WithinBudget(node, tokens, g[Len(candidates)])
  BY <1>3, <1>4, <1>5, TakingKeeps
<1> QED BY <1>2, <1>4, <1>6 DEF candidates

LEMMA SelectFails ==
    ASSUME NEW node, NEW tokens, ~Selectable(node, tokens)
    PROVE  Select(node, tokens) = Fails
BY DEF Select, Selectable

(* The memory is considered after everything else.                         *)
LEMMA SelectWithMemory ==
    ASSUME NEW node \in Nodes, Memory \notin Required(node),
           NEW items \in SUBSET Items, Memory \notin items,
           NEW tokens \in [items -> Nat], NEW size \in Nat, Selectable(node, tokens),
           Selectable(node, WithMemory(tokens, size))
    PROVE  Select(node, WithMemory(tokens, size))
               = Take(node, WithMemory(tokens, size), Select(node, tokens), Memory)
<1> DEFINE all == items \cup {Memory}
<1> DEFINE u == WithMemory(tokens, size)
<1> DEFINE S == items \ Required(node)
<1> DEFINE c == Sorted(S)
<1> DEFINE d == Sorted(S \cup {Memory})
<1> DEFINE n == Len(c)
<1>1. S \in SUBSET Items /\ Memory \notin S /\ all \ Required(node) = S \cup {Memory}
  OBVIOUS
<1>2. /\ S \cup {Memory} \in SUBSET Items
      /\ Len(d) = n + 1 /\ d[n + 1] = Memory /\ \A i \in 1 .. n : d[i] = c[i]
  BY <1>1, SortedWithMemory
<1>3. c \in Seq(S) /\ d \in Seq(S \cup {Memory}) /\ n \in Nat
  BY <1>1, <1>2, SortedIsSequence
<1>4. c \in Seq(items) /\ d \in Seq(all) /\ \A i \in 1 .. n : c[i] \in items
  <2>1. S \subseteq items /\ S \cup {Memory} \subseteq all
    OBVIOUS
  <2> HIDE DEF S, all, c, d
  <2>2. c \in Seq(items) /\ d \in Seq(all)
    BY <1>3, <2>1
  <2> QED BY <2>2
<1>5. Memory \in Items /\ all \in SUBSET Items
  BY <1>2
<1>6. u \in [all -> Nat] /\ u[Memory] = size /\ \A x \in items : u[x] = tokens[x]
  BY DEF WithMemory
<1> HIDE DEF u, c, d
<1>7. /\ Select(node, tokens) = Taking(node, tokens, c)
      /\ Select(node, u) = Taking(node, u, d)
  <2>1. Select(node, tokens) = Taking(node, tokens, c)
    BY SelectKeeps DEF c
  <2>2. Select(node, u) = Taking(node, u, Sorted(all \ Required(node)))
    BY <1>5, <1>6, SelectKeeps DEF u
  <2> QED BY <1>1, <2>1, <2>2 DEF d
<1>8. PICK g : Takes(g, node, tokens, c, n) /\ Taking(node, tokens, c) = g[n]
  BY <1>4, TakingRecurs
<1>9. PICK h : Takes(h, node, u, d, n + 1) /\ Taking(node, u, d) = h[n + 1]
  BY <1>2, <1>4, TakingRecurs
<1>10. \A i \in 0 .. n : WithinBudget(node, tokens, g[i])
  BY <1>4, <1>8, TakingKeeps
<1> DEFINE R == {i \in Nat : i <= n => h[i] = g[i]}
<1>11. g[0] = Required(node) /\ \A i \in 0 .. n - 1 : g[i + 1] = Take(node, tokens, g[i], c[i + 1])
  BY <1>3, <1>8, TakesGoOn
<1>12. /\ h[0] = Required(node)
       /\ \A i \in 0 .. n : h[i + 1] = Take(node, u, h[i], d[i + 1])
  <2>1. n + 1 \in Nat /\ (n + 1) - 1 = n
    BY <1>3
  <2> QED BY <1>9, <2>1, TakesGoOn
<1>13. 0 \in R
  BY <1>11, <1>12
<1>14. ASSUME NEW i \in Nat, i \in R PROVE i + 1 \in R
  <2> SUFFICES ASSUME i + 1 <= n PROVE h[i + 1] = g[i + 1]
    OBVIOUS
  <2>1. i \in 0 .. n - 1 /\ i \in 0 .. n /\ i <= n /\ i + 1 \in 1 .. n
    BY <1>3
  <2>2. h[i] = g[i]
    BY <1>14, <2>1
  <2>3. d[i + 1] = c[i + 1] /\ c[i + 1] \in items
    BY <1>2, <1>4, <2>1
  <2>4. g[i] \subseteq items
    BY <1>10, <2>1 DEF WithinBudget
  <2>5. Total(g[i], u) = Total(g[i], tokens) /\ u[c[i + 1]] = tokens[c[i + 1]]
    BY <1>6, <2>3, <2>4, TotalOfSame
  <2>6. Take(node, u, g[i], c[i + 1]) = Take(node, tokens, g[i], c[i + 1])
    BY <2>5 DEF Take
  <2> QED BY <1>11, <1>12, <2>1, <2>2, <2>3, <2>6
<1> HIDE DEF R
<1>15. n \in R
  BY <1>3, <1>13, <1>14, NatsAreReached
<1>16. h[n] = g[n]
  BY <1>3, <1>15 DEF R
<1>17. h[n + 1] = Take(node, u, h[n], d[n + 1])
  BY <1>3, <1>12
<1> QED BY <1>2, <1>7, <1>8, <1>9, <1>16, <1>17 DEF u

(* A memory changes neither whether a node can be shown something...        *)
LEMMA SelectableWithMemory ==
    ASSUME NEW node, Memory \notin Required(node),
           NEW items, Memory \notin items, NEW tokens \in [items -> Nat], NEW size \in Nat
    PROVE  Selectable(node, WithMemory(tokens, size)) <=> Selectable(node, tokens)
<1> DEFINE u == WithMemory(tokens, size)
<1>1. DOMAIN u = items \cup {Memory} /\ DOMAIN tokens = items /\ \A x \in items : u[x] = tokens[x]
  BY DEF WithMemory
<1> HIDE DEF u
<1>2. Required(node) \subseteq DOMAIN u <=> Required(node) \subseteq items
  BY <1>1
<1>3. Required(node) \subseteq items => Total(Required(node), u) = Total(Required(node), tokens)
  BY <1>1, TotalOfSame
<1> QED BY <1>1, <1>2, <1>3 DEF Selectable, u

(* ... nor what else it is shown, and it is shown where there is room.      *)
LEMMA MemoryIsShownWhereItFits ==
    ASSUME NEW node \in Nodes, Memory \notin Required(node),
           NEW items \in SUBSET Items, Memory \notin items,
           NEW tokens \in [items -> Nat], NEW size \in Nat, Selectable(node, tokens),
           NEW shown, shown = Select(node, WithMemory(tokens, size))
    PROVE  /\ shown \ {Memory} = Select(node, tokens)
           /\ WithinBudget(node, WithMemory(tokens, size), shown)
           /\ Memory \in shown <=> /\ Eligible(Memory, node)
                                   /\ Total(shown \ {Memory}, tokens) + size <= Available(node)
<1> DEFINE u == WithMemory(tokens, size)
<1> DEFINE plain == Select(node, tokens)
<1>1. Memory \in Items
  BY SortedWithMemory
<1>2. u \in [items \cup {Memory} -> Nat] /\ u[Memory] = size /\ \A x \in items : u[x] = tokens[x]
  BY DEF WithMemory
<1>3. Selectable(node, u)
  BY SelectableWithMemory
<1>4. shown = Take(node, u, plain, Memory)
  BY <1>3, SelectWithMemory
<1>5. WithinBudget(node, tokens, plain)
  BY SelectKeeps
<1>6. plain \subseteq items
  BY <1>5 DEF WithinBudget
<1>7. WithinBudget(node, u, shown)
  <2>1. items \cup {Memory} \in SUBSET Items
    BY <1>1
  <2> HIDE DEF u
  <2> QED BY <1>2, <1>3, <2>1, SelectKeeps DEF u
<1> HIDE DEF u, plain
<1>8. Total(plain, u) = Total(plain, tokens)
  BY <1>2, <1>6, TotalOfSame
<1>9. shown = IF Eligible(Memory, node) /\ Total(plain, tokens) + size <= Available(node)
              THEN plain \cup {Memory} ELSE plain
  BY <1>2, <1>4, <1>8 DEF Take
<1>10. shown \ {Memory} = plain
  BY <1>6, <1>9
<1>11. Memory \in shown <=> Eligible(Memory, node) /\ Total(plain, tokens) + size <= Available(node)
  BY <1>6, <1>9
<1> QED BY <1>7, <1>10, <1>11 DEF u, plain

LEMMA LabelsAreItems ==
    /\ {"user-request", "router-instruction", "router-decision", "data-skill-instruction",
        "knowledge-skill-instruction", "data-answer-summary", "data-answer-evidence"} \subseteq Items
    /\ Memory \in Items
<1>1. /\ Labels[1] = Memory /\ Labels[2] = "data-answer-evidence"
      /\ Labels[3] = "data-answer-summary" /\ Labels[4] = "data-skill-instruction"
      /\ Labels[7] = "knowledge-skill-instruction" /\ Labels[12] = "router-decision"
      /\ Labels[13] = "router-instruction" /\ Labels[14] = "user-request"
  BY DEF Labels, Memory
<1>2. \A i \in 1 .. 14 : Labels[i] \in Items
  BY LabelPlaces DEF Items, Range
<1>3. /\ 1 \in 1 .. 14 /\ 2 \in 1 .. 14 /\ 3 \in 1 .. 14 /\ 4 \in 1 .. 14
      /\ 7 \in 1 .. 14 /\ 12 \in 1 .. 14 /\ 13 \in 1 .. 14 /\ 14 \in 1 .. 14
  OBVIOUS
<1> QED BY <1>1, <1>2, <1>3

LEMMA SelectionsAreOfItems ==
    ASSUME NEW s \in Selections
    PROVE  s[1] \in Nodes /\ s[2] \in SUBSET Items /\ Memory \notin s[2]
<1> USE DEF RouterItems, CoordinatorItems, DataSkillItems, KnowledgeSkillItems, AfterDataItems,
            SynthesisItems, Memory
<1>1. RouterItems \in SUBSET Items /\ Memory \notin RouterItems
  BY LabelsAreItems
<1>2. CoordinatorItems \in SUBSET Items /\ Memory \notin CoordinatorItems
  BY LabelsAreItems
<1>3. DataSkillItems \in SUBSET Items /\ Memory \notin DataSkillItems
  BY LabelsAreItems
<1>4. KnowledgeSkillItems \in SUBSET Items /\ Memory \notin KnowledgeSkillItems
  BY LabelsAreItems
<1>5. AfterDataItems \in SUBSET Items /\ Memory \notin AfterDataItems
  BY LabelsAreItems
<1>6. SynthesisItems \in SUBSET Items /\ Memory \notin SynthesisItems
  BY DEF Items
<1>7. {"router", "coordinator", "data", "knowledge", "mixed_synthesis"} = Nodes
  BY DEF Nodes
<1> HIDE DEF RouterItems, CoordinatorItems, DataSkillItems, KnowledgeSkillItems, AfterDataItems,
             SynthesisItems, Memory
<1> QED BY <1>1, <1>2, <1>3, <1>4, <1>5, <1>6, <1>7 DEF Selections

LEMMA WhereMemoryIsEligible ==
    ASSUME NEW node \in Nodes
    PROVE  /\ Memory \notin Required(node)
           /\ Required(node) # {}
           /\ Eligible(Memory, node) <=> node \in Remembering
           /\ node \in {"coordinator", "mixed_synthesis"} => node \notin Remembering
<1>1. Kind(Memory) = "conversation_memory"
  BY DEF Kind, Memory, SkillInstructions, AnswerSummaries, MixedSummaries, DataItems, KnowledgeItems
<1>2. Trust(Memory) = "untrusted_external"
  BY DEF Trust, Memory
<1>3. node \in Remembering => Kind(Memory) \in AllowedKinds(node)
  BY <1>1 DEF AllowedKinds, Remembering
<1>4. Trust(Memory) \in AllowedTrusts(node) <=> node \in Remembering
  BY <1>2 DEF AllowedTrusts
<1>5. Memory \notin Required(node) /\ "user-request" \in Required(node)
  BY DEF Required, Memory, Nodes, MixedSummaries
<1>6. node \in {"coordinator", "mixed_synthesis"} => node \notin Remembering
  BY DEF Remembering
<1> QED BY <1>3, <1>4, <1>5, <1>6 DEF Eligible

LEMMA SizesType ==
    ASSUME NEW items, NEW question \in RequestTokens, NEW answer \in AnswerTokens
    PROVE  Sizes(items, question, answer) \in [items -> Nat]
<1>1. question \in Nat /\ answer \in Nat
  BY TokensAssumption
<1>2. ASSUME NEW label PROVE TokensOf(label, question, answer) \in Nat
  BY <1>1 DEF TokensOf, RouterPromptTokens, SkillPromptTokens, DecisionTokens
<1> QED BY <1>2 DEF Sizes

(* A memory displaces nothing, whatever its size: it is the last of the     *)
(* candidates of every node, and no node requires it.                      *)
THEOREM NoMemoryDisplaces == \A size \in Nat : DisplacesNothing(size)
<1> SUFFICES ASSUME NEW size \in Nat, NEW s \in Selections,
                    NEW question \in RequestTokens, NEW answer \in AnswerTokens
             PROVE  LET node == s[1]
                        tokens == Sizes(s[2], question, answer)
                        remembering == WithMemory(tokens, size)
                        shown == Select(node, remembering)
                    IN  /\ shown \ {Memory} = Select(node, tokens)
                        /\ node \in {"coordinator", "mixed_synthesis"} => Memory \notin shown
                        /\ shown # Fails =>
                               /\ Required(node) \subseteq shown
                               /\ Total(shown, remembering) <= Available(node)
                               /\ node \in Remembering =>
                                    (Memory \in Prompted(node, shown)
                                        <=> Total(shown \ {Memory}, tokens) + size <= Available(node))
  BY Zenon DEF DisplacesNothing
<1> DEFINE node == s[1]
<1> DEFINE tokens == Sizes(s[2], question, answer)
<1> DEFINE remembering == WithMemory(tokens, size)
<1> DEFINE shown == Select(node, remembering)
<1> DEFINE items == s[2]
<1> SUFFICES /\ shown \ {Memory} = Select(node, tokens)
             /\ node \in {"coordinator", "mixed_synthesis"} => Memory \notin shown
             /\ shown # Fails =>
                    /\ Required(node) \subseteq shown
                    /\ Total(shown, remembering) <= Available(node)
                    /\ node \in Remembering =>
                         (Memory \in Prompted(node, shown)
                             <=> Total(shown \ {Memory}, tokens) + size <= Available(node))
  OBVIOUS
<1>1. node \in Nodes /\ items \in SUBSET Items /\ Memory \notin items
  BY SelectionsAreOfItems
<1>2. tokens \in [items -> Nat]
  BY SizesType
<1> HIDE DEF node, tokens, items
<1>3. /\ Memory \notin Required(node) /\ (Eligible(Memory, node) <=> node \in Remembering)
      /\ node \in {"coordinator", "mixed_synthesis"} => node \notin Remembering
  BY <1>1, WhereMemoryIsEligible
<1>4. Selectable(node, remembering) <=> Selectable(node, tokens)
  BY <1>1, <1>2, <1>3, SelectableWithMemory
<1> HIDE DEF remembering, shown
<1>5. CASE Selectable(node, tokens)
  <2>1. /\ shown \ {Memory} = Select(node, tokens)
        /\ WithinBudget(node, remembering, shown)
        /\ Memory \in shown <=> /\ Eligible(Memory, node)
                                /\ Total(shown \ {Memory}, tokens) + size <= Available(node)
    BY <1>1, <1>2, <1>3, <1>5, MemoryIsShownWhereItFits DEF remembering, shown
  <2>2. node \in Remembering => (Memory \in Prompted(node, shown) <=> Memory \in shown)
    BY DEF Prompted
  <2> QED BY <1>3, <2>1, <2>2 DEF WithinBudget
<1>6. CASE ~Selectable(node, tokens)
  <2>1. shown = Fails /\ Select(node, tokens) = Fails
    BY <1>4, <1>6, SelectFails DEF shown
  <2>2. shown \ {Memory} = Fails /\ Memory \notin shown
    BY <2>1 DEF Fails
  <2> QED BY <2>1, <2>2
<1> QED BY <1>5, <1>6

-----------------------------------------------------------------------------
(* Project: the newest turns that fit.                                     *)

(* The length of the i newest turns.                                       *)
Renders(g, turns, n) ==
    g = [i \in 0 .. n |-> IF i = 0 THEN 0
                          ELSE g[i - 1] + RenderedTurn(turns[Len(turns) - i + 1])]

LEMMA RenderedRecurs ==
    ASSUME NEW turns \in Seq(Turns)
    PROVE  \E g : Renders(g, turns, Len(turns)) /\ RenderedTurns(turns) = g[Len(turns)]
<1> DEFINE n == Len(turns)
<1> DEFINE R == {m \in Nat : \E g : Renders(g, turns, m)}
<1>1. 0 \in R
  <2> DEFINE g == [i \in 0 .. 0 |-> 0]
  <2>1. Renders(g, turns, 0)
    BY DEF Renders
  <2> QED BY <2>1
<1>2. ASSUME NEW m \in Nat, m \in R PROVE m + 1 \in R
  <2>1. PICK f : Renders(f, turns, m)
    BY <1>2
  <2> DEFINE g == [i \in 0 .. m + 1 |-> IF i <= m THEN f[i]
                                        ELSE f[m] + RenderedTurn(turns[n - i + 1])]
  <2> DEFINE h == [i \in 0 .. m + 1 |-> IF i = 0 THEN 0
                                        ELSE g[i - 1] + RenderedTurn(turns[n - i + 1])]
  <2>2. ASSUME NEW i \in 0 .. m + 1 PROVE g[i] = h[i]
    <3>1. CASE i = 0
      BY <2>1, <3>1 DEF Renders
    <3>2. CASE i \in 1 .. m
      <4>1. g[i] = f[i] /\ g[i - 1] = f[i - 1]
        BY <3>2
      <4>2. f[i] = f[i - 1] + RenderedTurn(turns[n - i + 1])
        BY <2>1, <3>2 DEF Renders
      <4> QED BY <3>2, <4>1, <4>2
    <3>3. CASE i = m + 1
      <4>1. g[i] = f[m] + RenderedTurn(turns[n - i + 1]) /\ g[i - 1] = f[m] /\ i # 0
        BY <3>3
      <4> QED BY <4>1
    <3> QED BY <3>1, <3>2, <3>3
  <2>3. g = h
    BY <2>2
  <2> HIDE DEF g
  <2>4. Renders(g, turns, m + 1)
    BY <2>3 DEF Renders
  <2> QED BY <2>4
<1> HIDE DEF R
<1>3. n \in R
  BY <1>1, <1>2, NatsAreReached
<1>4. PICK f : Renders(f, turns, n)
  BY <1>3 DEF R
<1> DEFINE rendered ==
      CHOOSE g : g = [i \in 0 .. n |-> IF i = 0 THEN 0
                                       ELSE g[i - 1] + RenderedTurn(turns[Len(turns) - i + 1])]
<1>5. Renders(rendered, turns, n)
  BY <1>4, Zenon DEF Renders
<1>6. RenderedTurns(turns) = rendered[n]
  BY DEF RenderedTurns
<1> HIDE DEF rendered
<1> QED BY <1>5, <1>6

LEMMA RendersGoOn ==
    ASSUME NEW turns \in Seq(Turns), NEW n \in 0 .. Len(turns), NEW g, Renders(g, turns, n)
    PROVE  /\ g[0] = 0
           /\ \A i \in 0 .. n - 1 : g[i + 1] = g[i] + RenderedTurn(turns[Len(turns) - i])
           /\ \A i \in 0 .. n : g[i] \in Nat
           /\ \A i \in 0 .. n - 1 : g[i] <= g[i + 1]
<1>1. g[0] = 0
  BY DEF Renders
<1>2. ASSUME NEW i \in 0 .. n - 1
      PROVE  g[i + 1] = g[i] + RenderedTurn(turns[Len(turns) - i])
  <2>1. i + 1 \in 0 .. n /\ i + 1 # 0 /\ (i + 1) - 1 = i /\ Len(turns) - (i + 1) + 1 = Len(turns) - i
    OBVIOUS
  <2>2. g[i + 1] = g[(i + 1) - 1] + RenderedTurn(turns[Len(turns) - (i + 1) + 1])
    BY <2>1 DEF Renders
  <2> QED BY <2>1, <2>2
<1>3. ASSUME NEW i \in 0 .. n - 1 PROVE RenderedTurn(turns[Len(turns) - i]) \in Nat
  <2>1. turns[Len(turns) - i] \in Turns
    OBVIOUS
  <2>2. TurnLength(turns[Len(turns) - i]) \in Nat /\ MarkersIn(turns[Len(turns) - i]) \in Nat
    BY <2>1, LengthsAssumption
  <2> QED BY <2>2 DEF RenderedTurn, TurnTags, HistoricalMark
<1> DEFINE R == {i \in Nat : i <= n => g[i] \in Nat}
<1>4. 0 \in R
  BY <1>1
<1>5. ASSUME NEW i \in Nat, i \in R PROVE i + 1 \in R
  BY <1>2, <1>3, <1>5
<1> HIDE DEF R
<1>6. \A i \in 0 .. n : g[i] \in Nat
  <2>1. Nat \subseteq R
    BY <1>4, <1>5, NatsAreReached
  <2> QED BY <2>1 DEF R
<1>7. ASSUME NEW i \in 0 .. n - 1 PROVE g[i] <= g[i + 1]
  <2>1. g[i] \in Nat
    BY <1>6
  <2> QED BY <1>2, <1>3, <2>1
<1> QED BY <1>1, <1>2, <1>6, <1>7

(* The newest turns are rendered alike, whatever goes before them.         *)
LEMMA RenderedNewest ==
    ASSUME NEW q \in Seq(Turns), NEW g, Renders(g, q, Len(q)), NEW n \in 0 .. Len(q)
    PROVE  RenderedTurns(Newest(q, n)) = g[n]
<1> DEFINE r == Newest(q, n)
<1>1. /\ r \in Seq(Turns) /\ Len(r) = n
      /\ \A i \in 1 .. n : r[i] = q[i + Len(q) - n]
  BY NewestIsSuffix
<1> HIDE DEF r
<1>2. PICK h : Renders(h, r, n) /\ RenderedTurns(r) = h[n]
  BY <1>1, RenderedRecurs
<1>3. g[0] = 0 /\ \A i \in 0 .. Len(q) - 1 : g[i + 1] = g[i] + RenderedTurn(q[Len(q) - i])
  <2>1. Len(q) \in 0 .. Len(q)
    OBVIOUS
  <2> QED BY <2>1, RendersGoOn
<1>4. h[0] = 0 /\ \A i \in 0 .. n - 1 : h[i + 1] = h[i] + RenderedTurn(r[n - i])
  <2>1. n \in 0 .. Len(r)
    BY <1>1
  <2>2. /\ h[0] = 0
        /\ \A i \in 0 .. n - 1 : h[i + 1] = h[i] + RenderedTurn(r[Len(r) - i])
    BY <1>1, <1>2, <2>1, RendersGoOn
  <2> QED BY <1>1, <2>2
<1> DEFINE R == {i \in Nat : i <= n => h[i] = g[i]}
<1>5. 0 \in R
  BY <1>3, <1>4
<1>6. ASSUME NEW i \in Nat, i \in R PROVE i + 1 \in R
  <2> SUFFICES ASSUME i + 1 <= n PROVE h[i + 1] = g[i + 1]
    OBVIOUS
  <2>1. i \in 0 .. n - 1 /\ i \in 0 .. Len(q) - 1 /\ i <= n /\ n - i \in 1 .. n
    OBVIOUS
  <2>2. r[n - i] = q[Len(q) - i]
    <3>1. (n - i) + Len(q) - n = Len(q) - i
      OBVIOUS
    <3> QED BY <1>1, <2>1, <3>1
  <2>3. h[i] = g[i]
    BY <1>6, <2>1
  <2> QED BY <1>3, <1>4, <2>1, <2>2, <2>3
<1> HIDE DEF R
<1>7. n \in R
  BY <1>5, <1>6, NatsAreReached
<1> QED BY <1>2, <1>7 DEF R, r

(* What does not fit beside the summary does not fit with more turns.      *)
LEMMA FewerTurnsFit ==
    ASSUME NEW text \in SummaryTexts \cup {None}, NEW q \in Seq(Turns),
           NEW n \in 0 .. Len(q), Fits(text, Newest(q, n))
    PROVE  \A m \in 0 .. n : Fits(text, Newest(q, m))
<1>1. PICK g : Renders(g, q, Len(q))
  BY RenderedRecurs
<1> DEFINE base == MemoryTags + IF text = None THEN 0 ELSE SummaryTags + SummaryLength(text)
<1>2. base \in Nat
  BY LengthsAssumption DEF MemoryTags, SummaryTags
<1>3. \A m \in 0 .. Len(q) : Rendered(text, Newest(q, m)) = base + g[m]
  BY <1>1, RenderedNewest DEF Rendered
<1> HIDE DEF base
<1>4. Len(q) \in 0 .. Len(q)
  OBVIOUS
<1>5. /\ \A i \in 0 .. Len(q) : g[i] \in Nat
      /\ \A i \in 0 .. Len(q) - 1 : g[i] <= g[i + 1]
  BY <1>1, <1>4, RendersGoOn
<1> DEFINE R == {k \in Nat : k <= n => Fits(text, Newest(q, n - k))}
<1>6. 0 \in R
  BY n - 0 = n
<1>7. ASSUME NEW k \in Nat, k \in R PROVE k + 1 \in R
  <2> SUFFICES ASSUME k + 1 <= n PROVE Fits(text, Newest(q, n - (k + 1)))
    OBVIOUS
  <2> DEFINE m == n - (k + 1)
  <2>1. m \in 0 .. Len(q) - 1 /\ m + 1 = n - k /\ k <= n /\ m \in 0 .. Len(q) /\ m + 1 \in 0 .. Len(q)
    OBVIOUS
  <2> HIDE DEF m
  <2>2. Fits(text, Newest(q, m + 1))
    BY <1>7, <2>1
  <2>3. g[m] \in Nat /\ g[m + 1] \in Nat /\ g[m] <= g[m + 1]
    BY <1>5, <2>1
  <2>4. /\ Rendered(text, Newest(q, m)) = base + g[m]
        /\ Rendered(text, Newest(q, m + 1)) = base + g[m + 1]
    BY <1>3, <2>1
  <2>5. ((base + g[m]) + 3) \div 4 <= ((base + g[m + 1]) + 3) \div 4
    BY <1>2, <2>3
  <2>6. TokenAllowance \in Nat
    BY DEF TokenAllowance, Available
  <2>7. ((base + g[m]) + 3) \div 4 \in Nat /\ ((base + g[m + 1]) + 3) \div 4 \in Nat
    BY <1>2, <2>3
  <2>8. Fits(text, Newest(q, m))
    BY <2>2, <2>4, <2>5, <2>6, <2>7 DEF Fits, Estimate
  <2> QED BY <2>8 DEF m
<1> HIDE DEF R
<1>8. Nat \subseteq R
  BY <1>6, <1>7, NatsAreReached
<1> QED
  <2> SUFFICES ASSUME NEW m \in 0 .. n PROVE Fits(text, Newest(q, m))
    OBVIOUS
  <2>1. n - m \in Nat /\ n - m <= n /\ n - (n - m) = m
    OBVIOUS
  <2>2. n - m \in R
    BY <1>8, <2>1
  <2> QED BY <2>1, <2>2 DEF R

(* The turns taken after each of the n newest.                             *)
Counts(g, s, n) ==
    g = [i \in 0 .. n |-> IF i = 0 THEN 0
                          ELSE IF g[i - 1] = i - 1 /\ Fits(SummaryText(s), Newest(s.turns, i))
                          THEN i ELSE g[i - 1]]

LEMMA TakenRecurs ==
    ASSUME NEW s \in Snapshots
    PROVE  \E g : Counts(g, s, Len(s.turns)) /\ Taken(s) = g[Len(s.turns)]
<1> DEFINE n == Len(s.turns)
<1> DEFINE Fit(i) == Fits(SummaryText(s), Newest(s.turns, i))
<1> DEFINE R == {m \in Nat : \E g : Counts(g, s, m)}
<1>0. n \in Nat
  BY DEF Snapshots
<1>1. 0 \in R
  <2> DEFINE g == [i \in 0 .. 0 |-> 0]
  <2>1. Counts(g, s, 0)
    BY DEF Counts
  <2> QED BY <2>1
<1>2. ASSUME NEW m \in Nat, m \in R PROVE m + 1 \in R
  <2>1. PICK f : Counts(f, s, m)
    BY <1>2
  <2> DEFINE g == [i \in 0 .. m + 1 |-> IF i <= m THEN f[i]
                                        ELSE IF f[m] = m /\ Fit(m + 1) THEN m + 1 ELSE f[m]]
  <2> DEFINE h == [i \in 0 .. m + 1 |-> IF i = 0 THEN 0
                                        ELSE IF g[i - 1] = i - 1 /\ Fit(i) THEN i ELSE g[i - 1]]
  <2>2. ASSUME NEW i \in 0 .. m + 1 PROVE g[i] = h[i]
    <3>1. CASE i = 0
      BY <2>1, <3>1 DEF Counts
    <3>2. CASE i \in 1 .. m
      <4>1. g[i] = f[i] /\ g[i - 1] = f[i - 1]
        BY <3>2
      <4>2. f[i] = IF f[i - 1] = i - 1 /\ Fit(i) THEN i ELSE f[i - 1]
        BY <2>1, <3>2 DEF Counts
      <4> HIDE DEF Fit
      <4> QED BY <3>2, <4>1, <4>2
    <3>3. CASE i = m + 1
      <4> HIDE DEF Fit
      <4>1. /\ g[i] = IF f[m] = m /\ Fit(m + 1) THEN m + 1 ELSE f[m]
            /\ g[i - 1] = f[m] /\ i # 0 /\ i - 1 = m
        BY <3>3
      <4> QED BY <3>3, <4>1
    <3> QED BY <3>1, <3>2, <3>3
  <2>3. g = h
    BY <2>2
  <2> HIDE DEF g
  <2>4. Counts(g, s, m + 1)
    BY <2>3 DEF Counts
  <2> QED BY <2>4
<1> HIDE DEF R
<1>3. n \in R
  BY <1>0, <1>1, <1>2, NatsAreReached
<1>4. PICK f : Counts(f, s, n)
  BY <1>3 DEF R
<1> DEFINE taken ==
      CHOOSE g : g = [i \in 0 .. n |->
                        IF i = 0 THEN 0
                        ELSE IF g[i - 1] = i - 1 /\ Fits(SummaryText(s), Newest(s.turns, i))
                        THEN i ELSE g[i - 1]]
<1>5. Counts(taken, s, n)
  BY <1>4, Zenon DEF Counts
<1>6. Taken(s) = taken[n]
  BY DEF Taken
<1> HIDE DEF taken
<1> QED BY <1>5, <1>6

(* The turns taken are as many as fit.                                     *)
LEMMA TakenIsMost ==
    ASSUME NEW s \in Snapshots
    PROVE  /\ Taken(s) \in 0 .. Len(s.turns)
           /\ \A m \in 1 .. Taken(s) : m \in Fitting(s)
           /\ \A m \in Fitting(s) : m <= Taken(s)
<1> DEFINE n == Len(s.turns)
<1> DEFINE Fit(i) == Fits(SummaryText(s), Newest(s.turns, i))
<1>1. n \in Nat /\ s.turns \in Seq(Turns)
  BY DEF Snapshots
<1>2. SummaryText(s) \in SummaryTexts \cup {None}
  BY DEF SummaryText, Snapshots, Summaries
<1>3. \A k \in 0 .. n : Fit(k) => \A m \in 0 .. k : Fit(m)
  BY <1>1, <1>2, FewerTurnsFit
<1>4. PICK g : Counts(g, s, n) /\ Taken(s) = g[n]
  BY TakenRecurs
<1>5. g[0] = 0 /\ \A i \in 1 .. n : g[i] = IF g[i - 1] = i - 1 /\ Fit(i) THEN i ELSE g[i - 1]
  BY <1>1, <1>4 DEF Counts
<1>6. \A m : m \in Fitting(s) <=> m \in 0 .. n /\ Fit(m)
  BY DEF Fitting
<1> HIDE DEF Fit, n
<1> DEFINE Most(k, i) == k \in 0 .. i /\ (\A m \in 1 .. k : Fit(m)) /\ (k < i => ~Fit(k + 1))
<1> DEFINE R == {i \in Nat : i <= n => Most(g[i], i)}
<1>7. 0 \in R
  BY <1>5
<1>8. ASSUME NEW i \in Nat, i \in R PROVE i + 1 \in R
  <2> SUFFICES ASSUME i + 1 <= n PROVE Most(g[i + 1], i + 1)
    OBVIOUS
  <2>1. Most(g[i], i)
    BY <1>1, <1>8
  <2>2. i + 1 \in 1 .. n /\ (i + 1) - 1 = i
    BY <1>1
  <2>3. g[i + 1] = IF g[i] = i /\ Fit(i + 1) THEN i + 1 ELSE g[i]
    BY <1>5, <2>2
  <2>4. CASE g[i] = i /\ Fit(i + 1)
    <3>1. g[i + 1] = i + 1
      BY <2>3, <2>4
    <3>2. \A m \in 1 .. i + 1 : m \in 1 .. i \/ m = i + 1
      OBVIOUS
    <3> QED BY <2>1, <2>4, <3>1, <3>2
  <2>5. CASE ~(g[i] = i /\ Fit(i + 1))
    <3>1. g[i + 1] = g[i]
      BY <2>3, <2>5
    <3> QED BY <2>1, <2>5, <3>1
  <2> QED BY <2>4, <2>5
<1> HIDE DEF R
<1>9. Most(g[n], n)
  <2>1. n \in R
    BY <1>1, <1>7, <1>8, NatsAreReached
  <2> QED BY <1>1, <2>1 DEF R
<1>10. g[n] \in 0 .. n /\ (\A m \in 1 .. g[n] : Fit(m)) /\ (g[n] < n => ~Fit(g[n] + 1))
  BY <1>9
<1> HIDE DEF Most
<1>11. ASSUME NEW m \in 0 .. n, Fit(m) PROVE m <= g[n]
  <2> SUFFICES ASSUME ~(m <= g[n]) PROVE FALSE
    OBVIOUS
  <2>1. g[n] < n /\ g[n] + 1 \in 0 .. m
    BY <1>1, <1>10
  <2> QED BY <1>3, <1>10, <1>11, <2>1
<1>12. \A m \in 1 .. g[n] : m \in 0 .. n
  BY <1>1, <1>10
<1> QED BY <1>4, <1>6, <1>10, <1>11, <1>12 DEF n

LEMMA NewestNone ==
    ASSUME NEW q \in Seq(Turns) PROVE Newest(q, 0) = <<>>
<1>1. Newest(q, 0) \in Seq(Turns) /\ Len(Newest(q, 0)) = 0
  BY NewestIsSuffix
<1> QED BY <1>1

(* What is remembered is as much as fits; if it is nothing, nothing does.  *)
LEMMA RemembersMost ==
    ASSUME NEW s \in Snapshots
    PROVE  /\ ~Remembers(s) =>
                IF s.summary = None THEN Fitting(s) \subseteq {0} ELSE Fitting(s) = {}
           /\ Remembers(s) => Taken(s) = Max(Fitting(s))
           /\ Project(s).turns \in Seq(Turns)
           /\ Len(Project(s).turns) = Taken(s)
           /\ Taken(s) \in 0 .. Len(s.turns)
<1>1. s.turns \in Seq(Turns) /\ s.summary \in Summaries \cup {None} /\ Len(s.turns) \in Nat
  BY DEF Snapshots
<1>2. /\ Taken(s) \in 0 .. Len(s.turns)
      /\ \A m \in 1 .. Taken(s) : m \in Fitting(s)
      /\ \A m \in Fitting(s) : m <= Taken(s)
  BY TakenIsMost
<1>3. /\ Fitting(s) \subseteq 0 .. Len(s.turns)
      /\ 0 \in Fitting(s) <=> Fits(SummaryText(s), <<>>)
  BY <1>1, NewestNone DEF Fitting
<1>4. Newest(s.turns, Taken(s)) \in Seq(Turns) /\ Len(Newest(s.turns, Taken(s))) = Taken(s)
  BY <1>1, <1>2, NewestIsSuffix
<1>5. Project(s).turns \in Seq(Turns) /\ Len(Project(s).turns) = Taken(s)
  BY <1>4 DEF Project
<1>6. ASSUME ~Fits(SummaryText(s), <<>>) PROVE Fitting(s) = {}
  <2>1. SummaryText(s) \in SummaryTexts \cup {None}
    BY DEF SummaryText, Snapshots, Summaries
  <2> SUFFICES ASSUME NEW m \in Fitting(s) PROVE FALSE
    OBVIOUS
  <2>2. m \in 0 .. Len(s.turns) /\ Fits(SummaryText(s), Newest(s.turns, m)) /\ 0 \in 0 .. m
    BY <1>1, <1>3 DEF Fitting
  <2>3. Fits(SummaryText(s), Newest(s.turns, 0))
    BY <1>1, <2>1, <2>2, FewerTurnsFit
  <2> QED BY <1>1, <1>6, <2>3, NewestNone
<1>7. ASSUME s.summary = None, ~(Taken(s) > 0) PROVE Fitting(s) \subseteq {0}
  BY <1>1, <1>2, <1>3, <1>7
<1>8. ASSUME Fits(SummaryText(s), <<>>) PROVE Taken(s) = Max(Fitting(s))
  <2>1. Taken(s) \in Fitting(s)
    BY <1>2, <1>3, <1>8
  <2>2. \A x \in Fitting(s) : x \in Int /\ Taken(s) \in Int
    BY <1>1, <1>2, <1>3
  <2>3. \A x \in Fitting(s) : (\A y \in Fitting(s) : x >= y) <=> x = Taken(s)
    BY <1>2, <2>1, <2>2
  <2> QED BY <2>1, <2>3 DEF Max
<1> QED BY <1>2, <1>5, <1>6, <1>7, <1>8 DEF Remembers

(* No snapshot has more turns than the policy lets a session have.         *)
HeldWindows == \A c \in Clients : held[c] # None => Len(held[c].turns) <= MaxTurns

LEMMA HeldWindowsStep ==
    ASSUME TypeOK, HistoryOf(session), HeldWindows, [Next]_vars
    PROVE  HeldWindows'
<1> SUFFICES ASSUME NEW d \in Clients, held'[d] # None
             PROVE  Len(held'[d].turns) <= MaxTurns
  BY DEF HeldWindows
<1>1. HistoryOf(session')
  BY HistoryStep
<1>2. /\ Len(SnapshotOf(session).turns) <= MaxTurns
      /\ Len(SnapshotOf(session').turns) <= MaxTurns
  BY <1>1 DEF HistoryOf, SnapshotOf
<1>3. \/ held'[d] = held[d] \/ held'[d] = SnapshotOf(session)
      \/ held'[d] = SnapshotOf(session')
  BY Steps DEF TypeOK, Reads, Appends, Clears, Compacts, Writes, Expires, Ages
<1> QED BY <1>2, <1>3 DEF HeldWindows

LEMMA HeldWindowsInvariant == Spec => []HeldWindows
<1>1. Init => HeldWindows
  BY DEF Init, HeldWindows
<1>2. TypeOK /\ HistoryOf(session) /\ HeldWindows /\ [Next]_vars => HeldWindows'
  BY HeldWindowsStep
<1> QED
  BY <1>1, <1>2, HistoryInvariant, PTL DEF Spec

LEMMA MemoryIsNewest ==
    ASSUME TypeOK, VersionInv, HistoryOf(session)
    PROVE  MemoryIsNewestThatFits
<1> SUFFICES ASSUME NEW c \in Clients, held[c] # None
             PROVE  LET s == held[c]
                        memory == Project(s)
                        current == s.era = session.era /\ s.version = session.version
                    IN  IF ~Remembers(s)
                        THEN IF s.summary = None THEN Fitting(s) \subseteq {0} ELSE Fitting(s) = {}
                        ELSE /\ Len(memory.turns) = Max(Fitting(s))
                             /\ current =>
                                    /\ memory.turns = Newest(session.history, Len(memory.turns))
                                    /\ (memory.summary # None /\ session.dropped = 0
                                            /\ Max(Fitting(s)) = Len(s.turns)) =>
                                           memory.summary.covered_turn_count + Len(memory.turns)
                                               = Len(session.history)
  BY DEF MemoryIsNewestThatFits
<1> DEFINE s == held[c]
<1> DEFINE memory == Project(s)
<1>1. s \in Snapshots
  BY DEF TypeOK
<1>2. CASE ~Remembers(s)
  BY <1>1, <1>2, RemembersMost
<1>3. CASE Remembers(s)
  <2>1. /\ memory = [summary |-> s.summary, turns |-> Newest(s.turns, Taken(s))]
        /\ Len(memory.turns) = Taken(s) /\ Taken(s) = Max(Fitting(s))
    BY <1>1, <1>3, RemembersMost DEF Project
  <2>2. Taken(s) \in 0 .. Len(s.turns)
    BY <1>1, RemembersMost
  <2> SUFFICES ASSUME s.era = session.era, s.version = session.version
               PROVE  /\ Newest(s.turns, Taken(s)) = Newest(session.history, Taken(s))
                      /\ (s.summary # None /\ session.dropped = 0 /\ Taken(s) = Len(s.turns)) =>
                            s.summary.covered_turn_count + Taken(s) = Len(session.history)
    BY <1>3, <2>1
  <2>3. s = SnapshotOf(session)
    BY DEF VersionInv, VersionIdentifiesState
  <2>4. s.turns = session.turns /\ s.summary = session.summary
    BY <2>3 DEF SnapshotOf
  <2>5. /\ session.turns \in Seq(Turns) /\ session.history \in Seq(Turns)
        /\ IsTail(session.turns, session.history)
    BY DEF TypeOK, Sessions, HistoryOf
  <2>6. Newest(session.turns, Taken(s)) = Newest(session.history, Taken(s))
    <3> DEFINE r == Newest(session.turns, Taken(s))
    <3>1. r \in Seq(Turns) /\ Len(r) = Taken(s) /\ IsTail(r, session.turns)
      <4>1. Taken(s) \in Nat /\ Taken(s) <= Len(session.turns) /\ Len(session.turns) \in Nat
        BY <2>2, <2>4, <2>5
      <4>2. Len(r) = IF Len(session.turns) <= Taken(s) THEN Len(session.turns) ELSE Taken(s)
        BY <2>5, <4>1, NewestIsSuffix
      <4>3. r \in Seq(Turns) /\ IsTail(r, session.turns)
        BY <2>5, <4>1, NewestIsSuffix, NewestIsTail
      <4> HIDE DEF r
      <4> QED BY <4>1, <4>2, <4>3
    <3> HIDE DEF r
    <3>2. IsTail(r, session.history)
      BY <2>5, <3>1, TailOfTail
    <3>3. r = Newest(session.history, Len(r))
      BY <2>5, <3>1, <3>2, TailIsNewest
    <3> QED BY <3>1, <3>3 DEF r
  <2>7. ASSUME s.summary # None, session.dropped = 0, Taken(s) = Len(s.turns)
        PROVE  s.summary.covered_turn_count + Taken(s) = Len(session.history)
    <3>1. Len(session.history) = session.summary.covered_turn_count + 0 + Len(session.turns)
      BY <2>4, <2>7 DEF HistoryOf, PreviouslyCovered
    <3>2. session.summary.covered_turn_count \in Nat /\ Len(session.turns) \in Nat
      BY <2>4, <2>5, <2>7 DEF TypeOK, Sessions, Summaries
    <3> QED BY <2>4, <2>7, <3>1, <3>2
  <2> QED BY <2>4, <2>6, <2>7
<1> QED BY <1>2, <1>3

LEMMA MemoryIsHarmless ==
    ASSUME TypeOK, HeldWindows
    PROVE  MemoryDisplacesNothing
<1> SUFFICES ASSUME NEW c \in Clients, held[c] # None, Remembers(held[c])
             PROVE  Estimate(Rendered(SummaryText(Project(held[c])), Project(held[c]).turns))
                        \in HarmlessMemories
  BY DEF MemoryDisplacesNothing
<1> DEFINE s == held[c]
<1> DEFINE memory == Project(s)
<1> DEFINE text == SummaryText(memory)
<1> DEFINE turns == memory.turns
<1> DEFINE size == Estimate(Rendered(text, turns))
<1>1. s \in Snapshots /\ Len(s.turns) <= MaxTurns /\ Len(s.turns) \in Nat
  BY DEF TypeOK, HeldWindows, Snapshots
<1>2. turns \in Seq(Turns) /\ Len(turns) = Taken(s) /\ Taken(s) \in 0 .. Len(s.turns)
  BY <1>1, RemembersMost
<1>3. memory.summary \in Summaries \cup {None}
  BY <1>1 DEF Project, Snapshots
<1>4. turns \in Seq(Turns) /\ text \in SummaryTexts \cup {None}
  BY <1>2, <1>3 DEF SummaryText, Summaries
<1>5. Len(turns) \in 0 .. MaxTurns
  BY <1>1, <1>2, PolicyAssumption
<1> HIDE DEF turns, text
<1>6. turns \in BoundedSeq(Turns, MaxTurns)
  <2>1. turns \in [1 .. Len(turns) -> Turns]
    BY <1>4
  <2> QED BY <1>5, <2>1 DEF BoundedSeq, SeqOf
<1>7. size \in MemoryTokens
  BY <1>4, <1>6 DEF MemoryTokens
<1>8. Rendered(text, turns) \in Nat
  <2>1. PICK g : Renders(g, turns, Len(turns)) /\ RenderedTurns(turns) = g[Len(turns)]
    BY <1>4, RenderedRecurs
  <2>2. Len(turns) \in 0 .. Len(turns)
    BY <1>4
  <2>3. RenderedTurns(turns) \in Nat
    BY <1>4, <2>1, <2>2, RendersGoOn
  <2>4. text # None => SummaryLength(text) \in Nat
    BY <1>4, LengthsAssumption
  <2> QED BY <2>3, <2>4 DEF Rendered, MemoryTags, SummaryTags
<1>9. size \in Nat
  BY <1>8 DEF Estimate
<1> HIDE DEF size
<1>10. size \in HarmlessMemories
  BY <1>7, <1>9, NoMemoryDisplaces DEF HarmlessMemories
<1> QED BY <1>10 DEF size, turns, text

(* What a request remembers of its conversation is the newest part that     *)
(* fits beside the summary, without a gap to it; and whatever its size, no  *)
(* prompt of the request loses anything to it.                             *)
THEOREM MemoriesStayInTheirPlace == Spec => []MemoryStaysInItsPlace
<1>1. TypeOK /\ VersionInv /\ HistoryOf(session) /\ HeldWindows => MemoryStaysInItsPlace
  BY MemoryIsNewest, MemoryIsHarmless DEF MemoryStaysInItsPlace
<1> QED
  BY <1>1, VersionInvariant, HistoryInvariant, HeldWindowsInvariant, PTL
=============================================================================
