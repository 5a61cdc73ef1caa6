--------------------------- MODULE SessionMemory ---------------------------
(***************************************************************************)
(* The data of decision_agent.memory: snapshots, turns, rolling summaries, *)
(* and the state changes that both session stores apply to them.  Nothing  *)
(* here has behaviour: SessionStore applies a change under the in-memory   *)
(* store's lock, RedisSessionStore in a WATCH/MULTI/EXEC transaction, and  *)
(* FormalRequestExecutor from concurrent requests.                         *)
(*                                                                         *)
(* One session is modelled: both stores key everything by session_id and   *)
(* no operation reads two keys.                                            *)
(*                                                                         *)
(* Three fields of a session are history, not code: "era" counts the       *)
(* incarnations of the key (it grows when the key expires or is cleared),  *)
(* "history" holds every turn appended in this era, and "dropped" counts   *)
(* the turns that the max_turns window pushed out unsummarised.            *)
(*                                                                         *)
(* A definition named ...Mutant is a plausible bug in the definition below *)
(* it; nothing uses it but the check that the properties notice the bug.   *)
(***************************************************************************)
EXTENDS Naturals, Sequences

CONSTANTS
    Turns,         \* SessionTurn records a caller may append
    SummaryTexts,  \* what a summarizer may write
    MaxTurns,      \* SessionMemoryPolicy.max_turns
    Lifetime,      \* SessionMemoryPolicy.ttl_seconds, in ticks
    TriggerTurns,  \* RollingSummaryPolicy.trigger_turns
    RetainTurns,   \* RollingSummaryPolicy.retain_recent_turns
    None           \* Python's None

ASSUME PolicyAssumption ==
    /\ MaxTurns \in Nat \ {0}
    /\ Lifetime \in Nat \ {0}
    /\ TriggerTurns \in Nat \ {0}
    /\ RetainTurns \in Nat \ {0}

ASSUME TurnsAssumption ==
    \A t \in Turns : DOMAIN t = {"turn_id", "request_id", "text"}

TurnIds == {t.turn_id : t \in Turns}

(* A summary id hashes (source_version, previous_summary_id, turn ids); the  *)
(* hash is taken to be injective, so an id is the chain of what was hashed.  *)
SummaryIds == Seq([version : Nat, turns : Seq(TurnIds)])

Summaries ==
    [summary_id : SummaryIds, previous_summary_id : SummaryIds,
     source_version : Nat, covered_turn_count : Nat,
     covered_through_turn_id : TurnIds, text : SummaryTexts]

Snapshots ==
    [version : Nat, turns : Seq(Turns), summary : Summaries \cup {None}, era : Nat]

Sessions ==
    [version : Nat, turns : Seq(Turns), summary : Summaries \cup {None},
     life : 0..Lifetime, era : Nat, history : Seq(Turns), dropped : Nat]

ASSUME NoneAssumption == None \notin Summaries \cup Snapshots

-----------------------------------------------------------------------------
(* Snapshots. *)

(* An absent key reads as version zero with nothing in it. *)
EmptySession(e) ==
    [version |-> 0, turns |-> <<>>, summary |-> None,
     life |-> 0, era |-> e, history |-> <<>>, dropped |-> 0]

IsLive(s) == s.life > 0

SnapshotOf(s) ==
    [version |-> s.version, turns |-> s.turns, summary |-> s.summary, era |-> s.era]

-----------------------------------------------------------------------------
(* append_turn. *)

SameTurn(t, u) == t.turn_id = u.turn_id \/ t.request_id = u.request_id

ReusedMutant(turns, t) == \E i \in DOMAIN turns : turns[i].turn_id = t.turn_id

Reused(turns, t) == \E i \in DOMAIN turns : SameTurn(turns[i], t)

(* The first stored turn with either identifier is the very turn offered. *)
IsTurnRetry(turns, t) ==
    \E i \in DOMAIN turns :
        /\ turns[i] = t
        /\ \A j \in 1..(i - 1) : ~SameTurn(turns[j], t)

Newest(turns, n) ==
    IF Len(turns) <= n THEN turns ELSE SubSeq(turns, Len(turns) - n + 1, Len(turns))

Appended(s, t) ==
    LET turns == Append(s.turns, t) IN
    [s EXCEPT !.version = @ + 1,
              !.turns   = Newest(turns, MaxTurns),
              !.life    = Lifetime,
              !.history = Append(@, t),
              !.dropped = @ + Len(turns) - Len(Newest(turns, MaxTurns))]

-----------------------------------------------------------------------------
(* compact. *)

IdsOf(turns) == [i \in DOMAIN turns |-> turns[i].turn_id]

PreviousId(snap) == IF snap.summary = None THEN <<>> ELSE snap.summary.summary_id

PreviouslyCovered(snap) ==
    IF snap.summary = None THEN 0 ELSE snap.summary.covered_turn_count

(* The rolling-summary service summarises some oldest prefix of a snapshot:  *)
(* the character budget decides how long it is, the policy bounds it.        *)
CompactablePrefixes(snap) ==
    {n \in 1..Len(snap.turns) :
        /\ Len(snap.turns) >= TriggerTurns
        /\ n + RetainTurns <= Len(snap.turns)}

RollingSummary(snap, n, text) ==
    LET ids == IdsOf(SubSeq(snap.turns, 1, n)) IN
    [summary_id |-> Append(PreviousId(snap), [version |-> snap.version, turns |-> ids]),
     previous_summary_id |-> PreviousId(snap),
     source_version |-> snap.version,
     covered_turn_count |-> PreviouslyCovered(snap) + n,
     covered_through_turn_id |-> snap.turns[n].turn_id,
     text |-> text]

IsSummaryRetry(s, summary) == s.summary = summary

IsIdentityConflict(s, summary) ==
    s.summary # None /\ s.summary # summary /\ s.summary.summary_id = summary.summary_id

ContinuesLineage(s, summary, ids) ==
    /\ summary.previous_summary_id = PreviousId(s)
    /\ summary.covered_turn_count = PreviouslyCovered(s) + Len(ids)
    /\ summary.covered_through_turn_id = ids[Len(ids)]

IsOldestStrictPrefix(s, ids) ==
    /\ Len(ids) \in 1..(Len(s.turns) - 1)
    /\ \A i, j \in 1..Len(ids) : ids[i] = ids[j] => i = j
    /\ \A i \in 1..Len(ids) : s.turns[i].turn_id = ids[i]

(* validate_compaction returns without raising and without "already done". *)
ValidCompaction(s, summary, ids, expected) ==
    /\ ~IsIdentityConflict(s, summary)
    /\ expected = s.version
    /\ summary.source_version = expected
    /\ IsOldestStrictPrefix(s, ids)
    /\ ContinuesLineage(s, summary, ids)

CompactedSameVersionMutant(s, summary, n) ==
    [s EXCEPT !.turns = SubSeq(@, n + 1, Len(@)), !.summary = summary, !.life = Lifetime]

CompactedOffByOneMutant(s, summary, n) ==
    [s EXCEPT !.version = @ + 1, !.turns = SubSeq(@, n, Len(@)),
              !.summary = summary, !.life = Lifetime]

Compacted(s, summary, n) ==
    [s EXCEPT !.version = @ + 1,
              !.turns   = SubSeq(@, n + 1, Len(@)),
              !.summary = summary,
              !.life    = Lifetime]
=============================================================================
