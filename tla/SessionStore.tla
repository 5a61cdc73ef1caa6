---------------------------- MODULE SessionStore ----------------------------
(***************************************************************************)
(* What a session-memory store promises: every operation is one atomic     *)
(* step.  InMemorySessionMemoryStore is exactly this, each method runs     *)
(* under the store's lock; RedisSessionStore is shown to implement it.     *)
(*                                                                         *)
(* A client is a thread of a request.  It holds the snapshot its last call *)
(* returned, writes with that snapshot's version as expected_version, and  *)
(* forgets it when a call raises or the request ends.                      *)
(***************************************************************************)
EXTENDS SessionMemory

CONSTANTS
    Clients,     \* threads that use the store
    MaxVersion,  \* bound: no write is made at this version
    MaxEra       \* bound: the key comes to an end this many times

ASSUME BoundsAssumption == MaxVersion \in Nat /\ MaxEra \in Nat

VARIABLES
    session,  \* the stored session, with its history fields
    held      \* the snapshot each client holds, or None

vars == <<session, held>>

TypeOK ==
    /\ session \in Sessions
    /\ held \in [Clients -> Snapshots \cup {None}]

Init ==
    /\ session = EmptySession(0)
    /\ held = [c \in Clients |-> None]

Return(c, snap) == held' = [held EXCEPT ![c] = snap]

(* The call raises, or the request is over: the client has no snapshot.  *)
Forget(c) ==
    /\ held[c] # None
    /\ Return(c, None)
    /\ UNCHANGED session

Read(c) ==
    /\ Return(c, SnapshotOf(session))
    /\ UNCHANGED session

AppendRetry(c, t) ==
    /\ held[c] # None
    /\ IsTurnRetry(session.turns, t)
    /\ Return(c, SnapshotOf(session))
    /\ UNCHANGED session

AppendNewMutant(c, t) ==
    /\ held[c] # None
    /\ ~Reused(session.turns, t)
    /\ session.version < MaxVersion
    /\ session' = Appended(session, t)
    /\ Return(c, SnapshotOf(session'))

AppendNew(c, t) ==
    /\ held[c] # None
    /\ ~Reused(session.turns, t)
    /\ held[c].version = session.version
    /\ session.version < MaxVersion
    /\ session' = Appended(session, t)
    /\ Return(c, SnapshotOf(session'))

AppendConflict(c, t) ==
    /\ held[c] # None
    /\ ~IsTurnRetry(session.turns, t)
    /\ Reused(session.turns, t) \/ held[c].version # session.version
    /\ Return(c, None)
    /\ UNCHANGED session

AppendTurn(c, t) == AppendRetry(c, t) \/ AppendNew(c, t) \/ AppendConflict(c, t)

ClearSession(c) ==
    /\ held[c] # None
    /\ held[c].version = session.version
    /\ session.version > 0 => session.era < MaxEra
    /\ session' = IF session.version = 0 THEN session ELSE EmptySession(session.era + 1)
    /\ Return(c, SnapshotOf(session'))

ClearConflict(c) ==
    /\ held[c] # None
    /\ held[c].version # session.version
    /\ Return(c, None)
    /\ UNCHANGED session

Clear(c) == ClearSession(c) \/ ClearConflict(c)

(* compact_snapshot_if_needed: the summary is made from the snapshot the   *)
(* client holds, which other clients may have outrun meanwhile.            *)
CompactPrefix(c, n, text) ==
    LET summary == RollingSummary(held[c], n, text)
        ids == IdsOf(SubSeq(held[c].turns, 1, n)) IN
    \/ /\ IsSummaryRetry(session, summary)
       /\ Return(c, SnapshotOf(session))
       /\ UNCHANGED session
    \/ /\ ~IsSummaryRetry(session, summary)
       /\ ValidCompaction(session, summary, ids, held[c].version)
       /\ session.version < MaxVersion
       /\ session' = Compacted(session, summary, n)
       /\ Return(c, SnapshotOf(session'))
    \/ /\ ~IsSummaryRetry(session, summary)
       /\ ~ValidCompaction(session, summary, ids, held[c].version)
       /\ Return(c, None)
       /\ UNCHANGED session

Compact(c) ==
    /\ held[c] # None
    /\ \E n \in CompactablePrefixes(held[c]), text \in SummaryTexts :
           CompactPrefix(c, n, text)

(* Time passes; at expires_at the session is gone for every operation.   *)
Tick ==
    /\ IsLive(session)
    /\ session.life = 1 => session.era < MaxEra
    /\ session' = IF session.life = 1 THEN EmptySession(session.era + 1)
                                      ELSE [session EXCEPT !.life = @ - 1]
    /\ UNCHANGED held

Next ==
    \/ \E c \in Clients :
         \/ Forget(c)
         \/ Read(c)
         \/ \E t \in Turns : AppendTurn(c, t)
         \/ Clear(c)
         \/ Compact(c)
    \/ Tick

Spec == Init /\ [][Next]_vars

-----------------------------------------------------------------------------
(* Optimistic concurrency: within one incarnation of the key a version     *)
(* number identifies the state, so a snapshot that passes the version      *)
(* check of append_turn, clear or compact is the current state.            *)
VersionIdentifiesState ==
    \A c \in Clients :
        (held[c] # None /\ held[c].era = session.era /\ held[c].version = session.version)
            => held[c] = SnapshotOf(session)

(* The stored turns are the newest turns of the incarnation, in the order  *)
(* they were appended and none of them twice, whatever mixture of retries, *)
(* truncations and compactions has happened.                               *)
WindowIsNewestHistory ==
    /\ Len(session.turns) <= MaxTurns
    /\ session.turns = Newest(session.history, Len(session.turns))
    /\ \A i, j \in DOMAIN session.turns :
           SameTurn(session.turns[i], session.turns[j]) => i = j

(* Every turn is covered by the summary, dropped by max_turns or stored,   *)
(* once; and unless one was dropped the summary ends just before the       *)
(* oldest stored turn: what a reader projects has no gap and no overlap.   *)
EveryTurnAccountedFor ==
    /\ Len(session.history)
           = PreviouslyCovered(session) + session.dropped + Len(session.turns)
    /\ (session.summary # None /\ session.dropped = 0) =>
           session.history[Len(session.history) - Len(session.turns)].turn_id
               = session.summary.covered_through_turn_id

(* No lost update: a write by a client whose snapshot is of this           *)
(* incarnation is made on exactly the state that client read.              *)
WritesBuildOnWhatWasRead ==
    [][\A c \in Clients :
         (/\ session' # session
          /\ held'[c] # held[c]
          /\ held[c] # None
          /\ held[c].era = session.era)
            => held[c] = SnapshotOf(session)]_vars
=============================================================================
