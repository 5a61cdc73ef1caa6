-------------------------- MODULE RedisSessionStore --------------------------
(***************************************************************************)
(* RedisSessionMemoryStore, one command to the Redis server at a time.     *)
(* Clients are threads or processes that share the key of one session.     *)
(*                                                                         *)
(* A read is GET then TTL.  A write runs up to MaxRetries transactions of  *)
(* WATCH, GET, TTL, the checks of SessionMemory, and MULTI/SET/EXEC; EXEC  *)
(* is refused when the watched key changed.  The connection may fail at    *)
(* any command, and also after EXEC was done but before its reply.         *)
(*                                                                         *)
(* The server is external: a key is modified or expires in one step, WATCH *)
(* sees every modification and the expiry, and TTL rounds to the nearest   *)
(* second, so with half-second ticks it answers 0 in a key's last tick.    *)
(***************************************************************************)
EXTENDS SessionMemory, FiniteSets

CONSTANTS
    Clients,     \* threads that use the store
    MaxRetries,  \* max_transaction_retries
    MaxVersion,  \* bound: no write is started at this version
    MaxEra       \* bound: the key comes to an end this many times

ASSUME RetriesAssumption == MaxRetries \in Nat \ {0}
ASSUME ClientsAssumption == IsFiniteSet(Clients) /\ None \notin Clients
ASSUME BoundsAssumption == MaxVersion \in Nat /\ MaxEra \in Nat

VARIABLES
    session,  \* the key: its value, its remaining life and history fields
    held,     \* the snapshot each client got from its last call, or None
    op        \* the call each client is in

vars == <<session, held, op>>

Phases == {"idle", "watch", "get", "ttl", "exec", "reply"}

NoCall == [kind |-> "none"]
ReadCall == [kind |-> "read"]
ClearCall == [kind |-> "clear"]
AppendCall(t) == [kind |-> "append", turn |-> t]
CompactCall(n, summary, ids) ==
    [kind |-> "compact", n |-> n, summary |-> summary, ids |-> ids]

Idle ==
    [call |-> NoCall, phase |-> "idle", attempt |-> 0, dirty |-> FALSE,
     fetched |-> None, result |-> None]

TypeOK ==
    /\ session \in Sessions
    /\ held \in [Clients -> Snapshots \cup {None}]
    /\ \A c \in Clients :
         /\ op[c].phase \in Phases
         /\ op[c].attempt \in 0..MaxRetries
         /\ op[c].dirty \in BOOLEAN
         /\ op[c].fetched \in Snapshots \cup {None}
         /\ op[c].result \in Snapshots \cup {None}

Init ==
    /\ session = EmptySession(0)
    /\ held = [c \in Clients |-> None]
    /\ op = [c \in Clients |-> Idle]

-----------------------------------------------------------------------------
(* A call begins. *)

Begin(c, call, phase) ==
    /\ op[c].phase = "idle"
    /\ op' = [op EXCEPT ![c] = [Idle EXCEPT
                  !.call = call, !.phase = phase,
                  !.attempt = IF call = ReadCall THEN 0 ELSE 1]]
    /\ UNCHANGED <<session, held>>

BeginRead(c) == Begin(c, ReadCall, "get")

BeginAppend(c) ==
    /\ held[c] # None
    /\ held[c].version < MaxVersion
    /\ \E t \in Turns : Begin(c, AppendCall(t), "watch")

PendingClears == Cardinality({c \in Clients : op[c].call = ClearCall})

(* The bound on eras is reserved here, so that a begun clear can end.      *)
BeginClear(c) ==
    /\ held[c] # None
    /\ session.era + PendingClears < MaxEra
    /\ Begin(c, ClearCall, "watch")

BeginCompact(c) ==
    /\ held[c] # None
    /\ held[c].version < MaxVersion
    /\ \E n \in CompactablePrefixes(held[c]), text \in SummaryTexts :
         Begin(c, CompactCall(n, RollingSummary(held[c], n, text),
                              IdsOf(SubSeq(held[c].turns, 1, n))), "watch")

(* The request ends between two calls. *)
Forget(c) ==
    /\ op[c].phase = "idle"
    /\ held[c] # None
    /\ held' = [held EXCEPT ![c] = None]
    /\ UNCHANGED <<session, op>>

-----------------------------------------------------------------------------
(* A call ends: it returns a snapshot, or it raises and the request that   *)
(* made it has no snapshot to go on with.                                  *)

Return(c, snap) ==
    /\ op' = [op EXCEPT ![c] = Idle]
    /\ held' = [held EXCEPT ![c] = snap]

Raise(c) ==
    /\ op' = [op EXCEPT ![c] = Idle]
    /\ held' = [held EXCEPT ![c] = None]

-----------------------------------------------------------------------------
(* Checks on the snapshot a transaction fetched. *)

IsRetry(call, snap) ==
    \/ call.kind = "append"  /\ IsTurnRetry(snap.turns, call.turn)
    \/ call.kind = "compact" /\ IsSummaryRetry(snap, call.summary)
    \/ call.kind = "clear"   /\ snap.version = 0

IsWritable(call, snap, expected) ==
    CASE call.kind = "append"  -> ~Reused(snap.turns, call.turn) /\ expected = snap.version
      [] call.kind = "clear"   -> expected = snap.version
      [] call.kind = "compact" -> ValidCompaction(snap, call.summary, call.ids, expected)

(* Clear checks the version before it finds that there is nothing to do.   *)
ReturnsFetched(c, snap) ==
    \/ op[c].call.kind = "read"
    \/ /\ IsRetry(op[c].call, snap)
       /\ op[c].call = ClearCall => held[c].version = snap.version

Decide(c, snap) ==
    \/ /\ ReturnsFetched(c, snap)
       /\ Return(c, snap)
    \/ /\ ~ReturnsFetched(c, snap)
       /\ IsWritable(op[c].call, snap, held[c].version)
       /\ op' = [op EXCEPT ![c].phase = "exec", ![c].fetched = snap]
       /\ UNCHANGED held
    \/ /\ ~ReturnsFetched(c, snap)
       /\ ~IsWritable(op[c].call, snap, held[c].version)
       /\ Raise(c)

(* The value a transaction writes, built from the snapshot it fetched.     *)
Written(call, snap) ==
    LET base == [session EXCEPT !.version = snap.version, !.turns = snap.turns,
                                !.summary = snap.summary] IN
    CASE call.kind = "append"  -> Appended(base, call.turn)
      [] call.kind = "compact" -> Compacted(base, call.summary, call.n)
      [] call.kind = "clear"   -> EmptySession(session.era + 1)

-----------------------------------------------------------------------------
(* Commands. *)

Watch(c) ==
    /\ op[c].phase = "watch"
    /\ op' = [op EXCEPT ![c].phase = "get", ![c].dirty = FALSE]
    /\ UNCHANGED <<session, held>>

Get(c) ==
    /\ op[c].phase = "get"
    /\ UNCHANGED session
    /\ IF IsLive(session)
       THEN /\ op' = [op EXCEPT ![c].phase = "ttl", ![c].fetched = SnapshotOf(session)]
            /\ UNCHANGED held
       ELSE Decide(c, SnapshotOf(session))

(* _expires_at raises SessionMemoryCorruptionError for a TTL of 0 or -2.   *)
TtlIsCorruption == session.life <= 1

Ttl(c) ==
    /\ op[c].phase = "ttl"
    /\ UNCHANGED session
    /\ IF TtlIsCorruption THEN Raise(c) ELSE Decide(c, op[c].fetched)

(* Every other transaction that watches the key will be refused.           *)
SetDirty(ops, c) ==
    [d \in Clients |->
        IF d # c /\ ops[d].phase \in {"get", "ttl", "exec"}
        THEN [ops[d] EXCEPT !.dirty = TRUE] ELSE ops[d]]

ExecMutant(c) ==
    /\ op[c].phase = "exec"
    /\ session' = Written(op[c].call, op[c].fetched)
    /\ op' = SetDirty([op EXCEPT ![c].phase = "reply", ![c].fetched = None,
                                 ![c].result = SnapshotOf(session')], c)
    /\ UNCHANGED held

Exec(c) ==
    /\ op[c].phase = "exec"
    /\ ~op[c].dirty
    /\ session' = Written(op[c].call, op[c].fetched)
    /\ op' = SetDirty([op EXCEPT ![c].phase = "reply", ![c].fetched = None,
                                 ![c].result = SnapshotOf(session')], c)
    /\ UNCHANGED held

(* WATCH before the loop, and a loop that does not count. *)
WatchErrorLoopMutant(c) ==
    /\ op[c].phase = "exec"
    /\ op[c].dirty
    /\ op' = [op EXCEPT ![c].phase = "get", ![c].fetched = None]
    /\ UNCHANGED <<session, held>>

WatchError(c) ==
    /\ op[c].phase = "exec"
    /\ op[c].dirty
    /\ UNCHANGED session
    /\ IF op[c].attempt < MaxRetries
       THEN /\ op' = [op EXCEPT ![c].phase = "watch", ![c].attempt = @ + 1,
                                ![c].fetched = None, ![c].dirty = FALSE]
            /\ UNCHANGED held
       ELSE Raise(c)

Reply(c) ==
    /\ op[c].phase = "reply"
    /\ Return(c, op[c].result)
    /\ UNCHANGED session

(* A connection or timeout error; after EXEC the write stays done.         *)
ConnectionFailure(c) ==
    /\ op[c].phase # "idle"
    /\ Raise(c)
    /\ UNCHANGED session

Tick ==
    /\ IsLive(session)
    /\ session.life = 1 => session.era + PendingClears < MaxEra
    /\ IF session.life = 1
       THEN /\ session' = EmptySession(session.era + 1)
            /\ op' = SetDirty(op, None)
       ELSE /\ session' = [session EXCEPT !.life = @ - 1]
            /\ UNCHANGED op
    /\ UNCHANGED held

Command(c) == Watch(c) \/ Get(c) \/ Ttl(c) \/ Exec(c) \/ WatchError(c) \/ Reply(c)

Next ==
    \/ \E c \in Clients :
         \/ BeginRead(c) \/ BeginAppend(c) \/ BeginClear(c) \/ BeginCompact(c)
         \/ Forget(c)
         \/ Command(c)
         \/ ConnectionFailure(c)
    \/ Tick

Spec == Init /\ [][Next]_vars

(* Each command is answered, or its socket times out.                      *)
FairSpec == Spec /\ \A c \in Clients : WF_vars(Command(c) \/ ConnectionFailure(c))

-----------------------------------------------------------------------------
(* The snapshot a client holds in SessionStore: a call that will return    *)
(* what it fetched took effect at GET, a write took effect at EXEC.        *)
heldBar ==
    [c \in Clients |->
        CASE op[c].phase = "reply" -> op[c].result
          [] op[c].phase = "ttl" /\ ReturnsFetched(c, op[c].fetched) -> op[c].fetched
          [] OTHER -> held[c]]

Atomic == INSTANCE SessionStore WITH held <- heldBar

(* Each call of the Redis store is one atomic step of SessionStore or has  *)
(* no effect, whatever the interleaving of commands, expiry, refused       *)
(* transactions, connection failures and lost replies.                     *)
ImplementsSessionStore == Atomic!Spec

(* No call waits for ever: the retries of a write are bounded even when    *)
(* other clients keep changing the key.                                    *)
CallsEnd == \A c \in Clients : op[c].phase # "idle" ~> op[c].phase = "idle"
=============================================================================
