----------------------------- MODULE AuditChain -----------------------------
(***************************************************************************)
(* JsonlAuditSink: the hash-chained audit file, its anchor file, and the   *)
(* threads that append to them under the sink's lock, one step for every   *)
(* effect that reaches the disk.  The process may die between any two      *)
(* steps, writes may fail, and while no process runs somebody may cut the  *)
(* tail off the audit file or delete it.                                   *)
(*                                                                         *)
(* SHA-256 is taken to be injective: the hash of an event is the sequence  *)
(* of the events up to it.  Every appended event is a fresh one (uuid4).   *)
(***************************************************************************)
EXTENDS Naturals, SequencesExt

CONSTANTS
    Threads,      \* callers of append
    Events,       \* the events they may append
    MaxFailures,  \* bound: write errors
    MaxCrashes,   \* bound: processes that died
    None          \* no lock holder, no event, no anchor file

ASSUME NoneAssumption == None \notin Threads \cup Seq(Events)
ASSUME BoundsAssumption == MaxFailures \in Nat /\ MaxCrashes \in Nat

VARIABLES
    file,      \* the JSONL file
    anchor,    \* the chain tip in the anchor file, or None
    sink,      \* the JsonlAuditSink of the running process
    holder,    \* the thread that holds the sink's lock
    pc,        \* what each thread does
    line,      \* the chained event of each thread
    acked,     \* history: the events whose append returned
    offered,   \* history: the events given to append
    failures,  \* how many writes failed
    crashes    \* how many processes died

vars == <<file, anchor, sink, holder, pc, line, acked, offered, failures, crashes>>
disk == <<file, anchor>>

Hashes == Seq(Events)
Lines == [event : Events, previous : Hashes, intact : BOOLEAN]
NoFile == [exists |-> FALSE, lines |-> <<>>, torn |-> FALSE]
NoSink == [open |-> FALSE, closed |-> FALSE, previous |-> <<>>]

TypeOK ==
    /\ file \in [exists : BOOLEAN, lines : Seq(Lines), torn : BOOLEAN]
    /\ anchor \in Hashes \cup {None}
    /\ sink \in [open : BOOLEAN, closed : BOOLEAN, previous : Hashes]
    /\ holder \in Threads \cup {None}
    /\ pc \in [Threads -> {"idle", "wait", "write", "anchor", "publish"}]
    /\ line \in [Threads -> Lines \cup Events \cup {None}]
    /\ acked \in Seq(Events)
    /\ offered \subseteq Events
    /\ failures \in 0..MaxFailures
    /\ crashes \in 0..MaxCrashes

Init ==
    /\ file = NoFile
    /\ anchor = None
    /\ sink = NoSink
    /\ holder = None
    /\ pc = [t \in Threads |-> "idle"]
    /\ line = [t \in Threads |-> None]
    /\ acked = <<>>
    /\ offered = {}
    /\ failures = 0
    /\ crashes = 0

-----------------------------------------------------------------------------
(* verify *)

HashOf(l) == Append(l.previous, l.event)

Tip(lines) == IF lines = <<>> THEN <<>> ELSE HashOf(Last(lines))

(* Every line parses and names the hash of the line before it.             *)
Chained(lines) ==
    \A i \in DOMAIN lines :
        /\ lines[i].intact
        /\ lines[i].previous = Tip(SubSeq(lines, 1, i - 1))

AnchoredMutant(lines) == lines # <<>> => anchor # None

Anchored(lines) ==
    /\ lines # <<>> => anchor # None
    /\ anchor # None => anchor = Tip(lines)

Verifies == ~file.torn /\ Chained(file.lines) /\ Anchored(file.lines)

(* __init__ raises for an anchor without a file and for a file that does   *)
(* not verify; the process then does not come up.                          *)
Open ==
    /\ ~sink.open
    /\ IF file.exists THEN Verifies ELSE anchor = None
    /\ sink' = [open |-> TRUE, closed |-> FALSE, previous |-> Tip(file.lines)]
    /\ UNCHANGED <<file, anchor, holder, pc, line, acked, offered, failures, crashes>>

-----------------------------------------------------------------------------
(* append *)

Call(t, e) ==
    /\ sink.open
    /\ pc[t] = "idle"
    /\ e \notin offered
    /\ offered' = offered \cup {e}
    /\ pc' = [pc EXCEPT ![t] = "wait"]
    /\ line' = [line EXCEPT ![t] = e]
    /\ UNCHANGED <<file, anchor, sink, holder, acked, failures, crashes>>

Finish(t) ==
    /\ pc' = [pc EXCEPT ![t] = "idle"]
    /\ line' = [line EXCEPT ![t] = None]
    /\ holder' = None

Chain(t) ==
    /\ pc' = [pc EXCEPT ![t] = "write"]
    /\ line' = [line EXCEPT ![t] =
                   [event |-> @, previous |-> sink.previous, intact |-> TRUE]]
    /\ UNCHANGED <<file, anchor, sink, acked, offered, failures, crashes>>

LockUncheckedMutant(t) ==
    /\ pc[t] = "wait"
    /\ holder = None
    /\ holder' = t
    /\ Chain(t)

UnlockedMutant(t) ==
    /\ pc[t] = "wait"
    /\ ~sink.closed
    /\ holder' = t
    /\ Chain(t)

Lock(t) ==
    /\ pc[t] = "wait"
    /\ holder = None
    /\ ~sink.closed
    /\ holder' = t
    /\ Chain(t)

RefuseClosed(t) ==
    /\ pc[t] = "wait"
    /\ holder = None
    /\ sink.closed
    /\ Finish(t)
    /\ UNCHANGED <<file, anchor, sink, acked, offered, failures, crashes>>

(* A whole line after a torn one shares its line of text and cannot be     *)
(* parsed.  A torn one leaves text without an end of line.                 *)
WholeLine(l) ==
    [exists |-> TRUE, torn |-> FALSE,
     lines |-> Append(file.lines, [l EXCEPT !.intact = ~file.torn])]

TornLine == [file EXCEPT !.exists = TRUE, !.torn = TRUE]

Write(t) ==
    /\ pc[t] = "write"
    /\ file' = WholeLine(line[t])
    /\ pc' = [pc EXCEPT ![t] = "anchor"]
    /\ UNCHANGED <<anchor, sink, holder, line, acked, offered, failures, crashes>>

WriteAnchor(t) ==
    /\ pc[t] = "anchor"
    /\ anchor' = HashOf(line[t])
    /\ pc' = [pc EXCEPT ![t] = "publish"]
    /\ UNCHANGED <<file, sink, holder, line, acked, offered, failures, crashes>>

Publish(t) ==
    /\ pc[t] = "publish"
    /\ sink' = [sink EXCEPT !.previous = HashOf(line[t])]
    /\ acked' = Append(acked, line[t].event)
    /\ Finish(t)
    /\ UNCHANGED <<file, anchor, offered, failures, crashes>>

(* OSError: open, write, flush or fsync failed with nothing, a part of the *)
(* line or the whole line in the file; or the anchor was not replaced.     *)
WriteFails(t) ==
    /\ pc[t] = "write"
    /\ file' \in {file, [file EXCEPT !.exists = TRUE], TornLine, WholeLine(line[t])}
    /\ UNCHANGED anchor

AnchorFails(t) ==
    /\ pc[t] = "anchor"
    /\ UNCHANGED disk

Fail(t) ==
    /\ failures < MaxFailures
    /\ failures' = failures + 1
    /\ WriteFails(t) \/ AnchorFails(t)
    /\ Finish(t)
    /\ UNCHANGED <<sink, acked, offered, crashes>>

(* close waits for the lock. *)
Close ==
    /\ sink.open
    /\ ~sink.closed
    /\ holder = None
    /\ sink' = [sink EXCEPT !.closed = TRUE]
    /\ UNCHANGED <<file, anchor, holder, pc, line, acked, offered, failures, crashes>>

-----------------------------------------------------------------------------
(* Around the sink. *)

Crash ==
    /\ sink.open
    /\ crashes < MaxCrashes
    /\ crashes' = crashes + 1
    /\ \/ UNCHANGED file
       \/ (\E t \in Threads : pc[t] = "write") /\ file' = TornLine
    /\ sink' = NoSink
    /\ holder' = None
    /\ pc' = [t \in Threads |-> "idle"]
    /\ line' = [t \in Threads |-> None]
    /\ UNCHANGED <<anchor, acked, offered, failures>>

CutTail ==
    /\ ~sink.open
    /\ file.exists
    /\ \/ file' = NoFile
       \/ \E n \in 0..Len(file.lines) :
            file' = [exists |-> TRUE, lines |-> SubSeq(file.lines, 1, n), torn |-> FALSE]
    /\ UNCHANGED <<anchor, sink, holder, pc, line, acked, offered, failures, crashes>>

Step(t) ==
    \/ Lock(t) \/ RefuseClosed(t) \/ Write(t) \/ WriteAnchor(t) \/ Publish(t) \/ Fail(t)

Next ==
    \/ Open \/ Close \/ Crash \/ CutTail
    \/ \E t \in Threads : Step(t) \/ \E e \in Events : Call(t, e)

Spec == Init /\ [][Next]_vars

-----------------------------------------------------------------------------
(* Whenever the lock is free and no write ever failed, the file verifies   *)
(* and the sink will chain the next event to its last line: threads do not *)
(* fork the chain, and neither does a process that died or a cut tail.     *)
ReleasedChainVerifies ==
    (sink.open /\ holder = None /\ failures = 0) =>
        /\ file.exists => Verifies
        /\ sink.previous = Tip(file.lines)

EventsIn(lines) == [i \in DOMAIN lines |-> lines[i].event]

(* Every element of s occurs in t, once, and in the order of s.            *)
KeptIn(s, t) ==
    /\ \A i \in DOMAIN s : \E k \in DOMAIN t : t[k] = s[i]
    /\ \A i, j \in DOMAIN s : \A k, m \in DOMAIN t :
          t[k] = s[i] /\ t[m] = s[j] => (i < j <=> k < m)

(* A sink comes up only on a file that still holds every event any earlier *)
(* append returned for, in that order.  Crashes, failed writes, broken     *)
(* chains and deleted tails all end in a refusal to start, not in a chain  *)
(* that verifies without an acknowledged event.                            *)
OpensOnNothingLost ==
    [][(~sink.open /\ sink'.open) => KeptIn(acked, EventsIn(file.lines))]_vars

(* After close returned the process changes neither file: an append that   *)
(* was waiting for the lock meanwhile is refused, not written late.        *)
ClosedLogIsFrozen == [][(sink.closed /\ sink'.open) => UNCHANGED disk]_vars

(* "synchronous integrity verification": an append that returns leaves a   *)
(* file that verifies.                                                     *)
ReturnedAppendLeavesValidChain == [][acked' # acked => Verifies']_vars
=============================================================================
