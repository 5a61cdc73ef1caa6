--------------------------- MODULE AuditChainProofs ---------------------------
(***************************************************************************)
(* Proofs about AuditChain, for every set of threads and events and every  *)
(* number of failed writes and of processes that died.                     *)
(***************************************************************************)
EXTENDS AuditChain, WellFoundedInduction, TLAPS

-----------------------------------------------------------------------------
(* The lock and what its holder has in hand.                               *)

AtWork == {"write", "anchor", "publish"}

(* The thread that is past the lock is its holder, and has a chained line. *)
LockInv ==
    /\ \A t \in Threads : pc[t] \in AtWork <=> holder = t
    /\ \A t \in Threads : pc[t] \in AtWork => line[t] \in Lines /\ line[t].intact
    /\ \A t \in Threads : pc[t] = "wait" => line[t] \in Events
    /\ sink.closed => holder = None
    /\ ~sink.open => sink = NoSink /\ holder = None
    /\ ~sink.open => \A t \in Threads : pc[t] = "idle"
    /\ ~file.exists => file = NoFile

LEMMA TipIsHash ==
    ASSUME NEW lines \in Seq(Lines)
    PROVE  Tip(lines) \in Hashes
<1>1. CASE lines = <<>>
  BY <1>1 DEF Tip, Hashes
<1>2. CASE lines # <<>>
  <2>1. Last(lines) \in Lines
    BY <1>2 DEF Last
  <2> QED
    BY <1>2, <2>1 DEF Tip, HashOf, Lines, Hashes
<1> QED
  BY <1>1, <1>2

LEMMA HashIsHash ==
    ASSUME NEW l \in Lines
    PROVE  HashOf(l) \in Hashes
BY DEF HashOf, Lines, Hashes

LEMMA WholeLineIsFile ==
    ASSUME TypeOK, NEW l \in Lines
    PROVE  /\ WholeLine(l).exists
           /\ WholeLine(l) \in [exists : BOOLEAN, lines : Seq(Lines), torn : BOOLEAN]
<1>1. [l EXCEPT !.intact = ~file.torn] \in Lines
  BY DEF TypeOK, Lines
<1> QED
  BY <1>1 DEF TypeOK, WholeLine

Typed == TypeOK /\ LockInv

LEMMA TypedInit == Init => Typed
<1> SUFFICES ASSUME Init PROVE Typed
  OBVIOUS
<1>1. NoFile \in [exists : BOOLEAN, lines : Seq(Lines), torn : BOOLEAN]
  BY DEF NoFile
<1>2. NoSink \in [open : BOOLEAN, closed : BOOLEAN, previous : Hashes]
  BY DEF NoSink, Hashes
<1>3. TypeOK
  BY <1>1, <1>2, BoundsAssumption DEF Init, TypeOK
<1>4. LockInv
  BY NoneAssumption DEF Init, LockInv, AtWork, NoFile, NoSink
<1> QED
  BY <1>3, <1>4 DEF Typed

LEMMA TypedStep == Typed /\ [Next]_vars => Typed'
<1> SUFFICES ASSUME TypeOK, LockInv, [Next]_vars PROVE TypeOK' /\ LockInv'
  BY DEF Typed
<1> USE NoneAssumption, BoundsAssumption
<1>1. CASE Open
  <2>1. Tip(file.lines) \in Hashes
    BY TipIsHash DEF TypeOK
  <2>2. TypeOK'
    BY <1>1, <2>1 DEF Open, TypeOK
  <2>3. LockInv'
    BY <1>1 DEF Open, TypeOK, LockInv, AtWork, NoSink
  <2> QED
    BY <2>2, <2>3
<1>2. CASE Close
  BY <1>2 DEF Close, TypeOK, LockInv, AtWork, NoSink
<1>3. CASE Crash
  <2>1. TornLine \in [exists : BOOLEAN, lines : Seq(Lines), torn : BOOLEAN] /\ TornLine.exists
    BY DEF TypeOK, TornLine
  <2>2. NoSink \in [open : BOOLEAN, closed : BOOLEAN, previous : Hashes] /\ ~NoSink.open /\ ~NoSink.closed
    BY DEF NoSink, Hashes
  <2>3. TypeOK'
    BY <1>3, <2>1, <2>2 DEF Crash, TypeOK
  <2>4. LockInv'
    BY <1>3, <2>1, <2>2 DEF Crash, TypeOK, LockInv, AtWork
  <2> QED
    BY <2>3, <2>4
<1>4. CASE CutTail
  <2>1. NoFile \in [exists : BOOLEAN, lines : Seq(Lines), torn : BOOLEAN]
    BY DEF NoFile
  <2>2. ASSUME NEW n \in 0..Len(file.lines)
        PROVE  [exists |-> TRUE, lines |-> SubSeq(file.lines, 1, n), torn |-> FALSE]
                 \in [exists : BOOLEAN, lines : Seq(Lines), torn : BOOLEAN]
    <3>1. \A i \in 1..n : i \in 1..Len(file.lines)
      BY DEF TypeOK
    <3>2. SubSeq(file.lines, 1, n) \in Seq(Lines)
      BY <3>1 DEF TypeOK
    <3> QED
      BY <3>2
  <2>3. file' \in [exists : BOOLEAN, lines : Seq(Lines), torn : BOOLEAN]
    BY <1>4, <2>1, <2>2 DEF CutTail
  <2>4. ~file'.exists => file' = NoFile
    BY <1>4 DEF CutTail
  <2>5. TypeOK'
    BY <1>4, <2>3 DEF CutTail, TypeOK
  <2>6. LockInv'
    BY <1>4, <2>4 DEF CutTail, TypeOK, LockInv, AtWork
  <2> QED
    BY <2>5, <2>6
<1>5. ASSUME NEW t \in Threads, NEW e \in Events, Call(t, e)
      PROVE  TypeOK' /\ LockInv'
  <2>1. TypeOK'
    BY <1>5 DEF Call, TypeOK
  <2>2. LockInv'
    BY <1>5 DEF Call, TypeOK, LockInv, AtWork
  <2> QED
    BY <2>1, <2>2
<1>6. ASSUME NEW t \in Threads, Lock(t)
      PROVE  TypeOK' /\ LockInv'
  <2>1. [event |-> line[t], previous |-> sink.previous, intact |-> TRUE] \in Lines
    BY <1>6 DEF Lock, TypeOK, LockInv, Lines
  <2>2. /\ line' = [line EXCEPT ![t] = [event |-> line[t], previous |-> sink.previous, intact |-> TRUE]]
        /\ pc' = [pc EXCEPT ![t] = "write"]
        /\ UNCHANGED <<file, anchor, sink, acked, offered, failures, crashes>>
        /\ pc[t] = "wait" /\ holder = None /\ holder' = t /\ ~sink.closed
    BY <1>6 DEF Lock, Chain
  <2>3. TypeOK'
    BY <2>1, <2>2 DEF TypeOK
  <2>4. LockInv'
    BY <2>1, <2>2 DEF TypeOK, LockInv, AtWork
  <2> QED
    BY <2>3, <2>4
<1>7. ASSUME NEW t \in Threads, RefuseClosed(t)
      PROVE  TypeOK' /\ LockInv'
  BY <1>7 DEF RefuseClosed, Finish, TypeOK, LockInv, AtWork
<1>8. ASSUME NEW t \in Threads, Write(t)
      PROVE  TypeOK' /\ LockInv'
  <2>1. line[t] \in Lines
    BY <1>8 DEF Write, LockInv, AtWork
  <2>2. TypeOK'
    BY <1>8, <2>1, WholeLineIsFile DEF Write, TypeOK
  <2>3. LockInv'
    BY <1>8, <2>1, WholeLineIsFile DEF Write, TypeOK, LockInv, AtWork
  <2> QED
    BY <2>2, <2>3
<1>9. ASSUME NEW t \in Threads, WriteAnchor(t)
      PROVE  TypeOK' /\ LockInv'
  <2>1. HashOf(line[t]) \in Hashes
    BY <1>9, HashIsHash DEF WriteAnchor, LockInv, AtWork
  <2>2. TypeOK'
    BY <1>9, <2>1 DEF WriteAnchor, TypeOK
  <2>3. LockInv'
    BY <1>9 DEF WriteAnchor, TypeOK, LockInv, AtWork
  <2> QED
    BY <2>2, <2>3
<1>10. ASSUME NEW t \in Threads, Publish(t)
       PROVE  TypeOK' /\ LockInv'
  <2>1. HashOf(line[t]) \in Hashes /\ line[t].event \in Events
    BY <1>10, HashIsHash DEF Publish, LockInv, AtWork, Lines
  <2>2. TypeOK'
    <3>1. /\ sink' \in [open : BOOLEAN, closed : BOOLEAN, previous : Hashes]
          /\ acked' \in Seq(Events)
      <4>1. sink' = [sink EXCEPT !.previous = HashOf(line[t])]
        BY <1>10 DEF Publish
      <4>2. acked' = Append(acked, line[t].event)
        BY <1>10 DEF Publish
      <4>3. sink \in [open : BOOLEAN, closed : BOOLEAN, previous : Hashes] /\ acked \in Seq(Events)
        BY DEF TypeOK
      <4>4. sink' \in [open : BOOLEAN, closed : BOOLEAN, previous : Hashes]
        BY <2>1, <4>1, <4>3
      <4> QED
        BY <2>1, <4>2, <4>3, <4>4
    <3>2. /\ pc' \in [Threads -> {"idle", "wait", "write", "anchor", "publish"}]
          /\ line' \in [Threads -> Lines \cup Events \cup {None}]
          /\ holder' \in Threads \cup {None}
      BY <1>10 DEF Publish, Finish, TypeOK
    <3>3. UNCHANGED <<file, anchor, offered, failures, crashes>>
      BY <1>10 DEF Publish
    <3> QED
      BY <3>1, <3>2, <3>3 DEF TypeOK
  <2>3. LockInv'
    BY <1>10 DEF Publish, Finish, TypeOK, LockInv, AtWork, NoSink
  <2> QED
    BY <2>2, <2>3
<1>11. ASSUME NEW t \in Threads, Fail(t)
       PROVE  TypeOK' /\ LockInv'
  <2>1. pc[t] \in {"write", "anchor"} /\ line[t] \in Lines
    BY <1>11 DEF Fail, WriteFails, AnchorFails, LockInv, AtWork
  <2>2. TornLine \in [exists : BOOLEAN, lines : Seq(Lines), torn : BOOLEAN] /\ TornLine.exists
    BY DEF TypeOK, TornLine
  <2>3. /\ file' \in [exists : BOOLEAN, lines : Seq(Lines), torn : BOOLEAN]
        /\ ~file'.exists => file' = NoFile
    <3>1. [file EXCEPT !.exists = TRUE] \in [exists : BOOLEAN, lines : Seq(Lines), torn : BOOLEAN]
      BY DEF TypeOK
    <3>2. [file EXCEPT !.exists = TRUE].exists
      BY DEF TypeOK
    <3>3. file' \in {file, [file EXCEPT !.exists = TRUE], TornLine, WholeLine(line[t])}
      BY <1>11 DEF Fail, WriteFails, AnchorFails, disk
    <3>4. /\ WholeLine(line[t]) \in [exists : BOOLEAN, lines : Seq(Lines), torn : BOOLEAN]
          /\ WholeLine(line[t]).exists
      BY <2>1, WholeLineIsFile
    <3>5. file' = file \/ file'.exists
      BY <2>2, <3>2, <3>3, <3>4
    <3>6. file' \in [exists : BOOLEAN, lines : Seq(Lines), torn : BOOLEAN]
      BY <2>2, <3>1, <3>3, <3>4 DEF TypeOK
    <3> QED
      BY <3>5, <3>6 DEF LockInv
  <2>4. anchor' = anchor
    BY <1>11 DEF Fail, WriteFails, AnchorFails, disk
  <2>5. TypeOK'
    BY <1>11, <2>3, <2>4 DEF Fail, Finish, TypeOK
  <2>6. LockInv'
    BY <1>11, <2>1, <2>3 DEF Fail, Finish, TypeOK, LockInv, AtWork
  <2> QED
    BY <2>5, <2>6
<1>12. CASE UNCHANGED vars
  BY <1>12 DEF vars, TypeOK, LockInv
<1> QED
  BY <1>1, <1>2, <1>3, <1>4, <1>5, <1>6, <1>7, <1>8, <1>9, <1>10, <1>11, <1>12
     DEF Next, Step

(* Every reachable state of the log, its sink and its threads is well      *)
(* typed.                                                                  *)
THEOREM LogIsTyped == Spec => []TypeOK
<1>1. Spec => []Typed
  BY TypedInit, TypedStep, PTL DEF Spec
<1> QED
  BY <1>1, PTL DEF Typed

(* A closed sink changes neither file, however many threads wait for its   *)
(* lock: only the holder of the lock writes, and close takes the lock.     *)
THEOREM ClosedLogsAreFrozen == Spec => ClosedLogIsFrozen
<1>1. ASSUME Typed, [Next]_vars, sink.closed, sink'.open
      PROVE  UNCHANGED disk
  <2>1. sink.open /\ holder = None
    BY <1>1 DEF Typed, LockInv, NoSink
  <2>2. \A t \in Threads : pc[t] \notin AtWork
    BY <1>1, <2>1, NoneAssumption DEF Typed, LockInv
  <2>3. \A t \in Threads : ~Write(t) /\ ~WriteAnchor(t) /\ ~Fail(t) /\ ~Publish(t)
    BY <2>2 DEF Write, WriteAnchor, Fail, WriteFails, AnchorFails, Publish, AtWork
  <2> QED
    BY <1>1, <2>1, <2>3
       DEF Next, Step, Open, Close, Crash, NoSink, CutTail, Call, Lock, Chain, RefuseClosed, vars, disk
<1>2. Spec => []Typed
  BY TypedInit, TypedStep, PTL DEF Spec
<1> QED
  BY <1>1, <1>2, PTL DEF Spec, ClosedLogIsFrozen
-----------------------------------------------------------------------------
(* The chain.                                                              *)

(* A line that is whole and names the tip continues a chain.               *)
LEMMA ChainGrows ==
    ASSUME NEW lines \in Seq(Lines), NEW l \in Lines,
           Chained(lines), l.intact, l.previous = Tip(lines)
    PROVE  /\ Chained(Append(lines, l))
           /\ Tip(Append(lines, l)) = HashOf(l)
           /\ Append(lines, l) # <<>>
<1> DEFINE more == Append(lines, l)
<1>1. /\ more \in Seq(Lines)
      /\ Len(more) = Len(lines) + 1
      /\ more[Len(lines) + 1] = l
      /\ \A i \in 1..Len(lines) : more[i] = lines[i]
      /\ more # <<>>
  OBVIOUS
<1>2. Tip(more) = HashOf(l)
  BY <1>1 DEF Tip, Last
<1>3. \A i \in 1..(Len(lines) + 1) : SubSeq(more, 1, i - 1) = SubSeq(lines, 1, i - 1)
  <2> TAKE i \in 1..(Len(lines) + 1)
  <2>1. i - 1 <= Len(lines) /\ i - 1 \in Nat
    OBVIOUS
  <2>2. /\ SubSeq(more, 1, i - 1) = [k \in 1..(i - 1) |-> more[k]]
        /\ SubSeq(lines, 1, i - 1) = [k \in 1..(i - 1) |-> lines[k]]
    BY <1>1, <2>1
  <2>3. \A k \in 1..(i - 1) : k \in 1..Len(lines)
    BY <2>1
  <2> QED
    BY <1>1, <2>2, <2>3
<1>4. SubSeq(lines, 1, Len(lines)) = lines
  OBVIOUS
<1>5. ASSUME NEW i \in 1..(Len(lines) + 1)
      PROVE  more[i].intact /\ more[i].previous = Tip(SubSeq(more, 1, i - 1))
  <2>1. CASE i \in 1..Len(lines)
    <3>1. lines[i].intact /\ lines[i].previous = Tip(SubSeq(lines, 1, i - 1))
      BY <2>1 DEF Chained
    <3>2. SubSeq(more, 1, i - 1) = SubSeq(lines, 1, i - 1) /\ more[i] = lines[i]
      BY <1>1, <1>3, <2>1
    <3> QED
      BY <3>1, <3>2
  <2>2. CASE i = Len(lines) + 1
    <3>1. i - 1 = Len(lines)
      BY <2>2
    <3> QED
      BY <1>1, <1>3, <1>4, <2>2, <3>1
  <2> QED
    BY <2>1, <2>2
<1> QED
  BY <1>1, <1>2, <1>5 DEF Chained

(* While no write has failed: the file verifies whenever nobody is between *)
(* the line and its anchor, and where somebody is it lacks only that.      *)
Sound == ~file.torn /\ Chained(file.lines)

ChainInv ==
    sink.open /\ failures = 0 =>
        /\ Sound
        /\ holder = None => Anchored(file.lines) /\ sink.previous = Tip(file.lines)
        /\ \A t \in Threads :
              /\ pc[t] = "write" =>
                    /\ Anchored(file.lines)
                    /\ sink.previous = Tip(file.lines)
                    /\ line[t].previous = sink.previous
              /\ pc[t] = "anchor" =>
                    file.lines # <<>> /\ Tip(file.lines) = HashOf(line[t])
              /\ pc[t] = "publish" =>
                    /\ file.lines # <<>>
                    /\ Tip(file.lines) = HashOf(line[t])
                    /\ anchor = Tip(file.lines)

LEMMA ChainStep == Typed /\ ChainInv /\ [Next]_vars => ChainInv'
<1> SUFFICES ASSUME TypeOK, LockInv, ChainInv, [Next]_vars, sink'.open, failures' = 0
             PROVE  ChainInv'
  BY DEF Typed, ChainInv
<1> USE NoneAssumption
<1>1. CASE Open
  <2>1. \A t \in Threads : pc'[t] = "idle"
    BY <1>1 DEF Open, LockInv
  <2>2. file.exists => Sound /\ Anchored(file.lines)
    BY <1>1 DEF Open, Verifies, Sound
  <2>3. ~file.exists => Sound /\ Anchored(file.lines)
    <3> SUFFICES ASSUME ~file.exists PROVE Sound /\ Anchored(file.lines)
      OBVIOUS
    <3>1. file.lines = <<>> /\ ~file.torn /\ anchor = None
      BY <1>1 DEF Open, LockInv, NoFile
    <3> QED
      BY <3>1 DEF Sound, Chained, Anchored
  <2>4. sink'.previous = Tip(file.lines) /\ UNCHANGED <<file, anchor>>
    BY <1>1 DEF Open
  <2>5. Sound' /\ Anchored(file.lines)'
    BY <2>2, <2>3, <2>4 DEF Sound, Chained, Anchored, Tip, HashOf
  <2> QED
    BY <2>1, <2>4, <2>5 DEF ChainInv
<1>2. CASE Close
  <2>1. sink.open /\ failures = 0 /\ holder = None
    BY <1>2 DEF Close
  <2>2. sink'.previous = sink.previous
    BY <1>2 DEF Close, TypeOK
  <2> QED
    BY <1>2, <2>1, <2>2 DEF Close, ChainInv, Sound, Chained, Anchored, Tip, HashOf
<1>3. CASE Crash
  BY <1>3 DEF Crash, NoSink
<1>4. CASE CutTail
  BY <1>4 DEF CutTail
<1>5. ASSUME NEW t \in Threads, NEW e \in Events, Call(t, e)
      PROVE  ChainInv'
  BY <1>5 DEF Call, TypeOK, ChainInv, Sound, Chained, Anchored, Tip, HashOf
<1>6. ASSUME NEW t \in Threads, Lock(t)
      PROVE  ChainInv'
  <2>1. /\ line' = [line EXCEPT ![t] = [event |-> line[t], previous |-> sink.previous, intact |-> TRUE]]
        /\ pc' = [pc EXCEPT ![t] = "write"]
        /\ UNCHANGED <<file, anchor, sink, failures>>
        /\ holder = None /\ holder' = t
    BY <1>6 DEF Lock, Chain
  <2>2. \A u \in Threads : pc[u] \notin AtWork
    BY <2>1 DEF LockInv
  <2>3. Sound /\ Anchored(file.lines) /\ sink.previous = Tip(file.lines)
    BY <2>1 DEF ChainInv
  <2>4. line'[t].previous = sink.previous
    BY <2>1 DEF TypeOK
  <2>5. Sound' /\ Anchored(file.lines)' /\ sink'.previous = Tip(file.lines)'
    BY <2>1, <2>3 DEF Sound, Chained, Anchored, Tip, HashOf
  <2>6. \A u \in Threads : u # t => pc'[u] \notin AtWork
    BY <2>1, <2>2 DEF TypeOK
  <2>7. pc'[t] = "write" /\ holder' # None /\ line'[t].previous = sink'.previous
    BY <2>1, <2>4 DEF TypeOK
  <2> QED
    BY <2>5, <2>6, <2>7 DEF ChainInv, AtWork
<1>7. ASSUME NEW t \in Threads, RefuseClosed(t)
      PROVE  ChainInv'
  BY <1>7 DEF RefuseClosed, Finish, TypeOK, LockInv, AtWork,
              ChainInv, Sound, Chained, Anchored, Tip, HashOf
<1>8. ASSUME NEW t \in Threads, Write(t)
      PROVE  ChainInv'
  <2>1. sink.open /\ failures = 0 /\ holder = t /\ holder' = t
    BY <1>8 DEF Write, LockInv, AtWork
  <2>2. /\ line[t] \in Lines /\ line[t].intact
        /\ line[t].previous = Tip(file.lines)
        /\ ~file.torn /\ Chained(file.lines)
    BY <1>8, <2>1 DEF Write, LockInv, AtWork, ChainInv, Sound
  <2>3. [line[t] EXCEPT !.intact = ~file.torn] = line[t]
    BY <2>2 DEF Lines
  <2>4. file'.lines = Append(file.lines, line[t]) /\ ~file'.torn
    BY <1>8, <2>3 DEF Write, WholeLine
  <2>5. Chained(file'.lines) /\ Tip(file'.lines) = HashOf(line[t]) /\ file'.lines # <<>>
    BY <2>2, <2>4, ChainGrows DEF TypeOK
  <2>6. Sound'
    BY <2>4, <2>5 DEF Sound, Chained, Tip, HashOf
  <2>7. pc' = [pc EXCEPT ![t] = "anchor"] /\ UNCHANGED <<line, sink, holder>>
    BY <1>8 DEF Write
  <2>8. \A u \in Threads : u # t => pc'[u] \notin AtWork
    BY <2>1, <2>7 DEF TypeOK, LockInv
  <2>9. Tip(file.lines)' = HashOf(line[t])'
    BY <2>5, <2>7 DEF Tip, HashOf
  <2>10. pc'[t] = "anchor" /\ holder' # None /\ file'.lines # <<>>
    BY <2>1, <2>5, <2>7 DEF TypeOK
  <2> QED
    BY <2>6, <2>8, <2>9, <2>10 DEF ChainInv, AtWork
<1>9. ASSUME NEW t \in Threads, WriteAnchor(t)
      PROVE  ChainInv'
  <2>1. sink.open /\ failures = 0 /\ holder = t
    BY <1>9 DEF WriteAnchor, LockInv, AtWork
  <2>2. /\ Sound
        /\ file.lines # <<>> /\ Tip(file.lines) = HashOf(line[t])
    BY <1>9, <2>1 DEF WriteAnchor, ChainInv
  <2>3. /\ pc' = [pc EXCEPT ![t] = "publish"]
        /\ UNCHANGED <<file, line, sink, holder>>
        /\ anchor' = HashOf(line[t])
    BY <1>9 DEF WriteAnchor
  <2>4. \A u \in Threads : u # t => pc'[u] \notin AtWork
    BY <2>1, <2>3 DEF TypeOK, LockInv
  <2>5. /\ Sound'
        /\ file'.lines # <<>> /\ Tip(file.lines)' = HashOf(line[t])'
        /\ anchor' = Tip(file.lines)'
    BY <2>2, <2>3 DEF Sound, Chained, Tip, HashOf
  <2>6. pc'[t] = "publish" /\ holder' # None
    BY <2>1, <2>3 DEF TypeOK
  <2> QED
    BY <2>4, <2>5, <2>6 DEF ChainInv, AtWork
<1>10. ASSUME NEW t \in Threads, Publish(t)
       PROVE  ChainInv'
  <2>1. sink.open /\ failures = 0 /\ holder = t
    BY <1>10 DEF Publish, LockInv, AtWork
  <2>2. /\ Sound
        /\ file.lines # <<>> /\ Tip(file.lines) = HashOf(line[t]) /\ anchor = Tip(file.lines)
    BY <1>10, <2>1 DEF Publish, ChainInv
  <2>3. /\ pc' = [pc EXCEPT ![t] = "idle"]
        /\ UNCHANGED <<file, anchor>>
        /\ sink'.previous = HashOf(line[t])
    BY <1>10 DEF Publish, Finish, TypeOK
  <2>4. \A u \in Threads : pc'[u] \notin AtWork
    BY <2>1, <2>3 DEF TypeOK, LockInv, AtWork
  <2>5. HashOf(line[t]) # None
    BY <1>10, HashIsHash DEF Publish, LockInv, AtWork, Hashes
  <2>6. Anchored(file.lines)
    BY <2>2, <2>5 DEF Anchored
  <2>7. Sound' /\ Anchored(file.lines)' /\ sink'.previous = Tip(file.lines)'
    BY <2>2, <2>3, <2>6 DEF Sound, Chained, Anchored, Tip, HashOf
  <2> QED
    BY <2>4, <2>7 DEF ChainInv, AtWork
<1>11. ASSUME NEW t \in Threads, Fail(t)
       PROVE  ChainInv'
  BY <1>11, BoundsAssumption DEF Fail, TypeOK
<1>12. CASE UNCHANGED vars
  BY <1>12 DEF vars, ChainInv, Sound, Chained, Anchored, Tip, HashOf
<1> QED
  BY <1>1, <1>2, <1>3, <1>4, <1>5, <1>6, <1>7, <1>8, <1>9, <1>10, <1>11, <1>12
     DEF Next, Step

(* Whatever threads append, processes die and tails are cut: as long as no *)
(* write failed, a file nobody is writing verifies and the sink chains to  *)
(* its last line.                                                          *)
THEOREM ReleasedChainsVerify == Spec => []ReleasedChainVerifies
<1>1. Init => ChainInv
  BY DEF Init, NoSink, ChainInv
<1>2. ChainInv => ReleasedChainVerifies
  BY DEF ChainInv, Sound, Verifies, ReleasedChainVerifies
<1>3. Spec => []Typed
  BY TypedInit, TypedStep, PTL DEF Spec
<1> QED
  BY <1>1, <1>2, <1>3, ChainStep, PTL DEF Spec
-----------------------------------------------------------------------------
(* What was acknowledged.                                                  *)

(* Induction over the naturals: a set that holds 0 and every successor of  *)
(* its numbers holds every natural number.                                 *)
LEMMA NatsAreReached ==
    ASSUME NEW S, 0 \in S, \A n \in Nat : n \in S => n + 1 \in S
    PROVE  Nat \subseteq S
<1> DEFINE R == OpToRel(<, Nat)
<1> DEFINE T == Nat \ S
<1>1. IsWellFoundedOn(R, Nat)
  BY NatLessThanWellFounded
<1>2. \A x, y \in Nat : x < y => <<x, y>> \in R
  BY DEF OpToRel
<1> HIDE DEF R
<1> SUFFICES ASSUME T # {} PROVE FALSE
  OBVIOUS
<1>3. T \subseteq Nat
  OBVIOUS
<1> HIDE DEF T
<1>4. PICK x \in T : \A y \in T : ~ (<<y, x>> \in R)
  BY <1>1, <1>3, WFMin, Zenon
<1>5. x \in Nat /\ x \notin S
  BY DEF T
<1>6. x # 0
  BY <1>5
<1>7. x - 1 \in Nat /\ x - 1 < x /\ (x - 1) + 1 = x
  BY <1>5, <1>6
<1>8. x - 1 \in S
  BY <1>2, <1>4, <1>5, <1>7 DEF T
<1> QED
  BY <1>5, <1>7, <1>8

(* The tip of a chain names every event of it, in order.                   *)
LEMMA TipNamesEvents ==
    ASSUME NEW lines \in Seq(Lines), Chained(lines)
    PROVE  Tip(lines) = EventsIn(lines)
<1> DEFINE upto(n) == SubSeq(lines, 1, n)
<1> DEFINE S == {n \in Nat : n <= Len(lines) => Tip(upto(n)) = EventsIn(upto(n))}
<1>1. 0 \in S
  BY DEF Tip, EventsIn
<1>2. ASSUME NEW n \in Nat, n \in S
      PROVE  n + 1 \in S
  <2> SUFFICES ASSUME n + 1 <= Len(lines)
               PROVE  Tip(upto(n + 1)) = EventsIn(upto(n + 1))
    OBVIOUS
  <2>1. Tip(upto(n)) = EventsIn(upto(n))
    BY <1>2
  <2>2. /\ upto(n) \in Seq(Lines) /\ upto(n + 1) \in Seq(Lines)
        /\ DOMAIN upto(n) = 1..n /\ DOMAIN upto(n + 1) = 1..(n + 1)
        /\ Len(upto(n + 1)) = n + 1 /\ upto(n + 1) # <<>>
        /\ \A k \in 1..n : upto(n)[k] = lines[k]
        /\ \A k \in 1..(n + 1) : upto(n + 1)[k] = lines[k]
    OBVIOUS
  <2>3. n + 1 \in DOMAIN lines /\ SubSeq(lines, 1, (n + 1) - 1) = upto(n)
    OBVIOUS
  <2>4. lines[n + 1] \in Lines /\ lines[n + 1].previous = Tip(upto(n))
    BY <2>3 DEF Chained
  <2> HIDE DEF upto
  <2>5. Tip(upto(n + 1)) = HashOf(lines[n + 1])
    BY <2>2 DEF Tip, Last
  <2>6. Tip(upto(n + 1)) = Append(EventsIn(upto(n)), lines[n + 1].event)
    BY <2>1, <2>4, <2>5 DEF HashOf
  <2>7. /\ EventsIn(upto(n)) = [k \in 1..n |-> upto(n)[k].event]
        /\ EventsIn(upto(n + 1)) = [k \in 1..(n + 1) |-> upto(n + 1)[k].event]
    BY <2>2 DEF EventsIn
  <2> DEFINE es == EventsIn(upto(n))
  <2> DEFINE fs == EventsIn(upto(n + 1))
  <2>8. es \in Seq(Events) /\ Len(es) = n
    <3>1. \A k \in 1..n : upto(n)[k].event \in Events
      <4> TAKE k \in 1..n
      <4>1. upto(n)[k] \in Lines
        BY <2>2
      <4> QED
        BY <4>1 DEF Lines
    <3> QED
      BY <2>7, <3>1
  <2>9. /\ \A k \in 1..n : fs[k] = es[k]
        /\ fs[n + 1] = lines[n + 1].event
    BY <2>2, <2>7
  <2>10. fs = [k \in 1..(n + 1) |-> fs[k]]
    BY <2>7
  <2> HIDE DEF es, fs
  <2>11. Append(es, lines[n + 1].event)
           = [k \in 1..(n + 1) |-> IF k <= n THEN es[k] ELSE lines[n + 1].event]
    BY <2>4, <2>8 DEF Lines
  <2>12. \A k \in 1..(n + 1) : k <= n \/ k = n + 1
    OBVIOUS
  <2>13. \A k \in 1..(n + 1) : fs[k] = IF k <= n THEN es[k] ELSE lines[n + 1].event
    BY <2>9, <2>12
  <2>14. fs = Append(es, lines[n + 1].event)
    BY <2>10, <2>11, <2>13
  <2> QED
    BY <2>6, <2>14 DEF es, fs
<1>3. Nat \subseteq S
  <2> HIDE DEF S
  <2> QED
    BY <1>1, <1>2, NatsAreReached
<1>4. upto(Len(lines)) = lines
  OBVIOUS
<1> HIDE DEF upto
<1>5. Tip(upto(Len(lines))) = EventsIn(upto(Len(lines)))
  BY <1>3
<1> QED
  BY <1>4, <1>5

(* A sequence of events that holds others in order goes on holding them    *)
(* when it grows by an event that is none of them.                         *)
LEMMA KeptInLonger ==
    ASSUME NEW s \in Seq(Events), NEW t \in Seq(Events), NEW e \in Events,
           KeptIn(s, t), e \notin ToSet(s)
    PROVE  KeptIn(s, Append(t, e))
<1> DEFINE more == Append(t, e)
<1>1. /\ DOMAIN more = 1..(Len(t) + 1) /\ DOMAIN t = 1..Len(t) /\ Len(t) \in Nat
      /\ \A k \in DOMAIN t : k \in DOMAIN more /\ more[k] = t[k]
      /\ more[Len(t) + 1] = e
  OBVIOUS
<1> HIDE DEF more
<1>2. \A i \in DOMAIN s, k \in DOMAIN more : more[k] = s[i] => k \in DOMAIN t
  BY <1>1 DEF ToSet
<1>3. \A i \in DOMAIN s : \E k \in DOMAIN more : more[k] = s[i]
  BY <1>1 DEF KeptIn
<1>4. ASSUME NEW i \in DOMAIN s, NEW j \in DOMAIN s,
             NEW k \in DOMAIN more, NEW m \in DOMAIN more,
             more[k] = s[i], more[m] = s[j]
      PROVE  i < j <=> k < m
  BY <1>1, <1>2, <1>4 DEF KeptIn
<1> QED
  BY <1>3, <1>4 DEF KeptIn, more

(* Both may grow by one event that was in neither.                         *)
LEMMA KeptInBoth ==
    ASSUME NEW s \in Seq(Events), NEW t \in Seq(Events), NEW e \in Events,
           KeptIn(s, t), e \notin ToSet(s), e \notin ToSet(t)
    PROVE  KeptIn(Append(s, e), Append(t, e))
<1> DEFINE ss == Append(s, e)
<1> DEFINE tt == Append(t, e)
<1>1. /\ DOMAIN tt = 1..(Len(t) + 1) /\ DOMAIN t = 1..Len(t) /\ Len(t) \in Nat
      /\ \A k \in DOMAIN t : k \in DOMAIN tt /\ tt[k] = t[k]
      /\ tt[Len(t) + 1] = e
  OBVIOUS
<1>2. /\ DOMAIN ss = 1..(Len(s) + 1) /\ DOMAIN s = 1..Len(s) /\ Len(s) \in Nat
      /\ \A i \in DOMAIN s : i \in DOMAIN ss /\ ss[i] = s[i]
      /\ ss[Len(s) + 1] = e
  OBVIOUS
<1> HIDE DEF ss, tt
<1>3. ASSUME NEW i \in DOMAIN ss, NEW k \in DOMAIN tt, tt[k] = ss[i]
      PROVE  \/ i \in DOMAIN s /\ k \in DOMAIN t /\ t[k] = s[i]
             \/ i = Len(s) + 1 /\ k = Len(t) + 1
  <2>1. i \in DOMAIN s \/ i = Len(s) + 1
    BY <1>2
  <2>2. k \in DOMAIN t \/ k = Len(t) + 1
    BY <1>1
  <2> QED
    BY <1>1, <1>2, <1>3, <2>1, <2>2 DEF ToSet
<1>4. ASSUME NEW i \in DOMAIN ss
      PROVE  \E k \in DOMAIN tt : tt[k] = ss[i]
  <2>1. CASE i \in DOMAIN s
    BY <1>1, <1>2, <2>1 DEF KeptIn
  <2>2. CASE i = Len(s) + 1
    BY <1>1, <1>2, <2>2
  <2> QED
    BY <1>2, <2>1, <2>2
<1>5. ASSUME NEW i \in DOMAIN ss, NEW j \in DOMAIN ss,
             NEW k \in DOMAIN tt, NEW m \in DOMAIN tt,
             tt[k] = ss[i], tt[m] = ss[j]
      PROVE  i < j <=> k < m
  <2>1. \/ i \in DOMAIN s /\ k \in DOMAIN t /\ t[k] = s[i]
        \/ i = Len(s) + 1 /\ k = Len(t) + 1
    BY <1>3, <1>5
  <2>2. \/ j \in DOMAIN s /\ m \in DOMAIN t /\ t[m] = s[j]
        \/ j = Len(s) + 1 /\ m = Len(t) + 1
    BY <1>3, <1>5
  <2> QED
    BY <1>1, <1>2, <2>1, <2>2 DEF KeptIn
<1> QED
  BY <1>4, <1>5 DEF KeptIn, ss, tt

(* The events whose hash the anchor file holds.                            *)
AnchoredEvents == IF anchor = None THEN <<>> ELSE anchor

(* The event a thread inside append came with.                             *)
EventOf(t) == IF pc[t] = "wait" THEN line[t] ELSE line[t].event

(* The anchor and the running sink both hold every acknowledged event, in  *)
(* order.                                                                  *)
KeptInv ==
    /\ KeptIn(acked, AnchoredEvents)
    /\ sink.open => KeptIn(acked, sink.previous)
    /\ ToSet(AnchoredEvents) \subseteq offered
    /\ ToSet(sink.previous) \subseteq offered

(* What threads inside append came with differs, and the sink has none of  *)
(* it.                                                                     *)
FreshInv ==
    /\ \A t \in Threads : pc[t] # "idle" =>
          EventOf(t) \in offered \ (ToSet(sink.previous) \cup ToSet(acked))
    /\ \A t, u \in Threads :
          t # u /\ pc[t] # "idle" /\ pc[u] # "idle" => EventOf(t) # EventOf(u)

(* The line in hand continues the sink's chain, and between the write of   *)
(* the anchor and the publishing of it the anchor is one event ahead.      *)
AheadInv ==
    /\ \A t \in Threads : pc[t] \in AtWork => line[t].previous = sink.previous
    /\ \A t \in Threads : pc[t] = "publish" => anchor = HashOf(line[t])

LossInv == KeptInv /\ FreshInv /\ AheadInv

LEMMA EventsOfLonger ==
    ASSUME NEW s \in Seq(Events), NEW e \in Events
    PROVE  ToSet(Append(s, e)) = ToSet(s) \cup {e}
<1> DEFINE more == Append(s, e)
<1>1. /\ DOMAIN more = 1..(Len(s) + 1) /\ DOMAIN s = 1..Len(s) /\ Len(s) \in Nat
      /\ \A k \in DOMAIN s : k \in DOMAIN more /\ more[k] = s[k]
      /\ more[Len(s) + 1] = e
  OBVIOUS
<1> HIDE DEF more
<1>2. ToSet(more) \subseteq ToSet(s) \cup {e}
  BY <1>1 DEF ToSet
<1>3. ToSet(s) \subseteq ToSet(more) /\ e \in ToSet(more)
  BY <1>1 DEF ToSet
<1> QED
  BY <1>2, <1>3 DEF more

(* What is acknowledged was offered. *)
LEMMA KeptAreOffered ==
    ASSUME NEW s, NEW t, KeptIn(s, t)
    PROVE  ToSet(s) \subseteq ToSet(t)
BY DEF KeptIn, ToSet

LEMMA LossStep == Typed /\ LossInv /\ [Next]_vars => LossInv'
<1> SUFFICES ASSUME TypeOK, LockInv, KeptInv, FreshInv, AheadInv, [Next]_vars
             PROVE  KeptInv' /\ FreshInv' /\ AheadInv'
  BY DEF Typed, LossInv
<1> USE NoneAssumption
<1>0. AnchoredEvents \in Seq(Events) /\ acked \in Seq(Events) /\ sink.previous \in Seq(Events)
  BY DEF TypeOK, Hashes, AnchoredEvents
<1>1. CASE Open
  <2>1. \A t \in Threads : pc[t] = "idle"
    BY <1>1 DEF Open, LockInv
  <2>2. /\ sink'.previous = Tip(file.lines)
        /\ UNCHANGED <<file, anchor, pc, line, acked, offered>>
    BY <1>1 DEF Open
  <2>3. Tip(file.lines) = AnchoredEvents
    <3>1. CASE file.exists
      BY <1>1, <3>1 DEF Open, Verifies, Anchored, AnchoredEvents, Tip
    <3>2. CASE ~file.exists
      BY <1>1, <3>2 DEF Open, LockInv, NoFile, AnchoredEvents, Tip
    <3> QED
      BY <3>1, <3>2
  <2>4. AnchoredEvents' = AnchoredEvents
    BY <2>2 DEF AnchoredEvents
  <2>5. KeptInv'
    BY <2>2, <2>3, <2>4 DEF KeptInv
  <2> QED
    BY <2>1, <2>2, <2>5 DEF FreshInv, AheadInv, AtWork
<1>2. CASE Close
  <2>1. sink'.previous = sink.previous /\ (sink'.open => sink.open)
    BY <1>2 DEF Close, TypeOK
  <2>2. UNCHANGED <<anchor, pc, line, acked, offered>>
    BY <1>2 DEF Close
  <2>3. AnchoredEvents' = AnchoredEvents /\ \A t \in Threads : EventOf(t)' = EventOf(t)
    BY <2>2 DEF AnchoredEvents, EventOf
  <2> QED
    BY <2>1, <2>2, <2>3 DEF KeptInv, FreshInv, AheadInv, HashOf
<1>3. CASE Crash
  <2>1. \A t \in Threads : pc'[t] = "idle"
    BY <1>3 DEF Crash
  <2>2. UNCHANGED <<anchor, acked, offered>> /\ ~sink'.open /\ sink'.previous = <<>>
    BY <1>3 DEF Crash, NoSink
  <2>3. AnchoredEvents' = AnchoredEvents /\ ToSet(<<>>) = {}
    BY <2>2 DEF AnchoredEvents, ToSet
  <2> QED
    BY <2>1, <2>2, <2>3 DEF KeptInv, FreshInv, AheadInv, AtWork
<1>4. CASE CutTail
  <2>1. UNCHANGED <<anchor, sink, pc, line, acked, offered>>
    BY <1>4 DEF CutTail
  <2>2. AnchoredEvents' = AnchoredEvents /\ \A t \in Threads : EventOf(t)' = EventOf(t)
    BY <2>1 DEF AnchoredEvents, EventOf
  <2> QED
    BY <2>1, <2>2 DEF KeptInv, FreshInv, AheadInv, HashOf
<1>5. ASSUME NEW t \in Threads, NEW e \in Events, Call(t, e)
      PROVE  KeptInv' /\ FreshInv' /\ AheadInv'
  <2>1. /\ pc' = [pc EXCEPT ![t] = "wait"] /\ line' = [line EXCEPT ![t] = e]
        /\ offered' = offered \cup {e} /\ e \notin offered /\ pc[t] = "idle"
        /\ UNCHANGED <<anchor, sink, acked>>
    BY <1>5 DEF Call
  <2>2. AnchoredEvents' = AnchoredEvents
    BY <2>1 DEF AnchoredEvents
  <2>3. EventOf(t)' = e /\ \A u \in Threads : u # t => EventOf(u)' = EventOf(u)
    BY <2>1 DEF EventOf, TypeOK
  <2>4. ToSet(acked) \subseteq offered
    BY KeptAreOffered DEF KeptInv
  <2>5. KeptInv'
    BY <2>1, <2>2 DEF KeptInv
  <2>6. FreshInv'
    BY <2>1, <2>3, <2>4 DEF FreshInv, KeptInv, TypeOK
  <2>7. AheadInv'
    BY <2>1 DEF AheadInv, AtWork, TypeOK, HashOf
  <2> QED
    BY <2>5, <2>6, <2>7
<1>6. ASSUME NEW t \in Threads, Lock(t)
      PROVE  KeptInv' /\ FreshInv' /\ AheadInv'
  <2>1. /\ line' = [line EXCEPT ![t] = [event |-> line[t], previous |-> sink.previous, intact |-> TRUE]]
        /\ pc' = [pc EXCEPT ![t] = "write"] /\ pc[t] = "wait"
        /\ UNCHANGED <<anchor, sink, acked, offered>>
    BY <1>6 DEF Lock, Chain
  <2>2. AnchoredEvents' = AnchoredEvents /\ \A u \in Threads : EventOf(u)' = EventOf(u)
    BY <2>1 DEF AnchoredEvents, EventOf, TypeOK
  <2>3. \A u \in Threads : pc'[u] # "idle" => pc[u] # "idle"
    BY <2>1 DEF TypeOK
  <2>4. KeptInv'
    BY <2>1, <2>2 DEF KeptInv
  <2>5. FreshInv'
    BY <2>1, <2>2, <2>3 DEF FreshInv
  <2>6. AheadInv'
    BY <2>1 DEF AheadInv, AtWork, TypeOK, HashOf
  <2> QED
    BY <2>4, <2>5, <2>6
<1>7. ASSUME NEW t \in Threads, RefuseClosed(t) \/ Fail(t)
      PROVE  KeptInv' /\ FreshInv' /\ AheadInv'
  <2>1. /\ pc' = [pc EXCEPT ![t] = "idle"] /\ line' = [line EXCEPT ![t] = None]
        /\ UNCHANGED <<anchor, sink, acked, offered>>
    BY <1>7 DEF RefuseClosed, Fail, Finish, WriteFails, AnchorFails, disk
  <2>2. AnchoredEvents' = AnchoredEvents
    BY <2>1 DEF AnchoredEvents
  <2>3. \A u \in Threads : pc'[u] # "idle" => pc[u] # "idle" /\ u # t /\ EventOf(u)' = EventOf(u)
    BY <2>1 DEF TypeOK, EventOf
  <2>4. KeptInv'
    BY <2>1, <2>2 DEF KeptInv
  <2>5. FreshInv'
    BY <2>1, <2>3 DEF FreshInv
  <2>6. AheadInv'
    BY <2>1 DEF AheadInv, AtWork, TypeOK, HashOf
  <2> QED
    BY <2>4, <2>5, <2>6
<1>8. ASSUME NEW t \in Threads, Write(t)
      PROVE  KeptInv' /\ FreshInv' /\ AheadInv'
  <2>1. /\ pc' = [pc EXCEPT ![t] = "anchor"] /\ pc[t] = "write"
        /\ UNCHANGED <<anchor, sink, line, acked, offered>>
    BY <1>8 DEF Write
  <2>2. AnchoredEvents' = AnchoredEvents /\ \A u \in Threads : EventOf(u)' = EventOf(u)
    BY <2>1 DEF AnchoredEvents, EventOf, TypeOK
  <2>3. \A u \in Threads : pc'[u] # "idle" => pc[u] # "idle"
    BY <2>1 DEF TypeOK
  <2>4. KeptInv'
    BY <2>1, <2>2 DEF KeptInv
  <2>5. FreshInv'
    BY <2>1, <2>2, <2>3 DEF FreshInv
  <2>6. AheadInv'
    BY <2>1 DEF AheadInv, AtWork, TypeOK, HashOf
  <2> QED
    BY <2>4, <2>5, <2>6
<1>9. ASSUME NEW t \in Threads, WriteAnchor(t)
      PROVE  KeptInv' /\ FreshInv' /\ AheadInv'
  <2>1. /\ pc' = [pc EXCEPT ![t] = "publish"] /\ pc[t] = "anchor"
        /\ anchor' = HashOf(line[t])
        /\ UNCHANGED <<sink, line, acked, offered>>
    BY <1>9 DEF WriteAnchor
  <2>2. line[t] \in Lines /\ holder = t /\ line[t].previous = sink.previous /\ sink.open
    BY <2>1 DEF LockInv, AtWork, AheadInv
  <2>3. line[t].event \in Events /\ line[t].event \in offered \ (ToSet(sink.previous) \cup ToSet(acked))
    BY <2>1, <2>2 DEF Lines, FreshInv, EventOf
  <2>4. AnchoredEvents' = Append(sink.previous, line[t].event)
    <3>1. HashOf(line[t]) # None
      BY <2>2, HashIsHash DEF Hashes
    <3> QED
      BY <2>1, <2>2, <3>1 DEF AnchoredEvents, HashOf
  <2>5. KeptIn(acked, AnchoredEvents')
    BY <1>0, <2>2, <2>3, <2>4, KeptInLonger DEF KeptInv
  <2>6. ToSet(AnchoredEvents') = ToSet(sink.previous) \cup {line[t].event}
    BY <1>0, <2>3, <2>4, EventsOfLonger
  <2>7. KeptInv'
    BY <2>1, <2>3, <2>5, <2>6 DEF KeptInv
  <2>8. \A u \in Threads : EventOf(u)' = EventOf(u) /\ (pc'[u] # "idle" => pc[u] # "idle")
    BY <2>1 DEF EventOf, TypeOK
  <2>9. FreshInv'
    BY <2>1, <2>8 DEF FreshInv
  <2>10. AheadInv'
    BY <2>1, <2>2 DEF AheadInv, AtWork, TypeOK, HashOf, LockInv
  <2> QED
    BY <2>7, <2>9, <2>10
<1>10. ASSUME NEW t \in Threads, Publish(t)
       PROVE  KeptInv' /\ FreshInv' /\ AheadInv'
  <2>1. /\ pc' = [pc EXCEPT ![t] = "idle"] /\ pc[t] = "publish"
        /\ line' = [line EXCEPT ![t] = None]
        /\ acked' = Append(acked, line[t].event)
        /\ UNCHANGED <<anchor, offered>>
    BY <1>10 DEF Publish, Finish
  <2>2. sink'.previous = HashOf(line[t]) /\ sink'.open = sink.open
    BY <1>10 DEF Publish, TypeOK
  <2>3. /\ line[t] \in Lines /\ holder = t /\ line[t].previous = sink.previous /\ sink.open
        /\ anchor = HashOf(line[t])
    BY <2>1 DEF LockInv, AtWork, AheadInv
  <2>4. line[t].event \in Events /\ line[t].event \in offered \ (ToSet(sink.previous) \cup ToSet(acked))
    BY <2>1, <2>3 DEF Lines, FreshInv, EventOf
  <2>5. HashOf(line[t]) = Append(sink.previous, line[t].event)
    BY <2>3 DEF HashOf
  <2>6. AnchoredEvents' = HashOf(line[t])
    <3>1. HashOf(line[t]) # None
      BY <2>3, HashIsHash DEF Hashes
    <3> QED
      BY <2>1, <2>3, <3>1 DEF AnchoredEvents
  <2>7. KeptIn(acked', HashOf(line[t]))
    BY <1>0, <2>1, <2>3, <2>4, <2>5, KeptInBoth DEF KeptInv
  <2>8. /\ ToSet(HashOf(line[t])) = ToSet(sink.previous) \cup {line[t].event}
        /\ ToSet(acked') = ToSet(acked) \cup {line[t].event}
    BY <1>0, <2>1, <2>4, <2>5, EventsOfLonger
  <2>9. KeptInv'
    BY <2>1, <2>2, <2>4, <2>6, <2>7, <2>8 DEF KeptInv
  <2>10. \A u \in Threads : pc'[u] # "idle" => pc[u] # "idle" /\ u # t /\ EventOf(u)' = EventOf(u)
    BY <2>1 DEF TypeOK, EventOf
  <2>11. \A u \in Threads : pc'[u] # "idle" => EventOf(u)' # line[t].event
    BY <2>1, <2>10 DEF FreshInv, EventOf
  <2>12. FreshInv'
    BY <2>1, <2>2, <2>8, <2>10, <2>11 DEF FreshInv
  <2>13. AheadInv'
    BY <2>1, <2>3 DEF AheadInv, AtWork, TypeOK, LockInv
  <2> QED
    BY <2>9, <2>12, <2>13
<1>11. CASE UNCHANGED vars
  BY <1>11 DEF vars, KeptInv, FreshInv, AheadInv, AnchoredEvents, EventOf, HashOf
<1> QED
  BY <1>1, <1>2, <1>3, <1>4, <1>5, <1>6, <1>7, <1>8, <1>9, <1>10, <1>11 DEF Next, Step

(* However appends, crashes, failed writes and cut tails follow one        *)
(* another: a sink comes up only on a file that holds every acknowledged   *)
(* event, once and in order.                                               *)
THEOREM SinksOpenOnNothingLost == Spec => OpensOnNothingLost
<1>1. Init => LossInv
  <2> SUFFICES ASSUME Init PROVE LossInv
    OBVIOUS
  <2>1. acked = <<>> /\ AnchoredEvents = <<>> /\ sink.previous = <<>> /\ ~sink.open
    BY DEF Init, AnchoredEvents, NoSink
  <2>2. KeptIn(<<>>, <<>>) /\ ToSet(<<>>) = {}
    BY DEF KeptIn, ToSet
  <2> QED
    BY <2>1, <2>2 DEF Init, LossInv, KeptInv, FreshInv, AheadInv, AtWork
<1>2. ASSUME Typed, LossInv, [Next]_vars, ~sink.open, sink'.open
      PROVE  KeptIn(acked, EventsIn(file.lines))
  <2>1. Open
    BY <1>2 DEF Typed, LockInv, Next, Step, Close, Crash, NoSink, CutTail, Call, Lock, Chain,
                RefuseClosed, Write, WriteAnchor, Publish, Fail, WriteFails, AnchorFails, AtWork, vars
  <2>2. CASE file.exists
    <3>1. Chained(file.lines) /\ Tip(file.lines) = AnchoredEvents
      BY <2>1, <2>2 DEF Open, Verifies, Anchored, AnchoredEvents, Tip
    <3>2. Tip(file.lines) = EventsIn(file.lines)
      BY <1>2, <3>1, TipNamesEvents DEF Typed, TypeOK
    <3> QED
      BY <1>2, <3>1, <3>2 DEF LossInv, KeptInv
  <2>3. CASE ~file.exists
    <3>1. AnchoredEvents = <<>> /\ EventsIn(file.lines) = <<>>
      BY <1>2, <2>1, <2>3 DEF Open, Typed, LockInv, NoFile, AnchoredEvents, EventsIn
    <3> QED
      BY <1>2, <3>1 DEF LossInv, KeptInv
  <2> QED
    BY <2>2, <2>3
<1>3. Spec => []Typed
  BY TypedInit, TypedStep, PTL DEF Spec
<1> QED
  BY <1>1, <1>2, <1>3, LossStep, PTL DEF Spec, OpensOnNothingLost
=============================================================================
