----------------------- MODULE RetrievalRuntimeProofs -----------------------
(***************************************************************************)
(* What holds of the shared index for any processes, corpora, requests and *)
(* number of faults, and of what is ingested for any files, texts and      *)
(* sizes.                                                                  *)
(*                                                                         *)
(* A collection only grows: it is never dropped, loses no index and no id. *)
(* So what a process has seen of it at one await still holds at the next,  *)
(* and the invariant says for every await what has been seen.              *)
(*                                                                         *)
(* Spans that tile a text leave nothing of it out, and those that are not  *)
(* blank hold all that is written.  Parents are tiles, made of windows     *)
(* without an overlap or, section by section, of clauses.                  *)
(***************************************************************************)
EXTENDS Ingestion, FiniteSetTheorems, WellFoundedInduction, TLAPS

Indexed == {"load", "ready"} \cup PipelineAwaits

(* What the proofs need of the types; requests do not touch the index.     *)
IndexIsTyped ==
    /\ collection \in [exists : BOOLEAN, indexed : BOOLEAN, records : SUBSET UNION Corpora]
    /\ at \in [Processes -> Startup \cup {"stopped", "ready", "closing"}]
    /\ task \in [Processes -> [corpus : Corpora, ingests : BOOLEAN]]
    /\ faults \in Nat

(* What a process may rely on at its await.                                *)
Relies(p) ==
    /\ at[p] \in {"validate", "index"} \cup Indexed => collection.exists
    /\ at[p] \in Indexed => collection.indexed
    /\ (at[p] = "list" /\ task[p].ingests) => task[p].corpus \subseteq collection.records
    /\ at[p] \in {"bm25", "ready"} => task[p].corpus \subseteq collection.records

IndexInv == IndexIsTyped /\ \A p \in Processes : Relies(p)

(* Nothing takes from the collection what is in it.                        *)
Grows ==
    /\ collection.exists => collection'.exists
    /\ collection.indexed => collection'.indexed
    /\ collection.records \subseteq collection'.records

-----------------------------------------------------------------------------
(* No task, and then every await and every process: the start.             *)
LEMMA InitIsIndexed == Init => IndexInv
<1> SUFFICES ASSUME Init PROVE IndexInv
    OBVIOUS
<1>1. NoTask \in [corpus : Corpora, ingests : BOOLEAN]
    BY ChunksAssumption DEF NoTask
<1>2. IndexIsTyped
    BY <1>1 DEF Init, IndexIsTyped
<1>3. ASSUME NEW p \in Processes PROVE Relies(p)
    BY DEF Init, Relies, Indexed, PipelineAwaits
<1> QED BY <1>2, <1>3 DEF IndexInv

(* A process that stays at its await, with its task, still relies on what  *)
(* it did, because the collection only grows.                              *)
LEMMA OthersRely ==
    ASSUME NEW p \in Processes, Relies(p), Grows,
           at'[p] = at[p], task'[p] = task[p]
    PROVE  Relies(p)'
BY DEF Relies, Grows

(* Requests leave the index to the processes.                              *)
LEMMA RetrievalsReadOnly ==
    ASSUME NEW q \in Requests, RetrievalStep(q), faults \in Nat
    PROVE  UNCHANGED <<collection, at, task>> /\ faults' \in Nat
<1>1. CASE RetrievalFails(q)
    BY <1>1 DEF RetrievalFails, Fault
<1>2. CASE ~RetrievalFails(q)
    BY <1>2 DEF RetrievalStep, Retrieve, Embedded, DenseReturns, SparseReturns, FuseReturns,
                RerankReturns, ExpandReturns, BuildReturns, Move, Raise, Becomes
<1> QED BY <1>1, <1>2

(* A failed call has done a part of its work or none.                      *)
LEMMA EffectsGrow ==
    ASSUME IndexIsTyped, NEW p \in Processes, collection' \in Effects(p)
    PROVE  /\ Grows
           /\ collection' \in [exists : BOOLEAN, indexed : BOOLEAN, records : SUBSET UNION Corpora]
<1>1. task[p].corpus \in Corpora
    BY DEF IndexIsTyped
<1>2. CASE at[p] = "create"
    BY <1>2 DEF Effects, Grows, IndexIsTyped
<1>3. CASE at[p] = "index"
    BY <1>3 DEF Effects, Grows, IndexIsTyped
<1>4. CASE at[p] = "upsert"
  <2>1. PICK part \in SUBSET task[p].corpus :
            collection' = [collection EXCEPT !.records = @ \cup part]
      BY <1>4 DEF Effects
  <2>2. part \subseteq UNION Corpora
      BY <1>1, <2>1
  <2> QED BY <2>1, <2>2 DEF Grows, IndexIsTyped
<1>5. CASE at[p] \notin {"create", "index", "upsert"}
    BY <1>5 DEF Effects, Grows, IndexIsTyped
<1> QED BY <1>2, <1>3, <1>4, <1>5

-----------------------------------------------------------------------------
(* One step of a process: the types, the growth, and what it relies on.    *)
LEMMA RuntimeSteps ==
    ASSUME IndexInv, NEW p \in Processes, RuntimeStep(p)
    PROVE  /\ IndexIsTyped'
           /\ Grows
           /\ Relies(p)'
           /\ \A other \in Processes \ {p} : at'[other] = at[other] /\ task'[other] = task[other]
<1> USE DEF IndexInv, IndexIsTyped, Grows, Reach, Startup, StoreAwaits, PipelineAwaits
<1>0. task[p].corpus \in Corpora /\ Relies(p)
    OBVIOUS
<1>1. CASE Begin(p)
    BY <1>1 DEF Begin, Relies, Indexed
<1>2. CASE Proceed(p)
    BY <1>0, <1>2 DEF Proceed, Relies, Indexed
<1>3. CASE CheckExists(p)
    BY <1>3 DEF CheckExists, Relies, Indexed
<1>4. CASE Validate(p)
    BY <1>0, <1>4 DEF Validate, Refuse, Relies, Indexed
<1>5. CASE CreateCollection(p)
    BY <1>5 DEF CreateCollection, Relies, Indexed
<1>6. CASE CreateIndex(p)
    BY <1>0, <1>6 DEF CreateIndex, Relies, Indexed
<1>7. CASE Upsert(p)
    BY <1>0, <1>7 DEF Upsert, Relies, Indexed
<1>8. CASE ListRecords(p)
    BY <1>0, <1>8 DEF ListRecords, Verified, Refuse, Relies, Indexed
<1>9. CASE StartFails(p) \/ Crash(p)
  <2>1. /\ collection' \in Effects(p)
        /\ \/ at' = [at EXCEPT ![p] = "closing"]
           \/ at' = [at EXCEPT ![p] = "stopped"]
        /\ task' = task
        /\ faults' = faults + 1
      BY <1>9 DEF StartFails, Crash, Fault, Refuse
  <2>2. /\ Grows
        /\ collection' \in [exists : BOOLEAN, indexed : BOOLEAN, records : SUBSET UNION Corpora]
      BY <2>1, EffectsGrow
  <2> QED BY <2>1, <2>2 DEF Relies, Indexed
<1>10. CASE Close(p) \/ StoreCloses(p)
    BY <1>10 DEF Close, StoreCloses, Relies, Indexed
<1> QED
    BY <1>1, <1>2, <1>3, <1>4, <1>5, <1>6, <1>7, <1>8, <1>9, <1>10 DEF RuntimeStep

(* What every process relies on survives every step.                       *)
LEMMA IndexInvIsInductive == IndexInv /\ [Next]_vars => IndexInv'
<1> SUFFICES ASSUME IndexInv, [Next]_vars PROVE IndexInv'
    OBVIOUS
<1>1. ASSUME NEW p \in Processes, RuntimeStep(p) PROVE IndexInv'
  <2>1. IndexIsTyped' /\ Grows /\ Relies(p)'
      BY <1>1, RuntimeSteps
  <2>2. ASSUME NEW other \in Processes \ {p} PROVE Relies(other)'
      BY <1>1, <2>1, RuntimeSteps, OthersRely DEF IndexInv
  <2> QED BY <2>1, <2>2 DEF IndexInv
<1>2. ASSUME NEW q \in Requests, RetrievalStep(q) PROVE IndexInv'
    BY <1>2, RetrievalsReadOnly DEF IndexInv, IndexIsTyped, Relies
<1>3. CASE UNCHANGED vars
    BY <1>3 DEF vars, IndexInv, IndexIsTyped, Relies
<1> QED BY <1>1, <1>2, <1>3 DEF Next

LEMMA IndexInvHolds == Spec => []IndexInv
BY InitIsIndexed, IndexInvIsInductive, PTL DEF Spec

-----------------------------------------------------------------------------
(* A process that serves, or builds the last part of what it serves from,  *)
(* has its index and its corpus in the collection from the check of the    *)
(* ids until it closes.                                                    *)
THEOREM ReadersKeepTheirs == Spec => []ReadersKeepTheirCorpus
<1>1. IndexInv => ReadersKeepTheirCorpus
    BY DEF IndexInv, Relies, Indexed, PipelineAwaits, ReadersKeepTheirCorpus
<1> QED BY <1>1, IndexInvHolds, PTL

(* The check of the ids after an ingestion of everything succeeds: the     *)
(* upsert put the corpus in, and there is nothing else to find.            *)
THEOREM CompleteIngestionsVerify == Spec => CompleteIngestionVerifies
<1>1. ASSUME IndexInv, [Next]_vars, NEW p \in Processes, at[p] = "list", task[p].ingests,
             task[p].corpus = UNION Corpora, at'[p] = "closing"
      PROVE  faults' > faults
  <2>1. Verified(p)
      BY <1>1 DEF IndexInv, IndexIsTyped, Relies, Verified
  <2>2. StartFails(p)
    <3>1. ASSUME NEW other \in Processes, RuntimeStep(other) PROVE other = p
        BY <1>1, <3>1, RuntimeSteps
    <3>2. ASSUME NEW q \in Requests, RetrievalStep(q) PROVE FALSE
        BY <1>1, <3>2, RetrievalsReadOnly DEF IndexInv, IndexIsTyped
    <3>3. RuntimeStep(p)
        BY <1>1, <3>1, <3>2 DEF Next, vars
    <3>4. at[p] = "list" /\ at' # at /\ p \in DOMAIN at
        BY <1>1 DEF IndexInv, IndexIsTyped
    <3> QED
        BY <1>1, <2>1, <3>3, <3>4
        DEF RuntimeStep, Begin, Proceed, CheckExists, Validate, CreateCollection, CreateIndex,
            Upsert, ListRecords, Close, StoreCloses, Crash, Reach, Refuse
  <2> QED BY <1>1, <2>2 DEF StartFails, Fault, IndexInv, IndexIsTyped
<1>2. IndexInv /\ [Next]_vars =>
        [\A p \in Processes :
            (at[p] = "list" /\ task[p].ingests /\ task[p].corpus = UNION Corpora)
                => (at'[p] = "closing" => faults' > faults)]_vars
    BY <1>1
<1> QED BY <1>2, IndexInvHolds, PTL DEF Spec, CompleteIngestionVerifies
-----------------------------------------------------------------------------
(* Induction and recursion.                                                *)

(* Induction over the naturals: a set that holds 0 and every successor of  *)
(* its numbers holds every natural number.                                 *)
LEMMA NatsAreReached ==
    ASSUME NEW S, 0 \in S, \A n \in Nat : n \in S => n + 1 \in S
    PROVE  Nat \subseteq S
<1> DEFINE R == OpToRel(<, Nat)
<1> DEFINE T == Nat \ S
<1>1. IsWellFoundedOn(R, Nat)
  BY NatLessThanWellFounded
<1>2. \A x, y \in Nat : x < y => <<x, y>> \in R
  BY DEF OpToRel
<1> HIDE DEF R
<1> SUFFICES ASSUME T # {} PROVE FALSE
  OBVIOUS
<1>3. T \subseteq Nat
  OBVIOUS
<1> HIDE DEF T
<1>4. PICK x \in T : \A y \in T : ~ (<<y, x>> \in R)
  BY <1>1, <1>3, WFMin, Zenon
<1>5. x \in Nat /\ x \notin S
  BY DEF T
<1>6. x # 0
  BY <1>5
<1>7. x - 1 \in Nat /\ x - 1 < x /\ (x - 1) + 1 = x
  BY <1>5, <1>6
<1>8. x - 1 \in S
  BY <1>2, <1>4, <1>5, <1>7 DEF T
<1> QED
  BY <1>5, <1>7, <1>8

(* A function on 0 .. n that starts with base and goes on by the steps.    *)
GoesBy(f, n, base, step) == f[0] = base /\ \A i \in 1 .. n : f[i] = step[i][f[i - 1]]

(* There is one.                                                           *)
LEMMA RecursionDefines ==
    ASSUME NEW n \in Nat, NEW V, NEW base \in V, NEW step \in [1 .. n -> [V -> V]]
    PROVE  \E f \in [0 .. n -> V] : GoesBy(f, n, base, step)
<1> DEFINE Defines(f, m) == GoesBy(f, m, base, step)
<1> DEFINE S == {m \in Nat : m <= n => \E f \in [0 .. m -> V] : Defines(f, m)}
<1> USE DEF GoesBy
<1>1. 0 \in S
  <2>1. [i \in 0 .. 0 |-> base] \in [0 .. 0 -> V] /\ Defines([i \in 0 .. 0 |-> base], 0)
    OBVIOUS
  <2> QED BY <2>1
<1>2. ASSUME NEW m \in Nat, m \in S PROVE m + 1 \in S
  <2> SUFFICES ASSUME m + 1 <= n PROVE \E f \in [0 .. m + 1 -> V] : Defines(f, m + 1)
    OBVIOUS
  <2>1. PICK f \in [0 .. m -> V] : Defines(f, m)
    BY <1>2
  <2> DEFINE g == [i \in 0 .. m + 1 |-> IF i <= m THEN f[i] ELSE step[m + 1][f[m]]]
  <2>2. m + 1 \in 1 .. n /\ f[m] \in V
    OBVIOUS
  <2>3. step[m + 1][f[m]] \in V
    BY <2>2
  <2>4. g \in [0 .. m + 1 -> V]
    BY <2>3
  <2>5. g[0] = base
    BY <2>1
  <2>6. ASSUME NEW i \in 1 .. m + 1 PROVE g[i] = step[i][g[i - 1]]
    <3>1. CASE i \in 1 .. m
      BY <2>1, <3>1
    <3>2. CASE i = m + 1
      BY <3>2
    <3> QED BY <3>1, <3>2
  <2> HIDE DEF g
  <2> QED BY <2>4, <2>5, <2>6
<1> HIDE DEF S
<1>3. n \in S
  BY <1>1, <1>2, NatsAreReached
<1> QED BY <1>3 DEF S

-----------------------------------------------------------------------------
(* Filtered.                                                               *)

(* Its recursive function has the values it is defined by.                 *)
LEMMA FilteringRecurs ==
    ASSUME NEW T, NEW s \in Seq(T), NEW good
    PROVE  \E kept \in [0 .. Len(s) -> Seq(T)] :
              /\ Filtered(s, good) = kept[Len(s)]
              /\ kept[0] = <<>>
              /\ \A i \in 1 .. Len(s) :
                    kept[i] = IF s[i] \in good THEN Append(kept[i - 1], s[i]) ELSE kept[i - 1]
<1> DEFINE n == Len(s)
<1> DEFINE V == Seq(T)
<1> DEFINE Next1(i, k) == IF s[i] \in good THEN Append(k, s[i]) ELSE k
<1> DEFINE step == [i \in 1 .. n |-> [k \in V |-> Next1(i, k)]]
<1> DEFINE Step(f) == [i \in 0 .. n |-> IF i = 0 THEN <<>> ELSE Next1(i, f[i - 1])]
<1> DEFINE kept == CHOOSE k : k = Step(k)
<1>0. Filtered(s, good) = kept[n]
  BY DEF Filtered
<1>1. <<>> \in V /\ n \in Nat /\ \A i \in 1 .. n, k \in V : Next1(i, k) \in V
  OBVIOUS
<1> HIDE DEF n, V, Next1
<1>2. step \in [1 .. n -> [V -> V]]
  BY <1>1
<1>3. \E f \in [0 .. n -> V] : GoesBy(f, n, <<>>, step)
  <2> HIDE DEF step
  <2> QED BY <1>1, <1>2, RecursionDefines
<1>4. PICK f \in [0 .. n -> V] :
          f[0] = <<>> /\ \A i \in 1 .. n : f[i] = step[i][f[i - 1]]
  BY <1>3 DEF GoesBy
<1>5. \A i \in 0 .. n : f[i] = Step(f)[i]
  <2> TAKE i \in 0 .. n
  <2>1. CASE i = 0
    BY <1>1, <1>4, <2>1
  <2>2. CASE i # 0
    <3>1. i \in 1 .. n /\ i - 1 \in 0 .. n
      BY <1>1, <2>2
    <3>2. f[i - 1] \in V
      BY <3>1
    <3> QED BY <1>4, <2>2, <3>1, <3>2
  <2> QED BY <2>1, <2>2
<1>6. f = Step(f)
  BY <1>5
<1>7. kept = Step(kept)
  <2> HIDE DEF Step
  <2> QED BY <1>6
<1> HIDE DEF kept
<1>8. /\ kept[0] = <<>>
      /\ \A i \in 1 .. n : kept[i] = Next1(i, kept[i - 1])
  <2>1. \A i \in 0 .. n : kept[i] = IF i = 0 THEN <<>> ELSE Next1(i, kept[i - 1])
    BY <1>7
  <2>2. 0 \in 0 .. n /\ \A i \in 1 .. n : i \in 0 .. n /\ i # 0
    BY <1>1
  <2> QED BY <2>1, <2>2
<1> DEFINE R == {i \in Nat : i <= n => kept[i] \in V}
<1>9. 0 \in R
  BY <1>1, <1>8
<1>10. ASSUME NEW i \in Nat, i \in R PROVE i + 1 \in R
  <2> SUFFICES ASSUME i + 1 <= n PROVE kept[i + 1] \in V
    OBVIOUS
  <2>1. i + 1 \in 1 .. n /\ (i + 1) - 1 = i /\ kept[i] \in V
    BY <1>1, <1>10
  <2>2. kept[i + 1] = Next1(i + 1, kept[i])
    BY <1>8, <2>1
  <2> QED BY <1>1, <2>1, <2>2
<1>11. Nat \subseteq R
  <2> HIDE DEF R
  <2> QED BY <1>9, <1>10, NatsAreReached
<1>12. \A i \in 0 .. n : kept[i] \in V
  BY <1>1, <1>11
<1>13. kept \in [0 .. n -> V]
  BY <1>7, <1>12
<1> QED BY <1>0, <1>8, <1>13 DEF n, V, Next1

(* What is left of a sequence: its good elements, each as often as before  *)
(* at most, and so no more and no repeated ones.                           *)
LEMMA FilteringKeeps ==
    ASSUME NEW T, NEW s \in Seq(T), NEW good
    PROVE  /\ Filtered(s, good) \in Seq(T)
           /\ Len(Filtered(s, good)) <= Len(s)
           /\ ToSet(Filtered(s, good)) = ToSet(s) \cap good
           /\ IsInjective(s) => IsInjective(Filtered(s, good))
<1>1. PICK kept \in [0 .. Len(s) -> Seq(T)] :
              /\ Filtered(s, good) = kept[Len(s)]
              /\ kept[0] = <<>>
              /\ \A i \in 1 .. Len(s) :
                    kept[i] = IF s[i] \in good THEN Append(kept[i - 1], s[i]) ELSE kept[i - 1]
  BY FilteringRecurs
<1> DEFINE Upto(i) == {s[j] : j \in 1 .. i}
<1> DEFINE Holds(i) ==
        /\ Len(kept[i]) <= i
        /\ ToSet(kept[i]) = Upto(i) \cap good
        /\ IsInjective(s) => IsInjective(kept[i])
<1> DEFINE S == {i \in Nat : i <= Len(s) => Holds(i)}
<1>2. 0 \in S
  <2>1. ToSet(<<>>) = {} /\ Upto(0) = {} /\ IsInjective(<<>>) /\ Len(<<>>) = 0
    BY DEF ToSet, IsInjective
  <2> QED BY <1>1, <2>1
<1>3. ASSUME NEW i \in Nat, i \in S PROVE i + 1 \in S
  <2> HIDE DEF Holds
  <2> SUFFICES ASSUME i + 1 <= Len(s) PROVE Holds(i + 1)
    OBVIOUS
  <2> USE DEF Holds
  <2>1. /\ i + 1 \in 1 .. Len(s) /\ (i + 1) - 1 = i /\ i \in 0 .. Len(s)
        /\ i + 1 \in DOMAIN s /\ s[i + 1] \in T /\ kept[i] \in Seq(T)
    OBVIOUS
  <2>2. Holds(i)
    BY <1>3, <2>1
  <2>3. Upto(i + 1) = Upto(i) \cup {s[i + 1]}
    <3>1. \A j \in 1 .. i + 1 : j \in 1 .. i \/ j = i + 1
      OBVIOUS
    <3>2. \A j \in 1 .. i : j \in 1 .. i + 1
      OBVIOUS
    <3> QED BY <3>1, <3>2
  <2>4. IsInjective(s) => s[i + 1] \notin Upto(i)
    <3>1. \A j \in 1 .. i : j \in DOMAIN s /\ j # i + 1
      BY <2>1
    <3> QED BY <2>1, <3>1 DEF IsInjective
  <2>5. CASE s[i + 1] \in good
    <3> DEFINE k == kept[i]
    <3> DEFINE more == Append(k, s[i + 1])
    <3>1. kept[i + 1] = more
      BY <1>1, <2>1, <2>5
    <3> HIDE DEF k
    <3>2. k \in Seq(T)
      BY <2>1 DEF k
    <3>3. /\ Len(more) = Len(k) + 1 /\ Len(k) \in Nat
          /\ DOMAIN more = 1 .. Len(k) + 1 /\ DOMAIN k = 1 .. Len(k)
          /\ \A j \in 1 .. Len(k) : more[j] = k[j]
          /\ more[Len(k) + 1] = s[i + 1]
      BY <2>1, <3>2
    <3> HIDE DEF more
    <3>4. ToSet(more) = ToSet(k) \cup {s[i + 1]}
      <4>1. \A j \in 1 .. Len(k) + 1 : j \in 1 .. Len(k) \/ j = Len(k) + 1
        BY <3>3
      <4>2. ToSet(more) \subseteq ToSet(k) \cup {s[i + 1]}
        BY <3>3, <4>1 DEF ToSet
      <4>3. \A j \in 1 .. Len(k) : j \in DOMAIN more
        BY <3>3
      <4>4. ToSet(k) \subseteq ToSet(more)
        BY <3>3, <4>3 DEF ToSet
      <4>5. s[i + 1] \in ToSet(more)
        BY <3>3 DEF ToSet
      <4> QED BY <4>2, <4>4, <4>5
    <3>5. IsInjective(k) /\ s[i + 1] \notin ToSet(k) => IsInjective(more)
      BY <3>3 DEF IsInjective, ToSet
    <3>6. ToSet(k) = Upto(i) \cap good /\ Len(k) <= i /\ (IsInjective(s) => IsInjective(k))
      BY <2>2 DEF k
    <3> HIDE DEF Upto
    <3>7. ToSet(more) = Upto(i + 1) \cap good
      BY <2>3, <2>5, <3>4, <3>6
    <3>8. IsInjective(s) => IsInjective(more)
      BY <2>4, <3>5, <3>6
    <3> QED BY <3>1, <3>3, <3>6, <3>7, <3>8
  <2>6. CASE s[i + 1] \notin good
    <3>1. kept[i + 1] = kept[i]
      BY <1>1, <2>1, <2>6
    <3> HIDE DEF Upto
    <3> QED BY <2>1, <2>2, <2>3, <2>6, <3>1
  <2> QED BY <2>5, <2>6
<1>4. Nat \subseteq S
  <2> HIDE DEF S
  <2> QED BY <1>2, <1>3, NatsAreReached
<1>5. Holds(Len(s))
  <2>1. Len(s) \in Nat /\ Len(s) <= Len(s)
    OBVIOUS
  <2> HIDE DEF Holds
  <2> QED BY <1>4, <2>1
<1>6. Upto(Len(s)) = ToSet(s)
  BY DEF ToSet
<1>7. kept[Len(s)] \in Seq(T)
  OBVIOUS
<1> QED BY <1>1, <1>5, <1>6, <1>7

-----------------------------------------------------------------------------
(* Least elements and sorted sequences.                                    *)

LEMMA MinIsLeast ==
    ASSUME NEW S, S \subseteq Nat, S # {}
    PROVE  Min(S) \in S /\ \A n \in S : Min(S) <= n
<1> DEFINE P == {n \in Nat : \A m \in S : n <= m}
<1>1. \E m \in S : \A n \in S : m <= n
  <2> SUFFICES ASSUME \A m \in S : \E n \in S : ~(m <= n) PROVE FALSE
    OBVIOUS
  <2>1. 0 \in P
    OBVIOUS
  <2>2. ASSUME NEW n \in Nat, n \in P PROVE n + 1 \in P
    <3>1. n \notin S
      BY <2>2
    <3>2. \A m \in S : n <= m /\ m # n /\ m \in Nat
      BY <2>2, <3>1
    <3> QED BY <3>2
  <2>3. Nat \subseteq P
    <3> HIDE DEF P
    <3> QED BY <2>1, <2>2, NatsAreReached
  <2>4. PICK m \in S : m \in Nat
    OBVIOUS
  <2>5. m + 1 \in P
    BY <2>3, <2>4
  <2> QED BY <2>4, <2>5
<1> QED BY <1>1 DEF Min

(* A strict order of S in which any two elements compare.                  *)
OrdersAll(R, S) ==
    /\ \A c \in S : <<c, c>> \notin R
    /\ \A c, d \in S : c = d \/ <<c, d>> \in R \/ <<d, c>> \in R
    /\ \A c, d, e \in S : <<c, d>> \in R /\ <<d, e>> \in R => <<c, e>> \in R

IsFirst(R, S, m) == \A d \in S : d = m \/ <<m, d>> \in R

LEMMA FirstExists ==
    ASSUME NEW R, NEW S, IsFiniteSet(S), S # {}, OrdersAll(R, S)
    PROVE  \E m \in S : IsFirst(R, S, m)
<1> DEFINE A(n) == \A T \in SUBSET S :
                      T # {} /\ Cardinality(T) = n => \E m \in T : IsFirst(R, T, m)
<1> DEFINE N == {n \in Nat : A(n)}
<1>0. \A T \in SUBSET S : IsFiniteSet(T)
  BY FS_Subset
<1>1. 0 \in N
  BY <1>0, FS_EmptySet
<1>2. ASSUME NEW n \in Nat, n \in N PROVE n + 1 \in N
  <2> SUFFICES ASSUME NEW T \in SUBSET S, T # {}, Cardinality(T) = n + 1
               PROVE  \E m \in T : IsFirst(R, T, m)
    OBVIOUS
  <2>1. PICK x \in T : TRUE
    OBVIOUS
  <2> DEFINE U == T \ {x}
  <2>2. Cardinality(U) = n /\ U \in SUBSET S
    BY <1>0, <2>1, FS_RemoveElement
  <2>3. CASE U = {}
    BY <2>1, <2>3 DEF IsFirst
  <2>4. CASE U # {}
    <3>1. PICK m \in U : IsFirst(R, U, m)
      BY <1>2, <2>2, <2>4
    <3>2. CASE <<m, x>> \in R
      BY <3>1, <3>2 DEF IsFirst
    <3>3. CASE <<x, m>> \in R
      <4>1. \A d \in U : <<x, d>> \in R
        BY <2>1, <3>1, <3>3 DEF IsFirst, OrdersAll
      <4> QED BY <2>1, <4>1 DEF IsFirst
    <3> QED BY <2>1, <3>1, <3>2, <3>3 DEF OrdersAll
  <2> QED BY <2>3, <2>4
<1>3. Nat \subseteq N
  <2> HIDE DEF N
  <2> QED BY <1>1, <1>2, NatsAreReached
<1>4. Cardinality(S) \in N
  BY <1>3, FS_CardinalityType
<1> QED BY <1>4

(* t lists the n elements of S, the first of R before the others.          *)
Lists(R, S, n, t) ==
    /\ t \in [1 .. n -> S]
    /\ \A c \in S : \E i \in 1 .. n : t[i] = c
    /\ \A i, j \in 1 .. n : i < j => <<t[i], t[j]>> \in R

LEMMA SortedExists ==
    ASSUME NEW R, NEW S, IsFiniteSet(S), OrdersAll(R, S)
    PROVE  \E t : Lists(R, S, Cardinality(S), t)
<1> DEFINE A(n) == \A T \in SUBSET S : Cardinality(T) = n => \E t : Lists(R, T, n, t)
<1> DEFINE N == {n \in Nat : A(n)}
<1>0. \A T \in SUBSET S : IsFiniteSet(T) /\ OrdersAll(R, T)
  BY FS_Subset DEF OrdersAll
<1>1. 0 \in N
  <2> SUFFICES ASSUME NEW T \in SUBSET S, Cardinality(T) = 0 PROVE \E t : Lists(R, T, 0, t)
    OBVIOUS
  <2>1. T = {}
    BY <1>0, FS_EmptySet
  <2>2. Lists(R, T, 0, [i \in 1 .. 0 |-> 0])
    BY <2>1 DEF Lists
  <2> QED BY <2>2
<1>2. ASSUME NEW n \in Nat, n \in N PROVE n + 1 \in N
  <2> SUFFICES ASSUME NEW T \in SUBSET S, Cardinality(T) = n + 1
               PROVE  \E t : Lists(R, T, n + 1, t)
    OBVIOUS
  <2>0. T # {}
    BY FS_EmptySet
  <2>1. PICK m \in T : IsFirst(R, T, m)
    BY <1>0, <2>0, FirstExists
  <2> DEFINE U == T \ {m}
  <2>2. Cardinality(U) = n /\ U \in SUBSET S
    <3>1. IsFiniteSet(T)
      BY <1>0
    <3>2. Cardinality(T \ {m}) = Cardinality(T) - 1
      BY <2>1, <3>1, FS_RemoveElement
    <3> QED BY <3>2
  <2>3. PICK u : Lists(R, U, n, u)
    BY <1>2, <2>2
  <2> DEFINE t == [i \in 1 .. n + 1 |-> IF i = 1 THEN m ELSE u[i - 1]]
  <2>4. /\ u \in [1 .. n -> U]
        /\ \A c \in U : \E i \in 1 .. n : u[i] = c
        /\ \A i, j \in 1 .. n : i < j => <<u[i], u[j]>> \in R
    BY <2>3 DEF Lists
  <2>5. /\ \A i \in 1 .. n + 1 : i # 1 => i - 1 \in 1 .. n /\ t[i] = u[i - 1]
        /\ 1 \in 1 .. n + 1 /\ t[1] = m
        /\ \A i \in 1 .. n : i + 1 \in 1 .. n + 1 /\ t[i + 1] = u[i]
    OBVIOUS
  <2>6. t \in [1 .. n + 1 -> T]
    BY <2>1, <2>4, <2>5
  <2> HIDE DEF t
  <2>7. \A c \in T : \E i \in 1 .. n + 1 : t[i] = c
    BY <2>4, <2>5
  <2>8. ASSUME NEW i \in 1 .. n + 1, NEW j \in 1 .. n + 1, i < j
        PROVE  <<t[i], t[j]>> \in R
    <3>1. j # 1 /\ t[j] = u[j - 1] /\ j - 1 \in 1 .. n
      BY <2>5, <2>8
    <3>2. CASE i = 1
      <4>1. u[j - 1] \in U
        BY <2>4, <3>1
      <4> QED BY <2>1, <2>5, <3>1, <3>2, <4>1 DEF IsFirst
    <3>3. CASE i # 1
      <4>1. t[i] = u[i - 1] /\ i - 1 \in 1 .. n /\ i - 1 < j - 1
        BY <2>5, <2>8, <3>3
      <4> QED BY <2>4, <3>1, <4>1
    <3> QED BY <3>2, <3>3
  <2> QED BY <2>6, <2>7, <2>8 DEF Lists
<1>3. Nat \subseteq N
  <2> HIDE DEF N
  <2> QED BY <1>1, <1>2, NatsAreReached
<1>4. Cardinality(S) \in N
  BY <1>3, FS_CardinalityType
<1> QED BY <1>4

-----------------------------------------------------------------------------
(* The order of the fusion.                                                *)

(* A child a source found has a rank there, which is its place.            *)
LEMMA RankIsPlace ==
    ASSUME NEW ranking \in Seq(Chunks), NEW c \in ToSet(ranking)
    PROVE  /\ Rank(ranking, c) \in DOMAIN ranking
           /\ Rank(ranking, c) \in Nat \ {0}
           /\ ranking[Rank(ranking, c)] = c
<1> DEFINE I == {i \in 1 .. Len(ranking) : ranking[i] = c}
<1>1. I \subseteq Nat /\ I # {}
  BY DEF ToSet
<1>2. Rank(ranking, c) = Min(I)
  BY <1>1 DEF Rank, SelectInSeq
<1> HIDE DEF I
<1>3. Rank(ranking, c) \in I
  BY <1>1, <1>2, MinIsLeast
<1> QED BY <1>3 DEF I

(* Fractions with positive denominators.                                   *)
Fractions == [over : Nat, under : Nat \ {0}]

LEMMA NotExceedingIsTransitive ==
    ASSUME NEW x \in Fractions, NEW y \in Fractions, NEW z \in Fractions,
           ~Exceeds(x, y), ~Exceeds(y, z)
    PROVE  ~Exceeds(x, z)
<1> DEFINE a == x.over
<1> DEFINE b == x.under
<1> DEFINE c == y.over
<1> DEFINE d == y.under
<1> DEFINE e == z.over
<1> DEFINE f == z.under
<1>1. /\ a \in Nat /\ c \in Nat /\ e \in Nat
      /\ b \in Nat /\ d \in Nat /\ f \in Nat /\ b > 0 /\ d > 0 /\ f > 0
  BY DEF Fractions
<1>2. a * d <= c * b /\ c * f <= e * d
  BY <1>1 DEF Exceeds
<1>3. SUFFICES a * f <= e * b
  BY <1>1 DEF Exceeds
<1> HIDE DEF a, b, c, d, e, f
<1>4. (a * d) * f <= (c * b) * f
  BY <1>1, <1>2
<1>5. (c * f) * b <= (e * d) * b
  BY <1>1, <1>2
<1>6. (c * b) * f = (c * f) * b /\ (a * d) * f = (a * f) * d /\ (e * d) * b = (e * b) * d
  BY <1>1
<1>7. (a * f) * d <= (e * b) * d
  BY <1>1, <1>4, <1>5, <1>6
<1>8. a * f \in Nat /\ e * b \in Nat
  BY <1>1
<1> QED BY <1>1, <1>7, <1>8

(* Keys of four numbers, the first difference deciding.                    *)
Precedes(k, m) ==
    \E i \in 1 .. 4 : k[i] < m[i] /\ \A j \in 1 .. i - 1 : k[j] = m[j]

IsKey(k) == \A i \in 1 .. 4 : k[i] \in Nat

LEMMA PrecedingIsLexical ==
    ASSUME NEW k, NEW m, IsKey(k), IsKey(m)
    PROVE  Precedes(k, m) <=>
              \/ k[1] < m[1]
              \/ k[1] = m[1] /\ k[2] < m[2]
              \/ k[1] = m[1] /\ k[2] = m[2] /\ k[3] < m[3]
              \/ k[1] = m[1] /\ k[2] = m[2] /\ k[3] = m[3] /\ k[4] < m[4]
<1>1. 1 .. 4 = {1, 2, 3, 4} /\ 1 .. 1 - 1 = {} /\ 1 .. 2 - 1 = {1} /\ 1 .. 3 - 1 = {1, 2} /\ 1 .. 4 - 1 = {1, 2, 3}
  OBVIOUS
<1>2. Precedes(k, m) <=>
          \/ k[1] < m[1] /\ \A j \in 1 .. 1 - 1 : k[j] = m[j]
          \/ k[2] < m[2] /\ \A j \in 1 .. 2 - 1 : k[j] = m[j]
          \/ k[3] < m[3] /\ \A j \in 1 .. 3 - 1 : k[j] = m[j]
          \/ k[4] < m[4] /\ \A j \in 1 .. 4 - 1 : k[j] = m[j]
  BY <1>1 DEF Precedes
<1> QED BY <1>1, <1>2

LEMMA PrecedingOrders ==
    ASSUME NEW k, NEW m, IsKey(k), IsKey(m)
    PROVE  /\ ~Precedes(k, k)
           /\ k[4] # m[4] => Precedes(k, m) \/ Precedes(m, k)
<1>1. /\ k[1] \in Nat /\ k[2] \in Nat /\ k[3] \in Nat /\ k[4] \in Nat
      /\ m[1] \in Nat /\ m[2] \in Nat /\ m[3] \in Nat /\ m[4] \in Nat
  BY DEF IsKey
<1>2. ~Precedes(k, k)
  BY <1>1, PrecedingIsLexical
<1>3. k[4] # m[4] => Precedes(k, m) \/ Precedes(m, k)
  BY <1>1, PrecedingIsLexical
<1> QED BY <1>2, <1>3

LEMMA PrecedingIsTransitive ==
    ASSUME NEW k, NEW m, NEW n, IsKey(k), IsKey(m), IsKey(n), Precedes(k, m), Precedes(m, n)
    PROVE  Precedes(k, n)
<1>1. /\ k[1] \in Nat /\ k[2] \in Nat /\ k[3] \in Nat /\ k[4] \in Nat
      /\ m[1] \in Nat /\ m[2] \in Nat /\ m[3] \in Nat /\ m[4] \in Nat
      /\ n[1] \in Nat /\ n[2] \in Nat /\ n[3] \in Nat /\ n[4] \in Nat
  BY DEF IsKey
<1>2. \/ k[1] < m[1]
      \/ k[1] = m[1] /\ k[2] < m[2]
      \/ k[1] = m[1] /\ k[2] = m[2] /\ k[3] < m[3]
      \/ k[1] = m[1] /\ k[2] = m[2] /\ k[3] = m[3] /\ k[4] < m[4]
  BY PrecedingIsLexical
<1>3. \/ m[1] < n[1]
      \/ m[1] = n[1] /\ m[2] < n[2]
      \/ m[1] = n[1] /\ m[2] = n[2] /\ m[3] < n[3]
      \/ m[1] = n[1] /\ m[2] = n[2] /\ m[3] = n[3] /\ m[4] < n[4]
  BY PrecedingIsLexical
<1>4. \/ k[1] < n[1]
      \/ k[1] = n[1] /\ k[2] < n[2]
      \/ k[1] = n[1] /\ k[2] = n[2] /\ k[3] < n[3]
      \/ k[1] = n[1] /\ k[2] = n[2] /\ k[3] = n[3] /\ k[4] < n[4]
  BY <1>1, <1>2, <1>3
<1> QED BY <1>4, PrecedingIsLexical

(* What the fusion goes by after the score.                                *)
KeyOf(dense, sparse, c) ==
    <<BestRank(dense, sparse, c), 2 - Matched(dense, sparse, c), DocumentOf[c], c>>

LEMMA KeysAreNumbers ==
    ASSUME NEW dense \in Seq(Chunks), NEW sparse \in Seq(Chunks),
           NEW c \in ToSet(dense) \cup ToSet(sparse)
    PROVE  /\ IsKey(KeyOf(dense, sparse, c))
           /\ KeyOf(dense, sparse, c)[4] = c
<1>1. c \in Chunks /\ c \in Nat /\ DocumentOf[c] \in Nat
  <2>1. c \in Chunks
    BY DEF ToSet
  <2> QED BY <2>1, ChunksAssumption
<1>2. BestRank(dense, sparse, c) \in Nat
  <2> DEFINE ranks == {Rank(dense, c), Rank(sparse, c)} \ {0}
  <2>1. ASSUME NEW ranking \in Seq(Chunks) PROVE Rank(ranking, c) \in Nat
    <3>1. CASE c \in ToSet(ranking)
      BY <3>1, RankIsPlace
    <3>2. CASE c \notin ToSet(ranking)
      <4>1. {i \in 1 .. Len(ranking) : ranking[i] = c} = {}
        BY <3>2 DEF ToSet
      <4> QED BY <4>1 DEF Rank, SelectInSeq
    <3> QED BY <3>1, <3>2
  <2>2. ranks \subseteq Nat
    BY <2>1
  <2>3. ranks # {}
    BY RankIsPlace
  <2> QED BY <2>2, <2>3, MinIsLeast DEF BestRank
<1>3. 2 - Matched(dense, sparse, c) \in Nat
  <2> DEFINE both == {r \in {dense, sparse} : c \in ToSet(r)}
  <2>1. IsFiniteSet({dense, sparse}) /\ Cardinality({dense, sparse}) <= 2
    <3>1. IsFiniteSet({dense}) /\ Cardinality({dense}) = 1
      BY FS_Singleton
    <3>2. {dense, sparse} = {dense} \cup {sparse}
      OBVIOUS
    <3>3. /\ IsFiniteSet({dense} \cup {sparse})
          /\ Cardinality({dense} \cup {sparse})
               = IF sparse \in {dense} THEN Cardinality({dense}) ELSE Cardinality({dense}) + 1
      BY <3>1, FS_AddElement
    <3> QED BY <3>1, <3>2, <3>3
  <2>2. both \in SUBSET {dense, sparse}
    OBVIOUS
  <2>3. IsFiniteSet(both) /\ Cardinality(both) <= Cardinality({dense, sparse})
    BY <2>1, <2>2, FS_Subset
  <2>4. Cardinality(both) \in Nat /\ Cardinality({dense, sparse}) \in Nat
    BY <2>1, <2>3, FS_CardinalityType
  <2>5. Cardinality(both) <= 2
    BY <2>1, <2>3, <2>4
  <2>6. Matched(dense, sparse, c) = Cardinality(both)
    BY DEF Matched
  <2> HIDE DEF both
  <2> QED BY <2>4, <2>5, <2>6
<1> QED BY <1>1, <1>2, <1>3 DEF KeyOf, IsKey

LEMMA ContributionsAreFractions ==
    ASSUME NEW ranking \in Seq(Chunks), NEW c
    PROVE  Contribution(ranking, c) \in Fractions
<1>1. CASE c \in ToSet(ranking)
  <2>1. RrfK + Rank(ranking, c) \in Nat \ {0}
    BY <1>1, RankIsPlace, LimitsAssumption
  <2> QED BY <1>1, <2>1 DEF Contribution, Fractions
<1>2. CASE c \notin ToSet(ranking)
  BY <1>2 DEF Contribution, Fractions
<1> QED BY <1>1, <1>2

LEMMA ProductIsPositive ==
    ASSUME NEW a \in Nat \ {0}, NEW b \in Nat \ {0}
    PROVE  a * b \in Nat \ {0}
OBVIOUS

LEMMA ScoresAreFractions ==
    ASSUME NEW dense \in Seq(Chunks), NEW sparse \in Seq(Chunks), NEW c
    PROVE  Score(dense, sparse, c) \in Fractions
<1> DEFINE d == Contribution(dense, c)
<1> DEFINE s == Contribution(sparse, c)
<1>1. d \in Fractions /\ s \in Fractions
  BY ContributionsAreFractions
<1>2. Score(dense, sparse, c)
        = [over |-> d.over * s.under + s.over * d.under, under |-> d.under * s.under]
  BY DEF Score
<1> HIDE DEF d, s
<1>3. d.over * s.under + s.over * d.under \in Nat
  BY <1>1 DEF Fractions
<1>4. d.under * s.under \in Nat \ {0}
  BY <1>1, ProductIsPositive DEF Fractions
<1> QED BY <1>2, <1>3, <1>4 DEF Fractions

LEMMA ExceedingIsStrict ==
    ASSUME NEW x \in Fractions, NEW y \in Fractions, Exceeds(x, y)
    PROVE  ~Exceeds(y, x)
<1>1. x.over * y.under \in Nat /\ y.over * x.under \in Nat
  BY DEF Fractions
<1> QED BY <1>1 DEF Exceeds

(* Any two children that were found compare, and only one way: the sort of *)
(* the fusion has one result.                                              *)
LEMMA OutrankingOrders ==
    ASSUME NEW dense \in Seq(Chunks), NEW sparse \in Seq(Chunks), NEW R,
           \A c, d \in ToSet(dense) \cup ToSet(sparse) :
               <<c, d>> \in R <=> Outranks(dense, sparse, c, d)
    PROVE  OrdersAll(R, ToSet(dense) \cup ToSet(sparse))
<1> DEFINE U == ToSet(dense) \cup ToSet(sparse)
<1> DEFINE X(c) == Score(dense, sparse, c)
<1> DEFINE K(c) == KeyOf(dense, sparse, c)
<1> DEFINE Tie(c, d) == ~Exceeds(X(c), X(d)) /\ ~Exceeds(X(d), X(c))
<1>1. \A c, d \in U : <<c, d>> \in R <=>
          Exceeds(X(c), X(d)) \/ (~Exceeds(X(d), X(c)) /\ Precedes(K(c), K(d)))
  BY DEF Outranks, KeyOf, Precedes
<1>2. \A c \in U : X(c) \in Fractions
  BY ScoresAreFractions
<1>3. \A c \in U : K(c)[4] = c /\ IsKey(K(c))
  BY KeysAreNumbers
<1> HIDE DEF X, K, U
<1>6. /\ \A c, d \in U : Exceeds(X(c), X(d)) => ~Exceeds(X(d), X(c))
      /\ \A c, d, e \in U :
            ~Exceeds(X(c), X(d)) /\ ~Exceeds(X(d), X(e)) => ~Exceeds(X(c), X(e))
  BY <1>2, ExceedingIsStrict, NotExceedingIsTransitive
<1>7. /\ \A c \in U : ~Precedes(K(c), K(c))
      /\ \A c, d \in U : c = d \/ Precedes(K(c), K(d)) \/ Precedes(K(d), K(c))
      /\ \A c, d, e \in U :
            Precedes(K(c), K(d)) /\ Precedes(K(d), K(e)) => Precedes(K(c), K(e))
  <2>1. \A c, d \in U : ~Precedes(K(c), K(c)) /\ (c = d \/ Precedes(K(c), K(d)) \/ Precedes(K(d), K(c)))
    BY <1>3, PrecedingOrders
  <2>2. \A c, d, e \in U :
            Precedes(K(c), K(d)) /\ Precedes(K(d), K(e)) => Precedes(K(c), K(e))
    BY <1>3, PrecedingIsTransitive
  <2> QED BY <2>1, <2>2
<1>8. \A c \in U : <<c, c>> \notin R
  BY <1>1, <1>6, <1>7
<1>9. \A c, d \in U : c = d \/ <<c, d>> \in R \/ <<d, c>> \in R
  BY <1>1, <1>6, <1>7
<1>10. ASSUME NEW c \in U, NEW d \in U, NEW e \in U, <<c, d>> \in R, <<d, e>> \in R
       PROVE  <<c, e>> \in R
  <2>1. ~Exceeds(X(d), X(c)) /\ ~Exceeds(X(e), X(d)) /\ ~Exceeds(X(e), X(c))
    BY <1>1, <1>6, <1>10
  <2>2. CASE Exceeds(X(c), X(d)) \/ Exceeds(X(d), X(e))
    <3>1. Exceeds(X(c), X(e))
      BY <1>6, <2>1, <2>2
    <3> QED BY <1>1, <3>1
  <2>3. CASE ~Exceeds(X(c), X(d)) /\ ~Exceeds(X(d), X(e))
    <3>1. Precedes(K(c), K(e))
      BY <1>1, <1>7, <1>10, <2>3
    <3> QED BY <1>1, <2>1, <3>1
  <2> QED BY <2>2, <2>3
<1> QED BY <1>8, <1>9, <1>10 DEF OrdersAll, U

(* The sum of two fractions, as Score adds what the sources contribute.    *)
Sum(x, y) == [over |-> x.over * y.under + y.over * x.under, under |-> x.under * y.under]

(* Sums of larger fractions are larger, if one of them is.                 *)
LEMMA SumsExceed ==
    ASSUME NEW x \in Fractions, NEW y \in Fractions, NEW v \in Fractions, NEW w \in Fractions,
           ~Exceeds(v, x), ~Exceeds(w, y), Exceeds(x, v) \/ Exceeds(y, w)
    PROVE  Exceeds(Sum(x, y), Sum(v, w))
<1> DEFINE a == x.over
<1> DEFINE b == x.under
<1> DEFINE c == y.over
<1> DEFINE d == y.under
<1> DEFINE e == v.over
<1> DEFINE f == v.under
<1> DEFINE g == w.over
<1> DEFINE h == w.under
<1>1. /\ a \in Nat /\ c \in Nat /\ e \in Nat /\ g \in Nat
      /\ b \in Nat \ {0} /\ d \in Nat \ {0} /\ f \in Nat \ {0} /\ h \in Nat \ {0}
  BY DEF Fractions
<1>2. e * b <= a * f /\ g * d <= c * h /\ (a * f > e * b \/ c * h > g * d)
  BY <1>1 DEF Exceeds
<1>3. SUFFICES (a * d + c * b) * (f * h) > (e * h + g * f) * (b * d)
  BY <1>1 DEF Exceeds, Sum
<1> HIDE DEF a, b, c, d, e, f, g, h
<1> DEFINE p == a * f
<1> DEFINE q == e * b
<1> DEFINE r == c * h
<1> DEFINE s == g * d
<1> DEFINE m == d * h
<1> DEFINE n == b * f
<1>4. (a * d + c * b) * (f * h) = p * m + r * n
  BY <1>1
<1>5. (e * h + g * f) * (b * d) = q * m + s * n
  BY <1>1
<1>6. p \in Nat /\ q \in Nat /\ r \in Nat /\ s \in Nat
  BY <1>1
<1>7. m \in Nat \ {0} /\ n \in Nat \ {0}
  BY <1>1, ProductIsPositive
<1>8. q <= p /\ s <= r /\ (p > q \/ r > s)
  BY <1>2
<1> HIDE DEF p, q, r, s, m, n
<1>9. q * m <= p * m /\ s * n <= r * n
  BY <1>6, <1>7, <1>8
<1>10. (p > q => p * m > q * m) /\ (r > s => r * n > s * n)
  BY <1>6, <1>7
<1>11. p * m \in Nat /\ q * m \in Nat /\ r * n \in Nat /\ s * n \in Nat
  BY <1>6, <1>7
<1>12. p * m + r * n > q * m + s * n
  BY <1>8, <1>9, <1>10, <1>11
<1> QED BY <1>4, <1>5, <1>12

(* What every source ranks better has the larger score.                    *)
LEMMA DominatingOutscores ==
    ASSUME NEW dense \in Seq(Chunks), NEW sparse \in Seq(Chunks), NEW c,
           NEW d \in ToSet(dense) \cup ToSet(sparse), Dominates(dense, sparse, c, d)
    PROVE  Exceeds(Score(dense, sparse, c), Score(dense, sparse, d))
<1>1. ASSUME NEW ranking \in {dense, sparse}, d \in ToSet(ranking)
      PROVE  Exceeds(Contribution(ranking, c), Contribution(ranking, d))
  <2>1. c \in ToSet(ranking) /\ Rank(ranking, c) < Rank(ranking, d)
    BY <1>1 DEF Dominates
  <2>2. Rank(ranking, c) \in Nat /\ Rank(ranking, d) \in Nat /\ RrfK \in Nat
    BY <1>1, <2>1, RankIsPlace, LimitsAssumption
  <2>3. /\ Contribution(ranking, c) = [over |-> 1, under |-> RrfK + Rank(ranking, c)]
        /\ Contribution(ranking, d) = [over |-> 1, under |-> RrfK + Rank(ranking, d)]
    BY <1>1, <2>1 DEF Contribution
  <2> QED BY <2>1, <2>2, <2>3 DEF Exceeds
<1>2. ASSUME NEW ranking \in {dense, sparse}, d \notin ToSet(ranking)
      PROVE  ~Exceeds(Contribution(ranking, d), Contribution(ranking, c))
  <2>1. Contribution(ranking, d) = [over |-> 0, under |-> 1]
    BY <1>2 DEF Contribution
  <2>2. Contribution(ranking, c).over \in Nat /\ Contribution(ranking, c).under \in Nat
    BY ContributionsAreFractions DEF Fractions
  <2> QED BY <2>1, <2>2 DEF Exceeds
<1>3. \A ranking \in {dense, sparse}, e \in {c, d} : Contribution(ranking, e) \in Fractions
  BY ContributionsAreFractions
<1>4. \A ranking \in {dense, sparse} :
          ~Exceeds(Contribution(ranking, d), Contribution(ranking, c))
  BY <1>1, <1>2, <1>3, ExceedingIsStrict
<1>5. \/ Exceeds(Contribution(dense, c), Contribution(dense, d))
      \/ Exceeds(Contribution(sparse, c), Contribution(sparse, d))
  BY <1>1
<1>6. \A e : Score(dense, sparse, e) = Sum(Contribution(dense, e), Contribution(sparse, e))
  BY DEF Score, Sum
<1> QED BY <1>3, <1>4, <1>5, <1>6, SumsExceed

-----------------------------------------------------------------------------
(* Prefixes, and the result of the fusion.                                 *)

LEMMA TakingPrefixes ==
    ASSUME NEW T, NEW s \in Seq(T), NEW n \in Nat
    PROVE  /\ Take(s, n) \in Seq(T)
           /\ Len(Take(s, n)) <= n /\ Len(Take(s, n)) <= Len(s)
           /\ DOMAIN Take(s, n) \subseteq DOMAIN s
           /\ \A i \in DOMAIN Take(s, n) : Take(s, n)[i] = s[i]
           /\ \A i \in DOMAIN s, j \in DOMAIN Take(s, n) : i < j => i \in DOMAIN Take(s, n)
           /\ ToSet(Take(s, n)) \subseteq ToSet(s)
           /\ IsInjective(s) => IsInjective(Take(s, n))
<1> DEFINE k == Min({n, Len(s)})
<1>1. k \in {n, Len(s)} /\ k <= n /\ k <= Len(s)
  <2>1. {n, Len(s)} \subseteq Nat /\ {n, Len(s)} # {}
    OBVIOUS
  <2> QED BY <2>1, MinIsLeast
<1>2. k \in Nat /\ k <= Len(s) /\ k <= n
  BY <1>1
<1>3. Take(s, n) = SubSeq(s, 1, k)
  BY DEF Take
<1> HIDE DEF k
<1> DEFINE t == SubSeq(s, 1, k)
<1>4. /\ t \in Seq(T) /\ Len(t) = k /\ DOMAIN t = 1 .. k
      /\ \A i \in 1 .. k : i \in DOMAIN s /\ t[i] = s[i]
  BY <1>2
<1>5. \A i \in DOMAIN s, j \in DOMAIN t : i < j => i \in DOMAIN t
  BY <1>2, <1>4
<1> HIDE DEF t
<1>6. ToSet(t) \subseteq ToSet(s)
  BY <1>4 DEF ToSet
<1>7. IsInjective(s) => IsInjective(t)
  BY <1>4 DEF IsInjective
<1> QED BY <1>2, <1>3, <1>4, <1>5, <1>6, <1>7 DEF t

(* The fusion lists what was found, once each, by its order, up to a limit. *)
LEMMA FusionSorts ==
    ASSUME NEW dense \in Seq(Chunks), NEW sparse \in Seq(Chunks)
    PROVE  \E ranked \in Seq(Chunks) :
              /\ Fused(dense, sparse) = Take(ranked, RrfTopK)
              /\ ToSet(ranked) = ToSet(dense) \cup ToSet(sparse)
              /\ IsInjective(ranked)
              /\ \A i, j \in DOMAIN ranked :
                    i < j => Outranks(dense, sparse, ranked[i], ranked[j])
<1> DEFINE U == ToSet(dense) \cup ToSet(sparse)
<1> DEFINE n == Cardinality(U)
<1> DEFINE Sorted(ranked) ==
        \A i, j \in DOMAIN ranked : i < j => Outranks(dense, sparse, ranked[i], ranked[j])
<1> DEFINE R == {pair \in U \X U : Outranks(dense, sparse, pair[1], pair[2])}
<1> DEFINE ranked == CHOOSE r \in SetToSeqs(U) : Sorted(r)
<1>1. U \subseteq Chunks /\ IsFiniteSet(U)
  <2>1. U \subseteq Chunks
    BY DEF ToSet
  <2> QED BY <2>1, FS_Subset, ChunksAssumption
<1>2. n \in Nat
  BY <1>1, FS_CardinalityType
<1>3. \A c, d \in U : <<c, d>> \in R <=> Outranks(dense, sparse, c, d)
  OBVIOUS
<1>4. OrdersAll(R, U)
  <2> HIDE DEF R
  <2> QED BY <1>3, OutrankingOrders
<1>5. Fused(dense, sparse) = Take(ranked, RrfTopK)
  BY DEF Fused
<1> HIDE DEF R
<1>6. PICK t : Lists(R, U, n, t)
  <2> HIDE DEF U
  <2> QED BY <1>1, <1>4, SortedExists
<1>7. t \in SetToSeqs(U) /\ Sorted(t)
  <2> HIDE DEF U
  <2>1. /\ t \in [1 .. n -> U] /\ DOMAIN t = 1 .. n
        /\ \A i, j \in 1 .. n : i < j => <<t[i], t[j]>> \in R
    BY <1>6 DEF Lists
  <2>2. \A i, j \in 1 .. n : i < j => Outranks(dense, sparse, t[i], t[j])
    BY <1>3, <2>1
  <2>3. ASSUME NEW i \in 1 .. n, NEW j \in 1 .. n, i # j PROVE t[i] # t[j]
    <3>1. i < j \/ j < i
      BY <1>2, <2>3
    <3>2. <<t[i], t[j]>> \in R \/ <<t[j], t[i]>> \in R
      BY <2>1, <3>1
    <3> QED BY <1>4, <2>1, <3>2 DEF OrdersAll
  <2> QED BY <2>1, <2>2, <2>3 DEF SetToSeqs
<1>8. ranked \in SetToSeqs(U) /\ Sorted(ranked)
  <2> HIDE DEF Sorted, U
  <2> QED BY <1>7
<1> HIDE DEF ranked, U
<1>9. /\ ranked \in [1 .. n -> U] /\ DOMAIN ranked = 1 .. n
      /\ \A i, j \in 1 .. n : ranked[i] = ranked[j] => i = j
  BY <1>8 DEF SetToSeqs
<1>10. ranked \in Seq(Chunks) /\ IsInjective(ranked)
  BY <1>1, <1>2, <1>9 DEF IsInjective
<1>11. ToSet(ranked) = U
  <2>1. ranked \in Injection(1 .. n, U)
    BY <1>9 DEF Injection, IsInjective
  <2>2. Cardinality(1 .. n) = n
    BY <1>2, FS_Interval
  <2>3. ranked \in Surjection(1 .. n, U)
    BY <1>1, <2>1, <2>2, FS_Injection
  <2> QED BY <1>9, <2>3 DEF Surjection, ToSet
<1> QED BY <1>5, <1>8, <1>10, <1>11 DEF U

(* So what every source ranks better than another hit comes before it.     *)
LEMMA FusionRespectsSources ==
    ASSUME NEW dense \in Seq(Chunks), NEW sparse \in Seq(Chunks),
           NEW c \in ToSet(dense) \cup ToSet(sparse), NEW d \in ToSet(dense) \cup ToSet(sparse),
           Dominates(dense, sparse, c, d), d \in ToSet(Fused(dense, sparse))
    PROVE  /\ c \in ToSet(Fused(dense, sparse))
           /\ Rank(Fused(dense, sparse), c) < Rank(Fused(dense, sparse), d)
<1> DEFINE fused == Fused(dense, sparse)
<1>1. PICK ranked \in Seq(Chunks) :
              /\ fused = Take(ranked, RrfTopK)
              /\ ToSet(ranked) = ToSet(dense) \cup ToSet(sparse)
              /\ IsInjective(ranked)
              /\ \A i, j \in DOMAIN ranked :
                    i < j => Outranks(dense, sparse, ranked[i], ranked[j])
  BY FusionSorts
<1> HIDE DEF fused
<1>2. RrfTopK \in Nat
  BY LimitsAssumption
<1>3. /\ fused \in Seq(Chunks) /\ IsInjective(fused)
      /\ DOMAIN fused \subseteq DOMAIN ranked
      /\ \A i \in DOMAIN fused : fused[i] = ranked[i]
      /\ \A i \in DOMAIN ranked, j \in DOMAIN fused : i < j => i \in DOMAIN fused
  BY <1>1, <1>2, TakingPrefixes
<1>4. PICK i \in DOMAIN ranked : ranked[i] = c
  BY <1>1 DEF ToSet
<1>5. PICK j \in DOMAIN fused : fused[j] = d
  BY DEF ToSet, fused
<1>6. Exceeds(Score(dense, sparse, c), Score(dense, sparse, d))
  BY DominatingOutscores
<1>7. ~Exceeds(Score(dense, sparse, d), Score(dense, sparse, c))
  BY <1>6, ExceedingIsStrict, ScoresAreFractions
<1>8. ~Outranks(dense, sparse, d, c)
  BY <1>6, <1>7 DEF Outranks
<1>9. i \in Nat /\ j \in Nat /\ j \in DOMAIN ranked /\ ranked[j] = d
  BY <1>3, <1>4, <1>5
<1>10. i < j
  <2>1. ~(j < i)
    BY <1>1, <1>4, <1>8, <1>9
  <2>2. i # j
    BY <1>4, <1>6, <1>7, <1>9
  <2> QED BY <1>9, <2>1, <2>2
<1>11. i \in DOMAIN fused /\ fused[i] = c
  BY <1>3, <1>4, <1>5, <1>10
<1>12. c \in ToSet(fused) /\ d \in ToSet(fused)
  BY <1>5, <1>11 DEF ToSet
<1>13. Rank(fused, c) = i /\ Rank(fused, d) = j
  BY <1>3, <1>5, <1>11, <1>12, RankIsPlace DEF IsInjective
<1> QED BY <1>10, <1>12, <1>13 DEF fused

-----------------------------------------------------------------------------
(* Rankings.                                                               *)

LEMMA RankingsAreInjective ==
    ASSUME NEW S, IsFiniteSet(S), NEW k \in Nat, NEW r
    PROVE  r \in Rankings(S, k) <=> r \in Seq(S) /\ IsInjective(r) /\ Len(r) <= k
<1>1. ASSUME r \in Rankings(S, k) PROVE r \in Seq(S) /\ IsInjective(r) /\ Len(r) <= k
  <2>1. PICK s \in SUBSET S : r \in SetToSeqs(s)
    BY <1>1 DEF Rankings, SetToAllKPermutations
  <2> DEFINE n == Cardinality(s)
  <2>2. n \in Nat
    BY FS_Subset, FS_CardinalityType
  <2>3. r \in [1 .. n -> s] /\ \A i, j \in 1 .. n : i # j => r[i] # r[j]
    BY <2>1 DEF SetToSeqs
  <2> HIDE DEF n
  <2>4. r \in Seq(S) /\ IsInjective(r)
    BY <2>2, <2>3 DEF IsInjective
  <2> QED BY <1>1, <2>4 DEF Rankings
<1>2. ASSUME r \in Seq(S), IsInjective(r), Len(r) <= k PROVE r \in Rankings(S, k)
  <2> DEFINE s == ToSet(r)
  <2> DEFINE n == Len(r)
  <2>1. /\ n \in Nat /\ DOMAIN r = 1 .. n /\ s \in SUBSET S
        /\ r \in [1 .. n -> s]
    BY <1>2 DEF ToSet
  <2>2. r \in Injection(1 .. n, s) /\ r \in Surjection(1 .. n, s)
    BY <1>2, <2>1 DEF Injection, Surjection, IsInjective, ToSet
  <2>3. IsFiniteSet(s)
    BY <2>1, FS_Subset
  <2>4. Cardinality(1 .. n) = n
    BY <2>1, FS_Interval
  <2> HIDE DEF s, n
  <2>5. Cardinality(s) = n
    BY <2>2, <2>3, <2>4, FS_Injection
  <2>6. r \in SetToSeqs(s)
    BY <1>2, <2>1, <2>5 DEF SetToSeqs, IsInjective
  <2> QED BY <1>2, <2>1, <2>6 DEF Rankings, SetToAllKPermutations, n
<1> QED BY <1>1, <1>2

(* Sequences over a set are sequences over a larger one.                   *)
LEMMA LargerSeqs ==
    ASSUME NEW S, NEW T, S \subseteq T
    PROVE  Seq(S) \subseteq Seq(T)
<1> SUFFICES ASSUME NEW s \in Seq(S) PROVE s \in Seq(T)
  OBVIOUS
<1>1. /\ Len(s) \in Nat /\ s \in [1 .. Len(s) -> S]
  OBVIOUS
<1>2. s \in [1 .. Len(s) -> T]
  BY <1>1
<1> QED BY <1>1, <1>2

(* What the reranker returns are some of its hits, each once.              *)
LEMMA RerankingKeeps ==
    ASSUME NEW hits \in Seq(Nat), NEW ranked \in Reranked(hits)
    PROVE  /\ ranked \in Seq(Nat) /\ IsInjective(ranked) /\ Len(ranked) <= RerankTopK
           /\ ToSet(ranked) \subseteq ToSet(hits)
<1> DEFINE S == ToSet(hits)
<1> DEFINE n == Cardinality(S)
<1>1. S \subseteq Nat /\ IsFiniteSet(S)
  <2>1. hits \in Surjection(1 .. Len(hits), S)
    BY DEF Surjection, ToSet
  <2>2. IsFiniteSet(1 .. Len(hits))
    BY FS_Interval
  <2> QED BY <2>1, <2>2, FS_Surjection DEF ToSet
<1>2. PICK r \in SetToSeqs(S) : ranked = Take(r, RerankTopK)
  BY DEF Reranked
<1> HIDE DEF S
<1>3. n \in Nat
  BY <1>1, FS_CardinalityType
<1> HIDE DEF n
<1>4. r \in [1 .. n -> S] /\ \A i, j \in 1 .. n : i # j => r[i] # r[j]
  BY <1>2 DEF SetToSeqs, n
<1>5. r \in Seq(Nat) /\ IsInjective(r) /\ ToSet(r) \subseteq S
  <2>1. DOMAIN r = 1 .. n /\ \A i \in 1 .. n : r[i] \in S
    BY <1>4
  <2>2. r \in Seq(Nat)
    <3>1. r \in [1 .. n -> S]
      BY <1>4
    <3>2. r \in Seq(S)
      BY <1>3, <3>1
    <3> QED BY <1>1, <3>2, LargerSeqs
  <2>3. IsInjective(r)
    BY <1>4, <2>1 DEF IsInjective
  <2>4. ToSet(r) \subseteq S
    BY <2>1 DEF ToSet
  <2> QED BY <2>2, <2>3, <2>4
<1>6. RerankTopK \in Nat
  BY LimitsAssumption
<1>7. /\ Take(r, RerankTopK) \in Seq(Nat)
      /\ Len(Take(r, RerankTopK)) <= RerankTopK
      /\ ToSet(Take(r, RerankTopK)) \subseteq ToSet(r)
      /\ IsInjective(Take(r, RerankTopK))
  BY <1>5, <1>6, TakingPrefixes
<1> QED BY <1>2, <1>5, <1>7 DEF S

(* The parents of ranked children, each once.                              *)
LEMMA ParentsAreOnce ==
    ASSUME NEW ranked \in Seq(Chunks)
    PROVE  /\ Parents(ranked) \in Seq(Nat) /\ IsInjective(Parents(ranked))
           /\ ToSet(Parents(ranked)) \subseteq {ParentOf[c] : c \in ToSet(ranked)}
<1> DEFINE places == [i \in DOMAIN ranked |-> i]
<1> DEFINE first == {i \in DOMAIN ranked :
                        \A j \in 1 .. i - 1 : ParentOf[ranked[j]] # ParentOf[ranked[i]]}
<1> DEFINE best == Filtered(places, first)
<1> DEFINE parents == [i \in DOMAIN best |-> ParentOf[ranked[best[i]]]]
<1>1. places \in Seq(DOMAIN ranked) /\ IsInjective(places)
  BY DEF IsInjective
<1>2. Parents(ranked) = parents
  BY DEF Parents
<1> HIDE DEF places
<1>3. /\ best \in Seq(DOMAIN ranked) /\ IsInjective(best)
      /\ ToSet(best) = ToSet(places) \cap first
  BY <1>1, FilteringKeeps
<1> HIDE DEF best
<1>4. \A i \in DOMAIN best : best[i] \in first
  BY <1>3 DEF ToSet
<1>5. DOMAIN ranked \subseteq Nat \ {0} /\ DOMAIN best = 1 .. Len(best) /\ Len(best) \in Nat
  BY <1>3
<1>6. \A i \in DOMAIN best : best[i] \in DOMAIN ranked /\ ranked[best[i]] \in Chunks
  BY <1>4
<1>7. \A i \in DOMAIN best : ParentOf[ranked[best[i]]] \in Nat
  BY <1>6, ChunksAssumption
<1>8. parents \in Seq(Nat)
  BY <1>5, <1>7
<1>9. ASSUME NEW i \in DOMAIN parents, NEW j \in DOMAIN parents, parents[i] = parents[j]
      PROVE  i = j
  <2>1. ~(best[i] < best[j]) /\ ~(best[j] < best[i])
    <3>1. ASSUME NEW a \in first, NEW b \in first, ParentOf[ranked[a]] = ParentOf[ranked[b]]
          PROVE  ~(a < b)
      <4>1. a \in Nat \ {0} /\ b \in Nat \ {0}
        BY <1>5
      <4>2. a < b => a \in 1 .. b - 1
        BY <4>1
      <4> QED BY <3>1, <4>2
    <3> HIDE DEF first
    <3> QED BY <1>4, <1>9, <3>1
  <2>2. best[i] \in Nat /\ best[j] \in Nat
    BY <1>5, <1>6
  <2>3. best[i] = best[j]
    BY <2>1, <2>2
  <2> QED BY <1>3, <2>3 DEF IsInjective
<1>10. IsInjective(parents)
  BY <1>9 DEF IsInjective
<1>11. ToSet(parents) \subseteq {ParentOf[c] : c \in ToSet(ranked)}
  BY <1>6 DEF ToSet
<1> QED BY <1>2, <1>8, <1>10, <1>11

-----------------------------------------------------------------------------
(* What a retrieval has in hand.                                           *)

RequestType ==
    [stage : Stages \cup {"idle", "answered", "failed"}, process : Processes,
     scope : Scopes \cup {Unscoped}, terms : BOOLEAN,
     dense : Rankings(Chunks, SourceTopK), sparse : Rankings(Chunks, SourceTopK),
     hits : {hits \in Seq(Nat) : IsInjective(hits) /\ Len(hits) <= RrfTopK}]

(* The children a request may cite: its process has seen its corpus in the *)
(* collection, and goes on with it until the request ends.                 *)
CitableBy(r) == {c \in task[r.process].corpus : DocumentOf[c] \in r.scope}

ParentsOf(children) == {ParentOf[c] : c \in children}

Grounded(r) ==
    r.stage \in Stages =>
        /\ task[r.process].corpus \subseteq collection.records
        /\ ToSet(r.dense) \cup ToSet(r.sparse) \subseteq CitableBy(r)
        /\ r.stage \in {"rerank", "expand"} => ToSet(r.hits) \subseteq CitableBy(r)
        /\ r.stage = "build" => ToSet(r.hits) \subseteq ParentsOf(CitableBy(r))

HitsInv ==
    /\ request \in [Requests -> RequestType]
    /\ \A q \in Requests : Grounded(request[q])

LEMMA NoRequestIsTyped ==
    ASSUME NEW p \in Processes
    PROVE  NoRequest(p) \in RequestType
<1>1. <<>> \in Rankings(Chunks, SourceTopK)
  <2>1. <<>> \in Seq(Chunks) /\ IsInjective(<<>>) /\ Len(<<>>) <= SourceTopK
    BY LimitsAssumption DEF IsInjective
  <2> QED BY <2>1, RankingsAreInjective, ChunksAssumption, LimitsAssumption
<1>2. <<>> \in Seq(Nat) /\ IsInjective(<<>>) /\ Len(<<>>) <= RrfTopK
  BY LimitsAssumption DEF IsInjective
<1> QED BY <1>1, <1>2 DEF NoRequest, RequestType

LEMMA InitHasNoHits == Init => HitsInv
<1> SUFFICES ASSUME Init PROVE HitsInv
  OBVIOUS
<1>1. PICK p \in Processes : request = [q \in Requests |-> NoRequest(p)]
  BY DEF Init
<1>2. NoRequest(p).stage = "idle"
  BY DEF NoRequest
<1> QED BY <1>1, <1>2, NoRequestIsTyped DEF HitsInv, Grounded, Stages

(* The hits of a source that pass its two checks are citable.              *)
LEMMA ScopedHits ==
    ASSUME NEW r \in RequestType, NEW S, S \subseteq Chunks,
           NEW found \in Rankings(S, SourceTopK), ToSet(found) \subseteq Known(r.process)
    PROVE  /\ InScope(found, r.scope) \in Rankings(Chunks, SourceTopK)
           /\ ToSet(InScope(found, r.scope)) \subseteq CitableBy(r)
<1> DEFINE good == {c \in Chunks : DocumentOf[c] \in r.scope}
<1>1. IsFiniteSet(S) /\ IsFiniteSet(Chunks) /\ SourceTopK \in Nat
  BY FS_Subset, ChunksAssumption, LimitsAssumption
<1>2. found \in Seq(S) /\ IsInjective(found) /\ Len(found) <= SourceTopK
  BY <1>1, RankingsAreInjective
<1>3. found \in Seq(Chunks)
  BY <1>2
<1>4. /\ InScope(found, r.scope) \in Seq(Chunks)
      /\ Len(InScope(found, r.scope)) <= Len(found)
      /\ ToSet(InScope(found, r.scope)) = ToSet(found) \cap good
      /\ IsInjective(InScope(found, r.scope))
  BY <1>2, <1>3, FilteringKeeps DEF InScope
<1>5. Len(InScope(found, r.scope)) <= SourceTopK
  BY <1>1, <1>2, <1>3, <1>4
<1>6. InScope(found, r.scope) \in Rankings(Chunks, SourceTopK)
  BY <1>1, <1>4, <1>5, RankingsAreInjective
<1>7. Known(r.process) \subseteq task[r.process].corpus
  BY DEF Known
<1> QED BY <1>4, <1>6, <1>7 DEF CitableBy

(* The candidates of the fusion are what its sources found.                *)
LEMMA CandidatesAreFound ==
    ASSUME NEW dense \in Rankings(Chunks, SourceTopK), NEW sparse \in Rankings(Chunks, SourceTopK)
    PROVE  LET candidates == Take(Fused(dense, sparse), CandidateCount)
           IN  /\ candidates \in Seq(Nat) /\ IsInjective(candidates)
               /\ Len(candidates) <= RrfTopK
               /\ ToSet(candidates) \subseteq ToSet(dense) \cup ToSet(sparse)
<1> DEFINE fused == Fused(dense, sparse)
<1> DEFINE candidates == Take(fused, CandidateCount)
<1>1. dense \in Seq(Chunks) /\ sparse \in Seq(Chunks)
  BY RankingsAreInjective, ChunksAssumption, LimitsAssumption
<1>2. RrfTopK \in Nat /\ CandidateCount \in Nat /\ CandidateCount <= RrfTopK
  BY LimitsAssumption
<1>3. PICK ranked \in Seq(Chunks) :
              /\ fused = Take(ranked, RrfTopK)
              /\ ToSet(ranked) = ToSet(dense) \cup ToSet(sparse)
              /\ IsInjective(ranked)
  BY <1>1, FusionSorts
<1> HIDE DEF fused
<1>4. fused \in Seq(Chunks) /\ IsInjective(fused) /\ ToSet(fused) \subseteq ToSet(ranked)
  BY <1>2, <1>3, TakingPrefixes
<1>5. /\ candidates \in Seq(Chunks) /\ IsInjective(candidates)
      /\ Len(candidates) <= CandidateCount
      /\ ToSet(candidates) \subseteq ToSet(fused)
  BY <1>2, <1>4, TakingPrefixes
<1> HIDE DEF candidates
<1>6. candidates \in Seq(Nat)
  <2>1. Chunks \subseteq Nat
    BY ChunksAssumption
  <2> QED BY <1>5, <2>1, LargerSeqs
<1>7. Len(candidates) <= RrfTopK
  BY <1>2, <1>5
<1> QED BY <1>3, <1>4, <1>5, <1>6, <1>7 DEF candidates, fused

(* A request goes on with what it may, or ends.                            *)
LEMMA RequestGoesOn ==
    ASSUME HitsInv, NEW q \in Requests, NEW r \in RequestType, Grounded(r),
           request' = [request EXCEPT ![q] = r], UNCHANGED <<collection, task>>
    PROVE  HitsInv'
BY DEF HitsInv, Grounded, CitableBy

LEMMA MovedRequest ==
    ASSUME HitsInv, NEW q \in Requests, NEW stage \in Stages \cup {"answered"},
           NEW hits \in Seq(Nat), IsInjective(hits), Len(hits) <= RrfTopK,
           Running(q), Move(q, stage, hits),
           stage \in {"rerank", "expand"} => ToSet(hits) \subseteq CitableBy(request[q]),
           stage = "build" => ToSet(hits) \subseteq ParentsOf(CitableBy(request[q]))
    PROVE  HitsInv'
<1> DEFINE r == [request[q] EXCEPT !.stage = stage, !.hits = hits, !.dense = <<>>, !.sparse = <<>>]
<1>1. request[q] \in RequestType /\ Grounded(request[q])
  BY DEF HitsInv
<1>2. <<>> \in Rankings(Chunks, SourceTopK)
  BY <1>1, NoRequestIsTyped DEF NoRequest, RequestType
<1>3. r \in RequestType
  BY <1>1, <1>2 DEF RequestType
<1>4. /\ r.stage = stage /\ r.hits = hits /\ r.dense = <<>> /\ r.sparse = <<>>
      /\ r.process = request[q].process /\ r.scope = request[q].scope
  BY <1>1 DEF RequestType
<1> HIDE DEF r
<1>5. ToSet(<<>>) = {} /\ CitableBy(r) = CitableBy(request[q])
  BY <1>4 DEF ToSet, CitableBy
<1>6. Grounded(r)
  BY <1>1, <1>4, <1>5 DEF Grounded, Running
<1>7. request' = [request EXCEPT ![q] = r] /\ UNCHANGED <<collection, task>>
  BY DEF Move, Becomes, r
<1> QED BY <1>3, <1>6, <1>7, RequestGoesOn

LEMMA EndedRequest ==
    ASSUME HitsInv, NEW q \in Requests, request' = [request EXCEPT ![q] = Ended(q)],
           UNCHANGED <<collection, task>>
    PROVE  HitsInv'
<1>1. request[q].process \in Processes
  BY DEF HitsInv, RequestType
<1>2. NoRequest(request[q].process) \in RequestType
  BY <1>1, NoRequestIsTyped
<1>3. Ended(q) \in RequestType /\ Ended(q).stage = "failed"
  BY <1>2 DEF Ended, RequestType
<1>4. Grounded(Ended(q))
  BY <1>3 DEF Grounded, Stages
<1> QED BY <1>3, <1>4, RequestGoesOn

-----------------------------------------------------------------------------
(* One step of a retrieval.                                                *)

(* A new retrieval: its process has verified its corpus.                   *)
LEMMA RetrieveKeeps ==
    ASSUME IndexInv, HitsInv, NEW q \in Requests, Retrieve(q)
    PROVE  HitsInv'
<1>1. PICK p \in Processes, scope \in Scopes \cup {Unscoped}, terms \in BOOLEAN :
          /\ at[p] = "ready"
          /\ Becomes(q, [NoRequest(p) EXCEPT !.stage = "embed", !.scope = scope, !.terms = terms])
  BY DEF Retrieve
<1> DEFINE r == [NoRequest(p) EXCEPT !.stage = "embed", !.scope = scope, !.terms = terms]
<1>2. NoRequest(p) \in RequestType
  BY NoRequestIsTyped
<1>3. r \in RequestType
  BY <1>2 DEF RequestType, Stages
<1>4. r.stage = "embed" /\ r.process = p /\ r.dense = <<>> /\ r.sparse = <<>>
  BY DEF NoRequest
<1>5. request' = [request EXCEPT ![q] = r] /\ UNCHANGED <<collection, task>>
  BY <1>1 DEF Becomes
<1> HIDE DEF r
<1>6. task[p].corpus \subseteq collection.records
  BY <1>1 DEF IndexInv, Relies
<1>7. ToSet(<<>>) = {}
  BY DEF ToSet
<1>8. Grounded(r)
  BY <1>4, <1>6, <1>7 DEF Grounded
<1> QED BY <1>3, <1>5, <1>8, RequestGoesOn

LEMMA RaiseKeeps ==
    ASSUME HitsInv, NEW q \in Requests, Raise(q)
    PROVE  HitsInv'
BY EndedRequest DEF Raise, Becomes

LEMMA CorporaAreChunks ==
    ASSUME IndexInv, NEW p \in Processes
    PROVE  task[p].corpus \subseteq Chunks
<1>1. task[p].corpus \in Corpora
  BY DEF IndexInv, IndexIsTyped
<1> QED BY <1>1, ChunksAssumption

(* The filtered hits of a source join the request.                         *)
LEMMA DenseKeeps ==
    ASSUME IndexInv, HitsInv, NEW q \in Requests, DenseReturns(q)
    PROVE  HitsInv'
<1>1. PICK found \in DenseHits :
          IF ToSet(found) \subseteq Known(request[q].process)
          THEN Becomes(q, [request[q] EXCEPT !.stage = "sparse",
                                             !.dense = InScope(found, request[q].scope)])
          ELSE Raise(q)
  BY DEF DenseReturns
<1>2. CASE ~(ToSet(found) \subseteq Known(request[q].process))
  BY <1>1, <1>2, RaiseKeeps
<1>3. CASE ToSet(found) \subseteq Known(request[q].process)
  <2> DEFINE dense == InScope(found, request[q].scope)
  <2> DEFINE r == [request[q] EXCEPT !.stage = "sparse", !.dense = dense]
  <2>1. request[q] \in RequestType /\ Grounded(request[q]) /\ request[q].stage \in Stages
    BY DEF HitsInv, DenseReturns, Stages
  <2>2. collection.records \subseteq Chunks
    BY ChunksAssumption DEF IndexInv, IndexIsTyped
  <2>3. dense \in Rankings(Chunks, SourceTopK) /\ ToSet(dense) \subseteq CitableBy(request[q])
    BY <1>3, <2>1, <2>2, ScopedHits DEF DenseHits
  <2>4. request' = [request EXCEPT ![q] = r] /\ UNCHANGED <<collection, task>>
    BY <1>1, <1>3 DEF Becomes
  <2> HIDE DEF dense
  <2>5. /\ r.stage = "sparse" /\ r.dense = dense /\ r.sparse = request[q].sparse
        /\ r.process = request[q].process /\ r.scope = request[q].scope
    BY <2>1 DEF RequestType
  <2>6. r \in RequestType
    BY <2>1, <2>3 DEF RequestType, Stages
  <2> HIDE DEF r
  <2>7. Grounded(r)
    BY <2>1, <2>3, <2>5 DEF Grounded, CitableBy
  <2> QED BY <2>4, <2>6, <2>7, RequestGoesOn
<1> QED BY <1>2, <1>3

LEMMA SparseKeeps ==
    ASSUME IndexInv, HitsInv, NEW q \in Requests, SparseReturns(q)
    PROVE  HitsInv'
<1> DEFINE corpus == task[request[q].process].corpus
<1>1. PICK found \in SparseHits(corpus) :
          IF request[q].terms /\ ToSet(found) \subseteq Known(request[q].process)
          THEN Becomes(q, [request[q] EXCEPT !.stage = "fuse",
                                             !.sparse = InScope(found, request[q].scope)])
          ELSE Raise(q)
  BY DEF SparseReturns
<1>2. CASE ~(request[q].terms /\ ToSet(found) \subseteq Known(request[q].process))
  BY <1>1, <1>2, RaiseKeeps
<1>3. CASE request[q].terms /\ ToSet(found) \subseteq Known(request[q].process)
  <2> DEFINE sparse == InScope(found, request[q].scope)
  <2> DEFINE r == [request[q] EXCEPT !.stage = "fuse", !.sparse = sparse]
  <2>1. request[q] \in RequestType /\ Grounded(request[q]) /\ request[q].stage \in Stages
    BY DEF HitsInv, SparseReturns, Stages
  <2>2. corpus \subseteq Chunks
    BY <2>1, CorporaAreChunks DEF RequestType
  <2>3. sparse \in Rankings(Chunks, SourceTopK) /\ ToSet(sparse) \subseteq CitableBy(request[q])
    BY <1>3, <2>1, <2>2, ScopedHits DEF SparseHits
  <2>4. request' = [request EXCEPT ![q] = r] /\ UNCHANGED <<collection, task>>
    BY <1>1, <1>3 DEF Becomes
  <2> HIDE DEF sparse
  <2>5. /\ r.stage = "fuse" /\ r.sparse = sparse /\ r.dense = request[q].dense
        /\ r.process = request[q].process /\ r.scope = request[q].scope
    BY <2>1 DEF RequestType
  <2>6. r \in RequestType
    BY <2>1, <2>3 DEF RequestType, Stages
  <2> HIDE DEF r
  <2>7. Grounded(r)
    BY <2>1, <2>3, <2>5 DEF Grounded, CitableBy
  <2> QED BY <2>4, <2>6, <2>7, RequestGoesOn
<1> QED BY <1>2, <1>3

LEMMA FuseKeeps ==
    ASSUME HitsInv, NEW q \in Requests, FuseReturns(q)
    PROVE  HitsInv'
<1> DEFINE candidates == Take(Fused(request[q].dense, request[q].sparse), CandidateCount)
<1> DEFINE stage == IF candidates = <<>> THEN "expand" ELSE "rerank"
<1>1. \/ Move(q, stage, candidates)
      \/ Raise(q)
  BY DEF FuseReturns
<1>2. request[q] \in RequestType /\ Grounded(request[q]) /\ Running(q)
  BY DEF HitsInv, FuseReturns, Running, Stages
<1>3. request[q].dense \in Rankings(Chunks, SourceTopK) /\ request[q].sparse \in Rankings(Chunks, SourceTopK)
  BY <1>2 DEF RequestType
<1>4. /\ candidates \in Seq(Nat) /\ IsInjective(candidates) /\ Len(candidates) <= RrfTopK
      /\ ToSet(candidates) \subseteq ToSet(request[q].dense) \cup ToSet(request[q].sparse)
  BY <1>3, CandidatesAreFound
<1> HIDE DEF candidates
<1>5. ToSet(candidates) \subseteq CitableBy(request[q])
  BY <1>2, <1>4 DEF Grounded, Running
<1>6. stage \in {"expand", "rerank"}
  OBVIOUS
<1> HIDE DEF stage
<1>7. ASSUME Move(q, stage, candidates) PROVE HitsInv'
  <2>1. stage \in Stages /\ stage # "build"
    BY <1>6 DEF Stages
  <2> QED BY <1>2, <1>4, <1>5, <1>7, <2>1, MovedRequest
<1> QED BY <1>1, <1>7, RaiseKeeps

LEMMA RerankKeeps ==
    ASSUME HitsInv, NEW q \in Requests, RerankReturns(q)
    PROVE  HitsInv'
<1>1. PICK ranked \in Reranked(request[q].hits) : Move(q, "expand", ranked) \/ Raise(q)
  BY DEF RerankReturns
<1>2. request[q] \in RequestType /\ Grounded(request[q]) /\ Running(q) /\ request[q].stage = "rerank"
  BY DEF HitsInv, RerankReturns, Running, Stages
<1>3. request[q].hits \in Seq(Nat) /\ RrfTopK \in Nat /\ RerankTopK \in Nat /\ RerankTopK <= RrfTopK
  BY <1>2, LimitsAssumption DEF RequestType
<1>4. /\ ranked \in Seq(Nat) /\ IsInjective(ranked) /\ Len(ranked) <= RerankTopK
      /\ ToSet(ranked) \subseteq ToSet(request[q].hits)
  BY <1>3, RerankingKeeps
<1>5. ToSet(ranked) \subseteq CitableBy(request[q])
  BY <1>2, <1>4 DEF Grounded, Running
<1>6. Len(ranked) <= RrfTopK
  BY <1>3, <1>4
<1>7. ASSUME Move(q, "expand", ranked) PROVE HitsInv'
  <2>1. "expand" \in Stages
    BY DEF Stages
  <2> QED BY <1>2, <1>4, <1>5, <1>6, <1>7, <2>1, MovedRequest
<1> QED BY <1>1, <1>7, RaiseKeeps

LEMMA ExpandKeeps ==
    ASSUME IndexInv, HitsInv, NEW q \in Requests, ExpandReturns(q)
    PROVE  HitsInv'
<1> DEFINE hits == request[q].hits
<1> DEFINE parents == Take(Parents(hits), ParentTopK)
<1>1. /\ request[q] \in RequestType /\ Grounded(request[q]) /\ Running(q)
      /\ request[q].stage = "expand" /\ Move(q, "build", parents)
  BY DEF HitsInv, ExpandReturns, Running, Stages
<1>2. ToSet(hits) \subseteq CitableBy(request[q])
  BY <1>1 DEF Grounded, Running
<1>3. CitableBy(request[q]) \subseteq Chunks
  BY <1>1, CorporaAreChunks DEF CitableBy, RequestType
<1>4. hits \in Seq(Chunks)
  <2>1. hits \in Seq(Nat) /\ \A i \in DOMAIN hits : hits[i] \in Chunks
    BY <1>1, <1>2, <1>3 DEF RequestType, ToSet
  <2>2. Len(hits) \in Nat /\ DOMAIN hits = 1 .. Len(hits) /\ hits \in [1 .. Len(hits) -> Nat]
    BY <2>1
  <2> HIDE DEF hits
  <2>3. hits \in [1 .. Len(hits) -> Chunks]
    BY <2>1, <2>2
  <2> QED BY <2>2, <2>3
<1> HIDE DEF hits
<1>5. /\ Parents(hits) \in Seq(Nat) /\ IsInjective(Parents(hits))
      /\ ToSet(Parents(hits)) \subseteq {ParentOf[c] : c \in ToSet(hits)}
  BY <1>4, ParentsAreOnce
<1>6. ParentTopK \in Nat /\ ParentTopK <= RrfTopK
  BY LimitsAssumption
<1>7. /\ parents \in Seq(Nat) /\ IsInjective(parents) /\ Len(parents) <= ParentTopK
      /\ ToSet(parents) \subseteq ToSet(Parents(hits))
  BY <1>5, <1>6, TakingPrefixes
<1> HIDE DEF parents
<1>8. Len(parents) <= RrfTopK
  <2>1. Len(parents) \in Nat /\ RrfTopK \in Nat
    BY <1>7, LimitsAssumption
  <2> QED BY <1>6, <1>7, <2>1
<1>9. ToSet(parents) \subseteq ParentsOf(CitableBy(request[q]))
  BY <1>2, <1>5, <1>7 DEF ParentsOf
<1>10. "build" \in Stages
  BY DEF Stages
<1> QED BY <1>1, <1>7, <1>8, <1>9, <1>10, MovedRequest

LEMMA BuildKeeps ==
    ASSUME HitsInv, NEW q \in Requests, BuildReturns(q)
    PROVE  HitsInv'
<1> DEFINE hits == request[q].hits
<1>1. PICK n \in 0 .. EvidenceCount : Move(q, "answered", Take(hits, n))
  BY DEF BuildReturns, EvidenceOf
<1>2. request[q] \in RequestType /\ Running(q)
  BY DEF HitsInv, BuildReturns, Running, Stages
<1>3. hits \in Seq(Nat) /\ IsInjective(hits) /\ Len(hits) <= RrfTopK
  BY <1>2 DEF RequestType
<1> HIDE DEF hits
<1> DEFINE evidence == Take(hits, n)
<1>4. evidence \in Seq(Nat) /\ IsInjective(evidence) /\ Len(evidence) <= Len(hits)
  <2>1. n \in Nat
    BY LimitsAssumption
  <2> QED BY <1>3, <2>1, TakingPrefixes
<1> HIDE DEF evidence
<1>5. Len(evidence) <= RrfTopK
  <2>1. Len(evidence) \in Nat /\ Len(hits) \in Nat /\ RrfTopK \in Nat
    BY <1>3, <1>4, LimitsAssumption
  <2> QED BY <1>3, <1>4, <2>1
<1>6. Move(q, "answered", evidence)
  BY <1>1 DEF evidence
<1> QED BY <1>2, <1>4, <1>5, <1>6, MovedRequest

LEMMA EmbeddedKeeps ==
    ASSUME HitsInv, NEW q \in Requests, Embedded(q)
    PROVE  HitsInv'
<1>1. Move(q, "search", <<>>) \/ Raise(q)
  BY DEF Embedded
<1>2. Running(q) /\ "search" \in Stages
  BY DEF Embedded, Running, Stages
<1>3. <<>> \in Seq(Nat) /\ IsInjective(<<>>) /\ Len(<<>>) <= RrfTopK
  BY LimitsAssumption DEF IsInjective
<1>4. ASSUME Move(q, "search", <<>>) PROVE HitsInv'
  BY <1>2, <1>3, <1>4, MovedRequest
<1> QED BY <1>1, <1>4, RaiseKeeps

LEMMA RetrievalsStayGrounded ==
    ASSUME IndexInv, HitsInv, NEW q \in Requests, RetrievalStep(q)
    PROVE  HitsInv'
<1>1. CASE RetrievalFails(q)
  BY <1>1, EndedRequest DEF RetrievalFails
<1> QED
  BY <1>1, RetrieveKeeps, EmbeddedKeeps, DenseKeeps, SparseKeeps, FuseKeeps, RerankKeeps,
     ExpandKeeps, BuildKeeps
  DEF RetrievalStep

-----------------------------------------------------------------------------
(* One step of a process: requests see a collection that only grows, and   *)
(* their processes keep their corpus, since a process with a running       *)
(* request begins no new runtime.                                          *)
LEMMA ProcessesKeepRequests ==
    ASSUME IndexInv, HitsInv, NEW p \in Processes, RuntimeStep(p)
    PROVE  HitsInv'
<1>1. Grows
  BY RuntimeSteps
<1>2. /\ \A q \in Requests : request'[q] = request[q] \/ request'[q] = NoRequest(p)
      /\ request' \in [Requests -> RequestType]
  <2>1. CASE Crash(p)
    BY <2>1, NoRequestIsTyped DEF Crash, HitsInv
  <2>2. CASE ~Crash(p)
    <3>1. request' = request
      BY <2>2 DEF RuntimeStep, Begin, Proceed, CheckExists, Validate, CreateCollection,
                  CreateIndex, Upsert, ListRecords, StartFails, Close, StoreCloses
    <3> QED BY <3>1 DEF HitsInv
  <2> QED BY <2>1, <2>2
<1>3. \A q \in Requests : Running(q) => task'[request[q].process] = task[request[q].process]
  <2>1. CASE Begin(p)
    BY <2>1 DEF Begin, HitsInv, RequestType, IndexInv, IndexIsTyped
  <2>2. CASE ~Begin(p)
    <3>1. task' = task
      BY <2>2 DEF RuntimeStep, Proceed, CheckExists, Validate, CreateCollection,
                  CreateIndex, Upsert, ListRecords, StartFails, Close, StoreCloses, Crash
    <3> QED BY <3>1
  <2> QED BY <2>1, <2>2
<1>4. ASSUME NEW q \in Requests PROVE Grounded(request[q])'
  <2>1. CASE request'[q] = NoRequest(p)
    BY <2>1 DEF NoRequest, Grounded, Stages
  <2>2. CASE request'[q] = request[q]
    <3>1. CASE ~Running(q)
      BY <2>2, <3>1 DEF Grounded, Running
    <3>2. CASE Running(q)
      <4>1. Grounded(request[q]) /\ task'[request[q].process] = task[request[q].process]
        BY <1>3, <3>2 DEF HitsInv
      <4> QED BY <1>1, <2>2, <4>1 DEF Grounded, Grows, CitableBy
    <3> QED BY <3>1, <3>2
  <2> QED BY <1>2, <2>1, <2>2
<1> QED BY <1>2, <1>4 DEF HitsInv

LEMMA HitsInvHolds == Spec => []HitsInv
<1>1. IndexInv /\ HitsInv /\ [Next]_vars => HitsInv'
  <2>1. CASE UNCHANGED vars
    BY <2>1 DEF vars, HitsInv, Grounded, CitableBy
  <2> QED BY <2>1, RetrievalsStayGrounded, ProcessesKeepRequests DEF Next
<1> QED BY <1>1, InitHasNoHits, IndexInvHolds, PTL DEF Spec

-----------------------------------------------------------------------------
(* What a retrieval ranks, and cites, is of the corpus its process has     *)
(* verified, in the collection, and in the scope of the request: each      *)
(* source is filtered and checked when it returns, the ranking stages only *)
(* drop and reorder, the collection only grows, and the process begins no  *)
(* other corpus while the request runs.                                    *)
THEOREM EvidenceIsOfTheCorpus == Spec => []EvidenceIsVerified
<1>1. HitsInv => EvidenceIsVerified
  <2> SUFFICES ASSUME HitsInv, NEW q \in Requests
               PROVE  LET r == request[q]
                          citable == {c \in task[r.process].corpus \cap collection.records :
                                         DocumentOf[c] \in r.scope}
                      IN  /\ r.stage \in {"rerank", "expand"} => ToSet(r.hits) \subseteq citable
                          /\ r.stage = "build" =>
                                ToSet(r.hits) \subseteq {ParentOf[c] : c \in citable}
    BY DEF EvidenceIsVerified
  <2>1. Grounded(request[q])
    BY DEF HitsInv
  <2>2. CASE request[q].stage \notin {"rerank", "expand", "build"}
    BY <2>2
  <2>3. CASE request[q].stage \in {"rerank", "expand", "build"}
    <3>1. CitableBy(request[q]) =
              {c \in task[request[q].process].corpus \cap collection.records :
                  DocumentOf[c] \in request[q].scope}
      BY <2>1, <2>3 DEF Grounded, Stages, CitableBy
    <3> QED BY <2>1, <2>3, <3>1 DEF Grounded, Stages, ParentsOf
  <2> QED BY <2>2, <2>3
<1> QED BY <1>1, HitsInvHolds, PTL

(* A hit that every source ranks better than another comes before it in    *)
(* the fusion, for any weights of the ranks, lengths of the rankings and   *)
(* limits: its score is a sum of larger fractions, and its keys decide     *)
(* between equal ones the same way.                                        *)
THEOREM DominatingHitsRankTheirWay == Spec => []DominatingHitsRankFirst
<1>1. ASSUME HitsInv, NEW q \in Requests
      PROVE  request[q].dense \in Seq(Chunks) /\ request[q].sparse \in Seq(Chunks)
  <2>1. /\ request[q].dense \in Rankings(Chunks, SourceTopK)
        /\ request[q].sparse \in Rankings(Chunks, SourceTopK)
    BY <1>1 DEF HitsInv, RequestType
  <2> QED BY <2>1, RankingsAreInjective, ChunksAssumption, LimitsAssumption
<1>2. HitsInv => DominatingHitsRankFirst
  BY <1>1, FusionRespectsSources DEF DominatingHitsRankFirst
<1> QED BY <1>2, HitsInvHolds, PTL

(* Every ranking and every list of evidence names a child, or a parent,    *)
(* once, and is within its limit.                                          *)
THEOREM RetrievalsAreTyped == Spec => []TypeOK
<1> DEFINE Bounded == faults \in 0 .. MaxFaults
<1>1. Init => Bounded
  BY LimitsAssumption DEF Init
<1>2. Bounded /\ [Next]_vars => Bounded'
  <2> SUFFICES ASSUME Bounded, [Next]_vars PROVE Bounded'
    OBVIOUS
  <2>1. faults' = faults \/ Fault
    <3>1. ASSUME NEW p \in Processes, RuntimeStep(p) PROVE faults' = faults \/ Fault
      BY <3>1 DEF RuntimeStep, Begin, Proceed, CheckExists, Validate, CreateCollection,
                  CreateIndex, Upsert, ListRecords, StartFails, Close, StoreCloses, Crash
    <3>2. ASSUME NEW q \in Requests, RetrievalStep(q) PROVE faults' = faults \/ Fault
      BY <3>2 DEF RetrievalStep, Retrieve, Embedded, DenseReturns, SparseReturns, FuseReturns,
                  RerankReturns, ExpandReturns, BuildReturns, RetrievalFails, Move, Raise, Becomes
    <3> QED BY <3>1, <3>2 DEF Next, vars
  <2>2. CASE faults' = faults
    BY <2>2
  <2>3. CASE Fault
    BY <2>3, LimitsAssumption DEF Fault
  <2> QED BY <2>1, <2>2, <2>3
<1>3. IndexInv /\ HitsInv /\ Bounded => TypeOK
  <2> SUFFICES ASSUME IndexInv, HitsInv, Bounded PROVE TypeOK
    OBVIOUS
  <2>1. UNION Corpora \subseteq Chunks
    BY ChunksAssumption
  <2>2. /\ collection \in [exists : BOOLEAN, indexed : BOOLEAN, records : SUBSET Chunks]
        /\ at \in [Processes -> Startup \cup {"stopped", "ready", "closing"}]
        /\ task \in [Processes -> [corpus : Corpora, ingests : BOOLEAN]]
    BY <2>1 DEF IndexInv, IndexIsTyped
  <2>3. \A q \in Requests : request[q] \in RequestType
    BY DEF HitsInv
  <2> QED BY <2>2, <2>3 DEF TypeOK, RequestType
<1> HIDE DEF Bounded
<1> QED BY <1>1, <1>2, <1>3, IndexInvHolds, HitsInvHolds, PTL DEF Spec

(* While a process serves, everything that its requests found, or find in  *)
(* a collection that holds nothing foreign, is of the corpus they look it  *)
(* up in: a retrieval raises in its fusion, for a reason in its query, or  *)
(* not at all.                                                             *)
LEMMA HealthySteps ==
    ASSUME IndexInv, HitsInv, NEW q \in Requests, RetrievalStep(q), Running(q), faults' = faults,
           at[request[q].process] = "ready",
           collection.records \subseteq task[request[q].process].corpus,
           request[q].terms,
           ~(request[q].scope = Unscoped /\ request[q].dense = <<>> /\ request[q].sparse = <<>>)
    PROVE  request'[q].stage # "failed"
<1> DEFINE corpus == task[request[q].process].corpus
<1>1. request[q] \in RequestType /\ Grounded(request[q]) /\ q \in DOMAIN request
  BY DEF HitsInv
<1>2. Known(request[q].process) = corpus /\ CitableBy(request[q]) \subseteq corpus
  BY DEF Known, CitableBy
<1>3. ASSUME NEW S, S \subseteq corpus, S \subseteq Chunks, NEW found \in Rankings(S, SourceTopK)
      PROVE  ToSet(found) \subseteq corpus
  <2>1. IsFiniteSet(S) /\ SourceTopK \in Nat
    BY <1>3, FS_Subset, ChunksAssumption, LimitsAssumption
  <2>2. found \in Seq(S)
    BY <2>1, RankingsAreInjective
  <2> QED BY <1>3, <2>2 DEF ToSet
<1>4. corpus \subseteq Chunks /\ collection.records \subseteq Chunks
  BY <1>1, CorporaAreChunks DEF RequestType
<1>5. ASSUME NEW stage \in Stages \cup {"answered"}, NEW hits, Move(q, stage, hits)
      PROVE  request'[q].stage # "failed"
  <2>1. request'[q].stage = stage
    BY <1>1, <1>5 DEF Move, Becomes, RequestType
  <2> QED BY <2>1 DEF Stages
<1>6. CASE Retrieve(q)
  BY <1>6 DEF Retrieve
<1>7. CASE Embedded(q)
  BY <1>5, <1>7 DEF Embedded, StoreOpen, Stages
<1>8. CASE DenseReturns(q)
  <2>1. PICK found \in DenseHits :
            ToSet(found) \subseteq corpus =>
                Becomes(q, [request[q] EXCEPT !.stage = "sparse",
                                              !.dense = InScope(found, request[q].scope)])
    BY <1>2, <1>8 DEF DenseReturns
  <2>2. ToSet(found) \subseteq corpus
    BY <1>3, <1>4 DEF DenseHits
  <2> QED BY <1>1, <2>1, <2>2 DEF Becomes, RequestType
<1>9. CASE SparseReturns(q)
  <2>1. PICK found \in SparseHits(corpus) :
            ToSet(found) \subseteq corpus =>
                Becomes(q, [request[q] EXCEPT !.stage = "fuse",
                                              !.sparse = InScope(found, request[q].scope)])
    BY <1>2, <1>9 DEF SparseReturns
  <2>2. ToSet(found) \subseteq corpus
    BY <1>3, <1>4 DEF SparseHits
  <2> QED BY <1>1, <2>1, <2>2 DEF Becomes, RequestType
<1>10. CASE FuseReturns(q)
  <2> DEFINE candidates == Take(Fused(request[q].dense, request[q].sparse), CandidateCount)
  <2>1. ToSet(candidates) \subseteq ToSet(request[q].dense) \cup ToSet(request[q].sparse)
    BY <1>1, CandidatesAreFound DEF RequestType
  <2>2. Fusible(q)
    BY DEF Fusible
  <2>3. (Fusible(q) /\ ToSet(candidates) \subseteq corpus) =>
            \/ Move(q, "expand", candidates)
            \/ Move(q, "rerank", candidates)
    BY <1>2, <1>10 DEF FuseReturns
  <2> HIDE DEF candidates
  <2>4. ToSet(candidates) \subseteq corpus
    BY <1>1, <1>2, <2>1 DEF Grounded, Running
  <2> QED BY <1>5, <2>2, <2>3, <2>4 DEF Stages
<1>11. CASE RerankReturns(q)
  <2>1. PICK ranked \in Reranked(request[q].hits) :
            ToSet(ranked) \subseteq corpus => Move(q, "expand", ranked)
    BY <1>2, <1>11 DEF RerankReturns
  <2>2. ToSet(ranked) \subseteq ToSet(request[q].hits)
    BY <1>1, RerankingKeeps DEF RequestType
  <2>3. ToSet(request[q].hits) \subseteq CitableBy(request[q])
    BY <1>1, <1>11 DEF Grounded, RerankReturns, Stages
  <2> QED BY <1>2, <1>5, <2>1, <2>2, <2>3 DEF Stages
<1>12. CASE ExpandReturns(q) \/ BuildReturns(q)
  BY <1>5, <1>12 DEF ExpandReturns, BuildReturns, Stages
<1>13. CASE RetrievalFails(q)
  BY <1>13 DEF RetrievalFails, Fault, IndexInv, IndexIsTyped
<1> QED
  BY <1>6, <1>7, <1>8, <1>9, <1>10, <1>11, <1>12, <1>13 DEF RetrievalStep

(* Without a fault a retrieval of an open process raises only for foreign  *)
(* ids in the collection or for its query.                                 *)
THEOREM HealthyOnesAnswer == Spec => HealthyRetrievalsAnswer
<1>1. ASSUME IndexInv, HitsInv, [Next]_vars, NEW q \in Requests, Running(q),
             request'[q].stage = "failed", faults' = faults
      PROVE  LET p == request[q].process IN
             \/ at[p] # "ready"
             \/ ~(collection.records \subseteq task[p].corpus)
             \/ ~request[q].terms
             \/ request[q].scope = Unscoped /\ request[q].dense = <<>> /\ request[q].sparse = <<>>
  <2>1. request[q].stage \in Stages /\ "failed" \notin Stages /\ request'[q] # request[q]
    BY <1>1 DEF Running, Stages
  <2>2. RetrievalStep(q)
    <3>1. ASSUME NEW p \in Processes, RuntimeStep(p) PROVE FALSE
      <4>1. request'[q] = request[q] \/ request'[q] = NoRequest(p)
        BY <3>1 DEF RuntimeStep, Begin, Proceed, CheckExists, Validate, CreateCollection,
                    CreateIndex, Upsert, ListRecords, StartFails, Close, StoreCloses, Crash
      <4> QED BY <1>1, <2>1, <4>1 DEF NoRequest
    <3>2. ASSUME NEW other \in Requests \ {q}, RetrievalStep(other) PROVE FALSE
      <4>1. \E r : request' = [request EXCEPT ![other] = r]
        BY <3>2 DEF RetrievalStep, Retrieve, Embedded, DenseReturns, SparseReturns, FuseReturns,
                    RerankReturns, ExpandReturns, BuildReturns, RetrievalFails, Move, Raise, Becomes
      <4> QED BY <1>1, <2>1, <4>1 DEF HitsInv
    <3>3. request' # request
      BY <2>1
    <3> QED BY <1>1, <3>1, <3>2, <3>3 DEF Next, vars
  <2> QED BY <1>1, <2>2, HealthySteps
<1>2. IndexInv /\ HitsInv /\ [Next]_vars =>
        [\A q \in Requests :
            (Running(q) /\ request'[q].stage = "failed" /\ faults' = faults) =>
                LET p == request[q].process IN
                \/ at[p] # "ready"
                \/ ~(collection.records \subseteq task[p].corpus)
                \/ ~request[q].terms
                \/ /\ request[q].scope = Unscoped
                   /\ request[q].dense = <<>> /\ request[q].sparse = <<>>]_vars
  BY <1>1
<1> QED BY <1>2, IndexInvHolds, HitsInvHolds, PTL DEF Spec, HealthyRetrievalsAnswer

-----------------------------------------------------------------------------
(* Sequences cut from others.                                              *)

(* Where the elements of f, the good ones of the first n of s, stood in s. *)
Places(f, s, n, good, place) ==
    /\ place \in [1 .. Len(f) -> 1 .. n]
    /\ \A i \in 1 .. Len(f) : f[i] = s[place[i]]
    /\ \A i, j \in 1 .. Len(f) : i < j => place[i] < place[j]
    /\ \A c \in 1 .. n : s[c] \in good <=> \E i \in 1 .. Len(f) : place[i] = c

(* Filtered keeps the order, and all that is good.                         *)
LEMMA FilteringPlaces ==
    ASSUME NEW T, NEW s \in Seq(T), NEW good
    PROVE  \E place : Places(Filtered(s, good), s, Len(s), good, place)
<1>1. PICK kept \in [0 .. Len(s) -> Seq(T)] :
              /\ Filtered(s, good) = kept[Len(s)]
              /\ kept[0] = <<>>
              /\ \A i \in 1 .. Len(s) :
                    kept[i] = IF s[i] \in good THEN Append(kept[i - 1], s[i]) ELSE kept[i - 1]
  BY FilteringRecurs
<1> DEFINE Holds(n) == \E place : Places(kept[n], s, n, good, place)
<1> DEFINE S == {n \in Nat : n <= Len(s) => Holds(n)}
<1>2. 0 \in S
  <2>1. Len(<<>>) = 0 /\ 1 .. 0 = {}
    OBVIOUS
  <2>2. Places(<<>>, s, 0, good, [i \in 1 .. 0 |-> 0])
    BY <2>1 DEF Places
  <2> QED BY <1>1, <2>2
<1>3. ASSUME NEW n \in Nat, n \in S PROVE n + 1 \in S
  <2> SUFFICES ASSUME n + 1 <= Len(s) PROVE Holds(n + 1)
    OBVIOUS
  <2>1. n + 1 \in 1 .. Len(s) /\ (n + 1) - 1 = n /\ n \in 0 .. Len(s) /\ n <= Len(s)
    OBVIOUS
  <2> DEFINE k == kept[n]
  <2> DEFINE m == Len(k)
  <2>2. k \in Seq(T) /\ m \in Nat
    BY <2>1
  <2>3. PICK place : Places(k, s, n, good, place)
    BY <1>3, <2>1
  <2>4. CASE s[n + 1] \in good
    <3> DEFINE more == Append(k, s[n + 1])
    <3> DEFINE wider == [i \in 1 .. m + 1 |-> IF i = m + 1 THEN n + 1 ELSE place[i]]
    <3>1. kept[n + 1] = more
      BY <1>1, <2>1, <2>4
    <3>2. Len(more) = m + 1 /\ more[m + 1] = s[n + 1] /\ \A i \in 1 .. m : more[i] = k[i]
      BY <2>1, <2>2
    <3> HIDE DEF more, k
    <3>3. \A i \in 1 .. m : place[i] \in 1 .. n /\ k[i] = s[place[i]]
      BY <2>3 DEF Places
    <3>4. \A i \in 1 .. m + 1 : i # m + 1 => i \in 1 .. m
      BY <2>2
    <3>5. wider \in [1 .. m + 1 -> 1 .. n + 1]
      BY <2>2, <3>3, <3>4
    <3>6. \A i \in 1 .. m + 1 : more[i] = s[wider[i]]
      BY <3>2, <3>3, <3>4
    <3>7. \A i, j \in 1 .. m + 1 : i < j => wider[i] < wider[j]
      <4> SUFFICES ASSUME NEW i \in 1 .. m + 1, NEW j \in 1 .. m + 1, i < j
                   PROVE  wider[i] < wider[j]
        OBVIOUS
      <4>1. i \in 1 .. m /\ wider[i] = place[i] /\ place[i] \in 1 .. n
        BY <2>2, <3>3
      <4>2. CASE j = m + 1
        BY <4>1, <4>2
      <4>3. CASE j # m + 1
        <5>1. j \in 1 .. m /\ wider[j] = place[j]
          BY <3>4, <4>3
        <5> QED BY <2>3, <4>1, <5>1 DEF Places
      <4> QED BY <4>2, <4>3
    <3>8. \A c \in 1 .. n + 1 : s[c] \in good <=> \E i \in 1 .. m + 1 : wider[i] = c
      <4> SUFFICES ASSUME NEW c \in 1 .. n + 1
                   PROVE  s[c] \in good <=> \E i \in 1 .. m + 1 : wider[i] = c
        OBVIOUS
      <4>1. CASE c = n + 1
        <5>1. m + 1 \in 1 .. m + 1 /\ wider[m + 1] = c
          BY <2>2, <4>1
        <5> QED BY <2>4, <4>1, <5>1
      <4>2. CASE c # n + 1
        <5>1. c \in 1 .. n
          BY <4>2
        <5>2. s[c] \in good <=> \E i \in 1 .. m : place[i] = c
          BY <2>3, <5>1 DEF Places
        <5>3. \A i \in 1 .. m : i \in 1 .. m + 1 /\ wider[i] = place[i]
          BY <2>2
        <5>4. \A i \in 1 .. m + 1 : wider[i] = c => i \in 1 .. m
          BY <3>4, <4>2
        <5> HIDE DEF wider
        <5> QED BY <5>2, <5>3, <5>4
      <4> QED BY <4>1, <4>2
    <3> HIDE DEF wider
    <3>9. Places(more, s, n + 1, good, wider)
      BY <3>2, <3>5, <3>6, <3>7, <3>8 DEF Places
    <3> QED BY <3>1, <3>9
  <2>5. CASE s[n + 1] \notin good
    <3>1. kept[n + 1] = k
      BY <1>1, <2>1, <2>5
    <3>2. Places(k, s, n + 1, good, place)
      <4>1. place \in [1 .. m -> 1 .. n + 1]
        BY <2>3 DEF Places
      <4>2. \A i \in 1 .. m : place[i] # n + 1
        BY <2>3 DEF Places
      <4>3. \A c \in 1 .. n + 1 : c = n + 1 \/ c \in 1 .. n
        OBVIOUS
      <4>4. \A c \in 1 .. n + 1 : s[c] \in good <=> \E i \in 1 .. m : place[i] = c
        BY <2>3, <2>5, <4>2, <4>3 DEF Places
      <4> QED BY <2>3, <4>1, <4>4 DEF Places
    <3> QED BY <3>1, <3>2
  <2> QED BY <2>4, <2>5
<1>4. Nat \subseteq S
  <2> HIDE DEF S
  <2> QED BY <1>2, <1>3, NatsAreReached
<1>5. Len(s) \in S
  BY <1>4
<1> QED BY <1>1, <1>5

-----------------------------------------------------------------------------
(* Spans one after the other.                                              *)

Spans == [start : Nat, end : Nat]

Apart(s) == \A i, j \in 1 .. Len(s) : i < j => s[i].end <= s[j].start

LEMMA Onward ==
    ASSUME NEW w \in Nat, NEW x \in Nat, NEW y \in Nat, NEW z \in Nat, w <= x, x < y, y <= z
    PROVE  w <= z
OBVIOUS

LEMMA StandsBefore ==
    ASSUME NEW x \in Nat, NEW y \in Nat, NEW z \in Nat, x <= y, y < z
    PROVE  x < z
OBVIOUS

(* A window that is moved: its size, and what is in it.                    *)
LEMMA MovedBy ==
    ASSUME NEW a \in Nat, NEW b \in Nat, NEW c \in Nat
    PROVE  /\ a < b => a + c < b + c
           /\ \A n \in Nat : b <= a + n => (b + c) - (a + c) <= n
OBVIOUS

LEMMA MovedAlong ==
    ASSUME NEW a \in Nat, NEW b \in Nat, NEW c \in Nat, NEW o \in Nat, a <= o, o < b,
           NEW p, p = o + c + 1
    PROVE  a + c < p /\ p <= b + c
OBVIOUS

(* Spans that share a text out: the first starts where it does, the last   *)
(* ends where it does, and each starts where the one before ended.         *)
Tiles(s, from, to) ==
    /\ s \in Seq(Spans) /\ Len(s) > 0
    /\ s[1].start = from /\ s[Len(s)].end = to
    /\ \A i \in 1 .. Len(s) : s[i].start < s[i].end
    /\ \A i \in 1 .. Len(s) - 1 : s[i].end = s[i + 1].start

(* They are apart, within the text, and leave nothing out.                 *)
LEMMA TilesShareOut ==
    ASSUME NEW s, NEW from, NEW to, Tiles(s, from, to)
    PROVE  /\ Apart(s)
           /\ from \in Nat /\ to \in Nat /\ from < to
           /\ \A i \in 1 .. Len(s) : from <= s[i].start /\ s[i].end <= to
           /\ \A p \in Nat : from <= p /\ p < to =>
                 \E i \in 1 .. Len(s) : s[i].start <= p /\ p < s[i].end
<1>0. /\ s \in Seq(Spans) /\ Len(s) \in Nat
      /\ \A r \in Spans : r.start \in Nat /\ r.end \in Nat
  BY DEF Tiles, Spans
<1>1. /\ Len(s) \in Nat /\ Len(s) > 0
      /\ \A i \in 1 .. Len(s) : /\ s[i].start \in Nat /\ s[i].end \in Nat
                                /\ s[i].start < s[i].end
      /\ \A i \in 1 .. Len(s) - 1 : s[i].end = s[i + 1].start
      /\ s[1].start = from /\ s[Len(s)].end = to
  <2>1. \A i \in 1 .. Len(s) : s[i] \in Spans
    BY <1>0
  <2> QED BY <1>0, <2>1 DEF Tiles
<1> DEFINE Before(j) ==
        /\ \A i \in 1 .. j : i < j => s[i].end <= s[j].start
        /\ \A p \in Nat : from <= p /\ p < s[j].end =>
              \E i \in 1 .. j : s[i].start <= p /\ p < s[i].end
<1> DEFINE S == {j \in Nat : j \in 1 .. Len(s) => Before(j)}
<1>2. 0 \in S
  OBVIOUS
<1>3. ASSUME NEW j \in Nat, j \in S PROVE j + 1 \in S
  <2> HIDE DEF Before
  <2> SUFFICES ASSUME j + 1 \in 1 .. Len(s) PROVE Before(j + 1)
    OBVIOUS
  <2> USE DEF Before
  <2>1. CASE j = 0
    BY <1>1, <2>1
  <2>2. CASE j # 0
    <3>1. j \in 1 .. Len(s) - 1 /\ j \in 1 .. Len(s)
      BY <1>1, <2>2
    <3>2. Before(j)
      BY <1>3, <3>1
    <3>3. s[j].end = s[j + 1].start /\ s[j].start < s[j].end
      BY <1>1, <3>1
    <3>4. \A i \in 1 .. j + 1 : i < j + 1 => s[i].end <= s[j + 1].start
      <4> SUFFICES ASSUME NEW i \in 1 .. j + 1, i < j + 1 PROVE s[i].end <= s[j + 1].start
        OBVIOUS
      <4>1. CASE i = j
        BY <1>1, <3>1, <3>3, <4>1
      <4>2. CASE i # j
        <5>1. i \in 1 .. j /\ i < j /\ i \in 1 .. Len(s)
          BY <3>1, <4>2
        <5>2. s[i].end <= s[j].start
          BY <3>2, <5>1
        <5>3. /\ s[i].end \in Nat /\ s[j].start \in Nat /\ s[j].end \in Nat
              /\ s[j + 1].start = s[j].end
          BY <1>1, <3>1, <3>3, <5>1
        <5> QED BY <3>3, <5>2, <5>3
      <4> QED BY <4>1, <4>2
    <3>5. ASSUME NEW p \in Nat, from <= p, p < s[j + 1].end
          PROVE  \E i \in 1 .. j + 1 : s[i].start <= p /\ p < s[i].end
      <4>1. CASE p < s[j].end
        <5>1. PICK i \in 1 .. j : s[i].start <= p /\ p < s[i].end
          BY <3>2, <3>5, <4>1
        <5> QED BY <5>1
      <4>2. CASE ~(p < s[j].end)
        <5>1. s[j + 1].start <= p
          BY <1>1, <3>1, <3>3, <4>2
        <5> QED BY <3>5, <5>1
      <4> QED BY <4>1, <4>2
    <3> QED BY <3>4, <3>5
  <2> QED BY <2>1, <2>2
<1>4. Nat \subseteq S
  <2> HIDE DEF S
  <2> QED BY <1>2, <1>3, NatsAreReached
<1>5. \A j \in 1 .. Len(s) : Before(j)
  <2> HIDE DEF Before
  <2> QED BY <1>4
<1>6. Apart(s)
  <2> SUFFICES ASSUME NEW i \in 1 .. Len(s), NEW j \in 1 .. Len(s), i < j
               PROVE  s[i].end <= s[j].start
    BY DEF Apart
  <2>1. i \in 1 .. j
    OBVIOUS
  <2> QED BY <1>5, <2>1
<1>7. 1 \in 1 .. Len(s) /\ Len(s) \in 1 .. Len(s)
  BY <1>1
<1>8. \A i \in 1 .. Len(s) : from <= s[i].start /\ s[i].end <= to
  <2> SUFFICES ASSUME NEW i \in 1 .. Len(s) PROVE from <= s[i].start /\ s[i].end <= to
    OBVIOUS
  <2>1. from <= s[i].start
    <3>1. CASE i = 1
      BY <1>1, <3>1
    <3>2. CASE i # 1
      <4>1. s[1].end <= s[i].start
        BY <1>6, <1>7, <3>2 DEF Apart
      <4> QED BY <1>1, <1>7, <4>1
    <3> QED BY <3>1, <3>2
  <2>2. s[i].end <= to
    <3>1. CASE i = Len(s)
      BY <1>1, <3>1
    <3>2. CASE i # Len(s)
      <4>1. s[i].end <= s[Len(s)].start
        BY <1>6, <1>7, <3>2 DEF Apart
      <4> QED BY <1>1, <1>7, <4>1
    <3> QED BY <3>1, <3>2
  <2> QED BY <2>1, <2>2
<1>9. \A p \in Nat : from <= p /\ p < to =>
          \E i \in 1 .. Len(s) : s[i].start <= p /\ p < s[i].end
  <2>1. Before(Len(s))
    BY <1>5, <1>7
  <2> QED BY <1>1, <2>1
<1> QED BY <1>1, <1>6, <1>7, <1>8, <1>9

-----------------------------------------------------------------------------
(* Sequences put together.                                                 *)

LEMMA FlatteningRecurs ==
    ASSUME NEW T, NEW parts \in Seq(Seq(T))
    PROVE  \E flat \in [0 .. Len(parts) -> Seq(T)] :
              /\ FlattenSeq(parts) = flat[Len(parts)]
              /\ flat[0] = <<>>
              /\ \A i \in 1 .. Len(parts) : flat[i] = flat[i - 1] \o parts[i]
<1> DEFINE n == Len(parts)
<1> DEFINE V == Seq(T)
<1>1. n \in Nat /\ <<>> \in V /\ \A i \in 1 .. n : parts[i] \in V
  OBVIOUS
<1>2. \A k \in V : \A i \in 1 .. n : k \o parts[i] \in V /\ <<>> \o parts[i] = parts[i]
  OBVIOUS
<1> DEFINE Step(f) == [i \in 1 .. n |-> IF i = 1 THEN parts[i] ELSE f[i - 1] \o parts[i]]
<1> DEFINE flatten == CHOOSE k : k = Step(k)
<1>3. FlattenSeq(parts) = IF n = 0 THEN parts ELSE flatten[n]
  BY DEF FlattenSeq
<1>4. n = 0 => parts = <<>>
  OBVIOUS
<1> DEFINE step == [i \in 1 .. n |-> [k \in V |-> k \o parts[i]]]
<1> HIDE DEF n, V
<1>5. \E f \in [0 .. n -> V] : GoesBy(f, n, <<>>, step)
  <2>1. step \in [1 .. n -> [V -> V]]
    BY <1>2
  <2> HIDE DEF step
  <2> QED BY <1>1, <2>1, RecursionDefines
<1>6. PICK h \in [0 .. n -> V] : h[0] = <<>> /\ \A i \in 1 .. n : h[i] = step[i][h[i - 1]]
  BY <1>5 DEF GoesBy
<1>7. \A i \in 1 .. n : i - 1 \in 0 .. n /\ h[i - 1] \in V /\ h[i] = h[i - 1] \o parts[i]
  <2> TAKE i \in 1 .. n
  <2>1. i - 1 \in 0 .. n
    BY <1>1
  <2>2. h[i - 1] \in V
    BY <2>1
  <2> QED BY <1>6, <2>1, <2>2
<1> DEFINE f == [i \in 1 .. n |-> h[i]]
<1>8. \A i \in 1 .. n : f[i] = Step(f)[i]
  <2> TAKE i \in 1 .. n
  <2>1. CASE i = 1
    <3>1. i - 1 = 0
      BY <2>1
    <3>2. h[i] = <<>> \o parts[i] /\ <<>> \o parts[i] = parts[i]
      BY <1>1, <1>2, <1>6, <1>7, <3>1
    <3> QED BY <2>1, <3>2
  <2>2. CASE i # 1
    <3>1. i - 1 \in 1 .. n
      BY <1>1, <2>2
    <3> QED BY <1>7, <2>2, <3>1
  <2> QED BY <2>1, <2>2
<1>9. f = Step(f)
  BY <1>8
<1>10. flatten = Step(flatten)
  <2> HIDE DEF Step, f
  <2> QED BY <1>9
<1> HIDE DEF flatten
<1>11. \A i \in 1 .. n : flatten[i] = IF i = 1 THEN parts[i] ELSE flatten[i - 1] \o parts[i]
  BY <1>10
<1> DEFINE flat == [i \in 0 .. n |-> IF i = 0 THEN <<>> ELSE flatten[i]]
<1>12. \A i \in 1 .. n : flat[i] = flat[i - 1] \o parts[i]
  <2> TAKE i \in 1 .. n
  <2>0. i \in 0 .. n /\ i # 0 /\ i - 1 \in 0 .. n
    BY <1>1
  <2>1. CASE i = 1
    <3>1. i - 1 = 0 /\ flat[i - 1] = <<>>
      BY <1>1, <2>1
    <3>2. <<>> \o parts[i] = parts[i]
      BY <1>1, <1>2
    <3> QED BY <1>11, <2>0, <2>1, <3>1, <3>2
  <2>2. CASE i # 1
    <3>1. i - 1 # 0
      BY <1>1, <2>2
    <3> QED BY <1>11, <2>0, <2>2, <3>1
  <2> QED BY <2>1, <2>2
<1>13. flat[0] = <<>> /\ flat[n] = FlattenSeq(parts)
  <2>1. 0 \in 0 .. n /\ n \in 0 .. n
    BY <1>1
  <2>2. flat[0] = <<>> /\ flat[n] = IF n = 0 THEN <<>> ELSE flatten[n]
    BY <2>1
  <2> HIDE DEF flat
  <2> QED BY <1>3, <1>4, <2>2
<1>14. DOMAIN flat = 0 .. n /\ flat = [i \in 0 .. n |-> flat[i]]
  OBVIOUS
<1> HIDE DEF flat
<1> DEFINE R == {i \in Nat : i <= n => flat[i] \in V}
<1>15. 0 \in R
  BY <1>1, <1>13
<1>16. ASSUME NEW i \in Nat, i \in R PROVE i + 1 \in R
  <2> SUFFICES ASSUME i + 1 <= n PROVE flat[i + 1] \in V
    OBVIOUS
  <2>1. i + 1 \in 1 .. n /\ (i + 1) - 1 = i /\ flat[i] \in V
    BY <1>1, <1>16
  <2> QED BY <1>2, <1>12, <2>1
<1>17. Nat \subseteq R
  <2> HIDE DEF R
  <2> QED BY <1>15, <1>16, NatsAreReached
<1>18. flat \in [0 .. n -> V]
  <2>1. \A i \in 0 .. n : flat[i] \in V
    BY <1>1, <1>17
  <2> QED BY <1>14, <2>1
<1> QED BY <1>12, <1>13, <1>18 DEF n, V

(* The elements of f are those of the first n parts, in their order.       *)
Pieces(f, parts, n) ==
    /\ \A i \in 1 .. Len(f) : \E k \in 1 .. n : \E m \in 1 .. Len(parts[k]) : f[i] = parts[k][m]
    /\ \A k \in 1 .. n : \A m \in 1 .. Len(parts[k]) : \E i \in 1 .. Len(f) : f[i] = parts[k][m]
    /\ \A i \in 1 .. Len(f) - 1 :
          \E k, l \in 1 .. n : \E m \in 1 .. Len(parts[k]) : \E j \in 1 .. Len(parts[l]) :
             /\ f[i] = parts[k][m] /\ f[i + 1] = parts[l][j]
             /\ k < l \/ (k = l /\ j = m + 1)

LEMMA PiecesGoOn ==
    ASSUME NEW T, NEW parts \in Seq(Seq(T)), NEW n \in Nat, n + 1 <= Len(parts),
           NEW f \in Seq(T), Pieces(f, parts, n)
    PROVE  Pieces(f \o parts[n + 1], parts, n + 1)
<1> DEFINE p == parts[n + 1]
<1> DEFINE g == f \o p
<1>0. n + 1 \in 1 .. n + 1 /\ \A k \in 1 .. n : k \in 1 .. n + 1 /\ k < n + 1
  OBVIOUS
<1>1. p \in Seq(T) /\ Len(f) \in Nat /\ Len(p) \in Nat
  OBVIOUS
<1>2. /\ Len(g) = Len(f) + Len(p)
      /\ \A i \in 1 .. Len(f) : g[i] = f[i]
      /\ \A m \in 1 .. Len(p) : g[Len(f) + m] = p[m]
  <2> HIDE DEF p
  <2> QED BY <1>1
<1> HIDE DEF g
<1>3. \A i \in 1 .. Len(g) : i \in 1 .. Len(f) \/ \E m \in 1 .. Len(p) : i = Len(f) + m
  <2> HIDE DEF p
  <2> SUFFICES ASSUME NEW i \in 1 .. Len(g), i \notin 1 .. Len(f)
               PROVE  \E m \in 1 .. Len(p) : i = Len(f) + m
    OBVIOUS
  <2>1. i - Len(f) \in 1 .. Len(p) /\ i = Len(f) + (i - Len(f))
    BY <1>1, <1>2
  <2> QED BY <2>1
<1>4. \A i \in 1 .. Len(g) : \E k \in 1 .. n + 1 : \E m \in 1 .. Len(parts[k]) : g[i] = parts[k][m]
  <2> SUFFICES ASSUME NEW i \in 1 .. Len(g)
               PROVE  \E k \in 1 .. n + 1 : \E m \in 1 .. Len(parts[k]) : g[i] = parts[k][m]
    OBVIOUS
  <2>1. CASE i \in 1 .. Len(f)
    <3>1. PICK k \in 1 .. n : \E m \in 1 .. Len(parts[k]) : f[i] = parts[k][m]
      BY <2>1 DEF Pieces
    <3> QED BY <1>0, <1>2, <2>1, <3>1
  <2>2. CASE \E m \in 1 .. Len(p) : i = Len(f) + m
    <3>1. PICK m \in 1 .. Len(p) : i = Len(f) + m
      BY <2>2
    <3> QED BY <1>0, <1>2, <3>1
  <2> QED BY <1>3, <2>1, <2>2
<1>5. \A k \in 1 .. n + 1 : \A m \in 1 .. Len(parts[k]) : \E i \in 1 .. Len(g) : g[i] = parts[k][m]
  <2> SUFFICES ASSUME NEW k \in 1 .. n + 1, NEW m \in 1 .. Len(parts[k])
               PROVE  \E i \in 1 .. Len(g) : g[i] = parts[k][m]
    OBVIOUS
  <2>1. CASE k = n + 1
    <3>1. m \in 1 .. Len(p) /\ g[Len(f) + m] = p[m]
      BY <1>2, <2>1
    <3>2. Len(f) + m \in 1 .. Len(g)
      BY <1>1, <1>2, <3>1
    <3> QED BY <2>1, <3>1, <3>2
  <2>2. CASE k # n + 1
    <3>1. k \in 1 .. n
      BY <2>2
    <3>2. PICK i \in 1 .. Len(f) : f[i] = parts[k][m]
      BY <3>1 DEF Pieces
    <3>3. i \in 1 .. Len(g)
      BY <1>1, <1>2
    <3> QED BY <1>2, <3>2, <3>3
  <2> QED BY <2>1, <2>2
<1>6. ASSUME NEW i \in 1 .. Len(g) - 1
      PROVE  \E k, l \in 1 .. n + 1 : \E m \in 1 .. Len(parts[k]) : \E j \in 1 .. Len(parts[l]) :
                /\ g[i] = parts[k][m] /\ g[i + 1] = parts[l][j]
                /\ k < l \/ (k = l /\ j = m + 1)
  <2>0. i \in 1 .. Len(g) /\ i + 1 \in 1 .. Len(g)
    BY <1>1, <1>2
  <2>1. CASE i \in 1 .. Len(f) - 1
    <3>1. i \in 1 .. Len(f) /\ i + 1 \in 1 .. Len(f)
      BY <1>1, <2>1
    <3>2. PICK k \in 1 .. n, l \in 1 .. n :
              \E m \in 1 .. Len(parts[k]) : \E j \in 1 .. Len(parts[l]) :
                 /\ f[i] = parts[k][m] /\ f[i + 1] = parts[l][j]
                 /\ k < l \/ (k = l /\ j = m + 1)
      BY <2>1 DEF Pieces
    <3>3. g[i] = f[i] /\ g[i + 1] = f[i + 1]
      BY <1>2, <3>1
    <3>4. k \in 1 .. n + 1 /\ l \in 1 .. n + 1
      BY <1>0
    <3> QED BY <3>2, <3>3, <3>4
  <2>2. CASE i = Len(f)
    <3>1. i \in 1 .. Len(f) /\ 1 \in 1 .. Len(p) /\ i + 1 = Len(f) + 1
      BY <1>1, <1>2, <2>0, <2>2
    <3>2. PICK k \in 1 .. n : \E m \in 1 .. Len(parts[k]) : f[i] = parts[k][m]
      BY <3>1 DEF Pieces
    <3>3. g[i] = f[i] /\ g[i + 1] = p[1]
      BY <1>2, <3>1
    <3>4. k \in 1 .. n + 1 /\ k < n + 1
      BY <1>0
    <3> QED BY <1>0, <3>1, <3>2, <3>3, <3>4
  <2>3. CASE i \in Len(f) + 1 .. Len(g) - 1
    <3> DEFINE m == i - Len(f)
    <3>1. m \in 1 .. Len(p) /\ m + 1 \in 1 .. Len(p) /\ i = Len(f) + m /\ i + 1 = Len(f) + (m + 1)
      <4> HIDE DEF p
      <4> QED BY <1>1, <1>2, <2>3
    <3> HIDE DEF m
    <3>2. g[i] = p[m] /\ g[i + 1] = p[m + 1]
      BY <1>2, <3>1
    <3> QED BY <1>0, <3>1, <3>2
  <2>4. i \in 1 .. Len(f) - 1 \/ i = Len(f) \/ i \in Len(f) + 1 .. Len(g) - 1
    <3> HIDE DEF p
    <3> QED BY <1>1, <1>2
  <2> QED BY <2>1, <2>2, <2>3, <2>4
<1> QED BY <1>4, <1>5, <1>6 DEF Pieces, g

LEMMA FlatteningKeeps ==
    ASSUME NEW T, NEW parts \in Seq(Seq(T))
    PROVE  FlattenSeq(parts) \in Seq(T) /\ Pieces(FlattenSeq(parts), parts, Len(parts))
<1>1. PICK flat \in [0 .. Len(parts) -> Seq(T)] :
              /\ FlattenSeq(parts) = flat[Len(parts)]
              /\ flat[0] = <<>>
              /\ \A i \in 1 .. Len(parts) : flat[i] = flat[i - 1] \o parts[i]
  BY FlatteningRecurs
<1> DEFINE S == {n \in Nat : n <= Len(parts) => Pieces(flat[n], parts, n)}
<1>2. 0 \in S
  <2>1. Len(<<>>) = 0 /\ 1 .. 0 = {} /\ 1 .. 0 - 1 = {}
    OBVIOUS
  <2>2. Pieces(<<>>, parts, 0)
    BY <2>1 DEF Pieces
  <2> QED BY <1>1, <2>2
<1>3. ASSUME NEW n \in Nat, n \in S PROVE n + 1 \in S
  <2> SUFFICES ASSUME n + 1 <= Len(parts) PROVE Pieces(flat[n + 1], parts, n + 1)
    OBVIOUS
  <2>1. n \in 0 .. Len(parts) /\ n + 1 \in 1 .. Len(parts) /\ (n + 1) - 1 = n
    OBVIOUS
  <2>2. flat[n] \in Seq(T) /\ Pieces(flat[n], parts, n)
    BY <1>3, <2>1
  <2>3. flat[n + 1] = flat[n] \o parts[n + 1]
    BY <1>1, <2>1
  <2> QED BY <2>2, <2>3, PiecesGoOn
<1>4. Nat \subseteq S
  <2> HIDE DEF S
  <2> QED BY <1>2, <1>3, NatsAreReached
<1>5. Len(parts) \in S /\ Len(parts) \in 0 .. Len(parts)
  BY <1>4
<1> QED BY <1>1, <1>5

LEMMA SpansAreRecords ==
    /\ \A a, b \in Nat : Span(a, b) \in Spans /\ Span(a, b).start = a /\ Span(a, b).end = b
    /\ \A r \in Spans : r.start \in Nat /\ r.end \in Nat
BY DEF Span, Spans

LEMMA TileOfOne ==
    ASSUME NEW a \in Nat, NEW b \in Nat, a < b
    PROVE  Tiles(<<Span(a, b)>>, a, b)
<1> DEFINE s == <<Span(a, b)>>
<1>1. Span(a, b) \in Spans /\ Span(a, b).start = a /\ Span(a, b).end = b
  BY SpansAreRecords
<1>2. s \in Seq(Spans) /\ Len(s) = 1 /\ s[1] = Span(a, b)
  BY <1>1
<1> HIDE DEF s
<1> QED BY <1>1, <1>2 DEF Tiles

LEMMA TilesJoin ==
    ASSUME NEW s, NEW t, NEW a, NEW b, NEW c, Tiles(s, a, b), Tiles(t, b, c)
    PROVE  Tiles(s \o t, a, c)
<1> DEFINE u == s \o t
<1>1. /\ s \in Seq(Spans) /\ t \in Seq(Spans)
      /\ Len(s) \in Nat \ {0} /\ Len(t) \in Nat \ {0}
  BY DEF Tiles
<1>2. /\ u \in Seq(Spans) /\ Len(u) = Len(s) + Len(t)
      /\ \A i \in 1 .. Len(s) : u[i] = s[i]
      /\ \A i \in Len(s) + 1 .. Len(s) + Len(t) : u[i] = t[i - Len(s)]
  BY <1>1
<1> HIDE DEF u
<1>3. u[1].start = a
  BY <1>1, <1>2 DEF Tiles
<1>4. u[Len(u)].end = c
  <2>1. Len(u) \in Len(s) + 1 .. Len(s) + Len(t) /\ Len(u) - Len(s) = Len(t)
    BY <1>1, <1>2
  <2> QED BY <1>2, <2>1 DEF Tiles
<1>5. ASSUME NEW i \in 1 .. Len(u) PROVE u[i].start < u[i].end
  <2>1. CASE i \in 1 .. Len(s)
    BY <1>2, <2>1 DEF Tiles
  <2>2. CASE i \in Len(s) + 1 .. Len(s) + Len(t)
    <3>1. i - Len(s) \in 1 .. Len(t)
      BY <1>1, <2>2
    <3>2. t[i - Len(s)].start < t[i - Len(s)].end
      BY <3>1 DEF Tiles
    <3>3. u[i] = t[i - Len(s)]
      BY <1>2, <2>2
    <3> QED BY <3>2, <3>3
  <2> QED BY <1>1, <1>2, <2>1, <2>2
<1>6. ASSUME NEW i \in 1 .. Len(u) - 1 PROVE u[i].end = u[i + 1].start
  <2>1. CASE i \in 1 .. Len(s) - 1
    <3>1. i \in 1 .. Len(s) /\ i + 1 \in 1 .. Len(s)
      BY <1>1, <2>1
    <3> QED BY <1>2, <2>1, <3>1 DEF Tiles
  <2>2. CASE i = Len(s)
    <3>1. i \in 1 .. Len(s) /\ i + 1 \in Len(s) + 1 .. Len(s) + Len(t) /\ i + 1 - Len(s) = 1
      BY <1>1, <2>2
    <3>2. u[i] = s[Len(s)] /\ u[i + 1] = t[1]
      BY <1>2, <2>2, <3>1
    <3> QED BY <3>2 DEF Tiles
  <2>3. CASE i \in Len(s) + 1 .. Len(u) - 1
    <3>1. /\ i \in Len(s) + 1 .. Len(s) + Len(t) /\ i + 1 \in Len(s) + 1 .. Len(s) + Len(t)
          /\ i - Len(s) \in 1 .. Len(t) - 1 /\ i + 1 - Len(s) = (i - Len(s)) + 1
      BY <1>1, <1>2, <2>3
    <3>2. t[i - Len(s)].end = t[(i - Len(s)) + 1].start
      BY <3>1 DEF Tiles
    <3>3. u[i] = t[i - Len(s)] /\ u[i + 1] = t[(i - Len(s)) + 1]
      BY <1>2, <3>1
    <3> QED BY <3>2, <3>3
  <2> QED BY <1>1, <1>2, <2>1, <2>2, <2>3
<1>7. Len(u) > 0
  BY <1>1, <1>2
<1> QED BY <1>2, <1>3, <1>4, <1>5, <1>6, <1>7 DEF Tiles, u

(* What shares out the spans that share a text out shares the text out.    *)
LEMMA FlatteningTiles ==
    ASSUME NEW s, NEW from, NEW to, Tiles(s, from, to), NEW parts \in Seq(Seq(Spans)),
           Len(parts) = Len(s), \A i \in 1 .. Len(s) : Tiles(parts[i], s[i].start, s[i].end)
    PROVE  Tiles(FlattenSeq(parts), from, to)
<1>1. PICK flat \in [0 .. Len(parts) -> Seq(Spans)] :
              /\ FlattenSeq(parts) = flat[Len(parts)]
              /\ flat[0] = <<>>
              /\ \A i \in 1 .. Len(parts) : flat[i] = flat[i - 1] \o parts[i]
  BY FlatteningRecurs
<1>2. Len(s) \in Nat \ {0} /\ s[1].start = from /\ s[Len(s)].end = to
  BY DEF Tiles
<1> DEFINE S == {n \in Nat : n \in 1 .. Len(s) => Tiles(flat[n], from, s[n].end)}
<1>3. 0 \in S
  OBVIOUS
<1>4. ASSUME NEW n \in Nat, n \in S PROVE n + 1 \in S
  <2> SUFFICES ASSUME n + 1 \in 1 .. Len(s) PROVE Tiles(flat[n + 1], from, s[n + 1].end)
    OBVIOUS
  <2>0. n + 1 \in 1 .. Len(parts) /\ (n + 1) - 1 = n
    OBVIOUS
  <2>1. flat[n + 1] = flat[n] \o parts[n + 1]
    BY <1>1, <2>0
  <2>2. Tiles(parts[n + 1], s[n + 1].start, s[n + 1].end)
    OBVIOUS
  <2>3. CASE n = 0
    <3>1. parts[1] \in Seq(Spans)
      BY <1>2
    <3>2. flat[1] = parts[1]
      <4>1. n + 1 = 1
        BY <2>3
      <4>2. flat[1] = <<>> \o parts[1]
        BY <1>1, <2>1, <2>3, <4>1
      <4>3. \A p \in Seq(Spans) : <<>> \o p = p
        OBVIOUS
      <4> QED BY <3>1, <4>2, <4>3
    <3> QED BY <1>2, <2>2, <2>3, <3>2
  <2>4. CASE n # 0
    <3>1. n \in 1 .. Len(s) - 1 /\ n \in 1 .. Len(s)
      BY <1>2, <2>4
    <3>2. Tiles(flat[n], from, s[n].end) /\ s[n].end = s[n + 1].start
      BY <1>4, <3>1 DEF Tiles
    <3> QED BY <2>1, <2>2, <3>2, TilesJoin
  <2> QED BY <2>3, <2>4
<1>5. Nat \subseteq S
  <2> HIDE DEF S
  <2> QED BY <1>3, <1>4, NatsAreReached
<1>6. Len(s) \in S /\ Len(s) \in 1 .. Len(s)
  BY <1>2, <1>5
<1> QED BY <1>1, <1>2, <1>6

-----------------------------------------------------------------------------
(* Windows.                                                                *)

LEMMA WindowingRecurs ==
    ASSUME NEW length \in Nat, NEW size \in Nat, NEW overlap \in Nat, overlap < size
    PROVE  \E from :
              /\ Windows(length, size, overlap) = from[0]
              /\ \A start \in 0 .. length :
                    from[start] = IF start + size >= length THEN <<Span(start, length)>>
                                  ELSE <<Span(start, start + size)>>
                                           \o from[start + size - overlap]
<1> DEFINE Body(f, start) == IF start + size >= length THEN <<Span(start, length)>>
                             ELSE <<Span(start, start + size)>> \o f[start + size - overlap]
<1> DEFINE Step(f) == [start \in 0 .. length |-> Body(f, start)]
<1> DEFINE from == CHOOSE f : f = Step(f)
<1>1. Windows(length, size, overlap) = from[0]
  BY DEF Windows
<1> DEFINE Reaches(m) == \E f : \A start \in length - m .. length : f[start] = Body(f, start)
<1> DEFINE S == {m \in Nat : m <= length => Reaches(m)}
<1>2. 0 \in S
  <2> DEFINE f == [start \in length .. length |-> <<Span(start, length)>>]
  <2>1. \A start \in length - 0 .. length : start \in length .. length /\ start + size >= length
    OBVIOUS
  <2>2. \A start \in length - 0 .. length : f[start] = Body(f, start)
    BY <2>1
  <2> QED BY <2>2
<1>3. ASSUME NEW m \in Nat, m \in S PROVE m + 1 \in S
  <2> HIDE DEF Reaches
  <2> SUFFICES ASSUME m + 1 <= length PROVE Reaches(m + 1)
    OBVIOUS
  <2>1. Reaches(m)
    BY <1>3
  <2>2. PICK f : \A start \in length - m .. length : f[start] = Body(f, start)
    BY <2>1 DEF Reaches
  <2> DEFINE g == [start \in length - (m + 1) .. length |->
                      IF start = length - (m + 1) THEN Body(f, start) ELSE f[start]]
  <2>3. \A start \in length - m .. length :
            start \in length - (m + 1) .. length /\ start # length - (m + 1)
    OBVIOUS
  <2>4. \A start \in length - m .. length : g[start] = f[start]
    <3> HIDE DEF Body
    <3> QED BY <2>3
  <2>5. ASSUME NEW start \in length - (m + 1) .. length PROVE g[start] = Body(g, start)
    <3>1. g[start] = Body(f, start)
      <4>1. CASE start = length - (m + 1)
        <5> HIDE DEF Body
        <5> QED BY <4>1
      <4>2. CASE start # length - (m + 1)
        <5>1. start \in length - m .. length
          BY <4>2
        <5> HIDE DEF Body, g
        <5> QED BY <2>2, <2>4, <5>1
      <4> QED BY <4>1, <4>2
    <3>2. Body(f, start) = Body(g, start)
      <4>1. CASE start + size >= length
        BY <4>1
      <4>2. CASE ~(start + size >= length)
        <5>1. start + size - overlap \in length - m .. length
          BY <4>2
        <5> HIDE DEF g
        <5> QED BY <2>4, <4>2, <5>1
      <4> QED BY <4>1, <4>2
    <3> HIDE DEF g, Body
    <3> QED BY <3>1, <3>2
  <2> HIDE DEF g, Body
  <2> QED BY <2>5 DEF Reaches
<1>4. Nat \subseteq S
  <2> HIDE DEF S
  <2> QED BY <1>2, <1>3, NatsAreReached
<1>5. \E f : \A start \in 0 .. length : f[start] = Body(f, start)
  <2>1. length - length = 0 /\ Reaches(length)
    <3> HIDE DEF Reaches
    <3> QED BY <1>4
  <2> HIDE DEF Body
  <2> QED BY <2>1
<1>6. PICK f : \A start \in 0 .. length : f[start] = Body(f, start)
  BY <1>5
<1> DEFINE g == [start \in 0 .. length |-> f[start]]
<1>7. ASSUME NEW start \in 0 .. length PROVE Body(f, start) = Body(g, start)
  <2>1. CASE start + size >= length
    BY <2>1
  <2>2. CASE ~(start + size >= length)
    <3>1. start + size - overlap \in 0 .. length
      BY <2>2
    <3>2. g[start + size - overlap] = f[start + size - overlap]
      BY <3>1
    <3> HIDE DEF g
    <3> QED BY <2>2, <3>2
  <2> QED BY <2>1, <2>2
<1>8. g = Step(g)
  <2>1. \A start \in 0 .. length : g[start] = Body(g, start)
    <3>1. \A start \in 0 .. length : g[start] = f[start]
      OBVIOUS
    <3> HIDE DEF g, Body
    <3> QED BY <1>6, <1>7, <3>1
  <2>2. g = [start \in 0 .. length |-> g[start]]
    OBVIOUS
  <2> HIDE DEF g, Body
  <2> QED BY <2>1, <2>2
<1>9. from = Step(from)
  <2> HIDE DEF Step, g
  <2> QED BY <1>8
<1>10. \A start \in 0 .. length : from[start] = Body(from, start)
  <2> HIDE DEF from, Body
  <2> QED BY <1>9
<1> HIDE DEF from
<1> QED BY <1>1, <1>10

(* Windows of a text from start to its end.                                *)
WindowsFrom(w, start, length, size, overlap) ==
    /\ w \in Seq(Spans) /\ Len(w) > 0
    /\ w[1].start = start /\ w[Len(w)].end = length
    /\ \A i \in 1 .. Len(w) :
          /\ start <= w[i].start /\ w[i].start < w[i].end
          /\ w[i].end <= w[i].start + size /\ w[i].end <= length
    /\ \A i \in 1 .. Len(w) - 1 :
          w[i].end = w[i].start + size /\ w[i + 1].start = w[i].end - overlap
    /\ \A p \in Nat : start <= p /\ p < length =>
          \E i \in 1 .. Len(w) : w[i].start <= p /\ p < w[i].end

LEMMA WindowOfOne ==
    ASSUME NEW start \in Nat, NEW length \in Nat, NEW size \in Nat, NEW overlap \in Nat,
           start < length, start + size >= length
    PROVE  WindowsFrom(<<Span(start, length)>>, start, length, size, overlap)
<1> DEFINE w == <<Span(start, length)>>
<1>1. Span(start, length) \in Spans /\ Span(start, length).start = start
                                    /\ Span(start, length).end = length
  BY SpansAreRecords
<1>2. w \in Seq(Spans) /\ Len(w) = 1 /\ w[1] = Span(start, length)
  BY <1>1
<1> HIDE DEF w
<1>3. \A i \in 1 .. Len(w) : i = 1
  BY <1>2
<1>4. 1 \in 1 .. Len(w) /\ 1 .. Len(w) - 1 = {}
  BY <1>2
<1> QED BY <1>1, <1>2, <1>3, <1>4 DEF WindowsFrom

LEMMA WindowBefore ==
    ASSUME NEW start \in Nat, NEW length \in Nat, NEW size \in Nat, NEW overlap \in Nat,
           overlap < size, start + size < length,
           NEW v, WindowsFrom(v, start + size - overlap, length, size, overlap)
    PROVE  WindowsFrom(<<Span(start, start + size)>> \o v, start, length, size, overlap)
<1> DEFINE a == Span(start, start + size)
<1> DEFINE w == <<a>> \o v
<1>1. a \in Spans /\ a.start = start /\ a.end = start + size
  BY SpansAreRecords
<1> HIDE DEF a
<1>2. v \in Seq(Spans) /\ Len(v) \in Nat \ {0}
  BY DEF WindowsFrom
<1>3. /\ w \in Seq(Spans) /\ Len(w) = Len(v) + 1 /\ w[1] = a
      /\ \A i \in 2 .. Len(v) + 1 : w[i] = v[i - 1]
  BY <1>1, <1>2
<1> HIDE DEF w
<1>4. \A i \in 1 .. Len(v) : /\ v[i].start \in Nat /\ v[i].end \in Nat
                             /\ start + size - overlap <= v[i].start /\ v[i].start < v[i].end
                             /\ v[i].end <= v[i].start + size /\ v[i].end <= length
  <2>1. \A i \in 1 .. Len(v) : v[i] \in Spans
    BY <1>2
  <2> QED BY <2>1, SpansAreRecords DEF WindowsFrom
<1>5. /\ v[1].start = start + size - overlap /\ v[Len(v)].end = length
      /\ \A i \in 1 .. Len(v) - 1 :
            v[i].end = v[i].start + size /\ v[i + 1].start = v[i].end - overlap
      /\ \A p \in Nat : start + size - overlap <= p /\ p < length =>
            \E i \in 1 .. Len(v) : v[i].start <= p /\ p < v[i].end
  BY DEF WindowsFrom
<1>6. w[1].start = start /\ w[Len(w)].end = length
  <2>1. Len(w) \in 2 .. Len(v) + 1 /\ Len(w) - 1 = Len(v)
    BY <1>2, <1>3
  <2> QED BY <1>1, <1>3, <1>5, <2>1
<1>7. ASSUME NEW i \in 1 .. Len(w)
      PROVE  /\ start <= w[i].start /\ w[i].start < w[i].end
             /\ w[i].end <= w[i].start + size /\ w[i].end <= length
  <2>1. CASE i = 1
    BY <1>1, <1>3, <2>1
  <2>2. CASE i # 1
    <3>1. i \in 2 .. Len(v) + 1 /\ i - 1 \in 1 .. Len(v)
      BY <1>2, <1>3, <2>2
    <3>2. w[i] = v[i - 1] /\ start <= start + size - overlap
      BY <1>3, <3>1
    <3> QED BY <1>4, <3>1, <3>2
  <2> QED BY <2>1, <2>2
<1>8. ASSUME NEW i \in 1 .. Len(w) - 1
      PROVE  w[i].end = w[i].start + size /\ w[i + 1].start = w[i].end - overlap
  <2>1. CASE i = 1
    <3>1. 2 \in 2 .. Len(v) + 1 /\ 2 - 1 = 1 /\ i + 1 = 2
      BY <1>2, <2>1
    <3>2. w[i + 1] = v[1]
      BY <1>3, <3>1
    <3> QED BY <1>1, <1>3, <1>5, <2>1, <3>2
  <2>2. CASE i # 1
    <3>1. /\ i \in 2 .. Len(v) + 1 /\ i + 1 \in 2 .. Len(v) + 1
          /\ i - 1 \in 1 .. Len(v) - 1 /\ (i + 1) - 1 = (i - 1) + 1
      BY <1>2, <1>3, <2>2
    <3>2. w[i] = v[i - 1] /\ w[i + 1] = v[(i - 1) + 1]
      BY <1>3, <3>1
    <3>3. /\ v[i - 1].end = v[i - 1].start + size
          /\ v[(i - 1) + 1].start = v[i - 1].end - overlap
      BY <1>5, <3>1
    <3> QED BY <3>2, <3>3
  <2> QED BY <2>1, <2>2
<1>9. ASSUME NEW p \in Nat, start <= p, p < length
      PROVE  \E i \in 1 .. Len(w) : w[i].start <= p /\ p < w[i].end
  <2>1. CASE p < start + size
    <3>1. 1 \in 1 .. Len(w)
      BY <1>2, <1>3
    <3> QED BY <1>1, <1>3, <1>9, <2>1, <3>1
  <2>2. CASE ~(p < start + size)
    <3>1. PICK i \in 1 .. Len(v) : v[i].start <= p /\ p < v[i].end
      BY <1>5, <1>9, <2>2
    <3>2. i + 1 \in 2 .. Len(v) + 1 /\ i + 1 \in 1 .. Len(w) /\ (i + 1) - 1 = i
      BY <1>2, <1>3
    <3> QED BY <1>3, <3>1, <3>2
  <2> QED BY <2>1, <2>2
<1>10. Len(w) > 0
  BY <1>2, <1>3
<1> QED BY <1>3, <1>6, <1>7, <1>8, <1>9, <1>10 DEF WindowsFrom, w, a

LEMMA WindowsHold ==
    ASSUME NEW length \in Nat \ {0}, NEW size \in Nat, NEW overlap \in Nat, overlap < size
    PROVE  WindowsFrom(Windows(length, size, overlap), 0, length, size, overlap)
<1>1. PICK from :
          /\ Windows(length, size, overlap) = from[0]
          /\ \A start \in 0 .. length :
                from[start] = IF start + size >= length THEN <<Span(start, length)>>
                              ELSE <<Span(start, start + size)>> \o from[start + size - overlap]
  BY WindowingRecurs
<1> DEFINE Good(start) == WindowsFrom(from[start], start, length, size, overlap)
<1> DEFINE S == {m \in Nat : \A start \in 0 .. length - 1 : start >= length - m => Good(start)}
<1> HIDE DEF Good
<1>2. 0 \in S
  OBVIOUS
<1>3. ASSUME NEW m \in Nat, m \in S PROVE m + 1 \in S
  <2> SUFFICES ASSUME NEW start \in 0 .. length - 1, start >= length - (m + 1) PROVE Good(start)
    OBVIOUS
  <2>0. start \in 0 .. length /\ start \in Nat /\ length \in Nat /\ start < length
    OBVIOUS
  <2>1. CASE start + size >= length
    <3>1. from[start] = <<Span(start, length)>>
      BY <1>1, <2>0, <2>1
    <3> QED BY <2>0, <2>1, <3>1, WindowOfOne DEF Good
  <2>2. CASE ~(start + size >= length)
    <3> DEFINE later == start + size - overlap
    <3>1. later \in 0 .. length - 1 /\ later >= length - m /\ start + size < length
      BY <2>2
    <3>2. from[start] = <<Span(start, start + size)>> \o from[later]
      BY <1>1, <2>0, <2>2
    <3>3. WindowsFrom(from[later], later, length, size, overlap)
      BY <1>3, <3>1 DEF Good
    <3> QED BY <2>0, <3>1, <3>2, <3>3, WindowBefore DEF Good
  <2> QED BY <2>1, <2>2
<1>4. Nat \subseteq S
  <2> HIDE DEF S
  <2> QED BY <1>2, <1>3, NatsAreReached
<1>5. Good(0)
  <2>1. length \in S /\ 0 \in 0 .. length - 1 /\ 0 >= length - length
    BY <1>4
  <2> QED BY <2>1
<1> QED BY <1>1, <1>5 DEF Good

LEMMA WindowsGoOn ==
    ASSUME NEW length \in Nat, NEW size \in Nat, NEW overlap \in Nat, overlap < size,
           NEW w, WindowsFrom(w, 0, length, size, overlap)
    PROVE  \A i, j \in 1 .. Len(w) : i < j => w[i].start < w[j].start
<1>1. w \in Seq(Spans) /\ Len(w) \in Nat
  BY DEF WindowsFrom
<1>2. \A i \in 1 .. Len(w) : w[i].start \in Nat /\ w[i].end \in Nat
  <2>1. \A i \in 1 .. Len(w) : w[i] \in Spans
    BY <1>1
  <2> QED BY <2>1, SpansAreRecords
<1>3. \A i \in 1 .. Len(w) - 1 : w[i].start < w[i + 1].start
  <2> TAKE i \in 1 .. Len(w) - 1
  <2>1. i \in 1 .. Len(w) /\ i + 1 \in 1 .. Len(w)
    BY <1>1
  <2>2. w[i].end = w[i].start + size /\ w[i + 1].start = w[i].end - overlap
    BY DEF WindowsFrom
  <2> QED BY <1>2, <2>1, <2>2
<1> DEFINE S == {j \in Nat : j \in 1 .. Len(w) =>
                    \A i \in 1 .. Len(w) : i < j => w[i].start < w[j].start}
<1>4. 0 \in S
  OBVIOUS
<1>5. ASSUME NEW j \in Nat, j \in S PROVE j + 1 \in S
  <2> SUFFICES ASSUME j + 1 \in 1 .. Len(w), NEW i \in 1 .. Len(w), i < j + 1
               PROVE  w[i].start < w[j + 1].start
    OBVIOUS
  <2>1. j \in 1 .. Len(w) - 1 /\ j \in 1 .. Len(w) /\ (i = j \/ i < j)
    BY <1>1
  <2>2. w[j].start < w[j + 1].start
    BY <1>3, <2>1
  <2>3. i < j => w[i].start < w[j].start
    BY <1>5, <2>1
  <2> QED BY <1>2, <2>1, <2>2, <2>3
<1>6. Nat \subseteq S
  <2> HIDE DEF S
  <2> QED BY <1>4, <1>5, NatsAreReached
<1> QED BY <1>6

-----------------------------------------------------------------------------
(* ParentChildChunker.                                                     *)

LEMMA WrittenSpansKeep ==
    ASSUME NEW text, NEW s \in Seq(Spans)
    PROVE  LET written == WrittenSpans(text, s)
           IN  /\ written \in Seq(Spans)
               /\ \A i \in 1 .. Len(written) :
                     /\ \E c \in 1 .. Len(s) : written[i] = s[c]
                     /\ ~IsBlank(text, written[i].start, written[i].end)
               /\ \A c \in 1 .. Len(s) :
                     ~IsBlank(text, s[c].start, s[c].end) => \E i \in 1 .. Len(written) : written[i] = s[c]
               /\ Apart(s) => Apart(written)
<1> DEFINE good == {span \in Range(s) : ~IsBlank(text, span.start, span.end)}
<1> DEFINE written == WrittenSpans(text, s)
<1>1. written = Filtered(s, good)
  BY DEF WrittenSpans
<1>2. written \in Seq(Spans)
  BY <1>1, FilteringKeeps
<1>3. PICK place : Places(written, s, Len(s), good, place)
  BY <1>1, FilteringPlaces
<1>4. \A c \in 1 .. Len(s) : s[c] \in good <=> ~IsBlank(text, s[c].start, s[c].end)
  BY DEF Range
<1> HIDE DEF written, good
<1>5. \A i \in 1 .. Len(written) :
          /\ place[i] \in 1 .. Len(s) /\ written[i] = s[place[i]]
          /\ ~IsBlank(text, written[i].start, written[i].end)
  BY <1>3, <1>4 DEF Places
<1>6. \A c \in 1 .. Len(s) :
          ~IsBlank(text, s[c].start, s[c].end) => \E i \in 1 .. Len(written) : written[i] = s[c]
  BY <1>3, <1>4 DEF Places
<1>7. Apart(s) => Apart(written)
  BY <1>3, <1>5 DEF Places, Apart
<1> QED BY <1>2, <1>5, <1>6, <1>7 DEF written

Children == [parent : Spans, start : Nat, end : Nat]

(* What WellChunked says of consecutive children.                          *)
Follows(text, size, a, b) ==
    /\ a.start < b.start
    /\ a.end > b.start =>
           LET shared == a.end - b.start
           IN  \/ shared = size.overlap
               \/ /\ shared < size.overlap
                  /\ IsBlank(text, a.end - size.overlap, a.end)

LEMMA ChildrenAreRecords ==
    /\ \A parent, span \in Spans :
          /\ Child(parent, span) \in Children /\ Child(parent, span).parent = parent
          /\ Child(parent, span).start = span.start /\ Child(parent, span).end = span.end
    /\ \A child \in Children : child.parent \in Spans /\ child.start \in Nat /\ child.end \in Nat
<1>1. \A span \in Spans : span.start \in Nat /\ span.end \in Nat
  BY DEF Spans
<1> QED BY <1>1 DEF Child, Children

LEMMA MovedSpans ==
    ASSUME NEW s \in Seq(Spans), NEW offset \in Nat
    PROVE  LET moved == [i \in DOMAIN s |-> Moved(s[i], offset)]
           IN  /\ moved \in Seq(Spans) /\ Len(moved) = Len(s)
               /\ \A i \in 1 .. Len(s) : /\ moved[i].start = s[i].start + offset
                                         /\ moved[i].end = s[i].end + offset
<1>1. \A i \in 1 .. Len(s) : s[i] \in Spans /\ s[i].start + offset \in Nat /\ s[i].end + offset \in Nat
  <2>1. \A i \in 1 .. Len(s) : s[i] \in Spans
    OBVIOUS
  <2> QED BY <2>1, SpansAreRecords
<1>2. \A i \in 1 .. Len(s) : /\ Moved(s[i], offset) \in Spans
                             /\ Moved(s[i], offset).start = s[i].start + offset
                             /\ Moved(s[i], offset).end = s[i].end + offset
  BY <1>1, SpansAreRecords DEF Moved
<1>3. DOMAIN s = 1 .. Len(s) /\ Len(s) \in Nat
  OBVIOUS
<1> DEFINE moved == [i \in DOMAIN s |-> Moved(s[i], offset)]
<1>4. moved \in [1 .. Len(s) -> Spans]
  BY <1>2, <1>3
<1>5. moved \in Seq(Spans) /\ Len(moved) = Len(s)
  BY <1>3, <1>4
<1> QED BY <1>2, <1>3, <1>5

LEMMA SizesAreNumbers ==
    ASSUME NEW size \in Sizes
    PROVE  /\ size.parent \in Nat \ {0} /\ size.child \in Nat \ {0} /\ size.overlap \in Nat
           /\ size.overlap < size.child /\ size.child <= size.parent
BY SizesAssumption

(* A window u and a later one v, which are x and y in the text.            *)
LEMMA LaterWindowFollows ==
    ASSUME NEW text, NEW size \in Sizes, NEW offset \in Nat, NEW u, NEW v, NEW x, NEW y,
           u.start \in Nat, u.end \in Nat, v.start \in Nat,
           x.start = u.start + offset, x.end = u.end + offset, y.start = v.start + offset,
           u.start < v.start, u.end - size.overlap <= v.start,
           v.start = u.end - size.overlap \/ IsBlank(text, x.end - size.overlap, x.end)
    PROVE  Follows(text, size, x, y)
<1>1. size.overlap \in Nat
  BY SizesAreNumbers
<1>2. x.start < y.start /\ x.end - y.start <= size.overlap
  BY <1>1
<1>3. v.start = u.end - size.overlap => x.end - y.start = size.overlap
  BY <1>1
<1>4. x.end \in Nat /\ y.start \in Nat
  OBVIOUS
<1>5. CASE x.end - y.start = size.overlap
  BY <1>2, <1>5 DEF Follows
<1>6. CASE x.end - y.start # size.overlap
  <2>1. x.end - y.start < size.overlap
    BY <1>1, <1>2, <1>4, <1>6
  <2>2. IsBlank(text, x.end - size.overlap, x.end)
    BY <1>3, <1>6
  <2> QED BY <1>2, <2>1, <2>2 DEF Follows
<1> QED BY <1>5, <1>6

(* If the window t after u is blank, z in the text, so is what they share. *)
LEMMA BlankWindowShares ==
    ASSUME NEW text, NEW size \in Sizes, NEW offset \in Nat, NEW u, NEW t, NEW x, NEW z,
           u.end \in Nat, t.start \in Nat, t.end \in Nat,
           x.end = u.end + offset, z.start = t.start + offset, z.end = t.end + offset,
           t.start = u.end - size.overlap, t.end = t.start + size.child,
           IsBlank(text, z.start, z.end)
    PROVE  IsBlank(text, x.end - size.overlap, x.end)
<1>1. /\ size.overlap \in Nat /\ size.child \in Nat /\ size.overlap < size.child
  BY SizesAreNumbers
<1>2. z.start = x.end - size.overlap /\ x.end <= z.end /\ x.end \in Nat /\ z.end \in Nat
  BY <1>1
<1>3. \A i \in (x.end - size.overlap) + 1 .. x.end : i \in (x.end - size.overlap) + 1 .. z.end
  BY <1>1, <1>2
<1> QED BY <1>2, <1>3 DEF IsBlank

(* Consecutive windows that are not blank follow each other.               *)
LEMMA WrittenWindowsFollow ==
    ASSUME NEW text \in Seq(Kinds), NEW size \in Sizes, NEW length \in Nat, NEW offset \in Nat,
           NEW w, WindowsFrom(w, 0, length, size.child, size.overlap),
           NEW moved \in Seq(Spans), Len(moved) = Len(w),
           \A i \in 1 .. Len(w) : /\ moved[i].start = w[i].start + offset
                                  /\ moved[i].end = w[i].end + offset,
           NEW i \in 1 .. Len(WrittenSpans(text, moved)) - 1
    PROVE  Follows(text, size, WrittenSpans(text, moved)[i], WrittenSpans(text, moved)[i + 1])
<1> DEFINE good == {span \in Range(moved) : ~IsBlank(text, span.start, span.end)}
<1> DEFINE written == WrittenSpans(text, moved)
<1>1. written = Filtered(moved, good)
  BY DEF WrittenSpans
<1>2. PICK place : Places(written, moved, Len(moved), good, place)
  BY <1>1, FilteringPlaces
<1>3. \A c \in 1 .. Len(w) : moved[c] \in good <=> ~IsBlank(text, moved[c].start, moved[c].end)
  BY DEF Range
<1>4. written \in Seq(Spans)
  BY <1>1, FilteringKeeps
<1> HIDE DEF written, good
<1>5. i \in 1 .. Len(written) /\ i + 1 \in 1 .. Len(written) /\ i < i + 1
  BY <1>4 DEF written
<1> DEFINE a == place[i]
<1> DEFINE b == place[i + 1]
<1>6. /\ a \in 1 .. Len(w) /\ b \in 1 .. Len(w) /\ a < b
      /\ written[i] = moved[a] /\ written[i + 1] = moved[b]
  BY <1>2, <1>5 DEF Places
<1>7. \A c \in 1 .. Len(w) : a < c /\ c < b => moved[c] \notin good
  <2> SUFFICES ASSUME NEW c \in 1 .. Len(w), a < c, c < b, moved[c] \in good PROVE FALSE
    OBVIOUS
  <2>1. PICK j \in 1 .. Len(written) : place[j] = c
    BY <1>2 DEF Places
  <2>2. j <= i \/ i + 1 <= j
    BY <1>5
  <2>3. CASE j <= i
    <3>1. place[j] <= place[i]
      BY <1>2, <1>5, <1>6, <2>1, <2>3 DEF Places
    <3> QED BY <1>6, <2>1, <3>1
  <2>4. CASE i + 1 <= j
    <3>1. place[i + 1] <= place[j]
      BY <1>2, <1>5, <1>6, <2>1, <2>4 DEF Places
    <3> QED BY <1>6, <2>1, <3>1
  <2> QED BY <2>2, <2>3, <2>4
<1> HIDE DEF a, b
<1>8. /\ size.child \in Nat \ {0} /\ size.overlap \in Nat /\ size.overlap < size.child
  BY SizesAreNumbers
<1>9. /\ w \in Seq(Spans) /\ Len(w) \in Nat
      /\ \A c \in 1 .. Len(w) : w[c].start \in Nat /\ w[c].end \in Nat
  <2>1. w \in Seq(Spans)
    BY DEF WindowsFrom
  <2>2. \A c \in 1 .. Len(w) : w[c] \in Spans
    BY <2>1
  <2> QED BY <2>1, <2>2, SpansAreRecords
<1>10. a \in 1 .. Len(w) - 1 /\ a + 1 \in 1 .. Len(w)
  BY <1>6, <1>9
<1>11. /\ w[a].end = w[a].start + size.child
       /\ w[a + 1].start = w[a].end - size.overlap
  BY <1>10 DEF WindowsFrom
<1>12. \A j, k \in 1 .. Len(w) : j < k => w[j].start < w[k].start
  BY <1>8, WindowsGoOn
<1>13. /\ w[a].start \in Nat /\ w[a].end \in Nat /\ w[b].start \in Nat
       /\ w[a + 1].start \in Nat /\ w[a + 1].end \in Nat
       /\ moved[a].start = w[a].start + offset /\ moved[a].end = w[a].end + offset
       /\ moved[b].start = w[b].start + offset
       /\ moved[a + 1].start = w[a + 1].start + offset
       /\ moved[a + 1].end = w[a + 1].end + offset
  BY <1>6, <1>9, <1>10
<1>14. w[a].start < w[b].start
  BY <1>6, <1>12
<1>15. w[a].end - size.overlap <= w[b].start
  <2>1. a + 1 = b \/ a + 1 < b
    BY <1>6, <1>9
  <2>2. a + 1 < b => w[a + 1].start < w[b].start
    BY <1>6, <1>10, <1>12
  <2>3. w[a + 1].start <= w[b].start
    BY <1>13, <2>1, <2>2
  <2> QED BY <1>11, <2>3
<1>16. w[b].start = w[a].end - size.overlap \/ IsBlank(text, moved[a].end - size.overlap, moved[a].end)
  <2>1. CASE b = a + 1
    BY <1>11, <2>1
  <2>2. CASE b # a + 1
    <3>1. a < a + 1 /\ a + 1 < b /\ a + 1 \in 1 .. Len(w) - 1
      BY <1>6, <1>9, <2>2
    <3>2. IsBlank(text, moved[a + 1].start, moved[a + 1].end)
      BY <1>3, <1>7, <1>10, <3>1
    <3>3. w[a + 1].end = w[a + 1].start + size.child
      BY <3>1 DEF WindowsFrom
    <3> QED BY <1>11, <1>13, <3>2, <3>3, BlankWindowShares
  <2> QED BY <2>1, <2>2
<1>17. Follows(text, size, moved[a], moved[b])
  BY <1>13, <1>14, <1>15, <1>16, LaterWindowFollows
<1> QED BY <1>6, <1>17 DEF written

(* A child of a text's span: within it, and as large as it may be.         *)
ChildWithin(size, span, child) ==
    /\ child \in Children
    /\ Within(child, span)
    /\ child.start < child.end /\ child.end - child.start <= size.child

LEMMA ChildrenOfHold ==
    ASSUME NEW text \in Seq(Kinds), NEW size \in Sizes, NEW parent \in Spans,
           parent.start < parent.end
    PROVE  LET q == ChildrenOf(text, size, parent)
           IN  /\ q \in Seq(Children)
               /\ \A i \in 1 .. Len(q) : ChildWithin(size, parent, q[i]) /\ q[i].parent = parent
               /\ \A i \in 1 .. Len(q) - 1 : Follows(text, size, q[i], q[i + 1])
               /\ \A p \in parent.start + 1 .. parent.end :
                     text[p] # Blank => \E i \in 1 .. Len(q) : q[i].start < p /\ p <= q[i].end
<1> DEFINE length == parent.end - parent.start
<1> DEFINE w == Windows(length, size.child, size.overlap)
<1> DEFINE spans == [i \in DOMAIN w |-> Moved(w[i], parent.start)]
<1> DEFINE written == WrittenSpans(text, spans)
<1> DEFINE q == ChildrenOf(text, size, parent)
<1>1. parent.start \in Nat /\ parent.end \in Nat /\ length \in Nat \ {0}
  <2>1. parent.start \in Nat /\ parent.end \in Nat
    BY SpansAreRecords
  <2> QED BY <2>1
<1>2. /\ size.child \in Nat \ {0} /\ size.overlap \in Nat /\ size.overlap < size.child
  BY SizesAreNumbers
<1>3. q = [i \in DOMAIN written |-> Child(parent, written[i])]
  BY DEF ChildrenOf
<1> HIDE DEF q, length
<1>4. WindowsFrom(w, 0, length, size.child, size.overlap)
  BY <1>1, <1>2, WindowsHold
<1> HIDE DEF w
<1>5. w \in Seq(Spans) /\ Len(w) \in Nat /\ DOMAIN w = 1 .. Len(w)
  BY <1>4 DEF WindowsFrom
<1>6. /\ spans \in Seq(Spans) /\ Len(spans) = Len(w)
      /\ \A i \in 1 .. Len(w) : /\ spans[i].start = w[i].start + parent.start
                                /\ spans[i].end = w[i].end + parent.start
  BY <1>1, <1>5, MovedSpans
<1> HIDE DEF spans
<1>7. \A i \in 1 .. Len(w) : /\ w[i].start \in Nat /\ w[i].end \in Nat
                             /\ w[i].start < w[i].end /\ w[i].end <= w[i].start + size.child
                             /\ w[i].end <= length
  <2>1. \A i \in 1 .. Len(w) : w[i] \in Spans
    BY <1>5
  <2> QED BY <1>4, <2>1, SpansAreRecords DEF WindowsFrom
<1>8. /\ written \in Seq(Spans)
      /\ \A i \in 1 .. Len(written) : \E c \in 1 .. Len(spans) : written[i] = spans[c]
      /\ \A c \in 1 .. Len(spans) :
            ~IsBlank(text, spans[c].start, spans[c].end) => \E i \in 1 .. Len(written) : written[i] = spans[c]
  BY <1>6, WrittenSpansKeep
<1>9. \A i \in 1 .. Len(written) - 1 : Follows(text, size, written[i], written[i + 1])
  BY <1>1, <1>4, <1>6, WrittenWindowsFollow
<1> HIDE DEF written
<1>10. /\ DOMAIN written = 1 .. Len(written) /\ Len(written) \in Nat
       /\ \A i \in 1 .. Len(written) : written[i] \in Spans
  BY <1>8
<1>11. /\ q \in Seq(Children) /\ Len(q) = Len(written)
       /\ \A i \in 1 .. Len(q) :
             /\ q[i] \in Children /\ q[i].parent = parent
             /\ q[i].start = written[i].start /\ q[i].end = written[i].end
  <2>1. \A i \in 1 .. Len(written) :
            /\ Child(parent, written[i]) \in Children
            /\ Child(parent, written[i]).parent = parent
            /\ Child(parent, written[i]).start = written[i].start
            /\ Child(parent, written[i]).end = written[i].end
    BY <1>10, ChildrenAreRecords
  <2>2. q \in [1 .. Len(written) -> Children]
    BY <1>3, <1>10, <2>1
  <2>3. q \in Seq(Children) /\ Len(q) = Len(written)
    BY <1>10, <2>2
  <2> QED BY <1>3, <1>10, <2>1, <2>3
<1>12. ASSUME NEW i \in 1 .. Len(q) PROVE ChildWithin(size, parent, q[i])
  <2>1. PICK c \in 1 .. Len(w) : written[i] = spans[c]
    BY <1>6, <1>8, <1>11
  <2>2. /\ q[i].start = w[c].start + parent.start /\ q[i].end = w[c].end + parent.start
    BY <1>6, <1>11, <2>1
  <2>3. /\ w[c].start \in Nat /\ w[c].end \in Nat /\ w[c].start < w[c].end
        /\ w[c].end <= w[c].start + size.child /\ w[c].end <= length
    BY <1>7
  <2>4. /\ parent.start <= q[i].start /\ q[i].end <= parent.end
    BY <1>1, <2>2, <2>3 DEF length
  <2>5. q[i].start < q[i].end /\ q[i].end - q[i].start <= size.child
    BY <1>1, <1>2, <2>2, <2>3
  <2> QED BY <1>11, <2>4, <2>5 DEF ChildWithin, Within
<1>13. ASSUME NEW i \in 1 .. Len(q) - 1 PROVE Follows(text, size, q[i], q[i + 1])
  <2>1. i \in 1 .. Len(q) /\ i + 1 \in 1 .. Len(q)
    BY <1>10, <1>11
  <2> QED BY <1>9, <1>11, <2>1 DEF Follows
<1>14. ASSUME NEW p \in parent.start + 1 .. parent.end, text[p] # Blank
       PROVE  \E i \in 1 .. Len(q) : q[i].start < p /\ p <= q[i].end
  <2> DEFINE o == p - parent.start - 1
  <2>1. o \in Nat /\ 0 <= o /\ o < length /\ p = o + parent.start + 1
    BY <1>1 DEF length
  <2> HIDE DEF o
  <2>2. PICK c \in 1 .. Len(w) : w[c].start <= o /\ o < w[c].end
    BY <1>4, <2>1 DEF WindowsFrom
  <2>3. /\ w[c].start \in Nat /\ w[c].end \in Nat
        /\ spans[c].start = w[c].start + parent.start /\ spans[c].end = w[c].end + parent.start
    BY <1>6, <1>7
  <2>4. spans[c].start < p /\ p <= spans[c].end /\ p \in spans[c].start + 1 .. spans[c].end
    BY <1>1, <2>1, <2>2, <2>3
  <2>5. ~IsBlank(text, spans[c].start, spans[c].end)
    BY <1>14, <2>4 DEF IsBlank
  <2>6. PICK i \in 1 .. Len(written) : written[i] = spans[c]
    BY <1>6, <1>8, <2>5
  <2> QED BY <1>11, <2>4, <2>6
<1> QED BY <1>11, <1>12, <1>13, <1>14 DEF q

LEMMA ApartFollows ==
    ASSUME NEW text, NEW size, NEW s \in Spans, NEW t \in Spans, s.end <= t.start,
           NEW a, NEW b, ChildWithin(size, s, a), ChildWithin(size, t, b)
    PROVE  Follows(text, size, a, b)
<1>1. a \in Children /\ b \in Children
  BY DEF ChildWithin
<1>2. /\ s.end \in Nat /\ t.start \in Nat /\ a.start \in Nat /\ a.end \in Nat /\ b.start \in Nat
  BY <1>1, SpansAreRecords, ChildrenAreRecords
<1>3. a.start < a.end /\ a.end <= s.end /\ t.start <= b.start
  BY DEF ChildWithin, Within
<1>4. a.start < b.start /\ ~(a.end > b.start)
  BY <1>2, <1>3
<1> QED BY <1>4 DEF Follows

(* The children of spans that are apart, put together.                     *)
LEMMA ChildrenTogether ==
    ASSUME NEW text, NEW size \in Sizes, NEW base \in Seq(Spans), Apart(base),
           NEW parts \in Seq(Seq(Children)), Len(parts) = Len(base),
           \A k \in 1 .. Len(base) : \A m \in 1 .. Len(parts[k]) :
              ChildWithin(size, base[k], parts[k][m]),
           \A k \in 1 .. Len(base) : \A m \in 1 .. Len(parts[k]) - 1 :
              Follows(text, size, parts[k][m], parts[k][m + 1])
    PROVE  LET q == FlattenSeq(parts)
           IN  /\ q \in Seq(Children)
               /\ \A i \in 1 .. Len(q) :
                     \E k \in 1 .. Len(base) : \E m \in 1 .. Len(parts[k]) : q[i] = parts[k][m]
               /\ \A k \in 1 .. Len(base) : \A m \in 1 .. Len(parts[k]) :
                     \E i \in 1 .. Len(q) : q[i] = parts[k][m]
               /\ \A i \in 1 .. Len(q) - 1 : Follows(text, size, q[i], q[i + 1])
<1> DEFINE q == FlattenSeq(parts)
<1>1. q \in Seq(Children) /\ Pieces(q, parts, Len(base))
  BY FlatteningKeeps
<1> HIDE DEF q
<1>2. ASSUME NEW i \in 1 .. Len(q) - 1 PROVE Follows(text, size, q[i], q[i + 1])
  <2>1. PICK k \in 1 .. Len(base), l \in 1 .. Len(base) :
            \E m \in 1 .. Len(parts[k]) : \E j \in 1 .. Len(parts[l]) :
               /\ q[i] = parts[k][m] /\ q[i + 1] = parts[l][j]
               /\ k < l \/ (k = l /\ j = m + 1)
    BY <1>1 DEF Pieces
  <2>2. PICK m \in 1 .. Len(parts[k]), j \in 1 .. Len(parts[l]) :
               /\ q[i] = parts[k][m] /\ q[i + 1] = parts[l][j]
               /\ k < l \/ (k = l /\ j = m + 1)
    BY <2>1
  <2>3. CASE k = l /\ j = m + 1
    <3>1. parts[k] \in Seq(Children) /\ Len(parts[k]) \in Nat
      OBVIOUS
    <3>2. m \in 1 .. Len(parts[k]) - 1
      BY <2>3, <3>1
    <3> QED BY <2>2, <2>3, <3>2
  <2>4. CASE k < l
    <3>1. base[k].end <= base[l].start
      BY <2>4 DEF Apart
    <3>2. ChildWithin(size, base[k], q[i]) /\ ChildWithin(size, base[l], q[i + 1])
      BY <2>2
    <3>3. base[k] \in Spans /\ base[l] \in Spans
      OBVIOUS
    <3> QED BY <3>1, <3>2, <3>3, ApartFollows
  <2> QED BY <2>2, <2>3, <2>4
<1>3. /\ \A i \in 1 .. Len(q) :
            \E k \in 1 .. Len(base) : \E m \in 1 .. Len(parts[k]) : q[i] = parts[k][m]
      /\ \A k \in 1 .. Len(base) : \A m \in 1 .. Len(parts[k]) :
            \E i \in 1 .. Len(q) : q[i] = parts[k][m]
  BY <1>1 DEF Pieces
<1> QED BY <1>1, <1>2, <1>3 DEF q

(* WellChunked in terms of indices of sequences.                           *)
LEMMA WellChunkedIf ==
    ASSUME NEW text \in Seq(Kinds), NEW size \in Sizes,
           NEW parents \in Seq(Spans), NEW children \in Seq(Children), Apart(parents),
           \A p \in 1 .. Len(text) : text[p] # Blank =>
              \E i \in 1 .. Len(parents) : parents[i].start < p /\ p <= parents[i].end,
           \A i \in 1 .. Len(children) : \E k \in 1 .. Len(parents) :
              children[i].parent = parents[k] /\ ChildWithin(size, parents[k], children[i]),
           \A i \in 1 .. Len(children) - 1 : Follows(text, size, children[i], children[i + 1])
    PROVE  WellChunked(text, size, [parents |-> parents, children |-> children])
<1>1. DOMAIN parents = 1 .. Len(parents) /\ DOMAIN children = 1 .. Len(children)
      /\ DOMAIN text = 1 .. Len(text)
  OBVIOUS
<1>2. \A i, j \in DOMAIN parents : i < j => parents[i].end <= parents[j].start
  BY <1>1 DEF Apart
<1>3. \A p \in DOMAIN text : text[p] # Blank => Covers(parents, p)
  BY <1>1 DEF Covers
<1>4. ASSUME NEW i \in DOMAIN children
      PROVE  /\ children[i].parent \in Range(parents)
             /\ Within(children[i], children[i].parent)
             /\ children[i].end - children[i].start \in 1 .. size.child
  <2>1. PICK k \in 1 .. Len(parents) :
            children[i].parent = parents[k] /\ ChildWithin(size, parents[k], children[i])
    BY <1>1
  <2>2. children[i] \in Children /\ children[i].start < children[i].end
        /\ children[i].end - children[i].start <= size.child
        /\ Within(children[i], parents[k])
    BY <2>1 DEF ChildWithin
  <2>3. children[i].start \in Nat /\ children[i].end \in Nat /\ size.child \in Nat
    BY <2>2, ChildrenAreRecords, SizesAreNumbers
  <2>4. children[i].end - children[i].start \in 1 .. size.child
    BY <2>2, <2>3
  <2> QED BY <1>1, <2>1, <2>2, <2>4 DEF Range
<1>5. \A i \in 1 .. Len(children) - 1 :
          /\ children[i].start < children[i + 1].start
          /\ children[i].end > children[i + 1].start =>
                 LET shared == children[i].end - children[i + 1].start
                 IN  \/ shared = size.overlap
                     \/ /\ shared < size.overlap
                        /\ IsBlank(text, children[i].end - size.overlap, children[i].end)
  BY DEF Follows
<1> DEFINE chunks == [parents |-> parents, children |-> children]
<1>6. chunks.parents = parents /\ chunks.children = children
  OBVIOUS
<1> HIDE DEF chunks
<1>7. WellChunked(text, size, chunks)
  BY <1>2, <1>3, <1>4, <1>5, <1>6 DEF WellChunked
<1> QED BY <1>7 DEF chunks

LEMMA NothingIsWellChunked ==
    ASSUME NEW text \in Seq(Kinds), NEW size \in Sizes, IsBlank(text, 0, Len(text))
    PROVE  /\ WellChunked(text, size, NoChunks)
           /\ \A p \in DOMAIN text : text[p] = Blank
           /\ Range(NoChunks.parents) = {} /\ Range(NoChunks.children) = {}
<1>1. \A p \in 1 .. Len(text) : text[p] = Blank
  BY DEF IsBlank
<1>2. /\ <<>> \in Seq(Spans) /\ <<>> \in Seq(Children) /\ Len(<<>>) = 0
      /\ 1 .. 0 = {} /\ 1 .. 0 - 1 = {}
  OBVIOUS
<1>3. Apart(<<>>)
  BY <1>2 DEF Apart
<1>4. WellChunked(text, size, NoChunks)
  BY <1>1, <1>2, <1>3, WellChunkedIf DEF NoChunks
<1>5. Range(<<>>) = {}
  BY DEF Range
<1> QED BY <1>1, <1>4, <1>5 DEF NoChunks

LEMMA WindowsTile ==
    ASSUME NEW length \in Nat, NEW size \in Nat, NEW w, WindowsFrom(w, 0, length, size, 0)
    PROVE  Tiles(w, 0, length)
<1>1. w \in Seq(Spans) /\ Len(w) \in Nat
  BY DEF WindowsFrom
<1>2. ASSUME NEW i \in 1 .. Len(w) - 1 PROVE w[i].end = w[i + 1].start
  <2>1. w[i] \in Spans
    BY <1>1
  <2>2. w[i].end \in Nat /\ w[i + 1].start = w[i].end - 0
    BY <2>1, SpansAreRecords DEF WindowsFrom
  <2> QED BY <2>2
<1>3. \A i \in 1 .. Len(w) : w[i].start < w[i].end
  BY DEF WindowsFrom
<1> QED BY <1>1, <1>2, <1>3 DEF WindowsFrom, Tiles

(* What is written stands in one of the spans that are written in.         *)
LEMMA WrittenTilesCover ==
    ASSUME NEW text \in Seq(Kinds), NEW s, Tiles(s, 0, Len(text)),
           NEW p \in 1 .. Len(text), text[p] # Blank
    PROVE  \E i \in 1 .. Len(WrittenSpans(text, s)) :
              WrittenSpans(text, s)[i].start < p /\ p <= WrittenSpans(text, s)[i].end
<1>0. s \in Seq(Spans) /\ p - 1 \in Nat /\ 0 <= p - 1 /\ p - 1 < Len(text) /\ p \in Nat
  BY DEF Tiles
<1>1. PICK c \in 1 .. Len(s) : s[c].start <= p - 1 /\ p - 1 < s[c].end
  BY <1>0, TilesShareOut
<1>2. s[c].start \in Nat /\ s[c].end \in Nat
  <2>1. s[c] \in Spans
    BY <1>0
  <2> QED BY <2>1, SpansAreRecords
<1>3. s[c].start < p /\ p <= s[c].end /\ p \in s[c].start + 1 .. s[c].end
  BY <1>0, <1>1, <1>2
<1>4. ~IsBlank(text, s[c].start, s[c].end)
  BY <1>3 DEF IsBlank
<1>5. PICK i \in 1 .. Len(WrittenSpans(text, s)) : WrittenSpans(text, s)[i] = s[c]
  BY <1>0, <1>4, WrittenSpansKeep
<1> QED BY <1>3, <1>5

LEMMA PlainChunksHold ==
    ASSUME NEW text \in Seq(Kinds), NEW size \in Sizes
    PROVE  LET plain == ParentChild(text, size)
           IN  /\ WellChunked(text, size, plain)
               /\ \A p \in DOMAIN text : text[p] # Blank => Covers(plain.children, p)
               /\ \A parent \in Range(plain.parents) : parent.end - parent.start <= size.parent
<1>1. CASE IsBlank(text, 0, Len(text))
  <2>1. ParentChild(text, size) = NoChunks
    BY <1>1 DEF ParentChild
  <2> QED BY <1>1, <2>1, NothingIsWellChunked
<1>2. CASE ~IsBlank(text, 0, Len(text))
  <2> DEFINE w == Windows(Len(text), size.parent, 0)
  <2> DEFINE parents == WrittenSpans(text, w)
  <2> DEFINE parts == [i \in DOMAIN parents |-> ChildrenOf(text, size, parents[i])]
  <2> DEFINE children == FlattenSeq(parts)
  <2> DEFINE plain == ParentChild(text, size)
  <2>1. plain = [parents |-> parents, children |-> children]
    BY <1>2 DEF ParentChild
  <2> HIDE DEF plain
  <2>2. Len(text) \in Nat \ {0} /\ DOMAIN text = 1 .. Len(text)
    BY <1>2 DEF IsBlank
  <2>3. size.parent \in Nat \ {0}
    BY SizesAreNumbers
  <2>4. WindowsFrom(w, 0, Len(text), size.parent, 0)
    BY <2>2, <2>3, WindowsHold
  <2> HIDE DEF w
  <2>5. w \in Seq(Spans) /\ Len(w) \in Nat
    BY <2>4 DEF WindowsFrom
  <2>6. Tiles(w, 0, Len(text))
    BY <2>2, <2>3, <2>4, WindowsTile
  <2>7. /\ parents \in Seq(Spans) /\ Apart(parents)
        /\ \A i \in 1 .. Len(parents) : \E c \in 1 .. Len(w) : parents[i] = w[c]
    <3>1. Apart(w)
      BY <2>6, TilesShareOut
    <3> QED BY <2>5, <3>1, WrittenSpansKeep
  <2>8. \A p \in 1 .. Len(text) : text[p] # Blank =>
            \E i \in 1 .. Len(parents) : parents[i].start < p /\ p <= parents[i].end
    BY <2>6, WrittenTilesCover
  <2> HIDE DEF parents
  <2>9. /\ DOMAIN parents = 1 .. Len(parents) /\ Len(parents) \in Nat
        /\ \A i \in 1 .. Len(parents) :
              /\ parents[i] \in Spans /\ parents[i].start < parents[i].end
              /\ parents[i].end - parents[i].start <= size.parent
    <3>1. DOMAIN parents = 1 .. Len(parents) /\ Len(parents) \in Nat
      BY <2>7
    <3>2. ASSUME NEW i \in 1 .. Len(parents)
          PROVE  /\ parents[i] \in Spans /\ parents[i].start < parents[i].end
                 /\ parents[i].end - parents[i].start <= size.parent
      <4>1. PICK c \in 1 .. Len(w) : parents[i] = w[c]
        BY <2>7
      <4>2. w[c] \in Spans
        BY <2>5
      <4>3. w[c].start < w[c].end /\ w[c].end <= w[c].start + size.parent
        BY <2>4 DEF WindowsFrom
      <4> QED BY <2>3, <4>1, <4>2, <4>3, SpansAreRecords
    <3> QED BY <3>1, <3>2
  <2>10. ASSUME NEW k \in 1 .. Len(parents)
         PROVE  /\ parts[k] \in Seq(Children)
                /\ \A m \in 1 .. Len(parts[k]) :
                      ChildWithin(size, parents[k], parts[k][m]) /\ parts[k][m].parent = parents[k]
                /\ \A m \in 1 .. Len(parts[k]) - 1 : Follows(text, size, parts[k][m], parts[k][m + 1])
                /\ \A p \in parents[k].start + 1 .. parents[k].end :
                      text[p] # Blank =>
                         \E m \in 1 .. Len(parts[k]) : parts[k][m].start < p /\ p <= parts[k][m].end
    <3>1. parts[k] = ChildrenOf(text, size, parents[k])
      BY <2>9
    <3> HIDE DEF parts
    <3> QED BY <2>9, <3>1, ChildrenOfHold
  <2>11. parts \in Seq(Seq(Children)) /\ Len(parts) = Len(parents)
    <3>1. parts \in [1 .. Len(parents) -> Seq(Children)]
      BY <2>9, <2>10
    <3> QED BY <2>9, <3>1
  <2> HIDE DEF parts
  <2>12. /\ children \in Seq(Children)
         /\ \A i \in 1 .. Len(children) :
               \E k \in 1 .. Len(parents) : \E m \in 1 .. Len(parts[k]) : children[i] = parts[k][m]
         /\ \A k \in 1 .. Len(parents) : \A m \in 1 .. Len(parts[k]) :
               \E i \in 1 .. Len(children) : children[i] = parts[k][m]
         /\ \A i \in 1 .. Len(children) - 1 : Follows(text, size, children[i], children[i + 1])
    BY <2>7, <2>10, <2>11, ChildrenTogether
  <2> HIDE DEF children
  <2>13. \A i \in 1 .. Len(children) : \E k \in 1 .. Len(parents) :
             children[i].parent = parents[k] /\ ChildWithin(size, parents[k], children[i])
    <3> TAKE i \in 1 .. Len(children)
    <3>1. PICK k \in 1 .. Len(parents) : \E m \in 1 .. Len(parts[k]) : children[i] = parts[k][m]
      BY <2>12
    <3>2. PICK m \in 1 .. Len(parts[k]) : children[i] = parts[k][m]
      BY <3>1
    <3>3. children[i].parent = parents[k] /\ ChildWithin(size, parents[k], children[i])
      BY <2>10, <3>2
    <3> QED BY <3>3
  <2>14. WellChunked(text, size, plain)
    BY <2>1, <2>7, <2>8, <2>12, <2>13, WellChunkedIf
  <2>15. ASSUME NEW p \in DOMAIN text, text[p] # Blank PROVE Covers(plain.children, p)
    <3>1. PICK k \in 1 .. Len(parents) : parents[k].start < p /\ p <= parents[k].end
      BY <2>2, <2>8, <2>15
    <3>2. p \in parents[k].start + 1 .. parents[k].end
      <4>1. parents[k].start \in Nat /\ parents[k].end \in Nat /\ p \in Nat
        BY <2>2, <2>9, SpansAreRecords
      <4> QED BY <3>1, <4>1
    <3>3. PICK m \in 1 .. Len(parts[k]) : parts[k][m].start < p /\ p <= parts[k][m].end
      BY <2>10, <2>15, <3>2
    <3>4. PICK i \in 1 .. Len(children) : children[i] = parts[k][m]
      BY <2>12
    <3>5. DOMAIN children = 1 .. Len(children) /\ plain.children = children
      BY <2>1, <2>12
    <3> QED BY <3>3, <3>4, <3>5 DEF Covers
  <2>16. \A parent \in Range(plain.parents) : parent.end - parent.start <= size.parent
    <3>1. plain.parents = parents
      BY <2>1
    <3> QED BY <2>9, <3>1 DEF Range
  <2> QED BY <2>14, <2>15, <2>16 DEF plain
<1> QED BY <1>1, <1>2

-----------------------------------------------------------------------------
(* Sections and clauses.                                                   *)

LEMMA PositionsRise ==
    ASSUME NEW text \in Seq(Kinds), NEW chosen, chosen \subseteq 1 .. Len(text)
    PROVE  LET q == Positions(text, chosen)
           IN  /\ q \in Seq(Nat)
               /\ \A i \in 1 .. Len(q) : q[i] \in chosen
               /\ \A i, j \in 1 .. Len(q) : i < j => q[i] < q[j]
               /\ \A p \in chosen : \E i \in 1 .. Len(q) : q[i] = p
<1> DEFINE s == [i \in DOMAIN text |-> i]
<1> DEFINE q == Positions(text, chosen)
<1>1. /\ s \in Seq(Nat) /\ Len(s) = Len(text) /\ \A i \in 1 .. Len(text) : s[i] = i
  <2>1. DOMAIN text = 1 .. Len(text) /\ Len(text) \in Nat
    OBVIOUS
  <2>2. s \in [1 .. Len(text) -> Nat]
    BY <2>1
  <2> QED BY <2>1, <2>2
<1>2. q = Filtered(s, chosen)
  BY DEF Positions
<1> HIDE DEF s, q
<1>3. q \in Seq(Nat)
  BY <1>1, <1>2, FilteringKeeps
<1>4. PICK place : Places(q, s, Len(s), chosen, place)
  BY <1>1, <1>2, FilteringPlaces
<1>5. \A i \in 1 .. Len(q) : place[i] \in 1 .. Len(text) /\ q[i] = place[i]
  BY <1>1, <1>4 DEF Places
<1>6. \A i, j \in 1 .. Len(q) : i < j => q[i] < q[j]
  BY <1>4, <1>5 DEF Places
<1>7. \A p \in 1 .. Len(text) : p \in chosen <=> \E i \in 1 .. Len(q) : place[i] = p
  BY <1>1, <1>4 DEF Places
<1>8. \A i \in 1 .. Len(q) : q[i] \in chosen
  BY <1>5, <1>7
<1>9. \A p \in chosen : \E i \in 1 .. Len(q) : q[i] = p
  BY <1>5, <1>7
<1> QED BY <1>3, <1>6, <1>8, <1>9 DEF q

LEMMA SectionsTile ==
    ASSUME NEW text \in Seq(Kinds), Len(text) > 0
    PROVE  Tiles(Sections(text), 0, Len(text))
<1> DEFINE chosen == {i \in DOMAIN text : HeadingLevel(text[i]) = BusinessLevel(text)}
<1> DEFINE b == Positions(text, chosen)
<1> DEFINE n == Len(b)
<1> DEFINE s == Sections(text)
<1>0. Len(text) \in Nat /\ DOMAIN text = 1 .. Len(text)
  OBVIOUS
<1>1. s = IF n = 0 THEN <<Span(0, Len(text))>>
          ELSE [i \in 1 .. n |->
                  Span(IF i = 1 THEN 0 ELSE b[i] - 1, IF i = n THEN Len(text) ELSE b[i + 1] - 1)]
  BY DEF Sections
<1>2. chosen \subseteq 1 .. Len(text)
  BY <1>0
<1> HIDE DEF chosen, s
<1>3. /\ b \in Seq(Nat)
      /\ \A i \in 1 .. n : b[i] \in 1 .. Len(text)
      /\ \A i, j \in 1 .. n : i < j => b[i] < b[j]
  BY <1>2, PositionsRise
<1>4. n \in Nat
  BY <1>3
<1> HIDE DEF b, n
<1>5. CASE n = 0
  BY <1>0, <1>1, <1>5, TileOfOne DEF s
<1>6. CASE n # 0
  <2> DEFINE from(i) == IF i = 1 THEN 0 ELSE b[i] - 1
  <2> DEFINE to(i) == IF i = n THEN Len(text) ELSE b[i + 1] - 1
  <2>1. s = [i \in 1 .. n |-> Span(from(i), to(i))]
    BY <1>1, <1>6
  <2>2. ASSUME NEW i \in 1 .. n PROVE from(i) \in Nat /\ to(i) \in Nat /\ from(i) < to(i)
    <3>1. b[i] \in 1 .. Len(text)
      BY <1>3
    <3>2. i # n => i + 1 \in 1 .. n /\ b[i] < b[i + 1] /\ b[i + 1] \in 1 .. Len(text)
      BY <1>3, <1>4
    <3> QED BY <1>0, <3>1, <3>2
  <2>3. ASSUME NEW i \in 1 .. n - 1 PROVE to(i) = from(i + 1)
    BY <1>4
  <2>4. from(1) = 0 /\ to(n) = Len(text)
    OBVIOUS
  <2> HIDE DEF from, to
  <2>5. \A i \in 1 .. n : s[i] \in Spans /\ s[i].start = from(i) /\ s[i].end = to(i)
    BY <2>1, <2>2, SpansAreRecords
  <2>6. s \in Seq(Spans) /\ Len(s) = n
    <3>1. s \in [1 .. n -> Spans]
      BY <2>1, <2>5
    <3> QED BY <1>4, <3>1
  <2>7. n > 0 /\ 1 \in 1 .. n /\ n \in 1 .. n
    BY <1>4, <1>6
  <2>8. \A i \in 1 .. n : s[i].start < s[i].end
    BY <2>2, <2>5
  <2>9. \A i \in 1 .. n - 1 : s[i].end = s[i + 1].start
    <3> TAKE i \in 1 .. n - 1
    <3>1. i \in 1 .. n /\ i + 1 \in 1 .. n
      BY <1>4
    <3> QED BY <2>3, <2>5, <3>1
  <2>10. Tiles(s, 0, Len(text))
    BY <2>4, <2>5, <2>6, <2>7, <2>8, <2>9 DEF Tiles
  <2> QED BY <2>10 DEF s
<1> QED BY <1>5, <1>6

(* The section of a position is one that holds it.                         *)
LEMMA SectionAtHolds ==
    ASSUME NEW text \in Seq(Kinds), NEW p \in Nat, p < Len(text)
    PROVE  \E k \in 1 .. Len(Sections(text)) :
              /\ SectionAt(text, p) = Sections(text)[k]
              /\ Sections(text)[k].start <= p /\ p < Sections(text)[k].end
<1> DEFINE s == Sections(text)
<1>1. Len(text) > 0 /\ 0 <= p
  OBVIOUS
<1>2. Tiles(s, 0, Len(text))
  BY <1>1, SectionsTile
<1>3. s \in Seq(Spans)
  BY <1>2 DEF Tiles
<1>4. PICK k \in 1 .. Len(s) : s[k].start <= p /\ p < s[k].end
  BY <1>1, <1>2, TilesShareOut
<1>5. Range(s) = {s[i] : i \in 1 .. Len(s)}
  BY <1>3 DEF Range
<1> DEFINE Holds(section) == section.start <= p /\ p < section.end
<1>6. \E section \in Range(s) : Holds(section)
  BY <1>4, <1>5
<1>7. SectionAt(text, p) = CHOOSE section \in Range(s) : Holds(section)
  BY DEF SectionAt
<1> HIDE DEF Holds, s
<1>8. SectionAt(text, p) \in Range(s) /\ Holds(SectionAt(text, p))
  BY <1>6, <1>7
<1> QED BY <1>5, <1>8 DEF Holds, s

LEMMA MinOfTwo ==
    ASSUME NEW a \in Nat, NEW b \in Nat
    PROVE  Min({a, b}) \in {a, b} /\ Min({a, b}) <= a /\ Min({a, b}) <= b
<1>1. {a, b} \subseteq Nat /\ {a, b} # {}
  OBVIOUS
<1> QED BY <1>1, MinIsLeast

(* A clause starts with a marker, and ends with its section or where the   *)
(* next one starts.                                                        *)
ClauseOf(text, sections, q, i, k) ==
    /\ Within(q[i], sections[k]) /\ q[i].start < sections[k].end
    /\ q[i].start < q[i].end /\ text[q[i].start + 1] = "clause"
    /\ q[i].end = sections[k].end \/ (i < Len(q) /\ q[i].end = q[i + 1].start)

LEMMA ClausesHold ==
    ASSUME NEW text \in Seq(Kinds), Len(text) > 0
    PROVE  LET q == Clauses(text)
               sections == Sections(text)
           IN  /\ q \in Seq(Spans) /\ Apart(q)
               /\ \A i \in 1 .. Len(q) : \E k \in 1 .. Len(sections) : ClauseOf(text, sections, q, i, k)
<1> DEFINE chosen == {i \in DOMAIN text : text[i] = "clause"}
<1> DEFINE m == Positions(text, chosen)
<1> DEFINE n == Len(m)
<1> DEFINE q == Clauses(text)
<1> DEFINE sections == Sections(text)
<1> DEFINE from(i) == m[i] - 1
<1> DEFINE border(i) == SectionAt(text, m[i] - 1).end
<1> DEFINE to(i) == IF i = n THEN border(i) ELSE Min({m[i + 1] - 1, border(i)})
<1>0. Len(text) \in Nat /\ DOMAIN text = 1 .. Len(text)
  OBVIOUS
<1>1. q = [i \in DOMAIN m |-> Span(from(i), to(i))]
  BY DEF Clauses
<1>2. chosen \subseteq 1 .. Len(text)
  BY <1>0
<1>3. \A p \in chosen : text[p] = "clause"
  OBVIOUS
<1> HIDE DEF chosen, q
<1>4. /\ m \in Seq(Nat)
      /\ \A i \in 1 .. n : m[i] \in 1 .. Len(text) /\ text[m[i]] = "clause"
      /\ \A i, j \in 1 .. n : i < j => m[i] < m[j]
  BY <1>2, <1>3, PositionsRise
<1>5. n \in Nat /\ DOMAIN m = 1 .. n
  BY <1>4
<1> HIDE DEF m, n
<1>6. Tiles(sections, 0, Len(text))
  BY SectionsTile
<1>7. \A k \in 1 .. Len(sections) : sections[k].start \in Nat /\ sections[k].end \in Nat
  <2>1. sections \in Seq(Spans)
    BY <1>6 DEF Tiles
  <2>2. \A k \in 1 .. Len(sections) : sections[k] \in Spans
    BY <2>1
  <2> QED BY <2>2, SpansAreRecords
<1>8. ASSUME NEW i \in 1 .. n
      PROVE  /\ from(i) \in Nat /\ to(i) \in Nat /\ from(i) < to(i) /\ from(i) + 1 = m[i]
             /\ i < n => to(i) <= from(i + 1)
             /\ \E k \in 1 .. Len(sections) :
                   /\ sections[k].start <= from(i) /\ to(i) <= sections[k].end
                   /\ from(i) < sections[k].end
                   /\ to(i) = sections[k].end \/ (i < n /\ to(i) = from(i + 1))
  <2>1. m[i] \in 1 .. Len(text) /\ from(i) \in Nat /\ from(i) < Len(text) /\ from(i) + 1 = m[i]
    BY <1>0, <1>4
  <2>2. PICK k \in 1 .. Len(sections) :
            /\ SectionAt(text, from(i)) = sections[k]
            /\ sections[k].start <= from(i) /\ from(i) < sections[k].end
    <3> HIDE DEF from, sections
    <3> QED BY <2>1, SectionAtHolds DEF sections
  <2>3. border(i) = sections[k].end /\ border(i) \in Nat
    BY <1>7, <2>2
  <2> HIDE DEF border, sections
  <2>4. CASE i = n
    <3>1. to(i) = border(i)
      BY <2>4
    <3> HIDE DEF to, from
    <3> QED BY <2>1, <2>2, <2>3, <2>4, <3>1
  <2>5. CASE i # n
    <3>1. i < n /\ i + 1 \in 1 .. n /\ m[i + 1] \in 1 .. Len(text) /\ m[i] < m[i + 1]
      BY <1>4, <1>5, <2>5
    <3>2. from(i + 1) \in Nat /\ from(i) < from(i + 1)
      BY <1>0, <2>1, <3>1
    <3>3. to(i) = Min({from(i + 1), border(i)})
      BY <2>5
    <3> HIDE DEF to, from
    <3>4. to(i) \in {from(i + 1), border(i)} /\ to(i) <= from(i + 1) /\ to(i) <= border(i)
      BY <2>3, <3>2, <3>3, MinOfTwo
    <3> QED BY <2>1, <2>2, <2>3, <3>1, <3>2, <3>4
  <2> QED BY <2>4, <2>5
<1> HIDE DEF from, to, border, sections
<1>9. \A i \in 1 .. n : q[i] \in Spans /\ q[i].start = from(i) /\ q[i].end = to(i)
  BY <1>1, <1>5, <1>8, SpansAreRecords
<1>10. q \in Seq(Spans) /\ Len(q) = n
  <2>1. q \in [1 .. n -> Spans]
    BY <1>1, <1>5, <1>9
  <2> QED BY <1>5, <2>1
<1>11. Apart(q)
  <2> SUFFICES ASSUME NEW i \in 1 .. n, NEW j \in 1 .. n, i < j PROVE to(i) <= from(j)
    BY <1>9, <1>10 DEF Apart
  <2>1. i < n /\ i + 1 \in 1 .. n /\ (i + 1 = j \/ i + 1 < j)
    BY <1>5
  <2>2. to(i) <= from(i + 1) /\ to(i) \in Nat /\ from(i + 1) \in Nat /\ from(j) \in Nat
    BY <1>8, <2>1
  <2>3. from(i + 1) <= from(j)
    <3>1. CASE i + 1 = j
      BY <2>2, <3>1
    <3>2. CASE i + 1 < j
      <4>1. m[i + 1] < m[j] /\ from(i + 1) + 1 = m[i + 1] /\ from(j) + 1 = m[j]
        BY <1>4, <1>8, <2>1, <3>2
      <4> QED BY <2>2, <4>1
    <3> QED BY <2>1, <3>1, <3>2
  <2> QED BY <2>2, <2>3
<1>12. ASSUME NEW i \in 1 .. n
       PROVE  \E k \in 1 .. Len(sections) : ClauseOf(text, sections, q, i, k)
  <2>1. PICK k \in 1 .. Len(sections) :
                   /\ sections[k].start <= from(i) /\ to(i) <= sections[k].end
                   /\ from(i) < sections[k].end
                   /\ to(i) = sections[k].end \/ (i < n /\ to(i) = from(i + 1))
    BY <1>8
  <2>2. from(i) < to(i) /\ text[from(i) + 1] = "clause"
    BY <1>4, <1>8
  <2>3. i < n => q[i + 1].start = from(i + 1)
    BY <1>5, <1>9
  <2>4. q[i].start = from(i) /\ q[i].end = to(i)
    BY <1>9
  <2>5. ClauseOf(text, sections, q, i, k)
    BY <1>10, <2>1, <2>2, <2>3, <2>4 DEF ClauseOf, Within
  <2> QED BY <2>5
<1> QED BY <1>10, <1>11, <1>12 DEF q, sections

(* A clause that starts in a section is the section's.                     *)
LEMMA ClauseStaysInSection ==
    ASSUME NEW text, NEW sections, NEW to, Tiles(sections, 0, to), NEW q \in Seq(Spans),
           NEW i \in 1 .. Len(q), NEW k \in 1 .. Len(sections),
           \E l \in 1 .. Len(sections) : ClauseOf(text, sections, q, i, l),
           sections[k].start <= q[i].start, q[i].start < sections[k].end
    PROVE  ClauseOf(text, sections, q, i, k)
<1>1. PICK l \in 1 .. Len(sections) : ClauseOf(text, sections, q, i, l)
  OBVIOUS
<1>2. sections[l].start <= q[i].start /\ q[i].start < sections[l].end
  BY <1>1 DEF ClauseOf, Within
<1>3. Apart(sections) /\ sections \in Seq(Spans) /\ Len(sections) \in Nat
  BY TilesShareOut DEF Tiles
<1>4. /\ q[i].start \in Nat
      /\ sections[k].start \in Nat /\ sections[k].end \in Nat
      /\ sections[l].start \in Nat /\ sections[l].end \in Nat
  <2>1. q[i] \in Spans /\ sections[k] \in Spans /\ sections[l] \in Spans
    BY <1>3
  <2> QED BY <2>1, SpansAreRecords
<1>5. ~(k < l)
  <2>1. k < l => sections[k].end <= sections[l].start
    BY <1>3 DEF Apart
  <2> QED BY <1>2, <1>4, <2>1
<1>6. ~(l < k)
  <2>1. l < k => sections[l].end <= sections[k].start
    BY <1>3 DEF Apart
  <2> QED BY <1>2, <1>4, <2>1
<1>7. k = l
  BY <1>3, <1>5, <1>6
<1> QED BY <1>1, <1>7

(* Where those of the clauses q stand that are in the outer span, c.       *)
HeldAt(place, c, q, outer) ==
    /\ place \in [1 .. Len(c) -> 1 .. Len(q)]
    /\ \A j \in 1 .. Len(c) : c[j] = q[place[j]] /\ Within(q[place[j]], outer)
    /\ \A i, j \in 1 .. Len(c) : i < j => place[i] < place[j]
    /\ \A i \in 1 .. Len(q) : Within(q[i], outer) => \E j \in 1 .. Len(c) : place[j] = i

LEMMA ClausesInKeep ==
    ASSUME NEW text, NEW outer, Clauses(text) \in Seq(Spans)
    PROVE  /\ ClausesIn(text, outer) \in Seq(Spans)
           /\ \E place : HeldAt(place, ClausesIn(text, outer), Clauses(text), outer)
<1> DEFINE q == Clauses(text)
<1> DEFINE c == ClausesIn(text, outer)
<1> DEFINE good == {clause \in Range(q) : Within(clause, outer)}
<1>1. c = Filtered(q, good)
  BY DEF ClausesIn
<1>2. q \in Seq(Spans)
  OBVIOUS
<1>3. \A i \in 1 .. Len(q) : q[i] \in good <=> Within(q[i], outer)
  BY <1>2 DEF Range
<1> HIDE DEF c, q, good
<1>4. c \in Seq(Spans)
  BY <1>1, <1>2, FilteringKeeps
<1>5. PICK place : Places(c, q, Len(q), good, place)
  BY <1>1, <1>2, FilteringPlaces
<1>6. /\ place \in [1 .. Len(c) -> 1 .. Len(q)]
      /\ \A j \in 1 .. Len(c) : c[j] = q[place[j]]
      /\ \A i, j \in 1 .. Len(c) : i < j => place[i] < place[j]
      /\ \A i \in 1 .. Len(q) : q[i] \in good <=> \E j \in 1 .. Len(c) : place[j] = i
  BY <1>5 DEF Places
<1>7. \A j \in 1 .. Len(c) : Within(q[place[j]], outer)
  <2> TAKE j \in 1 .. Len(c)
  <2>1. place[j] \in 1 .. Len(q)
    BY <1>6
  <2> QED BY <1>3, <1>6, <2>1
<1>8. \A i \in 1 .. Len(q) : Within(q[i], outer) => \E j \in 1 .. Len(c) : place[j] = i
  BY <1>3, <1>6
<1>9. HeldAt(place, c, q, outer)
  BY <1>6, <1>7, <1>8 DEF HeldAt
<1> QED BY <1>4, <1>9 DEF c, q

(* The clauses of a section share out what follows the first marker.       *)
LEMMA ClausesOfSectionTile ==
    ASSUME NEW text \in Seq(Kinds), Len(text) > 0, NEW k \in 1 .. Len(Sections(text)),
           ClausesIn(text, Sections(text)[k]) # <<>>
    PROVE  LET c == ClausesIn(text, Sections(text)[k])
           IN  /\ Tiles(c, c[1].start, Sections(text)[k].end)
               /\ Sections(text)[k].start <= c[1].start
<1> DEFINE sections == Sections(text)
<1> DEFINE q == Clauses(text)
<1> DEFINE section == sections[k]
<1> DEFINE c == ClausesIn(text, section)
<1>1. Tiles(sections, 0, Len(text))
  BY SectionsTile
<1>2. /\ q \in Seq(Spans) /\ Apart(q)
      /\ \A i \in 1 .. Len(q) : \E l \in 1 .. Len(sections) : ClauseOf(text, sections, q, i, l)
  BY ClausesHold
<1>3. c \in Seq(Spans) /\ \E place : HeldAt(place, c, q, section)
  BY <1>2, ClausesInKeep
<1>4. PICK place :
            /\ place \in [1 .. Len(c) -> 1 .. Len(q)]
            /\ \A j \in 1 .. Len(c) : c[j] = q[place[j]] /\ Within(q[place[j]], section)
            /\ \A i, j \in 1 .. Len(c) : i < j => place[i] < place[j]
            /\ \A i \in 1 .. Len(q) : Within(q[i], section) => \E j \in 1 .. Len(c) : place[j] = i
  BY <1>3 DEF HeldAt
<1>5. Len(c) \in Nat /\ Len(q) \in Nat /\ Len(c) > 0
  <2>1. c # <<>>
    OBVIOUS
  <2> HIDE DEF c
  <2> QED BY <1>2, <1>3, <2>1
<1>6. section.start \in Nat /\ section.end \in Nat
  <2>1. sections \in Seq(Spans)
    BY <1>1 DEF Tiles
  <2>2. section \in Spans
    BY <2>1
  <2> QED BY <2>2, SpansAreRecords
<1>7. \A i \in 1 .. Len(q) : q[i].start \in Nat /\ q[i].end \in Nat
  <2>1. \A i \in 1 .. Len(q) : q[i] \in Spans
    BY <1>2
  <2> QED BY <2>1, SpansAreRecords
<1>8. ASSUME NEW i \in 1 .. Len(q), section.start <= q[i].start, q[i].start < section.end
      PROVE  ClauseOf(text, sections, q, i, k)
  BY <1>1, <1>2, <1>8, ClauseStaysInSection
<1>9. \A i \in 1 .. Len(q) : q[i].start < q[i].end
  BY <1>2 DEF ClauseOf
<1> HIDE DEF c, q, section, sections
<1>10. ASSUME NEW j \in 1 .. Len(c)
       PROVE  /\ place[j] \in 1 .. Len(q) /\ c[j] = q[place[j]]
              /\ section.start <= q[place[j]].start /\ q[place[j]].end <= section.end
              /\ q[place[j]].start < section.end
              /\ \/ q[place[j]].end = section.end
                 \/ place[j] < Len(q) /\ q[place[j]].end = q[place[j] + 1].start
  <2>1. place[j] \in 1 .. Len(q) /\ c[j] = q[place[j]] /\ Within(q[place[j]], section)
    BY <1>4
  <2>2. section.start <= q[place[j]].start /\ q[place[j]].end <= section.end
    BY <2>1 DEF Within
  <2>3. q[place[j]].start < section.end
    BY <1>6, <1>7, <1>9, <2>1, <2>2
  <2>4. ClauseOf(text, sections, q, place[j], k)
    BY <1>8, <2>1, <2>2, <2>3
  <2> QED BY <2>1, <2>2, <2>3, <2>4 DEF ClauseOf, section
<1>11. ASSUME NEW i \in 1 .. Len(q), section.start <= q[i].start, q[i].start < section.end
       PROVE  \E j \in 1 .. Len(c) : place[j] = i
  <2>1. Within(q[i], section)
    BY <1>8, <1>11 DEF ClauseOf, section
  <2> QED BY <1>4, <2>1
<1>12. ASSUME NEW j \in 1 .. Len(c), place[j] + 1 \in 1 .. Len(q),
              q[place[j] + 1].start < section.end
       PROVE  j < Len(c) /\ place[j + 1] = place[j] + 1
  <2> DEFINE a == place[j]
  <2>1. /\ a \in 1 .. Len(q) /\ section.start <= q[a].start /\ q[a].start < q[a].end
    BY <1>9, <1>10
  <2>2. q[a].end <= q[a + 1].start
    BY <1>2, <1>12, <2>1 DEF Apart
  <2>3. section.start <= q[a + 1].start
    <3>1. q[a].start \in Nat /\ q[a].end \in Nat /\ q[a + 1].start \in Nat
      BY <1>7, <1>12, <2>1
    <3> HIDE DEF a
    <3> QED BY <1>6, <2>1, <2>2, <3>1, Onward
  <2>4. PICK l \in 1 .. Len(c) : place[l] = a + 1
    BY <1>11, <1>12, <2>3
  <2> HIDE DEF a
  <2>5. j < l
    <3>1. \A i \in 1 .. Len(c) : place[i] \in 1 .. Len(q)
      BY <1>10
    <3>2. l < j => place[l] < place[j]
      BY <1>4
    <3>3. l # j
      BY <2>1, <2>4 DEF a
    <3> QED BY <1>5, <2>1, <2>4, <3>2, <3>3 DEF a
  <2>6. j + 1 \in 1 .. Len(c) /\ place[j] < place[j + 1]
    BY <1>4, <1>5, <2>5
  <2>7. j + 1 < l => place[j + 1] < place[l]
    BY <1>4, <2>6
  <2>8. place[j + 1] \in 1 .. Len(q)
    BY <1>10, <2>6
  <2>9. l = j + 1
    BY <1>5, <2>1, <2>4, <2>5, <2>6, <2>7, <2>8 DEF a
  <2> QED BY <2>4, <2>5, <2>9 DEF a
<1>13. ASSUME NEW j \in 1 .. Len(c) - 1 PROVE c[j].end = c[j + 1].start
  <2>1. j \in 1 .. Len(c) /\ j + 1 \in 1 .. Len(c) /\ j < j + 1
    BY <1>5
  <2>2. /\ place[j] \in 1 .. Len(q) /\ place[j + 1] \in 1 .. Len(q) /\ place[j] < place[j + 1]
        /\ c[j] = q[place[j]] /\ c[j + 1] = q[place[j + 1]]
        /\ q[place[j + 1]].start < section.end
    BY <1>4, <1>10, <2>1
  <2>3. q[place[j]].end <= q[place[j + 1]].start
    BY <1>2, <2>2 DEF Apart
  <2>4. q[place[j]].end # section.end
    BY <1>6, <1>7, <2>2, <2>3
  <2>5. place[j] < Len(q) /\ q[place[j]].end = q[place[j] + 1].start
    BY <1>10, <2>1, <2>4
  <2>6. place[j] + 1 \in 1 .. Len(q) /\ q[place[j] + 1].start < section.end
    <3>1. place[j] + 1 \in 1 .. Len(q)
      BY <1>5, <2>2, <2>5
    <3>2. q[place[j]].end \in Nat /\ q[place[j + 1]].start \in Nat
      BY <1>7, <2>2
    <3>3. q[place[j]].end < section.end
      BY <1>6, <2>2, <2>3, <3>2, StandsBefore
    <3> QED BY <2>5, <3>1, <3>3
  <2>7. place[j + 1] = place[j] + 1
    BY <1>12, <2>1, <2>6
  <2> QED BY <2>2, <2>5, <2>7
<1>14. c[Len(c)].end = section.end
  <2>1. Len(c) \in 1 .. Len(c) /\ ~(Len(c) < Len(c))
    BY <1>5
  <2> DEFINE a == place[Len(c)]
  <2>2. /\ a \in 1 .. Len(q) /\ c[Len(c)] = q[a] /\ q[a].end <= section.end
        /\ q[a].end = section.end \/ (a < Len(q) /\ q[a].end = q[a + 1].start)
    BY <1>10, <2>1
  <2>3. ASSUME a < Len(q), q[a].end = q[a + 1].start PROVE q[a].end = section.end
    <3>1. a + 1 \in 1 .. Len(q)
      BY <1>5, <2>2, <2>3
    <3>2. ~(q[a + 1].start < section.end)
      BY <1>12, <2>1, <3>1
    <3> HIDE DEF a
    <3> QED BY <1>6, <1>7, <2>2, <2>3, <3>1, <3>2
  <2> QED BY <2>2, <2>3
<1>15. \A j \in 1 .. Len(c) : c[j].start < c[j].end
  BY <1>9, <1>10
<1>16. section.start <= c[1].start
  <2>1. 1 \in 1 .. Len(c)
    BY <1>5
  <2> QED BY <1>10, <2>1
<1>17. Tiles(c, c[1].start, section.end)
  BY <1>3, <1>5, <1>13, <1>14, <1>15 DEF Tiles
<1> QED BY <1>16, <1>17 DEF c, section, sections


-----------------------------------------------------------------------------
(* Parents made of clauses.                                                *)

LEMMA JoinIsMade ==
    ASSUME NEW section \in Spans, NEW size, NEW clause \in Spans,
           NEW s \in Seq(Spans), s # <<>>
    PROVE  Join(section, size, s, clause) \in Seq(Spans) \ {<<>>}
<1> DEFINE last == s[Len(s)]
<1>1. Len(s) \in Nat /\ Len(s) > 0 /\ last \in Spans
  OBVIOUS
<1>2. last.start \in Nat /\ clause.start \in Nat /\ clause.end \in Nat
  BY <1>1, SpansAreRecords
<1>3. Span(clause.start, clause.end) \in Spans /\ Span(last.start, clause.end) \in Spans
  BY <1>2, SpansAreRecords
<1>4. Append(s, Span(clause.start, clause.end)) \in Seq(Spans) \ {<<>>}
  BY <1>3
<1>5. [s EXCEPT ![Len(s)] = Span(last.start, clause.end)] \in Seq(Spans) \ {<<>>}
  <2> DEFINE e == Span(last.start, clause.end)
  <2>1. e \in Spans
    BY <1>3
  <2> HIDE DEF e
  <2>2. [s EXCEPT ![Len(s)] = e] \in Seq(Spans) /\ Len([s EXCEPT ![Len(s)] = e]) = Len(s)
    BY <1>1, <2>1
  <2> QED BY <1>1, <2>2 DEF e
<1> QED BY <1>4, <1>5 DEF Join

(* The parents of a section that has clauses are joined one by one.        *)
JoinsBy(joined, size, section, c) ==
    /\ joined[0] = <<Span(section.start, section.start)>>
    /\ \A i \in 1 .. Len(c) : joined[i] = Join(section, size, joined[i - 1], c[i])

LEMMA JoiningRecurs ==
    ASSUME NEW text, NEW size, NEW section \in Spans,
           ClausesIn(text, section) \in Seq(Spans) \ {<<>>}
    PROVE  \E joined :
              /\ ParentRanges(text, size, section) = joined[Len(ClausesIn(text, section))]
              /\ JoinsBy(joined, size, section, ClausesIn(text, section))
<1> DEFINE c == ClausesIn(text, section)
<1> DEFINE n == Len(c)
<1> DEFINE V == Seq(Spans) \ {<<>>}
<1> DEFINE base == <<Span(section.start, section.start)>>
<1> DEFINE J(i, k) == Join(section, size, k, c[i])
<1> DEFINE step == [i \in 1 .. n |-> [k \in V |-> J(i, k)]]
<1> DEFINE Step(f) == [i \in 0 .. n |-> IF i = 0 THEN base ELSE J(i, f[i - 1])]
<1> DEFINE joined == CHOOSE k : k = Step(k)
<1>0. ParentRanges(text, size, section) = joined[n]
  BY DEF ParentRanges
<1> HIDE DEF c
<1>1. n \in Nat /\ base \in V
  <2>1. Span(section.start, section.start) \in Spans
    BY SpansAreRecords
  <2>2. c \in Seq(Spans)
    BY DEF c
  <2> QED BY <2>1, <2>2
<1>2. \A i \in 1 .. n, k \in V : J(i, k) \in V
  <2> TAKE i \in 1 .. n, k \in V
  <2>1. c[i] \in Spans
    BY DEF c
  <2> QED BY <2>1, JoinIsMade
<1> HIDE DEF n, V, J, base
<1>3. step \in [1 .. n -> [V -> V]]
  BY <1>2
<1>4. \E f \in [0 .. n -> V] : GoesBy(f, n, base, step)
  <2> HIDE DEF step
  <2> QED BY <1>1, <1>3, RecursionDefines
<1>5. PICK f \in [0 .. n -> V] : f[0] = base /\ \A i \in 1 .. n : f[i] = step[i][f[i - 1]]
  BY <1>4 DEF GoesBy
<1>6. \A i \in 0 .. n : f[i] = Step(f)[i]
  <2> TAKE i \in 0 .. n
  <2>1. CASE i = 0
    BY <1>1, <1>5, <2>1
  <2>2. CASE i # 0
    <3>1. i \in 1 .. n /\ i - 1 \in 0 .. n
      BY <1>1, <2>2
    <3>2. f[i - 1] \in V
      BY <3>1
    <3> QED BY <1>5, <2>2, <3>1, <3>2
  <2> QED BY <2>1, <2>2
<1>7. f = Step(f)
  BY <1>6
<1>8. joined = Step(joined)
  <2> HIDE DEF Step
  <2> QED BY <1>7
<1> HIDE DEF joined
<1>9. joined[0] = base /\ \A i \in 1 .. n : joined[i] = J(i, joined[i - 1])
  <2>1. \A i \in 0 .. n : joined[i] = IF i = 0 THEN base ELSE J(i, joined[i - 1])
    BY <1>8
  <2>2. 0 \in 0 .. n /\ \A i \in 1 .. n : i \in 0 .. n /\ i # 0
    BY <1>1
  <2> QED BY <2>1, <2>2
<1> QED BY <1>0, <1>9 DEF JoinsBy, n, J, base, c

(* The last of the spans may end later.                                    *)
LEMMA TilesStretch ==
    ASSUME NEW s, NEW a, NEW b, Tiles(s, a, b), NEW c \in Nat, b < c
    PROVE  LET t == [s EXCEPT ![Len(s)] = Span(s[Len(s)].start, c)]
           IN  /\ Tiles(t, a, c) /\ Len(t) = Len(s)
               /\ t[Len(s)] = Span(s[Len(s)].start, c)
               /\ \A i \in 1 .. Len(s) - 1 : t[i] = s[i]
<1> DEFINE e == Span(s[Len(s)].start, c)
<1> DEFINE t == [s EXCEPT ![Len(s)] = e]
<1>1. s \in Seq(Spans) /\ Len(s) \in Nat /\ Len(s) > 0 /\ Len(s) \in 1 .. Len(s)
  BY DEF Tiles
<1>2. s[Len(s)].start \in Nat /\ s[Len(s)].start < s[Len(s)].end /\ s[Len(s)].end = b /\ b \in Nat
  <2>1. s[Len(s)] \in Spans
    BY <1>1
  <2> QED BY <1>1, <2>1, SpansAreRecords DEF Tiles
<1>3. e \in Spans /\ e.start = s[Len(s)].start /\ e.end = c /\ e.start < e.end
  BY <1>2, SpansAreRecords
<1> HIDE DEF e
<1>4. /\ t \in Seq(Spans) /\ Len(t) = Len(s) /\ t[Len(s)] = e
      /\ \A i \in 1 .. Len(s) - 1 : t[i] = s[i]
  BY <1>1, <1>3
<1> HIDE DEF t
<1>5. t[1].start = a
  <2>1. CASE Len(s) = 1
    BY <1>3, <1>4, <2>1 DEF Tiles
  <2>2. CASE Len(s) # 1
    <3>1. 1 \in 1 .. Len(s) - 1
      BY <1>1, <2>2
    <3> QED BY <1>4, <3>1 DEF Tiles
  <2> QED BY <2>1, <2>2
<1>6. ASSUME NEW i \in 1 .. Len(t) PROVE t[i].start < t[i].end
  <2>1. CASE i = Len(s)
    BY <1>3, <1>4, <2>1
  <2>2. CASE i # Len(s)
    <3>1. i \in 1 .. Len(s) - 1 /\ i \in 1 .. Len(s)
      BY <1>1, <1>4, <2>2
    <3> QED BY <1>4, <3>1 DEF Tiles
  <2> QED BY <2>1, <2>2
<1>7. ASSUME NEW i \in 1 .. Len(t) - 1 PROVE t[i].end = t[i + 1].start
  <2>1. i \in 1 .. Len(s) - 1 /\ s[i].end = s[i + 1].start /\ t[i] = s[i]
    BY <1>4 DEF Tiles
  <2>2. t[i + 1].start = s[i + 1].start
    <3>1. CASE i + 1 = Len(s)
      BY <1>3, <1>4, <3>1
    <3>2. CASE i + 1 # Len(s)
      <4>1. i + 1 \in 1 .. Len(s) - 1
        BY <1>1, <2>1, <3>2
      <4> QED BY <1>4, <4>1
    <3> QED BY <3>1, <3>2
  <2> QED BY <2>1, <2>2
<1>8. Tiles(t, a, c)
  BY <1>1, <1>3, <1>4, <1>5, <1>6, <1>7 DEF Tiles
<1> QED BY <1>4, <1>8 DEF t, e

(* One more may be put after them.                                         *)
LEMMA TilesGrow ==
    ASSUME NEW s, NEW a, NEW b, Tiles(s, a, b), NEW c \in Nat, b < c
    PROVE  LET t == Append(s, Span(b, c))
           IN  /\ Tiles(t, a, c) /\ Len(t) = Len(s) + 1
               /\ t[Len(s) + 1] = Span(b, c)
               /\ \A i \in 1 .. Len(s) : t[i] = s[i]
<1> DEFINE e == Span(b, c)
<1>1. s \in Seq(Spans) /\ Len(s) \in Nat /\ Len(s) > 0
  BY DEF Tiles
<1>2. b \in Nat
  BY TilesShareOut
<1>3. e \in Spans /\ Tiles(<<e>>, b, c)
  BY <1>2, SpansAreRecords, TileOfOne
<1> HIDE DEF e
<1>4. Tiles(s \o <<e>>, a, c)
  BY <1>3, TilesJoin
<1>5. /\ Append(s, e) = s \o <<e>>
      /\ Len(Append(s, e)) = Len(s) + 1
      /\ Append(s, e)[Len(s) + 1] = e
      /\ \A i \in 1 .. Len(s) : Append(s, e)[i] = s[i]
  BY <1>1, <1>3
<1> QED BY <1>4, <1>5 DEF e

(* A span of the text holds one clause at most.                            *)
HoldsOne(span, clauses, n) ==
    \A j, l \in 1 .. n : Within(clauses[j], span) /\ Within(clauses[l], span) => j = l

(* Parents made of the first n clauses of a section.                       *)
Gathers(s, clauses, n, size, from) ==
    /\ Tiles(s, from, clauses[n].end)
    /\ \A j \in 1 .. n : \E i \in 1 .. Len(s) : Within(clauses[j], s[i])
    /\ \A i \in 1 .. Len(s) : \/ s[i].end - s[i].start <= size.parent
                              \/ HoldsOne(s[i], clauses, n)

LEMMA TileNumbers ==
    ASSUME NEW s, NEW a, NEW b, Tiles(s, a, b), NEW i \in 1 .. Len(s)
    PROVE  /\ s[i].start \in Nat /\ s[i].end \in Nat /\ s[i].start < s[i].end
           /\ a <= s[i].start /\ s[i].end <= b
           /\ a \in Nat /\ b \in Nat
<1>1. s[i] \in Spans
  BY DEF Tiles
<1> QED BY <1>1, SpansAreRecords, TilesShareOut DEF Tiles

(* A clause that is not empty is not within what ends before it starts.    *)
LEMMA NotWithin ==
    ASSUME NEW x, NEW y, x.start \in Nat, x.end \in Nat, y.start \in Nat, y.end \in Nat,
           x.start < x.end, y.end <= x.start \/ x.end <= y.start
    PROVE  ~Within(x, y)
BY DEF Within

LEMMA GatheringGoesOn ==
    ASSUME NEW size \in Sizes, NEW section \in Spans, NEW q, NEW a, NEW z, Tiles(q, a, z),
           NEW n \in Nat \ {0}, n + 1 <= Len(q), NEW s, Gathers(s, q, n, size, section.start)
    PROVE  Gathers(Join(section, size, s, q[n + 1]), q, n + 1, size, section.start)
<1> DEFINE clause == q[n + 1]
<1> DEFINE last == s[Len(s)]
<1> DEFINE b == q[n].end
<1> DEFINE from == section.start
<1>0. Len(q) \in Nat /\ n \in 1 .. Len(q) - 1 /\ n \in 1 .. Len(q) /\ n + 1 \in 1 .. Len(q)
  BY DEF Tiles
<1>1. /\ clause.start = b /\ b \in Nat /\ clause.start \in Nat /\ clause.end \in Nat
      /\ b < clause.end
  BY <1>0, TileNumbers DEF Tiles
<1>2. \A j \in 1 .. n : /\ j \in 1 .. Len(q) /\ q[j].start \in Nat /\ q[j].end \in Nat
                        /\ q[j].start < q[j].end /\ q[j].end <= b
  <2> TAKE j \in 1 .. n
  <2>1. j \in 1 .. Len(q) /\ j < n + 1
    BY <1>0
  <2>2. Apart(q)
    BY TilesShareOut
  <2>3. q[j].end <= q[n + 1].start
    BY <1>0, <2>1, <2>2 DEF Apart
  <2> QED BY <1>1, <2>1, <2>3, TileNumbers
<1>3. Tiles(s, from, b)
  BY DEF Gathers
<1>4. Len(s) \in Nat /\ Len(s) \in 1 .. Len(s)
  BY <1>3 DEF Tiles
<1>5. /\ last.start \in Nat /\ last.end = b /\ last.start < last.end /\ from \in Nat
  BY <1>3, <1>4, TileNumbers DEF Tiles
<1>6. \A i \in 1 .. Len(s) : /\ s[i].start \in Nat /\ s[i].end \in Nat /\ s[i].end <= b
  BY <1>3, TileNumbers
<1>7. \A j \in 1 .. n : \E i \in 1 .. Len(s) : Within(q[j], s[i])
  BY DEF Gathers
<1>8. \A i \in 1 .. Len(s) : s[i].end - s[i].start <= size.parent \/ HoldsOne(s[i], q, n)
  BY DEF Gathers
<1>9. \A i \in 1 .. Len(s) : ~Within(clause, s[i])
  BY <1>1, <1>6, NotWithin
<1>10. \A j \in 1 .. n + 1 : j \in 1 .. n \/ j = n + 1
  OBVIOUS
<1> HIDE DEF clause, last, b, from
<1>11. \A i \in 1 .. Len(s) : HoldsOne(s[i], q, n) => HoldsOne(s[i], q, n + 1)
  BY <1>9, <1>10 DEF HoldsOne, clause
<1>12. CASE clause.end - last.start > size.parent
  <2> DEFINE t == Append(s, Span(b, clause.end))
  <2>1. Join(section, size, s, clause) = t
    BY <1>1, <1>5, <1>12 DEF Join, last
  <2>2. /\ Tiles(t, from, clause.end) /\ Len(t) = Len(s) + 1
        /\ t[Len(s) + 1] = Span(b, clause.end)
        /\ \A i \in 1 .. Len(s) : t[i] = s[i]
    BY <1>1, <1>3, TilesGrow
  <2> HIDE DEF t
  <2>3. /\ t[Len(s) + 1].start = b /\ t[Len(s) + 1].end = clause.end
        /\ Within(clause, t[Len(s) + 1])
    BY <1>1, <2>2, SpansAreRecords DEF Within
  <2>4. \A j \in 1 .. n : ~Within(q[j], t[Len(s) + 1])
    BY <1>1, <1>2, <2>3, NotWithin
  <2>5. HoldsOne(t[Len(s) + 1], q, n + 1)
    BY <1>10, <2>4 DEF HoldsOne
  <2>6. \A i \in 1 .. Len(t) : i \in 1 .. Len(s) \/ i = Len(s) + 1
    BY <1>4, <2>2
  <2>7. \A i \in 1 .. Len(t) : t[i].end - t[i].start <= size.parent \/ HoldsOne(t[i], q, n + 1)
    BY <1>8, <1>11, <2>2, <2>5, <2>6
  <2>8. Len(s) + 1 \in 1 .. Len(t) /\ \A i \in 1 .. Len(s) : i \in 1 .. Len(t)
    BY <1>4, <2>2
  <2>9. \A j \in 1 .. n + 1 : \E i \in 1 .. Len(t) : Within(q[j], t[i])
    <3> TAKE j \in 1 .. n + 1
    <3>1. CASE j = n + 1
      BY <2>3, <2>8, <3>1 DEF clause
    <3>2. CASE j \in 1 .. n
      <4>1. PICK i \in 1 .. Len(s) : Within(q[j], s[i])
        BY <1>7, <3>2
      <4> QED BY <2>2, <2>8, <4>1
    <3> QED BY <1>10, <3>1, <3>2
  <2> QED BY <2>1, <2>2, <2>7, <2>9 DEF Gathers, clause, from
<1>13. CASE ~(clause.end - last.start > size.parent)
  <2> DEFINE t == [s EXCEPT ![Len(s)] = Span(last.start, clause.end)]
  <2>1. Join(section, size, s, clause) = t
    BY <1>13 DEF Join, last
  <2>2. /\ Tiles(t, from, clause.end) /\ Len(t) = Len(s)
        /\ t[Len(s)] = Span(last.start, clause.end)
        /\ \A i \in 1 .. Len(s) - 1 : t[i] = s[i]
    <3> DEFINE e == clause.end
    <3>1. e \in Nat /\ b < e
      BY <1>1
    <3> HIDE DEF e
    <3> DEFINE u == [s EXCEPT ![Len(s)] = Span(s[Len(s)].start, e)]
    <3>2. /\ Tiles(u, from, e) /\ Len(u) = Len(s)
          /\ u[Len(s)] = Span(s[Len(s)].start, e)
          /\ \A i \in 1 .. Len(s) - 1 : u[i] = s[i]
      BY <1>3, <3>1, TilesStretch
    <3>3. t = u
      BY DEF last, e
    <3> HIDE DEF t, u
    <3> QED BY <3>2, <3>3 DEF last, e
  <2> HIDE DEF t
  <2>3. /\ t[Len(s)].start = last.start /\ t[Len(s)].end = clause.end
    BY <1>1, <1>5, <2>2, SpansAreRecords
  <2>4. t[Len(s)].end - t[Len(s)].start <= size.parent
    <3>1. size.parent \in Nat
      BY SizesAreNumbers
    <3>2. clause.end - last.start \in Int
      BY <1>1, <1>5
    <3>3. clause.end - last.start <= size.parent
      BY <1>13, <3>1, <3>2
    <3> QED BY <2>3, <3>3
  <2>5. \A i \in 1 .. Len(t) : (i \in 1 .. Len(s) /\ i \in 1 .. Len(s) - 1) \/ i = Len(s)
    BY <1>4, <2>2
  <2>6. \A i \in 1 .. Len(t) : t[i].end - t[i].start <= size.parent \/ HoldsOne(t[i], q, n + 1)
    BY <1>8, <1>11, <2>2, <2>4, <2>5
  <2>7. Within(clause, t[Len(s)])
    BY <1>1, <1>5, <2>3 DEF Within
  <2>8. \A j \in 1 .. n + 1 : \E i \in 1 .. Len(t) : Within(q[j], t[i])
    <3> TAKE j \in 1 .. n + 1
    <3>1. CASE j = n + 1
      BY <1>4, <2>2, <2>7, <3>1 DEF clause
    <3>2. CASE j \in 1 .. n
      <4>1. PICK i \in 1 .. Len(s) : Within(q[j], s[i])
        BY <1>7, <3>2
      <4>2. CASE i = Len(s)
        <5>1. last.start <= q[j].start /\ q[j].end <= last.end
          BY <4>1, <4>2 DEF Within, last
        <5>2. q[j].end <= clause.end
          BY <1>1, <1>2, <3>2
        <5>3. Within(q[j], t[Len(s)])
          BY <2>3, <5>1, <5>2 DEF Within
        <5> QED BY <1>4, <2>2, <5>3
      <4>3. CASE i # Len(s)
        <5>1. t[i] = s[i] /\ i \in 1 .. Len(t)
          BY <2>2, <2>5, <4>3
        <5> QED BY <4>1, <5>1
      <4> QED BY <4>2, <4>3
    <3> QED BY <1>10, <3>1, <3>2
  <2> QED BY <2>1, <2>2, <2>6, <2>8 DEF Gathers, clause, from
<1> QED BY <1>12, <1>13 DEF clause

(* The parents a section is cut into share it out, hold its clauses, and   *)
(* are as large as they may be or hold one clause.                         *)
LEMMA ParentRangesHold ==
    ASSUME NEW text \in Seq(Kinds), NEW size \in Sizes, Len(text) > 0,
           NEW k \in 1 .. Len(Sections(text))
    PROVE  LET section == Sections(text)[k]
               c == ClausesIn(text, section)
               r == ParentRanges(text, size, section)
           IN  /\ Tiles(r, section.start, section.end)
               /\ \A j \in 1 .. Len(c) : \E i \in 1 .. Len(r) : Within(c[j], r[i])
               /\ \A i \in 1 .. Len(r) : r[i].end - r[i].start <= size.parent \/ HoldsOne(r[i], c, Len(c))
<1> DEFINE section == Sections(text)[k]
<1> DEFINE c == ClausesIn(text, section)
<1> DEFINE r == ParentRanges(text, size, section)
<1>1. Tiles(Sections(text), 0, Len(text))
  BY SectionsTile
<1>2. /\ section \in Spans
      /\ section.start \in Nat /\ section.end \in Nat /\ section.start < section.end
  BY <1>1, TileNumbers DEF Tiles
<1>3. c \in Seq(Spans)
  BY ClausesHold, ClausesInKeep
<1>4. CASE c = <<>>
  <2>1. r = <<section>>
    BY <1>4 DEF ParentRanges
  <2>2. section = Span(section.start, section.end)
    BY <1>2 DEF Spans, Span
  <2>3. Tiles(<<Span(section.start, section.end)>>, section.start, section.end)
    BY <1>2, TileOfOne
  <2>4. Tiles(r, section.start, section.end)
    BY <2>1, <2>2, <2>3
  <2> HIDE DEF r, section, c
  <2> QED BY <1>4, <2>4 DEF HoldsOne, r, section, c
<1>5. CASE c # <<>>
  <2>1. Tiles(c, c[1].start, section.end) /\ section.start <= c[1].start
    BY <1>5, ClausesOfSectionTile
  <2>2. c \in Seq(Spans) \ {<<>>}
    BY <1>3, <1>5
  <2>3. \E joined : r = joined[Len(c)] /\ JoinsBy(joined, size, section, c)
    <3>1. section \in Spans /\ ClausesIn(text, section) \in Seq(Spans) \ {<<>>}
      BY <1>2, <2>2
    <3> HIDE DEF section
    <3> QED BY <3>1, JoiningRecurs
  <2> HIDE DEF c, r, section
  <2>4. PICK joined : r = joined[Len(c)] /\ JoinsBy(joined, size, section, c)
    BY <2>3
  <2>5. \A i \in 1 .. Len(c) : joined[i] = Join(section, size, joined[i - 1], c[i])
    BY <2>4 DEF JoinsBy
  <2>6. joined[0] = <<Span(section.start, section.start)>>
    BY <2>4 DEF JoinsBy
  <2>7. Len(c) \in Nat \ {0} /\ 1 \in 1 .. Len(c)
    BY <2>2
  <2>8. /\ c[1].start \in Nat /\ c[1].end \in Nat /\ c[1].start < c[1].end
        /\ c[Len(c)].end = section.end
    BY <2>1, <2>7, TileNumbers DEF Tiles
  <2>9. Gathers(joined[1], c, 1, size, section.start)
    <3> DEFINE first == <<Span(section.start, section.start)>>
    <3> DEFINE only == Span(section.start, c[1].end)
    <3>1. joined[1] = Join(section, size, first, c[1])
      <4>1. 1 - 1 = 0
        OBVIOUS
      <4> QED BY <2>5, <2>6, <2>7, <4>1
    <3>2. Span(section.start, section.start).start = Span(section.start, section.start).end
      BY <1>2, SpansAreRecords
    <3>3. first[Len(first)] = Span(section.start, section.start) /\ Len(first) = 1
      OBVIOUS
    <3>4. first[Len(first)].start = section.start /\ first[Len(first)].end = section.start
      BY <1>2, <3>3, SpansAreRecords
    <3> HIDE DEF first
    <3>5. ~(first[Len(first)].end > first[Len(first)].start)
      BY <1>2, <3>4
    <3>6. joined[1] = [first EXCEPT ![Len(first)] = Span(first[Len(first)].start, c[1].end)]
      BY <3>1, <3>5 DEF Join
    <3>7. joined[1] = [first EXCEPT ![1] = only]
      BY <3>3, <3>4, <3>6
    <3>8. joined[1] = <<only>>
      BY <3>7 DEF first
    <3>9. section.start < c[1].end
      BY <1>2, <2>1, <2>8
    <3>10. Tiles(<<only>>, section.start, c[1].end)
      BY <1>2, <2>8, <3>9, TileOfOne
    <3>11. Within(c[1], only)
      BY <1>2, <2>1, <2>8, SpansAreRecords DEF Within
    <3> HIDE DEF only
    <3> QED BY <3>8, <3>10, <3>11 DEF Gathers, HoldsOne
  <2> DEFINE R == {n \in Nat : n + 1 <= Len(c) => Gathers(joined[n + 1], c, n + 1, size, section.start)}
  <2>10. 0 \in R
    BY <2>9
  <2>11. ASSUME NEW n \in Nat, n \in R PROVE n + 1 \in R
    <3> SUFFICES ASSUME n + 1 + 1 <= Len(c)
                 PROVE  Gathers(joined[n + 1 + 1], c, n + 1 + 1, size, section.start)
      OBVIOUS
    <3> DEFINE m == n + 1
    <3>1. m \in Nat \ {0} /\ m + 1 <= Len(c) /\ m <= Len(c) /\ (m + 1) - 1 = m /\ m + 1 \in 1 .. Len(c)
      BY <2>7
    <3>2. Gathers(joined[m], c, m, size, section.start)
      BY <2>11, <3>1
    <3> HIDE DEF m
    <3>3. joined[m + 1] = Join(section, size, joined[m], c[m + 1])
      BY <2>5, <3>1
    <3>4. Gathers(joined[m + 1], c, m + 1, size, section.start)
      BY <1>2, <2>1, <3>1, <3>2, <3>3, GatheringGoesOn
    <3> QED BY <3>4 DEF m
  <2>12. Nat \subseteq R
    <3> HIDE DEF R
    <3> QED BY <2>10, <2>11, NatsAreReached
  <2>13. Gathers(joined[Len(c)], c, Len(c), size, section.start)
    <3>1. Len(c) - 1 \in Nat /\ (Len(c) - 1) + 1 = Len(c) /\ Len(c) <= Len(c)
      BY <2>7
    <3> QED BY <2>12, <3>1
  <2>14. Gathers(r, c, Len(c), size, section.start)
    BY <2>4, <2>13
  <2> QED BY <2>8, <2>14 DEF Gathers, c, r, section
<1> QED BY <1>4, <1>5

(* What holds one clause of its section holds one clause of the text.      *)
LEMMA OneOfAll ==
    ASSUME NEW text, Clauses(text) \in Seq(Spans), NEW section \in Spans, NEW span \in Spans,
           Within(span, section),
           HoldsOne(span, ClausesIn(text, section), Len(ClausesIn(text, section)))
    PROVE  HoldsOne(span, Clauses(text), Len(Clauses(text)))
<1> DEFINE q == Clauses(text)
<1> DEFINE c == ClausesIn(text, section)
<1>1. \E place : HeldAt(place, c, q, section)
  BY ClausesInKeep
<1>2. q \in Seq(Spans) /\ HoldsOne(span, c, Len(c))
  OBVIOUS
<1> HIDE DEF q, c
<1>3. PICK place :
         /\ place \in [1 .. Len(c) -> 1 .. Len(q)]
         /\ \A j \in 1 .. Len(c) : c[j] = q[place[j]] /\ Within(q[place[j]], section)
         /\ \A i, j \in 1 .. Len(c) : i < j => place[i] < place[j]
         /\ \A i \in 1 .. Len(q) : Within(q[i], section) => \E j \in 1 .. Len(c) : place[j] = i
  BY <1>1 DEF HeldAt
<1>4. ASSUME NEW i \in 1 .. Len(q), Within(q[i], span)
      PROVE  \E j \in 1 .. Len(c) : place[j] = i /\ Within(c[j], span)
  <2>1. q[i] \in Spans
    BY <1>2
  <2>2. Within(q[i], section)
    BY <1>4, <2>1, SpansAreRecords DEF Within
  <2>3. PICK j \in 1 .. Len(c) : place[j] = i
    BY <1>3, <2>2
  <2>4. c[j] = q[i]
    BY <1>3, <2>3
  <2> QED BY <1>4, <2>3, <2>4
<1>5. ASSUME NEW i \in 1 .. Len(q), NEW l \in 1 .. Len(q), Within(q[i], span), Within(q[l], span)
      PROVE  i = l
  <2>1. PICK j \in 1 .. Len(c) : place[j] = i /\ Within(c[j], span)
    BY <1>4, <1>5
  <2>2. PICK m \in 1 .. Len(c) : place[m] = l /\ Within(c[m], span)
    BY <1>4, <1>5
  <2>3. j = m
    BY <1>2, <2>1, <2>2 DEF HoldsOne
  <2> QED BY <2>1, <2>2, <2>3
<1> QED BY <1>5 DEF HoldsOne, q

Ranges(text, size) ==
    FlattenSeq([i \in DOMAIN Sections(text) |-> ParentRanges(text, size, Sections(text)[i])])

(* So the parents share the text out, each clause is in one, and those     *)
(* that are too large hold one clause.                                     *)
LEMMA RangesHold ==
    ASSUME NEW text \in Seq(Kinds), NEW size \in Sizes, Len(text) > 0
    PROVE  LET r == Ranges(text, size)
               q == Clauses(text)
           IN  /\ Tiles(r, 0, Len(text))
               /\ \A i \in 1 .. Len(q) : \E m \in 1 .. Len(r) : Within(q[i], r[m])
               /\ \A m \in 1 .. Len(r) : r[m].end - r[m].start <= size.parent \/ HoldsOne(r[m], q, Len(q))
<1> DEFINE sections == Sections(text)
<1> DEFINE parts == [i \in DOMAIN sections |-> ParentRanges(text, size, sections[i])]
<1> DEFINE r == Ranges(text, size)
<1> DEFINE q == Clauses(text)
<1> DEFINE c(k) == ClausesIn(text, sections[k])
<1>0. r = FlattenSeq(parts)
  BY DEF Ranges
<1> HIDE DEF r
<1>1. Tiles(sections, 0, Len(text))
  BY SectionsTile
<1>2. /\ q \in Seq(Spans)
      /\ \A i \in 1 .. Len(q) : \E k \in 1 .. Len(sections) : ClauseOf(text, sections, q, i, k)
  BY ClausesHold
<1>3. /\ sections \in Seq(Spans) /\ Len(sections) \in Nat /\ DOMAIN sections = 1 .. Len(sections)
      /\ \A k \in 1 .. Len(sections) : sections[k] \in Spans
  BY <1>1 DEF Tiles
<1>4. ASSUME NEW k \in 1 .. Len(sections)
      PROVE  /\ Tiles(parts[k], sections[k].start, sections[k].end)
             /\ \A j \in 1 .. Len(c(k)) : \E i \in 1 .. Len(parts[k]) : Within(c(k)[j], parts[k][i])
             /\ \A i \in 1 .. Len(parts[k]) :
                   \/ parts[k][i].end - parts[k][i].start <= size.parent
                   \/ HoldsOne(parts[k][i], c(k), Len(c(k)))
  <2>1. parts[k] = ParentRanges(text, size, sections[k])
    BY <1>3
  <2> HIDE DEF parts
  <2> QED BY <2>1, ParentRangesHold
<1>5. parts \in Seq(Seq(Spans)) /\ Len(parts) = Len(sections)
  <2>1. \A k \in 1 .. Len(sections) : parts[k] \in Seq(Spans)
    BY <1>4 DEF Tiles
  <2>2. parts \in [1 .. Len(sections) -> Seq(Spans)]
    BY <1>3, <2>1
  <2> QED BY <1>3, <2>2
<1> HIDE DEF parts
<1>6. Tiles(r, 0, Len(text))
  BY <1>0, <1>1, <1>4, <1>5, FlatteningTiles
<1>7. Pieces(r, parts, Len(parts))
  BY <1>0, <1>5, FlatteningKeeps
<1>8. ASSUME NEW i \in 1 .. Len(q) PROVE \E m \in 1 .. Len(r) : Within(q[i], r[m])
  <2>1. PICK k \in 1 .. Len(sections) : ClauseOf(text, sections, q, i, k)
    BY <1>2
  <2>2. Within(q[i], sections[k])
    BY <2>1 DEF ClauseOf
  <2>3. \E place : HeldAt(place, c(k), q, sections[k])
    BY <1>2, ClausesInKeep
  <2>4. \E j \in 1 .. Len(c(k)) : c(k)[j] = q[i]
    <3> HIDE DEF c, q
    <3> QED BY <2>2, <2>3 DEF HeldAt
  <2>5. PICK j \in 1 .. Len(c(k)) : c(k)[j] = q[i]
    BY <2>4
  <2>6. PICK n \in 1 .. Len(parts[k]) : Within(c(k)[j], parts[k][n])
    BY <1>4
  <2>7. PICK m \in 1 .. Len(r) : r[m] = parts[k][n]
    BY <1>5, <1>7 DEF Pieces
  <2> QED BY <2>5, <2>6, <2>7
<1>9. ASSUME NEW m \in 1 .. Len(r)
      PROVE  r[m].end - r[m].start <= size.parent \/ HoldsOne(r[m], q, Len(q))
  <2>1. PICK k \in 1 .. Len(sections) : \E n \in 1 .. Len(parts[k]) : r[m] = parts[k][n]
    <3>1. \E k \in 1 .. Len(parts) : \E n \in 1 .. Len(parts[k]) : r[m] = parts[k][n]
      BY <1>7 DEF Pieces
    <3>2. Len(parts) = Len(sections)
      BY <1>5
    <3> HIDE DEF sections
    <3> QED BY <3>1, <3>2
  <2>2. PICK n \in 1 .. Len(parts[k]) : r[m] = parts[k][n]
    BY <2>1
  <2>3. CASE parts[k][n].end - parts[k][n].start <= size.parent
    BY <2>2, <2>3
  <2>4. CASE HoldsOne(parts[k][n], c(k), Len(c(k)))
    <3>1. Within(r[m], sections[k])
      BY <1>4, <2>2, TileNumbers DEF Within
    <3>2. r[m] \in Spans
      BY <1>6 DEF Tiles
    <3>3. HoldsOne(r[m], c(k), Len(c(k)))
      BY <2>2, <2>4
    <3> QED BY <1>2, <1>3, <3>1, <3>2, <3>3, OneOfAll
  <2> QED BY <1>4, <2>3, <2>4
<1> QED BY <1>6, <1>8, <1>9 DEF r

(* The parents that are kept: apart, with all that is written and all the  *)
(* clauses.                                                                *)
LEMMA ParentsHold ==
    ASSUME NEW text \in Seq(Kinds), NEW size \in Sizes, Len(text) > 0
    PROVE  LET parents == WrittenSpans(text, Ranges(text, size))
               q == Clauses(text)
           IN  /\ parents \in Seq(Spans) /\ Apart(parents)
               /\ \A p \in 1 .. Len(text) : text[p] # Blank =>
                     \E i \in 1 .. Len(parents) : parents[i].start < p /\ p <= parents[i].end
               /\ \A i \in 1 .. Len(q) : \E m \in 1 .. Len(parents) : Within(q[i], parents[m])
               /\ \A m \in 1 .. Len(parents) : \/ parents[m].end - parents[m].start <= size.parent
                                               \/ HoldsOne(parents[m], q, Len(q))
<1> DEFINE r == Ranges(text, size)
<1> DEFINE parents == WrittenSpans(text, r)
<1> DEFINE q == Clauses(text)
<1>1. /\ Tiles(r, 0, Len(text))
      /\ \A i \in 1 .. Len(q) : \E m \in 1 .. Len(r) : Within(q[i], r[m])
      /\ \A m \in 1 .. Len(r) : r[m].end - r[m].start <= size.parent \/ HoldsOne(r[m], q, Len(q))
  BY RangesHold
<1>2. /\ q \in Seq(Spans)
      /\ \A i \in 1 .. Len(q) : q[i].start < q[i].end /\ text[q[i].start + 1] = "clause"
  BY ClausesHold DEF ClauseOf
<1> HIDE DEF r, q
<1>3. r \in Seq(Spans) /\ Apart(r)
  BY <1>1, TilesShareOut DEF Tiles
<1>4. /\ parents \in Seq(Spans) /\ Apart(parents)
      /\ \A i \in 1 .. Len(parents) : \E m \in 1 .. Len(r) : parents[i] = r[m]
      /\ \A m \in 1 .. Len(r) :
            ~IsBlank(text, r[m].start, r[m].end) => \E i \in 1 .. Len(parents) : parents[i] = r[m]
  BY <1>3, WrittenSpansKeep
<1>5. \A p \in 1 .. Len(text) : text[p] # Blank =>
          \E i \in 1 .. Len(parents) : parents[i].start < p /\ p <= parents[i].end
  BY <1>1, WrittenTilesCover
<1> HIDE DEF parents
<1>6. ASSUME NEW i \in 1 .. Len(q) PROVE \E m \in 1 .. Len(parents) : Within(q[i], parents[m])
  <2>1. PICK m \in 1 .. Len(r) : Within(q[i], r[m])
    BY <1>1
  <2>2. q[i] \in Spans /\ r[m] \in Spans
    BY <1>2, <1>3
  <2>3. /\ q[i].start \in Nat /\ q[i].end \in Nat /\ q[i].start < q[i].end
        /\ r[m].start \in Nat /\ r[m].end \in Nat
        /\ r[m].start <= q[i].start /\ q[i].end <= r[m].end
    BY <1>2, <2>1, <2>2, SpansAreRecords DEF Within
  <2>4. q[i].start + 1 \in r[m].start + 1 .. r[m].end
    BY <2>3
  <2>5. ~IsBlank(text, r[m].start, r[m].end)
    BY <1>2, <2>4 DEF IsBlank, Blank
  <2> QED BY <1>4, <2>1, <2>5
<1>7. \A m \in 1 .. Len(parents) : \/ parents[m].end - parents[m].start <= size.parent
                                   \/ HoldsOne(parents[m], q, Len(q))
  BY <1>1, <1>4
<1> QED BY <1>4, <1>5, <1>6, <1>7 DEF parents, r, q

LEMMA OffsetInside ==
    ASSUME NEW a \in Nat, NEW b \in Nat, NEW p \in a + 1 .. b
    PROVE  /\ p - a - 1 \in Nat /\ 0 <= p - a - 1 /\ p - a - 1 < b - a
           /\ p = p - a - 1 + a + 1
OBVIOUS

(* The children of a clause: within it, and within a parent of its own.    *)
LEMMA ClauseChildrenHold ==
    ASSUME NEW text, NEW size \in Sizes, NEW parents \in Seq(Spans),
           NEW clause \in Spans, clause.start < clause.end,
           \E m \in 1 .. Len(parents) : Within(clause, parents[m])
    PROVE  LET q == ClauseChildren(size, parents, clause)
           IN  /\ q \in Seq(Children)
               /\ \E m \in 1 .. Len(parents) : \A i \in 1 .. Len(q) :
                     q[i].parent = parents[m] /\ ChildWithin(size, parents[m], q[i])
               /\ \A i \in 1 .. Len(q) : ChildWithin(size, clause, q[i])
               /\ \A i \in 1 .. Len(q) - 1 : Follows(text, size, q[i], q[i + 1])
               /\ \A p \in clause.start + 1 .. clause.end :
                     \E i \in 1 .. Len(q) : q[i].start < p /\ p <= q[i].end
<1> DEFINE holding == {i \in DOMAIN parents : Within(clause, parents[i])}
<1> DEFINE m == Min(holding)
<1> DEFINE parent == parents[m]
<1> DEFINE length == clause.end - clause.start
<1> DEFINE w == Windows(length, size.child, size.overlap)
<1> DEFINE q == ClauseChildren(size, parents, clause)
<1>1. clause.start \in Nat /\ clause.end \in Nat /\ length \in Nat \ {0}
  <2>1. clause.start \in Nat /\ clause.end \in Nat
    BY SpansAreRecords
  <2> QED BY <2>1
<1>2. m \in 1 .. Len(parents) /\ Within(clause, parents[m])
  <2>1. holding \subseteq Nat /\ holding # {} /\ DOMAIN parents = 1 .. Len(parents)
    OBVIOUS
  <2>2. m \in holding
    <3> HIDE DEF holding
    <3> QED BY <2>1, MinIsLeast
  <2> HIDE DEF m
  <2> QED BY <2>1, <2>2
<1>3. parent \in Spans /\ Within(clause, parent)
  BY <1>2
<1>4. parent.start \in Nat /\ parent.end \in Nat
      /\ parent.start <= clause.start /\ clause.end <= parent.end
  BY <1>3, SpansAreRecords DEF Within
<1>5. /\ size.child \in Nat \ {0} /\ size.overlap \in Nat /\ size.overlap < size.child
  BY SizesAreNumbers
<1>6. q = [i \in DOMAIN w |-> Child(parent, Moved(w[i], clause.start))]
  BY DEF ClauseChildren
<1> HIDE DEF q, parent, m, holding, length
<1>7. WindowsFrom(w, 0, length, size.child, size.overlap)
  BY <1>1, <1>5, WindowsHold
<1> HIDE DEF w
<1>8. w \in Seq(Spans) /\ Len(w) \in Nat /\ DOMAIN w = 1 .. Len(w)
  BY <1>7 DEF WindowsFrom
<1>9. \A i \in 1 .. Len(w) : /\ w[i].start \in Nat /\ w[i].end \in Nat
                             /\ w[i].start < w[i].end /\ w[i].end <= w[i].start + size.child
                             /\ w[i].end <= length
  <2>1. \A i \in 1 .. Len(w) : w[i] \in Spans
    BY <1>8
  <2> QED BY <1>7, <2>1, SpansAreRecords DEF WindowsFrom
<1>10. /\ q \in Seq(Children) /\ Len(q) = Len(w)
       /\ \A i \in 1 .. Len(q) :
             /\ q[i] \in Children /\ q[i].parent = parent
             /\ q[i].start = w[i].start + clause.start /\ q[i].end = w[i].end + clause.start
  <2>1. ASSUME NEW i \in 1 .. Len(w)
        PROVE  LET child == Child(parent, Moved(w[i], clause.start))
               IN  /\ child \in Children /\ child.parent = parent
                   /\ child.start = w[i].start + clause.start
                   /\ child.end = w[i].end + clause.start
    <3>1. /\ w[i].start + clause.start \in Nat /\ w[i].end + clause.start \in Nat
      BY <1>1, <1>9
    <3>2. /\ Moved(w[i], clause.start) \in Spans
          /\ Moved(w[i], clause.start).start = w[i].start + clause.start
          /\ Moved(w[i], clause.start).end = w[i].end + clause.start
      BY <3>1, SpansAreRecords DEF Moved
    <3> QED BY <1>3, <3>2, ChildrenAreRecords
  <2>2. q \in [1 .. Len(w) -> Children]
    BY <1>6, <1>8, <2>1
  <2>3. q \in Seq(Children) /\ Len(q) = Len(w)
    BY <1>8, <2>2
  <2> QED BY <1>6, <1>8, <2>1, <2>3
<1>11. ASSUME NEW i \in 1 .. Len(q)
       PROVE  ChildWithin(size, clause, q[i]) /\ ChildWithin(size, parent, q[i])
  <2>1. /\ w[i].start \in Nat /\ w[i].end \in Nat /\ w[i].start < w[i].end
        /\ w[i].end <= w[i].start + size.child /\ w[i].end <= length
        /\ q[i].start = w[i].start + clause.start /\ q[i].end = w[i].end + clause.start
    BY <1>9, <1>10
  <2>2. /\ clause.start <= q[i].start /\ q[i].end <= clause.end
    BY <1>1, <2>1 DEF length
  <2>3. q[i].start < q[i].end /\ q[i].end - q[i].start <= size.child
    <3>1. clause.start \in Nat /\ size.child \in Nat
      BY <1>1, <1>5
    <3> QED BY <2>1, <3>1, MovedBy
  <2>4. q[i] \in Children /\ q[i].start \in Nat /\ q[i].end \in Nat
    BY <1>10, ChildrenAreRecords
  <2>5. parent.start <= q[i].start /\ q[i].end <= parent.end
    BY <1>1, <1>4, <2>2, <2>4
  <2> QED BY <2>2, <2>3, <2>4, <2>5 DEF ChildWithin, Within
<1>12. ASSUME NEW i \in 1 .. Len(q) - 1 PROVE Follows(text, size, q[i], q[i + 1])
  <2>1. i \in 1 .. Len(w) /\ i + 1 \in 1 .. Len(w) /\ i < i + 1 /\ i \in 1 .. Len(w) - 1
    BY <1>8, <1>10
  <2>2. w[i + 1].start = w[i].end - size.overlap
    BY <1>7, <2>1 DEF WindowsFrom
  <2>3. w[i].start < w[i + 1].start
    BY <1>5, <1>7, <2>1, WindowsGoOn, <1>1
  <2>4. /\ w[i].start \in Nat /\ w[i].end \in Nat /\ w[i + 1].start \in Nat
        /\ q[i].start = w[i].start + clause.start /\ q[i].end = w[i].end + clause.start
        /\ q[i + 1].start = w[i + 1].start + clause.start
    BY <1>9, <1>10, <2>1
  <2>5. w[i].end - size.overlap <= w[i + 1].start
    BY <2>2, <2>4
  <2> QED BY <1>1, <2>2, <2>3, <2>4, <2>5, LaterWindowFollows
<1>13. ASSUME NEW p \in clause.start + 1 .. clause.end
       PROVE  \E i \in 1 .. Len(q) : q[i].start < p /\ p <= q[i].end
  <2> DEFINE o == p - clause.start - 1
  <2>1. o \in Nat /\ 0 <= o /\ o < length /\ p = o + clause.start + 1
    BY <1>1, OffsetInside DEF length
  <2> HIDE DEF o
  <2>2. PICK i \in 1 .. Len(w) : w[i].start <= o /\ o < w[i].end
    BY <1>7, <2>1 DEF WindowsFrom
  <2>3. /\ w[i].start \in Nat /\ w[i].end \in Nat /\ i \in 1 .. Len(q)
        /\ q[i].start = w[i].start + clause.start /\ q[i].end = w[i].end + clause.start
    BY <1>9, <1>10
  <2>4. q[i].start < p /\ p <= q[i].end
    <3>1. clause.start \in Nat
      BY <1>1
    <3>2. w[i].start + clause.start < p /\ p <= w[i].end + clause.start
      BY <2>1, <2>2, <2>3, <3>1, MovedAlong
    <3> QED BY <2>3, <3>2
  <2> QED BY <2>3, <2>4
<1>14. \E k \in 1 .. Len(parents) : \A i \in 1 .. Len(q) :
           q[i].parent = parents[k] /\ ChildWithin(size, parents[k], q[i])
  BY <1>2, <1>10, <1>11 DEF parent
<1> QED BY <1>10, <1>11, <1>12, <1>13, <1>14 DEF q

LEMMA AwareChunksHold ==
    ASSUME NEW text \in Seq(Kinds), NEW size \in Sizes
    PROVE  LET aware == ClauseAware(text, size)
           IN  /\ WellChunked(text, size, aware)
               /\ \A p \in DOMAIN text :
                     text[p] # Blank => (Covers(Clauses(text), p) <=> Covers(aware.children, p))
               /\ \A parent \in Range(aware.parents) :
                     parent.end - parent.start > size.parent => Len(ClausesIn(text, parent)) <= 1
               /\ \A child \in Range(aware.children) :
                     \E clause \in Range(Clauses(text)) : Within(child, clause)
<1>1. CASE IsBlank(text, 0, Len(text))
  <2>1. ClauseAware(text, size) = NoChunks
    BY <1>1 DEF ClauseAware
  <2> QED BY <1>1, <2>1, NothingIsWellChunked
<1>2. CASE ~IsBlank(text, 0, Len(text))
  <2> DEFINE q == Clauses(text)
  <2> DEFINE parents == WrittenSpans(text, Ranges(text, size))
  <2> DEFINE parts == [i \in DOMAIN q |-> ClauseChildren(size, parents, q[i])]
  <2> DEFINE children == FlattenSeq(parts)
  <2> DEFINE aware == ClauseAware(text, size)
  <2>1. aware = [parents |-> parents, children |-> children]
    BY <1>2 DEF ClauseAware, Ranges
  <2> HIDE DEF aware
  <2>2. Len(text) \in Nat \ {0} /\ DOMAIN text = 1 .. Len(text)
    BY <1>2 DEF IsBlank
  <2>3. /\ q \in Seq(Spans) /\ Apart(q)
        /\ \A i \in 1 .. Len(q) : q[i].start < q[i].end
    BY <2>2, ClausesHold DEF ClauseOf
  <2>4. /\ parents \in Seq(Spans) /\ Apart(parents)
        /\ \A p \in 1 .. Len(text) : text[p] # Blank =>
              \E i \in 1 .. Len(parents) : parents[i].start < p /\ p <= parents[i].end
        /\ \A i \in 1 .. Len(q) : \E m \in 1 .. Len(parents) : Within(q[i], parents[m])
        /\ \A m \in 1 .. Len(parents) : \/ parents[m].end - parents[m].start <= size.parent
                                        \/ HoldsOne(parents[m], q, Len(q))
    <3>1. Len(text) > 0
      BY <2>2
    <3> QED BY <3>1, ParentsHold
  <2> HIDE DEF parents, q
  <2>5. /\ Len(q) \in Nat /\ DOMAIN q = 1 .. Len(q) /\ \A k \in 1 .. Len(q) : q[k] \in Spans
        /\ Len(parents) \in Nat /\ DOMAIN parents = 1 .. Len(parents)
        /\ \A m \in 1 .. Len(parents) : parents[m] \in Spans
    BY <2>3, <2>4
  <2>6. ASSUME NEW k \in 1 .. Len(q)
        PROVE  /\ parts[k] \in Seq(Children)
               /\ \E m \in 1 .. Len(parents) : \A i \in 1 .. Len(parts[k]) :
                     parts[k][i].parent = parents[m] /\ ChildWithin(size, parents[m], parts[k][i])
               /\ \A i \in 1 .. Len(parts[k]) : ChildWithin(size, q[k], parts[k][i])
               /\ \A i \in 1 .. Len(parts[k]) - 1 : Follows(text, size, parts[k][i], parts[k][i + 1])
               /\ \A p \in q[k].start + 1 .. q[k].end :
                     \E i \in 1 .. Len(parts[k]) : parts[k][i].start < p /\ p <= parts[k][i].end
    <3>1. parts[k] = ClauseChildren(size, parents, q[k])
      BY <2>5
    <3> HIDE DEF parts
    <3>2. q[k] \in Spans /\ q[k].start < q[k].end /\ \E m \in 1 .. Len(parents) : Within(q[k], parents[m])
      BY <2>3, <2>4, <2>5
    <3>3. parents \in Seq(Spans)
      BY <2>4
    <3> DEFINE clause == q[k]
    <3> DEFINE v == ClauseChildren(size, parents, clause)
    <3>4. /\ clause \in Spans /\ clause.start < clause.end
          /\ \E m \in 1 .. Len(parents) : Within(clause, parents[m])
      BY <3>2
    <3> HIDE DEF clause
    <3>5. /\ v \in Seq(Children)
          /\ \E m \in 1 .. Len(parents) : \A i \in 1 .. Len(v) :
                v[i].parent = parents[m] /\ ChildWithin(size, parents[m], v[i])
          /\ \A i \in 1 .. Len(v) : ChildWithin(size, clause, v[i])
          /\ \A i \in 1 .. Len(v) - 1 : Follows(text, size, v[i], v[i + 1])
          /\ \A p \in clause.start + 1 .. clause.end :
                \E i \in 1 .. Len(v) : v[i].start < p /\ p <= v[i].end
      BY <3>3, <3>4, ClauseChildrenHold
    <3>6. parts[k] = v
      BY <3>1 DEF clause
    <3> HIDE DEF v
    <3> QED BY <3>5, <3>6 DEF clause
  <2>7. parts \in Seq(Seq(Children)) /\ Len(parts) = Len(q)
    <3>1. parts \in [1 .. Len(q) -> Seq(Children)]
      BY <2>5, <2>6
    <3> QED BY <2>5, <3>1
  <2> HIDE DEF parts
  <2>8. /\ children \in Seq(Children)
        /\ \A i \in 1 .. Len(children) :
              \E k \in 1 .. Len(q) : \E m \in 1 .. Len(parts[k]) : children[i] = parts[k][m]
        /\ \A k \in 1 .. Len(q) : \A m \in 1 .. Len(parts[k]) :
              \E i \in 1 .. Len(children) : children[i] = parts[k][m]
        /\ \A i \in 1 .. Len(children) - 1 : Follows(text, size, children[i], children[i + 1])
    BY <2>3, <2>6, <2>7, ChildrenTogether
  <2> HIDE DEF children
  <2>9. DOMAIN children = 1 .. Len(children) /\ Len(children) \in Nat
        /\ \A i \in 1 .. Len(children) : children[i] \in Children
    BY <2>8
  <2>10. ASSUME NEW i \in 1 .. Len(children)
         PROVE  /\ \E k \in 1 .. Len(parents) :
                      children[i].parent = parents[k] /\ ChildWithin(size, parents[k], children[i])
                /\ \E k \in 1 .. Len(q) : Within(children[i], q[k])
    <3>1. PICK k \in 1 .. Len(q) : \E m \in 1 .. Len(parts[k]) : children[i] = parts[k][m]
      BY <2>8
    <3>2. PICK m \in 1 .. Len(parts[k]) : children[i] = parts[k][m]
      BY <3>1
    <3>3. PICK l \in 1 .. Len(parents) : \A j \in 1 .. Len(parts[k]) :
              parts[k][j].parent = parents[l] /\ ChildWithin(size, parents[l], parts[k][j])
      BY <2>6
    <3>4. children[i].parent = parents[l] /\ ChildWithin(size, parents[l], children[i])
      BY <3>2, <3>3
    <3>5. ChildWithin(size, q[k], children[i])
      BY <2>6, <3>2
    <3>6. Within(children[i], q[k])
      BY <3>5 DEF ChildWithin
    <3> QED BY <3>4, <3>6
  <2>11. WellChunked(text, size, aware)
    BY <2>1, <2>4, <2>8, <2>10, WellChunkedIf
  <2>12. ASSUME NEW p \in DOMAIN text PROVE Covers(q, p) <=> Covers(aware.children, p)
    <3>0. aware.children = children /\ p \in Nat
      BY <2>1, <2>2
    <3>1. ASSUME Covers(q, p) PROVE Covers(children, p)
      <4>1. PICK k \in 1 .. Len(q) : q[k].start < p /\ p <= q[k].end
        BY <2>5, <3>1 DEF Covers
      <4>2. q[k].start \in Nat /\ q[k].end \in Nat
        BY <2>5, SpansAreRecords
      <4>3. p \in q[k].start + 1 .. q[k].end
        BY <3>0, <4>1, <4>2
      <4>4. PICK m \in 1 .. Len(parts[k]) : parts[k][m].start < p /\ p <= parts[k][m].end
        BY <2>6, <4>3
      <4>5. PICK i \in 1 .. Len(children) : children[i] = parts[k][m]
        BY <2>8
      <4> QED BY <2>9, <4>4, <4>5 DEF Covers
    <3>2. ASSUME Covers(children, p) PROVE Covers(q, p)
      <4>1. PICK i \in 1 .. Len(children) : children[i].start < p /\ p <= children[i].end
        BY <2>9, <3>2 DEF Covers
      <4>2. PICK k \in 1 .. Len(q) : Within(children[i], q[k])
        BY <2>10
      <4>3. /\ q[k].start \in Nat /\ q[k].end \in Nat
            /\ children[i].start \in Nat /\ children[i].end \in Nat
        BY <2>5, <2>9, SpansAreRecords, ChildrenAreRecords
      <4>4. q[k].start <= children[i].start /\ children[i].end <= q[k].end
        BY <4>2 DEF Within
      <4>5. q[k].start < p
        BY <3>0, <4>1, <4>3, <4>4, StandsBefore
      <4>6. p <= q[k].end
        BY <3>0, <4>1, <4>3, <4>4
      <4> QED BY <2>5, <4>5, <4>6 DEF Covers
    <3> QED BY <3>0, <3>1, <3>2
  <2>13. ASSUME NEW parent \in Range(aware.parents), parent.end - parent.start > size.parent
         PROVE  Len(ClausesIn(text, parent)) <= 1
    <3> DEFINE c == ClausesIn(text, parent)
    <3>1. PICK m \in 1 .. Len(parents) : parent = parents[m]
      BY <2>1, <2>5 DEF Range
    <3>2. ~(parents[m].end - parents[m].start <= size.parent)
      <4>1. parents[m].start \in Nat /\ parents[m].end \in Nat /\ size.parent \in Nat
        BY <2>5, SpansAreRecords, SizesAreNumbers
      <4> QED BY <2>13, <3>1, <4>1
    <3>3. HoldsOne(parent, q, Len(q))
      BY <2>4, <3>1, <3>2
    <3>4. Clauses(text) \in Seq(Spans)
      BY <2>3 DEF q
    <3>5. c \in Seq(Spans) /\ \E place : HeldAt(place, c, q, parent)
      BY <3>4, ClausesInKeep DEF q
    <3> HIDE DEF c
    <3>6. PICK place :
              /\ place \in [1 .. Len(c) -> 1 .. Len(q)]
              /\ \A j \in 1 .. Len(c) : Within(q[place[j]], parent)
              /\ \A i, j \in 1 .. Len(c) : i < j => place[i] < place[j]
      BY <3>5 DEF HeldAt
    <3>7. ASSUME ~(Len(c) <= 1) PROVE FALSE
      <4>1. Len(c) \in Nat
        BY <3>5
      <4>2. 1 \in 1 .. Len(c) /\ 2 \in 1 .. Len(c)
        BY <3>7, <4>1
      <4>3. /\ place[1] \in 1 .. Len(q) /\ place[2] \in 1 .. Len(q) /\ place[1] < place[2]
            /\ Within(q[place[1]], parent) /\ Within(q[place[2]], parent)
        BY <3>6, <4>2
      <4>4. place[1] = place[2]
        BY <3>3, <4>3 DEF HoldsOne
      <4> QED BY <2>5, <4>3, <4>4
    <3> QED BY <3>7 DEF c
  <2>14. ASSUME NEW child \in Range(aware.children)
         PROVE  \E clause \in Range(q) : Within(child, clause)
    <3>1. PICK i \in 1 .. Len(children) : child = children[i]
      BY <2>1, <2>9 DEF Range
    <3>2. PICK k \in 1 .. Len(q) : Within(children[i], q[k])
      BY <2>10
    <3>3. q[k] \in Range(q)
      BY <2>5 DEF Range
    <3> QED BY <3>1, <3>2, <3>3
  <2> QED BY <2>11, <2>12, <2>13, <2>14 DEF aware, q
<1> QED BY <1>1, <1>2

-----------------------------------------------------------------------------
(* Ingestion.                                                              *)

(* A file that is accepted is read to its end: what was written to it      *)
(* since its size was checked made it too large, or is read as well.       *)
LEMMA FilesReadWhole == FilesAreReadWhole
<1> SUFFICES ASSUME NEW file \in Files, Parse(file).error = "none"
             PROVE  Read(file) = file.written
  BY DEF FilesAreReadWhole
<1>1. /\ MaxFileSize \in Nat \ {0} /\ MaxFileSize + 1 \in Nat /\ file.written \in Nat
  BY FilesAssumption
<1>2. Refusals(file) = {}
  <2>1. Refusals(file) # {} => Checks(file)[Min(Refusals(file))].error = "none"
    BY DEF Parse
  <2>2. \A i \in 1 .. 7 : Checks(file)[i].error # "none"
    BY DEF Checks
  <2>3. Refusals(file) \subseteq 1 .. 7
    BY DEF Refusals, Checks
  <2>4. Refusals(file) # {} => Min(Refusals(file)) \in Refusals(file)
    BY <2>3, MinIsLeast
  <2> QED BY <2>1, <2>2, <2>3, <2>4
<1>3. ~(Read(file) > MaxFileSize)
  <2>1. DOMAIN Checks(file) = 1 .. 7 /\ Checks(file)[5].fails = (Read(file) > MaxFileSize)
    BY DEF Checks
  <2>2. ~Checks(file)[5].fails
    BY <1>2, <2>1 DEF Refusals
  <2> QED BY <2>1, <2>2
<1>4. Read(file) \in {file.written, MaxFileSize + 1}
  BY <1>1, MinOfTwo DEF Read
<1> QED BY <1>1, <1>3, <1>4

(* Every text of every block, and all sizes the chunkers accept.           *)
LEMMA NoTextIsLost == ChunksLoseNothing
<1> SUFFICES ASSUME NEW text \in Texts, NEW size \in Sizes
             PROVE  LET plain == ParentChild(text, size)
                        aware == ClauseAware(text, size)
                    IN  /\ WellChunked(text, size, plain)
                        /\ WellChunked(text, size, aware)
                        /\ \A i \in DOMAIN text : text[i] # Blank => Covers(plain.children, i)
                        /\ \A i \in DOMAIN text :
                             text[i] # Blank => (Covers(Clauses(text), i) <=> Covers(aware.children, i))
                        /\ \A parent \in Range(plain.parents) : parent.end - parent.start <= size.parent
                        /\ \A parent \in Range(aware.parents) :
                             parent.end - parent.start > size.parent => Len(ClausesIn(text, parent)) <= 1
                        /\ \A child \in Range(aware.children) :
                             \E clause \in Range(Clauses(text)) : Within(child, clause)
  BY DEF ChunksLoseNothing
<1>1. text \in Seq(Kinds)
  BY TextsAssumption
<1> QED BY <1>1, PlainChunksHold, AwareChunksHold

(* Whatever is ingested, read and cut, nothing of it is lost: neither of a *)
(* file that grew while it was parsed, nor of a text that was cut into     *)
(* parents and children, with clauses or without.                          *)
THEOREM IngestionsLoseNothing == Spec => []IngestionLosesNothing
<1>1. IngestionLosesNothing
  BY FilesReadWhole, NoTextIsLost DEF IngestionLosesNothing
<1> QED BY <1>1, PTL
=============================================================================
