-------------------------- MODULE RetrievalRuntime --------------------------
(***************************************************************************)
(* The knowledge index: EnterpriseRetrievalRuntime with its                *)
(* EnterpriseRetrievalPipeline and MilvusVectorStore, in several processes *)
(* that share one Milvus collection.                                       *)
(*                                                                         *)
(* A process ingests a corpus once (initialize_knowledge_corpus) or serves *)
(* retrievals over one.  Each step ends at an await, where other tasks and *)
(* other processes go on, and where the operation may fail, be cancelled   *)
(* or lose its process.                                                    *)
(*                                                                         *)
(* A child chunk is its id, a hash of its content, document and parent:    *)
(* upserting it again changes nothing.  A corpus is the set of children of *)
(* one generated dataset.  Scores are left out: a vector search, BM25 and  *)
(* the reranker return some ranking.                                       *)
(***************************************************************************)
EXTENDS Naturals, SequencesExt

CONSTANTS
    Processes,      \* one EnterpriseRetrievalRuntime at a time in each
    Chunks,         \* child chunk ids, numbers for their order
    Corpora,        \* the generated datasets that may be configured
    ParentOf,       \* the parent of a child
    DocumentOf,     \* the document of a child
    Requests,       \* retrieve() calls
    Scopes,         \* allowed_document_ids of a retrieval that has them
    Unscoped,       \* every document: a retrieval without allowed_document_ids
    RrfK,           \* RetrievalPipelineConfig.rrf_k, both weights being 1
    SourceTopK,     \* dense_top_k and bm25_top_k
    RrfTopK,        \* rrf_top_k
    CandidateCount, \* reranker_candidate_count
    RerankTopK,     \* reranker_top_k
    ParentTopK,     \* parent_top_k
    EvidenceCount,  \* evidence_max_count
    MaxFaults       \* bound: failed awaits and lost processes

ASSUME ChunksAssumption ==
    /\ Chunks \subseteq Nat /\ IsFiniteSet(Chunks)
    /\ Corpora # {} /\ Corpora \subseteq (SUBSET Chunks) \ {{}}
    /\ ParentOf \in [Chunks -> Nat]
    /\ DocumentOf \in [Chunks -> Nat]
    /\ \A c, d \in Chunks : ParentOf[c] = ParentOf[d] => DocumentOf[c] = DocumentOf[d]
    /\ Unscoped = {DocumentOf[c] : c \in Chunks}
    /\ Scopes \subseteq (SUBSET Unscoped) \ {Unscoped}

(* RetrievalPipelineConfig.validate_stage_limits. *)
ASSUME LimitsAssumption ==
    /\ RrfK \in Nat /\ SourceTopK \in Nat /\ RrfTopK \in Nat /\ MaxFaults \in Nat
    /\ CandidateCount \in 1 .. RrfTopK
    /\ RerankTopK \in 1 .. CandidateCount
    /\ ParentTopK \in 1 .. RerankTopK
    /\ EvidenceCount \in 1 .. ParentTopK

VARIABLES
    collection, \* in Milvus: whether it exists, has its index, and its ids
    at,         \* the await each process is at
    task,       \* the corpus of a process, and whether it ingests it
    request,    \* the retrievals
    faults      \* failures so far

vars == <<collection, at, task, request, faults>>

(* The awaits of store.initialize, then those of pipeline.initialize.      *)
StoreAwaits == {"client", "exists", "validate", "create", "index", "load"}
PipelineAwaits == {"data", "models", "embed", "existing", "upsert", "list", "bm25"}
Startup == StoreAwaits \cup PipelineAwaits

Stages == {"embed", "search", "sparse", "fuse", "rerank", "expand", "build"}

NoRequest(p) ==
    [stage |-> "idle", process |-> p, scope |-> Unscoped, terms |-> FALSE,
     dense |-> <<>>, sparse |-> <<>>, hits |-> <<>>]

NoTask == [corpus |-> CHOOSE corpus \in Corpora : TRUE, ingests |-> FALSE]

Init ==
    /\ collection = [exists |-> FALSE, indexed |-> FALSE, records |-> {}]
    /\ at = [p \in Processes |-> "stopped"]
    /\ task = [p \in Processes |-> NoTask]
    /\ request \in {[q \in Requests |-> NoRequest(p)] : p \in Processes}
    /\ faults = 0

-----------------------------------------------------------------------------
(* EnterpriseRetrievalRuntime: start and close *)

Running(q) == request[q].stage \in Stages

Reach(p, await) == at' = [at EXCEPT ![p] = await]

(* A new runtime for a corpus, to ingest it or to serve it.                *)
Begin(p) ==
    /\ at[p] = "stopped"
    /\ \A q \in Requests : Running(q) => request[q].process # p
    /\ \E corpus \in Corpora, ingests \in BOOLEAN :
           task' = [task EXCEPT ![p] = [corpus |-> corpus, ingests |-> ingests]]
    /\ Reach(p, "client")
    /\ UNCHANGED <<collection, request, faults>>

(* The awaits that leave the collection alone: the Milvus client is made,  *)
(* the collection loaded, the dataset read, both models loaded, the chunks *)
(* embedded, the existing ids queried (only to count the updated ones) and *)
(* the BM25 index built, after which the pipeline is initialized.          *)
Proceed(p) ==
    /\ \/ at[p] = "client" /\ Reach(p, "exists")
       \/ at[p] = "load" /\ Reach(p, "data")
       \/ at[p] = "data" /\ Reach(p, "models")
       \/ at[p] = "models" /\ Reach(p, IF task[p].ingests THEN "embed" ELSE "list")
       \/ at[p] = "embed" /\ Reach(p, "existing")
       \/ at[p] = "existing" /\ Reach(p, "upsert")
       \/ at[p] = "bm25" /\ Reach(p, "ready")
    /\ UNCHANGED <<collection, task, request, faults>>

CheckExists(p) ==
    /\ at[p] = "exists"
    /\ Reach(p, IF collection.exists THEN "validate" ELSE "create")
    /\ UNCHANGED <<collection, task, request, faults>>

(* Raising in the startup: aclose closes the pipeline, then the store.     *)
Refuse(p) == Reach(p, "closing")

(* A collection of this schema that has no vector index is refused.        *)
Validate(p) ==
    /\ at[p] = "validate"
    /\ IF collection.indexed THEN Reach(p, "load") ELSE Refuse(p)
    /\ UNCHANGED <<collection, task, request, faults>>

(* Creating what another process has just created changes nothing.         *)
CreateCollection(p) ==
    /\ at[p] = "create"
    /\ collection' = [collection EXCEPT !.exists = TRUE]
    /\ Reach(p, "index")
    /\ UNCHANGED <<task, request, faults>>

CreateIndex(p) ==
    /\ at[p] = "index"
    /\ collection' = [collection EXCEPT !.indexed = TRUE]
    /\ Reach(p, "load")
    /\ UNCHANGED <<task, request, faults>>

(* A bug: the batch replaces what the collection holds.                    *)
UpsertMutant(p) ==
    /\ at[p] = "upsert"
    /\ collection' = [collection EXCEPT !.records = task[p].corpus]
    /\ Reach(p, "list")
    /\ UNCHANGED <<task, request, faults>>

Upsert(p) ==
    /\ at[p] = "upsert"
    /\ collection' = [collection EXCEPT !.records = @ \cup task[p].corpus]
    /\ Reach(p, "list")
    /\ UNCHANGED <<task, request, faults>>

(* A bug: only foreign ids are looked for.                                 *)
VerifiedMutant(p) == collection.records \subseteq task[p].corpus

(* The ids a strong iterator lists are those of the corpus, no more.       *)
Verified(p) == collection.records = task[p].corpus

ListRecords(p) ==
    /\ at[p] = "list"
    /\ IF Verified(p) THEN Reach(p, "bm25") ELSE Refuse(p)
    /\ UNCHANGED <<collection, task, request, faults>>

(* What a failed call may have done in Milvus all the same: a call that    *)
(* timed out went through, and a batch reached some of the shards.         *)
Effects(p) ==
    CASE at[p] = "create" -> {collection, [collection EXCEPT !.exists = TRUE]}
      [] at[p] = "index" -> {collection, [collection EXCEPT !.indexed = TRUE]}
      [] at[p] = "upsert" ->
             {[collection EXCEPT !.records = @ \cup part] : part \in SUBSET task[p].corpus}
      [] OTHER -> {collection}

Fault ==
    /\ faults < MaxFaults
    /\ faults' = faults + 1

StartFails(p) ==
    /\ at[p] \in Startup
    /\ Fault
    /\ collection' \in Effects(p)
    /\ Refuse(p)
    /\ UNCHANGED <<task, request>>

(* The ingestion has reported; the server ends its lifespan.  The pipeline *)
(* drops its services in one step, and requests may still be running.      *)
Close(p) ==
    /\ at[p] = "ready"
    /\ Reach(p, "closing")
    /\ UNCHANGED <<collection, task, request, faults>>

(* A client that refuses to close is left to the end of its process.       *)
StoreCloses(p) ==
    /\ at[p] = "closing"
    /\ Reach(p, "stopped")
    /\ UNCHANGED <<collection, task, request, faults>>

(* The process is killed, and its requests with it.                        *)
Crash(p) ==
    /\ at[p] # "stopped"
    /\ Fault
    /\ collection' \in Effects(p)
    /\ Reach(p, "stopped")
    /\ request' = [q \in Requests |->
           IF Running(q) /\ request[q].process = p THEN NoRequest(p) ELSE request[q]]
    /\ UNCHANGED task

-----------------------------------------------------------------------------
(* reciprocal_rank_fusion *)

(* Its rank in a source, or 0, and what the source adds to its score.      *)
Rank(ranking, c) == SelectInSeq(ranking, LAMBDA hit : hit = c)

Contribution(ranking, c) ==
    IF c \in ToSet(ranking)
    THEN [over |-> 1, under |-> RrfK + Rank(ranking, c)]
    ELSE [over |-> 0, under |-> 1]

(* The score as a fraction; with two sources the rounded sum keeps its order. *)
Score(dense, sparse, c) ==
    LET d == Contribution(dense, c)
        s == Contribution(sparse, c)
    IN  [over |-> d.over * s.under + s.over * d.under, under |-> d.under * s.under]

Exceeds(x, y) == x.over * y.under > y.over * x.under

BestRank(dense, sparse, c) == Min({Rank(dense, c), Rank(sparse, c)} \ {0})

Matched(dense, sparse, c) == Cardinality({r \in {dense, sparse} : c \in ToSet(r)})

(* Higher score, then better best rank, then more sources, then the ids.   *)
Outranks(dense, sparse, c, d) ==
    LET x == Score(dense, sparse, c)
        y == Score(dense, sparse, d)
        Key(e) == <<BestRank(dense, sparse, e), 2 - Matched(dense, sparse, e), DocumentOf[e], e>>
    IN  \/ Exceeds(x, y)
        \/ /\ ~Exceeds(y, x)
           /\ \E i \in 1 .. 4 :
                 /\ Key(c)[i] < Key(d)[i]
                 /\ \A j \in 1 .. i - 1 : Key(c)[j] = Key(d)[j]

Take(s, n) == SubSeq(s, 1, Min({n, Len(s)}))

(* A bug: ascending scores. *)
FusedMutant(dense, sparse) ==
    LET Sorted(ranked) ==
            \A i, j \in DOMAIN ranked : i < j => Outranks(dense, sparse, ranked[j], ranked[i])
    IN  Take(CHOOSE ranked \in SetToSeqs(ToSet(dense) \cup ToSet(sparse)) : Sorted(ranked),
             RrfTopK)

Fused(dense, sparse) ==
    LET Sorted(ranked) ==
            \A i, j \in DOMAIN ranked : i < j => Outranks(dense, sparse, ranked[i], ranked[j])
    IN  Take(CHOOSE ranked \in SetToSeqs(ToSet(dense) \cup ToSet(sparse)) : Sorted(ranked),
             RrfTopK)

-----------------------------------------------------------------------------
(* EnterpriseRetrievalPipeline.retrieve, one action per await *)

Rankings(found, k) == {r \in SetToAllKPermutations(found) : Len(r) <= k}

(* An approximate search that may lag behind the last upserts.             *)
DenseHits == Rankings(collection.records, SourceTopK)

(* The positive scores of an index that was built in the startup.          *)
SparseHits(corpus) == Rankings(corpus, SourceTopK)

Reranked(hits) == {Take(ranking, RerankTopK) : ranking \in SetToSeqs(ToSet(hits))}

(* A prefix that ends where the count or the budget of characters does.    *)
EvidenceOf(parents) == {Take(parents, n) : n \in 0 .. EvidenceCount}

(* _children_by_id, which closing the pipeline empties.                    *)
Known(p) == IF at[p] = "ready" THEN task[p].corpus ELSE {}

StoreOpen(p) == at[p] \in {"ready", "closing"}

(* The elements of a sequence that are good, in their order: SelectSeq, in *)
(* a form that can be reasoned about.                                      *)
Filtered(s, good) ==
    LET kept[i \in 0 .. Len(s)] ==
            IF i = 0 THEN <<>>
            ELSE IF s[i] \in good THEN Append(kept[i - 1], s[i])
            ELSE kept[i - 1]
    IN  kept[Len(s)]

(* _filter_scope_results; the ranks are counted anew.                      *)
InScope(ranking, scope) == Filtered(ranking, {c \in Chunks : DocumentOf[c] \in scope})

(* The parents of ranked children, each at the place of its best child.    *)
Parents(ranked) ==
    LET first == {i \in DOMAIN ranked :
                      \A j \in 1 .. i - 1 : ParentOf[ranked[j]] # ParentOf[ranked[i]]}
        best == Filtered([i \in DOMAIN ranked |-> i], first)
    IN  [i \in DOMAIN best |-> ParentOf[ranked[best[i]]]]

Becomes(q, r) ==
    /\ request' = [request EXCEPT ![q] = r]
    /\ UNCHANGED <<collection, at, task, faults>>

Move(q, stage, hits) ==
    Becomes(q, [request[q] EXCEPT !.stage = stage, !.hits = hits, !.dense = <<>>, !.sparse = <<>>])

Ended(q) == [NoRequest(request[q].process) EXCEPT !.stage = "failed"]

Raise(q) == Becomes(q, Ended(q))

(* A query of a server, with searchable terms or without (punctuation).    *)
Retrieve(q) ==
    /\ ~Running(q)
    /\ \E p \in Processes, scope \in Scopes \cup {Unscoped}, terms \in BOOLEAN :
          /\ at[p] = "ready"
          /\ ~task[p].ingests
          /\ Becomes(q, [NoRequest(p) EXCEPT !.stage = "embed", !.scope = scope, !.terms = terms])

(* The query is embedded; the search asks first whether the store is open. *)
Embedded(q) ==
    /\ request[q].stage = "embed"
    /\ IF StoreOpen(request[q].process)
       THEN Move(q, "search", <<>>)
       ELSE Raise(q)

(* Each hit in the collection must be a child the pipeline knows.          *)
DenseReturns(q) ==
    /\ request[q].stage = "search"
    /\ \E found \in DenseHits :
          IF ToSet(found) \subseteq Known(request[q].process)
          THEN Becomes(q, [request[q] EXCEPT !.stage = "sparse",
                                             !.dense = InScope(found, request[q].scope)])
          ELSE Raise(q)

(* A bug: only the dense hits are filtered. *)
SparseReturnsMutant(q) ==
    /\ request[q].stage = "sparse"
    /\ \E found \in SparseHits(task[request[q].process].corpus) :
          IF request[q].terms /\ ToSet(found) \subseteq Known(request[q].process)
          THEN Becomes(q, [request[q] EXCEPT !.stage = "fuse", !.sparse = found])
          ELSE Raise(q)

(* BM25 in the index the request holds, which a query without terms raises *)
(* in; then as for the dense hits.                                         *)
SparseReturns(q) ==
    /\ request[q].stage = "sparse"
    /\ \E found \in SparseHits(task[request[q].process].corpus) :
          IF request[q].terms /\ ToSet(found) \subseteq Known(request[q].process)
          THEN Becomes(q, [request[q] EXCEPT !.stage = "fuse",
                                             !.sparse = InScope(found, request[q].scope)])
          ELSE Raise(q)

(* A bug: a source without hits is passed to the fusion, which rejects it. *)
FusibleMutant(q) == request[q].dense # <<>> /\ request[q].sparse # <<>>

(* Nothing to fuse is an empty answer within a scope and an error without. *)
Fusible(q) ==
    \/ request[q].dense # <<>>
    \/ request[q].sparse # <<>>
    \/ request[q].scope # Unscoped

(* The contents for the reranker are looked up again; it is not called for *)
(* no candidates.                                                          *)
FuseReturns(q) ==
    /\ request[q].stage = "fuse"
    /\ LET fused == Fused(request[q].dense, request[q].sparse)
           candidates == Take(fused, CandidateCount)
       IN  IF Fusible(q) /\ ToSet(candidates) \subseteq Known(request[q].process)
           THEN Move(q, IF candidates = <<>> THEN "expand" ELSE "rerank", candidates)
           ELSE Raise(q)

(* Each ranked child is looked up a third time.                            *)
RerankReturns(q) ==
    /\ request[q].stage = "rerank"
    /\ \E ranked \in Reranked(request[q].hits) :
          IF ToSet(ranked) \subseteq Known(request[q].process)
          THEN Move(q, "expand", ranked)
          ELSE Raise(q)

(* The expander and the builder are held since the request began.          *)
ExpandReturns(q) ==
    /\ request[q].stage = "expand"
    /\ Move(q, "build", Take(Parents(request[q].hits), ParentTopK))

BuildReturns(q) ==
    /\ request[q].stage = "build"
    /\ \E evidence \in EvidenceOf(request[q].hits) : Move(q, "answered", evidence)

(* Any await of a retrieval fails or is cancelled: by a fault, or because  *)
(* the process is closing.                                                 *)
RetrievalFails(q) ==
    /\ Running(q)
    /\ Fault \/ (at[request[q].process] # "ready" /\ UNCHANGED faults)
    /\ request' = [request EXCEPT ![q] = Ended(q)]
    /\ UNCHANGED <<collection, at, task>>

-----------------------------------------------------------------------------
RuntimeStep(p) ==
    \/ Begin(p) \/ Proceed(p) \/ CheckExists(p) \/ Validate(p) \/ CreateCollection(p)
    \/ CreateIndex(p) \/ Upsert(p) \/ ListRecords(p) \/ StartFails(p)
    \/ Close(p) \/ StoreCloses(p) \/ Crash(p)

RetrievalStep(q) ==
    \/ Retrieve(q) \/ Embedded(q) \/ DenseReturns(q) \/ SparseReturns(q) \/ FuseReturns(q)
    \/ RerankReturns(q) \/ ExpandReturns(q) \/ BuildReturns(q) \/ RetrievalFails(q)

Next == (\E p \in Processes : RuntimeStep(p)) \/ (\E q \in Requests : RetrievalStep(q))

Spec == Init /\ [][Next]_vars

-----------------------------------------------------------------------------
(* The types, and that no ranking names a child, or evidence a parent, twice. *)
TypeOK ==
    /\ collection \in [exists : BOOLEAN, indexed : BOOLEAN, records : SUBSET Chunks]
    /\ at \in [Processes -> Startup \cup {"stopped", "ready", "closing"}]
    /\ task \in [Processes -> [corpus : Corpora, ingests : BOOLEAN]]
    /\ faults \in 0 .. MaxFaults
    /\ \A q \in Requests :
          LET r == request[q] IN
          /\ r.stage \in Stages \cup {"idle", "answered", "failed"}
          /\ r.process \in Processes
          /\ r.scope \in Scopes \cup {Unscoped}
          /\ r.terms \in BOOLEAN
          /\ r.dense \in Rankings(Chunks, SourceTopK)
          /\ r.sparse \in Rankings(Chunks, SourceTopK)
          /\ r.hits \in Seq(Nat) /\ IsInjective(r.hits) /\ Len(r.hits) <= RrfTopK

(* A process that serves does it over a collection that has its index and  *)
(* every chunk of its corpus, whatever other processes ingest, fail at or  *)
(* crash in.                                                               *)
ReadersKeepTheirCorpus ==
    \A p \in Processes : at[p] \in {"bm25", "ready"} =>
        collection.exists /\ collection.indexed /\ task[p].corpus \subseteq collection.records

(* What a retrieval ranks are children of the corpus its process verified, *)
(* within the scope of the request, and its evidence their parents,        *)
(* although other processes write foreign chunks to the collection, the    *)
(* pipeline may be closed meanwhile, and scope and corpus are checked for  *)
(* each source on its own.                                                 *)
EvidenceIsVerified ==
    \A q \in Requests :
        LET r == request[q]
            citable == {c \in task[r.process].corpus \cap collection.records :
                           DocumentOf[c] \in r.scope}
        IN  /\ r.stage \in {"rerank", "expand"} => ToSet(r.hits) \subseteq citable
            /\ r.stage = "build" => ToSet(r.hits) \subseteq {ParentOf[c] : c \in citable}

(* A hit that every source ranks better than another comes before it in    *)
(* the fusion, and is dropped for it never.                                *)
Dominates(dense, sparse, c, d) ==
    \A ranking \in {dense, sparse} :
        d \in ToSet(ranking) => c \in ToSet(ranking) /\ Rank(ranking, c) < Rank(ranking, d)

DominatingHitsRankFirst ==
    \A q \in Requests : request[q].stage = "fuse" =>
        LET dense == request[q].dense
            sparse == request[q].sparse
            fused == Fused(dense, sparse)
        IN  \A c, d \in ToSet(dense) \cup ToSet(sparse) :
                (Dominates(dense, sparse, c, d) /\ d \in ToSet(fused))
                    => c \in ToSet(fused) /\ Rank(fused, c) < Rank(fused, d)

(* Ingesting the corpus that has the chunks of all others ends in a whole  *)
(* index: no concurrent ingestion, earlier failure or crash makes its      *)
(* check of the ids fail.                                                  *)
CompleteIngestionVerifies ==
    [][\A p \in Processes :
          (at[p] = "list" /\ task[p].ingests /\ task[p].corpus = UNION Corpora)
              => (at'[p] = "closing" => faults' > faults)]_vars

(* Without a fault a retrieval of an open process raises only because the  *)
(* collection has ids that its corpus has not, or because of its query: it *)
(* has no terms, or met nothing at all without a scope.                    *)
HealthyRetrievalsAnswer ==
    [][\A q \in Requests :
          (Running(q) /\ request'[q].stage = "failed" /\ faults' = faults) =>
              LET p == request[q].process IN
              \/ at[p] # "ready"
              \/ ~(collection.records \subseteq task[p].corpus)
              \/ ~request[q].terms
              \/ /\ request[q].scope = Unscoped
                 /\ request[q].dense = <<>> /\ request[q].sparse = <<>>]_vars
=============================================================================
