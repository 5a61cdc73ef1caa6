# Verification of the Enterprise Decision Agent

This directory models the online part of `src/src/decision_agent`, from a file that is
ingested to the answer that leaves, checks it with TLC, and proves the main results with
TLAPS. `PROJECT.json` lists every component, run, mutant, mapped line, hazard and theorem;
this file explains them.

## 1. The system

An HTTP route hands a request to the `FormalRequestExecutor` of the configured
runtime. The executor authorises it, reads the memory of its session, lets the
coordinator answer it, stores the turn, compacts the memory, and releases the answer
when the audit log approves. The coordinator routes the request to skills, the skills
call tools (knowledge question answering over a retrieval pipeline, a data agent over
an MCP server), and what the roles of the coordinator send to a language model passes
`ProviderGovernance`, which counts the call, records it in the audit log and only
then lets the transport run. One provider call does not pass it: the summarizer of the session memory
holds the provider itself (`configured_runtime.py:379`). Every seam on the way records a span in the trace of the request.

| Component | State | Operations | Interacts with | What is hard | What makes it correct |
|---|---|---|---|---|---|
| Conversation memory (`memory/models.py`, `store.py`, `in_memory.py`, `summarization.py`) | one session per id: version, turns, rolling summary, expiry | read, append_turn, clear, compact | the executor, worker threads | retries, stale snapshots, expiry, window against summary | no lost update; the window is the newest history; no turn vanishes unaccounted |
| Redis session store (`memory/redis_store.py`) | one key on a shared server | the same, in WATCH/MULTI/EXEC transactions | other processes, the server | contention, expiry between two commands, lost replies | it implements the in-memory store; calls end |
| Security audit log (`security/audit.py`) | JSONL file, anchor file, previous hash, lock | open with verification, append, close | governance, the lifespan | threads, failed writes, crashes, cut tails | the chain never forks; a start accepts nothing that lost an event |
| Formal request executor (`application/executor.py`) | per execution: snapshot, result, statuses, trail | execute, from await to await | memory, coordinator, governance | concurrent requests, cancellation with threads left behind, audit failures | answers leave approved; memory holds completed work; turns follow their context |
| Provider governance (`security/governance.py`, `provider_policy.py`) | budget and scope of a request | bind_request, call, audit | audit log, transports | tasks sharing a budget, failed appends, cancelled calls | the budget of the governed calls holds; none of them is unaudited |
| Runtime bootstrap and lifecycle (`application/bootstrap.py`, `configured_runtime.py`, `api/runtime.py`, `api/routes.py`) | handle status, executor, exit stack, open resources | startup, publish, fail, roll back, revoke, close | every resource, the HTTP route | failure or cancellation at every await, requests that outlive the resources, summaries on threads that outlive requests | only a whole runtime is served; nothing leaks; nothing but a summary leaves unaudited |
| Controlled agent workflow (`agent_workflow`) | plan, round, budget, context items | plan, execute, review, repair | planner, reviewer, skills | bounded rounds, repairs, the provider budget | it ends within its budgets; it accepts only what a review supports |
| Coordinator, router, skills, native tool calling (`coordination`, `routing`, `skills`, `tool_calling`) | none across requests | route, select a tool, call it, answer | providers, tools, traces | a long sequence of fallible calls on one budget; contracts repeated in a dozen files | a request fails closed; the tool's result is the answer; what a contract accepts the next one does not refuse |
| Knowledge QA (`workflows/knowledge_qa.py`, `agents`) | none | retrieve, select, review, answer | retrieval, providers | answers without evidence | unanswerable questions get the fixed answer |
| Data agent and SQL guard (`workflows/data_agent.py`, `data`) | none | schema, plan, guard, query, answer | MCP client, MySQL | partial failure, a scope read off a text and off the tables a guard reports | only a guarded query runs; rows come from the scope |
| MCP client (`mcp_client`) and server (`mcp_server`) | session, process, handshake; a probe's result file | enter, call, close; probe, three tools | each other, MySQL, the operating system | timeouts against late answers, unwinding, cancellation inside it | what was entered is closed; an error says what was found |
| Preflight and supervisor (`application/runtime_preflight*.py`) | result file, stage file, envelope, child process | run, time out, kill, verify | the MCP client, the operating system | timeout against late result, files of an earlier run | a pass means that this run built a runtime; what is said of the database is what was found |
| Retrieval pipeline and Milvus store (`retrieval`) | child index, BM25, initialised flags; a shared collection | initialize, ingest, retrieve, close | Milvus and through it other processes, models, threads | retrieval while closing, half-done ingestion, another corpus | what is served is a whole index; evidence comes from it and from the scope |
| Ingestion (`ingestion`) | none | read a file, cut its blocks into parents and children | the retrieval pipeline | files that grow, boundaries of clauses and sizes | nothing that is written is lost |
| Context manager (`context`) | items of one request | add, select under a token budget, project a memory | executor, coordinator, workflow | budgets of five nodes that share items | the budget holds; a memory displaces nothing |
| Observability (`observability`) | spans of one request | start, complete, finalize | every seam of a request | limits, lost parents, cancellation through eight seams | the trace is one tree and says how every seam ended |
| Access policy and redaction (`security/policy.py`, `redaction.py`) | none | ask for a grant, ask for a provider stage | every step of a path | five tables that have to agree | a grant opens its path and nothing else |
| Evaluation harness, HTTP models, demo and web page | none that a request sees | offline benchmarks, serialisation, pages | | | |

The last row is not modelled; section 6 says why.

## 2. Modules

| Module | Models | Composition |
|---|---|---|
| `SessionMemory` | the snapshot and the pure state changes of both stores | used by the next three |
| `SessionStore` | the in-memory store: atomic operations under its lock, several clients with their snapshots, lazy expiry | the abstract specification of a session store |
| `RedisSessionStore` | the Redis store one command at a time | implements `SessionStore` under `heldBar` |
| `FormalRequestExecutor` | concurrent executions of `execute` on one session, from await to await | instantiates `SessionStore` with executions as clients |
| `RequestContext` | the items of a request, the policies of the five nodes and `ContextManager.select` | used by the next one |
| `ConversationMemory` | `ConversationMemoryProjector`: what a request remembers of a stored conversation | extends `SessionStore`, whose clients project the snapshots they hold, and `RequestContext` |
| `AuditChain` | the audit file, its anchor, threads under the lock, crashes | stands behind the appends of `ProviderGovernance` and of the executor |
| `ProviderGovernance` | provider calls of a request on one budget | composed by `FormalRuntime` |
| `RuntimeLifecycle` | the lifespan task, its exit stack and resources | composed by `FormalRuntime` |
| `FormalRuntime` | requests admitted by the route, their governed calls, the summaries of their sessions and the lifespan, interleaved | extends the two above and ties the audit sink to the lifespan |
| `AgentTools` | the data and the knowledge agent, and the native and the preselected way a skill runs one, await by await | composed by `RequestPaths` |
| `RequestPaths` | one request from the router to its result: a single skill, the mixed skill, or the controlled workflow that plans, executes, reviews and repairs it | the answer the coordinator gives to `FormalRequestExecutor`; its provider budget is the one `ProviderGovernance` keeps |
| `ObservedRequest` | the trace of a request: the collector and the spans every seam records, with cancellation | extends `RequestPaths`: its steps are those of the path with what they record |
| `RequestPolicy` | the grants of a context, the stage matrix, and every gate on a path | extends `RequestPaths`, whose calls it is compared with |
| `RoleContracts` | what each role's model and validator accept, and what the seams above make of it | extends `RequestPolicy`; it is where the choices of `AgentTools` and `RequestPaths` come from |
| `EnterpriseDataSession` | one client of the enterprise data server, the server process it starts, and the query service in it | its owner is the data agent of `AgentTools` or a preflight |
| `RuntimePreflight` | a supervised preflight: supervisor, child, result file, reader | extends `EnterpriseDataSession`, one of the stages of the child |
| `RetrievalRuntime` | processes that ingest a corpus into one Milvus collection or serve retrievals from it, await by await, and the fusion by ranks | the source of what `AgentTools` takes as the documents found |
| `Ingestion` | reading a file and cutting its text into chunks, with both chunkers | extends `RetrievalRuntime`, whose processes read a dataset first |
| `SessionStoreProofs`, `RedisSessionStoreProofs`, `AuditChainProofs`, `FormalRequestExecutorProofs`, `FormalRuntimeProofs`, `RequestPathsProofs`, `EnterpriseDataProofs`, `RetrievalRuntimeProofs` | theorems about the modules they are named after (`EnterpriseDataProofs`: about `EnterpriseDataSession` and `RuntimePreflight`; `RetrievalRuntimeProofs`: about `Ingestion`, too; `RequestPathsProofs`: about `ObservedRequest`, too; `SessionStoreProofs`: about `ConversationMemory` and `RequestContext`, too) | |
| `MC...` | values of the constants for TLC | |

A definition called `...Mutant` is a plausible bug in the definition of that name. No
specification uses it; it is there to show that a property notices the bug.

### State and actions against the code

* **Memory.** `session` is the stored record (`_StoredSession`, or the value of the
  Redis key) plus three history fields: `era` counts the incarnations of the key,
  `history` the turns appended in this incarnation, `dropped` those `max_turns` pushed
  out unsummarised. `held[c]` is the snapshot a caller goes on with.
  `Appended` is `append_turn`'s trim-and-store, `Compacted` is `compact`'s, and
  `ValidCompaction` the complete check of `validate_compaction`. One session is
  enough: no operation reads two keys.
* **Context and projection.** An item is its label and its tokens; its kind, trust and domain follow
  from the label. Lengths are counted in quarter tokens, as the estimator does (an ASCII character is one
  quarter, any other four). `Select` is the manager's selection under a policy, `Project` the projection of a
  snapshot. Both are functions, evaluated on every snapshot the clients of `SessionStore` come to hold.
* **Redis.** `op[c]` is the call a client is in and the command it sends next; a
  transaction fetches with GET and TTL, decides, and is refused at EXEC when another
  write or the expiry made it `dirty`. A connection failure may come before or after
  EXEC took effect.
* **Audit.** `Lock`, `Write`, `WriteAnchor` and `Publish` are the effects of `append`
  in the order they reach the disk; `Fail` may leave nothing, a part of the line or
  the line; `Crash` and `CutTail` happen around the process; `Open` verifies.
* **Executor.** `pc` is the await an execution is at, `thread` the store call a
  cancelled execution left running, `audit` the events whose append returned.
* **Governance.** A call runs from `idle` to its transport in one action (`Allow`,
  `Refuse`, `Unrecorded`) and from the end of the transport to its return in another,
  because those are the stretches the event loop does not interrupt.
* **Summaries.** `summary[r]` is where the worker thread of a request's summary is: there, its payload sent, or over. It runs
  beside governance and lifespan, and a cancelled request leaves it running. What it makes of the memory is in
  `SessionStore` and `FormalRequestExecutor`; here it is a payload that leaves.
* **Lifecycle.** `at` is the await of the lifespan task; `stack` the callbacks on the
  `AsyncExitStack`; `live` what is open; `abandoned` what refused to close or is held
  by a thread only.
* **Request path.** `at` is the place of the coordinator and `stage` the await of the running
  agent. `calls` is the counter of the request's governance; `exhausted` and `mishap` are
  history: a call was denied because the budget was spent; a provider, a source or an
  authorization failed the request, or the question had no answer. An answer is the set of its citations, `evidence` what the
  agents of the request hold. The items of a context have fixed ids, so a context is the set
  of the domains whose instruction it holds. `steps` and `verdicts` are the
  `StepExecutionResult`s and reviews of the workflow.
* **Trace.** `trace.spans` are the recorded spans, numbered as they were started; `trace.dropped` those
  the limit refused and that have not completed. Each action takes one step of `RequestPaths`, and
  completes and starts the spans that step completes and starts, innermost first. `phase` is where
  `FormalRequestExecutor.execute` is around the path; `Cancel` may come at every await and unwinds
  every seam below it.
* **Gates and contracts.** The grants, the wired roles, the stage matrix, and what each reply may
  be are tables and predicates, and a path is a sequence of gates and calls. They are evaluated where the
  path of `RequestPaths` chooses its route or waits for the reply in question, so that the choices of the
  path are compared with what the contracts accept. A text is its length and the length `strip` leaves of it.
* **Enterprise data session.** `at` is the await of the client's owner, `held` the contexts it has entered and
  has to leave, `unwinding` how leaving them went, `raised` the error on its way out. `server` is where the process is, `probe` and
  `file` what its database preflight ended with and wrote. `statement` is what the agent planned: the
  rule it breaks, the tables it reads, those whose names it gives to a CTE, and those the scope's pattern finds in its text.
  The guard reports the tables read less those named like a CTE (`Accessed`), wherever in the statement they are. `query` where the
  query service has it, `threads` the server's threads that still run it.
* **Preflight.** `child`, `stage`, `verdict`, `exitCode` and `resultFile` are the child's, `supervisor`, `timedOut`,
  `envelope` and `status` the supervisor's. A result and an envelope have the status, the error code and `mysql_preflight`, the
  word on the database, which an envelope takes from the file it verifies. `Init` has the files an earlier preflight may have left:
  none, a pass, or a failure.
* **Retrieval.** `at[p]` is the await of the task that owns the runtime of process `p`, from the Milvus
  client to the BM25 index; `ready` is `_initialized`, `closing` the time between the end of the pipeline
  and that of the store. `collection` is what all processes share. A child is its id, because the id is a
  hash of its content, document and parent. Each retrieval stage looks its children up again
  (`Known`, the code's `_child`), and closing the pipeline empties that index.
* **Ingestion.** A text is a sequence of characters of six kinds (text, blank, the start of a clause or of
  a heading of one of three levels), a chunk the offsets it starts after and ends with. A file has the size its stat
  reports and the bytes that are there when it is read.

## 3. Runs

| Run | Question | Bounds, and why they are enough |
|---|---|---|
| `session_store` | Do the operations of the in-memory store keep versions, window, summary and history consistent, whatever two clients do with stale snapshots, and does what is remembered of them reach the router without displacing anything? | 2 clients, 4 turns of which two share a request id, window 3, summaries from 2 turns on, 5 versions, one expiry. Two writers are what a race needs; a window of 3 drops a turn, compacts a prefix and drops after a compaction. The turns' lengths are such that some fit together with a summary, one fits alone, one does not fit because its markers are lengthened; questions of {1, 200, 1025, 1026, 2000} and answers of {1, 500, 1800, 3500} tokens lie on both sides of every budget. |
| `redis_store` | Does the Redis store implement the atomic one, and do its calls end? | 2 clients, 2 turns, 2 tries, 3 versions, one expiry. Two tries are a first and a last one; the theorem covers any number of all of them. |
| `audit_chain` | Do threads, failures, crashes and cut tails ever fork the chain, or bring up a process on a log that lost an event? | 3 threads, 5 events, 2 failures, 2 crashes: one holds the lock, two wait; two crashes let a start meet what an earlier start accepted. |
| `audit_after_failure` | Does an append that returned leave a valid file? (violated) | as `audit_chain` |
| `request_executor` | Do concurrent requests, client retries, cancellations and audit failures keep audit, memory and answers consistent? | 3 executions of 2 requests (one is a retry of another), window 2, one expiry |
| `request_reuse` | Does a reused request id with other content fail closed? (violated) | as `request_executor` |
| `formal_runtime` | Do budget, audit trail, published runtime and closing order hold under every failure and cancellation of startup, shutdown, calls and requests? | 1 request, 3 calls on a budget of 2, one failed append: one call more than the budget, all at once or one after another, and a summary beside them. Requests do not share governance state; the theorems cover any number. |
| `request_paths` | Is what a request serves grounded and accepted, does the provider budget suffice where it should, does anything but a provider or a source fail it; is its trace one tree that says how every seam ended; do the gates and contracts on its way agree with each other? | every configuration (controlled workflow, repairable skill, memory), 2 documents, the 9 calls of `ProviderPolicy.controlled_mixed`, a cancellation at every await, trace limits of 5 and of the default 64. Two documents give a partial selection and a partial citation; five spans are fewer than any path records, so spans are dropped at every depth; 64 is never reached. |
| `direct_mixed` | Does a mixed request of a runtime without controlled workflow complete? (violated) | the default configuration, without a trace |
| `follow_up_mixed` | Does a controlled mixed request of a session with a memory complete? (violated) | controlled with a memory, without a trace |
| `retrieval` | Whatever another process ingests, and whatever fails or dies, is what a process serves its whole corpus, is evidence taken from it, and do healthy ingestions and retrievals succeed? Do the chunks of a corpus lose anything of its documents? | 2 processes, 2 corpora of which one contains the other, 3 chunks with 2 parents and 2 documents, all rankings of 3 hits, 2 fused, 1 retrieval, 2 faults. A larger and a smaller corpus give missing and foreign ids; three hits in two sources give every kind of tie and a hit that is cut off; retrievals share nothing they change. The processes are symmetric. Texts of up to 5 characters, cut at 4 combinations of parent size, child size and overlap, have two clauses in two sections with text before them; in the largest a window that is blank stands between two that overlap by more than half; files are read from below to beyond their limit. |
| `enterprise_data` | Are servers stopped, does evidence come from the scope or from the name of a CTE, and does a preflight say what its probe found, whatever times out, fails, dies or is interrupted where? | 2 tables, a scope of one of them, any statement over them with any CTE names among them, no file, a passed or a failed one of an earlier preflight. One table in the scope and one outside are what a statement can mix; the theorems cover any tables. |

`CHECK_DEADLOCK FALSE` stands where the system may stop: a runtime that was shut down,
executions that all ended, a request that has its result, an audit log without further events,
a preflight that is over.

### What the properties say

* `VersionIdentifiesState`, `WritesBuildOnWhatWasRead`: the compare-and-swap on the
  version is sound within an incarnation of the session. Across a clear or an expiry
  the version starts again at one, and the code does not distinguish the incarnations.
* `WindowIsNewestHistory`, `EveryTurnAccountedFor`: what the session remembers is the newest history; every
  older turn is in the summary or was dropped by `max_turns`, which may open a gap between the two and nothing
  else does.
* `MemoryStaysInItsPlace`: what is projected of a snapshot is the newest part of it that fits the router, and no
  question or answer, however long, makes that part displace anything else from a prompt of the five nodes.
* `ImplementsSessionStore`, `CallsEnd`: each Redis call is one atomic step of
  `SessionStore` or has no effect; it ends after its bounded tries.
* `ReleasedChainVerifies`, `OpensOnNothingLost`, `ClosedLogIsFrozen`: as their names say,
  the first one until a write has failed.
* `AnswersLeaveApproved`, `MemoryHoldsCompletedWork`, `TurnsFollowTheirContext`,
  `EveryExecutionEnds`: what leaves, what is remembered, on which conversation, and
  that every execution ends.
* `WithinBudget`, `CallsAreAudited`: the governed calls of a request that reached a transport
  carry different audited numbers below the limit; none ran before its allowed event, and no
  result returned before its completed event. A summary is no governed call, and neither property speaks of it.
* `ServedRuntimeIsWhole`, `NothingLeaks`, `LifespanEnds`: what an admitted request finds, what is
  open when there is no runtime, and that a startup and a shutdown end.
* `OnlySummariesLeaveUnaudited`: a request that outlives the audit log lets no governed payload and no answer
  out any more. A summary may still leave, then as before, and only for a request whose completed workflow is in the log.
* `AnswersAreGrounded`: a completed answer cites only what the agents of its request hold, and
  every domain its route asks for. It relates the end of a request to what its agents did many
  steps before, across the two agents of a mixed skill and across repairs.
* `BudgetCoversFirstReview`: the nine calls suffice for each single skill and for a controlled
  mixed request until its first review has returned.
* `FaithfulRequestsComplete`: where every provider and source does its part, the request does
  not fail, except on the two paths of the findings `direct_mixed` and `follow_up_mixed`.
* `ServedWorkWasAccepted`, `RepairsServeTheFirstRound`: what the workflow serves was reviewed and accepted, and a
  repair never replaces the round it repairs.
* `TraceIsOneTree`: under any limit the recorded spans are the first ones that were started, each under a
  recorded parent, and no seam is refused a span because its parent was forgotten.
* `SpansTellHowSeamsEnded`: a span is left open only in the places listed below, never by a request that is served;
  a cancellation is recorded by the chain of seams that were running and by no other.
* `EveryTraceIsFinished`: each request gets a result, or its cancellation, with its trace.
* `GrantsOpenTheirPaths`: the grants of a demo case open its scenario and no other, each of them is needed, one that
  is missing is noticed before anything but the router and the planner was called, and the request that takes the path makes
  no more calls than the path has gates for.
* `AcceptedRepliesAreServed`: wherever the path waits for a reply, those the role's contract accepts are those the
  path goes on with, and no later contract refuses one of them, except for its length.
* `ReadersKeepTheirCorpus`: the ids are compared once, and yet a serving process has its index and its
  corpus until it closes, because nothing in the running system takes anything from the collection.
* `EvidenceIsVerified`: the candidates, the ranked children and the evidence come from the verified corpus
  and from the scope of the request, also when foreign chunks are hit or the pipeline closes meanwhile.
* `DominatingHitsRankFirst`: the fusion, whose scores are compared as fractions, puts a hit before
  every hit that no source ranks better.
* `CompleteIngestionVerifies`: ingesting the corpus that contains the others is not refused for its ids,
  whatever concurrent or interrupted ingestions left behind.
* `HealthyRetrievalsAnswer`: without a fault a retrieval raises only in a closing process, over foreign
  ids, or for its query.
* `IngestionLosesNothing`: a file that grew is refused and not parsed in part; what is written in an accepted one is in one
  parent and in a child of it (with clauses: if a clause holds it); a parent that is too large has one clause and no child
  crosses one. Children that share text share the overlap, or less where the part of it that is missing to them is blank.
* `ServersAreStopped`: a client that was left cleanly has stopped its server, wherever entering or using it failed.
* `EvidenceStaysInScope`: evidence is rows the guard let through, from tables of the scope, also when the text of
  the SQL names them where the scope's pattern does not look, or from tables whose names the statement gives to a CTE; the late
  result of a thread whose statement timed out changes nothing.
* `PreflightIsTruthful`: a preflight client reports its own server's probe or that it does not know; a
  preflight whose supervisor and reader both pass has built and closed a runtime in this run; an envelope over the file of
  this run's child says of the database what its probe found.
  Of an envelope over an earlier child's file this is false, as evidence from the scope alone would be (both below).
* `EveryOwnerEnds`: the owner of a client gets out of it, and a child that hangs is ended with its supervision.

### Fairness

* `redis_store`: every command a client sent is answered or its socket times out
  (`socket_timeout` is set by the client factory); nobody has to start a call.
* `request_executor`: the event loop runs every task, and every awaited call returns or
  raises. The code awaits threads and the coordinator, which bound their own calls.
* `formal_runtime`: every await of the lifespan returns, raises or is cancelled. There
  is no fairness for requests, nor for the shutdown.
* `request_paths`: the path is one task; every await is a provider call, a call of the enterprise
  data server or a store call, and each has a timeout. Nobody has to cancel.
* `enterprise_data`: every await of the client has a timeout, and so has the supervisor's wait for its child;
  nothing is assumed of the server process, of MySQL or of the child.
* The other runs state no fairness: their properties are safety properties.

### Findings

* `audit_after_failure`: after a failed append that left bytes in the file, the next append
  succeeds on a broken chain, and the next process does not start.
* `request_reuse`: a request id whose turn left the window is accepted again with other
  content.
* `direct_mixed`: without the controlled workflow both children of the mixed skill use native
  tool calling and a completed request takes eleven calls, or ten when the query returns no
  row; the tenth is denied. The test that expects it to complete composes the coordinator
  without governance.
* `follow_up_mixed`: under the controlled workflow the children run preselected, and the
  preselected executor refuses a selected memory: a follow-up question on the mixed path fails.

### Other behaviour the models show

Memory, audit and executor:

* `_expires_at` (`redis_store.py:242`) calls a key corrupt that expires between GET and TTL, or is read in its last half second.
* A blocked answer, or one whose release could not be recorded, is already in the memory
  (`executor.py:254` runs before `159`), and its response says `NOT_REQUESTED`.
* `UNSUPPORTED`, and a completed answer without citations, leave as
  `response_release_blocked`; the latter is remembered all the same. A blank cited answer
  leaves but is not remembered.
* An event whose append raised may be in the file: the log may say `completed` of a call
  that failed, never the other way round. A cancelled call leaves no outcome event.
  Events other than `allowed` carry the counter of the request at that time, not the
  number of their call; the release event always carries zero.
* The summarizer is given `providers.native_model` itself (`configured_runtime.py:379`), so its payload has no allowed event,
  counts against no budget and is not redacted, although `docs/SECURITY_BOUNDARIES.md:19` says that provider input is classified,
  budgeted and redacted. It runs on a thread (`executor.py:466`), and may leave after its request was cancelled and after the
  audit log was closed. Summaries are on only where `memory_summary_enabled` says so. This is why
  `OnlySummariesLeaveUnaudited` excepts them.
* After `revoke_executor` the status stays `READY` until `stop`; a cancelled startup ends
  as `FAILED` and never `STOPPED`; a cancellation during the rollback is swallowed.
* A startup cancelled while a thread creates the Milvus client leaves that client open.

Request paths:

* An unanswerable question fails its knowledge skill: the answer has no citation, and evidence
  without citations cannot be added to the context. The span of its workflow says `COMPLETED` all the same. A data answer
  without citations (a clarification) is served.
* Repairs are enabled by tests only (`repairable_skill_names` is empty by default). A repair round finds the items of the
  first round in the context and always fails (`context/manager.py:49`); the second review can
  only accept the round the first review sent back, and after a first round of nine calls it
  is denied itself.
* A tool that policy refuses inside the controlled workflow is reported as `workflow_skill_execution_failed`, and only after the
  planner was called.
* The router's instruction takes 775 of its 1800 tokens, so a question with its memory has 1025: a larger memory is
  dropped as a whole, and a question over 1025 tokens fails although the API accepts 8000 characters. At the coordinator (2000 tokens)
  question and decision may fail from about 980 tokens each, and the planner limits the question to 4000 characters.
* Each part of a synthesis may have 8000 characters; an answer rendered from them over 8000 is refused, as a technical
  failure that skips the review. The citation patterns of the skills accept `[E0]`, those of the agents do not.
* Duplicate column names, more than twelve columns, or aliases outside `a-z0-9_` are refused after the query ran.
  `projection_truncated` is about rows only: a text cut at 160 characters is not marked.
* Spans are left open by a failed native tool selection (`tool_calling/runtime.py:276-299`) and by exceptions that the evidence
  selector (`agents/evidence_selector.py:189-223`), the data query planner and the router do not list. The request of a workflow
  review is built outside its `try` (`agent_workflow/workflow.py:298`), so one the model refuses would leave that span open too.
  The default limit of 64 spans is never reached.

Data server and preflight:

* The guard leaves a table named like any CTE out of what it reports (`sql_guard.py:110`), in whatever part of the statement it
  is read. `data_agent.py:237` checks what is reported, `data_agent.py:224` what the text has after FROM and JOIN, so a table
  outside the scope may pass both, although `docs/DATA_AGENT_AND_MCP.md:46` says that the scope limits what a request can access.
  This is why `EvidenceStaysInScope` excepts the CTE names.
* After a timeout, or after a crash with exit code 1, the supervisor verifies the result file an earlier child left in the
  directory (nothing removes it), although `runtime_preflight_supervisor.py:52` says that it verifies its child's, and its envelope
  repeats what that said of the database: passed, for instance, of a child that never probed. It never says that all of it
  passed. This is why `PreflightIsTruthful` speaks of an envelope's word on the database only over this child's own file.
* Closing that is interrupted, times out or fails may leave the server process running; the client says nothing about it.
* An interrupted read of the result file, or a server without the tools, leaves the file behind. A child that is killed leaves its stage
  and result files, which a later preflight in the same directory finds.

Retrieval and ingestion:

* An ingestion that ends between `create_collection` and `create_index` leaves a collection that every
  later start refuses (`milvus_store.py:240`), although `docs/LOCAL_DEMO.md` says that a repeated ingestion updates
  what is there; a second process that starts at that moment is refused as well.
* Nothing deletes chunks: once a larger or another corpus was ingested, no start of the old one passes
  the comparison of ids, and a process that still serves the old one raises when it hits a foreign chunk.
* A query without searchable terms raises, and so does one without hits and without a scope; within a scope
  no hits are an empty answer.
* The clause-aware chunker keeps a blank window of a long clause as a child, and one child without a searchable token
  makes the index refuse the whole corpus. What stands outside of clauses has a parent and no child, so no query finds it.
* The parent-child chunker drops a blank window (`chunking.py:79`). With an overlap of more than half of the child size
  the windows before and after it overlap as well, by less than `chunk_overlap`; what they do not share of it is blank.

## 4. Proofs

`SessionStoreProofs` proves, for any turns, policy, clients and bounds: `TypeCorrect`,
`VersionsIdentifyStates`, `NoLostUpdate`, `WindowsAreNewest` and
`TurnsAreAccountedFor`. `VersionIdentifiesState` is not inductive: a held snapshot may have a version the
store has passed, so the invariant also orders versions (`VersionsOrdered`): no snapshot of this era is
newer than the session. `WindowIsNewestHistory` and `EveryTurnAccountedFor` follow from `HistoryOf`, which cuts the
history into what the summary covers, what was dropped and the window; the lemmas on `Tail`, `Newest`
and `SubSeq` show that an append and a compaction keep that cut.

It also proves two theorems about what a request remembers:

* `NoMemoryDisplaces`, for every memory size and all questions and answers: a memory fails no selection, changes
  nothing else that is shown, and is shown where there is room. No other optional item comes after the memory, in the order of
  trust, creation and id, and no node requires it (`MemoryIsLast`), so the sorted candidates with it are those without
  it and then the memory (`SortedWithMemory`), and what is taken of a sequence depends on its beginning alone
  (`TakingKeeps`). `Total` is a sum over a set: `TotalWithout` and `TotalWith` are the lemmas that free it from the order the fold takes.
* `MemoriesStayInTheirPlace` (`MemoryStaysInItsPlace`), for texts of any length: what is taken is the most
  that fits, since fewer turns fit where more do (`FewerTurnsFit`), and a suffix of the history by `HistoryOf`. It is inductive with
  `HeldWindows`: no snapshot a client holds has more than `max_turns` turns, without which the memory might be
  longer than any of the sizes the module counts. The rest is `NoMemoryDisplaces`.

`RedisSessionStoreProofs` proves `RedisStoreIsAtomic`: the Redis store, command by command, implements
`SessionStore`, for any number of clients and tries, any turns, policy and bounds. A read
takes effect at its GET, a write at its EXEC, so `heldBar` gives a client what it fetched as soon as the call can only
return that. The invariant says what each step relies on: a call goes on with the snapshot it
began with; what it fetched is the session as long as the key is not modified; it is at EXEC only if the checks found
something to write (`CallInv`); and the pending clears have their eras reserved (`EraInv`), without which
the bound of the abstract store could stop a clear the detailed one has begun.

`AuditChainProofs` proves, for any threads, events and bounds, `LogIsTyped`, `ClosedLogsAreFrozen`, `ReleasedChainsVerify` and
`SinksOpenOnNothingLost`. None of the last three is inductive. `LockInv` says that only the holder of the lock is past it, with a chained line in
hand, and that nobody holds the lock of a closed sink; `ChainInv` that, until a write has failed, the file is
sound, and which of line, anchor and tip lack the new event at which stage of the holder.
`LossInv` says that the anchor names every acknowledged event in order, and that the event a thread holds
is nobody else's and in neither anchor nor tip: that is what lets the next anchor name one event more and lose none.
A sink opens only over a file whose last hash is the anchor's, and `TipNamesEvents` shows, by an induction over the lines,
that a hash of a sound file names exactly its events.

`FormalRequestExecutorProofs` proves, for any executions, requests, results and policy:

* `AnswersAreApproved` (`AnswersLeaveApproved`), from `PlaceInv` and `TrailInv`: the trail of an execution is that
  of its place, and only a cancelled execution leaves a thread behind;
* `MemoriesHoldCompletedWork` (`MemoryHoldsCompletedWork`), from `MemoryInv` and the shape of a history: every
  turn of it is the answer of an execution that has `workflow_completed` in its trail;
* `ExecutionsAreClients` (`Spec => Store!Spec`): whatever executions and their threads do to the memory is a step of
  `SessionStore` with the executions as its clients, so the invariants of `SessionStoreProofs` hold of them;
* `TurnsJoinTheirContext` (`TurnsFollowTheirContext`), from that instance and two invariants more. `ContextInv`: an
  execution that may append, itself or through its thread, still holds the snapshot it read. `MemoryIsDated`: the context
  of whoever made a turn is no newer than any snapshot the turn is in. The second is what retries need: a retry
  keeps the date of the turn it found, so if it stored that turn again its maker would have read this incarnation,
  the turn would still be in the window, and the append would have been a retry and no write.

`FormalRuntimeProofs` proves, for any requests, calls, budget and number of failures:

* `RuntimeIsTyped` (`TypeOK`), which contains that no counter passes the limit;
* `RuntimeIsServedWhole` and `RuntimeLeaksNothing`, from `LifecycleInv`: every open resource that was
  not abandoned has its callback on the stack (the MCP client of the handshake excepted,
  which closes itself), the audit log is at the bottom and nowhere else, and each
  await of the startup has exactly its resources open. Without the stack the leak
  property is not inductive: nothing would say that unwinding meets every resource;
* `BudgetHolds` and `CallsAreAccountedFor`, of the governed calls, from `GovernanceInv`: a call that has not begun has no event, a
  call that was sent has its allowed event and a number below the counter of its
  request, and the numbers differ. The counter is what makes the next number new;
* `OnlySummariesLeaveAfterTheLog` (`OnlySummariesLeaveUnaudited`), from `SinkMatches`, that the sink takes events exactly while the lifespan
  holds it open, and `SummariesFollow`, that a request that is completed, or has a summary under way, has its completed workflow in the
  log. A log only grows (`LogsGrow`), so what it says once holds when the thread sends.

`RequestPathsProofs` proves, for any documents and configurations:

* `PathIsTyped`, `AnswersCiteWhatTheyHold`, `ServedRoundsAreAccepted` and `RepairsReplaceNothing`, for any
  budget, from `PathInv` and the properties themselves. `PathInv` has three parts, none of which a
  property implies: `PlaceInv` says which agent runs where and with which executor; `RoundInv` keeps rounds,
  reviews and context in step, so that a second round always meets a context that holds its
  first instruction; `EvidenceInv` says at which stage a draft is empty, is what is held, or is
  documents only, and that a completed round cites both domains;
* `NineCallsSuffice`, for any budget of at least nine calls, from `BudgetInv`: `CallsSoFar` bounds the
  calls a request has made by its place, no place of a first round is beyond eight, and
  what leaves a first round never returns to one;
* `FaithfulRequestsAreServed`, for any budget of at least nine calls, from `FaithInv` and the former: since a
  faithful request is never denied a call, what is useless to it is a mishap;
* `GrantsOpenPaths` (`GrantsOpenTheirPaths`), for any budget of at least nine calls. The tables are of constants, but the walks
  depend on the budget. `IsPathOf` says what a path is, whichever case it is of: it begins with the router and the scenario,
  its gates are calls or ask for a grant of the case, all of these come, and with the last of them no more than two calls are
  made; each of the three paths is one (`KnowledgePath`, `DataPath`, `MixedPath`). From that alone a walk with the grants goes on to the end
  (`GrantedWalksGoOn`), one without a grant ends at a gate that asks for it (`MissingGrantsRefuse`), and one
  with the grants of other cases at the scenario (`OtherCasesRefuse`). What the requests add is `WholeInv`, from
  the bound of `BudgetInv`: while only the last call can be missing, `calls` is within the path, and what ends, or is sent
  back by its review, stays within it until the second round;
* `ContractsAgree` (`AcceptedRepliesAreServed`), for any evidence of at most `evidence_max_count` documents. It needs the types of a
  request and no more: what is to show is that contracts of a dozen files agree. A reply may be any list of marks, as long as there are
  citations to name; `KeptHolds`, by induction over a list, says what is left of one that is filtered or freed of repetitions,
  `ListsNameAll` that every set of citations is named by some reply. `IsAnswer` is what the agents' contracts accept
  (`KnowledgeAnswersHold`, `DataAnswersHold`), and `AnswersGetThrough` takes it through those of tool, skill and coordinator.

These are theorems of `RequestPaths!Spec`. `ObservedRequestsTakePaths` carries them over to the traced and
cancelled request, whose steps are those of a path or leave it alone. About that request, for any limits of a trace:

* `TracesAreTrees` and `SeamsTellTheirEnds`, from `TraceInv`. While a request runs (`RunningInv`) its seams are a
  chain of open spans, each under the one below it and all started after it, as many as the place in
  the path calls for (`Depth`), and no more spans were started than that place allows (`SpansStarted`, at most 59 of
  the 64 of the default limit; a cancelled await adds three). A span that no running seam holds is closed, or
  is one of those that may be left open under a seam that failed; then the request is already doomed (`IsDoomed`): no way
  leads from there to a served answer. The cancelled one needs a fact more: the span that `cancel_active` completes is
  that of the innermost seam (`ToolIsActive`, `LastIsActive`).

  What a step records is a sequence of events, and the lemmas compose: `Plays(events, d, n, leaves)` says that on any
  sound trace these events end `d` seams deeper, start at most `n` spans and leave none open. `StartPlays`,
  `SeamPlays` and `PlaysTogether` give it for every step but the two that leave a span open (`UnlistedFails`, `SelectionLeft`).
  A finished trace is covered by `FinishTells` and `CancelTells`.

`EnterpriseDataProofs` proves, for any tables and any scope, of the whole composition:

* `LeftServersAreStopped` (`ServersAreStopped`), from `ServerInv`: while a server lives its client still
  holds the stdio context it has to leave, or the leaving went wrong, or the client's process is gone;
* `EvidenceIsScoped` (`EvidenceStaysInScope`), from `QueryInv`: the query of the server is of the planned
  statement, and it runs only if the guard has nothing against that. That the tables read are of the scope is not
  provable, because the model has statements that read another under the name of a CTE; those not named like a CTE are;
* `PreflightsAreTruthful` (`PreflightIsTruthful`), from `ServerInv`, `ProbeInv` (what the file, the
  handshake and the report say is what the probe ended with), `RaisedInv` (which errors a preflight client leaves with, and when it
  passed), `ChildInv` (a passed result is made by closing a runtime that was built, and exit code 0 says that the file is this
  child's), `SupervisorInv` (nothing is verified before the child has ended) and `WordInv`: a client takes no step once its
  child has judged it, so what a result, or an envelope over it, says of the database is what the client still says. The word of an
  envelope over an earlier file is not covered.

`RetrievalRuntimeProofs` proves, for any processes, corpora, requests, limits and number of faults, and any files, texts
and sizes:

* `ReadersKeepTheirs` and `CompleteIngestionsVerify`, from `IndexInv`: a collection only grows, so `Relies` can say for every
  await what the process has seen of it there. Neither property is inductive: that a reader has its
  index follows from what it met several awaits before the check of the ids;
* `RetrievalsAreTyped`, `EvidenceIsOfTheCorpus` and `HealthyOnesAnswer`, from `HitsInv`: at every stage what a
  running request has in hand is citable (of the corpus of its process, which is in the collection, and in
  scope). A later check repeats an earlier one, so it raises in a process that has closed and in no other;
* `DominatingHitsRankTheirWay`, which is about the fusion alone: `Outranks` is a strict total order
  (`OutrankingOrders`, over scores as fractions and the four keys), so the sorted fusion exists and is
  what the choice picks (`SortedExists`, `FusionSorts`), and a hit that dominates another outscores it
  (`DominatingOutscores`);
* `IngestionsLoseNothing` (`IngestionLosesNothing`), for texts of any length. Its two notions are `Tiles`, spans of which each starts where
  the one before ends, and `WindowsFrom`, which may overlap. Tiles are apart and leave nothing out (`TilesShareOut`), and
  what shares out each tile shares out the whole (`FlatteningTiles`). Windows without an overlap, sections, the
  clauses of a section and the parents made of them are tiles (`WindowsTile`, `SectionsTile`, `ClausesOfSectionTile`, `ParentRangesHold`; for
  the last, `Gathers` says of the first n clauses that each is in a parent and that a parent that is too large holds
  one). The blank tiles are dropped, and `FilteringPlaces` says where in the sequence the others stood: two windows that become neighbours had
  none but blank ones between them, so what the first shared with them is blank (`WrittenWindowsFollow`). `PiecesGoOn` does
  for the children what `FlatteningTiles` does for tiles: neighbours are of one parent or of two that follow each other.

The lemmas below these are about the model's operators: what `Filtered` keeps, what a prefix (`Take`), a ranking
(`Rankings`), a reranking and the parents of children are. Where one needs an induction over the naturals
it is drawn from `WFMin`, which has no operator parameter: a set that holds 0 and every successor of a
member has no least absentee (`NatsAreReached`). The same lemma shows that a recursive function has the values of its
equation, here, for the events of a trace (`PlayingRecurs`), the gates of a path (`WalkRecurs`) and the marks of a list (`KeepingRecurs`). The prover cannot expand `SelectSeq` and `SortSeq`, so `RetrievalRuntime` filters by a recursive function
and fuses by choosing the sorted one among the sequences of the hits; `Ingestion` filters and joins by recursive functions, too.

The assumptions are those of the modules (types of the constants, positive limits, sizes as the chunkers accept them, texts of the six kinds,
every execution has a request, retrieval numbers at most `evidence_max_count` documents, from 1, `None` is no snapshot and no thread, the clients are finitely many, the data evidence is no document, corpora are not empty, the scope
is of known tables) and, for `NineCallsSuffice`,
`FaithfulRequestsAreServed` and `GrantsOpenPaths`, the nine calls.

Model-checked only:

* liveness: `CallsEnd`, `EveryExecutionEnds`, `LifespanEnds`, `EveryTraceIsFinished`, `EveryOwnerEnds` (fairness is beyond the prover);

## 5. Assumptions

* Redis 6.0.9 or later: EXEC is refused when a watched key expired. TTL rounds to the
  nearest second; a tick is half a second.
* SHA-256 is injective: a summary id, an event hash and a chunk id are what they hash.
* A crash is the end of the process, not of the machine: what was written stays written, and a file that is
  replaced is the old one or the new one.
* Milvus: creating a collection or an index that is there already changes nothing, a strong iterator
  lists one snapshot, and an upsert that raised may have stored any part of its batch.
* The MCP SDK ends the server process when its stdio context is left without an interruption.
* What a provider, a redactor or a coordinator decides is nondeterministic where the property
  does not depend on it. So is a statement a planner makes: any tables, any names of tables for its CTEs, any rule of the guard broken, and
  any part of the tables found by the scope's pattern. That every such combination has a SQL text is not claimed.

## 6. Order of work, and what is not modelled

The modules were written in the order of the weight their behaviour has for a request: memory, Redis, audit, executor,
governance, lifecycle, request paths, knowledge index; then the enterprise data session with its preflight, the trace, the context with the
projected memory, the gates and contracts, and ingestion. Proofs followed the same order.

Not modelled:

* **Evaluation harness** (`evaluation`): offline benchmarks, one process that reads files, computes figures and writes a report. It has no
  state a request meets, and its subject is what models answer.
* **HTTP models, demo and web page** (`api/models.py`, `demo`, `web`): serialisation and rendering. The route's use of the
  executor is in `RuntimeLifecycle`, the grants of the demo in `RequestPolicy`.
* **Redaction** (`security/redaction.py`): a set of patterns on text. Governance takes its outcome as an input.
* **SQL parsing** (`data/sql_guard.py`): the guard's rules are modelled by the rule a statement breaks, not by how it is found in a syntax tree; of
  the tree the tables read and the CTE names are kept, because the guard's report compares the two.
* **`provider_preflight.py`**: asks each provider for one answer, one after the other, without state.
* **Retrieval scores**: embeddings, BM25 weights and reranker scores are rankings, chosen freely. `delete_by_document` and the in-memory
  store have no caller in the running system.
* **Trace output**: attributes, sinks and summaries of a finished trace, which no request reads back.
