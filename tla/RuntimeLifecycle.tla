-------------------------- MODULE RuntimeLifecycle --------------------------
(***************************************************************************)
(* The lifespan of one application: FormalRuntimeHandle, the configured    *)
(* builder, build_bootstrapped_runtime, BootstrappedRuntime.aclose and     *)
(* _runtime_lifespan, from one await to the next.                          *)
(*                                                                         *)
(* The lifespan task opens the resources of the runtime, registers their   *)
(* closing on an AsyncExitStack, publishes the executor, and unwinds the   *)
(* stack when the startup fails or the server shuts down.  Every await may *)
(* fail or be cancelled.  A cancelled await of a worker thread leaves the  *)
(* thread running; "abandoned" holds what nobody can close any more.       *)
(*                                                                         *)
(* Milvus, Redis and the MCP server are external: opening them ends with   *)
(* the resource live or not.                                               *)
(***************************************************************************)
EXTENDS Naturals, Sequences, SequencesExt

VARIABLES
    status,     \* FormalRuntimeHandle._status
    executor,   \* FormalRuntimeHandle._executor is not None
    at,         \* the await the lifespan task is at
    failure,    \* what ended the startup: an error, a cancellation, or none
    stack,      \* the closing callbacks registered on the exit stack
    live,       \* resources that are open
    abandoned   \* resources whose closing raised or that nobody holds

lifecycle == <<status, executor, at, failure, stack, live, abandoned>>

Resources == {"audit", "store", "pipeline", "mcp", "redis"}
Statuses == {"not_started", "starting", "ready", "failed", "stopped"}
Startup == {"connect", "collection", "index", "handshake", "hangup", "ping"}
Awaits == Startup \cup {"start", "rollback", "serve", "close", "ended"}

LifecycleTypeOK ==
    /\ status \in Statuses
    /\ executor \in BOOLEAN
    /\ at \in Awaits
    /\ failure \in {"none", "error", "cancelled"}
    /\ stack \in Seq(Resources)
    /\ live \subseteq Resources
    /\ abandoned \subseteq Resources

LifecycleInit ==
    /\ status = "not_started"
    /\ executor = FALSE
    /\ at = "start"
    /\ failure = "none"
    /\ stack = <<>>
    /\ live = {}
    /\ abandoned = {}

handle == <<status, executor>>

-----------------------------------------------------------------------------
(* build_bootstrapped_runtime and _build_configured_runtime *)

(* The builder's exception: the stack is unwound before it is re-raised.   *)
Abort(reason) ==
    /\ at' = "rollback"
    /\ failure' = reason

(* mark_starting, the audit sink and its callback, the factories, and the  *)
(* callback of the knowledge runtime, whose aclose closes the pipeline and *)
(* then, whatever happened, the vector store.                              *)
Begin ==
    /\ at = "start"
    /\ status' = "starting"
    /\ \/ /\ live' = {"audit"}
          /\ stack' = <<"audit", "store", "pipeline">>
          /\ at' = "connect"
          /\ UNCHANGED failure
       \/ /\ live' = {"audit"}    \* a provider or knowledge factory raises
          /\ stack' = <<"audit">>
          /\ Abort("error")
       \/ /\ Abort("error")       \* the settings or the audit log are invalid
          /\ UNCHANGED <<live, stack>>
    /\ UNCHANGED <<executor, abandoned>>

(* The Milvus client is created on a thread.  A cancelled startup does not *)
(* wait for it, and has no reference to the client it makes.               *)
Connect ==
    /\ at = "connect"
    /\ \/ /\ at' = "collection"
          /\ live' = live \cup {"store"}
          /\ UNCHANGED <<failure, abandoned>>
       \/ \E reason \in {"error", "cancelled"} :
              Abort(reason) /\ UNCHANGED <<live, abandoned>>
       \/ /\ Abort("cancelled")
          /\ live' = live \cup {"store"}
          /\ abandoned' = abandoned \cup {"store"}
    /\ UNCHANGED <<handle, stack>>

(* An await of the startup that fails or is cancelled.                     *)
StartupFails ==
    /\ at \in {"collection", "index", "handshake", "ping"}
    /\ \E reason \in {"error", "cancelled"} : Abort(reason)
    /\ UNCHANGED <<handle, stack, live, abandoned>>

Collection ==
    /\ at = "collection"
    /\ at' = "index"
    /\ UNCHANGED <<handle, failure, stack, live, abandoned>>

Index ==
    /\ at = "index"
    /\ live' = live \cup {"pipeline"}
    /\ at' = "handshake"
    /\ UNCHANGED <<handle, failure, stack, abandoned>>

Handshake ==
    /\ at = "handshake"
    /\ live' = live \cup {"mcp"}
    /\ at' = "hangup"
    /\ UNCHANGED <<handle, failure, stack, abandoned>>

Publish ==
    /\ status' = "ready"
    /\ executor' = TRUE
    /\ at' = "serve"

(* A bug: the callback is registered when the first command has answered.  *)
HangupMutant ==
    /\ at = "hangup"
    /\ \/ /\ live' = live \ {"mcp"}
          /\ Publish
          /\ UNCHANGED <<failure, stack, abandoned>>
       \/ /\ live' = (live \ {"mcp"}) \cup {"redis"}
          /\ at' = "ping"
          /\ UNCHANGED <<handle, failure, stack, abandoned>>

(* The MCP client is closed again; then the memory configuration: Redis,   *)
(* registered before its first command, or nothing to open.                *)
Hangup ==
    /\ at = "hangup"
    /\ \/ /\ live' = live \ {"mcp"}
          /\ Publish
          /\ UNCHANGED <<failure, stack, abandoned>>
       \/ /\ live' = (live \ {"mcp"}) \cup {"redis"}
          /\ stack' = Append(stack, "redis")
          /\ at' = "ping"
          /\ UNCHANGED <<handle, failure, abandoned>>
       \/ /\ \E reason \in {"error", "cancelled"} : Abort(reason)
          /\ \/ live' = live \ {"mcp"} /\ UNCHANGED abandoned
             \/ abandoned' = abandoned \cup {"mcp"} /\ UNCHANGED live
          /\ UNCHANGED <<handle, stack>>

Ping ==
    /\ at = "ping"
    /\ Publish
    /\ UNCHANGED <<failure, stack, live, abandoned>>

-----------------------------------------------------------------------------
(* Unwinding, for a failed startup and for a shutdown. *)

(* A bug: a callback that raises ends the loop.                            *)
CloseNextMutant ==
    /\ at \in {"rollback", "close"}
    /\ stack # <<>>
    /\ Last(stack) \notin abandoned
    /\ \/ /\ live' = live \ {Last(stack)}
          /\ stack' = Front(stack)
          /\ UNCHANGED abandoned
       \/ /\ Last(stack) \in live \ {"pipeline"}
          /\ abandoned' = abandoned \cup {Last(stack)}
          /\ UNCHANGED <<live, stack>>
    /\ UNCHANGED <<handle, at, failure>>

(* The callback registered last runs; whether it returns, raises or is     *)
(* cancelled, the next one follows.  Closing what was never opened and     *)
(* closing the pipeline cannot fail.                                       *)
CloseNext ==
    /\ at \in {"rollback", "close"}
    /\ stack # <<>>
    /\ stack' = Front(stack)
    /\ \/ /\ live' = live \ ({Last(stack)} \ abandoned)
          /\ UNCHANGED abandoned
       \/ /\ Last(stack) \in live \ {"pipeline", "audit"}
          /\ abandoned' = abandoned \cup {Last(stack)}
          /\ UNCHANGED live
    /\ UNCHANGED <<handle, at, failure>>

(* handle.fail: an application whose startup failed serves without a       *)
(* runtime; a cancelled one ends, and its handle never says stopped.       *)
RolledBack ==
    /\ at = "rollback"
    /\ stack = <<>>
    /\ status' = "failed"
    /\ executor' = FALSE
    /\ at' = IF failure = "cancelled" THEN "ended" ELSE "serve"
    /\ UNCHANGED <<failure, stack, live, abandoned>>

(* A bug: the executor is revoked after the resources are closed.          *)
ShutdownMutant ==
    /\ at = "serve"
    /\ at' = "close"
    /\ UNCHANGED <<handle, failure, stack, live, abandoned>>

(* The server leaves the lifespan, or the lifespan task is cancelled.      *)
Shutdown ==
    /\ at = "serve"
    /\ executor' = FALSE
    /\ at' = "close"
    /\ UNCHANGED <<status, failure, stack, live, abandoned>>

(* Also when a callback raised.                                            *)
Stop ==
    /\ at = "close"
    /\ stack = <<>>
    /\ status' = "stopped"
    /\ executor' = FALSE
    /\ at' = "ended"
    /\ UNCHANGED <<failure, stack, live, abandoned>>

StartupStep ==
    Begin \/ Connect \/ Collection \/ Index \/ Handshake \/ Hangup \/ Ping \/ StartupFails

LifespanStep == StartupStep \/ CloseNext \/ RolledBack \/ Stop

-----------------------------------------------------------------------------
(* handle.executor *)
Available == status = "ready" /\ executor

(* A request that is given the executor is given a whole runtime: every    *)
(* resource the executor was built on is open, from its publication until  *)
(* it is revoked, and none of the closing has begun.                       *)
ServedRuntimeIsWhole ==
    Available =>
        /\ {"audit", "store", "pipeline"} \subseteq live
        /\ ToSet(stack) = live
        /\ at = "serve"

(* Whatever failed or was cancelled on the way, when there is no runtime   *)
(* (any more) nothing is open but what refused to close or was abandoned   *)
(* on a thread; and the audit log outlives every other resource.           *)
NothingLeaks ==
    /\ (at = "ended" \/ (at = "serve" /\ ~Available)) => "audit" \notin live
    /\ (at # "start" /\ "audit" \notin live) => live \subseteq abandoned
=============================================================================
