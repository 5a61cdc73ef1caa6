------------------------ MODULE EnterpriseDataSession ------------------------
(***************************************************************************)
(* One EnterpriseDataMCPClient, the MCP server process it starts, and the  *)
(* SafeQueryService in it, from one await to the next.                     *)
(*                                                                         *)
(* The client belongs to a data agent's run, which plans one statement and *)
(* sends it (ScopedEnterpriseDataClient between them), or to a preflight,  *)
(* which only enters and leaves and whose server probes its database in    *)
(* its lifespan.  Every await of the client has a timeout.  An await may   *)
(* also be interrupted: cancelled, or left by an error that is neither a   *)
(* transport error nor one that closing swallows.                          *)
(*                                                                         *)
(* The MCP SDK, the operating system and MySQL are external: a process may *)
(* fail to start or end at any time, a statement may run for ever.         *)
(***************************************************************************)
EXTENDS Naturals, FiniteSets

CONSTANTS
    Tables,  \* BUSINESS_TABLE_COLUMNS
    Scope    \* DataScope.allowed_resources of the request's identity

ASSUME ScopeAssumption == Scope \subseteq Tables

VARIABLES
    preflight,  \* the client was made for_database_preflight
    at,         \* the await the client's owner is at
    raised,     \* the code of the error on its way out, or "none"
    held,       \* the contexts that have to be left
    unwinding,  \* history: how leaving them went
    passed,     \* _database_preflight_passed
    reported,   \* _database_preflight_error_code
    server,     \* where the server process is
    probe,      \* the error code the server's probe ended with
    file,       \* database_preflight_result_file: absent, or its error code
    statement,  \* the statement the agent planned
    query,      \* execute_safe_query in the server
    threads,    \* the server's threads that still run the statement
    evidence    \* the agent has the evidence [D1]

client == <<preflight, at, raised, held, unwinding, passed, reported>>
process == <<server, probe, file>>
service == <<statement, query, threads, evidence>>
session == <<client, process, service>>

Unreachable == {"mcp_server_unavailable", "mcp_initialization_failed"}
ProbeFailures ==
    {"mysql_authentication_failed", "mysql_connection_failed", "mysql_timeout",
     "mysql_health_query_failed", "mysql_configuration_missing"}
ProbeCodes == ProbeFailures \cup {"none", "mysql_shutdown_failed"}

GuardRejections ==
    {"dangerous_function_not_allowed", "sql_parse_failed",
     "multiple_statements_not_allowed", "write_statement_not_allowed",
     "locking_read_not_allowed", "system_schema_not_allowed", "unauthorized_table",
     "wildcard_not_allowed", "unauthorized_column", "limit_exceeded"}
QueryFailures ==
    {"query_timeout", "database_unavailable", "safe_query_execution_failed",
     "result_too_large"}
Answers == GuardRejections \cup QueryFailures \cup {"rows", "unconfigured"}

Entering == {"enter_stdio", "enter_session", "initialize", "list_tools"}
Body == {"schema", "definitions", "plan", "execute", "answer"}
Places == Entering \cup Body
          \cup {"outside", "close_session", "close_stdio", "read_result", "left", "killed"}

(* What SQLGuard tells apart in a statement: the first rule it breaks, the *)
(* business tables it reads and those whose names it gives to a CTE; and   *)
(* the tables that follow a FROM or JOIN in its text, which is all that    *)
(* ScopedEnterpriseDataClient looks for.                                   *)
Statement == [breaks : GuardRejections \cup {"none"},
              reads : SUBSET Tables,
              ctes : SUBSET Tables,
              named : SUBSET Tables]
NoStatement == [breaks |-> "none", reads |-> {}, ctes |-> {}, named |-> {}]

(* accessed_tables: a table is passed over when any CTE has its name.      *)
Accessed == statement.reads \ statement.ctes

SessionTypeOK ==
    /\ preflight \in BOOLEAN
    /\ at \in Places
    /\ raised \in {"none", "interrupted", "mcp_required_tool_missing", "data_scope_violation",
                   "data_query_without_business_table", "mcp_tool_timeout",
                   "mcp_tool_call_failed", "mcp_response_invalid", "mysql_preflight_failed"}
                  \cup Unreachable \cup ProbeCodes \cup Answers
    /\ held \subseteq {"session", "stdio", "stderr"}
    /\ unwinding \in {"clean", "refused", "interrupted"}
    /\ passed \in BOOLEAN
    /\ reported \in ProbeCodes \cup {"mysql_preflight_failed"}
    /\ server \in {"absent", "starting", "probing", "closing", "writing", "serving", "gone"}
    /\ probe \in ProbeCodes \cup {"unknown"}
    /\ file \in ProbeCodes \cup {"absent"}
    /\ statement \in Statement
    /\ query \in {"none", "sent", "running"} \cup Answers
    /\ threads \in 0..1
    /\ evidence \in BOOLEAN

SessionInit ==
    /\ preflight \in BOOLEAN
    /\ at = "outside"
    /\ raised = "none"
    /\ held = {}
    /\ unwinding = "clean"
    /\ passed = FALSE
    /\ reported = "mysql_preflight_failed"
    /\ server = "absent"
    /\ probe = "unknown"
    /\ file = "absent"
    /\ statement = NoStatement
    /\ query = "none"
    /\ threads = 0
    /\ evidence = FALSE

-----------------------------------------------------------------------------
(* __aenter__ *)

(* A bug: a handshake that fails is reported without closing anything.     *)
LeaveMutant(code) ==
    /\ raised' = code
    /\ at' = IF at = "initialize" THEN "left" ELSE "close_session"

(* _abort_enter, and __aexit__ when the body is left: both close what is   *)
(* held.                                                                   *)
Leave(code) ==
    /\ raised' = code
    /\ at' = "close_session"

Goto(next) == at' = next /\ UNCHANGED raised

(* An await that ends in a transport error, which the timeout is one of,   *)
(* or is interrupted.                                                      *)
Fails(code) == Leave(code) \/ Leave("interrupted")

Enter ==
    /\ at = "outside"
    /\ held' = {"stderr"}
    /\ Goto("enter_stdio")
    /\ UNCHANGED <<preflight, unwinding, passed, reported, process, service>>

EnterStdio ==
    /\ at = "enter_stdio"
    /\ \/ /\ held' = held \cup {"stdio"}
          /\ server' = "starting"
          /\ Goto("enter_session")
       \/ /\ Fails("mcp_server_unavailable")
          /\ UNCHANGED <<held, server>>
    /\ UNCHANGED <<preflight, unwinding, passed, reported, probe, file, service>>

EnterSession ==
    /\ at = "enter_session"
    /\ held' = held \cup {"session"}
    /\ \/ Goto("initialize")
       \/ Fails("mcp_initialization_failed")
    /\ UNCHANGED <<preflight, unwinding, passed, reported, process, service>>

(* The server answers when its lifespan has started.                       *)
Initialize ==
    /\ at = "initialize"
    /\ \/ server = "serving" /\ Goto("list_tools")
       \/ Fails("mcp_initialization_failed")
    /\ UNCHANGED <<preflight, held, unwinding, passed, reported, process, service>>

(* The tools are those of another version of the server, or the client is  *)
(* in: a preflight and the startup of a runtime leave at once.             *)
ListTools ==
    /\ at = "list_tools"
    /\ \/ /\ server = "serving"
          /\ passed' = preflight
          /\ reported' = "none"
          /\ IF preflight THEN Leave("none") ELSE Goto("schema")
       \/ /\ \/ server = "serving" /\ Leave("mcp_required_tool_missing")
             \/ Fails("mcp_initialization_failed")
          /\ UNCHANGED <<passed, reported>>
    /\ UNCHANGED <<preflight, held, unwinding, process, service>>

-----------------------------------------------------------------------------
(* _close_contexts.  The client forgets its contexts first: what is not    *)
(* left now is never left.                                                 *)

(* Closing a context takes effect; it times out or fails, which is         *)
(* swallowed; or it is interrupted, and the contexts after it are skipped. *)
CloseSession ==
    /\ at = "close_session"
    /\ \/ Goto("close_stdio") /\ held' = held \ {"session"} /\ UNCHANGED unwinding
       \/ Goto("close_stdio") /\ "session" \in held /\ unwinding' = "refused" /\ UNCHANGED held
       \/ /\ "session" \in held
          /\ unwinding' = "interrupted"
          /\ raised' = "interrupted"
          /\ at' = "left"
          /\ UNCHANGED held
    /\ UNCHANGED <<preflight, passed, reported, process, service>>

(* The owner of a preflight is told what its file says.                    *)
Explains == preflight /\ raised \in Unreachable

AfterClosing ==
    /\ held' = held \ {"session", "stdio", "stderr"}
    /\ at' = IF Explains THEN "read_result" ELSE "left"
    /\ file' = IF passed THEN "absent" ELSE file
    /\ UNCHANGED raised

(* Leaving the stdio context ends the server process, whatever it is at.   *)
CloseStdio ==
    /\ at = "close_stdio"
    /\ \/ /\ server' = IF "stdio" \in held THEN "gone" ELSE server
          /\ threads' = 0
          /\ AfterClosing
          /\ UNCHANGED unwinding
       \/ /\ "stdio" \in held
          /\ unwinding' = "refused"
          /\ AfterClosing
          /\ UNCHANGED <<server, threads>>
       \/ /\ "stdio" \in held
          /\ unwinding' = "interrupted"
          /\ raised' = "interrupted"
          /\ at' = "left"
          /\ UNCHANGED <<held, file, server, threads>>
    /\ UNCHANGED <<preflight, passed, reported, probe, statement, query, evidence>>

(* _enter_error_code.  The file is there or twenty looks do not find it;   *)
(* the marker in the child's stderr repeats the code of the file.  The     *)
(* error that is raised may carry the code "none".                         *)
ReadResult ==
    /\ at = "read_result"
    /\ at' = "left"
    /\ \/ /\ reported' = IF file = "absent" THEN reported ELSE file
          /\ raised' = reported'
          /\ file' = "absent"
       \/ /\ raised' = "interrupted"
          /\ UNCHANGED <<reported, file>>
    /\ UNCHANGED <<preflight, held, unwinding, passed, server, probe, service>>

-----------------------------------------------------------------------------
(* The server's lifespan *)

Alive == server \notin {"absent", "gone"}

StartServer ==
    /\ server = "starting"
    /\ server' = IF preflight THEN "probing" ELSE "serving"
    /\ UNCHANGED <<client, probe, file, service>>

(* preflight_connection on a thread; without a configuration there is no   *)
(* service to close.                                                       *)
Probe ==
    /\ server = "probing"
    /\ \/ /\ probe' \in {"none"} \cup (ProbeFailures \ {"mysql_configuration_missing"})
          /\ server' = "closing"
       \/ /\ probe' = "mysql_configuration_missing"
          /\ server' = "writing"
    /\ UNCHANGED <<client, file, service>>

(* The finally of preflight_database: a failed close hides the probe.      *)
CloseProbe ==
    /\ server = "closing"
    /\ probe' \in {probe, "mysql_shutdown_failed"}
    /\ server' = "writing"
    /\ UNCHANGED <<client, file, service>>

(* The file is replaced in one step; a probe that failed ends the server.  *)
WriteResult ==
    /\ server = "writing"
    /\ file' = probe
    /\ server' = IF probe = "none" THEN "serving" ELSE "gone"
    /\ UNCHANGED <<client, probe, service>>

(* The process ends: killed, by an error of its own (a file it cannot      *)
(* write), or because it lost its client.                                  *)
ServerEnds ==
    /\ Alive
    /\ server' = "gone"
    /\ threads' = 0
    /\ UNCHANGED <<client, probe, file, statement, query, evidence>>

-----------------------------------------------------------------------------
(* The data agent inside the context *)

(* A call of a tool that gives nothing to go on with: the server is gone,  *)
(* the call times out, its answer is invalid, or the agent is cancelled.   *)
CallFails ==
    \/ Leave("mcp_tool_timeout")
    \/ Leave("mcp_tool_call_failed")
    \/ Leave("mcp_response_invalid")
    \/ Leave("interrupted")

(* A schema without a table of the scope plans nothing.                    *)
GetSchema ==
    /\ at = "schema"
    /\ \/ server = "serving" /\ Scope # {} /\ Goto("definitions")
       \/ server = "serving" /\ Scope = {} /\ Leave("data_scope_violation")
       \/ CallFails
    /\ UNCHANGED <<preflight, held, unwinding, passed, reported, process, service>>

GetDefinitions ==
    /\ at = "definitions"
    /\ \/ server = "serving" /\ Goto("plan")
       \/ CallFails
    /\ UNCHANGED <<preflight, held, unwinding, passed, reported, process, service>>

(* The planner is a model: any statement, or no statement.                 *)
Plan ==
    /\ at = "plan"
    /\ \/ statement' \in Statement /\ Goto("execute")
       \/ Leave("none") /\ UNCHANGED statement
       \/ Leave("interrupted") /\ UNCHANGED statement
    /\ UNCHANGED <<preflight, held, unwinding, passed, reported, process, query,
                   threads, evidence>>

(* ScopedEnterpriseDataClient.execute_safe_query, up to its call.          *)
SendQuery ==
    /\ at = "execute"
    /\ query = "none"
    /\ IF statement.named \subseteq Scope
       THEN query' = "sent" /\ Goto("execute")
       ELSE Leave("data_scope_violation") /\ UNCHANGED query
    /\ UNCHANGED <<preflight, held, unwinding, passed, reported, process, statement,
                   threads, evidence>>

(* A bug: the tables of the answer are not checked again.                  *)
PermitsMutant(tables) == statement.named \subseteq Scope

Permits(tables) == tables \subseteq Scope

(* The tables an answer reports: those of the guard, when the statement    *)
(* got past it, whatever became of the query.                              *)
Reported == IF query \in QueryFailures \cup {"rows"} THEN Accessed ELSE {}

AnswerCode == IF query = "unconfigured" THEN "database_unavailable" ELSE query

(* The answer arrives before the timeout, and the tables it reports are    *)
(* checked before its error code; the evidence is made, and the agent      *)
(* writes its answer, still inside the context.                            *)
ReceiveAnswer ==
    /\ at = "execute"
    /\ query # "none"
    /\ \/ /\ server = "serving"
          /\ query \in Answers
          /\ ~Permits(Reported)
          /\ Leave("data_scope_violation") /\ UNCHANGED evidence
       \/ /\ server = "serving"
          /\ query \in Answers \ {"rows"}
          /\ Permits(Reported)
          /\ Leave(AnswerCode) /\ UNCHANGED evidence
       \/ /\ server = "serving"
          /\ query = "rows"
          /\ Permits(Reported)
          /\ IF Reported = {}
             THEN Leave("data_query_without_business_table") /\ UNCHANGED evidence
             ELSE Goto("answer") /\ evidence' = TRUE
       \/ CallFails /\ UNCHANGED evidence
    /\ UNCHANGED <<preflight, held, unwinding, passed, reported, process, statement,
                   query, threads>>

GenerateAnswer ==
    /\ at = "answer"
    /\ Leave("none") \/ Leave("interrupted")
    /\ UNCHANGED <<preflight, held, unwinding, passed, reported, process, service>>

-----------------------------------------------------------------------------
(* SafeQueryService.execute in the server *)

(* SQLGuard.validate, then a thread; without a configuration there is no   *)
(* database.                                                               *)
Guard ==
    /\ query = "sent"
    /\ server = "serving"
    /\ \/ /\ statement.breaks # "none"
          /\ query' = statement.breaks
          /\ UNCHANGED threads
       \/ /\ statement.breaks = "none"
          /\ query' = "running"
          /\ threads' = threads + 1
       \/ /\ query' = "unconfigured"
          /\ UNCHANGED threads
    /\ UNCHANGED <<client, process, statement, evidence>>

(* The thread ends.  Its result counts when the service still waits for    *)
(* it: rows, more rows or cells than allowed, or an error of the driver.   *)
Finish ==
    /\ threads > 0
    /\ threads' = threads - 1
    /\ IF query = "running"
       THEN query' \in QueryFailures \cup {"rows"}
       ELSE UNCHANGED query
    /\ UNCHANGED <<client, process, statement, evidence>>

(* The application timeout: the service answers, the thread goes on and    *)
(* the pool is replaced under it.                                          *)
QueryTimeout ==
    /\ query = "running"
    /\ server = "serving"
    /\ query' = "query_timeout"
    /\ UNCHANGED <<client, process, statement, threads, evidence>>

-----------------------------------------------------------------------------
ClientStep ==
    \/ Enter \/ EnterStdio \/ EnterSession \/ Initialize \/ ListTools
    \/ GetSchema \/ GetDefinitions \/ Plan \/ SendQuery \/ ReceiveAnswer
    \/ GenerateAnswer \/ CloseSession \/ CloseStdio \/ ReadResult

ServerStep ==
    \/ StartServer \/ Probe \/ CloseProbe \/ WriteResult \/ ServerEnds
    \/ Guard \/ Finish \/ QueryTimeout

-----------------------------------------------------------------------------
(* Wherever entering, using or leaving it fails, a client that is left has *)
(* stopped its server process, unless the closing itself timed out, failed *)
(* or was interrupted.                                                     *)
ServersAreStopped == at = "left" /\ unwinding = "clean" => ~Alive

(* Evidence is what the server answered to the statement of this session:  *)
(* rows that the guard let through.  They come from tables of the scope,   *)
(* also when the planned SQL names them where the pattern does not look,   *)
(* or from tables whose names the statement gives to a CTE.  The late      *)
(* result of a thread whose statement timed out changes nothing.           *)
EvidenceStaysInScope ==
    [][/\ query \in Answers => query' = query
       /\ evidence' # evidence =>
             /\ query = "rows"
             /\ statement.breaks = "none"
             /\ Accessed # {}
             /\ statement.reads \subseteq Scope \cup statement.ctes]_session

(* What a preflight client says of its database is what the probe of its   *)
(* server found, or that it does not know; it says passed only of a probe  *)
(* that passed, and a client that reads the file leaves none behind.       *)
ReportsTheProbe ==
    preflight /\ at = "left" =>
        /\ passed => probe = "none"
        /\ reported \in {probe, "mysql_preflight_failed"}
        /\ raised \in ProbeCodes /\ unwinding = "clean" => file = "absent"

(* Whatever the server does, the owner of a client gets out of it.         *)
EverySessionEnds == (at = "enter_stdio") ~> (at \in {"left", "killed"})
=============================================================================
