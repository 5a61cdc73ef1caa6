--------------------------- MODULE RuntimePreflight ---------------------------
(***************************************************************************)
(* A supervised preflight: the supervisor (runtime_preflight_supervisor),  *)
(* the child process that builds and closes one runtime                    *)
(* (runtime_preflight), the MCP server of that child, and the reader of    *)
(* the evidence (runtime_preflight_verify).  They share nothing but an     *)
(* evidence directory, which may hold the files of an earlier preflight.   *)
(*                                                                         *)
(* The building of the runtime is RuntimeLifecycle's; here it is one stage *)
(* after the other, and the session of the stage mcp_database_preflight is *)
(* EnterpriseDataSession's.  A behaviour is one preflight or, when the     *)
(* client is a data agent's, that agent's session and no preflight.        *)
(***************************************************************************)
EXTENDS EnterpriseDataSession

VARIABLES
    child,       \* where the child process is
    stage,       \* _PreflightLifecycle.current_stage
    verdict,     \* the RuntimePreflightResult the child made
    exitCode,    \* how the child ended
    resultFile,  \* child-result.json
    supervisor,  \* where the supervisor is
    timedOut,    \* its wait timed out
    envelope,    \* verified-envelope.json
    status       \* what the supervisor itself exits with

childState == <<child, stage, verdict, exitCode, resultFile>>
supervision == <<supervisor, timedOut, envelope, status>>
vars == <<session, childState, supervision>>

(* A result: its status, its error code and its mysql_preflight.           *)
Result(s, code, mysql) == [status |-> s, code |-> code, mysql |-> mysql]
NoResult == Result("absent", "none", "not_reached")

(* An envelope: evidence_status, runtime_status, the error code of one or  *)
(* the other, and mysql_preflight.                                         *)
Envelope(evident, runtime, code, mysql) ==
    [evidence |-> evident, runtime |-> runtime, code |-> code, mysql |-> mysql]
NoEnvelope == Envelope("absent", "unknown", "none", "not_reached")

(* _BOOTSTRAP_STAGES: the stage that follows each, up to the MCP client.   *)
NextStage ==
    [runtime_builder |-> "provider_adapters",
     provider_adapters |-> "retrieval_runtime",
     retrieval_runtime |-> "retrieval_initialize",
     retrieval_initialize |-> "mcp_database_preflight"]
Stages == DOMAIN NextStage \cup {"mcp_database_preflight", "runtime_close"}

ResultCodes ==
    ProbeCodes \cup {"mysql_preflight_failed", "stage_failed", "bootstrap_configuration_invalid",
                     "bootstrap_shutdown_failed", "runtime_preflight_unavailable"}
EnvelopeCodes ==
    ResultCodes \cup {"evidence_write_failed", "evidence_child_timeout",
                      "evidence_result_inconsistent", "runtime_child_shutdown_timeout",
                      "runtime_child_exited_without_result"}

PreflightTypeOK ==
    /\ SessionTypeOK
    /\ child \in {"absent", "loading", "building", "built", "writing", "written", "exited"}
    /\ stage \in Stages
    /\ verdict \in [status : {"absent", "passed", "failed"}, code : ResultCodes,
                    mysql : {"not_reached", "passed", "failed"}]
    /\ exitCode \in {"none", "0", "1", "killed"}
    /\ resultFile \in [status : {"absent", "passed", "failed"}, code : ResultCodes,
                       mysql : {"not_reached", "passed", "failed"}]
    /\ supervisor \in {"idle", "starting", "waiting", "killing", "verifying", "done"}
    /\ timedOut \in BOOLEAN
    /\ envelope \in [evidence : {"absent", "verified", "failed"},
                     runtime : {"unknown", "passed", "failed"}, code : EnvelopeCodes,
                     mysql : {"not_reached", "passed", "failed"}]
    /\ status \in {"none", "0", "22"}

(* What an earlier preflight may have left in the evidence directory.      *)
EarlierResults ==
    {NoResult, Result("passed", "none", "passed"),
     Result("failed", "mysql_timeout", "failed")}
EarlierEnvelopes == {NoEnvelope, Envelope("verified", "passed", "none", "passed")}

Init ==
    /\ SessionInit
    /\ child = "absent"
    /\ stage = "runtime_builder"
    /\ verdict = NoResult
    /\ exitCode = "none"
    /\ IF preflight
       THEN /\ resultFile \in EarlierResults
            /\ envelope \in EarlierEnvelopes
       ELSE /\ resultFile = NoResult
            /\ envelope = NoEnvelope
    /\ supervisor = IF preflight THEN "starting" ELSE "idle"
    /\ timedOut = FALSE
    /\ status = "none"

-----------------------------------------------------------------------------
(* The child: main and preflight_configured_runtime *)

Made(result) ==
    /\ verdict' = result
    /\ child' = "writing"

(* What the client knows of the database when it was made.                 *)
Mysql == IF passed THEN "passed" ELSE "failed"

(* The result after the client was made: without a passed probe there is   *)
(* no passed runtime, whatever the error code says.                        *)
Judge(code) ==
    IF code = "none" /\ ~passed
    THEN Made(Result("failed", "mysql_preflight_failed", Mysql))
    ELSE Made(Result(IF code = "none" THEN "passed" ELSE "failed", code, Mysql))

(* write_stage_file and Settings(), which may raise.                       *)
Load ==
    /\ child = "loading"
    /\ \/ child' = "building" /\ UNCHANGED verdict
       \/ Made(Result("failed", "runtime_preflight_unavailable", "not_reached"))
    /\ UNCHANGED <<session, stage, exitCode, resultFile, supervision>>

(* A stage that fails is named by its code, a wrong configuration is not.  *)
(* The last one may fail before it has a client: the client's temporary    *)
(* file cannot be made.                                                    *)
Build ==
    /\ child = "building"
    /\ at = "outside"
    /\ \/ /\ stage \in DOMAIN NextStage
          /\ stage' = NextStage[stage]
          /\ UNCHANGED <<child, verdict>>
       \/ /\ \/ Made(Result("failed", "stage_failed", "not_reached"))
             \/ /\ stage \in DOMAIN NextStage
                /\ Made(Result("failed", "bootstrap_configuration_invalid", "not_reached"))
          /\ UNCHANGED stage
    /\ UNCHANGED <<session, exitCode, resultFile, supervision>>

(* A step of the client, while its process runs.                           *)
Use ==
    /\ ClientStep
    /\ preflight => child = "building" /\ stage = "mcp_database_preflight"
    /\ UNCHANGED <<childState, supervision>>

(* The client was left, and the session store is opened after it.          *)
(* _preflight_error_code: an entry that failed or was interrupted gives    *)
(* the client's code; what fails after it has its stage's or its own.      *)
Built ==
    /\ child = "building"
    /\ at = "left"
    /\ \/ /\ ~passed
          /\ Judge(reported)
       \/ /\ passed
          /\ Judge("stage_failed") \/ Judge("bootstrap_configuration_invalid")
       \/ /\ passed
          /\ raised = "none"
          /\ child' = "built"
          /\ UNCHANGED verdict
    /\ UNCHANGED <<session, stage, exitCode, resultFile, supervision>>

Close ==
    /\ child = "built"
    /\ stage' = "runtime_close"
    /\ Judge("none") \/ Judge("bootstrap_shutdown_failed")
    /\ UNCHANGED <<session, exitCode, resultFile, supervision>>

(* write_result_file, between two writes of the stage file: the file is    *)
(* replaced in one step, and any of the writes may fail.                   *)
Write ==
    /\ child = "writing"
    /\ \/ /\ resultFile' = verdict
          /\ child' = "written"
          /\ UNCHANGED exitCode
       \/ /\ resultFile' \in {resultFile, verdict}
          /\ child' = "exited"
          /\ exitCode' = "1"
    /\ UNCHANGED <<session, stage, verdict, supervision>>

Exit ==
    /\ child = "written"
    /\ child' = "exited"
    /\ exitCode' = IF verdict.status = "passed" THEN "0" ELSE "1"
    /\ UNCHANGED <<session, stage, verdict, resultFile, supervision>>

(* The process ends without a word at any time.                            *)
Running == child \notin {"absent", "exited"}

Crash ==
    /\ Running
    /\ child' = "exited"
    /\ exitCode' = "1"
    /\ at' = "killed"
    /\ UNCHANGED <<preflight, raised, held, unwinding, passed, reported, process, service,
                   stage, verdict, resultFile, supervision>>

ChildStep == Load \/ Build \/ Built \/ Close \/ Write \/ Exit \/ Crash

-----------------------------------------------------------------------------
(* The supervisor *)

Write22 ==
    /\ status' = "22"
    /\ supervisor' = "done"
    /\ UNCHANGED envelope

(* supervise ends with the replacement of the envelope, or with OSError.   *)
Conclude(found) ==
    \/ /\ envelope' = found
       /\ status' = "0"
       /\ supervisor' = "done"
    \/ Write22

(* Popen; the files for the child's output may not open.                   *)
Start ==
    /\ supervisor = "starting"
    /\ \/ /\ child' = "loading"
          /\ supervisor' = "waiting"
          /\ UNCHANGED <<envelope, status>>
       \/ /\ Conclude(Envelope("failed", "unknown", "evidence_write_failed", "not_reached"))
          /\ UNCHANGED child
    /\ UNCHANGED <<session, stage, verdict, exitCode, resultFile, timedOut>>

(* A bug: the supervisor waits as long as the child takes.                 *)
WaitMutant ==
    /\ supervisor = "waiting"
    /\ child = "exited"
    /\ supervisor' = "verifying"
    /\ UNCHANGED <<session, childState, timedOut, envelope, status>>

Wait ==
    /\ supervisor = "waiting"
    /\ \/ /\ child = "exited"
          /\ supervisor' = "verifying"
          /\ UNCHANGED timedOut
       \/ /\ timedOut' = TRUE
          /\ supervisor' = "killing"
    /\ UNCHANGED <<session, childState, envelope, status>>

(* kill and wait: the child may have ended in between.                     *)
Kill ==
    /\ supervisor = "killing"
    /\ supervisor' = "verifying"
    /\ IF Running
       THEN /\ child' = "exited"
            /\ exitCode' = "killed"
            /\ at' = "killed"
       ELSE UNCHANGED <<child, exitCode, at>>
    /\ UNCHANGED <<preflight, raised, held, unwinding, passed, reported, process, service,
                   stage, verdict, resultFile, timedOut, envelope, status>>

(* A bug: a passed result needs no exit code.                              *)
ConsistentMutant == TRUE

(* validate_result_file                                                    *)
Consistent == exitCode = "0" <=> resultFile.status = "passed"

(* _verify_child.  After a timeout a result is only asked to be one.  The  *)
(* word on the database is that of the file, whichever run wrote it.       *)
Finding ==
    IF timedOut
    THEN IF resultFile = NoResult
         THEN Envelope("failed", "unknown", "evidence_child_timeout", "not_reached")
         ELSE Envelope("verified", "failed", "runtime_child_shutdown_timeout", resultFile.mysql)
    ELSE IF resultFile = NoResult
    THEN Envelope("verified", "failed", "runtime_child_exited_without_result", "not_reached")
    ELSE IF Consistent
    THEN Envelope("verified", resultFile.status, resultFile.code, resultFile.mysql)
    ELSE Envelope("failed", "unknown", "evidence_result_inconsistent", "not_reached")

Verify ==
    /\ supervisor = "verifying"
    /\ Conclude(Finding)
    /\ UNCHANGED <<session, childState, timedOut>>

SupervisorStep == Start \/ Wait \/ Kill \/ Verify

-----------------------------------------------------------------------------
Next ==
    \/ Use
    \/ ServerStep /\ UNCHANGED <<childState, supervision>>
    \/ ChildStep
    \/ SupervisorStep

(* The event loop runs what is ready and its timeouts fire; the supervisor *)
(* waits with a timeout.  Nothing is assumed of the server, and of the     *)
(* child only that it serves its client.                                   *)
Fairness == WF_vars(Use) /\ WF_vars(SupervisorStep)

Spec == Init /\ [][Next]_vars /\ Fairness

-----------------------------------------------------------------------------
(* runtime_preflight_verify                                                *)
VerifyCode ==
    IF envelope.evidence # "verified" THEN "20"
    ELSE IF envelope.runtime = "passed" THEN "0" ELSE "10"

(* A preflight whose supervisor and reader both exit with 0 has built and  *)
(* closed a runtime: this child, in this run, within its time, with a      *)
(* probe that passed, whatever an earlier preflight left in the directory. *)
PassedMeansBuilt ==
    status = "0" /\ VerifyCode = "0" =>
        /\ ~timedOut
        /\ exitCode = "0"
        /\ verdict = Result("passed", "none", "passed")
        /\ stage = "runtime_close"
        /\ probe = "none"

(* What an envelope says of the database is what this run's probe found.   *)
TellsTheProbe ==
    /\ envelope.mysql = "passed" => probe = "none"
    /\ envelope.code \in ProbeCodes \ {"none"} => envelope.code = probe

(* What a preflight says of all it started is so, and so is what it says   *)
(* of its database, unless its supervisor read a file that is not this     *)
(* child's: that of an earlier run, which nothing removes, may be repeated *)
(* as long as it does not say that all of it passed.                       *)
PreflightIsTruthful ==
    /\ ReportsTheProbe
    /\ PassedMeansBuilt
    /\ status = "0" /\ resultFile = verdict => TellsTheProbe

(* Whatever the server does, the owner of a client gets out of it; and a   *)
(* child that hangs at any point is ended with its supervision.            *)
EveryOwnerEnds ==
    /\ EverySessionEnds
    /\ (supervisor = "starting") ~> (supervisor = "done" /\ ~Running)
=============================================================================
