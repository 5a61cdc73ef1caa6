------------------------- MODULE EnterpriseDataProofs -------------------------
(***************************************************************************)
(* Proofs about RuntimePreflight and the EnterpriseDataSession it extends, *)
(* for every set of tables and every scope.                                *)
(***************************************************************************)
EXTENDS RuntimePreflight, TLAPS

-----------------------------------------------------------------------------
(* The server process and the client that started it.                      *)

Inside == {"enter_session", "initialize", "list_tools", "close_session", "close_stdio"} \cup Body

(* While a server lives its client still has to leave it, or the leaving   *)
(* went wrong, or the client's own process is gone.                        *)
ServerInv ==
    Alive => \/ at \in Inside /\ "stdio" \in held
             \/ at \in {"read_result", "left"} /\ unwinding # "clean"
             \/ at = "killed"

LEMMA ServerStepKept == ServerInv /\ [Next]_vars => ServerInv'
<1> SUFFICES ASSUME ServerInv, [Next]_vars PROVE ServerInv'
  OBVIOUS
<1> USE DEF ServerInv, Alive, Inside, Body
<1>1. CASE Enter
  BY <1>1 DEF Enter, Goto, process
<1>2. CASE EnterStdio
  BY <1>2 DEF EnterStdio, Fails, Leave, Goto
<1>3. CASE EnterSession
  BY <1>3 DEF EnterSession, Fails, Leave, Goto, process
<1>4. CASE Initialize \/ ListTools
  BY <1>4 DEF Initialize, ListTools, Fails, Leave, Goto, process
<1>5. CASE GetSchema \/ GetDefinitions \/ Plan
  BY <1>5 DEF GetSchema, GetDefinitions, Plan, CallFails, Leave, Goto, process
<1>6. CASE SendQuery \/ ReceiveAnswer \/ GenerateAnswer
  BY <1>6 DEF SendQuery, ReceiveAnswer, GenerateAnswer, CallFails, Leave, Goto, process
<1>7. CASE CloseSession
  BY <1>7 DEF CloseSession, Goto, process
<1>8. CASE CloseStdio
  BY <1>8 DEF CloseStdio, AfterClosing
<1>9. CASE ReadResult
  BY <1>9 DEF ReadResult
<1>10. CASE ServerStep
  BY <1>10 DEF ServerStep, StartServer, Probe, CloseProbe, WriteResult, ServerEnds,
               Guard, Finish, QueryTimeout, client, process
<1>11. CASE ChildStep
  BY <1>11 DEF ChildStep, Load, Build, Built, Close, Write, Exit, Crash, session, client, process
<1>12. CASE SupervisorStep
  BY <1>12 DEF SupervisorStep, Start, Wait, Kill, Verify, session, client, process
<1>13. CASE UNCHANGED vars
  BY <1>13 DEF vars, session, client, process
<1> QED
  BY <1>1, <1>2, <1>3, <1>4, <1>5, <1>6, <1>7, <1>8, <1>9, <1>10, <1>11, <1>12, <1>13
     DEF Next, Use, ClientStep

LEMMA ServerInit == Init => ServerInv
BY DEF Init, SessionInit, ServerInv, Alive

(* A client that was left has stopped its server unless leaving went       *)
(* wrong: no path through entering, using, failing and closing forgets it. *)
THEOREM LeftServersAreStopped == Spec => []ServersAreStopped
<1>1. ServerInv => ServersAreStopped
  BY DEF ServerInv, ServersAreStopped, Inside, Body
<1> QED
  BY <1>1, ServerInit, ServerStepKept, PTL DEF Spec

-----------------------------------------------------------------------------
(* The statement and its answer. *)

Unsent == Entering \cup {"outside", "schema", "definitions", "plan"}

(* A query is of the planned statement, and only runs if the guard has     *)
(* nothing against it.                                                     *)
QueryInv ==
    /\ statement.breaks \in GuardRejections \cup {"none"}
    /\ at \in Unsent => query = "none"
    /\ query \in {"running", "rows"} => statement.breaks = "none"

LEMMA QueryStepKept == QueryInv /\ [Next]_vars => QueryInv'
<1> SUFFICES ASSUME QueryInv, [Next]_vars PROVE QueryInv'
  OBVIOUS
<1> USE DEF QueryInv, Unsent, Entering
<1>1. CASE Enter \/ EnterStdio \/ EnterSession \/ Initialize \/ ListTools
  BY <1>1 DEF Enter, EnterStdio, EnterSession, Initialize, ListTools, Fails, Leave, Goto, service
<1>2. CASE GetSchema \/ GetDefinitions
  BY <1>2 DEF GetSchema, GetDefinitions, CallFails, Leave, Goto, service
<1>3. CASE Plan
  BY <1>3 DEF Plan, Leave, Goto, Statement
<1>4. CASE SendQuery \/ ReceiveAnswer \/ GenerateAnswer
  BY <1>4 DEF SendQuery, ReceiveAnswer, GenerateAnswer, CallFails, Leave, Goto, service
<1>5. CASE CloseSession \/ CloseStdio \/ ReadResult
  BY <1>5 DEF CloseSession, CloseStdio, AfterClosing, ReadResult, Goto, service
<1>6. CASE ServerStep
  <2>1. CASE StartServer \/ Probe \/ CloseProbe \/ WriteResult \/ ServerEnds
    BY <2>1 DEF StartServer, Probe, CloseProbe, WriteResult, ServerEnds, client, service
  <2>2. CASE Guard
    BY <2>2 DEF Guard, client, GuardRejections
  <2>3. CASE Finish \/ QueryTimeout
    BY <2>3 DEF Finish, QueryTimeout, QueryFailures, client
  <2> QED
    BY <1>6, <2>1, <2>2, <2>3 DEF ServerStep
<1>7. CASE ChildStep
  BY <1>7 DEF ChildStep, Load, Build, Built, Close, Write, Exit, Crash, session, client, service
<1>8. CASE SupervisorStep
  BY <1>8 DEF SupervisorStep, Start, Wait, Kill, Verify, session, client, service
<1>9. CASE UNCHANGED vars
  BY <1>9 DEF vars, session, client, service
<1> QED
  BY <1>1, <1>2, <1>3, <1>4, <1>5, <1>6, <1>7, <1>8, <1>9 DEF Next, Use, ClientStep

LEMMA QueryInit == Init => QueryInv
BY DEF Init, SessionInit, NoStatement, QueryInv

(* An answer of the server stands, and evidence is made only of rows of a  *)
(* statement that the guard let through and that reads tables of the scope *)
(* or tables whose names it gives to a CTE: that the latter are of the     *)
(* scope is not so.                                                        *)
THEOREM EvidenceIsScoped == Spec => EvidenceStaysInScope
<1> DEFINE Scoped ==
      /\ query \in Answers => query' = query
      /\ evidence' # evidence =>
           /\ query = "rows"
           /\ statement.breaks = "none"
           /\ Accessed # {}
           /\ statement.reads \subseteq Scope \cup statement.ctes
<1>1. ASSUME QueryInv, [Next]_vars PROVE Scoped \/ UNCHANGED session
  <2>1. CASE UNCHANGED <<query, evidence>>
    BY <2>1
  <2>2. CASE SendQuery
    BY <2>2 DEF SendQuery, Answers, GuardRejections, QueryFailures
  <2>3. CASE ReceiveAnswer
    <3>1. ASSUME evidence' # evidence
          PROVE  query = "rows" /\ Accessed # {} /\ Accessed \subseteq Scope
      BY <2>3, <3>1 DEF ReceiveAnswer, Permits, Reported
    <3>2. UNCHANGED query
      BY <2>3 DEF ReceiveAnswer
    <3> QED
      BY <1>1, <3>1, <3>2 DEF QueryInv, Accessed
  <2>4. CASE Guard \/ Finish \/ QueryTimeout
    BY <2>4 DEF Guard, Finish, QueryTimeout, Answers, GuardRejections, QueryFailures
  <2>5. CASE ClientStep /\ ~SendQuery /\ ~ReceiveAnswer
    BY <2>1, <2>5 DEF ClientStep, Enter, EnterStdio, EnterSession, Initialize, ListTools, GetSchema,
                      GetDefinitions, Plan, GenerateAnswer, CloseSession, CloseStdio, ReadResult, service
  <2>6. CASE ServerStep /\ ~Guard /\ ~Finish /\ ~QueryTimeout
    BY <2>1, <2>6 DEF ServerStep, StartServer, Probe, CloseProbe, WriteResult, ServerEnds, service
  <2>7. CASE ChildStep \/ SupervisorStep \/ UNCHANGED vars
    BY <2>1, <2>7 DEF ChildStep, Load, Build, Built, Close, Write, Exit, Crash,
                      SupervisorStep, Start, Wait, Kill, Verify, vars, session, service
  <2> QED
    BY <1>1, <2>2, <2>3, <2>4, <2>5, <2>6, <2>7 DEF Next, Use
<1>2. Spec => []QueryInv
  BY QueryInit, QueryStepKept, PTL DEF Spec
<1> QED
  BY <1>1, <1>2, PTL DEF Spec, EvidenceStaysInScope
-----------------------------------------------------------------------------
(* The probe of a preflight's server, and what its client makes of it.     *)

BeforeResult == {"absent", "starting", "probing", "closing", "writing"}
Inwards == Entering \cup {"outside"}

(* The probe is over when the file is written; the client knows of it by   *)
(* the handshake, or later by the file.                                    *)
ProbeInv ==
    /\ at \in {"outside", "enter_stdio"} => server = "absent"
    /\ server \in BeforeResult => file = "absent" /\ ~passed
    /\ file # "absent" => file = probe
    /\ preflight /\ server = "serving" => probe = "none"
    /\ passed => preflight /\ probe = "none"
    /\ at \in Inwards => ~passed /\ reported = "mysql_preflight_failed"
    /\ preflight /\ reported # "mysql_preflight_failed" =>
           reported = probe /\ server \notin BeforeResult

(* What is raised on the way out of a preflight.                           *)
RaisedInv ==
    preflight =>
        /\ at \notin Body
        /\ at \in Inwards => raised = "none"
        /\ at \in {"close_session", "close_stdio", "read_result"} =>
               /\ raised \in Unreachable \cup {"none", "interrupted", "mcp_required_tool_missing"}
               /\ raised = "none" => passed
               /\ passed => raised \in {"none", "interrupted"}
        /\ at = "left" /\ raised \in ProbeCodes /\ unwinding = "clean" => file = "absent"

ClientInv == ServerInv /\ ProbeInv /\ RaisedInv

LEMMA ClientStepKept == ClientInv /\ [Next]_vars => ClientInv'
<1> SUFFICES ASSUME ServerInv, ProbeInv, RaisedInv, [Next]_vars PROVE ProbeInv' /\ RaisedInv'
  BY ServerStepKept DEF ClientInv
<1> USE DEF ProbeInv, RaisedInv, BeforeResult, Inwards, Entering, Body
<1>1. CASE Enter \/ EnterStdio \/ EnterSession
  BY <1>1 DEF Enter, EnterStdio, EnterSession, Fails, Leave, Goto, process, Unreachable, ProbeCodes, ProbeFailures
<1>2. CASE Initialize
  BY <1>2 DEF Initialize, Fails, Leave, Goto, process, Unreachable
<1>3. CASE ListTools
  BY <1>3 DEF ListTools, Fails, Leave, Goto, process, Unreachable
<1>4. CASE GetSchema \/ GetDefinitions \/ Plan
  BY <1>4 DEF GetSchema, GetDefinitions, Plan, CallFails, Leave, Goto, process
<1>5. CASE SendQuery \/ ReceiveAnswer \/ GenerateAnswer
  BY <1>5 DEF SendQuery, ReceiveAnswer, GenerateAnswer, CallFails, Leave, Goto, process
<1>6. CASE CloseSession
  BY <1>6 DEF CloseSession, Goto, process, ProbeCodes, ProbeFailures
<1>7. CASE CloseStdio
  BY <1>7 DEF CloseStdio, AfterClosing, Explains, ProbeCodes, ProbeFailures, Unreachable
<1>8. CASE ReadResult
  BY <1>8 DEF ReadResult, ProbeCodes, ProbeFailures, Unreachable
<1>9. CASE StartServer \/ Probe \/ CloseProbe \/ WriteResult \/ ServerEnds
  BY <1>9 DEF StartServer, Probe, CloseProbe, WriteResult, ServerEnds, client, ServerInv, Alive, Inside,
              ProbeCodes, ProbeFailures
<1>10. CASE Guard \/ Finish \/ QueryTimeout
  BY <1>10 DEF Guard, Finish, QueryTimeout, client, process
<1>11. CASE ChildStep
  BY <1>11 DEF ChildStep, Load, Build, Built, Close, Write, Exit, Crash, session, client, process
<1>12. CASE SupervisorStep
  BY <1>12 DEF SupervisorStep, Start, Wait, Kill, Verify, session, client, process
<1>13. CASE UNCHANGED vars
  BY <1>13 DEF vars, session, client, process
<1> QED
  BY <1>1, <1>2, <1>3, <1>4, <1>5, <1>6, <1>7, <1>8, <1>9, <1>10, <1>11, <1>12, <1>13
     DEF Next, Use, ClientStep, ServerStep

LEMMA ClientInit == Init => ClientInv
BY ServerInit DEF Init, SessionInit, ClientInv, ProbeInv, RaisedInv, BeforeResult, Inwards, Entering, Body

-----------------------------------------------------------------------------
(* The child and its supervisor. *)

Good == Result("passed", "none", "passed")

(* A passed result is made by the closing of a runtime that was built; an  *)
(* exit code of 0 says that the result in the directory is this child's.   *)
ChildInv ==
    /\ child = "built" => passed
    /\ verdict.status = "passed" =>
           /\ verdict = Good
           /\ stage = "runtime_close"
           /\ passed
           /\ child \in {"writing", "written", "exited"}
    /\ child = "written" => resultFile = verdict
    /\ exitCode = "0" => child = "exited" /\ resultFile = verdict

SupervisorInv ==
    /\ supervisor = "starting" => child = "absent"
    /\ supervisor \in {"waiting", "killing"} => child # "absent"
    /\ supervisor = "verifying" => child = "exited"
    /\ supervisor = "done" => child \in {"exited", "absent"}
    /\ status = "0" => supervisor = "done"
    /\ PassedMeansBuilt

(* What a result or an envelope says of the database, the client says.     *)
TellsTheClient(found) ==
    /\ found.mysql = "passed" => passed
    /\ found.code \in ProbeCodes \ {"none"} => found.code = reported

(* The child judges a client that takes no further step, and an envelope   *)
(* over this child's file says what the child said.                        *)
WordInv ==
    /\ child # "absent" \/ supervisor # "idle" => preflight
    /\ child \in {"absent", "loading", "building", "built"} => verdict = NoResult
    /\ TellsTheClient(verdict)
    /\ status = "0" /\ resultFile = verdict => TellsTheClient(envelope)

PreflightInv == ClientInv /\ ChildInv /\ SupervisorInv /\ WordInv

LEMMA FindingIsBuilt ==
    ASSUME ProbeInv, ChildInv, child = "exited", Finding.evidence = "verified", Finding.runtime = "passed"
    PROVE  /\ ~timedOut
           /\ exitCode = "0"
           /\ verdict = Good
           /\ stage = "runtime_close"
           /\ probe = "none"
<1>1. ~timedOut /\ Consistent /\ resultFile.status = "passed"
  BY DEF Finding, Envelope
<1>2. exitCode = "0" /\ verdict.status = "passed"
  BY <1>1 DEF Consistent, ChildInv
<1> QED
  BY <1>1, <1>2 DEF ChildInv, ProbeInv

(* The finding over a result of this child says what that result says.     *)
LEMMA FindingTells ==
    ASSUME WordInv, resultFile = verdict
    PROVE  TellsTheClient(Finding)
<1>1. TellsTheClient(resultFile)
  BY DEF WordInv
<1>2. Finding.mysql \in {"not_reached", resultFile.mysql}
  BY DEF Finding, Envelope
<1>3. Finding.code \in {"evidence_child_timeout", "runtime_child_shutdown_timeout",
                        "runtime_child_exited_without_result", "evidence_result_inconsistent",
                        resultFile.code}
  BY DEF Finding, Envelope
<1> QED
  BY <1>1, <1>2, <1>3 DEF TellsTheClient, ProbeCodes, ProbeFailures

LEMMA ChildStepKept == PreflightInv /\ [Next]_vars => ChildInv'
<1> SUFFICES ASSUME ProbeInv, ChildInv, SupervisorInv, [Next]_vars PROVE ChildInv'
  BY DEF PreflightInv, ClientInv
<1> USE DEF ChildInv
<1>1. CASE Use
  <2>1. UNCHANGED <<child, stage, verdict, exitCode, resultFile>>
    BY <1>1 DEF Use, childState
  <2>2. passed => passed'
    BY <1>1 DEF Use, ClientStep, Enter, EnterStdio, EnterSession, Initialize, ListTools, GetSchema,
                GetDefinitions, Plan, SendQuery, ReceiveAnswer, GenerateAnswer, CloseSession,
                CloseStdio, ReadResult, ProbeInv, Inwards, Entering
  <2> QED
    BY <2>1, <2>2
<1>2. CASE ServerStep /\ UNCHANGED childState
  BY <1>2 DEF ServerStep, StartServer, Probe, CloseProbe, WriteResult, ServerEnds, Guard, Finish,
              QueryTimeout, client, childState
<1>3. CASE Load \/ Build \/ Built
  BY <1>3 DEF Load, Build, Built, Judge, Made, Mysql, Result, session, client
<1>4. CASE Close
  BY <1>4 DEF Close, Judge, Made, Mysql, Result, Good, session, client
<1>5. CASE Write \/ Exit \/ Crash
  BY <1>5 DEF Write, Exit, Crash, Running, session, client
<1>6. CASE Start \/ Wait \/ Verify
  BY <1>6 DEF Start, Wait, Verify, session, client, childState, SupervisorInv
<1>7. CASE Kill
  BY <1>7 DEF Kill, Running
<1>8. CASE UNCHANGED vars
  BY <1>8 DEF vars, session, client, childState
<1> QED
  BY <1>1, <1>2, <1>3, <1>4, <1>5, <1>6, <1>7, <1>8 DEF Next, ChildStep, SupervisorStep

(* What was concluded stands: the child it is about does not move again.   *)
LEMMA ConclusionStands ==
    ASSUME PassedMeansBuilt, ChildInv', ProbeInv', UNCHANGED supervision,
           status = "0" => UNCHANGED childState
    PROVE  PassedMeansBuilt'
<1> SUFFICES ASSUME status' = "0", VerifyCode' = "0"
             PROVE  /\ ~timedOut'
                    /\ exitCode' = "0"
                    /\ verdict' = Good
                    /\ stage' = "runtime_close"
                    /\ probe' = "none"
  BY DEF PassedMeansBuilt, Good, VerifyCode, Result
<1>1. status = "0" /\ VerifyCode = "0" /\ UNCHANGED childState
  BY DEF supervision, VerifyCode
<1>2. ~timedOut /\ exitCode = "0" /\ verdict = Good /\ stage = "runtime_close"
  BY <1>1 DEF PassedMeansBuilt, Good
<1>3. ~timedOut' /\ exitCode' = "0" /\ verdict' = Good /\ stage' = "runtime_close"
  BY <1>1, <1>2 DEF childState, supervision
<1>4. probe' = "none"
  BY <1>3 DEF Good, Result, ChildInv, ProbeInv
<1> QED
  BY <1>3, <1>4

LEMMA SupervisorStepKept == PreflightInv /\ [Next]_vars => SupervisorInv'
<1> SUFFICES ASSUME ProbeInv, ChildInv, SupervisorInv, ProbeInv', ChildInv', [Next]_vars
             PROVE  SupervisorInv'
  BY ClientStepKept, ChildStepKept DEF PreflightInv, ClientInv
<1>1. CASE UNCHANGED <<childState, supervision>>
  BY <1>1, ConclusionStands DEF SupervisorInv, childState, supervision
<1>2. CASE ChildStep
  <2>1. UNCHANGED supervision /\ child \notin {"exited", "absent"} /\ child' # "absent"
    BY <1>2 DEF ChildStep, Load, Build, Built, Close, Write, Exit, Crash, Running, Judge, Made
  <2>2. status # "0"
    BY <2>1 DEF SupervisorInv
  <2>3. supervisor \notin {"starting", "verifying", "done"}
    BY <2>1 DEF SupervisorInv
  <2> QED
    BY <2>1, <2>2, <2>3, ConclusionStands DEF SupervisorInv, supervision
<1>3. CASE Start
  BY <1>3 DEF Start, Conclude, Write22, Envelope, SupervisorInv, PassedMeansBuilt, VerifyCode
<1>4. CASE Wait \/ Kill
  BY <1>4 DEF Wait, Kill, Running, SupervisorInv, PassedMeansBuilt, childState
<1>5. CASE Verify
  <2>1. child = "exited" /\ child' = "exited" /\ supervisor' = "done"
    BY <1>5 DEF Verify, Conclude, Write22, SupervisorInv, childState
  <2>2. ASSUME status' = "0", VerifyCode' = "0"
        PROVE  /\ ~timedOut' /\ exitCode' = "0" /\ verdict' = Good
               /\ stage' = "runtime_close" /\ probe' = "none"
    <3>1. envelope' = Finding
      BY <1>5, <2>2 DEF Verify, Conclude, Write22
    <3>2. Finding.evidence = "verified" /\ Finding.runtime = "passed"
      BY <2>2, <3>1 DEF VerifyCode
    <3> QED
      BY <1>5, <2>1, <3>2, FindingIsBuilt DEF Verify, session, process, childState
  <2>3. PassedMeansBuilt'
    BY <2>2 DEF PassedMeansBuilt, Good, VerifyCode, Result
  <2> QED
    BY <2>1, <2>3 DEF SupervisorInv
<1> QED
  BY <1>1, <1>2, <1>3, <1>4, <1>5 DEF Next, Use, SupervisorStep, vars

LEMMA WordStepKept == PreflightInv /\ [Next]_vars => WordInv'
<1> SUFFICES ASSUME ProbeInv, ChildInv, SupervisorInv, WordInv, [Next]_vars PROVE WordInv'
  BY DEF PreflightInv, ClientInv
<1> USE DEF WordInv, TellsTheClient
<1>1. NoResult.mysql # "passed" /\ NoResult.code = "none"
  BY DEF NoResult, Result
<1>2. CASE UNCHANGED <<preflight, passed, reported, childState, supervision>>
  BY <1>2 DEF childState, supervision
<1>3. CASE Use
  <2>1. UNCHANGED <<preflight, childState, supervision>>
    BY <1>3 DEF Use, ClientStep, Enter, EnterStdio, EnterSession, Initialize, ListTools, GetSchema,
                GetDefinitions, Plan, SendQuery, ReceiveAnswer, GenerateAnswer, CloseSession,
                CloseStdio, ReadResult
  <2>2. child \in {"building", "absent"} /\ status # "0"
    BY <1>3 DEF Use, SupervisorInv
  <2> QED
    BY <1>1, <2>1, <2>2 DEF childState, supervision
<1>4. CASE ServerStep /\ UNCHANGED <<childState, supervision>>
  BY <1>2, <1>4 DEF ServerStep, StartServer, Probe, CloseProbe, WriteResult, ServerEnds, Guard, Finish,
                    QueryTimeout, client
<1>5. CASE ChildStep
  <2>1. UNCHANGED <<preflight, passed, reported, supervision>> /\ child \notin {"exited", "absent"}
    BY <1>5 DEF ChildStep, Load, Build, Built, Close, Write, Exit, Crash, Running, session, client
  <2>2. status' # "0"
    BY <2>1 DEF SupervisorInv, supervision
  <2>3. CASE Load \/ Build
    BY <1>1, <2>1, <2>2, <2>3 DEF Load, Build, Made, Result, ProbeCodes, ProbeFailures
  <2>4. CASE Built \/ Close
    BY <1>1, <2>1, <2>2, <2>4 DEF Built, Close, Judge, Made, Mysql, Result, ProbeCodes, ProbeFailures
  <2>5. CASE Write \/ Exit \/ Crash
    BY <2>1, <2>2, <2>5 DEF Write, Exit, Crash, Running
  <2> QED
    BY <1>5, <2>3, <2>4, <2>5 DEF ChildStep
<1>6. CASE Start
  BY <1>6 DEF Start, Conclude, Write22, Envelope, session, client, supervision, SupervisorInv,
              ProbeCodes, ProbeFailures
<1>7. CASE Wait \/ Kill
  BY <1>7 DEF Wait, Kill, Running, session, client, childState, SupervisorInv
<1>8. CASE Verify
  <2>1. UNCHANGED <<preflight, passed, reported, childState>>
    BY <1>8 DEF Verify, session, client
  <2>2. status' = "0" => envelope' = Finding
    BY <1>8 DEF Verify, Conclude, Write22
  <2> QED
    BY <1>8, <2>1, <2>2, FindingTells DEF Verify, childState, SupervisorInv
<1> QED
  BY <1>2, <1>3, <1>4, <1>5, <1>6, <1>7, <1>8 DEF Next, SupervisorStep, vars, session, client

LEMMA PreflightInit == Init => PreflightInv
<1>1. Init => ClientInv
  BY ClientInit
<1>2. Init => ChildInv /\ SupervisorInv
  BY DEF Init, ChildInv, SupervisorInv, PassedMeansBuilt, NoResult, Result
<1>3. Init => WordInv
  BY DEF Init, WordInv, TellsTheClient, NoResult, Result
<1> QED
  BY <1>1, <1>2, <1>3 DEF PreflightInv

(* Whoever died, was late or was interrupted, a preflight whose supervisor *)
(* and reader say passed has built and closed a runtime on a database that *)
(* its own probe passed, whatever an earlier one left behind.  What its    *)
(* client says of the database, and what an envelope over this child's     *)
(* file says of it, is what the probe found.  An envelope over the file of *)
(* an earlier child, short of a passed one, is not spoken for.             *)
THEOREM PreflightsAreTruthful == Spec => []PreflightIsTruthful
<1>1. PreflightInv /\ [Next]_vars => PreflightInv'
  BY ClientStepKept, ChildStepKept, SupervisorStepKept, WordStepKept DEF PreflightInv
<1>2. ClientInv => ReportsTheProbe
  BY DEF ClientInv, ProbeInv, RaisedInv, ReportsTheProbe
<1>3. PreflightInv /\ status = "0" /\ resultFile = verdict => TellsTheProbe
  <2> SUFFICES ASSUME ProbeInv, SupervisorInv, WordInv, status = "0", resultFile = verdict
               PROVE  TellsTheProbe
    BY DEF PreflightInv, ClientInv
  <2>1. preflight /\ TellsTheClient(envelope)
    BY DEF SupervisorInv, WordInv
  <2>2. passed => probe = "none"
    BY DEF ProbeInv
  <2>3. reported \in ProbeCodes => reported = probe
    BY <2>1 DEF ProbeInv, ProbeCodes, ProbeFailures
  <2> QED
    BY <2>1, <2>2, <2>3 DEF TellsTheProbe, TellsTheClient
<1>4. PreflightInv => PreflightIsTruthful
  BY <1>2, <1>3 DEF PreflightInv, SupervisorInv, PreflightIsTruthful
<1> QED
  BY <1>1, <1>4, PreflightInit, PTL DEF Spec
=============================================================================
