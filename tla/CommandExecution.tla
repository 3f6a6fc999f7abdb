-------------------------- MODULE CommandExecution --------------------------
(***************************************************************************)
(* Commands sent to nodes: ConnectionManager.execute_command, send and      *)
(* resolve_command with the futures they share, the three endpoints that    *)
(* call it (one command, a bulk call, a deployment) with the row each       *)
(* keeps, the handler's command_result branch with the                      *)
(* _update_command_result task it starts, and the agent that runs commands. *)
(*                                                                          *)
(* Sessions come and go as in NodePresence, reduced to what a command can   *)
(* see of them; a session is not used twice here.  The bulk requests form   *)
(* one bulk call, the tagged ones one deployment by tag.  The exit code and *)
(* the output are abstracted to the status they lead to: "completed" (or a  *)
(* deployment's success) for exit code 0, "failed" otherwise.  The server   *)
(* may crash and start again, and a database statement may raise.           *)
(***************************************************************************)
EXTENDS ConnectionRegistry, Naturals, FiniteSets

CONSTANTS
    Requests,   \* commands asked for, each with its own command_id
    NodeFor,    \* the node a request is for
    KindOf,     \* the endpoint it came through
    MaxRequests,\* bound: requests of one behaviour
    MaxFaults   \* bound: restarts of the server and failed statements

Kinds == {"single", "bulk", "deploy", "tagged"}
Deployments == {"deploy", "tagged"}
Outcomes == {"completed", "failed"}

ASSUME RequestsAssumption ==
    /\ NodeFor \in [Requests -> Nodes]
    /\ KindOf \in [Requests -> Kinds]
    /\ MaxRequests \in Nat
    /\ MaxFaults \in Nat

(* The nodes of a bulk call, or of a deployment by tag, are the rows of one *)
(* SELECT.                                                                  *)
ASSUME CallAssumption ==
    \A q, r \in Requests :
        /\ KindOf[q] = KindOf[r] /\ KindOf[r] \in {"bulk", "tagged"}
        /\ NodeFor[q] = NodeFor[r]
        => q = r

VARIABLES
    handler,    \* handler[s]: the coroutine of session s
    sock,       \* sock[s]: the socket of session s
    pc,         \* pc[r]: where the coroutine that serves request r is
    session,    \* session[r]: the ConnectionState execute_command captured
    fut,        \* fut[r]: the future of request r
    answer,     \* answer[r]: what execute_command returned or raised
    wire,       \* wire[r]: the command on its way, then the agent's result
    received,   \* requests whose command_result the handler has taken
    recording,  \* requests with an _update_command_result task to run
    row,        \* row[r]: the Command or Deployment row
    forgotten,  \* requests whose _update_command_result task did not write
    faults      \* restarts and failed statements so far

sessionVars == <<connections, handler, sock>>
callVars    == <<pc, session, fut, answer>>
crashVars   == <<forgotten, faults>>
resultVars  == <<received, recording, row, crashVars>>
vars == <<sessionVars, callVars, wire, resultVars>>

-----------------------------------------------------------------------------
NoRow == [status |-> "none", output |-> "none"]
NewRow == [status |-> "running", output |-> "none"]

TypeOK ==
    /\ RegistryType
    /\ handler \in [Sessions -> {"new", "greeting", "serving", "ended"}]
    /\ sock \in [Sessions -> {"open", "lost"}]
    /\ pc \in [Requests -> {"idle", "skipped", "accepted", "sending",
                            "waiting", "returned", "answered", "gone"}]
    /\ session \in [Requests -> Sessions \cup {None}]
    /\ fut \in [Requests -> {"none", "pending", "lost"} \cup Outcomes]
    /\ answer \in [Requests -> {"none", "timeout", "unavailable"} \cup Outcomes]
    /\ wire \in [Requests -> {"none", "sent"} \cup Outcomes]
    /\ received \subseteq Requests
    /\ recording \subseteq Requests
    /\ row \in [Requests -> [status : {"none", "running", "timeout"} \cup Outcomes,
                             output : {"none"} \cup Outcomes]]
    /\ forgotten \subseteq Requests
    /\ faults \in 0..MaxFaults

Init ==
    /\ RegistryInit
    /\ handler = [s \in Sessions |-> "new"]
    /\ sock = [s \in Sessions |-> "lost"]
    /\ pc = [r \in Requests |-> "idle"]
    /\ session = [r \in Requests |-> None]
    /\ fut = [r \in Requests |-> "none"]
    /\ answer = [r \in Requests |-> "none"]
    /\ wire = [r \in Requests |-> "none"]
    /\ received = {}
    /\ recording = {}
    /\ row = [r \in Requests |-> NoRow]
    /\ forgotten = {}
    /\ faults = 0

BulkCall == {r \in Requests : KindOf[r] = "bulk"}
TagCall == {r \in Requests : KindOf[r] = "tagged"}

(* r is a key of session[r].pending_commands: execute_command put it there, *)
(* and its finally clause has not taken it out.                             *)
IsPending(r) == pc[r] \in {"sending", "waiting"} /\ fut[r] = "pending"

(* The futures after the sessions in S were dropped from the registry: what *)
(* was pending there is failed with ConnectionError.                        *)
FailedFutures(S) ==
    [r \in Requests |-> IF IsPending(r) /\ session[r] \in S THEN "lost" ELSE fut[r]]

(* disconnect(n, expected) with the futures it fails.                       *)
Drop(n, expected) ==
    /\ Disconnect(n, expected)
    /\ fut' = FailedFutures(IF Removes(n, expected) THEN {connections[n]} ELSE {})

-----------------------------------------------------------------------------
(* The endpoints up to execute_command.                                     *)

(* Room for the requests in R under the bound.                              *)
Admissible(R) == Cardinality({r \in Requests : pc[r] # "idle"} \cup R) <= MaxRequests

(* An online check, then the row and the audit row are committed.           *)
Accept(r) ==
    /\ pc[r] = "idle" /\ KindOf[r] \in {"single", "deploy"} /\ Admissible({r})
    /\ IsConnected(NodeFor[r])
    /\ pc' = [pc EXCEPT ![r] = "accepted"]
    /\ row' = [row EXCEPT ![r] = NewRow]
    /\ UNCHANGED <<sessionVars, session, fut, answer, wire, received, recording, crashVars>>

(* The connected nodes of a call get a row each, in one transaction; the    *)
(* others are left out.                                                     *)
AcceptAll(call) ==
    LET targets == {r \in call : IsConnected(NodeFor[r])} IN
    /\ \A r \in call : pc[r] = "idle"
    /\ targets # {} /\ Admissible(call)
    /\ pc' = [r \in Requests |-> IF r \in targets THEN "accepted"
                                 ELSE IF r \in call THEN "skipped" ELSE pc[r]]
    /\ row' = [r \in Requests |-> IF r \in targets THEN NewRow ELSE row[r]]
    /\ UNCHANGED <<sessionVars, session, fut, answer, wire, received, recording, crashVars>>

AcceptBulk == AcceptAll(BulkCall)

(* deploy() with target_tags.                                               *)
AcceptTagged == AcceptAll(TagCall)

-----------------------------------------------------------------------------
(* execute_command().                                                       *)

(* execute_command returned or raised a.  The single endpoint answers at    *)
(* once unless it still has to write a timeout; the others write the row.   *)
Finish(r, a) ==
    /\ answer' = [answer EXCEPT ![r] = a]
    /\ pc' = [pc EXCEPT ![r] = IF KindOf[r] = "single" /\ a # "timeout"
                               THEN "answered" ELSE "returned"]

(* Mutant of ItsTurn: the task waits for all the others of its call.        *)
ItsTurnLast(r) ==
    r \in TagCall => \A q \in TagCall \ {r} : pc[q] \in {"skipped", "answered"}

(* The background tasks of one HTTP response are awaited one by one: a      *)
(* deployment by tag starts when no other of its call is under way.         *)
ItsTurn(r) ==
    r \in TagCall => \A q \in TagCall : pc[q] \notin {"sending", "waiting", "returned"}

(* The node went away between the endpoint's check and this lookup.         *)
Refuse(r) ==
    /\ pc[r] = "accepted" /\ ~IsConnected(NodeFor[r]) /\ ItsTurn(r)
    /\ Finish(r, "unavailable")
    /\ UNCHANGED <<sessionVars, session, fut, wire, resultVars>>

(* Lookup, registration of the future and the start of send_text are one    *)
(* step: nothing is awaited in between.                                     *)
StartCommand(r) ==
    LET s == connections[NodeFor[r]] IN
    /\ pc[r] = "accepted" /\ IsConnected(NodeFor[r]) /\ ItsTurn(r)
    /\ pc' = [pc EXCEPT ![r] = "sending"]
    /\ session' = [session EXCEPT ![r] = s]
    /\ fut' = [fut EXCEPT ![r] = "pending"]
    /\ wire' = IF sock[s] = "open" THEN [wire EXCEPT ![r] = "sent"] ELSE wire
    /\ UNCHANGED <<sessionVars, answer, resultVars>>

SendReturns(r) ==
    /\ pc[r] = "sending"
    /\ pc' = [pc EXCEPT ![r] = "waiting"]
    /\ UNCHANGED <<sessionVars, session, fut, answer, wire, resultVars>>

(* send_text raises; send() disconnects the node's current session, and its *)
(* FALSE is ignored: the caller waits for its future all the same.          *)
SendFails(r) ==
    /\ pc[r] = "sending" /\ sock[session[r]] = "lost"
    /\ pc' = [pc EXCEPT ![r] = "waiting"]
    /\ Drop(NodeFor[r], None)
    /\ UNCHANGED <<handler, sock, session, answer, wire, resultVars>>

(* The future is done and the coroutine runs again.                         *)
Wake(r) ==
    /\ pc[r] = "waiting" /\ fut[r] # "pending"
    /\ Finish(r, IF fut[r] = "lost" THEN "unavailable" ELSE fut[r])
    /\ UNCHANGED <<sessionVars, session, fut, wire, resultVars>>

(* The timer of wait_for.  Where it fires together with the result, Python  *)
(* 3.11 returns the result and 3.12 the timeout.                            *)
TimesOut(r) ==
    /\ pc[r] = "waiting"
    /\ Finish(r, "timeout")
    /\ UNCHANGED <<sessionVars, session, fut, wire, resultVars>>

-----------------------------------------------------------------------------
(* The endpoints after execute_command.                                     *)

(* Mutant of WriteTimeout: the endpoint writes the whole row.               *)
WriteTimeoutWhole(r) ==
    /\ pc[r] = "returned" /\ KindOf[r] = "single"
    /\ pc' = [pc EXCEPT ![r] = "answered"]
    /\ row' = [row EXCEPT ![r] = [status |-> "timeout", output |-> "none"]]
    /\ UNCHANGED <<sessionVars, session, fut, answer, wire, received, recording, crashVars>>

(* The single endpoint writes the status alone, then answers 408.           *)
WriteTimeout(r) ==
    /\ pc[r] = "returned" /\ KindOf[r] = "single"
    /\ pc' = [pc EXCEPT ![r] = "answered"]
    /\ row' = [row EXCEPT ![r].status = "timeout"]
    /\ UNCHANGED <<sessionVars, session, fut, answer, wire, received, recording, crashVars>>

(* Mutant of RowFor: the status of the result map is stored as it is.       *)
RowForRaw(r) ==
    [status |-> IF answer[r] = "unavailable" THEN "error" ELSE answer[r],
     output |-> IF answer[r] \in Outcomes THEN answer[r] ELSE "none"]

(* The row written from an answer by the bulk call and by a deployment.     *)
RowFor(r) ==
    IF answer[r] \in Outcomes THEN [status |-> answer[r], output |-> answer[r]]
    ELSE [status |-> IF KindOf[r] = "bulk" /\ answer[r] = "timeout"
                     THEN "timeout" ELSE "failed",
          output |-> "none"]

(* gather() waits for every target; then all rows are written at once.      *)
WriteBulk ==
    LET targets == {r \in BulkCall : pc[r] # "skipped"} IN
    /\ targets # {} /\ \A r \in targets : pc[r] = "returned"
    /\ pc' = [r \in Requests |-> IF r \in targets THEN "answered" ELSE pc[r]]
    /\ row' = [r \in Requests |-> IF r \in targets THEN RowFor(r) ELSE row[r]]
    /\ UNCHANGED <<sessionVars, session, fut, answer, wire, received, recording, crashVars>>

WriteDeployment(r) ==
    /\ pc[r] = "returned" /\ KindOf[r] \in Deployments
    /\ pc' = [pc EXCEPT ![r] = "answered"]
    /\ row' = [row EXCEPT ![r] = RowFor(r)]
    /\ UNCHANGED <<sessionVars, session, fut, answer, wire, received, recording, crashVars>>

(* The coroutines of the requests in R end without their last write.        *)
CutOff(R) ==
    /\ faults < MaxFaults
    /\ faults' = faults + 1
    /\ pc' = [r \in Requests |-> IF r \in R THEN "gone" ELSE pc[r]]
    /\ UNCHANGED <<sessionVars, session, fut, answer, wire, received, recording, row,
                   forgotten>>

(* A statement raises: that of the audit row, after the commit of the row   *)
(* itself, or the last write.  The background tasks of one response that    *)
(* have not begun are not run after one that raised.                        *)
DatabaseFails(r) ==
    /\ \/ pc[r] = "accepted" /\ KindOf[r] \in {"single", "deploy"}
       \/ pc[r] = "returned" /\ KindOf[r] # "bulk"
    /\ CutOff({r} \cup {q \in TagCall : r \in TagCall /\ pc[q] = "accepted"})

(* One of the UPDATEs of a bulk call, or their commit, raises.              *)
BulkWriteFails ==
    LET targets == {r \in BulkCall : pc[r] # "skipped"} IN
    /\ targets # {} /\ \A r \in targets : pc[r] = "returned"
    /\ CutOff(targets)

-----------------------------------------------------------------------------
(* The agent and the handler's command_result branch.                       *)

(* The agent runs each command in a task of its own and reports on the      *)
(* socket the command came from.                                            *)
AgentReports(r) ==
    /\ wire[r] = "sent" /\ sock[session[r]] = "open"
    /\ \E o \in Outcomes : wire' = [wire EXCEPT ![r] = o]
    /\ UNCHANGED <<sessionVars, callVars, resultVars>>

(* Mutant of ReceiveResult: the result is recorded only when nobody waits   *)
(* for it.                                                                  *)
ReceiveUnrecorded(r) ==
    /\ wire[r] \in Outcomes /\ r \notin received
    /\ handler[session[r]] = "serving"
    /\ received' = received \cup {r}
    /\ fut' = IF IsPending(r) /\ connections[NodeFor[r]] = session[r]
              THEN [fut EXCEPT ![r] = wire[r]] ELSE fut
    /\ recording' = IF KindOf[r] \in Deployments \/ IsPending(r)
                    THEN recording ELSE recording \cup {r}
    /\ UNCHANGED <<sessionVars, pc, session, answer, wire, row, crashVars>>

(* resolve_command() looks in the session registered now; the task that     *)
(* records the result is started in any case, and finds no Command row for  *)
(* the id of a deployment.                                                  *)
ReceiveResult(r) ==
    /\ wire[r] \in Outcomes /\ r \notin received
    /\ handler[session[r]] = "serving"
    /\ received' = received \cup {r}
    /\ fut' = IF IsPending(r) /\ connections[NodeFor[r]] = session[r]
              THEN [fut EXCEPT ![r] = wire[r]] ELSE fut
    /\ recording' = IF KindOf[r] \in Deployments THEN recording ELSE recording \cup {r}
    /\ UNCHANGED <<sessionVars, pc, session, answer, wire, row, crashVars>>

(* _update_command_result(): every column, whatever the row says by now.    *)
RecordResult(r) ==
    /\ r \in recording
    /\ recording' = recording \ {r}
    /\ row' = [row EXCEPT ![r] = [status |-> wire[r], output |-> wire[r]]]
    /\ UNCHANGED <<sessionVars, callVars, wire, received, crashVars>>

(* Its UPDATE or commit raises: nobody awaits the task.                     *)
RecordingFails(r) ==
    /\ r \in recording /\ faults < MaxFaults
    /\ faults' = faults + 1
    /\ recording' = recording \ {r}
    /\ forgotten' = forgotten \cup {r}
    /\ UNCHANGED <<sessionVars, callVars, wire, received, row>>

-----------------------------------------------------------------------------
(* Sessions.                                                                *)

(* The socket of a session that arrives.  The agent has one socket at a     *)
(* time; a handshake that it has given up may reach connect() all the same, *)
(* after that of a newer socket and with a socket nobody reads.             *)
TakesSocket(s) ==
    \/ sock' = sock
    \/ /\ \A t \in Sessions : NodeOf[t] = NodeOf[s] => sock[t] = "lost"
       /\ sock' = [sock EXCEPT ![s] = "open"]

(* Mutant of Arrive: the evicted session's futures are left alone.          *)
ArriveUndrained(s) ==
    /\ handler[s] = "new"
    /\ handler' = [handler EXCEPT ![s] = "greeting"]
    /\ TakesSocket(s)
    /\ Connect(s)
    /\ UNCHANGED <<callVars, wire, resultVars>>

(* connect(): what was pending on the session it evicts is failed.          *)
Arrive(s) ==
    /\ handler[s] = "new"
    /\ handler' = [handler EXCEPT ![s] = "greeting"]
    /\ TakesSocket(s)
    /\ Connect(s)
    /\ fut' = FailedFutures({connections[NodeOf[s]]} \ {None})
    /\ UNCHANGED <<pc, session, answer, wire, resultVars>>

Greeted(s) ==
    /\ handler[s] = "greeting"
    /\ handler' = [handler EXCEPT ![s] = "serving"]
    /\ UNCHANGED <<connections, sock, callVars, wire, resultVars>>

(* send_text(auth_ok) raises: the handler is gone, the entry stays.         *)
GreetingFails(s) ==
    /\ handler[s] = "greeting" /\ sock[s] = "lost"
    /\ handler' = [handler EXCEPT ![s] = "ended"]
    /\ UNCHANGED <<connections, sock, callVars, wire, resultVars>>

HandlerExits(s) ==
    /\ handler[s] = "serving"
    /\ handler' = [handler EXCEPT ![s] = "ended"]
    /\ sock' = [sock EXCEPT ![s] = "lost"]
    /\ Drop(NodeOf[s], s)
    /\ UNCHANGED <<pc, session, answer, wire, resultVars>>

SocketLost(s) ==
    /\ sock[s] = "open"
    /\ sock' = [sock EXCEPT ![s] = "lost"]
    /\ UNCHANGED <<connections, handler, callVars, wire, resultVars>>

(* The server process dies and starts again.  Coroutines, futures and tasks *)
(* are gone, and nothing looks at the rows they were to write.              *)
Restart ==
    /\ faults < MaxFaults
    /\ faults' = faults + 1
    /\ ClearRegistry
    /\ handler' = [s \in Sessions |-> IF handler[s] = "new" THEN "new" ELSE "ended"]
    /\ sock' = [s \in Sessions |-> "lost"]
    /\ pc' = [r \in Requests |-> IF pc[r] \in {"idle", "skipped", "answered"}
                                 THEN pc[r] ELSE "gone"]
    /\ forgotten' = forgotten \cup recording
    /\ recording' = {}
    /\ UNCHANGED <<session, fut, answer, wire, received, row>>

-----------------------------------------------------------------------------
Call(r) ==
    \/ Refuse(r) \/ StartCommand(r) \/ SendReturns(r) \/ SendFails(r)
    \/ Wake(r) \/ TimesOut(r) \/ WriteTimeout(r) \/ WriteDeployment(r)

Result(r) == AgentReports(r) \/ ReceiveResult(r) \/ RecordResult(r)

Fault(r) == DatabaseFails(r) \/ RecordingFails(r)

Session(s) ==
    \/ Arrive(s) \/ Greeted(s) \/ GreetingFails(s)
    \/ HandlerExits(s) \/ SocketLost(s)

(* Every session may be over and every request answered.                    *)
Next ==
    \/ \E r \in Requests : Accept(r) \/ Call(r) \/ Result(r) \/ Fault(r)
    \/ AcceptBulk \/ AcceptTagged \/ WriteBulk
    \/ \E s \in Sessions : Session(s)
    \/ BulkWriteFails \/ Restart

Spec == Init /\ [][Next]_vars

(* Ready coroutines run, and the timer of wait_for goes off.  Neither the   *)
(* agent nor the network owes an answer.                                    *)
Fairness ==
    /\ \A r \in Requests : WF_vars(Call(r))
    /\ WF_vars(WriteBulk)

FairSpec == Spec /\ Fairness

-----------------------------------------------------------------------------
(* Properties.                                                              *)

(* Nobody waits on a connection that is no longer the node's: while a       *)
(* future is pending, the session it was registered with is the registered  *)
(* one, so whatever takes that session away also finds and fails it         *)
(* (connection_manager.py:79, 108-109).                                     *)
NoStuckCaller ==
    \A r \in Requests :
        IsPending(r) => connections[NodeFor[r]] = session[r]

Recorded(r) == [status |-> wire[r], output |-> wire[r]]

(* The rows of requests that are over: each shows what the caller was told, *)
(* or a result that came in although the caller had been told there was     *)
(* none.  A row still says "running" only when the request was cut off, for *)
(* a single command whose connection was lost before a result came, or for  *)
(* one whose result is not recorded, yet or for good (routes.py:315-331,    *)
(* 440-452, 665-680).                                                       *)
EndedRowAgrees ==
    \A r \in Requests : pc[r] \in {"answered", "gone"} =>
        \/ answer[r] \in Outcomes /\ row[r] = [status |-> answer[r], output |-> answer[r]]
        \/ answer[r] \notin Outcomes /\ r \in received /\ row[r] = Recorded(r)
        \/ answer[r] = "timeout" /\ KindOf[r] \notin Deployments
            /\ row[r].status = "timeout"
        \/ answer[r] = "unavailable" /\ KindOf[r] = "single" /\ r \notin received
            /\ row[r] = NewRow
        \/ answer[r] \notin Outcomes /\ KindOf[r] # "single" /\ row[r].status = "failed"
        \/ row[r] = NewRow /\ pc[r] = "gone"
        \/ row[r] = NewRow /\ KindOf[r] = "single" /\ r \in recording \cup forgotten

(* The output of a single command, once recorded, is never erased or        *)
(* replaced, not even by the timeout that its own endpoint writes later.    *)
OutputIsKept ==
    [][\A r \in Requests :
        KindOf[r] = "single" /\ row[r].output \in Outcomes
            => row'[r].output = row[r].output]_vars

(* The contract: a request is open from its admission until it is answered  *)
(* or cut off, and its outcome is known to the node from the agent's report *)
(* on.                                                                      *)
StageOf ==
    [r \in Requests |->
        CASE pc[r] \in {"idle", "skipped"} -> "idle"
          [] pc[r] = "answered" -> "closed"
          [] pc[r] = "gone" -> "cut"
          [] OTHER -> "open"]

OutcomeOf == [r \in Requests |-> IF wire[r] \in Outcomes THEN wire[r] ELSE "none"]

Contract == INSTANCE CommandContract WITH stage <- StageOf, outcome <- OutcomeOf

(* Every admitted request is answered, once, with its own command's outcome *)
(* or with an excuse, unless a crash or a database error cuts it off.       *)
KeepsContract == Contract!Spec

(* The sessions as SessionLife has them, where a handler that has not begun *)
(* and one that has ended are the same.                                     *)
HandlerOf ==
    [s \in Sessions |-> IF handler[s] \in {"new", "ended"} THEN "off" ELSE handler[s]]

Life == INSTANCE SessionLife WITH handler <- HandlerOf
=============================================================================
