---------------------------- MODULE FileTransfers ----------------------------
(***************************************************************************)
(* Files pushed to nodes and pulled from them: the two endpoints of         *)
(* routes.py with the FileTransfer row each keeps, the futures that         *)
(* request_file_download and push_file_to_node share with                   *)
(* resolve_file_transfer, the handler's file_data and file_upload_result    *)
(* branches, and the agent.                                                 *)
(*                                                                          *)
(* A request re-reads its row after the first commit and so holds a         *)
(* connection of the database pool while it waits for the node; when the    *)
(* pool is empty that read fails after pool_timeout.  File contents are     *)
(* abstracted to the report the agent makes of them.  Sessions come and go  *)
(* as in CommandExecution and are used once.                                *)
(***************************************************************************)
EXTENDS ConnectionRegistry, Naturals, FiniteSets

CONSTANTS
    Transfers,      \* requests for a transfer, each with its own transfer_id
    NodeFor,        \* the node a transfer is for
    DirectionOf,    \* FileTransfer.direction
    PoolSize,       \* connections of the database pool
    MaxFaults       \* bound: restarts and failed database statements

Directions == {"push", "pull"}

ASSUME TransfersAssumption ==
    /\ NodeFor \in [Transfers -> Nodes]
    /\ DirectionOf \in [Transfers -> Directions]
    /\ PoolSize \in Nat \ {0}
    /\ MaxFaults \in Nat

VARIABLES
    handler,    \* handler[s]: the coroutine of session s
    sock,       \* sock[s]: the socket of session s
    pc,         \* pc[t]: where the coroutine that serves transfer t is
    session,    \* session[t]: the ConnectionState the transfer captured
    fut,        \* fut[t]: the future of t, then what became of it
    wire,       \* wire[t]: the message to the node, then the node's report
    received,   \* transfers whose report the handler has taken
    holding,    \* transfers that hold a connection of the pool
    row,        \* row[t]: FileTransfer.status
    answer,     \* answer[t]: what the caller was told
    faults      \* restarts and failed statements so far

sessionVars == <<connections, handler, sock>>
callVars    == <<pc, session, fut, holding, row, answer>>
nodeVars    == <<wire, received>>
vars == <<sessionVars, callVars, nodeVars, faults>>

-----------------------------------------------------------------------------
(* What a node may report.  An error whose text is empty (str(e) of a       *)
(* MemoryError is) is a report of its own.                                  *)
Reports(t) == {"done", "error"} \cup (IF DirectionOf[t] = "pull" THEN {"blank"} ELSE {})

TypeOK ==
    /\ RegistryType
    /\ handler \in [Sessions -> {"new", "greeting", "serving", "ended"}]
    /\ sock \in [Sessions -> {"open", "lost"}]
    /\ pc \in [Transfers -> {"idle", "inserted", "refreshing", "sending",
                             "waiting", "returned", "written", "answered", "gone"}]
    /\ session \in [Transfers -> Sessions \cup {None}]
    /\ fut \in [Transfers -> {"none", "pending", "done", "error", "lost", "timeout"}]
    /\ wire \in [Transfers -> {"none", "sent", "done", "error", "blank"}]
    /\ received \subseteq Transfers
    /\ holding \subseteq Transfers
    /\ row \in [Transfers -> {"none", "pending", "completed", "failed"}]
    /\ answer \in [Transfers -> {"none", "done", "failed", "error"}]
    /\ faults \in 0..MaxFaults

Init ==
    /\ RegistryInit
    /\ handler = [s \in Sessions |-> "new"]
    /\ sock = [s \in Sessions |-> "lost"]
    /\ pc = [t \in Transfers |-> "idle"]
    /\ session = [t \in Transfers |-> None]
    /\ fut = [t \in Transfers |-> "none"]
    /\ wire = [t \in Transfers |-> "none"]
    /\ received = {}
    /\ holding = {}
    /\ row = [t \in Transfers |-> "none"]
    /\ answer = [t \in Transfers |-> "none"]
    /\ faults = 0

Goto(t, p) == pc' = [pc EXCEPT ![t] = p]

PoolHasRoom == Cardinality(holding) < PoolSize

(* t is a key of session[t].pending_file_transfers with its future undone.  *)
IsPending(t) == pc[t] \in {"sending", "waiting"} /\ fut[t] = "pending"

(* The futures after the sessions in S were dropped from the registry.      *)
FailedFutures(S) ==
    [t \in Transfers |-> IF IsPending(t) /\ session[t] \in S THEN "lost" ELSE fut[t]]

(* Mutant of Drop: the early return for a stale disconnect is missing.      *)
DropAnyway(n, expected) ==
    /\ connections' = [connections EXCEPT ![n] = None]
    /\ fut' = FailedFutures({connections[n]})

(* disconnect(n, expected) with the futures it fails.                       *)
Drop(n, expected) ==
    /\ Disconnect(n, expected)
    /\ fut' = FailedFutures(IF Removes(n, expected) THEN {connections[n]} ELSE {})

-----------------------------------------------------------------------------
(* The endpoints up to the transfer.                                        *)

(* Authentication, node lookup, online check and the insert of the row; the *)
(* commit gives the connection back.                                        *)
Insert(t) ==
    /\ pc[t] = "idle" /\ IsConnected(NodeFor[t]) /\ PoolHasRoom
    /\ Goto(t, "inserted")
    /\ row' = [row EXCEPT ![t] = "pending"]
    /\ UNCHANGED <<sessionVars, session, fut, holding, answer, nodeVars, faults>>

(* db.refresh() takes a connection, which the open transaction then keeps.  *)
Refresh(t) ==
    /\ pc[t] = "inserted" /\ PoolHasRoom
    /\ Goto(t, "refreshing")
    /\ holding' = holding \cup {t}
    /\ UNCHANGED <<sessionVars, session, fut, row, answer, nodeVars, faults>>

(* An exception outside the try block: 500, and the row as it is.           *)
Abandon(t) ==
    /\ Goto(t, "answered")
    /\ answer' = [answer EXCEPT ![t] = "error"]
    /\ holding' = holding \ {t}
    /\ UNCHANGED <<sessionVars, session, fut, row, nodeVars>>

(* The pool stays empty for pool_timeout.                                   *)
PoolTimesOut(t) ==
    /\ pc[t] = "inserted" /\ ~PoolHasRoom
    /\ Abandon(t)
    /\ UNCHANGED faults

(* The SELECT of the refresh, or the write at the end, raises.              *)
DatabaseFails(t) ==
    /\ pc[t] \in {"refreshing", "returned"} /\ faults < MaxFaults
    /\ Abandon(t)
    /\ faults' = faults + 1

-----------------------------------------------------------------------------
(* request_file_download() and push_file_to_node().                         *)

(* The transfer is over for the coroutine, with result f.                   *)
Finish(t, f) ==
    /\ Goto(t, "returned")
    /\ fut' = [fut EXCEPT ![t] = f]
    /\ UNCHANGED <<sessionVars, session, holding, row, answer, nodeVars, faults>>

Refuse(t) ==
    /\ pc[t] = "refreshing" /\ ~IsConnected(NodeFor[t])
    /\ Finish(t, "lost")

(* Lookup, registration of the future and the start of send_text.           *)
StartTransfer(t) ==
    LET s == connections[NodeFor[t]] IN
    /\ pc[t] = "refreshing" /\ IsConnected(NodeFor[t])
    /\ Goto(t, "sending")
    /\ session' = [session EXCEPT ![t] = s]
    /\ fut' = [fut EXCEPT ![t] = "pending"]
    /\ wire' = IF sock[s] = "open" THEN [wire EXCEPT ![t] = "sent"] ELSE wire
    /\ UNCHANGED <<sessionVars, holding, row, answer, received, faults>>

SendReturns(t) ==
    /\ pc[t] = "sending"
    /\ Goto(t, "waiting")
    /\ UNCHANGED <<sessionVars, session, fut, holding, row, answer, nodeVars, faults>>

(* send_text raises: the node's current session is disconnected, and the    *)
(* FALSE of send() is ignored.                                              *)
SendFails(t) ==
    /\ pc[t] = "sending" /\ sock[session[t]] = "lost"
    /\ Goto(t, "waiting")
    /\ Drop(NodeFor[t], None)
    /\ UNCHANGED <<handler, sock, session, holding, row, answer, nodeVars, faults>>

Wake(t) ==
    /\ pc[t] = "waiting" /\ fut[t] # "pending"
    /\ Finish(t, fut[t])

(* Mutant of TimesOut: the future is awaited without a limit.               *)
TimesOutNever(t) ==
    /\ pc[t] = "waiting" /\ fut[t] # "pending"
    /\ Finish(t, "timeout")

(* The timer of wait_for cancels the future, or meets it just done: Python  *)
(* 3.11 then returns the result and 3.12 the timeout.                       *)
TimesOut(t) ==
    /\ pc[t] = "waiting"
    /\ Finish(t, "timeout")

(* Mutant of WriteRow: a name for success that FileTransfer does not have.  *)
WriteRowDone(t) ==
    /\ pc[t] = "returned"
    /\ Goto(t, "written")
    /\ row' = [row EXCEPT ![t] = IF fut[t] = "done" THEN "done" ELSE "failed"]
    /\ holding' = holding \ {t}
    /\ UNCHANGED <<sessionVars, session, fut, answer, nodeVars, faults>>

(* The row is written; its commit gives the connection back.                *)
WriteRow(t) ==
    /\ pc[t] = "returned"
    /\ Goto(t, "written")
    /\ row' = [row EXCEPT ![t] = IF fut[t] = "done" THEN "completed" ELSE "failed"]
    /\ holding' = holding \ {t}
    /\ UNCHANGED <<sessionVars, session, fut, answer, nodeVars, faults>>

(* The caller gets the file, the confirmation, or a 500.                    *)
Respond(t) ==
    /\ pc[t] = "written"
    /\ Goto(t, "answered")
    /\ answer' = [answer EXCEPT ![t] = IF fut[t] = "done" THEN "done" ELSE "failed"]
    /\ UNCHANGED <<sessionVars, session, fut, holding, row, nodeVars, faults>>

-----------------------------------------------------------------------------
(* The agent and the handler.                                               *)

(* The agent handles each message in a task of its own.                     *)
AgentReports(t) ==
    /\ wire[t] = "sent" /\ sock[session[t]] = "open"
    /\ \E rep \in Reports(t) : wire' = [wire EXCEPT ![t] = rep]
    /\ UNCHANGED <<sessionVars, callVars, received, faults>>

(* What the handler makes of a report: an error without a text is no error  *)
(* to file_data's test, and its missing data an empty file.                 *)
AsRead(rep) == IF rep = "blank" THEN "done" ELSE rep

(* Mutant of ReceiveReport: the answer goes to any transfer of the session  *)
(* that waits.                                                              *)
ReceiveByNode(t) ==
    /\ wire[t] \in Reports(t) /\ t \notin received
    /\ handler[session[t]] = "serving"
    /\ received' = received \cup {t}
    /\ \E u \in Transfers :
        /\ session[u] = session[t]
        /\ fut' = IF IsPending(u) /\ connections[NodeFor[t]] = session[t]
                  THEN [fut EXCEPT ![u] = AsRead(wire[t])] ELSE fut
    /\ UNCHANGED <<sessionVars, pc, session, holding, row, answer, wire, faults>>

(* resolve_file_transfer() looks in the session registered now.             *)
ReceiveReport(t) ==
    /\ wire[t] \in Reports(t) /\ t \notin received
    /\ handler[session[t]] = "serving"
    /\ received' = received \cup {t}
    /\ fut' = IF IsPending(t) /\ connections[NodeFor[t]] = session[t]
              THEN [fut EXCEPT ![t] = AsRead(wire[t])] ELSE fut
    /\ UNCHANGED <<sessionVars, pc, session, holding, row, answer, wire, faults>>

-----------------------------------------------------------------------------
(* Sessions.                                                                *)

(* The socket of a session that arrives: the agent's only one, or that of a *)
(* handshake which the agent has given up.                                  *)
TakesSocket(s) ==
    \/ sock' = sock
    \/ /\ \A u \in Sessions : NodeOf[u] = NodeOf[s] => sock[u] = "lost"
       /\ sock' = [sock EXCEPT ![s] = "open"]

(* Mutant of Arrive: connect() drains pending_commands alone.               *)
ArriveUndrained(s) ==
    /\ handler[s] = "new"
    /\ handler' = [handler EXCEPT ![s] = "greeting"]
    /\ TakesSocket(s)
    /\ Connect(s)
    /\ UNCHANGED <<callVars, nodeVars, faults>>

(* connect(): what was pending on the session it evicts is failed.          *)
Arrive(s) ==
    /\ handler[s] = "new"
    /\ handler' = [handler EXCEPT ![s] = "greeting"]
    /\ TakesSocket(s)
    /\ Connect(s)
    /\ fut' = FailedFutures({connections[NodeOf[s]]} \ {None})
    /\ UNCHANGED <<pc, session, holding, row, answer, nodeVars, faults>>

Greeted(s) ==
    /\ handler[s] = "greeting"
    /\ handler' = [handler EXCEPT ![s] = "serving"]
    /\ UNCHANGED <<connections, sock, callVars, nodeVars, faults>>

(* send_text(auth_ok) raises: the handler is gone, the entry stays.         *)
GreetingFails(s) ==
    /\ handler[s] = "greeting" /\ sock[s] = "lost"
    /\ handler' = [handler EXCEPT ![s] = "ended"]
    /\ UNCHANGED <<connections, sock, callVars, nodeVars, faults>>

HandlerExits(s) ==
    /\ handler[s] = "serving"
    /\ handler' = [handler EXCEPT ![s] = "ended"]
    /\ sock' = [sock EXCEPT ![s] = "lost"]
    /\ Drop(NodeOf[s], s)
    /\ UNCHANGED <<pc, session, holding, row, answer, nodeVars, faults>>

(* Among other reasons because a message is longer than the peer accepts    *)
(* (1 MiB at the agent, 16 MiB at the server).                              *)
SocketLost(s) ==
    /\ sock[s] = "open"
    /\ sock' = [sock EXCEPT ![s] = "lost"]
    /\ UNCHANGED <<connections, handler, callVars, nodeVars, faults>>

(* The server process dies and starts again; nothing looks at the rows.     *)
Restart ==
    /\ faults < MaxFaults
    /\ faults' = faults + 1
    /\ ClearRegistry
    /\ handler' = [s \in Sessions |-> IF handler[s] = "new" THEN "new" ELSE "ended"]
    /\ sock' = [s \in Sessions |-> "lost"]
    /\ pc' = [t \in Transfers |-> IF pc[t] \in {"idle", "answered"} THEN pc[t] ELSE "gone"]
    /\ holding' = {}
    /\ UNCHANGED <<session, fut, row, answer, nodeVars>>

-----------------------------------------------------------------------------
Endpoint(t) ==
    \/ Refresh(t) \/ PoolTimesOut(t)
    \/ Refuse(t) \/ StartTransfer(t) \/ SendReturns(t) \/ SendFails(t)
    \/ Wake(t) \/ TimesOut(t) \/ WriteRow(t) \/ Respond(t)

Session(s) ==
    \/ Arrive(s) \/ Greeted(s) \/ GreetingFails(s)
    \/ HandlerExits(s) \/ SocketLost(s)

(* Every session may be over and every transfer answered.                   *)
Next ==
    \/ \E t \in Transfers :
        \/ Insert(t) \/ Endpoint(t) \/ DatabaseFails(t)
        \/ AgentReports(t) \/ ReceiveReport(t)
    \/ \E s \in Sessions : Session(s)
    \/ Restart

Spec == Init /\ [][Next]_vars

(* Ready coroutines run, and timers go off: that of wait_for and that of    *)
(* the pool.  Neither the agent nor the network owes a report.              *)
FairSpec == Spec /\ \A t \in Transfers : WF_vars(Endpoint(t))

-----------------------------------------------------------------------------
(* Properties.                                                              *)

(* While a future is pending its session is the node's registered one, so   *)
(* that whatever takes the session away finds and fails it                  *)
(* (connection_manager.py:83-85, 113-115).                                  *)
NoStuckTransfer ==
    \A t \in Transfers : IsPending(t) => connections[NodeFor[t]] = session[t]

(* The row and the answer of a transfer agree, and both come from its own   *)
(* node's report on this transfer: a row is completed only if the node      *)
(* reported success, or an error without a text.  A row is left pending     *)
(* only by a crash or by a request that ended in a database error, and no   *)
(* caller is answered before his row is written (routes.py:717-734,         *)
(* 779-794).                                                                *)
RowTellsOutcome ==
    \A t \in Transfers :
        /\ answer[t] = "done" => row[t] = "completed"
        /\ answer[t] = "failed" => row[t] = "failed"
        /\ row[t] = "completed" => t \in received /\ wire[t] \in {"done", "blank"}
        /\ pc[t] = "answered" => (row[t] = "pending" <=> answer[t] = "error")

(* The end of a session fails the transfers that wait on it and no others:  *)
(* a handler that leaves after its node has reconnected does not touch what *)
(* waits on the new session (connection_manager.py:103-106, 113-115).       *)
ExitSparesOthers ==
    [][\A s \in Sessions : handler[s] = "serving" /\ handler'[s] = "ended" =>
        \A t \in Transfers :
            IsPending(t) /\ pc'[t] = pc[t] => (fut'[t] = "pending" <=> session[t] # s)]_vars

(* Every transfer that has a row ends and gives its connection back, also   *)
(* when all connections of the pool are held by transfers that wait for     *)
(* nodes: none of them needs a further one to end                           *)
(* (connection_manager.py:226, 283).                                        *)
TransfersEnd ==
    \A t \in Transfers :
        (pc[t] = "inserted") ~> (pc[t] \in {"answered", "gone"} /\ t \notin holding)

(* The contract of the command endpoints: a transfer is open from the       *)
(* insert of its row until it is answered, be it with a 500, or lost in a   *)
(* crash; its outcome is what its node reported.  A file or a confirmation  *)
(* is the outcome of a success, except that an empty file which stands for  *)
(* an error without a text is called misread, as that report is; every      *)
(* other answer is an excuse.                                               *)
StageOf ==
    [t \in Transfers |->
        CASE pc[t] = "idle" -> "idle"
          [] pc[t] = "answered" -> "closed"
          [] pc[t] = "gone" -> "cut"
          [] OTHER -> "open"]

AnswerOf ==
    [t \in Transfers |->
        CASE answer[t] = "none" -> "none"
          [] answer[t] = "done" -> IF wire[t] = "blank" THEN "misread" ELSE "done"
          [] OTHER -> "unavailable"]

OutcomeOf ==
    [t \in Transfers |->
        CASE wire[t] = "done" -> "done"
          [] wire[t] = "blank" -> "misread"
          [] OTHER -> "none"]

Contract == INSTANCE CommandContract WITH
    Requests <- Transfers, Outcomes <- {"done", "misread"},
    stage <- StageOf, answer <- AnswerOf, outcome <- OutcomeOf

(* Every transfer is answered at most once, and a caller is told of success *)
(* only when his own node reported on this very transfer by then, that it   *)
(* is done or that it failed without a text, whatever restarts and database *)
(* errors come in between.  That the second is told as a success is what    *)
(* the code does (node_ws.py:212); it is not excluded here.                 *)
KeepsContract == Contract!Safety

(* The sessions as SessionLife has them, where a handler that has not begun *)
(* and one that has ended are the same.                                     *)
HandlerOf ==
    [s \in Sessions |-> IF handler[s] \in {"new", "ended"} THEN "off" ELSE handler[s]]

Life == INSTANCE SessionLife WITH handler <- HandlerOf
=============================================================================
