----------------------- MODULE CommandExecutionProofs -----------------------
(* Theorems about CommandExecution, for any nodes, sessions and requests.   *)
EXTENDS CommandExecution, TLAPS

(* A request in the hands of execute_command holds a session and a future;  *)
(* before, nothing was sent; an answer exists from its return on.           *)
StageInv(r) ==
    /\ pc[r] \in {"idle", "skipped"} => row[r] = NoRow
    /\ pc[r] \in {"idle", "skipped", "accepted"} => wire[r] = "none" /\ fut[r] = "none"
    /\ pc[r] \in {"sending", "waiting"} => session[r] \in Sessions /\ fut[r] # "none"
    /\ pc[r] \in {"returned", "answered"} => answer[r] # "none"
    /\ answer[r] # "none" => pc[r] \in {"returned", "answered", "gone"}
    /\ pc[r] = "returned" /\ KindOf[r] = "single" => answer[r] = "timeout"

(* An outcome in the server is the one the agent reported, and came through *)
(* the handler; what is being recorded was received, and what a fault kept  *)
(* from being recorded is not recorded any more.                            *)
ReportInv(r) ==
    /\ fut[r] \in Outcomes => r \in received /\ fut[r] = wire[r]
    /\ answer[r] \in Outcomes => r \in received /\ answer[r] = wire[r]
    /\ r \in received => wire[r] \in Outcomes
    /\ r \in recording \cup forgotten => r \in received /\ KindOf[r] \notin Deployments
    /\ r \notin recording \cap forgotten

(* Until the request is answered, and for good if it is cut off, its row    *)
(* is as it was inserted, or as _update_command_result left it.             *)
RowInv(r) ==
    /\ row[r].output \in Outcomes => row[r].output = wire[r]
    /\ pc[r] \in {"accepted", "sending", "waiting", "returned", "gone"} =>
        row[r] = IF r \in received \ (recording \cup forgotten) /\ KindOf[r] \notin Deployments
                 THEN Recorded(r) ELSE NewRow

IInv ==
    /\ TypeOK
    /\ NoStuckCaller
    /\ \A r \in Requests : StageInv(r) /\ ReportInv(r) /\ RowInv(r)
    /\ EndedRowAgrees

-----------------------------------------------------------------------------
(* FailedFutures changes pending futures only, and only to "lost".          *)
LEMMA FailedFuturesLose ==
    ASSUME TypeOK, NEW S
    PROVE /\ FailedFutures(S) \in [Requests -> {"none", "pending", "lost"} \cup Outcomes]
          /\ \A r \in Requests :
                FailedFutures(S)[r] # fut[r]
                  => IsPending(r) /\ session[r] \in S /\ FailedFutures(S)[r] = "lost"
          /\ \A r \in Requests :
                IsPending(r) /\ session[r] \in S => FailedFutures(S)[r] = "lost"
  BY DEF TypeOK, FailedFutures, IsPending

(* The variables keep their types.                                          *)
LEMMA TypeStep == ASSUME IInv, [Next]_vars PROVE TypeOK'
<1> USE SessionsAssumption, NoneAssumption, RequestsAssumption
    DEF TypeOK, RegistryType, NewRow, Outcomes, sessionVars, callVars, resultVars, crashVars
<1>0. TypeOK /\ \A r \in Requests : StageInv(r)
  BY DEF IInv
<1>1. ASSUME NEW r \in Requests, Accept(r) PROVE TypeOK'
  BY <1>0, <1>1 DEF Accept
<1>2. ASSUME NEW r \in Requests, Call(r) PROVE TypeOK'
  <2>1. CASE Refuse(r) BY <1>0, <2>1 DEF Refuse, Finish
  <2>2. CASE StartCommand(r) BY <1>0, <2>2 DEF StartCommand, IsConnected
  <2>3. CASE SendReturns(r) BY <1>0, <2>3 DEF SendReturns
  <2>4. CASE SendFails(r)
    BY <1>0, <2>4, FailedFuturesLose DEF SendFails, Drop, Disconnect
  <2>5. CASE Wake(r) BY <1>0, <2>5 DEF Wake, Finish, StageInv
  <2>6. CASE TimesOut(r) BY <1>0, <2>6 DEF TimesOut, Finish
  <2>7. CASE WriteTimeout(r) BY <1>0, <2>7 DEF WriteTimeout
  <2>8. CASE WriteDeployment(r) BY <1>0, <2>8 DEF WriteDeployment, RowFor
  <2> QED BY <1>2, <2>1, <2>2, <2>3, <2>4, <2>5, <2>6, <2>7, <2>8 DEF Call
<1>3. ASSUME NEW r \in Requests, Result(r) PROVE TypeOK'
  <2>1. CASE AgentReports(r) BY <1>0, <2>1 DEF AgentReports
  <2>2. CASE ReceiveResult(r) BY <1>0, <2>2 DEF ReceiveResult
  <2>3. CASE RecordResult(r) BY <1>0, <2>3 DEF RecordResult, IInv, ReportInv
  <2> QED BY <1>3, <2>1, <2>2, <2>3 DEF Result
<1>4. CASE AcceptBulk \/ AcceptTagged
  BY <1>0, <1>4 DEF AcceptBulk, AcceptTagged, AcceptAll, BulkCall, TagCall
<1>5. CASE WriteBulk BY <1>0, <1>5 DEF WriteBulk, BulkCall, RowFor
<1>6. ASSUME NEW s \in Sessions, Session(s) PROVE TypeOK'
  <2>1. CASE Arrive(s)
    BY <1>0, <2>1, FailedFuturesLose DEF Arrive, TakesSocket, Connect
  <2>2. CASE Greeted(s) BY <1>0, <2>2 DEF Greeted
  <2>3. CASE GreetingFails(s) BY <1>0, <2>3 DEF GreetingFails
  <2>4. CASE HandlerExits(s)
    BY <1>0, <2>4, FailedFuturesLose DEF HandlerExits, Drop, Disconnect
  <2>5. CASE SocketLost(s) BY <1>0, <2>5 DEF SocketLost
  <2> QED BY <1>6, <2>1, <2>2, <2>3, <2>4, <2>5 DEF Session
<1>7. CASE Restart BY <1>0, <1>7 DEF Restart, ClearRegistry
<1>8. ASSUME NEW r \in Requests, Fault(r) PROVE TypeOK'
  <2>1. CASE DatabaseFails(r) BY <1>0, <2>1 DEF DatabaseFails, CutOff
  <2>2. CASE RecordingFails(r) BY <1>0, <2>2 DEF RecordingFails
  <2> QED BY <1>8, <2>1, <2>2 DEF Fault
<1>9. CASE BulkWriteFails BY <1>0, <1>9 DEF BulkWriteFails, CutOff, BulkCall
<1>10. CASE UNCHANGED vars BY <1>0, <1>10 DEF vars
<1> QED BY <1>1, <1>2, <1>3, <1>4, <1>5, <1>6, <1>7, <1>8, <1>9, <1>10 DEF Next

(* A dropped session's pending futures are failed in the same step.         *)
LEMMA NoStuckStep == ASSUME IInv, [Next]_vars PROVE NoStuckCaller'
<1> USE SessionsAssumption, NoneAssumption, RequestsAssumption
    DEF IInv, NoStuckCaller, TypeOK, RegistryType, StageInv, IsPending, Outcomes,
        sessionVars, callVars, resultVars, crashVars
<1>0. IInv OBVIOUS
<1>1. ASSUME NEW r \in Requests, Accept(r) PROVE NoStuckCaller'
  BY <1>0, <1>1 DEF Accept
<1>2. ASSUME NEW r \in Requests, Call(r) PROVE NoStuckCaller'
  <2>1. CASE Refuse(r) BY <1>0, <2>1 DEF Refuse, Finish
  <2>2. CASE StartCommand(r) BY <1>0, <2>2 DEF StartCommand, IsConnected
  <2>3. CASE SendReturns(r) BY <1>0, <2>3 DEF SendReturns
  <2>4. CASE SendFails(r)
    BY <1>0, <2>4, FailedFuturesLose
       DEF SendFails, Drop, Disconnect, Removes, IsConnected
  <2>5. CASE Wake(r) BY <1>0, <2>5 DEF Wake, Finish
  <2>6. CASE TimesOut(r) BY <1>0, <2>6 DEF TimesOut, Finish
  <2>7. CASE WriteTimeout(r) BY <1>0, <2>7 DEF WriteTimeout
  <2>8. CASE WriteDeployment(r) BY <1>0, <2>8 DEF WriteDeployment, RowFor
  <2> QED BY <1>2, <2>1, <2>2, <2>3, <2>4, <2>5, <2>6, <2>7, <2>8 DEF Call
<1>3. ASSUME NEW r \in Requests, Result(r) PROVE NoStuckCaller'
  <2>1. CASE AgentReports(r) BY <1>0, <2>1 DEF AgentReports
  <2>2. CASE ReceiveResult(r) BY <1>0, <2>2 DEF ReceiveResult
  <2>3. CASE RecordResult(r) BY <1>0, <2>3 DEF RecordResult
  <2> QED BY <1>3, <2>1, <2>2, <2>3 DEF Result
<1>4. CASE AcceptBulk \/ AcceptTagged
  BY <1>0, <1>4 DEF AcceptBulk, AcceptTagged, AcceptAll, BulkCall, TagCall
<1>5. CASE WriteBulk BY <1>0, <1>5 DEF WriteBulk, BulkCall, RowFor
<1>6. ASSUME NEW s \in Sessions, Session(s) PROVE NoStuckCaller'
  <2>1. CASE Arrive(s)
    BY <1>0, <2>1, FailedFuturesLose DEF Arrive, TakesSocket, Connect
  <2>2. CASE Greeted(s) BY <1>0, <2>2 DEF Greeted
  <2>3. CASE GreetingFails(s) BY <1>0, <2>3 DEF GreetingFails
  <2>4. CASE HandlerExits(s)
    BY <1>0, <2>4, FailedFuturesLose
       DEF HandlerExits, Drop, Disconnect, Removes, IsConnected
  <2>5. CASE SocketLost(s) BY <1>0, <2>5 DEF SocketLost
  <2> QED BY <1>6, <2>1, <2>2, <2>3, <2>4, <2>5 DEF Session
<1>7. CASE Restart BY <1>0, <1>7 DEF Restart, ClearRegistry
<1>8. ASSUME NEW r \in Requests, Fault(r) PROVE NoStuckCaller'
  <2>1. CASE DatabaseFails(r) BY <1>0, <2>1 DEF DatabaseFails, CutOff
  <2>2. CASE RecordingFails(r) BY <1>0, <2>2 DEF RecordingFails
  <2> QED BY <1>8, <2>1, <2>2 DEF Fault
<1>9. CASE BulkWriteFails BY <1>0, <1>9 DEF BulkWriteFails, CutOff, BulkCall
<1>10. CASE UNCHANGED vars BY <1>0, <1>10 DEF vars
<1> QED BY <1>1, <1>2, <1>3, <1>4, <1>5, <1>6, <1>7, <1>8, <1>9, <1>10 DEF Next

(* The stages of a request.                                                 *)
LEMMA StageStep == ASSUME IInv, [Next]_vars PROVE (\A q \in Requests : StageInv(q))'
<1> USE SessionsAssumption, NoneAssumption, RequestsAssumption
    DEF IInv, TypeOK, RegistryType, StageInv, IsPending, Outcomes, NewRow, NoRow,
        sessionVars, callVars, resultVars, crashVars
<1>0. IInv OBVIOUS
<1>1. ASSUME NEW r \in Requests, Accept(r) PROVE (\A q \in Requests : StageInv(q))'
  BY <1>0, <1>1 DEF Accept
<1>2. ASSUME NEW r \in Requests, Call(r) PROVE (\A q \in Requests : StageInv(q))'
  <2>1. CASE Refuse(r) BY <1>0, <2>1 DEF Refuse, Finish
  <2>2. CASE StartCommand(r) BY <1>0, <2>2 DEF StartCommand, IsConnected
  <2>3. CASE SendReturns(r) BY <1>0, <2>3 DEF SendReturns
  <2>4. CASE SendFails(r)
    BY <1>0, <2>4, FailedFuturesLose
       DEF SendFails, Drop, Disconnect, Removes, IsConnected
  <2>5. CASE Wake(r) BY <1>0, <2>5 DEF Wake, Finish
  <2>6. CASE TimesOut(r) BY <1>0, <2>6 DEF TimesOut, Finish
  <2>7. CASE WriteTimeout(r) BY <1>0, <2>7 DEF WriteTimeout
  <2>8. CASE WriteDeployment(r) BY <1>0, <2>8 DEF WriteDeployment, RowFor
  <2> QED BY <1>2, <2>1, <2>2, <2>3, <2>4, <2>5, <2>6, <2>7, <2>8 DEF Call
<1>3. ASSUME NEW r \in Requests, Result(r) PROVE (\A q \in Requests : StageInv(q))'
  <2>1. CASE AgentReports(r) BY <1>0, <2>1 DEF AgentReports
  <2>2. CASE ReceiveResult(r) BY <1>0, <2>2 DEF ReceiveResult
  <2>3. CASE RecordResult(r) BY <1>0, <2>3 DEF RecordResult
  <2> QED BY <1>3, <2>1, <2>2, <2>3 DEF Result
<1>4. CASE AcceptBulk \/ AcceptTagged
  BY <1>0, <1>4 DEF AcceptBulk, AcceptTagged, AcceptAll, BulkCall, TagCall
<1>5. CASE WriteBulk BY <1>0, <1>5 DEF WriteBulk, BulkCall, RowFor
<1>6. ASSUME NEW s \in Sessions, Session(s) PROVE (\A q \in Requests : StageInv(q))'
  <2>1. CASE Arrive(s)
    BY <1>0, <2>1, FailedFuturesLose DEF Arrive, TakesSocket, Connect
  <2>2. CASE Greeted(s) BY <1>0, <2>2 DEF Greeted
  <2>3. CASE GreetingFails(s) BY <1>0, <2>3 DEF GreetingFails
  <2>4. CASE HandlerExits(s)
    BY <1>0, <2>4, FailedFuturesLose
       DEF HandlerExits, Drop, Disconnect, Removes, IsConnected
  <2>5. CASE SocketLost(s) BY <1>0, <2>5 DEF SocketLost
  <2> QED BY <1>6, <2>1, <2>2, <2>3, <2>4, <2>5 DEF Session
<1>7. CASE Restart BY <1>0, <1>7 DEF Restart, ClearRegistry
<1>8. ASSUME NEW r \in Requests, Fault(r) PROVE (\A q \in Requests : StageInv(q))'
  <2>1. CASE DatabaseFails(r) BY <1>0, <2>1 DEF DatabaseFails, CutOff
  <2>2. CASE RecordingFails(r) BY <1>0, <2>2 DEF RecordingFails
  <2> QED BY <1>8, <2>1, <2>2 DEF Fault
<1>9. CASE BulkWriteFails BY <1>0, <1>9 DEF BulkWriteFails, CutOff, BulkCall
<1>10. CASE UNCHANGED vars BY <1>0, <1>10 DEF vars
<1> QED BY <1>1, <1>2, <1>3, <1>4, <1>5, <1>6, <1>7, <1>8, <1>9, <1>10 DEF Next

(* Outcomes come from the agent, through the handler.                       *)
LEMMA ReportStep == ASSUME IInv, [Next]_vars PROVE (\A q \in Requests : ReportInv(q))'
<1> USE SessionsAssumption, NoneAssumption, RequestsAssumption
    DEF IInv, TypeOK, RegistryType, StageInv, ReportInv, IsPending, Outcomes,
        sessionVars, callVars, resultVars, crashVars
<1>0. IInv OBVIOUS
<1>1. ASSUME NEW r \in Requests, Accept(r) PROVE (\A q \in Requests : ReportInv(q))'
  BY <1>0, <1>1 DEF Accept
<1>2. ASSUME NEW r \in Requests, Call(r) PROVE (\A q \in Requests : ReportInv(q))'
  <2>1. CASE Refuse(r) BY <1>0, <2>1 DEF Refuse, Finish
  <2>2. CASE StartCommand(r) BY <1>0, <2>2 DEF StartCommand, IsConnected
  <2>3. CASE SendReturns(r) BY <1>0, <2>3 DEF SendReturns
  <2>4. CASE SendFails(r)
    BY <1>0, <2>4, FailedFuturesLose
       DEF SendFails, Drop, Disconnect, Removes, IsConnected
  <2>5. CASE Wake(r) BY <1>0, <2>5 DEF Wake, Finish
  <2>6. CASE TimesOut(r) BY <1>0, <2>6 DEF TimesOut, Finish
  <2>7. CASE WriteTimeout(r) BY <1>0, <2>7 DEF WriteTimeout
  <2>8. CASE WriteDeployment(r) BY <1>0, <2>8 DEF WriteDeployment, RowFor
  <2> QED BY <1>2, <2>1, <2>2, <2>3, <2>4, <2>5, <2>6, <2>7, <2>8 DEF Call
<1>3. ASSUME NEW r \in Requests, Result(r) PROVE (\A q \in Requests : ReportInv(q))'
  <2>1. CASE AgentReports(r) BY <1>0, <2>1 DEF AgentReports
  <2>2. CASE ReceiveResult(r) BY <1>0, <2>2 DEF ReceiveResult
  <2>3. CASE RecordResult(r) BY <1>0, <2>3 DEF RecordResult
  <2> QED BY <1>3, <2>1, <2>2, <2>3 DEF Result
<1>4. CASE AcceptBulk \/ AcceptTagged
  BY <1>0, <1>4 DEF AcceptBulk, AcceptTagged, AcceptAll, BulkCall, TagCall
<1>5. CASE WriteBulk BY <1>0, <1>5 DEF WriteBulk, BulkCall, RowFor
<1>6. ASSUME NEW s \in Sessions, Session(s) PROVE (\A q \in Requests : ReportInv(q))'
  <2>1. CASE Arrive(s)
    BY <1>0, <2>1, FailedFuturesLose DEF Arrive, TakesSocket, Connect
  <2>2. CASE Greeted(s) BY <1>0, <2>2 DEF Greeted
  <2>3. CASE GreetingFails(s) BY <1>0, <2>3 DEF GreetingFails
  <2>4. CASE HandlerExits(s)
    BY <1>0, <2>4, FailedFuturesLose
       DEF HandlerExits, Drop, Disconnect, Removes, IsConnected
  <2>5. CASE SocketLost(s) BY <1>0, <2>5 DEF SocketLost
  <2> QED BY <1>6, <2>1, <2>2, <2>3, <2>4, <2>5 DEF Session
<1>7. CASE Restart BY <1>0, <1>7 DEF Restart, ClearRegistry
<1>8. ASSUME NEW r \in Requests, Fault(r) PROVE (\A q \in Requests : ReportInv(q))'
  <2>1. CASE DatabaseFails(r) BY <1>0, <2>1 DEF DatabaseFails, CutOff
  <2>2. CASE RecordingFails(r) BY <1>0, <2>2 DEF RecordingFails
  <2> QED BY <1>8, <2>1, <2>2 DEF Fault
<1>9. CASE BulkWriteFails BY <1>0, <1>9 DEF BulkWriteFails, CutOff, BulkCall
<1>10. CASE UNCHANGED vars BY <1>0, <1>10 DEF vars
<1> QED BY <1>1, <1>2, <1>3, <1>4, <1>5, <1>6, <1>7, <1>8, <1>9, <1>10 DEF Next

(* Rows of requests that are not answered yet.                              *)
LEMMA RowStep == ASSUME IInv, [Next]_vars PROVE (\A q \in Requests : RowInv(q))'
<1> USE SessionsAssumption, NoneAssumption, RequestsAssumption
    DEF IInv, TypeOK, RegistryType, StageInv, ReportInv, RowInv, Outcomes, NewRow,
        NoRow, Recorded, sessionVars, callVars, resultVars, crashVars
<1>0. IInv OBVIOUS
<1>1. ASSUME NEW r \in Requests, Accept(r) PROVE (\A q \in Requests : RowInv(q))'
  BY <1>0, <1>1 DEF Accept
<1>2. ASSUME NEW r \in Requests, Call(r) PROVE (\A q \in Requests : RowInv(q))'
  <2>1. CASE Refuse(r) BY <1>0, <2>1 DEF Refuse, Finish
  <2>2. CASE StartCommand(r) BY <1>0, <2>2 DEF StartCommand, IsConnected
  <2>3. CASE SendReturns(r) BY <1>0, <2>3 DEF SendReturns
  <2>4. CASE SendFails(r)
    BY <1>0, <2>4, FailedFuturesLose
       DEF SendFails, Drop, Disconnect, Removes, IsConnected
  <2>5. CASE Wake(r) BY <1>0, <2>5 DEF Wake, Finish
  <2>6. CASE TimesOut(r) BY <1>0, <2>6 DEF TimesOut, Finish
  <2>7. CASE WriteTimeout(r) BY <1>0, <2>7 DEF WriteTimeout
  <2>8. CASE WriteDeployment(r) BY <1>0, <2>8 DEF WriteDeployment, RowFor
  <2> QED BY <1>2, <2>1, <2>2, <2>3, <2>4, <2>5, <2>6, <2>7, <2>8 DEF Call
<1>3. ASSUME NEW r \in Requests, Result(r) PROVE (\A q \in Requests : RowInv(q))'
  <2>1. CASE AgentReports(r) BY <1>0, <2>1 DEF AgentReports
  <2>2. CASE ReceiveResult(r) BY <1>0, <2>2 DEF ReceiveResult
  <2>3. CASE RecordResult(r) BY <1>0, <2>3 DEF RecordResult
  <2> QED BY <1>3, <2>1, <2>2, <2>3 DEF Result
<1>4. CASE AcceptBulk \/ AcceptTagged
  BY <1>0, <1>4 DEF AcceptBulk, AcceptTagged, AcceptAll, BulkCall, TagCall
<1>5. CASE WriteBulk BY <1>0, <1>5 DEF WriteBulk, BulkCall, RowFor
<1>6. ASSUME NEW s \in Sessions, Session(s) PROVE (\A q \in Requests : RowInv(q))'
  <2>1. CASE Arrive(s)
    BY <1>0, <2>1, FailedFuturesLose DEF Arrive, TakesSocket, Connect
  <2>2. CASE Greeted(s) BY <1>0, <2>2 DEF Greeted
  <2>3. CASE GreetingFails(s) BY <1>0, <2>3 DEF GreetingFails
  <2>4. CASE HandlerExits(s)
    BY <1>0, <2>4, FailedFuturesLose
       DEF HandlerExits, Drop, Disconnect, Removes, IsConnected
  <2>5. CASE SocketLost(s) BY <1>0, <2>5 DEF SocketLost
  <2> QED BY <1>6, <2>1, <2>2, <2>3, <2>4, <2>5 DEF Session
<1>7. CASE Restart BY <1>0, <1>7 DEF Restart, ClearRegistry
<1>8. ASSUME NEW r \in Requests, Fault(r) PROVE (\A q \in Requests : RowInv(q))'
  <2>1. CASE DatabaseFails(r) BY <1>0, <2>1 DEF DatabaseFails, CutOff
  <2>2. CASE RecordingFails(r) BY <1>0, <2>2 DEF RecordingFails
  <2> QED BY <1>8, <2>1, <2>2 DEF Fault
<1>9. CASE BulkWriteFails BY <1>0, <1>9 DEF BulkWriteFails, CutOff, BulkCall
<1>10. CASE UNCHANGED vars BY <1>0, <1>10 DEF vars
<1> QED BY <1>1, <1>2, <1>3, <1>4, <1>5, <1>6, <1>7, <1>8, <1>9, <1>10 DEF Next

(* Rows of requests that are over.                                          *)
LEMMA EndedStep == ASSUME IInv, [Next]_vars PROVE EndedRowAgrees'
<1> USE SessionsAssumption, NoneAssumption, RequestsAssumption
    DEF IInv, TypeOK, RegistryType, StageInv, ReportInv, RowInv, EndedRowAgrees,
        Outcomes, Kinds, Deployments, NewRow, Recorded, sessionVars, callVars, resultVars, crashVars
<1>0. IInv OBVIOUS
<1>1. ASSUME NEW r \in Requests, Accept(r) PROVE EndedRowAgrees'
  BY <1>0, <1>1 DEF Accept
<1>2. ASSUME NEW r \in Requests, Call(r) PROVE EndedRowAgrees'
  <2>1. CASE Refuse(r) BY <1>0, <2>1 DEF Refuse, Finish
  <2>2. CASE StartCommand(r) BY <1>0, <2>2 DEF StartCommand, IsConnected
  <2>3. CASE SendReturns(r) BY <1>0, <2>3 DEF SendReturns
  <2>4. CASE SendFails(r)
    BY <1>0, <2>4, FailedFuturesLose
       DEF SendFails, Drop, Disconnect, Removes, IsConnected
  <2>5. CASE Wake(r) BY <1>0, <2>5 DEF Wake, Finish
  <2>6. CASE TimesOut(r) BY <1>0, <2>6 DEF TimesOut, Finish
  <2>7. CASE WriteTimeout(r) BY <1>0, <2>7 DEF WriteTimeout
  <2>8. CASE WriteDeployment(r) BY <1>0, <2>8 DEF WriteDeployment, RowFor
  <2> QED BY <1>2, <2>1, <2>2, <2>3, <2>4, <2>5, <2>6, <2>7, <2>8 DEF Call
<1>3. ASSUME NEW r \in Requests, Result(r) PROVE EndedRowAgrees'
  <2>1. CASE AgentReports(r) BY <1>0, <2>1 DEF AgentReports
  <2>2. CASE ReceiveResult(r) BY <1>0, <2>2 DEF ReceiveResult
  <2>3. CASE RecordResult(r) BY <1>0, <2>3 DEF RecordResult
  <2> QED BY <1>3, <2>1, <2>2, <2>3 DEF Result
<1>4. CASE AcceptBulk \/ AcceptTagged
  BY <1>0, <1>4 DEF AcceptBulk, AcceptTagged, AcceptAll, BulkCall, TagCall
<1>5. CASE WriteBulk BY <1>0, <1>5 DEF WriteBulk, BulkCall, RowFor
<1>6. ASSUME NEW s \in Sessions, Session(s) PROVE EndedRowAgrees'
  <2>1. CASE Arrive(s)
    BY <1>0, <2>1, FailedFuturesLose DEF Arrive, TakesSocket, Connect
  <2>2. CASE Greeted(s) BY <1>0, <2>2 DEF Greeted
  <2>3. CASE GreetingFails(s) BY <1>0, <2>3 DEF GreetingFails
  <2>4. CASE HandlerExits(s)
    BY <1>0, <2>4, FailedFuturesLose
       DEF HandlerExits, Drop, Disconnect, Removes, IsConnected
  <2>5. CASE SocketLost(s) BY <1>0, <2>5 DEF SocketLost
  <2> QED BY <1>6, <2>1, <2>2, <2>3, <2>4, <2>5 DEF Session
<1>7. CASE Restart BY <1>0, <1>7 DEF Restart, ClearRegistry
<1>8. ASSUME NEW r \in Requests, Fault(r) PROVE EndedRowAgrees'
  <2>1. CASE DatabaseFails(r) BY <1>0, <2>1 DEF DatabaseFails, CutOff
  <2>2. CASE RecordingFails(r) BY <1>0, <2>2 DEF RecordingFails
  <2> QED BY <1>8, <2>1, <2>2 DEF Fault
<1>9. CASE BulkWriteFails BY <1>0, <1>9 DEF BulkWriteFails, CutOff, BulkCall
<1>10. CASE UNCHANGED vars BY <1>0, <1>10 DEF vars
<1> QED BY <1>1, <1>2, <1>3, <1>4, <1>5, <1>6, <1>7, <1>8, <1>9, <1>10 DEF Next

-----------------------------------------------------------------------------
LEMMA Initially == ASSUME Init PROVE IInv
<1> USE DEF Init, RegistryInit
<1>1. TypeOK
  BY RequestsAssumption DEF TypeOK, RegistryType, NoRow, Outcomes
<1>2. NoStuckCaller /\ EndedRowAgrees
  BY DEF NoStuckCaller, IsPending, EndedRowAgrees
<1>3. \A r \in Requests : StageInv(r) /\ ReportInv(r) /\ RowInv(r)
  BY DEF StageInv, ReportInv, RowInv, NoRow, Outcomes
<1> QED BY <1>1, <1>2, <1>3 DEF IInv

(* The inductive invariant.                                                 *)
THEOREM Inductive == Spec => []IInv
<1>1. Init => IInv BY Initially
<1>2. ASSUME IInv, [Next]_vars PROVE IInv'
  BY <1>2, TypeStep, NoStuckStep, StageStep, ReportStep, RowStep, EndedStep DEF IInv
<1> QED BY <1>1, <1>2, PTL DEF Spec

(* The variables keep their types.                                          *)
THEOREM TypeCorrect == Spec => []TypeOK
<1>1. IInv => TypeOK BY DEF IInv
<1> QED BY <1>1, Inductive, PTL

(* No caller waits on a session that is no longer the node's: whatever      *)
(* takes a session out of the registry fails the futures it holds.          *)
THEOREM CallersAreNotStuck == Spec => []NoStuckCaller
<1>1. IInv => NoStuckCaller BY DEF IInv
<1> QED BY <1>1, Inductive, PTL

(* What the rows of commands that were answered or cut off may show.        *)
THEOREM RowsAgree == Spec => []EndedRowAgrees
<1>1. IInv => EndedRowAgrees BY DEF IInv
<1> QED BY <1>1, Inductive, PTL

(* The recorded output of a single command is final.                        *)
THEOREM OutputIsFinal == Spec => OutputIsKept
<1> DEFINE Keeps ==
      \A r \in Requests : KindOf[r] = "single" /\ row[r].output \in Outcomes
                            => row'[r].output = row[r].output
<1>1. ASSUME IInv, [Next]_vars, NEW r \in Requests,
             KindOf[r] = "single", row[r].output \in Outcomes
      PROVE row'[r].output = row[r].output
  <2> USE <1>1 DEF IInv, TypeOK, StageInv, ReportInv, RowInv, Outcomes, NoRow, NewRow,
               sessionVars, callVars, resultVars, crashVars
  <2>1. ASSUME NEW q \in Requests, Accept(q) PROVE row'[r].output = row[r].output
    BY <2>1 DEF Accept
  <2>2. ASSUME NEW q \in Requests, Call(q) PROVE row'[r].output = row[r].output
    BY <2>2 DEF Call, Refuse, StartCommand, SendReturns, SendFails, Wake, TimesOut,
                Finish, WriteTimeout, WriteDeployment
  <2>3. ASSUME NEW q \in Requests, Result(q) PROVE row'[r].output = row[r].output
    BY <2>3 DEF Result, AgentReports, ReceiveResult, RecordResult
  <2>4. CASE AcceptBulk \/ AcceptTagged
    BY <2>4 DEF AcceptBulk, AcceptTagged, AcceptAll, BulkCall, TagCall
  <2>5. CASE WriteBulk BY <2>5 DEF WriteBulk, BulkCall
  <2>6. ASSUME NEW s \in Sessions, Session(s) PROVE row'[r].output = row[r].output
    BY <2>6 DEF Session, Arrive, Greeted, GreetingFails, HandlerExits, SocketLost
  <2>7. CASE Restart \/ BulkWriteFails BY <2>7 DEF Restart, BulkWriteFails, CutOff
  <2>8. ASSUME NEW q \in Requests, Fault(q) PROVE row'[r].output = row[r].output
    BY <2>8 DEF Fault, DatabaseFails, CutOff, RecordingFails
  <2>9. CASE UNCHANGED vars BY <2>9 DEF vars
  <2> QED BY <1>1, <2>1, <2>2, <2>3, <2>4, <2>5, <2>6, <2>7, <2>8, <2>9 DEF Next
<1>2. IInv /\ [Next]_vars => [Keeps]_vars
  BY <1>1
<1> QED BY <1>2, Inductive, PTL DEF Spec, OutputIsKept

-----------------------------------------------------------------------------
(* CommandExecution implements the safety part of CommandContract: every    *)
(* step is a step of the contract or changes nothing of it.                 *)
THEOREM ImplementsContract == Spec => Contract!Safety
<1>1. Init => Contract!Init
  BY DEF Init, Contract!Init, StageOf, OutcomeOf, Outcomes
<1>2. ASSUME IInv, [Next]_vars PROVE [Contract!Next]_(Contract!contractVars)
  <2> DEFINE reached(call) == {r \in call : IsConnected(NodeFor[r])}
             targets == {r \in BulkCall : pc[r] # "skipped"}
  <2>0. /\ TypeOK
        /\ \A r \in Requests : StageInv(r) /\ ReportInv(r)
    BY <1>2 DEF IInv
  <2> USE DEF TypeOK, Outcomes, sessionVars, callVars, resultVars, crashVars
  <2>1. ASSUME NEW r \in Requests, Accept(r) PROVE Contract!Admit({r})
    BY <2>0, <2>1 DEF Accept, StageOf, OutcomeOf, Contract!Admit
  <2>2. ASSUME NEW r \in Requests, NEW a, pc[r] \in {"accepted", "waiting"},
               a \in {"timeout", "unavailable"} \/ (a \in Outcomes /\ a = wire[r]),
               Finish(r, a), UNCHANGED wire
        PROVE Contract!Learn(r)
    <3>1. StageOf[r] = "open" /\ answer[r] = "none"
      BY <2>0, <2>2 DEF StageOf, StageInv
    <3>2. a \in Contract!Excuses \cup (Outcomes \cap {OutcomeOf[r]})
      BY <2>0, <2>2 DEF OutcomeOf, Contract!Excuses
    <3>3. answer' = [answer EXCEPT ![r] = a] BY <2>2 DEF Finish
    <3>4. CASE pc' = [pc EXCEPT ![r] = "answered"]
      <4>1. StageOf' = [StageOf EXCEPT ![r] = "closed"]
        BY <2>0, <2>2, <3>4 DEF StageOf
      <4>2. OutcomeOf' = OutcomeOf BY <2>2 DEF OutcomeOf
      <4> QED BY <3>1, <3>2, <3>3, <4>1, <4>2 DEF Contract!Learn
    <3>5. CASE pc' = [pc EXCEPT ![r] = "returned"]
      <4>1. StageOf' = StageOf
        BY <2>0, <2>2, <3>5 DEF StageOf
      <4>2. OutcomeOf' = OutcomeOf BY <2>2 DEF OutcomeOf
      <4> QED BY <3>1, <3>2, <3>3, <4>1, <4>2 DEF Contract!Learn
    <3> QED BY <2>2, <3>4, <3>5 DEF Finish
  <2>3. ASSUME NEW r \in Requests,
               StartCommand(r) \/ SendReturns(r) \/ SendFails(r)
        PROVE UNCHANGED Contract!contractVars
    BY <2>0, <2>3 DEF StartCommand, SendReturns, SendFails, StageInv, StageOf,
                      OutcomeOf, Contract!contractVars
  <2>4. ASSUME NEW r \in Requests, WriteTimeout(r) \/ WriteDeployment(r)
        PROVE Contract!Close({r})
    BY <2>0, <2>4 DEF WriteTimeout, WriteDeployment, StageInv, StageOf, OutcomeOf,
                      Contract!Close
  <2>5. ASSUME NEW r \in Requests, AgentReports(r)
        PROVE \E o \in Outcomes : Contract!Run(r, o)
    <3>1. PICK o \in Outcomes : wire' = [wire EXCEPT ![r] = o]
      BY <2>5 DEF AgentReports
    <3>2. StageOf[r] # "idle" /\ OutcomeOf[r] = "none"
      BY <2>0, <2>5 DEF AgentReports, StageInv, StageOf, OutcomeOf
    <3>3. OutcomeOf' = [OutcomeOf EXCEPT ![r] = o]
      BY <2>0, <3>1 DEF OutcomeOf
    <3>4. UNCHANGED <<StageOf, answer>> BY <2>5 DEF AgentReports, StageOf
    <3> QED BY <3>2, <3>3, <3>4 DEF Contract!Run
  <2>6. ASSUME NEW r \in Requests, ReceiveResult(r) \/ RecordResult(r)
        PROVE UNCHANGED Contract!contractVars
    BY <2>6 DEF ReceiveResult, RecordResult, StageOf, OutcomeOf, Contract!contractVars
  <2>7. ASSUME NEW call \in SUBSET Requests, AcceptAll(call)
        PROVE Contract!Admit(reached(call))
    BY <2>0, <2>7 DEF AcceptAll, StageOf, OutcomeOf, Contract!Admit
  <2>8. ASSUME WriteBulk PROVE Contract!Close(targets)
    BY <2>0, <2>8
         DEF WriteBulk, BulkCall, StageInv, StageOf, OutcomeOf, Contract!Close
  <2>9. ASSUME NEW s \in Sessions, Session(s) PROVE UNCHANGED Contract!contractVars
    BY <2>9 DEF Session, Arrive, Greeted, GreetingFails, HandlerExits, SocketLost,
                StageOf, OutcomeOf, Contract!contractVars
  <2>10. ASSUME UNCHANGED vars PROVE UNCHANGED Contract!contractVars
    BY <2>10 DEF vars, StageOf, OutcomeOf, Contract!contractVars
  <2>11. ASSUME NEW r \in Requests, Refuse(r) \/ Wake(r) \/ TimesOut(r)
         PROVE Contract!Learn(r)
    <3>1. CASE Refuse(r) BY <2>2, <3>1 DEF Refuse
    <3>2. CASE Wake(r)
      <4>1. fut[r] \in Outcomes \cup {"lost"} BY <2>0, <3>2 DEF Wake, StageInv
      <4>2. CASE fut[r] = "lost" BY <2>2, <3>2, <4>2 DEF Wake
      <4>3. CASE fut[r] \in Outcomes
        <5>1. fut[r] = wire[r] /\ fut[r] # "lost" BY <2>0, <4>3 DEF ReportInv
        <5> QED BY <2>2, <3>2, <4>3, <5>1 DEF Wake
      <4> QED BY <4>1, <4>2, <4>3
    <3>3. CASE TimesOut(r) BY <2>2, <3>3 DEF TimesOut
    <3> QED BY <2>11, <3>1, <3>2, <3>3
  <2> DEFINE underWay == {r \in Requests : StageOf[r] = "open"}
             cut(r) == {r} \cup {q \in TagCall : r \in TagCall /\ pc[q] = "accepted"}
  <2>17. ASSUME Restart PROVE Contract!Cut(underWay)
    BY <2>0, <2>17 DEF Restart, StageOf, OutcomeOf, Contract!Cut
  <2>18. ASSUME NEW r \in Requests, DatabaseFails(r) PROVE Contract!Cut(cut(r))
    BY <2>0, <2>18
         DEF DatabaseFails, CutOff, TagCall, StageOf, OutcomeOf, Contract!Cut
  <2>19. ASSUME NEW r \in Requests, RecordingFails(r)
         PROVE UNCHANGED Contract!contractVars
    BY <2>0, <2>19 DEF RecordingFails, StageOf, OutcomeOf, Contract!contractVars
  <2>20. ASSUME BulkWriteFails PROVE Contract!Cut(targets)
    BY <2>0, <2>20
         DEF BulkWriteFails, CutOff, BulkCall, StageOf, OutcomeOf, Contract!Cut
  <2>21. /\ underWay \in SUBSET Requests
         /\ \A r \in Requests : cut(r) \in SUBSET Requests
    BY DEF TagCall
  <2> HIDE DEF TypeOK, Outcomes, sessionVars, callVars, resultVars, crashVars, reached,
               targets, underWay, cut
  <2>12. ASSUME NEW R \in SUBSET Requests,
                Contract!Admit(R) \/ Contract!Close(R) \/ Contract!Cut(R)
         PROVE Contract!Next
    BY <2>12 DEF Contract!Next
  <2>13. ASSUME NEW r \in Requests,
                Contract!Learn(r) \/ \E o \in Outcomes : Contract!Run(r, o)
         PROVE Contract!Next
    BY <2>13 DEF Contract!Next
  <2>14. /\ targets \in SUBSET Requests
         /\ BulkCall \in SUBSET Requests /\ TagCall \in SUBSET Requests
    BY DEF targets, BulkCall, TagCall
  <2>15. ASSUME NEW r \in Requests, Accept(r) \/ Call(r) \/ Result(r)
         PROVE Contract!Next \/ UNCHANGED Contract!contractVars
    <3>1. {r} \in SUBSET Requests OBVIOUS
    <3> QED
      BY <2>1, <2>3, <2>4, <2>5, <2>6, <2>11, <2>12, <2>13, <2>15, <3>1
           DEF Call, Result
  <2>16. ASSUME AcceptBulk \/ AcceptTagged PROVE Contract!Next
    <3>1. PICK call \in SUBSET Requests : AcceptAll(call)
      BY <2>14, <2>16 DEF AcceptBulk, AcceptTagged
    <3>2. reached(call) \in SUBSET Requests BY DEF reached
    <3> QED BY <2>7, <2>12, <3>1, <3>2
  <2>22. ASSUME NEW r \in Requests, Fault(r)
         PROVE Contract!Next \/ UNCHANGED Contract!contractVars
    BY <2>12, <2>18, <2>19, <2>21, <2>22 DEF Fault
  <2> QED
    BY <1>2, <2>8, <2>9, <2>10, <2>12, <2>14, <2>15, <2>16, <2>17, <2>20, <2>21, <2>22
       DEF Next
<1>3. IInv /\ [Next]_vars => [Contract!Next]_(Contract!contractVars)
  BY <1>2
<1> QED BY <1>1, <1>3, Inductive, PTL DEF Spec, Contract!Safety

-----------------------------------------------------------------------------
(* What follows from the contract for a caller.                             *)

ContractInv ==
    /\ StageOf \in [Requests -> {"idle", "open", "closed", "cut"}]
    /\ answer \in [Requests -> Contract!Excuses \cup Outcomes \cup {"none"}]
    /\ OutcomeOf \in [Requests -> Outcomes \cup {"none"}]
    /\ Contract!AnswersAreOwn

(* What a request has got it keeps, and its answer is its own outcome or an *)
(* excuse, whatever step the contract takes.                                *)
LEMMA ContractStep ==
    ASSUME ContractInv, [Contract!Next]_(Contract!contractVars)
    PROVE  /\ ContractInv'
           /\ \A r \in Requests :
                 /\ answer[r] # "none" => answer'[r] = answer[r]
                 /\ OutcomeOf[r] # "none" => OutcomeOf'[r] = OutcomeOf[r]
                 /\ StageOf[r] \in {"closed", "cut"} => StageOf'[r] = StageOf[r]
<1> DEFINE Kept == \A r \in Requests :
                 /\ answer[r] # "none" => answer'[r] = answer[r]
                 /\ OutcomeOf[r] # "none" => OutcomeOf'[r] = OutcomeOf[r]
                 /\ StageOf[r] \in {"closed", "cut"} => StageOf'[r] = StageOf[r]
<1> USE DEF ContractInv, Contract!AnswersAreOwn, Contract!contractVars, Contract!Excuses, Outcomes
<1>1. ASSUME NEW R \in SUBSET Requests, Contract!Admit(R) \/ Contract!Close(R) \/ Contract!Cut(R)
      PROVE  ContractInv' /\ Kept
  BY <1>1 DEF Contract!Admit, Contract!Close, Contract!Cut
<1>2. ASSUME NEW r \in Requests, Contract!Learn(r) PROVE ContractInv' /\ Kept
  <2>1. PICK a \in Contract!Excuses \cup (Outcomes \cap {OutcomeOf[r]}) :
           answer' = [answer EXCEPT ![r] = a]
    BY <1>2 DEF Contract!Learn
  <2>2. a # "none" OBVIOUS
  <2> QED BY <1>2, <2>1, <2>2 DEF Contract!Learn
<1>3. ASSUME NEW r \in Requests, NEW o \in Outcomes, Contract!Run(r, o)
      PROVE  ContractInv' /\ Kept
  BY <1>3 DEF Contract!Run
<1>4. CASE UNCHANGED Contract!contractVars
  BY <1>4
<1> QED BY <1>1, <1>2, <1>3, <1>4 DEF Contract!Next

(* Whoever is answered is told what became of his own command, or an        *)
(* excuse, and nothing of it changes afterwards, whatever restarts,         *)
(* reconnects and late results come in between.                             *)
THEOREM AnswersAreOwnAndFinal ==
    Spec => []Contract!AnswersAreOwn /\ Contract!AnswersAreFinal
<1>1. Contract!Init => ContractInv
  BY DEF Contract!Init, ContractInv, Contract!AnswersAreOwn
<1>2. ContractInv /\ [Contract!Next]_(Contract!contractVars) => ContractInv'
  BY ContractStep
<1>3. ContractInv /\ [Contract!Next]_(Contract!contractVars) =>
        [\A r \in Requests :
            /\ answer[r] # "none" => answer'[r] = answer[r]
            /\ OutcomeOf[r] # "none" => OutcomeOf'[r] = OutcomeOf[r]
            /\ StageOf[r] \in {"closed", "cut"} => StageOf'[r] = StageOf[r]]_(Contract!contractVars)
  BY ContractStep
<1>4. ContractInv => Contract!AnswersAreOwn
  BY DEF ContractInv
<1> QED BY <1>1, <1>2, <1>3, <1>4, ImplementsContract, PTL
        DEF Contract!Safety, Contract!AnswersAreFinal

-----------------------------------------------------------------------------
(* A registered session has arrived and belongs to its node, and a command  *)
(* is sent on a session of its own node.                                    *)
SessionInv ==
    /\ \A n \in Nodes : IsConnected(n) =>
           NodeOf[connections[n]] = n /\ handler[connections[n]] # "new"
    /\ \A r \in Requests : pc[r] \in {"sending", "waiting"} =>
           session[r] \in Sessions /\ NodeOf[session[r]] = NodeFor[r]

(* What the sessions see of a step: a lookup, a send that fails, a step of  *)
(* their own, a restart, or nothing but the end of a call.                  *)
LEMMA SessionSteps ==
    ASSUME TypeOK, [Next]_vars
    PROVE  \/ \E r \in Requests : StartCommand(r) \/ SendReturns(r) \/ SendFails(r)
           \/ \E s \in Sessions : Session(s)
           \/ Restart
           \/ /\ UNCHANGED <<connections, handler, sock, session>>
              /\ \A r \in Requests :
                    pc'[r] \in {"sending", "waiting"} => pc'[r] = pc[r]
<1> USE DEF TypeOK, sessionVars, callVars, resultVars
<1> DEFINE Still ==
      /\ UNCHANGED <<connections, handler, sock, session>>
      /\ \A r \in Requests : pc'[r] \in {"sending", "waiting"} => pc'[r] = pc[r]
<1>1. ASSUME NEW r \in Requests, Accept(r) PROVE Still
  BY <1>1 DEF Accept
<1>2. ASSUME NEW r \in Requests, Call(r)
      PROVE  StartCommand(r) \/ SendReturns(r) \/ SendFails(r) \/ Still
  BY <1>2 DEF Call, Refuse, Wake, TimesOut, Finish, WriteTimeout, WriteDeployment
<1>3. ASSUME NEW r \in Requests, Result(r) PROVE Still
  BY <1>3 DEF Result, AgentReports, ReceiveResult, RecordResult
<1>4. ASSUME NEW r \in Requests, Fault(r) PROVE Still
  BY <1>4 DEF Fault, DatabaseFails, CutOff, RecordingFails
<1>5. CASE AcceptBulk \/ AcceptTagged
  BY <1>5 DEF AcceptBulk, AcceptTagged, AcceptAll
<1>6. CASE WriteBulk \/ BulkWriteFails BY <1>6 DEF WriteBulk, BulkWriteFails, CutOff
<1>7. CASE UNCHANGED vars BY <1>7 DEF vars
<1> QED BY <1>1, <1>2, <1>3, <1>4, <1>5, <1>6, <1>7 DEF Next

LEMMA SessionStep == ASSUME IInv, SessionInv, [Next]_vars PROVE SessionInv'
<1> USE SessionsAssumption, NoneAssumption, RequestsAssumption
    DEF SessionInv, TypeOK, RegistryType, IsConnected, sessionVars
<1>0. TypeOK BY DEF IInv
<1>1. ASSUME NEW r \in Requests, StartCommand(r) PROVE SessionInv'
  BY <1>0, <1>1 DEF StartCommand
<1>2. ASSUME NEW r \in Requests, SendReturns(r) PROVE SessionInv'
  BY <1>0, <1>2 DEF SendReturns
<1>3. ASSUME NEW r \in Requests, SendFails(r) PROVE SessionInv'
  BY <1>0, <1>3 DEF SendFails, Drop, Disconnect, Removes
<1>4. ASSUME NEW s \in Sessions, Session(s) PROVE SessionInv'
  <2>1. CASE Arrive(s) BY <1>0, <2>1 DEF Arrive, Connect
  <2>2. CASE Greeted(s) BY <1>0, <2>2 DEF Greeted, callVars
  <2>3. CASE GreetingFails(s) BY <1>0, <2>3 DEF GreetingFails, callVars
  <2>4. CASE HandlerExits(s)
    BY <1>0, <2>4 DEF HandlerExits, Drop, Disconnect, Removes
  <2>5. CASE SocketLost(s) BY <1>0, <2>5 DEF SocketLost, callVars
  <2> QED BY <1>4, <2>1, <2>2, <2>3, <2>4, <2>5 DEF Session
<1>5. CASE Restart BY <1>0, <1>5 DEF Restart, ClearRegistry
<1>6. CASE /\ UNCHANGED <<connections, handler, sock, session>>
           /\ \A r \in Requests : pc'[r] \in {"sending", "waiting"} => pc'[r] = pc[r]
  BY <1>0, <1>6
<1> QED BY <1>0, <1>1, <1>2, <1>3, <1>4, <1>5, <1>6, SessionSteps

(* The sessions that commands are sent on are sessions of SessionLife, as   *)
(* those of NodePresence are.                                               *)
THEOREM SessionsLive == Spec => Life!Safety
<1>1. Init => SessionInv /\ Life!Init
  BY DEF Init, RegistryInit, SessionInv, IsConnected, HandlerOf, Life!Init,
         Life!RegistryInit
<1>2. IInv /\ SessionInv /\ [Next]_vars => SessionInv'
  BY SessionStep
<1>3. ASSUME IInv, SessionInv, [Next]_vars
      PROVE  Life!Next \/ UNCHANGED Life!lifeVars
  <2>0. TypeOK BY <1>3 DEF IInv
  <2> USE <1>3, <2>0, SessionsAssumption, NoneAssumption, RequestsAssumption
      DEF TypeOK, RegistryType, HandlerOf, sessionVars
  <2>1. ASSUME NEW r \in Requests, StartCommand(r) \/ SendReturns(r)
        PROVE  UNCHANGED Life!lifeVars
    BY <2>1 DEF StartCommand, SendReturns, Life!lifeVars
  <2>2. ASSUME NEW r \in Requests, SendFails(r) PROVE Life!Next
    <3>1. session[r] \in Sessions /\ NodeOf[session[r]] = NodeFor[r]
      BY <2>2 DEF SendFails, SessionInv
    <3>2. Life!Disconnect(NodeFor[r], None)
      BY <2>2 DEF SendFails, Drop, Disconnect, Removes, IsConnected,
                  Life!Disconnect, Life!Removes, Life!IsConnected
    <3>3. Life!SendFails(NodeFor[r])
      BY <2>2, <3>1, <3>2 DEF SendFails, Life!SendFails
    <3>4. NodeFor[r] \in Nodes OBVIOUS
    <3> QED BY <3>3, <3>4 DEF Life!Next
  <2>3. ASSUME NEW s \in Sessions, Session(s) PROVE Life!Next
    <3>1. CASE Arrive(s)
      <4>1. ~Life!Registered(s)
        BY <3>1 DEF Arrive, SessionInv, IsConnected, Life!Registered
      <4>2. Life!Arrive(s)
        BY <3>1, <4>1 DEF Arrive, TakesSocket, Connect, Life!Arrive, Life!Connect
      <4> QED BY <4>2 DEF Life!Next
    <3>2. CASE Greeted(s)
      <4>1. Life!Greeted(s) BY <3>2 DEF Greeted, Life!Greeted
      <4> QED BY <4>1 DEF Life!Next
    <3>3. CASE GreetingFails(s)
      <4>1. Life!GreetingFails(s) BY <3>3 DEF GreetingFails, Life!GreetingFails
      <4> QED BY <4>1 DEF Life!Next
    <3>4. CASE HandlerExits(s)
      <4>1. Life!HandlerExits(s)
        BY <3>4 DEF HandlerExits, Drop, Disconnect, Removes, IsConnected,
                    Life!HandlerExits, Life!Disconnect, Life!Removes, Life!IsConnected
      <4> QED BY <4>1 DEF Life!Next
    <3>5. CASE SocketLost(s)
      <4>1. Life!SocketLost(s) BY <3>5 DEF SocketLost, Life!SocketLost
      <4> QED BY <4>1 DEF Life!Next
    <3> QED BY <2>3, <3>1, <3>2, <3>3, <3>4, <3>5 DEF Session
  <2>4. CASE Restart
    <3>1. Life!Restart
      BY <2>4 DEF Restart, ClearRegistry, Life!Restart, Life!ClearRegistry
    <3> QED BY <3>1 DEF Life!Next
  <2>5. CASE UNCHANGED <<connections, handler, sock, session>>
    BY <2>5 DEF Life!lifeVars
  <2> QED BY <2>1, <2>2, <2>3, <2>4, <2>5, SessionSteps
<1>4. IInv /\ SessionInv /\ [Next]_vars => [Life!Next]_(Life!lifeVars)
  BY <1>3
<1> QED BY <1>1, <1>2, <1>4, Inductive, PTL DEF Spec, Life!Safety

LifeFacts == INSTANCE SessionLifeProofs WITH handler <- HandlerOf

(* A socket that works is served, and a session with such a socket loses    *)
(* its entry in no other way than a session of SessionLife does.            *)
THEOREM EntriesAreTaken == Spec => []Life!OpenIsServed /\ Life!EntryIsTaken
<1>1. Life!Safety => []Life!OpenIsServed /\ Life!EntryIsTaken
  BY LifeFacts!OpenSocketsAreServed, LifeFacts!EntriesAreTaken,
     SessionsAssumption, NoneAssumption
     DEF Life!Safety, Life!Init, Life!RegistryInit, Life!Next,
         Life!lifeVars, Life!Arrive, Life!Greeted, Life!GreetingFails,
         Life!HandlerExits, Life!SocketLost, Life!SendFails, Life!Restart,
         Life!Registered, Life!Connect, Life!Disconnect, Life!Removes,
         Life!IsConnected, Life!ClearRegistry, Life!OpenIsServed,
         Life!EntryIsTaken,
         LifeFacts!Safety, LifeFacts!Init, LifeFacts!RegistryInit,
         LifeFacts!Next, LifeFacts!lifeVars, LifeFacts!Arrive,
         LifeFacts!Greeted, LifeFacts!GreetingFails, LifeFacts!HandlerExits,
         LifeFacts!SocketLost, LifeFacts!SendFails, LifeFacts!Restart,
         LifeFacts!Registered, LifeFacts!Connect, LifeFacts!Disconnect,
         LifeFacts!Removes, LifeFacts!IsConnected, LifeFacts!ClearRegistry,
         LifeFacts!OpenIsServed, LifeFacts!EntryIsTaken
<1> QED BY <1>1, SessionsLive
=============================================================================
