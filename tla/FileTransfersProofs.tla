------------------------- MODULE FileTransfersProofs ------------------------
(* Theorems about FileTransfers, for any nodes, sessions and transfers, any *)
(* size of the pool and any number of faults.                               *)
EXTENDS FileTransfers, TLAPS

(* What a transfer has at each stage: a row from its insert on, a session   *)
(* and a future from its start on, and at the end a row that fits its       *)
(* answer.                                                                  *)
StageInv(t) ==
    /\ pc[t] = "idle" => row[t] = "none"
    /\ pc[t] \notin {"idle", "written", "answered", "gone"} => row[t] = "pending"
    /\ answer[t] # "none" <=> pc[t] = "answered"
    /\ pc[t] \in {"idle", "inserted", "refreshing"} => fut[t] = "none" /\ wire[t] = "none"
    /\ pc[t] \in {"sending", "waiting", "returned", "written"} => fut[t] # "none"
    /\ pc[t] \in {"returned", "written"} => fut[t] # "pending"
    /\ pc[t] \in {"sending", "waiting"} => session[t] \in Sessions
    /\ pc[t] = "written" => row[t] = IF fut[t] = "done" THEN "completed" ELSE "failed"
    /\ pc[t] = "gone" => row[t] \in {"pending", "completed", "failed"}
    /\ row[t] = "completed" => fut[t] = "done"
    /\ pc[t] = "answered" =>
           \/ row[t] = "completed" /\ answer[t] = "done" /\ fut[t] = "done"
           \/ row[t] = "failed" /\ answer[t] = "failed"
           \/ row[t] = "pending" /\ answer[t] = "error"

(* A future is only done by a report of the transfer's own that went        *)
(* through the handler.                                                     *)
ReportInv(t) ==
    /\ fut[t] = "done" => t \in received /\ wire[t] \in {"done", "blank"}
    /\ t \in received => wire[t] \in Reports(t)

(* A session is registered for its own node.                                *)
Placed == \A n \in Nodes : IsConnected(n) => NodeOf[connections[n]] = n

IInv ==
    /\ TypeOK
    /\ Placed
    /\ NoStuckTransfer
    /\ \A t \in Transfers : StageInv(t) /\ ReportInv(t)

-----------------------------------------------------------------------------
(* FailedFutures changes pending futures only, and only to "lost".          *)
LEMMA FailedFuturesLose ==
    ASSUME TypeOK, NEW S
    PROVE /\ FailedFutures(S) \in
               [Transfers -> {"none", "pending", "done", "error", "lost", "timeout"}]
          /\ \A t \in Transfers :
                FailedFutures(S)[t] # fut[t]
                  => IsPending(t) /\ session[t] \in S /\ FailedFutures(S)[t] = "lost"
          /\ \A t \in Transfers :
                IsPending(t) /\ session[t] \in S => FailedFutures(S)[t] = "lost"
  BY DEF TypeOK, FailedFutures, IsPending

(* The variables keep their types.                                          *)
LEMMA TypeStep == ASSUME IInv, [Next]_vars PROVE TypeOK'
<1> USE SessionsAssumption, NoneAssumption, TransfersAssumption
    DEF TransfersAssumption, TypeOK, RegistryType, Directions, sessionVars, callVars,
        nodeVars, Goto
<1>0. TypeOK /\ \A t \in Transfers : StageInv(t) BY DEF IInv
<1>1. ASSUME NEW t \in Transfers, Insert(t) \/ Refresh(t) PROVE TypeOK'
  BY <1>0, <1>1 DEF Insert, Refresh
<1>2. ASSUME NEW t \in Transfers, PoolTimesOut(t) PROVE TypeOK'
  BY <1>0, <1>2 DEF PoolTimesOut, Abandon
<1>3. ASSUME NEW t \in Transfers, DatabaseFails(t) PROVE TypeOK'
  <2>1. faults' \in 0..MaxFaults BY <1>0, <1>3 DEF DatabaseFails
  <2> QED BY <1>0, <1>3, <2>1 DEF DatabaseFails, Abandon
<1>4. ASSUME NEW t \in Transfers, Refuse(t) PROVE TypeOK'
  BY <1>0, <1>4 DEF Refuse, Finish
<1>5. ASSUME NEW t \in Transfers, StartTransfer(t) PROVE TypeOK'
  BY <1>0, <1>5 DEF StartTransfer, IsConnected
<1>6. ASSUME NEW t \in Transfers, SendReturns(t) PROVE TypeOK'
  BY <1>0, <1>6 DEF SendReturns
<1>7. ASSUME NEW t \in Transfers, SendFails(t) PROVE TypeOK'
  BY <1>0, <1>7, FailedFuturesLose DEF SendFails, Drop, Disconnect
<1>8. ASSUME NEW t \in Transfers, Wake(t) \/ TimesOut(t) PROVE TypeOK'
  BY <1>0, <1>8 DEF Wake, TimesOut, Finish
<1>9. ASSUME NEW t \in Transfers, WriteRow(t) \/ Respond(t) PROVE TypeOK'
  BY <1>0, <1>9 DEF WriteRow, Respond
<1>10. ASSUME NEW t \in Transfers, AgentReports(t) PROVE TypeOK'
  BY <1>0, <1>10 DEF AgentReports, Reports
<1>11. ASSUME NEW t \in Transfers, ReceiveReport(t) PROVE TypeOK'
  BY <1>0, <1>11 DEF ReceiveReport, Reports, AsRead
<1>12. ASSUME NEW s \in Sessions, Arrive(s) PROVE TypeOK'
  BY <1>0, <1>12, FailedFuturesLose DEF Arrive, TakesSocket, Connect
<1>13. ASSUME NEW s \in Sessions, Greeted(s) \/ GreetingFails(s) \/ SocketLost(s)
       PROVE TypeOK'
  BY <1>0, <1>13 DEF Greeted, GreetingFails, SocketLost
<1>14. ASSUME NEW s \in Sessions, HandlerExits(s) PROVE TypeOK'
  BY <1>0, <1>14, FailedFuturesLose DEF HandlerExits, Drop, Disconnect
<1>15. CASE Restart
  <2>1. faults' \in 0..MaxFaults BY <1>0, <1>15 DEF Restart
  <2> QED BY <1>0, <1>15, <2>1 DEF Restart, ClearRegistry
<1>16. CASE UNCHANGED vars BY <1>0, <1>16 DEF vars
<1> QED
  BY <1>1, <1>2, <1>3, <1>4, <1>5, <1>6, <1>7, <1>8, <1>9, <1>10, <1>11, <1>12,
     <1>13, <1>14, <1>15, <1>16 DEF Next, Endpoint, Session

(* Sessions stay with their nodes, and a dropped session's pending futures  *)
(* are failed in the same step.                                             *)
LEMMA RegistryStep == ASSUME IInv, [Next]_vars PROVE Placed' /\ NoStuckTransfer'
<1> USE SessionsAssumption, NoneAssumption, TransfersAssumption
    DEF TransfersAssumption, TypeOK, RegistryType, Placed, NoStuckTransfer, IsPending,
        IsConnected, sessionVars, callVars, nodeVars, Goto
<1> DEFINE Goal == Placed /\ NoStuckTransfer
<1>0. TypeOK /\ Goal /\ \A t \in Transfers : StageInv(t) BY DEF IInv
<1>1. ASSUME NEW t \in Transfers, Insert(t) \/ Refresh(t) PROVE Goal'
  BY <1>0, <1>1 DEF Insert, Refresh
<1>2. ASSUME NEW t \in Transfers, PoolTimesOut(t) \/ DatabaseFails(t) PROVE Goal'
  BY <1>0, <1>2 DEF PoolTimesOut, DatabaseFails, Abandon
<1>3. ASSUME NEW t \in Transfers, Refuse(t) \/ Wake(t) \/ TimesOut(t) PROVE Goal'
  BY <1>0, <1>3 DEF Refuse, Wake, TimesOut, Finish
<1>4. ASSUME NEW t \in Transfers, StartTransfer(t) PROVE Goal'
  BY <1>0, <1>4 DEF StartTransfer
<1>5. ASSUME NEW t \in Transfers, SendReturns(t) \/ WriteRow(t) \/ Respond(t)
      PROVE Goal'
  BY <1>0, <1>5 DEF SendReturns, WriteRow, Respond
<1>6. ASSUME NEW t \in Transfers, SendFails(t) PROVE Goal'
  BY <1>0, <1>6, FailedFuturesLose DEF SendFails, Drop, Disconnect, Removes
<1>7. ASSUME NEW t \in Transfers, AgentReports(t) PROVE Goal'
  BY <1>0, <1>7 DEF AgentReports
<1>8. ASSUME NEW t \in Transfers, ReceiveReport(t) PROVE Goal'
  BY <1>0, <1>8 DEF ReceiveReport, AsRead
<1>9. ASSUME NEW s \in Sessions, Arrive(s) PROVE Goal'
  <2>1. Placed' BY <1>0, <1>9 DEF Arrive, TakesSocket, Connect
  <2>2. ASSUME NEW t \in Transfers, IsPending(t)' PROVE (connections[NodeFor[t]] = session[t])'
    <3>1. IsPending(t) /\ session[t] \in Sessions /\ connections[NodeFor[t]] = session[t]
      BY <1>0, <1>9, <2>2, FailedFuturesLose DEF Arrive, StageInv
    <3>2. session[t] \notin {connections[NodeOf[s]]} \ {None}
      BY <1>0, <1>9, <2>2, <3>1, FailedFuturesLose DEF Arrive
    <3> QED BY <1>0, <1>9, <3>1, <3>2 DEF Arrive, TakesSocket, Connect
  <2> QED BY <2>1, <2>2
<1>10. ASSUME NEW s \in Sessions, Greeted(s) \/ GreetingFails(s) \/ SocketLost(s)
       PROVE Goal'
  BY <1>0, <1>10 DEF Greeted, GreetingFails, SocketLost
<1>11. ASSUME NEW s \in Sessions, HandlerExits(s) PROVE Goal'
  BY <1>0, <1>11, FailedFuturesLose DEF HandlerExits, Drop, Disconnect, Removes
<1>12. CASE Restart BY <1>0, <1>12 DEF Restart, ClearRegistry
<1>13. CASE UNCHANGED vars BY <1>0, <1>13 DEF vars
<1> QED
  BY <1>1, <1>2, <1>3, <1>4, <1>5, <1>6, <1>7, <1>8, <1>9, <1>10, <1>11, <1>12,
     <1>13 DEF Next, Endpoint, Session

(* The stages of a transfer, and whose report its future holds.             *)
LEMMA TransferStep ==
    ASSUME IInv, [Next]_vars, NEW u \in Transfers PROVE StageInv(u)' /\ ReportInv(u)'
<1> USE SessionsAssumption, NoneAssumption, TransfersAssumption
    DEF TransfersAssumption, TypeOK, RegistryType, StageInv, ReportInv, Directions,
        IsPending, IsConnected, Reports, sessionVars, callVars, nodeVars, Goto
<1> DEFINE Goal == StageInv(u) /\ ReportInv(u)
<1>0. TypeOK /\ \A t \in Transfers : StageInv(t) /\ ReportInv(t) BY DEF IInv
<1>1. ASSUME NEW t \in Transfers, Insert(t) \/ Refresh(t) PROVE Goal'
  BY <1>0, <1>1 DEF Insert, Refresh
<1>2. ASSUME NEW t \in Transfers, PoolTimesOut(t) \/ DatabaseFails(t) PROVE Goal'
  BY <1>0, <1>2 DEF PoolTimesOut, DatabaseFails, Abandon
<1>3. ASSUME NEW t \in Transfers, Refuse(t) \/ Wake(t) \/ TimesOut(t) PROVE Goal'
  BY <1>0, <1>3 DEF Refuse, Wake, TimesOut, Finish
<1>4. ASSUME NEW t \in Transfers, StartTransfer(t) PROVE Goal'
  BY <1>0, <1>4 DEF StartTransfer
<1>5. ASSUME NEW t \in Transfers, SendReturns(t) \/ WriteRow(t) \/ Respond(t)
      PROVE Goal'
  BY <1>0, <1>5 DEF SendReturns, WriteRow, Respond
<1>6. ASSUME NEW t \in Transfers, SendFails(t) PROVE Goal'
  BY <1>0, <1>6, FailedFuturesLose DEF SendFails, Drop
<1>7. ASSUME NEW t \in Transfers, AgentReports(t) PROVE Goal'
  BY <1>0, <1>7 DEF AgentReports, Reports
<1>8. ASSUME NEW t \in Transfers, ReceiveReport(t) PROVE Goal'
  BY <1>0, <1>8 DEF ReceiveReport, AsRead, Reports
<1>9. ASSUME NEW s \in Sessions, Arrive(s) PROVE Goal'
  BY <1>0, <1>9, FailedFuturesLose DEF Arrive
<1>10. ASSUME NEW s \in Sessions, Greeted(s) \/ GreetingFails(s) \/ SocketLost(s)
       PROVE Goal'
  BY <1>0, <1>10 DEF Greeted, GreetingFails, SocketLost
<1>11. ASSUME NEW s \in Sessions, HandlerExits(s) PROVE Goal'
  BY <1>0, <1>11, FailedFuturesLose DEF HandlerExits, Drop
<1>12. CASE Restart BY <1>0, <1>12 DEF Restart
<1>13. CASE UNCHANGED vars BY <1>0, <1>13 DEF vars
<1> QED
  BY <1>1, <1>2, <1>3, <1>4, <1>5, <1>6, <1>7, <1>8, <1>9, <1>10, <1>11, <1>12,
     <1>13 DEF Next, Endpoint, Session

(* Everything above holds in every state.                                   *)
LEMMA Inductive == Spec => []IInv
<1>1. Init => IInv
  <2> SUFFICES ASSUME Init PROVE IInv
    OBVIOUS
  <2>1. TypeOK
    BY TransfersAssumption DEF TransfersAssumption, Init, TypeOK, RegistryInit, RegistryType
  <2>2. Placed /\ NoStuckTransfer
    BY DEF Init, RegistryInit, Placed, IsConnected, NoStuckTransfer, IsPending
  <2>3. \A t \in Transfers : StageInv(t) /\ ReportInv(t)
    BY DEF Init, StageInv, ReportInv
  <2> QED BY <2>1, <2>2, <2>3 DEF IInv
<1>2. IInv /\ [Next]_vars => IInv'
  <2> SUFFICES ASSUME IInv, [Next]_vars PROVE IInv'
    OBVIOUS
  <2>1. TypeOK' /\ Placed' /\ NoStuckTransfer' BY TypeStep, RegistryStep
  <2>2. \A t \in Transfers : StageInv(t)' /\ ReportInv(t)' BY TransferStep
  <2> QED BY <2>1, <2>2 DEF IInv
<1> QED BY <1>1, <1>2, PTL DEF Spec

-----------------------------------------------------------------------------
(* The variables of every step keep their types.                            *)
THEOREM TypeCorrect == Spec => []TypeOK
<1>1. IInv => TypeOK BY DEF IInv
<1> QED BY <1>1, Inductive, PTL

(* A pending future belongs to the session registered for its node.         *)
THEOREM TransfersAreNotStuck == Spec => []NoStuckTransfer
<1>1. IInv => NoStuckTransfer BY DEF IInv
<1> QED BY <1>1, Inductive, PTL

(* Row and answer of a transfer agree with each other and with the node's   *)
(* report.                                                                  *)
THEOREM RowsTell == Spec => []RowTellsOutcome
<1>1. IInv => RowTellsOutcome
  BY DEF IInv, TypeOK, StageInv, ReportInv, RowTellsOutcome
<1> QED BY <1>1, Inductive, PTL

(* The end of a session fails what waits on it, and nothing else.           *)
THEOREM ExitIsOwn == Spec => ExitSparesOthers
<1> DEFINE Spares ==
      \A s \in Sessions : handler[s] = "serving" /\ handler'[s] = "ended" =>
          \A t \in Transfers :
              IsPending(t) /\ pc'[t] = pc[t] => (fut'[t] = "pending" <=> session[t] # s)
<1>1. ASSUME IInv, Next, NEW s \in Sessions, handler[s] = "serving",
             handler'[s] = "ended", NEW t \in Transfers, IsPending(t), pc'[t] = pc[t]
      PROVE  fut'[t] = "pending" <=> session[t] # s
  <2> USE <1>1, SessionsAssumption, NoneAssumption, TransfersAssumption
      DEF TransfersAssumption, IInv, TypeOK, RegistryType, sessionVars, callVars
  <2>1. CASE Restart
    BY <2>1 DEF Restart, IsPending
  <2>2. CASE HandlerExits(s)
    <3>1. connections[NodeFor[t]] = session[t] /\ session[t] \in Sessions
      BY DEF NoStuckTransfer, StageInv, IsPending
    <3>2. NodeOf[session[t]] = NodeFor[t]
      BY <3>1 DEF Placed, IsConnected
    <3>3. session[t] = s <=> Removes(NodeOf[s], s) /\ connections[NodeOf[s]] = session[t]
      BY <3>1, <3>2 DEF Removes, IsConnected
    <3> QED BY <2>2, <3>3 DEF HandlerExits, Drop, FailedFutures, IsPending, Removes
  <2>3. ASSUME NEW x \in Sessions, x # s, Session(x) PROVE FALSE
    BY <2>3 DEF Session, Arrive, Greeted, GreetingFails, HandlerExits, SocketLost
  <2>4. ASSUME Arrive(s) \/ Greeted(s) \/ GreetingFails(s) \/ SocketLost(s) PROVE FALSE
    BY <2>4 DEF Arrive, Greeted, GreetingFails, SocketLost
  <2>5. ASSUME NEW x \in Transfers,
               \/ Insert(x) \/ Endpoint(x) \/ DatabaseFails(x)
               \/ AgentReports(x) \/ ReceiveReport(x)
        PROVE FALSE
    BY <2>5 DEF Insert, Endpoint, Refresh, PoolTimesOut, DatabaseFails, Abandon, Refuse,
                Finish, StartTransfer, SendReturns, SendFails, Wake, TimesOut, WriteRow,
                Respond, AgentReports, ReceiveReport
  <2> QED BY <2>1, <2>2, <2>3, <2>4, <2>5 DEF Next, Session
<1>2. IInv /\ [Next]_vars => [Spares]_vars
  BY <1>1
<1> QED BY <1>2, Inductive, PTL DEF Spec, ExitSparesOthers

-----------------------------------------------------------------------------
(* FileTransfers implements the safety part of CommandContract: a transfer  *)
(* is admitted by its insert, run by the agent's report, and learnt of and  *)
(* closed in the one step that answers it, and cut off by a restart.        *)
THEOREM ImplementsContract == Spec => KeepsContract
<1> USE DEF sessionVars, callVars, nodeVars, Goto
<1>1. Init => Contract!Init
  BY DEF Init, Reports, Contract!Init, StageOf, AnswerOf, OutcomeOf
<1>2. ASSUME IInv, [Next]_vars PROVE [Contract!Next]_(Contract!contractVars)
  <2> DEFINE Goal == Contract!Next \/ UNCHANGED Contract!contractVars
  <2>0. TypeOK /\ \A t \in Transfers : StageInv(t) /\ ReportInv(t) BY <1>2 DEF IInv
  <2>1. ASSUME NEW t \in Transfers, Insert(t) PROVE Contract!Next
    <3>1. Contract!Admit({t})
      BY <2>0, <2>1 DEF Insert, TypeOK, StageOf, AnswerOf, OutcomeOf, Contract!Admit
    <3> QED BY <3>1 DEF Contract!Next
  <2>2. ASSUME NEW t \in Transfers, NEW a \in {"done", "failed", "error"},
               pc[t] \in {"inserted", "refreshing", "returned", "written"},
               Goto(t, "answered"),
               a = "done" => wire[t] \in {"done", "blank"},
               answer' = [answer EXCEPT ![t] = a], UNCHANGED wire
        PROVE Contract!Next
    <3>1. StageOf[t] = "open" /\ AnswerOf[t] = "none"
      BY <2>0, <2>2 DEF TypeOK, StageInv, StageOf, AnswerOf
    <3>2. StageOf' = [StageOf EXCEPT ![t] = "closed"]
      BY <2>0, <2>2 DEF TypeOK, StageOf
    <3>3. OutcomeOf' = OutcomeOf BY <2>2 DEF OutcomeOf
    <3> DEFINE told == IF a = "done" THEN OutcomeOf[t] ELSE "unavailable"
    <3>4. AnswerOf' = [AnswerOf EXCEPT ![t] = told]
      BY <2>0, <2>2 DEF TypeOK, AnswerOf, OutcomeOf
    <3>5. told \in Contract!Excuses \cup ({"done", "misread"} \cap {OutcomeOf[t]})
      BY <2>2 DEF Contract!Excuses, OutcomeOf
    <3> HIDE DEF told
    <3>6. Contract!Learn(t) BY <3>1, <3>2, <3>3, <3>4, <3>5 DEF Contract!Learn
    <3> QED BY <3>6 DEF Contract!Next
  <2>3. ASSUME NEW t \in Transfers, PoolTimesOut(t) \/ DatabaseFails(t)
        PROVE Contract!Next
    BY <2>2, <2>3 DEF PoolTimesOut, DatabaseFails, Abandon
  <2>4. ASSUME NEW t \in Transfers, Respond(t) PROVE Contract!Next
    <3>1. fut[t] = "done" => wire[t] \in {"done", "blank"}
      BY <2>0 DEF ReportInv
    <3> QED BY <2>2, <2>4, <3>1 DEF Respond
  <2>5. ASSUME NEW t \in Transfers, AgentReports(t) PROVE Goal
    <3>1. PICK rep \in Reports(t) : wire' = [wire EXCEPT ![t] = rep]
      BY <2>5 DEF AgentReports
    <3>2. StageOf[t] # "idle" /\ OutcomeOf[t] = "none"
      BY <2>0, <2>5 DEF AgentReports, Reports, StageInv, StageOf, OutcomeOf
    <3>3. answer[t] # "done"
      BY <2>0, <2>5 DEF AgentReports, Reports, StageInv, ReportInv
    <3>4. UNCHANGED <<StageOf, AnswerOf>>
      BY <2>0, <2>5, <3>1, <3>3 DEF TypeOK, AgentReports, StageOf, AnswerOf
    <3> DEFINE told == IF rep = "done" THEN "done" ELSE "misread"
    <3>5. CASE rep \in {"done", "blank"}
      <4>1. OutcomeOf' = [OutcomeOf EXCEPT ![t] = told]
        BY <2>0, <3>1, <3>5 DEF TypeOK, OutcomeOf
      <4> QED BY <3>2, <3>4, <4>1 DEF Contract!Run, Contract!Next
    <3>6. CASE rep \notin {"done", "blank"}
      <4>1. OutcomeOf' = OutcomeOf
        BY <2>0, <2>5, <3>1, <3>6 DEF TypeOK, AgentReports, Reports, OutcomeOf
      <4> QED BY <3>4, <4>1 DEF Contract!contractVars
    <3> QED BY <3>5, <3>6
  <2>6. ASSUME NEW t \in Transfers,
               \/ Refresh(t) \/ Refuse(t) \/ SendReturns(t) \/ SendFails(t)
               \/ Wake(t) \/ TimesOut(t) \/ WriteRow(t) \/ ReceiveReport(t)
        PROVE UNCHANGED Contract!contractVars
    BY <2>0, <2>6 DEF TypeOK, Refresh, Refuse, SendReturns, SendFails, Wake, TimesOut,
       Finish, WriteRow, ReceiveReport, StageOf, AnswerOf, OutcomeOf, Contract!contractVars
  <2>7. ASSUME NEW t \in Transfers, StartTransfer(t)
        PROVE UNCHANGED Contract!contractVars
    BY <2>0, <2>7 DEF TypeOK, StartTransfer, StageInv, Reports, StageOf, AnswerOf,
       OutcomeOf, Contract!contractVars
  <2>8. ASSUME NEW s \in Sessions, Session(s) PROVE UNCHANGED Contract!contractVars
    BY <2>8 DEF Session, Arrive, Greeted, GreetingFails, HandlerExits, SocketLost,
       StageOf, AnswerOf, OutcomeOf, Contract!contractVars
  <2>9. CASE Restart
    <3> DEFINE underWay == {t \in Transfers : StageOf[t] = "open"}
    <3>1. Contract!Cut(underWay)
      BY <2>0, <2>9 DEF TypeOK, Restart, StageOf, AnswerOf, OutcomeOf, Contract!Cut
    <3> HIDE DEF underWay
    <3>2. underWay \in SUBSET Transfers BY DEF underWay
    <3> QED BY <3>1, <3>2 DEF Contract!Next
  <2>10. CASE UNCHANGED vars
    BY <2>10 DEF vars, StageOf, AnswerOf, OutcomeOf, Contract!contractVars
  <2> QED
    BY <1>2, <2>1, <2>3, <2>4, <2>5, <2>6, <2>7, <2>8, <2>9, <2>10 DEF Next, Endpoint
<1>3. IInv /\ [Next]_vars => [Contract!Next]_(Contract!contractVars)
  BY <1>2
<1> QED BY <1>1, <1>3, Inductive, PTL DEF Spec, KeepsContract, Contract!Safety

-----------------------------------------------------------------------------
(* What follows from the contract for a caller.                             *)

ContractInv ==
    /\ StageOf \in [Transfers -> {"idle", "open", "closed", "cut"}]
    /\ AnswerOf \in [Transfers -> Contract!Excuses \cup {"done", "misread"} \cup {"none"}]
    /\ OutcomeOf \in [Transfers -> {"done", "misread"} \cup {"none"}]
    /\ Contract!AnswersAreOwn

(* What a request has got it keeps, and its answer is its own outcome or an *)
(* excuse, whatever step the contract takes.                                *)
LEMMA ContractStep ==
    ASSUME ContractInv, [Contract!Next]_(Contract!contractVars)
    PROVE  /\ ContractInv'
           /\ \A r \in Transfers :
                 /\ AnswerOf[r] # "none" => AnswerOf'[r] = AnswerOf[r]
                 /\ OutcomeOf[r] # "none" => OutcomeOf'[r] = OutcomeOf[r]
                 /\ StageOf[r] \in {"closed", "cut"} => StageOf'[r] = StageOf[r]
<1> DEFINE Kept == \A r \in Transfers :
                 /\ AnswerOf[r] # "none" => AnswerOf'[r] = AnswerOf[r]
                 /\ OutcomeOf[r] # "none" => OutcomeOf'[r] = OutcomeOf[r]
                 /\ StageOf[r] \in {"closed", "cut"} => StageOf'[r] = StageOf[r]
<1> USE DEF ContractInv, Contract!AnswersAreOwn, Contract!contractVars, Contract!Excuses
<1>1. ASSUME NEW R \in SUBSET Transfers, Contract!Admit(R) \/ Contract!Close(R) \/ Contract!Cut(R)
      PROVE  ContractInv' /\ Kept
  BY <1>1 DEF Contract!Admit, Contract!Close, Contract!Cut
<1>2. ASSUME NEW r \in Transfers, Contract!Learn(r) PROVE ContractInv' /\ Kept
  <2>1. PICK a \in Contract!Excuses \cup ({"done", "misread"} \cap {OutcomeOf[r]}) :
           AnswerOf' = [AnswerOf EXCEPT ![r] = a]
    BY <1>2 DEF Contract!Learn
  <2>2. a # "none" OBVIOUS
  <2> QED BY <1>2, <2>1, <2>2 DEF Contract!Learn
<1>3. ASSUME NEW r \in Transfers, NEW o \in {"done", "misread"}, Contract!Run(r, o)
      PROVE  ContractInv' /\ Kept
  BY <1>3 DEF Contract!Run
<1>4. CASE UNCHANGED Contract!contractVars
  BY <1>4
<1> QED BY <1>1, <1>2, <1>3, <1>4 DEF Contract!Next

(* A caller is told success only of his own transfer and only if its node   *)
(* reported it, or reported an error without a text, and a failure          *)
(* otherwise; neither is taken back by a late report, a reconnect or a      *)
(* restart.                                                                 *)
THEOREM AnswersAreOwnAndFinal ==
    Spec => []Contract!AnswersAreOwn /\ Contract!AnswersAreFinal
<1>1. Contract!Init => ContractInv
  BY DEF Contract!Init, ContractInv, Contract!AnswersAreOwn
<1>2. ContractInv /\ [Contract!Next]_(Contract!contractVars) => ContractInv'
  BY ContractStep
<1>3. ContractInv /\ [Contract!Next]_(Contract!contractVars) =>
        [\A r \in Transfers :
            /\ AnswerOf[r] # "none" => AnswerOf'[r] = AnswerOf[r]
            /\ OutcomeOf[r] # "none" => OutcomeOf'[r] = OutcomeOf[r]
            /\ StageOf[r] \in {"closed", "cut"} => StageOf'[r] = StageOf[r]]_(Contract!contractVars)
  BY ContractStep
<1>4. ContractInv => Contract!AnswersAreOwn
  BY DEF ContractInv
<1> QED BY <1>1, <1>2, <1>3, <1>4, ImplementsContract, PTL
        DEF KeepsContract, Contract!Safety, Contract!AnswersAreFinal

-----------------------------------------------------------------------------
(* A registered session has arrived, and a transfer is sent on a session of *)
(* its own node.                                                            *)
SessionInv ==
    /\ \A n \in Nodes : IsConnected(n) => handler[connections[n]] # "new"
    /\ \A t \in Transfers :
           pc[t] \in {"sending", "waiting"} => NodeOf[session[t]] = NodeFor[t]

(* What the sessions see of a step: a lookup, a send that fails, a step of  *)
(* their own, a restart, or nothing but the end of a transfer.              *)
LEMMA SessionSteps ==
    ASSUME TypeOK, [Next]_vars
    PROVE  \/ \E t \in Transfers : StartTransfer(t) \/ SendReturns(t) \/ SendFails(t)
           \/ \E s \in Sessions : Session(s)
           \/ Restart
           \/ /\ UNCHANGED <<connections, handler, sock, session>>
              /\ \A t \in Transfers :
                    pc'[t] \in {"sending", "waiting"} => pc'[t] = pc[t]
<1> USE DEF TypeOK, sessionVars, callVars, nodeVars, Goto
<1> DEFINE Still ==
      /\ UNCHANGED <<connections, handler, sock, session>>
      /\ \A t \in Transfers : pc'[t] \in {"sending", "waiting"} => pc'[t] = pc[t]
<1>1. ASSUME NEW t \in Transfers, Insert(t) PROVE Still
  BY <1>1 DEF Insert
<1>2. ASSUME NEW t \in Transfers, Endpoint(t)
      PROVE  StartTransfer(t) \/ SendReturns(t) \/ SendFails(t) \/ Still
  BY <1>2 DEF Endpoint, Refresh, PoolTimesOut, Abandon, Refuse, Wake, TimesOut, Finish,
              WriteRow, Respond
<1>3. ASSUME NEW t \in Transfers,
             DatabaseFails(t) \/ AgentReports(t) \/ ReceiveReport(t)
      PROVE  Still
  BY <1>3 DEF DatabaseFails, Abandon, AgentReports, ReceiveReport
<1>4. CASE UNCHANGED vars BY <1>4 DEF vars
<1> QED BY <1>1, <1>2, <1>3, <1>4 DEF Next

LEMMA SessionStep == ASSUME IInv, SessionInv, [Next]_vars PROVE SessionInv'
<1> USE SessionsAssumption, NoneAssumption, TransfersAssumption
    DEF TransfersAssumption, SessionInv, Placed, TypeOK, RegistryType, IsConnected,
        sessionVars, Goto
<1>0. TypeOK /\ Placed BY DEF IInv
<1>1. ASSUME NEW t \in Transfers, StartTransfer(t) PROVE SessionInv'
  BY <1>0, <1>1 DEF StartTransfer
<1>2. ASSUME NEW t \in Transfers, SendReturns(t) PROVE SessionInv'
  BY <1>0, <1>2 DEF SendReturns
<1>3. ASSUME NEW t \in Transfers, SendFails(t) PROVE SessionInv'
  BY <1>0, <1>3 DEF SendFails, Drop, Disconnect, Removes
<1>4. ASSUME NEW s \in Sessions, Session(s) PROVE SessionInv'
  <2>1. CASE Arrive(s) BY <1>0, <2>1 DEF Arrive, Connect
  <2>2. CASE Greeted(s) \/ GreetingFails(s) \/ SocketLost(s)
    BY <1>0, <2>2 DEF Greeted, GreetingFails, SocketLost, callVars
  <2>3. CASE HandlerExits(s)
    BY <1>0, <2>3 DEF HandlerExits, Drop, Disconnect, Removes
  <2> QED BY <1>4, <2>1, <2>2, <2>3 DEF Session
<1>5. CASE Restart BY <1>0, <1>5 DEF Restart, ClearRegistry
<1>6. CASE /\ UNCHANGED <<connections, handler, sock, session>>
           /\ \A t \in Transfers : pc'[t] \in {"sending", "waiting"} => pc'[t] = pc[t]
  BY <1>0, <1>6
<1> QED BY <1>0, <1>1, <1>2, <1>3, <1>4, <1>5, <1>6, SessionSteps

(* The sessions that files are sent on are sessions of SessionLife, as      *)
(* those of NodePresence are.                                               *)
THEOREM SessionsLive == Spec => Life!Safety
<1>1. Init => SessionInv /\ Life!Init
  BY DEF Init, RegistryInit, SessionInv, IsConnected, HandlerOf, Life!Init,
         Life!RegistryInit
<1>2. IInv /\ SessionInv /\ [Next]_vars => SessionInv'
  BY SessionStep
<1>3. ASSUME IInv, SessionInv, [Next]_vars
      PROVE  Life!Next \/ UNCHANGED Life!lifeVars
  <2>0. TypeOK /\ Placed /\ \A t \in Transfers : StageInv(t) BY <1>3 DEF IInv
  <2> USE <1>3, <2>0, SessionsAssumption, NoneAssumption, TransfersAssumption
      DEF TransfersAssumption, TypeOK, RegistryType, HandlerOf, sessionVars, callVars
  <2>1. ASSUME NEW t \in Transfers, StartTransfer(t) \/ SendReturns(t)
        PROVE  UNCHANGED Life!lifeVars
    BY <2>1 DEF StartTransfer, SendReturns, Life!lifeVars
  <2>2. ASSUME NEW t \in Transfers, SendFails(t) PROVE Life!Next
    <3>1. session[t] \in Sessions /\ NodeOf[session[t]] = NodeFor[t]
      BY <2>2 DEF SendFails, SessionInv, StageInv
    <3>2. Life!Disconnect(NodeFor[t], None)
      BY <2>2 DEF SendFails, Drop, Disconnect, Removes, IsConnected,
                  Life!Disconnect, Life!Removes, Life!IsConnected
    <3>3. Life!SendFails(NodeFor[t])
      BY <2>2, <3>1, <3>2 DEF SendFails, Life!SendFails
    <3>4. NodeFor[t] \in Nodes OBVIOUS
    <3> QED BY <3>3, <3>4 DEF Life!Next
  <2>3. ASSUME NEW s \in Sessions, Session(s) PROVE Life!Next
    <3>1. CASE Arrive(s)
      <4>1. ~Life!Registered(s)
        BY <3>1 DEF Arrive, SessionInv, IsConnected, Life!Registered
      <4>2. Life!Arrive(s)
        BY <3>1, <4>1 DEF Arrive, TakesSocket, Connect, Life!Arrive, Life!Connect
      <4> QED BY <4>2 DEF Life!Next
    <3>2. CASE Greeted(s)
      <4>1. Life!Greeted(s) BY <3>2 DEF Greeted, Life!Greeted
      <4> QED BY <4>1 DEF Life!Next
    <3>3. CASE GreetingFails(s)
      <4>1. Life!GreetingFails(s) BY <3>3 DEF GreetingFails, Life!GreetingFails
      <4> QED BY <4>1 DEF Life!Next
    <3>4. CASE HandlerExits(s)
      <4>1. Life!HandlerExits(s)
        BY <3>4 DEF HandlerExits, Drop, Disconnect, Removes, IsConnected,
                    Life!HandlerExits, Life!Disconnect, Life!Removes, Life!IsConnected
      <4> QED BY <4>1 DEF Life!Next
    <3>5. CASE SocketLost(s)
      <4>1. Life!SocketLost(s) BY <3>5 DEF SocketLost, Life!SocketLost
      <4> QED BY <4>1 DEF Life!Next
    <3> QED BY <2>3, <3>1, <3>2, <3>3, <3>4, <3>5 DEF Session
  <2>4. CASE Restart
    <3>1. Life!Restart
      BY <2>4 DEF Restart, ClearRegistry, Life!Restart, Life!ClearRegistry
    <3> QED BY <3>1 DEF Life!Next
  <2>5. CASE UNCHANGED <<connections, handler, sock, session>>
    BY <2>5 DEF Life!lifeVars
  <2> QED BY <2>1, <2>2, <2>3, <2>4, <2>5, SessionSteps
<1>4. IInv /\ SessionInv /\ [Next]_vars => [Life!Next]_(Life!lifeVars)
  BY <1>3
<1> QED BY <1>1, <1>2, <1>4, Inductive, PTL DEF Spec, Life!Safety

LifeFacts == INSTANCE SessionLifeProofs WITH handler <- HandlerOf

(* A socket that works is served, and a session with such a socket loses    *)
(* its entry in no other way than a session of SessionLife does.            *)
THEOREM EntriesAreTaken == Spec => []Life!OpenIsServed /\ Life!EntryIsTaken
<1>1. Life!Safety => []Life!OpenIsServed /\ Life!EntryIsTaken
  BY LifeFacts!OpenSocketsAreServed, LifeFacts!EntriesAreTaken,
     SessionsAssumption, NoneAssumption
     DEF Life!Safety, Life!Init, Life!RegistryInit, Life!Next,
         Life!lifeVars, Life!Arrive, Life!Greeted, Life!GreetingFails,
         Life!HandlerExits, Life!SocketLost, Life!SendFails, Life!Restart,
         Life!Registered, Life!Connect, Life!Disconnect, Life!Removes,
         Life!IsConnected, Life!ClearRegistry, Life!OpenIsServed,
         Life!EntryIsTaken,
         LifeFacts!Safety, LifeFacts!Init, LifeFacts!RegistryInit,
         LifeFacts!Next, LifeFacts!lifeVars, LifeFacts!Arrive,
         LifeFacts!Greeted, LifeFacts!GreetingFails, LifeFacts!HandlerExits,
         LifeFacts!SocketLost, LifeFacts!SendFails, LifeFacts!Restart,
         LifeFacts!Registered, LifeFacts!Connect, LifeFacts!Disconnect,
         LifeFacts!Removes, LifeFacts!IsConnected, LifeFacts!ClearRegistry,
         LifeFacts!OpenIsServed, LifeFacts!EntryIsTaken
<1> QED BY <1>1, SessionsLive
=============================================================================
