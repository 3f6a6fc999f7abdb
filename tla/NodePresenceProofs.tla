------------------------- MODULE NodePresenceProofs -------------------------
(* Theorems about NodePresence, for any nodes, sessions, operators and      *)
(* bounds.                                                                  *)
EXTENDS NodePresence, TLAPS

USE DEF Serving

(* The variables of every step keep their types.                            *)
THEOREM TypeCorrect == Spec => []TypeOK
<1>1. Init => TypeOK
  BY BoundsAssumption DEF Init, TypeOK, RegistryInit, RegistryType, Phases, Statuses
<1>2. TypeOK /\ [Next]_vars => TypeOK'
  <2> SUFFICES ASSUME TypeOK, [Next]_vars PROVE TypeOK'
    OBVIOUS
  <2> USE BoundsAssumption, SessionsAssumption
      DEF TypeOK, RegistryType, Phases, Statuses, sessionVars, rowVars, watchdogVars
  <2>1. ASSUME NEW s \in Sessions, Handler(s) PROVE TypeOK'
    <3>1. CASE Open(s) BY <3>1 DEF Open, Goto
    <3>2. CASE HandshakeEnds(s) BY <3>2 DEF HandshakeEnds, Return, Goto
    <3>3. CASE MarkOnline(s) BY <3>3 DEF MarkOnline, Goto
    <3>4. CASE Register(s) BY <3>4 DEF Register, Goto, Connect
    <3>5. CASE GreetingSent(s) BY <3>5 DEF GreetingSent, Goto
    <3>6. CASE GreetingFails(s) BY <3>6 DEF GreetingFails, Return, Goto
    <3>7. CASE Heartbeat(s) BY <3>7 DEF Heartbeat
    <3>8. CASE LeaveLoop(s) BY <3>8 DEF LeaveLoop, Disconnect, Return, Goto
    <3>9. CASE WriteOffline(s) BY <3>9 DEF WriteOffline, Return, Goto
    <3>10. CASE WriteOfflineFails(s) BY <3>10 DEF WriteOfflineFails, Return, Goto
    <3> QED
      BY <2>1, <3>1, <3>2, <3>3, <3>4, <3>5, <3>6, <3>7, <3>8, <3>9, <3>10 DEF Handler
  <2>2. ASSUME NEW s \in Sessions, Sender(s) PROVE TypeOK'
    <3>1. CASE SendReturns(s) BY <3>1 DEF SendReturns
    <3>2. CASE SendFails(s) BY <3>2 DEF SendFails, Disconnect
    <3> QED BY <2>2, <3>1, <3>2 DEF Sender
  <2>3. ASSUME NEW n \in Nodes, StartSend(n) PROVE TypeOK'
    BY <2>3 DEF StartSend, IsConnected
  <2>4. ASSUME NEW n \in Nodes, Touch(n) PROVE TypeOK'
    BY <2>4 DEF Touch
  <2>5. ASSUME NEW n \in Nodes, TouchFails(n) PROVE TypeOK'
    BY <2>5 DEF TouchFails
  <2>6. CASE Watchdog
    <3>1. CASE WatchdogSelect BY <3>1 DEF WatchdogSelect
    <3>2. CASE WatchdogCommit BY <3>2 DEF WatchdogCommit
    <3>3. CASE WatchdogFails BY <3>3 DEF WatchdogFails
    <3>4. ASSUME NEW n \in Nodes, WatchdogCheck(n) PROVE TypeOK'
      BY <3>4 DEF WatchdogCheck
    <3>5. ASSUME NEW n \in Nodes, WatchdogUpdate(n) PROVE TypeOK'
      BY <3>5 DEF WatchdogUpdate
    <3> QED BY <2>6, <3>1, <3>2, <3>3, <3>4, <3>5 DEF Watchdog
  <2>7. CASE Environment
    <3>1. ASSUME NEW s \in Sessions, SocketLost(s) PROVE TypeOK'
      BY <3>1 DEF SocketLost
    <3>2. ASSUME NEW n \in Nodes, Age(n) PROVE TypeOK'
      BY <3>2 DEF Age
    <3>3. ASSUME NEW n \in Nodes, SetStatus(n) PROVE TypeOK'
      BY <3>3, OperatorAssumption DEF SetStatus
    <3>4. CASE Restart BY <3>4 DEF Restart, ClearRegistry
    <3> QED BY <2>7, <3>1, <3>2, <3>3, <3>4 DEF Environment
  <2>8. CASE UNCHANGED vars BY <2>8 DEF vars
  <2> QED BY <2>1, <2>2, <2>3, <2>4, <2>5, <2>6, <2>7, <2>8 DEF Next
<1> QED BY <1>1, <1>2, PTL DEF Spec

-----------------------------------------------------------------------------
(* What a step may do to the three variables the registry's invariant is    *)
(* about: a handler changes its own session, a send or a lost socket one    *)
(* field of one session, a restart everything; nothing else touches them.   *)
LEMMA RegistrySteps ==
    ASSUME [Next]_vars
    PROVE \/ \E s \in Sessions : Handler(s) \/ SendFails(s) \/ SocketLost(s)
          \/ Restart
          \/ UNCHANGED <<connections, phase, sock>>
<1> USE DEF sessionVars
<1>1. CASE UNCHANGED vars BY <1>1 DEF vars
<1>2. ASSUME NEW s \in Sessions, Sender(s)
      PROVE SendFails(s) \/ UNCHANGED <<connections, phase, sock>>
  BY <1>2 DEF Sender, SendReturns
<1>3. ASSUME NEW n \in Nodes, StartSend(n) \/ Touch(n) \/ TouchFails(n)
      PROVE UNCHANGED <<connections, phase, sock>>
  BY <1>3 DEF StartSend, Touch, TouchFails
<1>4. CASE Watchdog
  BY <1>4 DEF Watchdog, WatchdogSelect, WatchdogCheck, WatchdogUpdate,
              WatchdogCommit, WatchdogFails
<1>5. ASSUME NEW n \in Nodes, Age(n) \/ SetStatus(n)
      PROVE UNCHANGED <<connections, phase, sock>>
  BY <1>5 DEF Age, SetStatus
<1> QED BY <1>1, <1>2, <1>3, <1>4, <1>5 DEF Next, Environment

(* The registry never names a handler that returned under a usable socket,  *)
(* or one that is on its way to the offline write.                          *)
THEOREM RegistryIsSound == Spec => []EntryIsServedOrDead
<1>1. Init => EntryIsServedOrDead
  BY DEF Init, RegistryInit, EntryIsServedOrDead, IsConnected
<1>2. TypeOK /\ EntryIsServedOrDead /\ [Next]_vars => EntryIsServedOrDead'
  <2> SUFFICES ASSUME TypeOK, EntryIsServedOrDead, [Next]_vars
               PROVE EntryIsServedOrDead'
    OBVIOUS
  <2> USE SessionsAssumption, NoneAssumption
      DEF TypeOK, RegistryType, EntryIsServedOrDead, IsConnected, Registered,
          Phases, sessionVars
  <2>1. ASSUME NEW s \in Sessions, Handler(s) PROVE EntryIsServedOrDead'
    <3>1. CASE Open(s) BY <3>1 DEF Open, Goto
    <3>2. CASE HandshakeEnds(s) BY <3>2 DEF HandshakeEnds, Return, Goto
    <3>3. CASE MarkOnline(s) BY <3>3 DEF MarkOnline, Goto
    <3>4. CASE Register(s) BY <3>4 DEF Register, Goto, Connect
    <3>5. CASE GreetingSent(s) BY <3>5 DEF GreetingSent, Goto
    <3>6. CASE GreetingFails(s) BY <3>6 DEF GreetingFails, Return, Goto
    <3>7. CASE Heartbeat(s) BY <3>7 DEF Heartbeat
    <3>8. CASE LeaveLoop(s)
      BY <3>8 DEF LeaveLoop, Disconnect, Removes, Return, Goto
    <3>9. CASE WriteOffline(s) BY <3>9 DEF WriteOffline, Return, Goto
    <3>10. CASE WriteOfflineFails(s) BY <3>10 DEF WriteOfflineFails, Return, Goto
    <3> QED
      BY <2>1, <3>1, <3>2, <3>3, <3>4, <3>5, <3>6, <3>7, <3>8, <3>9, <3>10 DEF Handler
  <2>2. ASSUME NEW s \in Sessions, SendFails(s) PROVE EntryIsServedOrDead'
    BY <2>2 DEF SendFails, Disconnect, Removes
  <2>3. ASSUME NEW s \in Sessions, SocketLost(s) PROVE EntryIsServedOrDead'
    BY <2>3 DEF SocketLost
  <2>4. CASE Restart BY <2>4 DEF Restart, ClearRegistry
  <2>5. CASE UNCHANGED <<connections, phase, sock>> BY <2>5
  <2> QED BY <2>1, <2>2, <2>3, <2>4, <2>5, RegistrySteps
<1> QED BY <1>1, <1>2, TypeCorrect, PTL DEF Spec

(* A replaced session's exit takes nobody else's entry away and does not    *)
(* reach the offline write.                                                 *)
THEOREM ReplacedExit == Spec => ReplacedExitIsSilent
<1>1. ASSUME TypeOK, [Next]_vars, NEW s \in Sessions,
             phase[s] = "loop", phase'[s] # "loop", faults' = faults
      PROVE LeaveLoop(s)
  <2> USE DEF TypeOK, sessionVars
  <2>1. ASSUME NEW t \in Sessions, Handler(t) PROVE LeaveLoop(s)
    BY <1>1, <2>1 DEF Handler, Open, HandshakeEnds, MarkOnline, Register,
        GreetingSent, GreetingFails, Heartbeat, LeaveLoop, WriteOffline,
        WriteOfflineFails, Return, Goto
  <2>2. ASSUME NEW t \in Sessions, SendFails(t) \/ SocketLost(t) PROVE FALSE
    BY <1>1, <2>2 DEF SendFails, SocketLost
  <2>3. CASE Restart
    BY <1>1, <2>3, BoundsAssumption DEF Restart
  <2>4. CASE UNCHANGED <<connections, phase, sock>> BY <1>1, <2>4
  <2> QED BY <1>1, <2>1, <2>2, <2>3, <2>4, RegistrySteps
<1>2. ASSUME TypeOK, EntryIsServedOrDead, NEW s \in Sessions, LeaveLoop(s)
      PROVE /\ \A n \in Nodes : connections[n] # s => connections'[n] = connections[n]
            /\ ~Registered(s) => phase'[s] = "closed"
  BY <1>2, SessionsAssumption, NoneAssumption
     DEF LeaveLoop, Disconnect, Removes, Registered, IsConnected, Return, Goto,
         TypeOK, RegistryType
<1>3. TypeOK /\ EntryIsServedOrDead /\ [Next]_vars =>
        [\A s \in Sessions :
            (phase[s] = "loop" /\ phase'[s] # "loop" /\ faults' = faults)
            => /\ \A n \in Nodes : connections[n] # s => connections'[n] = connections[n]
               /\ ~Registered(s) => phase'[s] = "closed"]_vars
  BY <1>1, <1>2
<1> QED BY <1>3, TypeCorrect, RegistryIsSound, PTL DEF Spec, ReplacedExitIsSilent

-----------------------------------------------------------------------------
(* What the steps do to the parts of the state ShownWasSeen is about: no    *)
(* row becomes unseen, a session is shown online by the commit that writes  *)
(* last_seen, and only a session so shown takes an entry.                   *)
LEMMA SeenSteps ==
    ASSUME TypeOK, [Next]_vars
    PROVE /\ \A n \in Nodes : lastSeen[n] # "never" => lastSeen'[n] # "never"
          /\ \A s \in Sessions :
                phase[s] \notin {"marked", "greeting", "loop", "offlining"}
                /\ phase'[s] \in {"marked", "greeting", "loop", "offlining"}
                => lastSeen'[NodeOf[s]] # "never"
          /\ \A n \in Nodes :
                connections'[n] = connections[n] \/ connections'[n] = None
                \/ \E s \in Sessions : NodeOf[s] = n /\ phase[s] = "marked"
<1> DEFINE Shown == {"marked", "greeting", "loop", "offlining"}
           Goal ==
             /\ \A n \in Nodes : lastSeen[n] # "never" => lastSeen'[n] # "never"
             /\ \A s \in Sessions :
                   phase[s] \notin Shown /\ phase'[s] \in Shown => lastSeen'[NodeOf[s]] # "never"
             /\ \A n \in Nodes :
                   connections'[n] = connections[n] \/ connections'[n] = None
                   \/ \E s \in Sessions : NodeOf[s] = n /\ phase[s] = "marked"
<1> USE SessionsAssumption
    DEF TypeOK, RegistryType, sessionVars, rowVars, watchdogVars, Goto, Return
<1>1. ASSUME NEW s \in Sessions, Handler(s) PROVE Goal
  <2>1. CASE Open(s) BY <2>1 DEF Open
  <2>2. CASE HandshakeEnds(s) \/ GreetingFails(s) \/ WriteOfflineFails(s)
    BY <2>2 DEF HandshakeEnds, GreetingFails, WriteOfflineFails
  <2>3. CASE MarkOnline(s) BY <2>3 DEF MarkOnline
  <2>4. CASE Register(s) BY <2>4 DEF Register, Connect
  <2>5. CASE GreetingSent(s) \/ Heartbeat(s) BY <2>5 DEF GreetingSent, Heartbeat
  <2>6. CASE LeaveLoop(s) BY <2>6 DEF LeaveLoop, Disconnect
  <2>7. CASE WriteOffline(s) BY <2>7 DEF WriteOffline
  <2> QED BY <1>1, <2>1, <2>2, <2>3, <2>4, <2>5, <2>6, <2>7 DEF Handler
<1>2. ASSUME NEW s \in Sessions, Sender(s) \/ SocketLost(s) PROVE Goal
  BY <1>2 DEF Sender, SendReturns, SendFails, Disconnect, SocketLost
<1>3. ASSUME NEW n \in Nodes, StartSend(n) \/ Touch(n) \/ TouchFails(n) \/ Age(n) \/ SetStatus(n)
      PROVE Goal
  BY <1>3 DEF StartSend, Touch, TouchFails, Age, SetStatus
<1>4. CASE Watchdog
  BY <1>4 DEF Watchdog, WatchdogSelect, WatchdogCheck, WatchdogUpdate,
              WatchdogCommit, WatchdogFails
<1>5. CASE Restart BY <1>5 DEF Restart, ClearRegistry
<1>6. CASE UNCHANGED vars BY <1>6 DEF vars
<1> QED BY <1>1, <1>2, <1>3, <1>4, <1>5, <1>6 DEF Next, Environment

(* A node a session shows online or is registered for is one the watchdog   *)
(* can find.                                                                *)
THEOREM WatchdogFinds == Spec => []ShownWasSeen
<1>1. Init => ShownWasSeen
  BY DEF Init, RegistryInit, ShownWasSeen, IsConnected
<1>2. TypeOK /\ ShownWasSeen /\ [Next]_vars => ShownWasSeen'
  <2> SUFFICES ASSUME TypeOK, ShownWasSeen, [Next]_vars PROVE ShownWasSeen'
    OBVIOUS
  <2>1. ASSUME NEW s \in Sessions,
               phase'[s] \in {"marked", "greeting", "loop", "offlining"}
        PROVE  lastSeen'[NodeOf[s]] # "never"
    BY <2>1, SeenSteps, SessionsAssumption DEF ShownWasSeen
  <2>2. ASSUME NEW n \in Nodes, connections'[n] # None PROVE lastSeen'[n] # "never"
    BY <2>2, SeenSteps DEF ShownWasSeen, IsConnected
  <2> QED BY <2>1, <2>2 DEF ShownWasSeen, IsConnected
<1> QED BY <1>1, <1>2, TypeCorrect, PTL DEF Spec

-----------------------------------------------------------------------------
(* The agent of a node holds one open socket at a time.                     *)
OneSocket ==
    \A s, t \in Sessions :
        NodeOf[s] = NodeOf[t] /\ sock[s] = "open" /\ sock[t] = "open" => s = t

LifeInv == TypeOK /\ EntryIsServedOrDead /\ OneSocket

LEMMA SocketStep == ASSUME LifeInv, [Next]_vars PROVE OneSocket'
<1> USE DEF LifeInv, OneSocket, TypeOK, sessionVars
<1>1. ASSUME NEW s \in Sessions, Handler(s) PROVE OneSocket'
  <2>1. CASE Open(s) BY <2>1 DEF Open
  <2>2. CASE ~Open(s)
    BY <1>1, <2>2 DEF Handler, HandshakeEnds, MarkOnline, Register, GreetingSent,
        GreetingFails, Heartbeat, LeaveLoop, WriteOffline, WriteOfflineFails, Return
  <2> QED BY <2>1, <2>2
<1>2. ASSUME NEW s \in Sessions, SendFails(s) \/ SocketLost(s) PROVE OneSocket'
  BY <1>2 DEF SendFails, SocketLost
<1>3. CASE Restart BY <1>3 DEF Restart
<1>4. CASE UNCHANGED <<connections, phase, sock>> BY <1>4
<1> QED BY <1>1, <1>2, <1>3, <1>4, RegistrySteps

(* What the three refinement variables become by a step of a handler.       *)
LEMMA LifeHandlerStep ==
    ASSUME LifeInv, NEW s \in Sessions, Handler(s)
    PROVE  Life!Next \/ UNCHANGED Life!lifeVars
<1> USE SessionsAssumption, NoneAssumption
    DEF LifeInv, TypeOK, RegistryType, sessionVars, HandlerOf, SockOf, Goto, Return
<1>1. CASE \/ Open(s) \/ HandshakeEnds(s) \/ MarkOnline(s) \/ Heartbeat(s)
           \/ WriteOffline(s) \/ WriteOfflineFails(s)
  <2>1. /\ UNCHANGED connections
        /\ \A t \in Sessions :
              \/ phase'[t] = phase[t] /\ sock'[t] = sock[t]
              \/ phase[t] \notin Serving /\ phase'[t] \notin Serving
    BY <1>1 DEF Open, HandshakeEnds, MarkOnline, Heartbeat, WriteOffline, WriteOfflineFails
  <2>2. UNCHANGED Life!lifeVars BY <2>1 DEF Life!lifeVars
  <2> QED BY <2>2
<1>2. CASE Register(s)
  <2>1. ~Life!Registered(s)
    BY <1>2 DEF Register, EntryIsServedOrDead, IsConnected, Life!Registered
  <2>2. HandlerOf[s] = "off" /\ HandlerOf' = [HandlerOf EXCEPT ![s] = "greeting"]
    BY <1>2 DEF Register
  <2>3. Life!Connect(s) BY <1>2 DEF Register, Connect, Life!Connect
  <2>4. CASE sock[s] = "lost"
    <3>1. SockOf' = SockOf BY <1>2, <2>4 DEF Register
    <3>2. Life!Arrive(s) BY <2>1, <2>2, <2>3, <3>1 DEF Life!Arrive
    <3> QED BY <3>2 DEF Life!Next
  <2>5. CASE sock[s] = "open"
    <3>1. SockOf' = [SockOf EXCEPT ![s] = "open"] BY <1>2, <2>5 DEF Register
    <3>2. \A t \in Sessions : NodeOf[t] = NodeOf[s] => SockOf[t] = "lost"
      BY <1>2, <2>5 DEF Register, OneSocket
    <3>3. Life!Arrive(s) BY <2>1, <2>2, <2>3, <3>1, <3>2 DEF Life!Arrive
    <3> QED BY <3>3 DEF Life!Next
  <2> QED BY <2>4, <2>5
<1>3. CASE GreetingSent(s)
  <2>1. Life!Greeted(s) BY <1>3 DEF GreetingSent, Life!Greeted
  <2> QED BY <2>1 DEF Life!Next
<1>4. CASE GreetingFails(s)
  <2>1. Life!GreetingFails(s) BY <1>4 DEF GreetingFails, Life!GreetingFails
  <2> QED BY <2>1 DEF Life!Next
<1>5. CASE LeaveLoop(s)
  <2>1. /\ HandlerOf[s] = "serving"
        /\ phase' \in [Sessions -> Phases] /\ phase'[s] \in {"offlining", "closed"}
        /\ \A t \in Sessions \ {s} : phase'[t] = phase[t] /\ sock'[t] = sock[t]
    BY <1>5 DEF LeaveLoop, Phases
  <2>2. HandlerOf' = [HandlerOf EXCEPT ![s] = "off"] BY <2>1
  <2>3. SockOf' = [SockOf EXCEPT ![s] = "lost"] BY <2>1
  <2>4. Life!Disconnect(NodeOf[s], s)
    BY <1>5 DEF LeaveLoop, Disconnect, Removes, IsConnected,
                Life!Disconnect, Life!Removes, Life!IsConnected
  <2>5. Life!HandlerExits(s) BY <2>1, <2>2, <2>3, <2>4 DEF Life!HandlerExits
  <2> QED BY <2>5 DEF Life!Next
<1> QED BY <1>1, <1>2, <1>3, <1>4, <1>5 DEF Handler

(* Seen from outside, the handlers' sessions are sessions of SessionLife:   *)
(* every step is one of its steps or changes nothing of it.                 *)
THEOREM SessionsLive == Spec => Life!Safety
<1>1. Init => OneSocket /\ Life!Init
  BY SessionsAssumption
     DEF Init, OneSocket, RegistryInit, HandlerOf, SockOf, Life!Init, Life!RegistryInit
<1>2. LifeInv /\ [Next]_vars => OneSocket'
  BY SocketStep
<1>3. ASSUME LifeInv, [Next]_vars PROVE Life!Next \/ UNCHANGED Life!lifeVars
  <2> USE <1>3, SessionsAssumption, NoneAssumption
      DEF LifeInv, TypeOK, RegistryType, HandlerOf, SockOf
  <2>1. ASSUME NEW s \in Sessions, Handler(s)
        PROVE  Life!Next \/ UNCHANGED Life!lifeVars
    BY <2>1, LifeHandlerStep
  <2>2. ASSUME NEW s \in Sessions, SendFails(s) PROVE Life!Next
    <3>1. NodeOf[s] \in Nodes /\ SockOf[s] = "lost" BY <2>2 DEF SendFails
    <3>2. Life!Disconnect(NodeOf[s], None)
      BY <2>2 DEF SendFails, Disconnect, Removes, IsConnected,
                  Life!Disconnect, Life!Removes, Life!IsConnected
    <3>3. UNCHANGED <<HandlerOf, SockOf>> BY <2>2 DEF SendFails
    <3>4. Life!SendFails(NodeOf[s]) BY <3>1, <3>2, <3>3 DEF Life!SendFails
    <3> QED BY <3>1, <3>4 DEF Life!Next
  <2>3. ASSUME NEW s \in Sessions, SocketLost(s)
        PROVE  Life!Next \/ UNCHANGED Life!lifeVars
    <3>1. CASE phase[s] \in Serving
      <4>1. Life!SocketLost(s) BY <2>3, <3>1 DEF SocketLost, Life!SocketLost
      <4> QED BY <4>1 DEF Life!Next
    <3>2. CASE phase[s] \notin Serving
      BY <2>3, <3>2 DEF SocketLost, Life!lifeVars
    <3> QED BY <3>1, <3>2
  <2>4. CASE Restart
    <3>1. Life!Restart
      BY <2>4 DEF Restart, ClearRegistry, Life!Restart, Life!ClearRegistry
    <3> QED BY <3>1 DEF Life!Next
  <2>5. CASE UNCHANGED <<connections, phase, sock>> BY <2>5 DEF Life!lifeVars
  <2> QED BY <2>1, <2>2, <2>3, <2>4, <2>5, RegistrySteps
<1>4. LifeInv /\ [Next]_vars => [Life!Next]_(Life!lifeVars)
  BY <1>3
<1>5. Spec => []LifeInv
  <2>1. Spec => []OneSocket
    BY <1>1, <1>2, TypeCorrect, RegistryIsSound, PTL DEF Spec, LifeInv
  <2> QED BY <2>1, TypeCorrect, RegistryIsSound, PTL DEF LifeInv
<1> QED BY <1>1, <1>4, <1>5, PTL DEF Spec, Life!Safety

LifeFacts == INSTANCE SessionLifeProofs WITH handler <- HandlerOf, sock <- SockOf

(* A socket that works is served, and a session with such a socket loses    *)
(* its entry in no other way than a session of SessionLife does.            *)
THEOREM EntriesAreTaken == Spec => []Life!OpenIsServed /\ Life!EntryIsTaken
<1>1. Life!Safety => []Life!OpenIsServed /\ Life!EntryIsTaken
  BY LifeFacts!OpenSocketsAreServed, LifeFacts!EntriesAreTaken,
     SessionsAssumption, NoneAssumption
     DEF Life!Safety, Life!Init, Life!RegistryInit, Life!Next,
         Life!lifeVars, Life!Arrive, Life!Greeted, Life!GreetingFails,
         Life!HandlerExits, Life!SocketLost, Life!SendFails, Life!Restart,
         Life!Registered, Life!Connect, Life!Disconnect, Life!Removes,
         Life!IsConnected, Life!ClearRegistry, Life!OpenIsServed,
         Life!EntryIsTaken,
         LifeFacts!Safety, LifeFacts!Init, LifeFacts!RegistryInit,
         LifeFacts!Next, LifeFacts!lifeVars, LifeFacts!Arrive,
         LifeFacts!Greeted, LifeFacts!GreetingFails, LifeFacts!HandlerExits,
         LifeFacts!SocketLost, LifeFacts!SendFails, LifeFacts!Restart,
         LifeFacts!Registered, LifeFacts!Connect, LifeFacts!Disconnect,
         LifeFacts!Removes, LifeFacts!IsConnected, LifeFacts!ClearRegistry,
         LifeFacts!OpenIsServed, LifeFacts!EntryIsTaken
<1> QED BY <1>1, SessionsLive
=============================================================================
