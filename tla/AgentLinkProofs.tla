-------------------------- MODULE AgentLinkProofs ---------------------------
(* Theorems about AgentLink, for any nodes, sessions and delays.            *)
EXTENDS AgentLink, TLAPS

(* The next delay is a delay, and no shorter.                               *)
LEMMA LongerGrows ==
    ASSUME NEW d \in InitialDelay..MaxDelay
    PROVE  Longer(d) \in InitialDelay..MaxDelay /\ Longer(d) >= d
<1> USE DelayAssumption
<1>1. d \in Nat /\ BackoffFactor \in Nat /\ BackoffFactor >= 1
  OBVIOUS
<1>2. d * BackoffFactor \in Nat /\ d * BackoffFactor >= d
  BY <1>1
<1> QED BY <1>2 DEF Longer

(* Both ends of every socket, the delays and the history keep their types.  *)
THEOREM TypeCorrect == Spec => []TypeOK
<1>1. Init => TypeOK
  BY DelayAssumption DEF Init, TypeOK, RegistryInit, RegistryType
<1>2. TypeOK /\ [Next]_vars => TypeOK'
  <2> SUFFICES ASSUME TypeOK, [Next]_vars PROVE TypeOK'
    OBVIOUS
  <2> USE SessionsAssumption
         DEF TypeOK, RegistryType, agentVars, serverVars, Serves, Sends
  <2>0. InitialDelay \in InitialDelay..MaxDelay
    BY DelayAssumption
  <2>1. ASSUME NEW n \in Nodes, Agent(n) PROVE TypeOK'
    <3>1. CASE Dial(n)
      <4>1. delay' \in [Nodes -> InitialDelay..MaxDelay]
        <5>1. delay[n] \in InitialDelay..MaxDelay
          OBVIOUS
        <5>2. Longer(delay[n]) \in InitialDelay..MaxDelay
          BY <5>1, LongerGrows
        <5> QED BY <3>1, <5>2 DEF Dial, Awakes
      <4>2. PICK s \in Sessions :
              /\ on' = [on EXCEPT ![n] = s]
              /\ srv' = [srv EXCEPT ![s] = "lookup"]
              /\ link' = [link EXCEPT ![s] = "up"]
              /\ mail' = [mail EXCEPT ![s] = "none"]
              /\ unseated' = unseated \ {s}
        BY <3>1 DEF Dial
      <4> QED BY <3>1, <4>1, <4>2 DEF Dial
    <3>2. CASE Answer(n) BY <3>2 DEF Answer
    <3>3. CASE Accepted(n) BY <3>3 DEF Accepted
    <3>4. CASE GiveUp(n) BY <3>4 DEF GiveUp, Fails
    <3>5. CASE EndsCleanly(n) BY <2>0, <3>5 DEF EndsCleanly
    <3> QED BY <2>1, <3>1, <3>2, <3>3, <3>4, <3>5 DEF Agent
  <2>2. ASSUME NEW s \in Sessions, Handler(s) PROVE TypeOK'
    <3>1. CASE Challenge(s) BY <3>1 DEF Challenge
    <3>2. CASE Verify(s) BY <3>2 DEF Verify
    <3>3. CASE Register(s)
      BY <3>3 DEF Register, Connect, Unseats, IsConnected
    <3>4. CASE Greet(s) BY <3>4 DEF Greet
    <3>5. CASE GreetFails(s) BY <3>5 DEF GreetFails
    <3>6. CASE FindsLost(s)
      BY <3>6 DEF FindsLost, Hangup, Disconnect
    <3> QED BY <2>2, <3>1, <3>2, <3>3, <3>4, <3>5, <3>6 DEF Handler
  <2>3. ASSUME NEW s \in Sessions, Sender(s) PROVE TypeOK'
    <3>1. CASE SendReturns(s) BY <3>1 DEF SendReturns
    <3>2. CASE SendFails(s)
      BY <3>2 DEF SendFails, Disconnect, Unseats, IsConnected
    <3> QED BY <2>3, <3>1, <3>2 DEF Sender
  <2>4. ASSUME NEW n \in Nodes, StartSend(n) PROVE TypeOK'
    BY <2>4 DEF StartSend, IsConnected
  <2>5. CASE Trouble
    <3>1. ASSUME NEW n \in Nodes, DialFails(n) PROVE TypeOK'
      <4>1. delay[n] \in InitialDelay..MaxDelay
        OBVIOUS
      <4>2. Longer(delay[n]) \in InitialDelay..MaxDelay
        BY <4>1, LongerGrows
      <4> QED BY <3>1, <4>2 DEF DialFails, Awakes
    <3>2. ASSUME NEW n \in Nodes, AgentTimesOut(n) PROVE TypeOK'
      BY <3>2 DEF AgentTimesOut, Fails
    <3>3. ASSUME NEW n \in Nodes, AgentRestarts(n) PROVE TypeOK'
      BY <2>0, <3>3 DEF AgentRestarts
    <3>4. ASSUME NEW s \in Sessions, TurnAway(s) PROVE TypeOK'
      BY <3>4 DEF TurnAway
    <3>5. ASSUME NEW s \in Sessions, ServerTimesOut(s) PROVE TypeOK'
      BY <3>5 DEF ServerTimesOut, Hangup, Disconnect
    <3>6. ASSUME NEW s \in Sessions, DatabaseFails(s) PROVE TypeOK'
      BY <3>6 DEF DatabaseFails
    <3>7. ASSUME NEW s \in Sessions, Cut(s) PROVE TypeOK'
      BY <3>7 DEF Cut
    <3>8. CASE ServerRestarts
      BY <3>8 DEF ServerRestarts, ClearRegistry
    <3> QED
      BY <2>5, <3>1, <3>2, <3>3, <3>4, <3>5, <3>6, <3>7, <3>8 DEF Trouble
  <2>6. CASE UNCHANGED vars BY <2>6 DEF vars
  <2> QED BY <2>1, <2>2, <2>3, <2>4, <2>5, <2>6 DEF Next
<1> QED BY <1>1, <1>2, PTL DEF Spec

-----------------------------------------------------------------------------
(* Every step leaves the delays alone, lets those of agents that wake grow, *)
(* or is the end of a connection that was served, or of a process.          *)
LEMMA DelaySteps ==
    ASSUME [Next]_vars
    PROVE  \/ UNCHANGED delay
           \/ \E n \in Nodes :
                 Awakes(n) \/ EndsCleanly(n) \/ AgentRestarts(n)
<1> USE DEF agentVars
<1>1. ASSUME NEW n \in Nodes, Agent(n)
      PROVE UNCHANGED delay \/ Awakes(n) \/ EndsCleanly(n)
  BY <1>1 DEF Agent, Dial, Answer, Accepted, GiveUp, Fails
<1>2. ASSUME NEW s \in Sessions, Handler(s) PROVE UNCHANGED delay
  BY <1>2
     DEF Handler, Challenge, Verify, Register, Greet, GreetFails, FindsLost,
         Hangup
<1>3. ASSUME NEW s \in Sessions, Sender(s) PROVE UNCHANGED delay
  BY <1>3 DEF Sender, SendReturns, SendFails
<1>4. ASSUME NEW n \in Nodes, StartSend(n) PROVE UNCHANGED delay
  BY <1>4 DEF StartSend
<1>5. ASSUME NEW n \in Nodes, DialFails(n) \/ AgentTimesOut(n)
      PROVE UNCHANGED delay \/ Awakes(n)
  BY <1>5 DEF DialFails, AgentTimesOut, Fails
<1>6. ASSUME NEW s \in Sessions,
             \/ TurnAway(s) \/ ServerTimesOut(s)
             \/ DatabaseFails(s) \/ Cut(s)
      PROVE UNCHANGED delay
  BY <1>6 DEF TurnAway, ServerTimesOut, Hangup, DatabaseFails, Cut
<1>7. CASE ServerRestarts BY <1>7 DEF ServerRestarts
<1>8. CASE UNCHANGED vars BY <1>8 DEF vars
<1> QED BY <1>1, <1>2, <1>3, <1>4, <1>5, <1>6, <1>7, <1>8 DEF Next, Trouble

(* An agent that fails to connect waits no shorter the next time.           *)
THEOREM BacksOff == Spec => BackoffHolds
<1>1. ASSUME TypeOK, [Next]_vars, NEW n \in Nodes, delay'[n] < delay[n]
      PROVE  \/ at'[n] = "started"
             \/ at[n] = "serving" /\ link[on[n]] = "up"
  <2> USE DEF TypeOK
  <2>1. delay[n] \in InitialDelay..MaxDelay /\ delay[n] \in Nat
    BY <1>1, DelayAssumption
  <2>2. ASSUME NEW m \in Nodes, Awakes(m) PROVE FALSE
    BY <1>1, <2>1, <2>2, LongerGrows DEF Awakes
  <2>3. ASSUME NEW m \in Nodes, EndsCleanly(m)
        PROVE  at[n] = "serving" /\ link[on[n]] = "up"
    BY <1>1, <2>1, <2>3 DEF EndsCleanly
  <2>4. ASSUME NEW m \in Nodes, AgentRestarts(m) PROVE at'[n] = "started"
    BY <1>1, <2>1, <2>4 DEF AgentRestarts
  <2>5. CASE UNCHANGED delay BY <1>1, <2>1, <2>5
  <2>6. \/ UNCHANGED delay
        \/ \E m \in Nodes :
              Awakes(m) \/ EndsCleanly(m) \/ AgentRestarts(m)
    BY <1>1, DelaySteps
  <2> QED BY <2>2, <2>3, <2>4, <2>5, <2>6
<1>2. TypeOK /\ [Next]_vars =>
        [\A n \in Nodes : delay'[n] < delay[n] =>
            \/ at'[n] = "started"
            \/ at[n] = "serving" /\ link[on[n]] = "up"]_vars
  BY <1>1
<1>3. Spec => []TypeOK
  BY TypeCorrect
<1> QED BY <1>2, <1>3, PTL DEF Spec, BackoffHolds

-----------------------------------------------------------------------------
(* The agent holds a socket of its own while it talks on one.               *)
HoldsItsOwn ==
    \A n \in Nodes : at[n] \in {"challenge", "answer", "serving"} =>
        on[n] \in Sessions /\ NodeOf[on[n]] = n

(* A handler that has registered for the agent that still holds its socket  *)
(* is registered, or was unseated.                                          *)
SeatedOrUnseated ==
    \A s \in Sessions : srv[s] \in {"greeting", "loop"} /\ Whole(s) =>
        Registered(s) \/ s \in unseated

LinkInv == TypeOK /\ HoldsItsOwn /\ SeatedOrUnseated

(* The socket an agent holds changes by its own steps, and the agent only   *)
(* goes back to holding none.                                               *)
LEMMA HoldsStep ==
    ASSUME LinkInv, [Next]_vars
    PROVE  HoldsItsOwn'
<1> USE DEF LinkInv, HoldsItsOwn, TypeOK, agentVars
<1>1. ASSUME NEW n \in Nodes, Agent(n) PROVE HoldsItsOwn'
  <2>1. CASE Dial(n) BY <2>1 DEF Dial
  <2>2. CASE Answer(n) BY <2>2 DEF Answer
  <2>3. CASE Accepted(n) BY <2>3 DEF Accepted
  <2>4. CASE GiveUp(n) BY <2>4 DEF GiveUp, Fails
  <2>5. CASE EndsCleanly(n) BY <2>5 DEF EndsCleanly
  <2> QED BY <1>1, <2>1, <2>2, <2>3, <2>4, <2>5 DEF Agent
<1>2. ASSUME NEW n \in Nodes,
             DialFails(n) \/ AgentTimesOut(n) \/ AgentRestarts(n)
      PROVE  HoldsItsOwn'
  BY <1>2 DEF DialFails, AgentTimesOut, Fails, AgentRestarts
<1>3. ASSUME NEW s \in Sessions,
             \/ Handler(s) \/ TurnAway(s) \/ ServerTimesOut(s)
             \/ DatabaseFails(s)
      PROVE  UNCHANGED <<at, on>>
  BY <1>3
     DEF Handler, Challenge, Verify, Register, Greet, GreetFails, FindsLost,
         Hangup, TurnAway, ServerTimesOut, DatabaseFails
<1>4. ASSUME NEW s \in Sessions, Cut(s) \/ Sender(s) PROVE UNCHANGED <<at, on>>
  BY <1>4 DEF Cut, Sender, SendReturns, SendFails
<1>5. ASSUME NEW n \in Nodes, StartSend(n) PROVE UNCHANGED <<at, on>>
  BY <1>5 DEF StartSend
<1>6. CASE ServerRestarts \/ UNCHANGED vars
  BY <1>6 DEF ServerRestarts, vars
<1> QED
  BY <1>1, <1>2, <1>3, <1>4, <1>5, <1>6 DEF Next, Trouble

(* What no step but the end of its handler, a registration or a failed send *)
(* may do to a session that is seated.                                      *)
LEMMA SeatStep ==
    ASSUME LinkInv, [Next]_vars
    PROVE  SeatedOrUnseated'
<1> USE SessionsAssumption, NoneAssumption
       DEF LinkInv, SeatedOrUnseated, TypeOK, RegistryType, agentVars,
           serverVars, Whole, Registered, Serves
<1>1. ASSUME NEW n \in Nodes, Agent(n) PROVE SeatedOrUnseated'
  <2>1. CASE Dial(n)
    <3>1. PICK s \in Sessions :
            /\ NodeOf[s] = n /\ srv[s] = "off"
            /\ on' = [on EXCEPT ![n] = s]
            /\ srv' = [srv EXCEPT ![s] = "lookup"]
            /\ link' = [link EXCEPT ![s] = "up"]
            /\ unseated' = unseated \ {s}
            /\ UNCHANGED connections
      BY <2>1 DEF Dial
    <3> QED BY <3>1
  <2>2. CASE Answer(n) BY <2>2 DEF Answer
  <2>3. CASE Accepted(n) BY <2>3 DEF Accepted
  <2>4. CASE GiveUp(n) BY <2>4 DEF GiveUp, Fails
  <2>5. CASE EndsCleanly(n) BY <2>5 DEF EndsCleanly
  <2> QED BY <1>1, <2>1, <2>2, <2>3, <2>4, <2>5 DEF Agent
<1>2. ASSUME NEW n \in Nodes,
             \/ DialFails(n) \/ AgentTimesOut(n) \/ AgentRestarts(n)
             \/ StartSend(n)
      PROVE  SeatedOrUnseated'
  BY <1>2 DEF DialFails, AgentTimesOut, Fails, AgentRestarts, StartSend
<1>3. ASSUME NEW s \in Sessions, Handler(s) PROVE SeatedOrUnseated'
  <2>1. CASE Challenge(s) BY <2>1 DEF Challenge
  <2>2. CASE Verify(s) BY <2>2 DEF Verify
  <2>3. CASE Register(s)
    BY <2>3 DEF Register, Connect, Unseats, IsConnected
  <2>4. CASE Greet(s) BY <2>4 DEF Greet
  <2>5. CASE GreetFails(s) BY <2>5 DEF GreetFails
  <2>6. CASE FindsLost(s)
    BY <2>6 DEF FindsLost, Hangup, Disconnect, Removes, IsConnected
  <2> QED BY <1>3, <2>1, <2>2, <2>3, <2>4, <2>5, <2>6 DEF Handler
<1>4. ASSUME NEW s \in Sessions, Sender(s) PROVE SeatedOrUnseated'
  BY <1>4
     DEF Sender, SendReturns, SendFails, Disconnect, Removes, IsConnected,
         Unseats
<1>5. ASSUME NEW s \in Sessions,
             TurnAway(s) \/ DatabaseFails(s) \/ Cut(s)
      PROVE  SeatedOrUnseated'
  BY <1>5 DEF TurnAway, DatabaseFails, Cut
<1>6. ASSUME NEW s \in Sessions, ServerTimesOut(s) PROVE SeatedOrUnseated'
  BY <1>6 DEF ServerTimesOut, Hangup, Disconnect, Removes, IsConnected
<1>7. CASE ServerRestarts BY <1>7 DEF ServerRestarts
<1>8. CASE UNCHANGED vars BY <1>8 DEF vars
<1> QED
  BY <1>1, <1>2, <1>3, <1>4, <1>5, <1>6, <1>7, <1>8 DEF Next, Trouble

(* An agent that is served is registered, unless an older handshake or an   *)
(* older send took its entry: never because an older handler ended.         *)
THEOREM ServedIsReached == Spec => []ServedIsReachable
<1>1. Spec => []TypeOK
  BY TypeCorrect
<1>2. Init => HoldsItsOwn /\ SeatedOrUnseated
  BY DEF Init, HoldsItsOwn, SeatedOrUnseated
<1>3. /\ TypeOK /\ HoldsItsOwn /\ SeatedOrUnseated /\ [Next]_vars
      => HoldsItsOwn' /\ SeatedOrUnseated'
  BY HoldsStep, SeatStep DEF LinkInv
<1>4. TypeOK /\ HoldsItsOwn /\ SeatedOrUnseated => ServedIsReachable
  BY DEF HoldsItsOwn, SeatedOrUnseated, ServedIsReachable, Served
<1> QED BY <1>1, <1>2, <1>3, <1>4, PTL DEF Spec

-----------------------------------------------------------------------------
(* A session that is on its way to its registration is not registered.      *)
OnItsWay ==
    \A s \in Sessions :
        srv[s] \in {"lookup", "auth", "marking"} => ~Registered(s)

(* An agent that lets its socket go, or takes another one, makes at most    *)
(* one session of its node lose its socket.                                 *)
LEMMA LetsGo ==
    ASSUME TypeOK, NEW n \in Nodes, UNCHANGED <<connections, HandlerOf>>,
           \A s \in Sessions :
               SockOf'[s] = IF NodeOf[s] = n THEN "lost" ELSE SockOf[s]
    PROVE  Life!Next \/ UNCHANGED Life!lifeVars
<1> USE SessionsAssumption
<1>1. /\ SockOf \in [Sessions -> {"open", "lost"}]
      /\ SockOf' \in [Sessions -> {"open", "lost"}]
  BY DEF SockOf
<1>2. CASE \E s \in Sessions : NodeOf[s] = n /\ SockOf[s] = "open"
  <2>1. PICK s \in Sessions : NodeOf[s] = n /\ SockOf[s] = "open"
    BY <1>2
  <2>2. \A t \in Sessions \ {s} : NodeOf[t] = n => SockOf[t] = "lost"
    BY <2>1 DEF SockOf, Whole
  <2>3. SockOf' = [SockOf EXCEPT ![s] = "lost"]
    BY <1>1, <2>1, <2>2
  <2>4. Life!SocketLost(s) BY <2>1, <2>3 DEF Life!SocketLost
  <2> QED BY <2>4 DEF Life!Next
<1>3. CASE ~\E s \in Sessions : NodeOf[s] = n /\ SockOf[s] = "open"
  <2>1. SockOf' = SockOf BY <1>1, <1>3
  <2> QED BY <2>1 DEF Life!lifeVars
<1> QED BY <1>2, <1>3

(* The steps of the agents.                                                 *)
LEMMA LifeAgentStep ==
    ASSUME TypeOK, NEW n \in Nodes,
           \/ Agent(n) \/ DialFails(n) \/ AgentTimesOut(n)
           \/ AgentRestarts(n)
    PROVE  Life!Next \/ UNCHANGED Life!lifeVars
<1> USE SessionsAssumption, NoneAssumption
       DEF TypeOK, agentVars, serverVars, HandlerOf, SockOf, Whole
<1>1. CASE Dial(n)
  <2>1. PICK s \in Sessions :
          /\ NodeOf[s] = n /\ srv[s] = "off"
          /\ on' = [on EXCEPT ![n] = s]
          /\ srv' = [srv EXCEPT ![s] = "lookup"]
          /\ link' = [link EXCEPT ![s] = "up"]
          /\ UNCHANGED connections
    BY <1>1 DEF Dial, Serves
  <2> HIDE DEF TypeOK
  <2>2. TypeOK OBVIOUS
  <2>3. UNCHANGED HandlerOf BY <2>1, <2>2 DEF TypeOK
  <2>4. \A t \in Sessions :
          SockOf'[t] = IF NodeOf[t] = n THEN "lost" ELSE SockOf[t]
    BY <2>1, <2>2 DEF TypeOK
  <2> HIDE DEF HandlerOf, SockOf
  <2> QED BY <2>1, <2>2, <2>3, <2>4, LetsGo
<1>2. CASE \/ GiveUp(n) \/ AgentTimesOut(n) \/ EndsCleanly(n)
           \/ AgentRestarts(n)
  <2>1. on' = [on EXCEPT ![n] = None] /\ UNCHANGED <<connections, srv, link>>
    BY <1>2 DEF GiveUp, AgentTimesOut, Fails, EndsCleanly, AgentRestarts
  <2> HIDE DEF TypeOK
  <2>2. TypeOK OBVIOUS
  <2>3. UNCHANGED HandlerOf BY <2>1
  <2>4. \A t \in Sessions :
          SockOf'[t] = IF NodeOf[t] = n THEN "lost" ELSE SockOf[t]
    BY <2>1, <2>2 DEF TypeOK
  <2> HIDE DEF HandlerOf, SockOf
  <2> QED BY <2>1, <2>2, <2>3, <2>4, LetsGo
<1>3. CASE Answer(n) \/ Accepted(n) \/ DialFails(n)
  <2>1. UNCHANGED <<connections, on, srv, link>>
    BY <1>3 DEF Answer, Accepted, DialFails
  <2> QED BY <2>1 DEF Life!lifeVars
<1> QED BY <1>1, <1>2, <1>3 DEF Agent

(* The steps of the handlers.                                               *)
LEMMA LifeHandlerStep ==
    ASSUME TypeOK, OnItsWay, NEW s \in Sessions,
           \/ Handler(s) \/ TurnAway(s) \/ ServerTimesOut(s)
           \/ DatabaseFails(s)
    PROVE  Life!Next \/ UNCHANGED Life!lifeVars
<1> USE SessionsAssumption, NoneAssumption
       DEF TypeOK, RegistryType, agentVars, Serves, HandlerOf, SockOf, Whole
<1>1. CASE \/ Challenge(s) \/ Verify(s) \/ TurnAway(s)
           \/ DatabaseFails(s)
  <2>1. /\ UNCHANGED <<connections, on, link>>
        /\ \A t \in Sessions :
              \/ srv'[t] = srv[t]
              \/ srv[t] \notin {"greeting", "loop"} /\ srv'[t] \notin {"greeting", "loop"}
    BY <1>1 DEF Challenge, Verify, TurnAway, DatabaseFails
  <2>2. UNCHANGED <<HandlerOf, SockOf>> BY <2>1
  <2> QED BY <2>1, <2>2 DEF Life!lifeVars
<1>2. CASE Register(s)
  <2>1. ~Life!Registered(s)
    BY <1>2 DEF Register, OnItsWay, Registered, Life!Registered
  <2>2. /\ HandlerOf[s] = "off"
        /\ HandlerOf' = [HandlerOf EXCEPT ![s] = "greeting"]
    BY <1>2 DEF Register
  <2>3. Life!Connect(s) BY <1>2 DEF Register, Connect, Life!Connect
  <2>4. CASE ~Whole(s)
    <3>1. SockOf' = SockOf BY <1>2, <2>4 DEF Register
    <3>2. Life!Arrive(s) BY <2>1, <2>2, <2>3, <3>1 DEF Life!Arrive
    <3> QED BY <3>2 DEF Life!Next
  <2>5. CASE Whole(s)
    <3>1. SockOf' = [SockOf EXCEPT ![s] = "open"]
      BY <1>2, <2>5 DEF Register
    <3>2. \A t \in Sessions : NodeOf[t] = NodeOf[s] => SockOf[t] = "lost"
      BY <1>2, <2>5 DEF Register
    <3>3. Life!Arrive(s) BY <2>1, <2>2, <2>3, <3>1, <3>2 DEF Life!Arrive
    <3> QED BY <3>3 DEF Life!Next
  <2> QED BY <2>4, <2>5
<1>3. CASE Greet(s)
  <2>1. Life!Greeted(s) BY <1>3 DEF Greet, Life!Greeted
  <2> QED BY <2>1 DEF Life!Next
<1>4. CASE GreetFails(s)
  <2>1. Life!GreetingFails(s) BY <1>4 DEF GreetFails, Life!GreetingFails
  <2> QED BY <2>1 DEF Life!Next
<1>5. CASE Hangup(s)
  <2>1. CASE srv[s] = "auth"
    <3>1. UNCHANGED <<connections, HandlerOf, SockOf>>
      BY <1>5, <2>1 DEF Hangup
    <3> QED BY <3>1 DEF Life!lifeVars
  <2>2. CASE srv[s] = "loop"
    <3>1. /\ HandlerOf[s] = "serving"
          /\ HandlerOf' = [HandlerOf EXCEPT ![s] = "off"]
      BY <1>5, <2>2 DEF Hangup
    <3>2. SockOf' = [SockOf EXCEPT ![s] = "lost"]
      BY <1>5, <2>2 DEF Hangup
    <3>3. Life!Disconnect(NodeOf[s], s)
      BY <1>5, <2>2
         DEF Hangup, Disconnect, Removes, IsConnected, Life!Disconnect,
             Life!Removes, Life!IsConnected
    <3>4. Life!HandlerExits(s) BY <3>1, <3>2, <3>3 DEF Life!HandlerExits
    <3> QED BY <3>4 DEF Life!Next
  <2> QED BY <1>5, <2>1, <2>2 DEF Hangup
<1> QED
  BY <1>1, <1>2, <1>3, <1>4, <1>5 DEF Handler, FindsLost, ServerTimesOut

(* Only its handler takes a session on its way any further.                 *)
LEMMA OnItsWayStep ==
    ASSUME TypeOK, OnItsWay, [Next]_vars PROVE OnItsWay'
<1> USE SessionsAssumption, NoneAssumption
       DEF TypeOK, RegistryType, OnItsWay, agentVars, serverVars, Registered,
           Serves
<1>1. ASSUME NEW n \in Nodes, Agent(n) PROVE OnItsWay'
  <2>1. CASE Dial(n)
    <3>1. PICK s \in Sessions :
            /\ ~Registered(s)
            /\ srv' = [srv EXCEPT ![s] = "lookup"]
            /\ UNCHANGED connections
      BY <2>1 DEF Dial
    <3> QED BY <3>1
  <2>2. CASE ~Dial(n)
    BY <1>1, <2>2 DEF Agent, Answer, Accepted, GiveUp, Fails, EndsCleanly
  <2> QED BY <2>1, <2>2
<1>2. ASSUME NEW n \in Nodes,
             \/ DialFails(n) \/ AgentTimesOut(n) \/ AgentRestarts(n)
             \/ StartSend(n)
      PROVE  OnItsWay'
  BY <1>2 DEF DialFails, AgentTimesOut, Fails, AgentRestarts, StartSend
<1>3. ASSUME NEW s \in Sessions, Handler(s) PROVE OnItsWay'
  <2>1. CASE Register(s) BY <2>1 DEF Register, Connect
  <2>2. CASE FindsLost(s)
    BY <2>2 DEF FindsLost, Hangup, Disconnect, Removes, IsConnected
  <2>3. CASE ~Register(s) /\ ~FindsLost(s)
    BY <1>3, <2>3 DEF Handler, Challenge, Verify, Greet, GreetFails
  <2> QED BY <2>1, <2>2, <2>3
<1>4. ASSUME NEW s \in Sessions, Sender(s) \/ ServerTimesOut(s)
      PROVE  OnItsWay'
  BY <1>4
     DEF Sender, SendReturns, SendFails, ServerTimesOut, Hangup, Disconnect,
         Removes, IsConnected
<1>5. ASSUME NEW s \in Sessions,
             TurnAway(s) \/ DatabaseFails(s) \/ Cut(s)
      PROVE  OnItsWay'
  BY <1>5 DEF TurnAway, DatabaseFails, Cut
<1>6. CASE ServerRestarts BY <1>6 DEF ServerRestarts
<1>7. CASE UNCHANGED vars BY <1>7 DEF vars
<1> QED
  BY <1>1, <1>2, <1>3, <1>4, <1>5, <1>6, <1>7 DEF Next, Trouble

(* With both ends of the sockets in view, and whatever goes wrong between   *)
(* them, the sessions are sessions of SessionLife.                          *)
THEOREM SessionsLive == Spec => Life!Safety
<1>1. Init => OnItsWay /\ Life!Init
  BY SessionsAssumption
     DEF OnItsWay, Init, RegistryInit, HandlerOf, SockOf, Life!Init,
         Life!RegistryInit
<1>2. TypeOK /\ OnItsWay /\ [Next]_vars => OnItsWay'
  BY OnItsWayStep
<1>3. ASSUME TypeOK, OnItsWay, [Next]_vars
      PROVE  Life!Next \/ UNCHANGED Life!lifeVars
  <2> USE SessionsAssumption, NoneAssumption
  <2>1. ASSUME NEW s \in Sessions, SendFails(s) PROVE Life!Next
    <3>1. NodeOf[s] \in Nodes /\ SockOf[s] = "lost"
      BY <2>1 DEF SendFails, SockOf
    <3>2. Life!Disconnect(NodeOf[s], None)
      BY <2>1
         DEF SendFails, Disconnect, Removes, IsConnected, Life!Disconnect,
             Life!Removes, Life!IsConnected
    <3>3. UNCHANGED <<HandlerOf, SockOf>>
      BY <2>1 DEF SendFails, agentVars, HandlerOf, SockOf, Whole
    <3>4. Life!SendFails(NodeOf[s])
      BY <3>1, <3>2, <3>3 DEF Life!SendFails
    <3> QED BY <3>1, <3>4 DEF Life!Next
  <2>2. ASSUME NEW s \in Sessions, Cut(s)
        PROVE  Life!Next \/ UNCHANGED Life!lifeVars
    <3> USE <1>3, <2>2
           DEF TypeOK, Cut, agentVars, serverVars, HandlerOf, SockOf, Whole
    <3>1. UNCHANGED <<connections, HandlerOf>> OBVIOUS
    <3>2. CASE SockOf[s] = "open"
      <4>1. SockOf' = [SockOf EXCEPT ![s] = "lost"] BY <3>2
      <4>2. Life!SocketLost(s) BY <3>1, <3>2, <4>1 DEF Life!SocketLost
      <4> QED BY <4>2 DEF Life!Next
    <3>3. CASE SockOf[s] # "open"
      <4>1. UNCHANGED SockOf BY <3>3
      <4> QED BY <3>1, <4>1 DEF Life!lifeVars
    <3> QED BY <3>2, <3>3
  <2>3. CASE ServerRestarts
    <3>1. Life!Restart
      BY <2>3
         DEF ServerRestarts, ClearRegistry, HandlerOf, SockOf, Life!Restart,
             Life!ClearRegistry
    <3> QED BY <3>1 DEF Life!Next
  <2>4. ASSUME \/ \E n \in Nodes : StartSend(n)
               \/ \E s \in Sessions : SendReturns(s)
               \/ UNCHANGED vars
        PROVE  UNCHANGED Life!lifeVars
    <3>1. UNCHANGED <<connections, on, srv, link>>
      BY <2>4 DEF StartSend, SendReturns, vars, agentVars, serverVars
    <3> QED BY <3>1 DEF HandlerOf, SockOf, Whole, Life!lifeVars
  <2> QED
    BY <1>3, <2>1, <2>2, <2>3, <2>4, LifeAgentStep, LifeHandlerStep
       DEF Next, Trouble, Sender
<1>4. TypeOK /\ OnItsWay /\ [Next]_vars
        => [Life!Next]_(Life!lifeVars)
  BY <1>3
<1>5. Spec => []TypeOK
  BY TypeCorrect
<1> QED BY <1>1, <1>2, <1>4, <1>5, PTL DEF Spec, Life!Safety

LifeFacts == INSTANCE SessionLifeProofs WITH handler <- HandlerOf, sock <- SockOf

(* A socket that works is served, and a session with such a socket loses    *)
(* its entry in no other way than a session of SessionLife does.            *)
THEOREM EntriesAreTaken == Spec => []Life!OpenIsServed /\ Life!EntryIsTaken
<1>1. Life!Safety => []Life!OpenIsServed /\ Life!EntryIsTaken
  BY LifeFacts!OpenSocketsAreServed, LifeFacts!EntriesAreTaken,
     SessionsAssumption, NoneAssumption
     DEF Life!Safety, Life!Init, Life!RegistryInit, Life!Next,
         Life!lifeVars, Life!Arrive, Life!Greeted, Life!GreetingFails,
         Life!HandlerExits, Life!SocketLost, Life!SendFails, Life!Restart,
         Life!Registered, Life!Connect, Life!Disconnect, Life!Removes,
         Life!IsConnected, Life!ClearRegistry, Life!OpenIsServed,
         Life!EntryIsTaken,
         LifeFacts!Safety, LifeFacts!Init, LifeFacts!RegistryInit,
         LifeFacts!Next, LifeFacts!lifeVars, LifeFacts!Arrive,
         LifeFacts!Greeted, LifeFacts!GreetingFails, LifeFacts!HandlerExits,
         LifeFacts!SocketLost, LifeFacts!SendFails, LifeFacts!Restart,
         LifeFacts!Registered, LifeFacts!Connect, LifeFacts!Disconnect,
         LifeFacts!Removes, LifeFacts!IsConnected, LifeFacts!ClearRegistry,
         LifeFacts!OpenIsServed, LifeFacts!EntryIsTaken
<1> QED BY <1>1, SessionsLive
=============================================================================
