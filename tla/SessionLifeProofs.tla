-------------------------- MODULE SessionLifeProofs -------------------------
(* Theorems about SessionLife, for any nodes and sessions.  The proofs of   *)
(* the modules that implement it instantiate this module and hold them for  *)
(* their own sessions.                                                      *)
EXTENDS SessionLife, TLAPS

LifeType ==
    /\ RegistryType
    /\ handler \in [Sessions -> {"off", "greeting", "serving"}]
    /\ sock \in [Sessions -> {"open", "lost"}]

(* The three variables keep their types.                                    *)
LEMMA TypeCorrect == Safety => []LifeType
<1>1. Init => LifeType
  BY DEF Init, LifeType, RegistryInit, RegistryType
<1>2. LifeType /\ [Next]_lifeVars => LifeType'
  <2> USE SessionsAssumption DEF LifeType, RegistryType, lifeVars
  <2>1. ASSUME LifeType, NEW s \in Sessions, Arrive(s) PROVE LifeType'
    BY <2>1 DEF Arrive, Connect
  <2>2. ASSUME LifeType, NEW s \in Sessions,
               Greeted(s) \/ GreetingFails(s) \/ SocketLost(s)
        PROVE  LifeType'
    BY <2>2 DEF Greeted, GreetingFails, SocketLost
  <2>3. ASSUME LifeType, NEW s \in Sessions, HandlerExits(s) PROVE LifeType'
    BY <2>3 DEF HandlerExits, Disconnect
  <2>4. ASSUME LifeType, NEW n \in Nodes, SendFails(n) PROVE LifeType'
    BY <2>4 DEF SendFails, Disconnect
  <2>5. ASSUME LifeType, Restart PROVE LifeType'
    BY <2>5 DEF Restart, ClearRegistry
  <2> QED BY <2>1, <2>2, <2>3, <2>4, <2>5 DEF Next
<1> QED BY <1>1, <1>2, PTL DEF Safety

(* A socket that works has a handler, and an agent has one such socket.     *)
THEOREM OpenSocketsAreServed == Safety => []OpenIsServed
<1>1. Init => OpenIsServed
  BY DEF Init, OpenIsServed
<1>2. LifeType /\ OpenIsServed /\ [Next]_lifeVars => OpenIsServed'
  <2> SUFFICES ASSUME LifeType, OpenIsServed, [Next]_lifeVars PROVE OpenIsServed'
    OBVIOUS
  <2> USE DEF LifeType, OpenIsServed, lifeVars
  <2>1. ASSUME NEW s \in Sessions, Arrive(s) PROVE OpenIsServed'
    BY <2>1 DEF Arrive
  <2>2. ASSUME NEW s \in Sessions,
               Greeted(s) \/ GreetingFails(s) \/ HandlerExits(s) \/ SocketLost(s)
        PROVE  OpenIsServed'
    BY <2>2 DEF Greeted, GreetingFails, HandlerExits, SocketLost
  <2>3. CASE Restart BY <2>3 DEF Restart
  <2>4. ASSUME NEW n \in Nodes, SendFails(n) PROVE OpenIsServed'
    BY <2>4 DEF SendFails
  <2>5. CASE UNCHANGED lifeVars BY <2>5
  <2> QED BY <2>1, <2>2, <2>3, <2>4, <2>5 DEF Next
<1> QED BY <1>1, <1>2, TypeCorrect, PTL DEF Safety

(* What takes the entry of a session whose socket works.                    *)
THEOREM EntriesAreTaken == Safety => EntryIsTaken
<1> DEFINE Taken(s) ==
        \/ handler'[s] = "off"
        \/ \E t \in Sessions \ {s} :
               /\ NodeOf[t] = NodeOf[s]
               /\ \/ handler[t] = "off" /\ handler'[t] = "greeting"
                  \/ sock[t] = "lost" /\ UNCHANGED handler
<1>1. ASSUME LifeType, [Next]_lifeVars, NEW s \in Sessions,
             Registered(s), sock[s] = "open", ~Registered(s)'
      PROVE  Taken(s)
  <2> USE <1>1, SessionsAssumption, NoneAssumption
      DEF LifeType, RegistryType, Registered, lifeVars
  <2>1. ASSUME NEW t \in Sessions, Arrive(t) PROVE Taken(s)
    BY <2>1 DEF Arrive, Connect
  <2>2. ASSUME NEW t \in Sessions, HandlerExits(t) PROVE Taken(s)
    BY <2>2 DEF HandlerExits, Disconnect, Removes, IsConnected
  <2>3. ASSUME NEW n \in Nodes, SendFails(n) PROVE Taken(s)
    BY <2>3 DEF SendFails, Disconnect, Removes, IsConnected
  <2>4. CASE Restart BY <2>4 DEF Restart
  <2>5. ASSUME NEW t \in Sessions, Greeted(t) \/ GreetingFails(t) \/ SocketLost(t)
        PROVE  FALSE
    BY <2>5 DEF Greeted, GreetingFails, SocketLost
  <2>6. CASE UNCHANGED lifeVars BY <2>6
  <2> QED BY <2>1, <2>2, <2>3, <2>4, <2>5, <2>6 DEF Next
<1>2. LifeType /\ [Next]_lifeVars =>
        [\A s \in Sessions :
            Registered(s) /\ sock[s] = "open" /\ ~Registered(s)' => Taken(s)]_lifeVars
  BY <1>1
<1> QED BY <1>2, TypeCorrect, PTL DEF Safety, EntryIsTaken
=============================================================================
