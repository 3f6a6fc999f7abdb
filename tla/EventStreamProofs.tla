-------------------------- MODULE EventStreamProofs -------------------------
(* Theorems about EventStream, for any nodes, sessions and clients and any  *)
(* size of the queues.                                                      *)
EXTENDS EventStream, TLAPS

(* One event more at the end of a queue, or one less at its head.           *)
LEMMA QueueEnds ==
    ASSUME NEW T, NEW q \in Seq(T), NEW e \in T
    PROVE /\ Append(q, e) \in Seq(T)
          /\ Len(Append(q, e)) = Len(q) + 1
          /\ Append(q, e)[Len(q) + 1] = e
          /\ \A i \in 1..Len(q) : Append(q, e)[i] = q[i]
          /\ q # <<>> =>
                /\ Len(q) \in Nat \ {0}
                /\ Head(q) = q[1] /\ Head(q) \in T
                /\ Tail(q) \in Seq(T)
                /\ Len(Tail(q)) = Len(q) - 1
                /\ \A i \in 1..(Len(q) - 1) : Tail(q)[i] = q[i + 1]
OBVIOUS

(* A broadcast reaches every queue with room and takes the others off the   *)
(* list.                                                                    *)
LEMMA BroadcastTypes ==
    ASSUME TypeOK, NEW n \in Nodes, NEW kind \in Kinds, Broadcast(n, kind)
    PROVE /\ subscribers' \subseteq Clients
          /\ queue' \in [Clients -> Seq(Events)]
          /\ \A c \in Clients : Len(queue'[c]) <= QueueSize
<1> DEFINE e == [node |-> n, event |-> kind]
<1>1. e \in Events
  BY DEF Events
<1>2. queue' = [c \in Clients |->
                   IF c \in subscribers /\ ~Full(c) THEN Append(queue[c], e) ELSE queue[c]]
  BY DEF Broadcast
<1>3. subscribers' \subseteq Clients
  BY DEF Broadcast, TypeOK
<1> HIDE DEF e
<1>4. ASSUME NEW c \in Clients
      PROVE  queue'[c] \in Seq(Events) /\ Len(queue'[c]) <= QueueSize
  <2>1. queue[c] \in Seq(Events) /\ Len(queue[c]) \in Nat /\ Len(queue[c]) <= QueueSize
    BY DEF TypeOK
  <2>2. Append(queue[c], e) \in Seq(Events) /\ Len(Append(queue[c], e)) = Len(queue[c]) + 1
    BY <1>1, <2>1, QueueEnds
  <2> QED BY <1>2, <2>1, <2>2, QueueAssumption DEF Full
<1> QED BY <1>2, <1>3, <1>4

(* The variables keep their types, and no queue grows beyond its size.      *)
THEOREM TypeCorrect == Spec => []TypeOK
<1>1. Init => TypeOK
  BY QueueAssumption DEF Init, TypeOK, RegistryInit, RegistryType, NothingTold
<1>2. TypeOK /\ [Next]_vars => TypeOK'
  <2> SUFFICES ASSUME TypeOK, [Next]_vars PROVE TypeOK'
    OBVIOUS
  <2> USE SessionsAssumption DEF RegistryType
  <2>1. ASSUME NEW s \in Sessions, ConnectAndTell(s) PROVE TypeOK'
    <3>1. NodeOf[s] \in Nodes /\ "node_connected" \in Kinds
      BY DEF Kinds
    <3> QED BY <2>1, <3>1, BroadcastTypes DEF ConnectAndTell, Connect, TypeOK
  <2>2. ASSUME NEW n \in Nodes, NEW x \in Sessions \cup {None}, DisconnectAndTell(n, x)
        PROVE TypeOK'
    <3>1. "node_disconnected" \in Kinds
      BY DEF Kinds
    <3> QED BY <2>2, <3>1, BroadcastTypes DEF DisconnectAndTell, Disconnect, TypeOK
  <2>3. ASSUME NEW c \in Clients, Subscribe(c) PROVE TypeOK'
    BY <2>3, QueueAssumption DEF Subscribe, TypeOK, NothingTold
  <2>4. ASSUME NEW c \in Clients, Open(c) \/ Leave(c) PROVE TypeOK'
    BY <2>4 DEF Open, Leave, TypeOK
  <2>5. ASSUME NEW c \in Clients, Take(c) PROVE TypeOK'
    <3>1. /\ Len(queue[c]) \in Nat /\ Head(queue[c]) \in Events
          /\ Tail(queue[c]) \in Seq(Events)
          /\ Len(Tail(queue[c])) = Len(queue[c]) - 1
      BY <2>5, QueueEnds DEF Take, TypeOK
    <3>2. Head(queue[c]).node \in Nodes /\ Head(queue[c]).event \in Kinds
      BY <3>1 DEF Events
    <3>3. queue' \in [Clients -> Seq(Events)] /\ \A d \in Clients : Len(queue'[d]) <= QueueSize
      BY <2>5, <3>1, QueueAssumption DEF Take, TypeOK
    <3>4. told' \in [Clients -> [Nodes -> Kinds \cup {None}]]
      BY <2>5, <3>2 DEF Take, TypeOK
    <3> QED BY <2>5, <3>3, <3>4 DEF Take, TypeOK
  <2>6. CASE Restart
    BY <2>6, QueueAssumption DEF Restart, ClearRegistry, TypeOK, NothingTold
  <2>7. CASE UNCHANGED vars
    BY <2>7 DEF vars, TypeOK
  <2> QED BY <2>1, <2>2, <2>3, <2>4, <2>5, <2>6, <2>7 DEF Next, SessionStep, ClientStep
<1> QED BY <1>1, <1>2, PTL DEF Spec
-----------------------------------------------------------------------------
(* What NewsIsTrue says of one client and one node.                         *)
True(c, n) ==
    /\ Waiting(c, n) = {} => told[c][n] \in {None, Status(n)}
    /\ \A i \in Waiting(c, n) :
           (\A j \in Waiting(c, n) : j <= i) => queue[c][i].event = Status(n)

(* A broadcast is the last event about its own node, and leaves those about *)
(* the others as they were.                                                 *)
LEMMA BroadcastIsNews ==
    ASSUME TypeOK, NewsIsTrue, NEW m \in Nodes, NEW kind \in Kinds, Broadcast(m, kind),
           kind = Status(m)', \A n \in Nodes \ {m} : Status(n)' = Status(n), told' = told
    PROVE  NewsIsTrue'
<1> SUFFICES ASSUME NEW c \in subscribers', NEW n \in Nodes PROVE True(c, n)'
  BY DEF NewsIsTrue, True
<1> DEFINE e == [node |-> m, event |-> kind]
<1>1. c \in Clients /\ c \in subscribers /\ queue'[c] = Append(queue[c], e)
  BY DEF Broadcast, TypeOK
<1>2. e \in Events /\ e.node = m /\ e.event = kind
  BY DEF Events
<1>3. queue[c] \in Seq(Events) /\ Len(queue[c]) \in Nat
  BY <1>1 DEF TypeOK
<1>4. True(c, n)
  BY <1>1 DEF NewsIsTrue, True
<1> HIDE DEF e
<1>5. /\ Len(queue'[c]) = Len(queue[c]) + 1
      /\ queue'[c][Len(queue[c]) + 1] = e
      /\ \A i \in 1..Len(queue[c]) : queue'[c][i] = queue[c][i]
  BY <1>1, <1>2, <1>3, QueueEnds
<1>6. CASE n = m
  <2>1. Len(queue[c]) + 1 \in Waiting(c, n)'
    BY <1>2, <1>3, <1>5, <1>6 DEF Waiting
  <2>2. ASSUME NEW i \in Waiting(c, n)', \A j \in Waiting(c, n)' : j <= i
        PROVE  i = Len(queue[c]) + 1
    BY <1>3, <1>5, <2>1, <2>2 DEF Waiting
  <2> QED BY <1>2, <1>5, <1>6, <2>1, <2>2 DEF True
<1>7. CASE n # m
  <2>1. Waiting(c, n)' = Waiting(c, n)
    BY <1>2, <1>3, <1>5, <1>7 DEF Waiting
  <2>2. \A i \in Waiting(c, n) : queue'[c][i] = queue[c][i]
    BY <1>5 DEF Waiting
  <2> QED BY <1>4, <1>7, <2>1, <2>2 DEF True
<1> QED BY <1>6, <1>7

(* An event that is taken is told: nothing newer is lost.                   *)
LEMMA TakeKeepsNews ==
    ASSUME TypeOK, NewsIsTrue, NEW d \in Clients, Take(d)
    PROVE  NewsIsTrue'
<1> SUFFICES ASSUME NEW c \in subscribers', NEW n \in Nodes PROVE True(c, n)'
  BY DEF NewsIsTrue, True
<1>1. c \in Clients /\ True(c, n) /\ Status(n)' = Status(n)
  BY DEF Take, TypeOK, NewsIsTrue, True, Status, IsConnected
<1>2. CASE c # d
  BY <1>1, <1>2 DEF Take, TypeOK, True, Waiting
<1>3. CASE c = d
  <2> DEFINE q == queue[c]
  <2>1. q \in Seq(Events) /\ q # <<>> /\ queue'[c] = Tail(q)
    BY <1>1, <1>3 DEF Take, TypeOK
  <2>2. told'[c][n] = IF q[1].node = n THEN q[1].event ELSE told[c][n]
    <3>1. Head(q) = q[1] BY <2>1, QueueEnds
    <3>2. told' = [told EXCEPT ![c][q[1].node] = q[1].event] BY <1>3, <3>1 DEF Take
    <3> HIDE DEF q
    <3> QED BY <1>1, <3>2 DEF TypeOK
  <2>3. /\ Len(q) \in Nat \ {0} /\ Len(queue'[c]) = Len(q) - 1
        /\ \A i \in 1..(Len(q) - 1) : queue'[c][i] = q[i + 1]
    BY <2>1, QueueEnds
  <2>4. Waiting(c, n) = {i \in 1..Len(q) : q[i].node = n}
    BY DEF Waiting
  <2> HIDE DEF q
  <2>5. \A i \in Waiting(c, n)' : i \in Nat /\ i + 1 \in Waiting(c, n) /\ queue'[c][i] = q[i + 1]
    BY <2>3, <2>4 DEF Waiting
  <2>6. \A i \in Waiting(c, n) : i \in Nat /\ (i = 1 \/ i - 1 \in Waiting(c, n)')
    BY <2>3, <2>4 DEF Waiting
  <2>7. \A i \in Waiting(c, n) : (\A j \in Waiting(c, n) : j <= i) => q[i].event = Status(n)
    BY <1>1 DEF True, q
  <2>8. ASSUME Waiting(c, n)' = {} PROVE told'[c][n] \in {None, Status(n)}
    <3>1. CASE q[1].node = n
      <4>1. 1 \in Waiting(c, n) /\ \A j \in Waiting(c, n) : j <= 1
        BY <2>3, <2>4, <2>6, <2>8, <3>1
      <4> QED BY <2>2, <2>7, <3>1, <4>1
    <3>2. CASE q[1].node # n
      <4>1. Waiting(c, n) = {}
        BY <2>4, <2>6, <2>8, <3>2
      <4> QED BY <1>1, <2>2, <3>2, <4>1 DEF True
    <3> QED BY <3>1, <3>2
  <2>9. ASSUME NEW i \in Waiting(c, n)', \A j \in Waiting(c, n)' : j <= i
        PROVE  queue'[c][i].event = Status(n)
    <3>1. \A j \in Waiting(c, n) : j <= i + 1
      BY <2>5, <2>6, <2>9
    <3> QED BY <2>5, <2>7, <3>1
  <2> QED BY <1>1, <2>8, <2>9 DEF True
<1> QED BY <1>2, <1>3

(* A subscriber never misses the last change of a node.                     *)
THEOREM SubscribersAreCurrent == Spec => []NewsIsTrue
<1>1. Init => NewsIsTrue
  BY DEF Init, NewsIsTrue
<1>2. TypeOK /\ NewsIsTrue /\ [Next]_vars => NewsIsTrue'
  <2> SUFFICES ASSUME TypeOK, NewsIsTrue, [Next]_vars PROVE NewsIsTrue'
    OBVIOUS
  <2> USE SessionsAssumption, NoneAssumption DEF RegistryType
  <2>1. ASSUME NEW s \in Sessions, ConnectAndTell(s) PROVE NewsIsTrue'
    <3>1. /\ NodeOf[s] \in Nodes /\ "node_connected" \in Kinds
          /\ Status(NodeOf[s])' = "node_connected"
          /\ \A n \in Nodes \ {NodeOf[s]} : Status(n)' = Status(n)
      BY <2>1 DEF ConnectAndTell, Connect, Kinds, Status, IsConnected, TypeOK
    <3> QED BY <2>1, <3>1, BroadcastIsNews DEF ConnectAndTell
  <2>2. ASSUME NEW m \in Nodes, NEW x \in Sessions \cup {None}, DisconnectAndTell(m, x)
        PROVE NewsIsTrue'
    <3>1. /\ "node_disconnected" \in Kinds
          /\ Status(m)' = "node_disconnected"
          /\ \A n \in Nodes \ {m} : Status(n)' = Status(n)
      BY <2>2 DEF DisconnectAndTell, Disconnect, Kinds, Status, IsConnected, TypeOK
    <3> QED BY <2>2, <3>1, BroadcastIsNews DEF DisconnectAndTell
  <2>3. ASSUME NEW d \in Clients, Subscribe(d) PROVE NewsIsTrue'
    <3> SUFFICES ASSUME NEW c \in subscribers', NEW n \in Nodes PROVE True(c, n)'
      BY DEF NewsIsTrue, True
    <3>1. CASE c = d
      <4>1. queue'[c] = <<>> /\ told'[c][n] = None
        BY <2>3, <3>1 DEF Subscribe, TypeOK, NothingTold
      <4>2. Waiting(c, n)' = {}
        BY <4>1 DEF Waiting
      <4> QED BY <4>1, <4>2 DEF True
    <3>2. CASE c # d
      <4>1. c \in subscribers /\ queue'[c] = queue[c] /\ told'[c] = told[c]
        BY <2>3, <3>2 DEF Subscribe, TypeOK
      <4> QED BY <2>3, <4>1 DEF Subscribe, NewsIsTrue, True, Waiting, Status, IsConnected
    <3> QED BY <3>1, <3>2
  <2>4. ASSUME NEW d \in Clients, Open(d) \/ Leave(d) PROVE NewsIsTrue'
    BY <2>4 DEF Open, Leave, NewsIsTrue, Waiting, Status, IsConnected
  <2>5. ASSUME NEW d \in Clients, Take(d) PROVE NewsIsTrue'
    BY <2>5, TakeKeepsNews
  <2>6. CASE Restart
    BY <2>6 DEF Restart, NewsIsTrue
  <2>7. CASE UNCHANGED vars
    BY <2>7 DEF vars, NewsIsTrue, Waiting, Status, IsConnected
  <2> QED BY <2>1, <2>2, <2>3, <2>4, <2>5, <2>6, <2>7 DEF Next, SessionStep, ClientStep
<1> QED BY <1>1, <1>2, TypeCorrect, PTL DEF Spec
=============================================================================
