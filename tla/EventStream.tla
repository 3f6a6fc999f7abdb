----------------------------- MODULE EventStream ----------------------------
(***************************************************************************)
(* The event stream of the dashboard: subscribe_events(),                   *)
(* unsubscribe_events() and _broadcast_event() of                           *)
(* server/services/connection_manager.py, the events that connect() and     *)
(* disconnect() tell, and the endpoint GET /api/events with its generator.  *)
(*                                                                          *)
(* Each subscriber owns a bounded queue.  A broadcast never waits: a        *)
(* subscriber whose queue is full is taken off the list, and its stream     *)
(* goes on with keepalives.  The endpoint subscribes before the generator   *)
(* begins, and only the generator unsubscribes: a client that leaves before *)
(* that leaves its queue behind.                                            *)
(***************************************************************************)
EXTENDS ConnectionRegistry, Naturals, Sequences

CONSTANTS
    Clients,    \* requests for the event stream
    QueueSize   \* Queue(maxsize=256)

ASSUME QueueAssumption == QueueSize \in Nat \ {0}

VARIABLES
    subscribers,    \* _event_subscribers: clients whose queue is on the list
    queue,          \* queue[c]: events not yet taken by the stream of c
    stage,          \* stage[c]: "out", "opening" or "streaming"
    told            \* told[c][n]: the last event about n that c received

vars == <<connections, subscribers, queue, stage, told>>

Kinds == {"node_connected", "node_disconnected"}
Events == [node : Nodes, event : Kinds]

TypeOK ==
    /\ RegistryType
    /\ subscribers \subseteq Clients
    /\ queue \in [Clients -> Seq(Events)]
    /\ \A c \in Clients : Len(queue[c]) <= QueueSize
    /\ stage \in [Clients -> {"out", "opening", "streaming"}]
    /\ told \in [Clients -> [Nodes -> Kinds \cup {None}]]

NothingTold == [n \in Nodes |-> None]

Init ==
    /\ RegistryInit
    /\ subscribers = {}
    /\ queue = [c \in Clients |-> <<>>]
    /\ stage = [c \in Clients |-> "out"]
    /\ told = [c \in Clients |-> NothingTold]

-----------------------------------------------------------------------------
(* The broadcasts.                                                          *)

Full(c) == Len(queue[c]) = QueueSize

(* Mutant of Broadcast: a full queue is passed over and stays on the list.  *)
BroadcastPassing(n, kind) ==
    /\ queue' = [c \in Clients |->
                    IF c \in subscribers /\ ~Full(c)
                    THEN Append(queue[c], [node |-> n, event |-> kind])
                    ELSE queue[c]]
    /\ UNCHANGED subscribers

(* Mutant of Broadcast: no bound on the queue.                              *)
BroadcastUnbounded(n, kind) ==
    /\ queue' = [c \in Clients |->
                    IF c \in subscribers
                    THEN Append(queue[c], [node |-> n, event |-> kind])
                    ELSE queue[c]]
    /\ UNCHANGED subscribers

(* _broadcast_event(): put_nowait() on every queue; the full ones go.       *)
Broadcast(n, kind) ==
    /\ queue' = [c \in Clients |->
                    IF c \in subscribers /\ ~Full(c)
                    THEN Append(queue[c], [node |-> n, event |-> kind])
                    ELSE queue[c]]
    /\ subscribers' = {c \in subscribers : ~Full(c)}

(* connect(), also when it replaces a session of the same node.             *)
ConnectAndTell(s) ==
    /\ ~Registered(s)
    /\ Connect(s)
    /\ Broadcast(NodeOf[s], "node_connected")
    /\ UNCHANGED <<stage, told>>

(* Mutant of DisconnectAndTell: a stale disconnect is told, too.            *)
DisconnectTellingStale(n, expected) ==
    /\ Disconnect(n, expected)
    /\ Broadcast(n, "node_disconnected")
    /\ UNCHANGED <<stage, told>>

(* disconnect(): a stale one changes and tells nothing.                     *)
DisconnectAndTell(n, expected) ==
    /\ Removes(n, expected)
    /\ Disconnect(n, expected)
    /\ Broadcast(n, "node_disconnected")
    /\ UNCHANGED <<stage, told>>

-----------------------------------------------------------------------------
(* GET /api/events.                                                         *)

Subscribe(c) ==
    /\ stage[c] = "out" /\ c \notin subscribers
    /\ stage' = [stage EXCEPT ![c] = "opening"]
    /\ subscribers' = subscribers \cup {c}
    /\ queue' = [queue EXCEPT ![c] = <<>>]
    /\ told' = [told EXCEPT ![c] = NothingTold]
    /\ UNCHANGED connections

(* The response has begun and generate() runs.                              *)
Open(c) ==
    /\ stage[c] = "opening"
    /\ stage' = [stage EXCEPT ![c] = "streaming"]
    /\ UNCHANGED <<connections, subscribers, queue, told>>

(* Mutant of Take: the event that ends a wait after its timeout is lost.    *)
TakeLosing(c) ==
    /\ stage[c] = "streaming" /\ queue[c] # <<>>
    /\ queue' = [queue EXCEPT ![c] = Tail(@)]
    /\ \/ told' = [told EXCEPT ![c][Head(queue[c]).node] = Head(queue[c]).event]
       \/ UNCHANGED told
    /\ UNCHANGED <<connections, subscribers, stage>>

(* wait_for(q.get(), 30) returns an event; a timeout is a keepalive.        *)
Take(c) ==
    /\ stage[c] = "streaming" /\ queue[c] # <<>>
    /\ queue' = [queue EXCEPT ![c] = Tail(@)]
    /\ told' = [told EXCEPT ![c][Head(queue[c]).node] = Head(queue[c]).event]
    /\ UNCHANGED <<connections, subscribers, stage>>

(* The client is gone: the finally block of a generator that has begun.     *)
Leave(c) ==
    /\ stage[c] # "out"
    /\ stage' = [stage EXCEPT ![c] = "out"]
    /\ subscribers' = IF stage[c] = "streaming" THEN subscribers \ {c} ELSE subscribers
    /\ UNCHANGED <<connections, queue, told>>

(* The process dies: the list, the queues and the streams with it.          *)
Restart ==
    /\ ClearRegistry
    /\ subscribers' = {}
    /\ queue' = [c \in Clients |-> <<>>]
    /\ stage' = [c \in Clients |-> "out"]
    /\ told' = [c \in Clients |-> NothingTold]

-----------------------------------------------------------------------------
SessionStep ==
    \/ \E s \in Sessions : ConnectAndTell(s)
    \/ \E n \in Nodes : \E expected \in Sessions \cup {None} :
           DisconnectAndTell(n, expected)

ClientStep(c) == Subscribe(c) \/ Open(c) \/ Take(c) \/ Leave(c)

Next ==
    \/ SessionStep
    \/ \E c \in Clients : ClientStep(c)
    \/ Restart

Spec == Init /\ [][Next]_vars

(* The event loop runs each generator that has an event to yield.           *)
FairSpec ==
    /\ Spec
    /\ \A c \in Clients : WF_vars(Open(c)) /\ WF_vars(Take(c))

-----------------------------------------------------------------------------
(* Properties.                                                              *)

Status(n) == IF IsConnected(n) THEN "node_connected" ELSE "node_disconnected"

(* The events about n that c will find in its queue.                        *)
Waiting(c, n) == {i \in 1..Len(queue[c]) : queue[c][i].node = n}

(* A subscriber never misses the last change of a node: what it finds last  *)
(* in its queue, or was told last, agrees with the registry, whichever of   *)
(* the competing connects and disconnects won                               *)
(* (connection_manager.py:67-122).                                          *)
NewsIsTrue ==
    \A c \in subscribers, n \in Nodes :
        /\ Waiting(c, n) = {} => told[c][n] \in {None, Status(n)}
        /\ \A i \in Waiting(c, n) :
               (\A j \in Waiting(c, n) : j <= i) => queue[c][i].event = Status(n)

(* Once the nodes no longer come and go, a client that stays and was not    *)
(* cut off learns the state of every node it is owed an event about         *)
(* (routes.py:808-820).                                                     *)
Attentive(c) == stage[c] # "out" /\ c \in subscribers

Heard ==
    <>[][FALSE]_connections =>
        \A c \in Clients, n \in Nodes :
            (Attentive(c) /\ (Waiting(c, n) # {} \/ told[c][n] # None))
                ~> (told[c][n] = Status(n) \/ ~Attentive(c))

(* The queue of a client that left before its stream began does not stay on *)
(* the list for ever as long as nodes come and go: it fills up and is       *)
(* dropped (connection_manager.py:253-261, routes.py:806).                  *)
LeakIsFound ==
    []<><<SessionStep>>_vars =>
        \A c \in Clients :
            (stage[c] = "out" /\ c \in subscribers) ~> (c \notin subscribers)
=============================================================================
