---------------------------- MODULE SessionLife -----------------------------
(***************************************************************************)
(* The life of a session as the rest of the server sees it: what may happen *)
(* to the registry, to the handlers that serve registered sessions and to   *)
(* their sockets, without the handshake and the database.  NodePresence     *)
(* and AgentLink implement it with all that the two ends await;             *)
(* CommandExecution and FileTransfers, which take their sessions as given,  *)
(* implement it with what waits on a session.                               *)
(***************************************************************************)
EXTENDS ConnectionRegistry

VARIABLES
    handler,    \* handler[s]: "off", "greeting" once registered, "serving"
    sock        \* sock[s]: whether the socket of a registered session works

lifeVars == <<connections, handler, sock>>

Init ==
    /\ RegistryInit
    /\ handler = [s \in Sessions |-> "off"]
    /\ sock = [s \in Sessions |-> "lost"]

(* A session registers; an identity is used again once it left the          *)
(* registry.  The agent may have given up the socket by then, for a newer   *)
(* one or for none.                                                         *)
Arrive(s) ==
    /\ handler[s] = "off" /\ ~Registered(s)
    /\ handler' = [handler EXCEPT ![s] = "greeting"]
    /\ \/ sock' = sock
       \/ /\ \A t \in Sessions : NodeOf[t] = NodeOf[s] => sock[t] = "lost"
          /\ sock' = [sock EXCEPT ![s] = "open"]
    /\ Connect(s)

Greeted(s) ==
    /\ handler[s] = "greeting"
    /\ handler' = [handler EXCEPT ![s] = "serving"]
    /\ UNCHANGED <<connections, sock>>

(* The only end of a handler that leaves the session's entry behind.        *)
GreetingFails(s) ==
    /\ handler[s] = "greeting" /\ sock[s] = "lost"
    /\ handler' = [handler EXCEPT ![s] = "off"]
    /\ UNCHANGED <<connections, sock>>

HandlerExits(s) ==
    /\ handler[s] = "serving"
    /\ handler' = [handler EXCEPT ![s] = "off"]
    /\ sock' = [sock EXCEPT ![s] = "lost"]
    /\ Disconnect(NodeOf[s], s)

SocketLost(s) ==
    /\ sock[s] = "open"
    /\ sock' = [sock EXCEPT ![s] = "lost"]
    /\ UNCHANGED <<connections, handler>>

(* A send on some socket of the node fails, and the session registered by   *)
(* then loses its entry.                                                    *)
SendFails(n) ==
    /\ \E s \in Sessions : NodeOf[s] = n /\ sock[s] = "lost"
    /\ Disconnect(n, None)
    /\ UNCHANGED <<handler, sock>>

Restart ==
    /\ ClearRegistry
    /\ handler' = [s \in Sessions |-> "off"]
    /\ sock' = [s \in Sessions |-> "lost"]

Next ==
    \/ \E s \in Sessions :
        \/ Arrive(s) \/ Greeted(s) \/ GreetingFails(s)
        \/ HandlerExits(s) \/ SocketLost(s)
    \/ \E n \in Nodes : SendFails(n)
    \/ Restart

Safety == Init /\ [][Next]_lifeVars

(* A served session whose socket is lost ends, and its entry with it.       *)
Spec ==
    /\ Safety
    /\ \A s \in Sessions :
        (handler[s] = "serving" /\ sock[s] = "lost" /\ Registered(s)) ~> ~Registered(s)

-----------------------------------------------------------------------------
(* What follows for whatever relies on sessions.                            *)

(* A socket that works has a handler, and an agent has one such socket.     *)
OpenIsServed ==
    /\ \A s \in Sessions : sock[s] = "open" => handler[s] # "off"
    /\ \A s, t \in Sessions :
           NodeOf[s] = NodeOf[t] /\ sock[s] = "open" /\ sock[t] = "open" => s = t

(* A session whose socket works loses its entry with the end of its own     *)
(* handler, to a session of the same node that registers, or by a send that *)
(* fails on a lost socket of the node: never because another handler ends   *)
(* (connection_manager.py:57-91, 113-125, 142-154).                         *)
EntryIsTaken ==
    [][\A s \in Sessions : Registered(s) /\ sock[s] = "open" /\ ~Registered(s)' =>
        \/ handler'[s] = "off"
        \/ \E t \in Sessions \ {s} :
               /\ NodeOf[t] = NodeOf[s]
               /\ \/ handler[t] = "off" /\ handler'[t] = "greeting"
                  \/ sock[t] = "lost" /\ UNCHANGED handler]_lifeVars
=============================================================================
