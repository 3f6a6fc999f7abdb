------------------------- MODULE ConnectionRegistry -------------------------
(***************************************************************************)
(* The connection registry of server/services/connection_manager.py: the   *)
(* dictionary _connections from a node to the ConnectionState that serves   *)
(* it, and the two methods that change it.  A ConnectionState is identified *)
(* with the WebSocket session that built it; NodeOf[s] is its node_id,      *)
(* which the code never changes.                                            *)
(*                                                                          *)
(* connect() and disconnect() hold an asyncio lock and contain no await     *)
(* that suspends (the only contender for the lock is the other of the two,  *)
(* and _broadcast_event never waits), so each is one atomic step.           *)
(***************************************************************************)
CONSTANTS
    Nodes,      \* registered Pi nodes
    Sessions,   \* identities of ConnectionState objects
    NodeOf,     \* ConnectionState.node_id
    None        \* Python's None

ASSUME SessionsAssumption == NodeOf \in [Sessions -> Nodes]
ASSUME NoneAssumption == None \notin Sessions

VARIABLE connections    \* _connections: the session registered for each node

RegistryType == connections \in [Nodes -> Sessions \cup {None}]

RegistryInit == connections = [n \in Nodes |-> None]

IsConnected(n) == connections[n] # None

Registered(s) == connections[NodeOf[s]] = s

(* connect(): the old entry of the node is replaced, never kept.            *)
Connect(s) == connections' = [connections EXCEPT ![NodeOf[s]] = s]

(* The test of disconnect(): with expected_state = None any entry goes,     *)
(* otherwise only the expected one.                                         *)
Removes(n, expected) ==
    /\ IsConnected(n)
    /\ expected \in {None, connections[n]}

(* disconnect(): returns TRUE exactly when Removes holds.                   *)
Disconnect(n, expected) ==
    connections' = IF Removes(n, expected)
                   THEN [connections EXCEPT ![n] = None]
                   ELSE connections

(* A new process starts with an empty dictionary.                           *)
ClearRegistry == connections' = [n \in Nodes |-> None]
=============================================================================
