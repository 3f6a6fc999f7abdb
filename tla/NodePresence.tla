---------------------------- MODULE NodePresence ----------------------------
(***************************************************************************)
(* Who is connected, and what the nodes table says about it.               *)
(*                                                                          *)
(* The WebSocket handler of server/api/node_ws.py (one coroutine per        *)
(* session), ConnectionManager.send of connection_manager.py, and           *)
(* offline_watchdog of background.py, which interleave at their awaits      *)
(* around the registry and the columns status and last_seen of Node.        *)
(*                                                                          *)
(* Time is not counted: last_seen is "fresh" until Age makes it older than  *)
(* three heartbeat intervals, and a receive timeout is a step LeaveLoop may *)
(* take at any moment.  Database statements take effect at their commit; a  *)
(* row updated by an uncommitted watchdog pass is locked, so that the other *)
(* writers of the row wait.                                                 *)
(***************************************************************************)
EXTENDS ConnectionRegistry, Naturals, FiniteSets

CONSTANTS
    OperatorStatuses,   \* statuses an operator writes with PATCH /api/nodes
    MaxSends,           \* bound: sends awaiting on one session at a time
    MaxFaults           \* bound: server crashes and failed watchdog passes

ASSUME OperatorAssumption ==
    OperatorStatuses \subseteq {"pending", "online", "offline", "disabled"}
ASSUME BoundsAssumption == MaxSends \in Nat /\ MaxFaults \in Nat

VARIABLES
    phase,      \* phase[s]: where the handler coroutine of session s is
    sock,       \* sock[s]: what a send or a receive on the socket would meet
    sending,    \* sending[s]: calls of send() awaiting websocket.send_text
    status,     \* status[n]: Node.status, as committed
    lastSeen,   \* lastSeen[n]: Node.last_seen against the watchdog's cutoff
    touching,   \* nodes with an _update_last_seen task still to run
    wdStale,    \* watchdog: selected nodes still to be looked at
    wdAbsent,   \* watchdog: the node found unconnected, not yet updated
    wdMarked,   \* watchdog: nodes updated by the uncommitted transaction
    faults      \* crashes and failed passes so far

sessionVars  == <<phase, sock, sending>>
rowVars      == <<status, lastSeen, touching>>
watchdogVars == <<wdStale, wdAbsent, wdMarked>>
vars == <<connections, sessionVars, rowVars, watchdogVars, faults>>

-----------------------------------------------------------------------------
Phases ==
    { "closed"      \* no handler: never opened, or returned
    , "auth"        \* challenge sent, waiting for auth_response
    , "marked"      \* status online committed, audit row not yet
    , "greeting"    \* registered, awaiting send_text(auth_ok)
    , "loop"        \* in the message loop
    , "offlining"   \* left the registry, about to write status offline
    }

Statuses == {"pending", "online", "offline", "disabled"}

TypeOK ==
    /\ RegistryType
    /\ phase \in [Sessions -> Phases]
    /\ sock \in [Sessions -> {"open", "lost"}]
    /\ sending \in [Sessions -> 0..MaxSends]
    /\ status \in [Nodes -> Statuses]
    /\ lastSeen \in [Nodes -> {"never", "fresh", "stale"}]
    /\ touching \subseteq Nodes
    /\ wdStale \subseteq Nodes
    /\ wdAbsent \subseteq Nodes
    /\ wdMarked \subseteq Nodes
    /\ faults \in 0..MaxFaults

(* A node row starts as register_node leaves it: pending, never seen.       *)
Init ==
    /\ RegistryInit
    /\ phase = [s \in Sessions |-> "closed"]
    /\ sock = [s \in Sessions |-> "lost"]
    /\ sending = [s \in Sessions |-> 0]
    /\ status = [n \in Nodes |-> "pending"]
    /\ lastSeen = [n \in Nodes |-> "never"]
    /\ touching = {}
    /\ wdStale = {} /\ wdAbsent = {} /\ wdMarked = {}
    /\ faults = 0

Goto(s, p) == phase' = [phase EXCEPT ![s] = p]

(* The coroutine of s returns; the ASGI server then closes the socket.      *)
Return(s) ==
    /\ Goto(s, "closed")
    /\ sock' = [sock EXCEPT ![s] = "lost"]

(* No lock of the watchdog's open transaction is in the way of a writer.    *)
RowFree(n) == n \notin wdMarked

-----------------------------------------------------------------------------
(* The handler, node_websocket().                                           *)

(* The agent holds one socket at a time.  The identity of a session nobody  *)
(* refers to any more is used again for a new one.                          *)
Open(s) ==
    /\ phase[s] = "closed" /\ ~Registered(s) /\ sending[s] = 0
    /\ \A t \in Sessions : NodeOf[t] = NodeOf[s] => sock[t] = "lost"
    /\ status[NodeOf[s]] # "disabled"
    /\ Goto(s, "auth")
    /\ sock' = [sock EXCEPT ![s] = "open"]
    /\ UNCHANGED <<connections, sending, rowVars, watchdogVars, faults>>

(* A bad or late auth_response, or a database error before the session is   *)
(* registered: the coroutine ends and undoes nothing.                       *)
HandshakeEnds(s) ==
    /\ phase[s] \in {"auth", "marked"}
    /\ Return(s)
    /\ UNCHANGED <<connections, sending, rowVars, watchdogVars, faults>>

(* Mutant of MarkOnline: last_seen is left to the first heartbeat.          *)
MarkOnlineUnseen(s) ==
    /\ phase[s] = "auth" /\ RowFree(NodeOf[s])
    /\ Goto(s, "marked")
    /\ status' = [status EXCEPT ![NodeOf[s]] = "online"]
    /\ UNCHANGED <<connections, sock, sending, lastSeen, touching, watchdogVars, faults>>

(* The signature is verified; the first commit writes the row, whatever     *)
(* its status has become since the lookup.                                  *)
MarkOnline(s) ==
    /\ phase[s] = "auth" /\ RowFree(NodeOf[s])
    /\ Goto(s, "marked")
    /\ status' = [status EXCEPT ![NodeOf[s]] = "online"]
    /\ lastSeen' = [lastSeen EXCEPT ![NodeOf[s]] = "fresh"]
    /\ UNCHANGED <<connections, sock, sending, touching, watchdogVars, faults>>

(* The audit row is committed and the session takes the node's entry.       *)
Register(s) ==
    /\ phase[s] = "marked"
    /\ Goto(s, "greeting")
    /\ Connect(s)
    /\ UNCHANGED <<sock, sending, rowVars, watchdogVars, faults>>

GreetingSent(s) ==
    /\ phase[s] = "greeting"
    /\ Goto(s, "loop")
    /\ UNCHANGED <<connections, sock, sending, rowVars, watchdogVars, faults>>

(* send_text(auth_ok) raises outside the try: no disconnect() is called.    *)
GreetingFails(s) ==
    /\ phase[s] = "greeting" /\ sock[s] = "lost"
    /\ Return(s)
    /\ UNCHANGED <<connections, sending, rowVars, watchdogVars, faults>>

(* A metrics or heartbeat message starts an _update_last_seen task; one per *)
(* node is kept, a second one would write the same value.                   *)
Heartbeat(s) ==
    /\ phase[s] = "loop" /\ sock[s] = "open"
    /\ touching' = touching \cup {NodeOf[s]}
    /\ UNCHANGED <<connections, sessionVars, status, lastSeen, watchdogVars, faults>>

(* Mutants of LeaveLoop: the finally block of a coroutine that forgets      *)
(* disconnect() on its way to the database, names no expected state, or is  *)
(* not there at all.                                                        *)
LeaveLoopForgets(s) ==
    /\ phase[s] = "loop" /\ Goto(s, "offlining")
    /\ UNCHANGED <<connections, sock, sending, rowVars, watchdogVars, faults>>

LeaveLoopAny(s) ==
    /\ phase[s] = "loop"
    /\ Disconnect(NodeOf[s], None)
    /\ IF Removes(NodeOf[s], None)
       THEN Goto(s, "offlining") /\ UNCHANGED sock
       ELSE Return(s)
    /\ UNCHANGED <<sending, rowVars, watchdogVars, faults>>

LeaveLoopBare(s) ==
    /\ phase[s] = "loop" /\ Return(s)
    /\ UNCHANGED <<connections, sending, rowVars, watchdogVars, faults>>

(* Timeout, disconnection or exception in the loop: the finally block       *)
(* removes this session's own entry, and goes on to the database only if    *)
(* the entry was still there.                                               *)
LeaveLoop(s) ==
    /\ phase[s] = "loop"
    /\ Disconnect(NodeOf[s], s)
    /\ IF Removes(NodeOf[s], s)
       THEN Goto(s, "offlining") /\ UNCHANGED sock
       ELSE Return(s)
    /\ UNCHANGED <<sending, rowVars, watchdogVars, faults>>

WriteOffline(s) ==
    /\ phase[s] = "offlining" /\ RowFree(NodeOf[s])
    /\ Return(s)
    /\ status' = [status EXCEPT ![NodeOf[s]] = "offline"]
    /\ UNCHANGED <<connections, sending, lastSeen, touching, watchdogVars, faults>>

(* The finally block's own transaction fails: nobody tries again.           *)
WriteOfflineFails(s) ==
    /\ phase[s] = "offlining"
    /\ Return(s)
    /\ UNCHANGED <<connections, sending, rowVars, watchdogVars, faults>>

(* _update_last_seen(): last_seen only, the status is left alone.           *)
Touch(n) ==
    /\ n \in touching /\ RowFree(n)
    /\ touching' = touching \ {n}
    /\ lastSeen' = [lastSeen EXCEPT ![n] = "fresh"]
    /\ UNCHANGED <<connections, sessionVars, status, watchdogVars, faults>>

TouchFails(n) ==
    /\ n \in touching
    /\ touching' = touching \ {n}
    /\ UNCHANGED <<connections, sessionVars, status, lastSeen, watchdogVars, faults>>

-----------------------------------------------------------------------------
(* ConnectionManager.send(), called for commands, files and tunnels.        *)

(* The entry is read, then send_text is awaited on that session's socket.   *)
StartSend(n) ==
    /\ IsConnected(n)
    /\ sending[connections[n]] < MaxSends
    /\ sending' = [sending EXCEPT ![connections[n]] = @ + 1]
    /\ UNCHANGED <<connections, phase, sock, rowVars, watchdogVars, faults>>

SendReturns(s) ==
    /\ sending[s] > 0
    /\ sending' = [sending EXCEPT ![s] = @ - 1]
    /\ UNCHANGED <<connections, phase, sock, rowVars, watchdogVars, faults>>

(* send_text raises: the node is disconnected, without an expected state.   *)
SendFails(s) ==
    /\ sending[s] > 0 /\ sock[s] = "lost"
    /\ sending' = [sending EXCEPT ![s] = @ - 1]
    /\ Disconnect(NodeOf[s], None)
    /\ UNCHANGED <<phase, sock, rowVars, watchdogVars, faults>>

-----------------------------------------------------------------------------
(* offline_watchdog().  A pass is idle when its three variables are empty.  *)

PassIdle == wdStale = {} /\ wdAbsent = {} /\ wdMarked = {}

SelectsStale(n) == status[n] # "offline" /\ lastSeen[n] = "stale"

WatchdogSelect ==
    /\ PassIdle
    /\ \E n \in Nodes : SelectsStale(n)
    /\ wdStale' = {n \in Nodes : SelectsStale(n)}
    /\ UNCHANGED <<connections, sessionVars, rowVars, wdAbsent, wdMarked, faults>>

(* is_connected() is read now; the UPDATE it decides is awaited.            *)
WatchdogCheck(n) ==
    /\ n \in wdStale /\ wdAbsent = {}
    /\ wdStale' = wdStale \ {n}
    /\ wdAbsent' = IF IsConnected(n) THEN {} ELSE {n}
    /\ UNCHANGED <<connections, sessionVars, rowVars, wdMarked, faults>>

WatchdogUpdate(n) ==
    /\ n \in wdAbsent
    /\ wdAbsent' = {}
    /\ wdMarked' = wdMarked \cup {n}
    /\ UNCHANGED <<connections, sessionVars, rowVars, wdStale, faults>>

(* Mutant of WatchdogCommit: the pass closes its session without a commit.  *)
WatchdogCloses ==
    /\ wdStale = {} /\ wdAbsent = {} /\ wdMarked # {}
    /\ wdMarked' = {}
    /\ UNCHANGED <<connections, sessionVars, rowVars, wdStale, wdAbsent, faults>>

WatchdogCommit ==
    /\ wdStale = {} /\ wdAbsent = {} /\ wdMarked # {}
    /\ status' = [n \in Nodes |-> IF n \in wdMarked THEN "offline" ELSE status[n]]
    /\ wdMarked' = {}
    /\ UNCHANGED <<connections, sessionVars, lastSeen, touching, wdStale, wdAbsent, faults>>

(* Any exception of the pass: the session rolls back, the loop goes on.     *)
WatchdogFails ==
    /\ ~PassIdle /\ faults < MaxFaults
    /\ wdStale' = {} /\ wdAbsent' = {} /\ wdMarked' = {}
    /\ faults' = faults + 1
    /\ UNCHANGED <<connections, sessionVars, rowVars>>

-----------------------------------------------------------------------------
(* The rest of the world.                                                   *)

SocketLost(s) ==
    /\ sock[s] = "open"
    /\ sock' = [sock EXCEPT ![s] = "lost"]
    /\ UNCHANGED <<connections, phase, sending, rowVars, watchdogVars, faults>>

(* Three heartbeat intervals pass without a write of last_seen.             *)
Age(n) ==
    /\ lastSeen[n] = "fresh"
    /\ lastSeen' = [lastSeen EXCEPT ![n] = "stale"]
    /\ UNCHANGED <<connections, sessionVars, status, touching, watchdogVars, faults>>

(* update_node(): an operator writes the status; the registry is not told.  *)
SetStatus(n) ==
    /\ RowFree(n)
    /\ \E new \in OperatorStatuses : status' = [status EXCEPT ![n] = new]
    /\ UNCHANGED <<connections, sessionVars, lastSeen, touching, watchdogVars, faults>>

(* The server process dies and is started again: the rows survive, and      *)
(* nothing in lifespan() looks at them.                                     *)
Restart ==
    /\ faults < MaxFaults
    /\ ClearRegistry
    /\ phase' = [s \in Sessions |-> "closed"]
    /\ sock' = [s \in Sessions |-> "lost"]
    /\ sending' = [s \in Sessions |-> 0]
    /\ touching' = {}
    /\ wdStale' = {} /\ wdAbsent' = {} /\ wdMarked' = {}
    /\ faults' = faults + 1
    /\ UNCHANGED <<status, lastSeen>>

-----------------------------------------------------------------------------
Handler(s) ==
    \/ Open(s) \/ HandshakeEnds(s) \/ MarkOnline(s) \/ Register(s)
    \/ GreetingSent(s) \/ GreetingFails(s)
    \/ Heartbeat(s) \/ LeaveLoop(s)
    \/ WriteOffline(s) \/ WriteOfflineFails(s)

Sender(s) == SendReturns(s) \/ SendFails(s)

Watchdog ==
    \/ WatchdogSelect \/ WatchdogCommit \/ WatchdogFails
    \/ \E n \in Nodes : WatchdogCheck(n) \/ WatchdogUpdate(n)

Environment ==
    \/ \E s \in Sessions : SocketLost(s)
    \/ \E n \in Nodes : Age(n) \/ SetStatus(n)
    \/ Restart

Next ==
    \/ \E s \in Sessions : Handler(s) \/ Sender(s)
    \/ \E n \in Nodes : StartSend(n) \/ Touch(n) \/ TouchFails(n)
    \/ Watchdog
    \/ Environment

Spec == Init /\ [][Next]_vars

(* asyncio runs every ready coroutine: a handler whose socket is gone       *)
(* leaves its loop (receive raises, or times out), a send in progress ends, *)
(* a row write is carried out, time passes, and the watchdog wakes every    *)
(* 30 s.  Nothing makes an agent connect, and nothing makes an operator     *)
(* send.                                                                    *)
Fairness ==
    /\ \A s \in Sessions :
        /\ WF_vars(HandshakeEnds(s) \/ MarkOnline(s))
        /\ WF_vars(HandshakeEnds(s) \/ Register(s))
        /\ WF_vars(GreetingSent(s) \/ GreetingFails(s))
        /\ WF_vars(sock[s] = "lost" /\ LeaveLoop(s))
        /\ WF_vars(WriteOffline(s) \/ WriteOfflineFails(s))
        /\ WF_vars(Sender(s))
    /\ \A n \in Nodes :
        /\ WF_vars(Touch(n) \/ TouchFails(n))
        /\ WF_vars(Age(n))
        /\ WF_vars(WatchdogCheck(n))
        /\ WF_vars(WatchdogUpdate(n))
    /\ WF_vars(WatchdogSelect)
    /\ WF_vars(WatchdogCommit)

FairSpec == Spec /\ Fairness

-----------------------------------------------------------------------------
(* Properties.                                                              *)

Serving == {"greeting", "loop"}

(* An entry belongs to a session of that node whose handler is still        *)
(* serving it, or whose socket is lost: connect() and disconnect() never    *)
(* leave a handler that has returned registered under a usable socket, nor  *)
(* a session that is about to write offline.                                *)
EntryIsServedOrDead ==
    \A n \in Nodes : IsConnected(n) =>
        LET s == connections[n] IN
        /\ NodeOf[s] = n
        /\ \/ phase[s] \in Serving
           \/ phase[s] = "closed" /\ sock[s] = "lost"

(* The end of a handler that was replaced is silent: a session that leaves  *)
(* its message loop while the server runs on takes no entry but its own     *)
(* away, and goes on to the offline write only if it took its own.          *)
ReplacedExitIsSilent ==
    [][\A s \in Sessions :
        (phase[s] = "loop" /\ phase'[s] # "loop" /\ faults' = faults)
        => /\ \A n \in Nodes : connections[n] # s => connections'[n] = connections[n]
           /\ ~Registered(s) => phase'[s] = "closed"]_vars

(* What the rest of the server sees of the sessions.                        *)
HandlerOf ==
    [s \in Sessions |->
        CASE phase[s] = "greeting" -> "greeting"
          [] phase[s] = "loop" -> "serving"
          [] OTHER -> "off"]

SockOf == [s \in Sessions |-> IF phase[s] \in Serving THEN sock[s] ELSE "lost"]

Life == INSTANCE SessionLife WITH handler <- HandlerOf, sock <- SockOf

(* Whatever the handlers await, the sessions behave as CommandExecution and *)
(* FileTransfers suppose of theirs: a handler leaves with its own entry,    *)
(* an agent has one socket among those in use, and a session whose socket   *)
(* is lost does not stay registered, since the receive timeout or the       *)
(* exception makes its handler remove the entry.                            *)
KeepsSessions == Life!Spec

(* The watchdog passes over rows that were never seen.  A node that a       *)
(* session shows online, or has an entry of the registry for, is not one of *)
(* them: if the handler vanishes, in a crash or by a failed offline write,  *)
(* before the agent ever sent a heartbeat, the watchdog can find the node.  *)
ShownWasSeen ==
    /\ \A s \in Sessions :
        phase[s] \in {"marked", "greeting", "loop", "offlining"} => lastSeen[NodeOf[s]] # "never"
    /\ \A n \in Nodes : IsConnected(n) => lastSeen[n] # "never"

(* The watchdog's promise: a node seen long ago that stays without an entry *)
(* does not stay shown online, whatever handlers and operators write, and   *)
(* although a handler that vanished wrote nothing.                          *)
AbsentIsNotOnline ==
    \A n \in Nodes :
        <>[](~IsConnected(n) /\ lastSeen[n] = "stale") => []<>(status[n] # "online")

-----------------------------------------------------------------------------
(* What a comment says of the program, and the code does not do.            *)

(* connection_manager.py:71-74 (Issue #7): a disconnect that belongs to an  *)
(* older session must not take a live one out of the registry.  An entry    *)
(* whose handler runs and whose socket is open goes away only with them.    *)
StaleDisconnectSparesLive ==
    [][\A s \in Sessions :
        (Registered(s) /\ phase[s] \in Serving /\ sock[s] = "open"
          /\ phase'[s] = phase[s])
        => connections'[NodeOf[s]] # None]_vars
=============================================================================
