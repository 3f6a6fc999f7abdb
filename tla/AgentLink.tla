----------------------------- MODULE AgentLink ------------------------------
(***************************************************************************)
(* An agent and the server at the two ends of its sockets: run() and        *)
(* _connect_and_serve() of agent/agent.py, with the reconnect delay, and    *)
(* the handshake of server/api/node_ws.py up to the registration.           *)
(*                                                                          *)
(* The agent holds one socket at a time, but a handler of the server does   *)
(* not look at its socket while it awaits the database, so that it can be   *)
(* at work for an agent that has long given up and dialled again.  The two  *)
(* ends speak in turn, so that mail holds one message.  A send() reads the  *)
(* registry and then awaits the socket it found, one at a time on a socket; *)
(* what it sends is not in mail.  What a handler writes to the nodes table  *)
(* is in NodePresence.                                                      *)
(***************************************************************************)
EXTENDS ConnectionRegistry, Naturals

CONSTANTS InitialDelay, MaxDelay, BackoffFactor     \* [reconnect]

ASSUME DelayAssumption ==
    /\ InitialDelay \in Nat \ {0} /\ MaxDelay \in Nat /\ BackoffFactor \in Nat \ {0}
    /\ InitialDelay <= MaxDelay

VARIABLES
    at,     \* at[n]: where the agent of n is
    on,     \* on[n]: the socket it holds
    delay,  \* delay[n]: _current_delay
    srv,    \* srv[s]: where the handler of s is
    link,   \* link[s]: whether the network carries s
    mail,   \* mail[s]: the message on its way
    sending,    \* sessions on whose socket a send() is awaiting
    unseated    \* history: sessions whose entry another one's handler or
                \* send() took while the agent held them

agentVars  == <<at, on, delay>>
serverVars == <<connections, srv, sending, unseated>>
vars == <<agentVars, serverVars, link, mail>>

TypeOK ==
    /\ RegistryType
    /\ at \in [Nodes -> {"started", "challenge", "answer", "serving", "asleep"}]
    /\ on \in [Nodes -> Sessions \cup {None}]
    /\ delay \in [Nodes -> InitialDelay..MaxDelay]
    /\ srv \in [Sessions -> {"off", "lookup", "auth", "marking", "greeting", "loop"}]
    /\ link \in [Sessions -> {"up", "cut"}]
    /\ mail \in [Sessions -> {"none", "challenge", "response", "ok", "fail"}]
    /\ sending \subseteq Sessions
    /\ unseated \subseteq Sessions

Init ==
    /\ RegistryInit
    /\ at = [n \in Nodes |-> "started"]
    /\ on = [n \in Nodes |-> None]
    /\ delay = [n \in Nodes |-> InitialDelay]
    /\ srv = [s \in Sessions |-> "off"]
    /\ link = [s \in Sessions |-> "cut"]
    /\ mail = [s \in Sessions |-> "none"]
    /\ sending = {} /\ unseated = {}

(* The server can reach the agent on s, and the agent the server.           *)
Whole(s) == link[s] = "up" /\ on[NodeOf[s]] = s
Hears(n) ==
    /\ link[on[n]] = "up"
    /\ srv[on[n]] # "off" \/ mail[on[n]] \in {"challenge", "ok", "fail"}

(* The session loses its entry to another one: unknown to its agent, if it  *)
(* still holds the socket.                                                  *)
Unseats(n) ==
    unseated' = IF IsConnected(n) /\ Whole(connections[n])
                THEN unseated \cup {connections[n]} ELSE unseated

Serves(s, p) == srv' = [srv EXCEPT ![s] = p]
Sends(s, m) == mail' = [mail EXCEPT ![s] = IF Whole(s) THEN m ELSE "none"]

-----------------------------------------------------------------------------
(* The agent.                                                               *)

(* Mutant of Longer: the delay has no maximum.                              *)
LongerAlways(d) == d * BackoffFactor

Longer(d) == IF d * BackoffFactor < MaxDelay THEN d * BackoffFactor ELSE MaxDelay

(* The delay grows once it has been slept.                                  *)
Awakes(n) ==
    /\ at[n] \in {"started", "asleep"}
    /\ delay' = [delay EXCEPT ![n] = IF at[n] = "asleep" THEN Longer(@) ELSE @]

Dial(n) ==
    /\ Awakes(n)
    /\ at' = [at EXCEPT ![n] = "challenge"]
    /\ \E s \in Sessions :
        /\ NodeOf[s] = n /\ srv[s] = "off" /\ ~Registered(s) /\ s \notin sending
        /\ on' = [on EXCEPT ![n] = s]
        /\ Serves(s, "lookup")
        /\ link' = [link EXCEPT ![s] = "up"]
        /\ mail' = [mail EXCEPT ![s] = "none"]
        /\ unseated' = unseated \ {s}
    /\ UNCHANGED <<connections, sending>>

DialFails(n) ==
    /\ Awakes(n)
    /\ at' = [at EXCEPT ![n] = "asleep"]
    /\ UNCHANGED <<on, serverVars, link, mail>>

Answer(n) ==
    /\ at[n] = "challenge" /\ mail[on[n]] = "challenge"
    /\ at' = [at EXCEPT ![n] = "answer"]
    /\ mail' = [mail EXCEPT ![on[n]] = "response"]
    /\ UNCHANGED <<on, delay, serverVars, link>>

Accepted(n) ==
    /\ at[n] = "answer" /\ mail[on[n]] = "ok"
    /\ at' = [at EXCEPT ![n] = "serving"]
    /\ mail' = [mail EXCEPT ![on[n]] = "none"]
    /\ UNCHANGED <<on, delay, serverVars, link>>

(* Mutant of Fails: the delay is reset after every connection.              *)
FailsReset(n) ==
    /\ at' = [at EXCEPT ![n] = "asleep"]
    /\ on' = [on EXCEPT ![n] = None]
    /\ delay' = [delay EXCEPT ![n] = InitialDelay]
    /\ UNCHANGED <<serverVars, link, mail>>

(* _connect_and_serve() raises.                                             *)
Fails(n) ==
    /\ at' = [at EXCEPT ![n] = "asleep"]
    /\ on' = [on EXCEPT ![n] = None]
    /\ UNCHANGED <<delay, serverVars, link, mail>>

(* Mutant of Noticed: a connection that died without a word is not.         *)
NoticedClosed(n) ==
    \/ mail[on[n]] = "fail"
    \/ link[on[n]] = "up" /\ ~Hears(n)

(* The server said no, or the connection is gone: a close frame, a reset,   *)
(* or no pong (ping_timeout).                                               *)
Noticed(n) == ~Hears(n) \/ mail[on[n]] = "fail"

GiveUp(n) ==
    /\ at[n] \in {"challenge", "answer", "serving"} /\ Noticed(n)
    /\ Fails(n)

(* recv() takes more than 15 s.                                             *)
AgentTimesOut(n) ==
    /\ at[n] \in {"challenge", "answer"} /\ ~Noticed(n)
    /\ Fails(n)

(* The server closed with code 1000 or 1001: the loop over ws ends without  *)
(* an exception.                                                            *)
EndsCleanly(n) ==
    /\ at[n] = "serving" /\ link[on[n]] = "up" /\ srv[on[n]] = "off"
    /\ at' = [at EXCEPT ![n] = "asleep"]
    /\ on' = [on EXCEPT ![n] = None]
    /\ delay' = [delay EXCEPT ![n] = InitialDelay]
    /\ UNCHANGED <<serverVars, link, mail>>

AgentRestarts(n) ==
    /\ at' = [at EXCEPT ![n] = "started"]
    /\ on' = [on EXCEPT ![n] = None]
    /\ delay' = [delay EXCEPT ![n] = InitialDelay]
    /\ UNCHANGED <<serverVars, link, mail>>

-----------------------------------------------------------------------------
(* The handler.                                                             *)

Challenge(s) ==
    /\ srv[s] = "lookup"
    /\ Serves(s, "auth") /\ Sends(s, "challenge")
    /\ UNCHANGED <<agentVars, connections, sending, unseated, link>>

(* The node is unknown or disabled, or its signature does not verify.       *)
TurnAway(s) ==
    /\ \/ srv[s] = "lookup"
       \/ srv[s] = "auth" /\ mail[s] = "response"
    /\ Serves(s, "off") /\ Sends(s, "fail")
    /\ UNCHANGED <<agentVars, connections, sending, unseated, link>>

Verify(s) ==
    /\ srv[s] = "auth" /\ mail[s] = "response"
    /\ Serves(s, "marking") /\ Sends(s, "none")
    /\ UNCHANGED <<agentVars, connections, sending, unseated, link>>

(* Both commits are done.                                                   *)
Register(s) ==
    /\ srv[s] = "marking"
    /\ Serves(s, "greeting")
    /\ Connect(s) /\ Unseats(NodeOf[s])
    /\ UNCHANGED <<agentVars, link, mail, sending>>

Greet(s) ==
    /\ srv[s] = "greeting"
    /\ Serves(s, "loop") /\ Sends(s, "ok")
    /\ UNCHANGED <<agentVars, connections, sending, unseated, link>>

(* The entry stays.                                                         *)
GreetFails(s) ==
    /\ srv[s] = "greeting" /\ ~Whole(s)
    /\ Serves(s, "off")
    /\ UNCHANGED <<agentVars, connections, sending, unseated, link, mail>>

(* Mutant of Hangup: the finally block does not say whose entry it removes. *)
HangupAny(s) ==
    /\ \/ srv[s] = "auth" /\ UNCHANGED connections
       \/ srv[s] = "loop" /\ Disconnect(NodeOf[s], None)
    /\ Serves(s, "off")
    /\ UNCHANGED <<agentVars, link, mail, sending, unseated>>

(* receive_text() raises, before or after the registration.                 *)
Hangup(s) ==
    /\ \/ srv[s] = "auth" /\ UNCHANGED connections
       \/ srv[s] = "loop" /\ Disconnect(NodeOf[s], s)
    /\ Serves(s, "off")
    /\ UNCHANGED <<agentVars, link, mail, sending, unseated>>

FindsLost(s) == ~Whole(s) /\ Hangup(s)

(* Nothing is received for 15 s, or for two heartbeat intervals and 10 s.   *)
ServerTimesOut(s) == Whole(s) /\ Hangup(s)

DatabaseFails(s) ==
    /\ srv[s] \in {"lookup", "marking"}
    /\ Serves(s, "off")
    /\ UNCHANGED <<agentVars, connections, sending, unseated, link, mail>>

-----------------------------------------------------------------------------
(* ConnectionManager.send(), called by whoever has work for the node.       *)

StartSend(n) ==
    /\ IsConnected(n)
    /\ sending' = sending \cup {connections[n]}
    /\ UNCHANGED <<agentVars, connections, srv, unseated, link, mail>>

SendReturns(s) ==
    /\ s \in sending
    /\ sending' = sending \ {s}
    /\ UNCHANGED <<agentVars, connections, srv, unseated, link, mail>>

(* The socket it waited for is gone: whoever is registered now is removed.  *)
SendFails(s) ==
    /\ s \in sending /\ (~Whole(s) \/ srv[s] = "off")
    /\ sending' = sending \ {s}
    /\ Disconnect(NodeOf[s], None) /\ Unseats(NodeOf[s])
    /\ UNCHANGED <<agentVars, srv, link, mail>>

-----------------------------------------------------------------------------
Cut(s) ==
    /\ link[s] = "up"
    /\ link' = [link EXCEPT ![s] = "cut"]
    /\ mail' = [mail EXCEPT ![s] = "none"]
    /\ UNCHANGED <<agentVars, serverVars>>

ServerRestarts ==
    /\ ClearRegistry
    /\ srv' = [s \in Sessions |-> "off"]
    /\ sending' = {}
    /\ UNCHANGED <<agentVars, link, mail, unseated>>

Agent(n) == Dial(n) \/ Answer(n) \/ Accepted(n) \/ GiveUp(n) \/ EndsCleanly(n)

Handler(s) ==
    \/ Challenge(s) \/ Verify(s) \/ Register(s)
    \/ Greet(s) \/ GreetFails(s) \/ FindsLost(s)

Sender(s) == SendReturns(s) \/ SendFails(s)

Trouble ==
    \/ \E n \in Nodes : DialFails(n) \/ AgentTimesOut(n) \/ AgentRestarts(n)
    \/ \E s \in Sessions :
           TurnAway(s) \/ ServerTimesOut(s) \/ DatabaseFails(s) \/ Cut(s)
    \/ ServerRestarts

Next ==
    \/ \E n \in Nodes : Agent(n) \/ StartSend(n)
    \/ \E s \in Sessions : Handler(s) \/ Sender(s)
    \/ Trouble

Spec == Init /\ [][Next]_vars

(* Both ends run; a sleep, a ping, a receive timeout and a send end.        *)
FairSpec ==
    /\ Spec
    /\ \A n \in Nodes : WF_vars(Agent(n))
    /\ \A s \in Sessions : WF_vars(Handler(s)) /\ WF_vars(Sender(s))

-----------------------------------------------------------------------------
(* Properties.                                                              *)

Served(n) == at[n] = "serving" /\ Whole(on[n]) /\ srv[on[n]] = "loop"

(* An agent that is served can be reached: the end of an old handler never  *)
(* takes the entry of the session its agent is served by now.  Only two     *)
(* things do, and the agent is told of neither: a handshake of a socket it  *)
(* has left, which registers after the one it holds, and a send() that was  *)
(* waiting for an older socket (connection_manager.py:70-110, 145-153).     *)
ServedIsReachable ==
    \A n \in Nodes : Served(n) => Registered(on[n]) \/ on[n] \in unseated

(* "Exponential backoff, survives network outages" (README.md:29): once the *)
(* trouble is over, of whatever kind and length it was, every agent ends up *)
(* with a handler that serves it, for good (agent.py:355-372, 410-429),     *)
(* though not always with its entry in the registry.                        *)
Returns == <>[][~Trouble]_vars => \A n \in Nodes : <>[]Served(n)

(* An agent that is turned away, or that loses its connections, comes back  *)
(* no sooner each time: only a connection that was served and closed        *)
(* cleanly, or a new process, starts over (agent.py:359-372).               *)
BackoffHolds ==
    [][\A n \in Nodes : delay'[n] < delay[n] =>
           \/ at'[n] = "started"
           \/ at[n] = "serving" /\ link[on[n]] = "up"]_vars

(* The sessions as SessionLife has them: the socket is the one the agent    *)
(* holds, while its handler serves it.                                      *)
HandlerOf ==
    [s \in Sessions |->
        CASE srv[s] = "greeting" -> "greeting"
          [] srv[s] = "loop" -> "serving"
          [] OTHER -> "off"]

SockOf ==
    [s \in Sessions |-> IF srv[s] \in {"greeting", "loop"} /\ Whole(s)
                        THEN "open" ELSE "lost"]

Life == INSTANCE SessionLife WITH handler <- HandlerOf, sock <- SockOf
=============================================================================
