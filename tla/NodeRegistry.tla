---------------------------- MODULE NodeRegistry ----------------------------
(***************************************************************************)
(* The registration and the deletion of nodes in server/api/routes.py, with *)
(* the constraints of the tables nodes and audit_log in                     *)
(* server/db/models.py.                                                     *)
(*                                                                          *)
(* A registration awaits five statements: it looks for the name, reads the  *)
(* used ports, commits the node, reads it back, and commits an audit row.   *)
(* Requests interleave between them; each statement sees what is committed. *)
(* An audit row refers to its node without a cascade, so that a node with   *)
(* one cannot be deleted.  A node row is named for the request that wrote   *)
(* it; its UUID is never used again.  Faults are database errors and        *)
(* restarts, after which a client knows no more than that it failed.        *)
(***************************************************************************)
EXTENDS Integers, FiniteSets

CONSTANTS
    Requests,   \* calls of POST /api/nodes
    Names,      \* values of node_id
    FirstPort,  \* TUNNEL_PORT_RANGE_START
    EndPort,    \* TUNNEL_PORT_RANGE_END, the first port after the range
    None,
    MaxFaults   \* bound: database errors and restarts in the middle of a call

(* A port 0 would be no port to the test of the loop's result.              *)
ASSUME PortsAssumption == FirstPort \in Nat \ {0} /\ EndPort \in Nat /\ MaxFaults \in Nat

Ports == FirstPort..(EndPort - 1)

VARIABLES
    pc,         \* pc[r]: the statement that r awaits, or its answer
    name,       \* name[r]: node_id of the request
    port,       \* port[r]: the port it has chosen
    row,        \* row[r]: the node it has written, by that name and port
    failed,     \* requests that met a fault
    since       \* history: since[r]: requests that have written a node since
                \* r looked for its name, as long as r had written none

vars == <<pc, name, port, row, failed, since>>

Answers == {"created", "conflict", "full", "error"}

TypeOK ==
    /\ pc \in [Requests -> {"idle", "ports", "insert", "audit"} \cup Answers]
    /\ name \in [Requests -> Names \cup {None}]
    /\ port \in [Requests -> Ports \cup {None}]
    /\ row \in [Requests -> {"none", "bare", "audited", "deleted"}]
    /\ failed \subseteq Requests
    /\ since \in [Requests -> SUBSET Requests]

Init ==
    /\ pc = [r \in Requests |-> "idle"]
    /\ name = [r \in Requests |-> None]
    /\ port = [r \in Requests |-> None]
    /\ row = [r \in Requests |-> "none"]
    /\ failed = {}
    /\ since = [r \in Requests |-> {}]

IsNode(r) == row[r] \in {"bare", "audited"}

NameTaken(n) == \E x \in Requests : IsNode(x) /\ name[x] = n

PortTaken(p) == \E x \in Requests : IsNode(x) /\ port[x] = p

Sets(r, value) == row' = [row EXCEPT ![r] = value]

Goto(r, to) == pc' = [pc EXCEPT ![r] = to]

-----------------------------------------------------------------------------
(* POST /api/nodes.                                                         *)

LookForName(r, n) ==
    /\ pc[r] = "idle"
    /\ name' = [name EXCEPT ![r] = n]
    /\ Goto(r, IF NameTaken(n) THEN "conflict" ELSE "ports")
    /\ UNCHANGED <<port, row, failed, since>>

(* Mutant of ChoosePort: the end of the range is one of its ports.          *)
ChoosePortToTheEnd(r) ==
    /\ pc[r] = "ports"
    /\ \E p \in FirstPort..EndPort :
           /\ ~PortTaken(p) /\ \A o \in FirstPort..(p - 1) : PortTaken(o)
           /\ port' = [port EXCEPT ![r] = p]
    /\ Goto(r, "insert")
    /\ UNCHANGED <<name, row, failed, since>>

(* The first port of the range that no committed node has.                  *)
ChoosePort(r) ==
    /\ pc[r] = "ports"
    /\ \E p \in Ports :
           /\ ~PortTaken(p) /\ \A o \in FirstPort..(p - 1) : PortTaken(o)
           /\ port' = [port EXCEPT ![r] = p]
    /\ Goto(r, "insert")
    /\ UNCHANGED <<name, row, failed, since>>

FindNoPort(r) ==
    /\ pc[r] = "ports"
    /\ \A p \in Ports : PortTaken(p)
    /\ Goto(r, "full")
    /\ UNCHANGED <<name, port, row, failed, since>>

(* Mutant of Violates: the tunnel port has no unique constraint.            *)
ViolatesNameOnly(r) == NameTaken(name[r])

(* node_id and ssh_tunnel_port are unique.                                  *)
Violates(r) == NameTaken(name[r]) \/ PortTaken(port[r])

(* The first commit.                                                        *)
Insert(r) ==
    /\ pc[r] = "insert"
    /\ IF Violates(r)
       THEN Goto(r, "error") /\ UNCHANGED <<row, since>>
       ELSE /\ Goto(r, "audit") /\ Sets(r, "bare")
            /\ since' = [q \in Requests |-> IF q # r /\ pc[q] \in {"ports", "insert"}
                                           THEN since[q] \cup {r} ELSE since[q]]
    /\ UNCHANGED <<name, port, failed>>

(* Mutant of Audit: the audit row does without the node.                    *)
AuditAnyway(r) ==
    /\ pc[r] = "audit"
    /\ Goto(r, "created")
    /\ IF IsNode(r) THEN Sets(r, "audited") ELSE UNCHANGED row
    /\ UNCHANGED <<name, port, failed, since>>

(* The node is read back and the second commit writes the audit row; both   *)
(* raise when the node is gone.                                             *)
Audit(r) ==
    /\ pc[r] = "audit"
    /\ IF IsNode(r)
       THEN Goto(r, "created") /\ Sets(r, "audited")
       ELSE Goto(r, "error") /\ UNCHANGED row
    /\ UNCHANGED <<name, port, failed, since>>

(* A database error or a restart, perhaps after the second commit and       *)
(* before the answer; what is committed stays.                              *)
Fail(r) ==
    /\ pc[r] \in {"ports", "insert", "audit"}
    /\ Cardinality(failed) < MaxFaults
    /\ Goto(r, "error")
    /\ failed' = failed \cup {r}
    /\ \/ UNCHANGED row
       \/ pc[r] = "audit" /\ IsNode(r) /\ Sets(r, "audited")
    /\ UNCHANGED <<name, port, since>>

-----------------------------------------------------------------------------
(* DELETE /api/nodes/{node_id}: an audit row makes the commit fail.         *)
Delete(r) ==
    /\ row[r] = "bare"
    /\ Sets(r, "deleted")
    /\ UNCHANGED <<pc, name, port, failed, since>>

(* The agent of the node connects: node_websocket() writes an audit row.    *)
AgentConnects(r) ==
    /\ row[r] = "bare"
    /\ Sets(r, "audited")
    /\ UNCHANGED <<pc, name, port, failed, since>>

-----------------------------------------------------------------------------
Register(r) ==
    \/ \E n \in Names : LookForName(r, n)
    \/ ChoosePort(r) \/ FindNoPort(r) \/ Insert(r) \/ Audit(r)

Next == \E r \in Requests :
    Register(r) \/ Fail(r) \/ Delete(r) \/ AgentConnects(r)

Spec == Init /\ [][Next]_vars

-----------------------------------------------------------------------------
(* Properties.                                                              *)

(* Whatever the order in which registrations check, choose and insert, the  *)
(* table is a directory: it never holds a name or a port twice, not even    *)
(* for the moment between two statements (models.py:98, 108).               *)
Directory == INSTANCE NodeDirectory WITH
    entries <- {[name |-> name[r], port |-> port[r]] : r \in {x \in Requests : IsNode(x)}}

KeepsDirectory == Directory!Spec

(* What a client is told is so when he is told.  A node that was "created"  *)
(* is there, with its audit row; a "conflict" or a "full" range has written *)
(* nothing.  An error that no fault explains left nothing behind: either    *)
(* the node just written was deleted, or nothing was written because        *)
(* another registration took the name or the port after this one had        *)
(* looked, so that it is worth a retry.  An error by a fault may leave a    *)
(* node, but only one that the first commit wrote (routes.py:194-228).      *)
Answered(r, a) == pc[r] # a /\ pc'[r] = a

Rival(r) ==
    \E x \in since[r] : IsNode(x) /\ (name[x] = name[r] \/ port[x] = port[r])

AnswersAreTrue ==
    [][\A r \in Requests :
        /\ Answered(r, "created") => row'[r] = "audited"
        /\ Answered(r, "conflict") \/ Answered(r, "full") => row'[r] = "none"
        /\ Answered(r, "error") /\ r \notin failed' =>
               row'[r] = "deleted" \/ (row'[r] = "none" /\ Rival(r))
        /\ Answered(r, "error") /\ row'[r] \in {"bare", "audited"} =>
               r \in failed' /\ pc[r] = "audit"]_vars
=============================================================================
