---------------------------- MODULE NodeDirectory ---------------------------
(***************************************************************************)
(* What the nodes table promises to whoever reads it: a directory in which  *)
(* a name and a tunnel port stand for one node each, and of which each step *)
(* adds or takes away a single entry.                                       *)
(***************************************************************************)
CONSTANTS Names, Ports

VARIABLE entries    \* pairs of a name and its port

Init == entries = {}

Fresh(n, p) == \A e \in entries : e.name # n /\ e.port # p

Add(n, p) ==
    /\ Fresh(n, p)
    /\ entries' = entries \cup {[name |-> n, port |-> p]}

Remove(e) == entries' = entries \ {e}

Next ==
    \/ \E n \in Names, p \in Ports : Add(n, p)
    \/ \E e \in entries : Remove(e)

Spec == Init /\ [][Next]_entries
=============================================================================
