--------------------------- MODULE MCNodePresence ---------------------------
(* NodePresence for TLC: which session belongs to which node.               *)
EXTENDS NodePresence, TLC

CONSTANTS n1, s1, s2

(* One node whose sessions replace each other.                              *)
OneNode == (s1 :> n1) @@ (s2 :> n1)
=============================================================================
