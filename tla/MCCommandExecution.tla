------------------------- MODULE MCCommandExecution -------------------------
(* CommandExecution for TLC: which session and which request is for which   *)
(* node, and through which endpoint a request comes.                        *)
EXTENDS CommandExecution, TLC

CONSTANTS n1, n2, s1, s2, r1, r2, q1, q2

(* A node that reconnects; two nodes that do not.                           *)
OneNode == (s1 :> n1) @@ (s2 :> n1)
TwoNodes == (s1 :> n1) @@ (s2 :> n2)

(* Three requests for one node; a bulk call and a deployment by tag to two. *)
SameNode == (r1 :> n1) @@ (r2 :> n1) @@ (q1 :> n1)
BothNodes == (r1 :> n1) @@ (r2 :> n2) @@ (q1 :> n1) @@ (q2 :> n2)

BulkOrTagged ==
    (r1 :> "bulk") @@ (r2 :> "bulk") @@ (q1 :> "tagged") @@ (q2 :> "tagged")
OneOfEach == (r1 :> "single") @@ (r2 :> "deploy") @@ (q1 :> "bulk")

Interchangeable == Permutations({s1, s2})
=============================================================================
