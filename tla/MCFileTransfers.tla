--------------------------- MODULE MCFileTransfers ---------------------------
(* FileTransfers for TLC: pulls and pushes for a node that reconnects.      *)
EXTENDS FileTransfers, TLC

CONSTANTS n1, s1, s2, t1, t2

OneNode == (s1 :> n1) @@ (s2 :> n1)

SameNode == (t1 :> n1) @@ (t2 :> n1)

PullAndPush == (t1 :> "pull") @@ (t2 :> "push")
=============================================================================
