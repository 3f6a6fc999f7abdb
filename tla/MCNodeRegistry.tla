--------------------------- MODULE MCNodeRegistry ---------------------------
(* NodeRegistry for TLC.                                                    *)
EXTENDS NodeRegistry, TLC

CONSTANTS r1, r2, r3, a, b

(* Requests are alike, and so are names.                                    *)
Alike == Permutations({r1, r2, r3}) \cup Permutations({a, b})
=============================================================================
