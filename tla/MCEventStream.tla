---------------------------- MODULE MCEventStream ---------------------------
(* EventStream for TLC: two sessions that compete for n1, one of n2.        *)
EXTENDS EventStream, TLC

CONSTANTS n1, n2, s1, s2, s3, c1

SessionNodes == (s1 :> n1) @@ (s2 :> n1) @@ (s3 :> n2)
=============================================================================
