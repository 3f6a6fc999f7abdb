----------------------------- MODULE MCAccounts -----------------------------
(* Accounts for TLC: the requests that are served at a time are alike.      *)
EXTENDS Accounts, TLC

CONSTANTS root, ann, t1, q1, q2

Alike == Permutations({q1, q2})
=============================================================================
