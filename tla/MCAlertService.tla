--------------------------- MODULE MCAlertService ---------------------------
(* AlertService for TLC: a metric with two built-in rules, as every metric  *)
(* of DEFAULT_RULES has, another metric, and custom rules for the first.    *)
EXTENDS AlertService, TLC

CONSTANTS low, high, ram, floor, again, c1, c2

Says(m, op, t, sev) == [metric |-> m, operator |-> op, threshold |-> t, severity |-> sev]

(* Custom rules of one key: both fire on 0, one on 1, none on 2.            *)
Written ==
    (low :> Says("cpu", "gte", 1, "warning")) @@ (high :> Says("cpu", "gte", 2, "critical"))
    @@ (ram :> Says("ram", "gte", 1, "warning"))
    @@ (floor :> Says("cpu", "lt", 1, "warning")) @@ (again :> Says("cpu", "lte", 1, "warning"))

TheRules == [r \in CustomRules \cup BuiltinRules |-> Written[r]]

Twins == Permutations({c1, c2})
=============================================================================
