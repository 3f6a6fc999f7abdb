---------------------------- MODULE MCAgentLink -----------------------------
(* AgentLink for TLC: one agent.                                            *)
EXTENDS AgentLink

CONSTANTS n1, s1, s2

OneNode == [s \in Sessions |-> n1]
=============================================================================
