--------------------------- MODULE CommandContract ---------------------------
(***************************************************************************)
(* What a caller of the command endpoints is promised, without sessions,    *)
(* futures or rows: every request the server admits is answered once, and   *)
(* an answer that carries an outcome carries the one its own command had on *)
(* the node.  Only a failure of the server cuts a request off.              *)
(* CommandExecution and FileTransfers implement this specification.         *)
(***************************************************************************)
CONSTANTS Requests, Outcomes

VARIABLES
    stage,      \* "idle", "open" once admitted, "closed" once answered,
                \* "cut" when the server failed before that
    answer,     \* what the caller was told, "none" before
    outcome     \* how the command ended on the node, "none" before

contractVars == <<stage, answer, outcome>>

Excuses == {"timeout", "unavailable"}

Init ==
    /\ stage = [r \in Requests |-> "idle"]
    /\ answer = [r \in Requests |-> "none"]
    /\ outcome = [r \in Requests |-> "none"]

(* One call admits one request, or several when it is a bulk call.          *)
Admit(R) ==
    /\ \A r \in R : stage[r] = "idle"
    /\ stage' = [r \in Requests |-> IF r \in R THEN "open" ELSE stage[r]]
    /\ UNCHANGED <<answer, outcome>>

(* The node runs an admitted command, even one already given up on.         *)
Run(r, o) ==
    /\ stage[r] # "idle" /\ outcome[r] = "none"
    /\ outcome' = [outcome EXCEPT ![r] = o]
    /\ UNCHANGED <<stage, answer>>

(* The result of a request is known to the server.                          *)
Learn(r) ==
    /\ stage[r] = "open" /\ answer[r] = "none"
    /\ \E a \in Excuses \cup (Outcomes \cap {outcome[r]}) :
            answer' = [answer EXCEPT ![r] = a]
    /\ stage' \in {stage, [stage EXCEPT ![r] = "closed"]}
    /\ UNCHANGED outcome

(* The caller gets the answers of one call.                                 *)
Close(R) ==
    /\ \A r \in R : stage[r] = "open" /\ answer[r] # "none"
    /\ stage' = [r \in Requests |-> IF r \in R THEN "closed" ELSE stage[r]]
    /\ UNCHANGED <<answer, outcome>>

(* The server fails, and the requests in R end without an answer.           *)
Cut(R) ==
    /\ \A r \in R : stage[r] = "open"
    /\ stage' = [r \in Requests |-> IF r \in R THEN "cut" ELSE stage[r]]
    /\ UNCHANGED <<answer, outcome>>

Next ==
    \/ \E R \in SUBSET Requests : Admit(R) \/ Close(R) \/ Cut(R)
    \/ \E r \in Requests : Learn(r) \/ \E o \in Outcomes : Run(r, o)

Safety == Init /\ [][Next]_contractVars

Spec ==
    /\ Safety
    /\ \A r \in Requests : (stage[r] = "open") ~> (stage[r] \in {"closed", "cut"})

-----------------------------------------------------------------------------
(* What follows for a caller.                                               *)

(* What he is told, if no excuse, is the outcome of his own command, and he *)
(* is told something when he is answered.                                   *)
AnswersAreOwn ==
    \A r \in Requests :
        /\ answer[r] \in Excuses \cup {"none", outcome[r]}
        /\ stage[r] = "closed" => answer[r] # "none"
        /\ stage[r] = "idle" => answer[r] = "none" /\ outcome[r] = "none"

(* Answer, outcome and the end of a request are each decided once.          *)
AnswersAreFinal ==
    [][\A r \in Requests :
        /\ answer[r] # "none" => answer'[r] = answer[r]
        /\ outcome[r] # "none" => outcome'[r] = outcome[r]
        /\ stage[r] \in {"closed", "cut"} => stage'[r] = stage[r]]_contractVars
=============================================================================
