---------------------------- MODULE AlertService ----------------------------
(***************************************************************************)
(* Alerts on the metrics of one node: check_metric_alerts of                *)
(* server/services/alert_service.py, run in a task of its own for every     *)
(* metrics message, the rules operators create and delete, and the          *)
(* notifications dispatched once a check has committed.  Alerts of other    *)
(* nodes are never read by these checks.                                    *)
(*                                                                          *)
(* A key is what alerts are told apart by, a metric and a severity.  The    *)
(* queries of a check are separate steps, at PostgreSQL's default           *)
(* isolation: each sees what was committed before it and what its own       *)
(* transaction has flushed.  What a check writes takes effect for others    *)
(* at its commit.                                                           *)
(***************************************************************************)
EXTENDS Integers, FiniteSets

CONSTANTS
    Metrics, Severities,
    Readings,       \* values a metric may have
    CustomRules,    \* AlertRule rows operators may create for this node
    BuiltinRules,   \* DEFAULT_RULES
    Rule,           \* what each rule says
    Checks,         \* checks that may be under way at the same time
    MaxCopies,      \* bound: alerts of one key that exist or are referred to
    MaxFaults,      \* bound: database errors in checks, and restarts
    Missing         \* a metric that a message does not report

Keys == Metrics \X Severities
Alerts == Keys \X (1..MaxCopies)
Rules == CustomRules \cup BuiltinRules
Operators == {"gt", "lt", "gte", "lte"}

ASSUME ReadingsAssumption == Readings \subseteq Int /\ Missing \notin Readings
ASSUME RulesAssumption ==
    /\ CustomRules \cap BuiltinRules = {}
    /\ Rule \in [Rules -> [metric : Metrics, operator : Operators,
                           threshold : Int, severity : Severities]]
ASSUME BoundsAssumption == MaxCopies \in Nat \ {0} /\ MaxFaults \in Nat

VARIABLES
    custom,     \* the enabled AlertRule rows that apply to the node
    active,     \* committed alerts whose resolved_at is NULL
    pc,         \* pc[c]: where check c is
    message,    \* message[c]: the metrics it was started with
    rules,      \* rules[c]: gathered rules still to be evaluated
    evaluated,  \* evaluated[c]: evaluated_keys
    fired,      \* fired[c]: fired_keys
    recovered,  \* recovered[c]: keys the second loop has still to look at
    inserted,   \* inserted[c]: the alerts it added
    resolved,   \* resolved[c]: the alerts it set resolved_at of
    told,       \* told[k]: the last event dispatched for key k
    faults,     \* database errors and restarts so far
    touched,    \* history: touched[c]: keys that other checks have written
                \* since c began
    unsure      \* history: keys for which notifications of two checks raced,
                \* or one was lost, since a check wrote them undisturbed

checkVars == <<pc, message, rules, evaluated, fired, recovered, inserted, resolved>>
vars == <<custom, active, checkVars, told, faults, touched, unsure>>

-----------------------------------------------------------------------------
Messages == [Metrics -> Readings \cup {Missing}]
Silence == [m \in Metrics |-> Missing]

TypeOK ==
    /\ custom \subseteq CustomRules
    /\ active \subseteq Alerts
    /\ pc \in [Checks -> {"idle", "evaluating", "resolving", "notifying"}]
    /\ message \in [Checks -> Messages]
    /\ rules \in [Checks -> SUBSET Rules]
    /\ evaluated \in [Checks -> SUBSET Keys]
    /\ fired \in [Checks -> SUBSET Keys]
    /\ recovered \in [Checks -> SUBSET Keys]
    /\ inserted \in [Checks -> SUBSET Alerts]
    /\ resolved \in [Checks -> SUBSET Alerts]
    /\ told \in [Keys -> {"nothing", "alert_fired", "alert_resolved"}]
    /\ faults \in 0..MaxFaults
    /\ touched \in [Checks -> SUBSET Keys]
    /\ unsure \subseteq Keys

Init ==
    /\ custom = {}
    /\ active = {}
    /\ pc = [c \in Checks |-> "idle"]
    /\ message = [c \in Checks |-> Silence]
    /\ rules = [c \in Checks |-> {}]
    /\ evaluated = [c \in Checks |-> {}]
    /\ fired = [c \in Checks |-> {}]
    /\ recovered = [c \in Checks |-> {}]
    /\ inserted = [c \in Checks |-> {}]
    /\ resolved = [c \in Checks |-> {}]
    /\ told = [k \in Keys |-> "nothing"]
    /\ faults = 0
    /\ touched = [c \in Checks |-> {}]
    /\ unsure = {}

(* _evaluate_operator().                                                    *)
EvaluateOperator(value, op, threshold) ==
    \/ op = "gt" /\ value > threshold
    \/ op = "lt" /\ value < threshold
    \/ op = "gte" /\ value >= threshold
    \/ op = "lte" /\ value <= threshold

RuleKey(r) == <<Rule[r].metric, Rule[r].severity>>

Reports(m, r) == m[Rule[r].metric] # Missing

Fires(m, r) ==
    Reports(m, r) /\ EvaluateOperator(m[Rule[r].metric], Rule[r].operator, Rule[r].threshold)

(* _gather_rules(): the built-in rules of a metric count only if no custom  *)
(* rule covers the metric.                                                  *)
EffectiveRules ==
    custom \cup {b \in BuiltinRules : \A r \in custom : Rule[r].metric # Rule[b].metric}

(* Mutant of Visible: the query overlooks what the check has added itself.  *)
VisibleCommitted(c, k) == {a \in active : a[1] = k}

(* The unresolved alerts of key k that a query of check c returns.          *)
Visible(c, k) == {a \in active \cup inserted[c] : a[1] = k}

(* A new id: no row and no transaction refers to it.                        *)
FreshAlerts(k) ==
    {a \in Alerts :
        /\ a[1] = k /\ a \notin active
        /\ \A c \in Checks : a \notin inserted[c] \cup resolved[c]}

(* The check adds an alert of key k for rule r.                             *)
Adds(c, r, k) == Fires(message[c], r) /\ Visible(c, k) = {}

-----------------------------------------------------------------------------
(* check_metric_alerts().                                                   *)

(* A metrics message starts a check; its first query gathers the rules.     *)
(* Rules on metrics that are not reported are passed over.                  *)
Start(c) ==
    /\ pc[c] = "idle"
    /\ \E m \in Messages :
        /\ message' = [message EXCEPT ![c] = m]
        /\ rules' = [rules EXCEPT ![c] = {r \in EffectiveRules : Reports(m, r)}]
    /\ pc' = [pc EXCEPT ![c] = "evaluating"]
    /\ UNCHANGED <<custom, active, evaluated, fired, recovered, inserted, resolved,
                   told, faults, touched, unsure>>

(* One round of the first loop.  The query raises when it finds two alerts; *)
(* otherwise the rule is evaluated without another await.                   *)
Evaluate(c, r) ==
    LET k == RuleKey(r) IN
    /\ pc[c] = "evaluating" /\ r \in rules[c]
    /\ Cardinality(Visible(c, k)) <= 1
    /\ Adds(c, r, k) => FreshAlerts(k) # {}                     \* MaxCopies
    /\ rules' = [rules EXCEPT ![c] = @ \ {r}]
    /\ evaluated' = [evaluated EXCEPT ![c] = @ \cup {k}]
    /\ fired' = [fired EXCEPT ![c] = IF Fires(message[c], r) THEN @ \cup {k} ELSE @]
    /\ inserted' = [inserted EXCEPT ![c] =
            IF Adds(c, r, k) THEN @ \cup {CHOOSE a \in FreshAlerts(k) : TRUE} ELSE @]
    /\ UNCHANGED <<custom, active, pc, message, recovered, resolved, told, faults,
                   touched, unsure>>

(* Mutant of StartResolving: fired keys are not left out.                   *)
StartResolvingAll(c) ==
    /\ pc[c] = "evaluating" /\ rules[c] = {}
    /\ pc' = [pc EXCEPT ![c] = "resolving"]
    /\ recovered' = [recovered EXCEPT ![c] = evaluated[c]]
    /\ UNCHANGED <<custom, active, message, rules, evaluated, fired,
                   inserted, resolved, told, faults, touched, unsure>>

(* The second loop is over evaluated_keys - fired_keys.                     *)
StartResolving(c) ==
    /\ pc[c] = "evaluating" /\ rules[c] = {}
    /\ pc' = [pc EXCEPT ![c] = "resolving"]
    /\ recovered' = [recovered EXCEPT ![c] = evaluated[c] \ fired[c]]
    /\ UNCHANGED <<custom, active, message, rules, evaluated, fired,
                   inserted, resolved, told, faults, touched, unsure>>

Resolve(c, k) ==
    /\ pc[c] = "resolving" /\ k \in recovered[c]
    /\ Cardinality(Visible(c, k)) <= 1
    /\ recovered' = [recovered EXCEPT ![c] = @ \ {k}]
    /\ resolved' = [resolved EXCEPT ![c] = @ \cup Visible(c, k)]
    /\ UNCHANGED <<custom, active, pc, message, rules, evaluated, fired,
                   inserted, told, faults, touched, unsure>>

(* The keys of the alerts that c has written and not told of.               *)
Writes(c) == {a[1] : a \in inserted[c] \cup resolved[c]}

UnderWay(c) == pc[c] \in {"evaluating", "resolving"}

(* History of a commit: the checks under way are disturbed in its keys; of  *)
(* these it leaves no doubt, unless another check has written them while it *)
(* was under way or has still to tell of them.                              *)
Record(c) ==
    /\ touched' = [d \in Checks |->
            IF d # c /\ UnderWay(d) THEN touched[d] \cup Writes(c) ELSE {}]
    /\ unsure' = (unsure \ Writes(c)) \cup
            {k \in Writes(c) :
                \/ k \in touched[c]
                \/ \E d \in Checks : pc[d] = "notifying" /\ k \in Writes(d)}

(* Mutant of Commit: resolved_at is not written.                            *)
CommitInserts(c) ==
    /\ pc[c] = "resolving" /\ recovered[c] = {}
    /\ pc' = [pc EXCEPT ![c] = "notifying"]
    /\ active' = active \cup inserted[c]
    /\ Record(c)
    /\ UNCHANGED <<custom, message, rules, evaluated, fired, recovered,
                   inserted, resolved, told, faults>>

Commit(c) ==
    /\ pc[c] = "resolving" /\ recovered[c] = {}
    /\ pc' = [pc EXCEPT ![c] = "notifying"]
    /\ active' = (active \cup inserted[c]) \ resolved[c]
    /\ Record(c)
    /\ UNCHANGED <<custom, message, rules, evaluated, fired, recovered,
                   inserted, resolved, told, faults>>

(* The task is over and its session closed.                                 *)
End(c) ==
    /\ pc' = [pc EXCEPT ![c] = "idle"]
    /\ message' = [message EXCEPT ![c] = Silence]
    /\ rules' = [rules EXCEPT ![c] = {}]
    /\ evaluated' = [evaluated EXCEPT ![c] = {}]
    /\ fired' = [fired EXCEPT ![c] = {}]
    /\ recovered' = [recovered EXCEPT ![c] = {}]
    /\ inserted' = [inserted EXCEPT ![c] = {}]
    /\ resolved' = [resolved EXCEPT ![c] = {}]
    /\ touched' = [touched EXCEPT ![c] = {}]

(* The notifications of to_notify, fired ones first, one dispatch_alert()   *)
(* after the other; it swallows every error.                                *)
NotifyFired(c) ==
    /\ pc[c] = "notifying"
    /\ \E a \in inserted[c] :
        /\ inserted' = [inserted EXCEPT ![c] = @ \ {a}]
        /\ told' = [told EXCEPT ![a[1]] = "alert_fired"]
    /\ UNCHANGED <<custom, active, pc, message, rules, evaluated, fired,
                   recovered, resolved, faults, touched, unsure>>

(* Mutant of NotifyResolved: another name for the event.                    *)
NotifyResolvedBare(c) ==
    /\ pc[c] = "notifying" /\ inserted[c] = {}
    /\ \E a \in resolved[c] :
        /\ resolved' = [resolved EXCEPT ![c] = @ \ {a}]
        /\ told' = [told EXCEPT ![a[1]] = "resolved"]
    /\ UNCHANGED <<custom, active, pc, message, rules, evaluated, fired,
                   recovered, inserted, faults, touched, unsure>>

NotifyResolved(c) ==
    /\ pc[c] = "notifying" /\ inserted[c] = {}
    /\ \E a \in resolved[c] :
        /\ resolved' = [resolved EXCEPT ![c] = @ \ {a}]
        /\ told' = [told EXCEPT ![a[1]] = "alert_resolved"]
    /\ UNCHANGED <<custom, active, pc, message, rules, evaluated, fired,
                   recovered, inserted, faults, touched, unsure>>

Return(c) ==
    /\ pc[c] = "notifying" /\ inserted[c] = {} /\ resolved[c] = {}
    /\ End(c)
    /\ UNCHANGED <<custom, active, told, faults, unsure>>

(* MultipleResultsFound: the session rolls back, and the task dies with it. *)
FindsTwo(c) ==
    /\ \/ pc[c] = "evaluating"
            /\ \E r \in rules[c] : Cardinality(Visible(c, RuleKey(r))) > 1
       \/ pc[c] = "resolving"
            /\ \E k \in recovered[c] : Cardinality(Visible(c, k)) > 1
    /\ End(c)
    /\ UNCHANGED <<custom, active, told, faults, unsure>>

(* Mutant of DatabaseFails: what was to be notified is notified all the     *)
(* same.                                                                    *)
DatabaseFailsLoudly(c) ==
    /\ UnderWay(c) /\ faults < MaxFaults
    /\ pc' = [pc EXCEPT ![c] = "notifying"]
    /\ faults' = faults + 1
    /\ UNCHANGED <<custom, active, message, rules, evaluated, fired, recovered,
                   inserted, resolved, told, touched, unsure>>

(* Any other exception of a query or of the commit.                         *)
DatabaseFails(c) ==
    /\ UnderWay(c) /\ faults < MaxFaults
    /\ End(c)
    /\ faults' = faults + 1
    /\ UNCHANGED <<custom, active, told, unsure>>

(* The server process dies: no check goes on, and what was committed and    *)
(* not told of yet is told to nobody.                                       *)
Restart ==
    /\ faults < MaxFaults
    /\ faults' = faults + 1
    /\ pc' = [c \in Checks |-> "idle"]
    /\ message' = [c \in Checks |-> Silence]
    /\ rules' = [c \in Checks |-> {}]
    /\ evaluated' = [c \in Checks |-> {}]
    /\ fired' = [c \in Checks |-> {}]
    /\ recovered' = [c \in Checks |-> {}]
    /\ inserted' = [c \in Checks |-> {}]
    /\ resolved' = [c \in Checks |-> {}]
    /\ touched' = [c \in Checks |-> {}]
    /\ unsure' = unsure \cup UNION {Writes(c) : c \in {d \in Checks : pc[d] = "notifying"}}
    /\ UNCHANGED <<custom, active, told>>

-----------------------------------------------------------------------------
(* create_alert_rule() and delete_alert_rule().                             *)

CreateRule(r) ==
    /\ custom' = custom \cup {r}
    /\ UNCHANGED <<active, checkVars, told, faults, touched, unsure>>

DeleteRule(r) ==
    /\ custom' = custom \ {r}
    /\ UNCHANGED <<active, checkVars, told, faults, touched, unsure>>

-----------------------------------------------------------------------------
Check(c) ==
    \/ \E r \in rules[c] : Evaluate(c, r)
    \/ \E k \in recovered[c] : Resolve(c, k)
    \/ StartResolving(c) \/ Commit(c) \/ FindsTwo(c)
    \/ NotifyFired(c) \/ NotifyResolved(c) \/ Return(c)

Next ==
    \/ \E c \in Checks : Start(c) \/ Check(c) \/ DatabaseFails(c)
    \/ \E r \in CustomRules : CreateRule(r) \/ DeleteRule(r)
    \/ Restart

Spec == Init /\ [][Next]_vars

(* A check that was started is carried on.  No agent has to send metrics.   *)
FairSpec == Spec /\ \A c \in Checks : WF_vars(Check(c))

-----------------------------------------------------------------------------
(* Properties.                                                              *)

ActiveFor(k) == {a \in active : a[1] = k}

(* Overlapping checks leave no more alerts of one key than there are        *)
(* checks: a check adds none to those it sees, however many rules fire.     *)
DuplicatesAreBounded == \A k \in Keys : Cardinality(ActiveFor(k)) <= Cardinality(Checks)

Commits(c) == pc[c] = "resolving" /\ pc'[c] = "notifying"

(* alert_service.py:125: "one active alert per combination" of metric and   *)
(* severity.  It is given up by nothing but the commit of a check while     *)
(* which another check has written alerts of that very key: not by two      *)
(* rules of one key that fire in the same check, nor by a check that began  *)
(* after the last commit, whatever errors, restarts and changes of rules    *)
(* there were.                                                              *)
OnlyRacesDuplicate ==
    [][\A a, b \in active' :
        a # b /\ a[1] = b[1] /\ ~({a, b} \subseteq active)
        => \E c \in Checks : Commits(c) /\ a[1] \in touched[c]]_vars

(* A commit settles the keys its check looked at, but for those another     *)
(* check has written meanwhile: one active alert if some rule fired and     *)
(* none otherwise.  The keys it did not look at it leaves alone.            *)
CommitSettles ==
    [][\A c \in Checks : Commits(c) =>
        \A k \in Keys :
            /\ k \notin evaluated[c] => ActiveFor(k)' = ActiveFor(k)
            /\ k \in evaluated[c] \ touched[c] =>
                   Cardinality(ActiveFor(k)') = IF k \in fired[c] THEN 1 ELSE 0]_vars

(* What receivers were last told about a key is how it stands, as soon as   *)
(* no check has still to tell of it: no notification without its commit,    *)
(* and no commit without its notification.  Excepted are keys for which two *)
(* checks raced, or whose notification died with the server after the       *)
(* commit, until a check writes them undisturbed.                           *)
ToldAsItIs ==
    \A k \in Keys \ unsure :
        (\A c \in Checks : pc[c] = "notifying" => k \notin Writes(c))
        => ((told[k] = "alert_fired") <=> (ActiveFor(k) # {}))

(* Key k is looked at by the rules in force, and no message under way makes *)
(* any of them fire.                                                        *)
Recovered(k) ==
    /\ \E r \in EffectiveRules : RuleKey(r) = k
    /\ \A c \in Checks : pc[c] # "idle" =>
        \A r \in EffectiveRules : RuleKey(r) = k =>
            Reports(message[c], r) /\ ~Fires(message[c], r)

(* alert_service.py:124: a check "resolves existing ones if recovered".  As *)
(* long as metrics keep coming, a key that stays recovered ends up without  *)
(* an active alert.                                                         *)
RecoveredIsResolved ==
    \A k \in Keys :
        ([]<>(\E c \in Checks : pc[c] = "evaluating") /\ <>[]Recovered(k))
            => <>[](ActiveFor(k) = {})

=============================================================================
