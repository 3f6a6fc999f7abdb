------------------------- MODULE AlertServiceProofs -------------------------
(* Theorems about AlertService, for any rules, metrics, readings, bounds    *)
(* and any number of checks that overlap: its types, the number of          *)
(* duplicates, the reasons of every alert, what a commit settles and what   *)
(* receivers are told.                                                      *)
EXTENDS AlertService, FiniteSetTheorems, TLAPS

(* The alert a check adds is a new one of its key.                          *)
LEMMA FreshIsNew ==
    ASSUME NEW k, FreshAlerts(k) # {}
    PROVE  LET a == CHOOSE x \in FreshAlerts(k) : TRUE IN a \in Alerts /\ a[1] = k
BY DEF FreshAlerts

(* The variables keep their types.                                          *)
LEMMA TypeStep == ASSUME TypeOK, [Next]_vars PROVE TypeOK'
<1> USE DEF TypeOK
<1>0. TypeOK OBVIOUS
<1>1. ASSUME NEW c \in Checks, Start(c) PROVE TypeOK'
  BY <1>0, <1>1 DEF Start, EffectiveRules, Rules
<1>2. ASSUME NEW c \in Checks, NEW r \in rules[c], Evaluate(c, r) PROVE TypeOK'
  <2>1. RuleKey(r) \in Keys
    BY <1>0, RulesAssumption DEF RuleKey, Keys
  <2> DEFINE k == RuleKey(r)
             a == CHOOSE x \in FreshAlerts(k) : TRUE
  <2>2. Adds(c, r, k) => a \in Alerts
    BY <1>2, FreshIsNew DEF Evaluate
  <2>3. inserted' \in [Checks -> SUBSET Alerts]
    BY <1>0, <1>2, <2>2 DEF Evaluate
  <2>4. /\ evaluated' \in [Checks -> SUBSET Keys] /\ fired' \in [Checks -> SUBSET Keys]
        /\ rules' \in [Checks -> SUBSET Rules]
    BY <1>0, <1>2, <2>1 DEF Evaluate
  <2> QED BY <1>0, <1>2, <2>3, <2>4 DEF Evaluate
<1>3. ASSUME NEW c \in Checks, NEW k \in recovered[c], Resolve(c, k) PROVE TypeOK'
  BY <1>0, <1>3 DEF Resolve, Visible
<1>4. ASSUME NEW c \in Checks, StartResolving(c) PROVE TypeOK'
  BY <1>0, <1>4 DEF StartResolving
<1>5. ASSUME NEW c \in Checks, Commit(c) PROVE TypeOK'
  <2>1. Writes(c) \subseteq Keys
    BY <1>0 DEF Writes, Alerts
  <2>2. touched' \in [Checks -> SUBSET Keys] /\ unsure' \subseteq Keys
    BY <1>0, <1>5, <2>1 DEF Commit, Record
  <2>3. active' \subseteq Alerts
    BY <1>0, <1>5 DEF Commit
  <2> QED BY <1>0, <1>5, <2>2, <2>3 DEF Commit
<1>6. ASSUME NEW c \in Checks, NotifyFired(c) \/ NotifyResolved(c) PROVE TypeOK'
  <2>1. told' \in [Keys -> {"nothing", "alert_fired", "alert_resolved"}]
    BY <1>0, <1>6 DEF NotifyFired, NotifyResolved
  <2> QED BY <1>0, <1>6, <2>1 DEF NotifyFired, NotifyResolved
<1>7. Silence \in Messages
  BY DEF Silence, Messages
<1>8. ASSUME NEW c \in Checks, End(c), UNCHANGED <<custom, active, told, unsure>>,
             faults' \in 0..MaxFaults
      PROVE TypeOK'
  BY <1>0, <1>7, <1>8 DEF End
<1>9. ASSUME NEW c \in Checks, Return(c) \/ FindsTwo(c) PROVE TypeOK'
  BY <1>0, <1>8, <1>9 DEF Return, FindsTwo
<1>10. ASSUME NEW c \in Checks, DatabaseFails(c) PROVE TypeOK'
  <2>1. faults' \in 0..MaxFaults BY <1>0, <1>10, BoundsAssumption DEF DatabaseFails
  <2> QED BY <1>8, <1>10, <2>1 DEF DatabaseFails
<1>11. ASSUME NEW r \in CustomRules, CreateRule(r) \/ DeleteRule(r) PROVE TypeOK'
  BY <1>0, <1>11 DEF CreateRule, DeleteRule, checkVars
<1>12. CASE Restart
  <2>1. UNION {Writes(c) : c \in {d \in Checks : pc[d] = "notifying"}} \subseteq Keys
    BY <1>0 DEF Writes, Alerts
  <2>2. faults' \in 0..MaxFaults
    BY <1>0, <1>12, BoundsAssumption DEF Restart
  <2> QED BY <1>0, <1>7, <1>12, <2>1, <2>2 DEF Restart
<1>13. CASE UNCHANGED vars
  BY <1>0, <1>13 DEF vars, checkVars
<1> QED
  BY <1>1, <1>2, <1>3, <1>4, <1>5, <1>6, <1>9, <1>10, <1>11, <1>12, <1>13 DEF Next, Check

(* The variables of every step keep their types.                            *)
THEOREM TypeCorrect == Spec => []TypeOK
<1>1. Init => TypeOK
  BY BoundsAssumption DEF Init, TypeOK, Silence, Messages
<1>2. TypeOK /\ [Next]_vars => TypeOK'
  BY TypeStep
<1> QED BY <1>1, <1>2, PTL DEF Spec
-----------------------------------------------------------------------------
(* Overlapping checks.                                                      *)

(* What check c has written and not committed.                              *)
Pending(c) == IF UnderWay(c) THEN inserted[c] ELSE {}

(* The alerts of key k that are or may become active.                       *)
AllFor(k) == {a \in active \cup UNION {Pending(c) : c \in Checks} : a[1] = k}

(* A check has written nothing when it starts, and one alert of a key.      *)
OwnInv(c) ==
    /\ pc[c] = "idle" => inserted[c] = {}
    /\ \A a, b \in Pending(c) : a[1] = b[1] => a = b

NoMoreThanChecks(k) ==
    IsFiniteSet(AllFor(k)) /\ Cardinality(AllFor(k)) <= Cardinality(Checks)

(* A set of things of which each is in one of finitely many boxes, while no *)
(* box has two, is no larger than the set of boxes.                         *)
LEMMA OneInEachBox ==
    ASSUME NEW S, NEW Boxes, IsFiniteSet(Boxes), NEW box \in [Boxes -> SUBSET S],
           \A x \in S : \E b \in Boxes : x \in box[b],
           \A b \in Boxes : \A x, y \in box[b] : x = y
    PROVE  IsFiniteSet(S) /\ Cardinality(S) <= Cardinality(Boxes)
<1> DEFINE f == [x \in S |-> CHOOSE b \in Boxes : x \in box[b]]
<1>1. \A x \in S : f[x] \in Boxes /\ x \in box[f[x]]
  OBVIOUS
<1>2. f \in [S -> Boxes]
  BY <1>1
<1>3. \A x, y \in S : f[x] = f[y] => x = y
  BY <1>1
<1> HIDE DEF f
<1>4. f \in Injection(S, Boxes)
  BY <1>2, <1>3 DEF Injection, IsInjective
<1> QED BY <1>4, FS_Injection

(* A step of another kind than adding an alert makes no alert of a key more *)
(* likely.                                                                  *)
LEMMA OnlyEvaluateAdds ==
    ASSUME TypeOK, \A c \in Checks : OwnInv(c), [Next]_vars,
           ~ \E c \in Checks : \E r \in rules[c] : Evaluate(c, r)
    PROVE  /\ \A k : AllFor(k)' \subseteq AllFor(k)
           /\ \A c \in Checks : OwnInv(c)'
<1> DEFINE Goal == /\ \A k : AllFor(k)' \subseteq AllFor(k)
                   /\ \A c \in Checks : OwnInv(c)'
<1> USE DEF TypeOK, OwnInv, Pending, UnderWay, AllFor
<1>1. ASSUME NEW c \in Checks, Start(c) PROVE Goal
  BY <1>1 DEF Start
<1>2. ASSUME NEW c \in Checks, NEW k \in recovered[c], Resolve(c, k) PROVE Goal
  BY <1>2 DEF Resolve
<1>3. ASSUME NEW c \in Checks, StartResolving(c) PROVE Goal
  BY <1>3 DEF StartResolving
<1>4. ASSUME NEW c \in Checks, Commit(c) PROVE Goal
  BY <1>4 DEF Commit
<1>5. ASSUME NEW c \in Checks, NotifyFired(c) PROVE Goal
  BY <1>5 DEF NotifyFired
<1>6. ASSUME NEW c \in Checks, NotifyResolved(c) PROVE Goal
  BY <1>6 DEF NotifyResolved
<1>7. ASSUME NEW c \in Checks, End(c), UNCHANGED active PROVE Goal
  BY <1>7 DEF End
<1>8. ASSUME NEW c \in Checks, Return(c) \/ FindsTwo(c) \/ DatabaseFails(c) PROVE Goal
  BY <1>7, <1>8 DEF Return, FindsTwo, DatabaseFails
<1>9. CASE Restart
  BY <1>9 DEF Restart
<1>10. CASE UNCHANGED <<active, checkVars>>
  BY <1>10 DEF checkVars
<1> QED
  BY <1>1, <1>2, <1>3, <1>4, <1>5, <1>6, <1>8, <1>9, <1>10
     DEF Next, Check, CreateRule, DeleteRule, vars

(* A check that adds an alert of a key sees none: all there are by then are *)
(* uncommitted, one of each check at most.                                  *)
LEMMA EvaluateAddsOne ==
    ASSUME IsFiniteSet(Checks), TypeOK, \A c \in Checks : OwnInv(c),
           \A k \in Keys : NoMoreThanChecks(k),
           NEW c \in Checks, NEW r \in rules[c], Evaluate(c, r)
    PROVE  /\ \A d \in Checks : OwnInv(d)'
           /\ \A k \in Keys : NoMoreThanChecks(k)'
<1> DEFINE key == RuleKey(r)
           a == CHOOSE x \in FreshAlerts(key) : TRUE
<1> USE DEF TypeOK, OwnInv, Pending, UnderWay, AllFor
<1>1. pc' = pc /\ active' = active /\ pc[c] = "evaluating"
  BY DEF Evaluate
<1>2. CASE ~Adds(c, r, key)
  <2>1. inserted' = inserted
    BY <1>2 DEF Evaluate
  <2>2. \A k : AllFor(k)' = AllFor(k)
    BY <1>1, <2>1
  <2>3. \A d \in Checks : OwnInv(d)'
    BY <1>1, <2>1
  <2> QED BY <2>2, <2>3 DEF NoMoreThanChecks
<1>3. CASE Adds(c, r, key)
  <2>1. inserted' = [inserted EXCEPT ![c] = @ \cup {a}]
    BY <1>3 DEF Evaluate
  <2>2. a[1] = key
    BY <1>3, FreshIsNew DEF Evaluate
  <2>3. \A x \in active \cup inserted[c] : x[1] # key
    BY <1>3 DEF Adds, Visible
  <2> HIDE DEF key, a
  <2>4. \A d \in Checks : OwnInv(d)'
    BY <1>1, <2>1, <2>2, <2>3
  <2>5. ASSUME NEW k \in Keys, k # key PROVE NoMoreThanChecks(k)'
    <3>1. AllFor(k)' = AllFor(k)
      BY <1>1, <2>1, <2>2, <2>5
    <3> QED BY <3>1 DEF NoMoreThanChecks
  <2>6. NoMoreThanChecks(key)'
    <3> DEFINE S == AllFor(key)'
               box == [d \in Checks |-> S \cap Pending(d)']
    <3>1. \A x \in S : \E d \in Checks : x \in box[d]
      BY <1>1, <2>3
    <3>2. \A d \in Checks : \A x, y \in box[d] : x = y
      BY <2>4
    <3>3. box \in [Checks -> SUBSET S]
      OBVIOUS
    <3> HIDE DEF S, box
    <3>4. IsFiniteSet(S) /\ Cardinality(S) <= Cardinality(Checks)
      BY <3>1, <3>2, <3>3, OneInEachBox
    <3> QED BY <3>4 DEF NoMoreThanChecks, S
  <2> QED BY <2>4, <2>5, <2>6
<1> QED BY <1>2, <1>3

(* Overlapping checks leave no more active alerts of one key than there are *)
(* checks.                                                                  *)
THEOREM FewDuplicates ==
    ASSUME IsFiniteSet(Checks) PROVE Spec => []DuplicatesAreBounded
<1> DEFINE DInv == /\ \A c \in Checks : OwnInv(c)
                   /\ \A k \in Keys : NoMoreThanChecks(k)
<1>1. Init => DInv
  <2> SUFFICES ASSUME Init PROVE DInv
    OBVIOUS
  <2>1. \A k \in Keys : AllFor(k) = {}
    BY DEF Init, AllFor, Pending
  <2> QED BY <2>1, FS_EmptySet, FS_CardinalityType DEF Init, OwnInv, Pending, NoMoreThanChecks
<1>2. TypeOK /\ DInv /\ [Next]_vars => DInv'
  <2> SUFFICES ASSUME TypeOK, DInv, [Next]_vars PROVE DInv'
    OBVIOUS
  <2>1. CASE \E c \in Checks : \E r \in rules[c] : Evaluate(c, r)
    BY <2>1, EvaluateAddsOne
  <2>2. CASE ~ \E c \in Checks : \E r \in rules[c] : Evaluate(c, r)
    <3>1. /\ \A k : AllFor(k)' \subseteq AllFor(k)
          /\ \A c \in Checks : OwnInv(c)'
      BY <2>2, OnlyEvaluateAdds
    <3>2. ASSUME NEW k \in Keys PROVE NoMoreThanChecks(k)'
      BY <3>1, FS_Subset, FS_CardinalityType DEF NoMoreThanChecks
    <3> QED BY <3>1, <3>2
  <2> QED BY <2>1, <2>2
<1>3. DInv => DuplicatesAreBounded
  <2> SUFFICES ASSUME DInv, NEW k \in Keys
               PROVE  Cardinality(ActiveFor(k)) <= Cardinality(Checks)
    BY DEF DuplicatesAreBounded
  <2>1. ActiveFor(k) \subseteq AllFor(k)
    BY DEF ActiveFor, AllFor
  <2> QED BY <2>1, FS_Subset, FS_CardinalityType DEF NoMoreThanChecks
<1>4. Spec => []TypeOK
  BY TypeCorrect
<1> HIDE DEF DInv
<1> QED BY <1>1, <1>2, <1>3, <1>4, PTL DEF Spec

-----------------------------------------------------------------------------
(* What overlapping checks may do to each other's alerts.                   *)

(* A rule of key k fires for the message of check c; a rule of key k is     *)
(* reported on by it and does not fire.                                     *)
SomeFires(c, k) == \E r \in Rules : RuleKey(r) = k /\ Fires(message[c], r)
SomeRests(c, k) ==
    \E r \in Rules : RuleKey(r) = k /\ Reports(message[c], r) /\ ~Fires(message[c], r)

(* An alert becomes active by the commit of a check whose message makes a   *)
(* rule of its key fire, and is resolved by the commit of one that looked   *)
(* at its key, for which no rule it looked at fired and at least one did    *)
(* not.                                                                     *)
AlertsAreJustified ==
    [][\A a \in Alerts :
        /\ a \in active' \ active =>
               \E c \in Checks : Commits(c) /\ SomeFires(c, a[1])
        /\ a \in active \ active' =>
               \E c \in Checks :
                   Commits(c) /\ a[1] \in evaluated[c] \ fired[c] /\ SomeRests(c, a[1])]_vars

(* The reasons check c has for what it has gathered and written so far.     *)
ReasonInv(c) ==
    /\ pc[c] = "idle" => inserted[c] = {} /\ evaluated[c] = {} /\ fired[c] = {}
    /\ pc[c] \in {"idle", "evaluating"} => resolved[c] = {}
    /\ UnderWay(c) =>
           /\ fired[c] \subseteq evaluated[c]
           /\ \A r \in rules[c] : Reports(message[c], r)
           /\ \A k \in fired[c] : SomeFires(c, k)
           /\ \A k \in evaluated[c] \ fired[c] : SomeRests(c, k)
           /\ \A a \in inserted[c] : a[1] \in fired[c]
           /\ \A a \in resolved[c] : a[1] \in evaluated[c] \ fired[c]
    /\ pc[c] = "resolving" => recovered[c] \subseteq evaluated[c] \ fired[c]

(* A check keeps its reasons through each of its steps.                     *)
LEMMA ReasonStep ==
    ASSUME TypeOK, NEW c \in Checks, ReasonInv(c),
           Start(c) \/ Check(c) \/ DatabaseFails(c)
    PROVE  ReasonInv(c)'
<1> USE DEF TypeOK, ReasonInv, UnderWay
<1>1. CASE Start(c)
  BY <1>1 DEF Start
<1>2. ASSUME NEW r \in rules[c], Evaluate(c, r) PROVE ReasonInv(c)'
  <2> DEFINE k == RuleKey(r)
             a == CHOOSE x \in FreshAlerts(k) : TRUE
  <2>1. /\ pc[c] = "evaluating" /\ pc' = pc /\ message' = message
        /\ resolved' = resolved /\ rules'[c] \subseteq rules[c]
        /\ evaluated'[c] = evaluated[c] \cup {k}
    BY <1>2 DEF Evaluate
  <2>2. fired'[c] = IF Fires(message[c], r) THEN fired[c] \cup {k} ELSE fired[c]
    BY <1>2 DEF Evaluate
  <2>3. \A x \in inserted'[c] : x \in inserted[c] \/ (Fires(message[c], r) /\ x[1] = k)
    <3>1. CASE Adds(c, r, k)
      <4>1. a[1] = k /\ inserted'[c] = inserted[c] \cup {a}
        BY <1>2, <3>1, FreshIsNew DEF Evaluate
      <4> QED BY <3>1, <4>1 DEF Adds
    <3>2. CASE ~Adds(c, r, k)
      BY <1>2, <3>2 DEF Evaluate
    <3> QED BY <3>1, <3>2
  <2>4. \A x : (SomeFires(c, x) => SomeFires(c, x)') /\ (SomeRests(c, x) => SomeRests(c, x)')
    BY <2>1 DEF SomeFires, SomeRests
  <2>5. IF Fires(message[c], r) THEN SomeFires(c, k) ELSE SomeRests(c, k)
    BY <2>1 DEF SomeFires, SomeRests
  <2> HIDE DEF k, a
  <2> QED BY <2>1, <2>2, <2>3, <2>4, <2>5
<1>3. ASSUME NEW k \in recovered[c], Resolve(c, k) PROVE ReasonInv(c)'
  BY <1>3 DEF Resolve, Visible, SomeFires, SomeRests
<1>4. CASE StartResolving(c)
  BY <1>4 DEF StartResolving, SomeFires, SomeRests
<1>5. CASE Commit(c)
  BY <1>5 DEF Commit
<1>6. CASE NotifyFired(c) \/ NotifyResolved(c)
  BY <1>6 DEF NotifyFired, NotifyResolved
<1>7. CASE Return(c) \/ FindsTwo(c) \/ DatabaseFails(c)
  <2>1. End(c)
    BY <1>7 DEF Return, FindsTwo, DatabaseFails
  <2> QED BY <2>1 DEF End
<1> QED BY <1>1, <1>2, <1>3, <1>4, <1>5, <1>6, <1>7 DEF Check

(* A step of one check leaves the state of the others alone.                *)
LEMMA OthersAreUntouched ==
    ASSUME TypeOK, NEW c \in Checks, Start(c) \/ Check(c) \/ DatabaseFails(c),
           NEW d \in Checks \ {c}
    PROVE  /\ pc'[d] = pc[d] /\ message'[d] = message[d] /\ rules'[d] = rules[d]
           /\ evaluated'[d] = evaluated[d] /\ fired'[d] = fired[d]
           /\ recovered'[d] = recovered[d] /\ inserted'[d] = inserted[d]
           /\ resolved'[d] = resolved[d]
<1> USE DEF TypeOK
<1>1. CASE Start(c) \/ StartResolving(c) \/ Commit(c)
  BY <1>1 DEF Start, StartResolving, Commit
<1>2. CASE \/ \E r \in rules[c] : Evaluate(c, r)
           \/ \E k \in recovered[c] : Resolve(c, k)
  BY <1>2 DEF Evaluate, Resolve
<1>3. CASE NotifyFired(c) \/ NotifyResolved(c)
  BY <1>3 DEF NotifyFired, NotifyResolved
<1>4. CASE Return(c) \/ FindsTwo(c) \/ DatabaseFails(c)
  BY <1>4 DEF Return, FindsTwo, DatabaseFails, End
<1> QED BY <1>1, <1>2, <1>3, <1>4 DEF Check

(* The reasons of every check stand in every state.                         *)
LEMMA Reasons == Spec => [](\A c \in Checks : ReasonInv(c))
<1> DEFINE RInv == \A c \in Checks : ReasonInv(c)
<1>1. Init => RInv
  BY DEF Init, ReasonInv, UnderWay
<1>2. TypeOK /\ RInv /\ [Next]_vars => RInv'
  <2> SUFFICES ASSUME TypeOK, RInv, [Next]_vars, NEW d \in Checks PROVE ReasonInv(d)'
    OBVIOUS
  <2>1. ASSUME NEW c \in Checks, Start(c) \/ Check(c) \/ DatabaseFails(c) PROVE ReasonInv(d)'
    <3>1. CASE c = d
      BY <2>1, <3>1, ReasonStep
    <3>2. CASE c # d
      BY <2>1, <3>2, OthersAreUntouched DEF ReasonInv, SomeFires, SomeRests, UnderWay
    <3> QED BY <3>1, <3>2
  <2>2. CASE Restart
    BY <2>2 DEF Restart, ReasonInv, UnderWay
  <2>3. CASE UNCHANGED checkVars
    BY <2>3 DEF checkVars, ReasonInv, SomeFires, SomeRests, UnderWay
  <2> QED BY <2>1, <2>2, <2>3 DEF Next, CreateRule, DeleteRule, vars
<1>3. Spec => []TypeOK
  BY TypeCorrect
<1> QED BY <1>1, <1>2, <1>3, PTL DEF Spec

(* Alerts are written by commits only.                                      *)
LEMMA OnlyCommitsWrite ==
    ASSUME TypeOK, [Next]_vars, ~ \E c \in Checks : Commit(c)
    PROVE  active' = active /\ ~ \E c \in Checks : Commits(c)
<1>1. ASSUME NEW c \in Checks, Start(c) \/ Check(c) \/ DatabaseFails(c)
      PROVE  active' = active /\ ~ \E d \in Checks : Commits(d)
  <2>1. active' = active /\ ~Commits(c)
    BY <1>1 DEF TypeOK, Commits, Check, Start, Evaluate, Resolve, StartResolving, FindsTwo,
       NotifyFired, NotifyResolved, Return, DatabaseFails, End
  <2>2. \A d \in Checks \ {c} : ~Commits(d)
    BY <1>1, OthersAreUntouched DEF Commits
  <2> QED BY <2>1, <2>2
<1>2. CASE Restart
  BY <1>2 DEF Restart, Commits
<1>3. CASE UNCHANGED <<active, checkVars>>
  BY <1>3 DEF checkVars, Commits
<1> QED BY <1>1, <1>2, <1>3 DEF Next, CreateRule, DeleteRule, vars

(* Whatever overlaps, no alert is raised that the committing check's own    *)
(* message does not justify, and none is resolved that some rule the check  *)
(* looked at fired for.                                                     *)
THEOREM NothingWithoutReason == Spec => AlertsAreJustified
<1> DEFINE RInv == \A c \in Checks : ReasonInv(c)
           Justified ==
             \A a \in Alerts :
               /\ a \in active' \ active =>
                      \E c \in Checks : Commits(c) /\ SomeFires(c, a[1])
               /\ a \in active \ active' =>
                      \E c \in Checks :
                          Commits(c) /\ a[1] \in evaluated[c] \ fired[c] /\ SomeRests(c, a[1])
<1>1. TypeOK /\ RInv /\ [Next]_vars => [Justified]_vars
  <2> SUFFICES ASSUME TypeOK, RInv, Next PROVE Justified
    OBVIOUS
  <2>1. ASSUME NEW c \in Checks, Commit(c) PROVE Justified
    <3>1. /\ Commits(c) /\ UnderWay(c)
          /\ active' = (active \cup inserted[c]) \ resolved[c]
      BY <2>1 DEF Commit, Commits, TypeOK, UnderWay
    <3> QED BY <3>1 DEF ReasonInv
  <2>2. CASE ~ \E c \in Checks : Commit(c)
    BY <2>2, OnlyCommitsWrite
  <2> QED BY <2>1, <2>2
<1>2. Spec => []TypeOK
  BY TypeCorrect
<1>3. Spec => []RInv
  BY Reasons
<1> HIDE DEF RInv
<1> QED BY <1>1, <1>2, <1>3, PTL DEF Spec, AlertsAreJustified, Justified

-----------------------------------------------------------------------------
(* What a commit settles.                                                   *)

(* There are finitely many alerts of one key, by the bound on copies.       *)
LEMMA CopiesAreFinite ==
    ASSUME NEW k \in Keys, NEW S \in SUBSET Alerts, \A a \in S : a[1] = k
    PROVE  IsFiniteSet(S)
<1>1. IsFiniteSet({k}) /\ IsFiniteSet(1..MaxCopies)
  <2>1. IsFiniteSet({k})
    BY FS_Singleton
  <2>2. 1 \in Int /\ MaxCopies \in Int
    BY BoundsAssumption
  <2>3. IsFiniteSet(1..MaxCopies)
    BY <2>2, FS_Interval
  <2> QED BY <2>1, <2>3
<1>2. IsFiniteSet({k} \X (1..MaxCopies))
  BY <1>1, FS_Product
<1>3. S \subseteq {k} \X (1..MaxCopies)
  <2> SUFFICES ASSUME NEW a \in S PROVE a \in {k} \X (1..MaxCopies)
    OBVIOUS
  <2>1. PICK x \in Keys, i \in 1..MaxCopies : a = <<x, i>>
    BY DEF Alerts
  <2> QED BY <2>1
<1> QED BY <1>2, <1>3, FS_Subset

(* A finite set has at most one element when its cardinality is at most 1.  *)
LEMMA AtMostOne ==
    ASSUME NEW S, IsFiniteSet(S), Cardinality(S) <= 1
    PROVE  \A a, b \in S : a = b
<1> SUFFICES ASSUME NEW a \in S, NEW b \in S, a # b PROVE FALSE
  OBVIOUS
<1>1. IsFiniteSet({a}) /\ Cardinality({a}) = 1
  BY FS_Singleton
<1>2. Cardinality({a} \cup {b}) = 2
  BY <1>1, FS_AddElement
<1>3. Cardinality({a} \cup {b}) <= Cardinality(S)
  BY FS_Subset
<1>4. Cardinality(S) \in Nat
  BY FS_CardinalityType
<1> QED BY <1>2, <1>3, <1>4

(* Of the keys no other check has written since it began, a check under way *)
(* sees one alert at most if it has looked at the key, one at least if a    *)
(* rule fired, and none it does not resolve if the second loop is done with *)
(* the key.                                                                 *)
SettledSoFar(c) ==
    UnderWay(c) => \A k \in Keys \ touched[c] :
        /\ k \in evaluated[c] => \A a, b \in Visible(c, k) : a = b
        /\ k \in fired[c] => Visible(c, k) # {}
        /\ pc[c] = "resolving" /\ k \in evaluated[c] \ (fired[c] \cup recovered[c]) =>
               Visible(c, k) \subseteq resolved[c]

(* Its own steps keep that so.                                              *)
LEMMA OwnStepSettles ==
    ASSUME TypeOK, NEW c \in Checks, ReasonInv(c), SettledSoFar(c),
           Start(c) \/ Check(c) \/ DatabaseFails(c)
    PROVE  SettledSoFar(c)'
<1> USE DEF TypeOK, UnderWay, SettledSoFar
<1>1. CASE Start(c)
  BY <1>1 DEF Start, ReasonInv
<1>2. ASSUME NEW r \in rules[c], Evaluate(c, r) PROVE SettledSoFar(c)'
  <2> DEFINE k == RuleKey(r)
             a == CHOOSE x \in FreshAlerts(k) : TRUE
  <2>1. k \in Keys
    BY RulesAssumption DEF RuleKey, Keys
  <2>2. /\ pc[c] = "evaluating" /\ pc'[c] = "evaluating" /\ active' = active
        /\ touched' = touched /\ evaluated'[c] = evaluated[c] \cup {k}
        /\ fired'[c] = IF Fires(message[c], r) THEN fired[c] \cup {k} ELSE fired[c]
    BY <1>2 DEF Evaluate
  <2>3. \A x, y \in Visible(c, k) : x = y
    <3>1. Visible(c, k) \subseteq Alerts /\ \A x \in Visible(c, k) : x[1] = k
      BY DEF Visible
    <3>2. IsFiniteSet(Visible(c, k))
      BY <2>1, <3>1, CopiesAreFinite
    <3>3. Cardinality(Visible(c, k)) <= 1
      BY <1>2 DEF Evaluate
    <3> QED BY <3>2, <3>3, AtMostOne
  <2>4. CASE Adds(c, r, k)
    <3>1. a[1] = k /\ inserted'[c] = inserted[c] \cup {a} /\ Visible(c, k) = {}
      BY <1>2, <2>4, FreshIsNew DEF Evaluate, Adds
    <3> HIDE DEF k, a
    <3>2. Visible(c, k)' = {a} /\ \A x : x # k => Visible(c, x)' = Visible(c, x)
      BY <2>2, <3>1 DEF Visible
    <3> QED BY <2>2, <3>2
  <2>5. CASE ~Adds(c, r, k)
    <3>1. inserted'[c] = inserted[c] /\ (Fires(message[c], r) => Visible(c, k) # {})
      BY <1>2, <2>5 DEF Evaluate, Adds
    <3> HIDE DEF k, a
    <3>2. \A x : Visible(c, x)' = Visible(c, x)
      BY <2>2, <3>1 DEF Visible
    <3> QED BY <2>2, <2>3, <3>1, <3>2
  <2> QED BY <2>4, <2>5
<1>3. ASSUME NEW k \in recovered[c], Resolve(c, k) PROVE SettledSoFar(c)'
  BY <1>3 DEF Resolve, Visible
<1>4. CASE StartResolving(c)
  BY <1>4 DEF StartResolving, Visible
<1>5. CASE Commit(c)
  BY <1>5 DEF Commit
<1>6. CASE NotifyFired(c) \/ NotifyResolved(c)
  BY <1>6 DEF NotifyFired, NotifyResolved
<1>7. CASE Return(c) \/ FindsTwo(c) \/ DatabaseFails(c)
  <2>1. End(c)
    BY <1>7 DEF Return, FindsTwo, DatabaseFails
  <2> QED BY <2>1 DEF End
<1> QED BY <1>1, <1>2, <1>3, <1>4, <1>5, <1>6, <1>7 DEF Check

(* So do the steps of another check, whose commit marks the keys it writes. *)
LEMMA OtherStepSettles ==
    ASSUME TypeOK, NEW c \in Checks, Start(c) \/ Check(c) \/ DatabaseFails(c),
           NEW d \in Checks \ {c}, SettledSoFar(d)
    PROVE  SettledSoFar(d)'
<1>1. /\ pc'[d] = pc[d] /\ evaluated'[d] = evaluated[d] /\ fired'[d] = fired[d]
      /\ recovered'[d] = recovered[d] /\ inserted'[d] = inserted[d]
      /\ resolved'[d] = resolved[d]
  BY OthersAreUntouched
<1>2. ASSUME UnderWay(d), NEW k \in Keys \ touched'[d]
      PROVE  k \notin touched[d] /\ Visible(d, k)' = Visible(d, k)
  <2>1. CASE Commit(c)
    <3>1. touched'[d] = touched[d] \cup Writes(c)
      BY <1>2, <2>1 DEF Commit, Record, TypeOK
    <3>2. \A a \in inserted[c] \cup resolved[c] : a[1] # k
      BY <1>2, <3>1 DEF Writes
    <3> QED BY <1>1, <1>2, <2>1, <3>1, <3>2 DEF Commit, Visible
  <2>2. CASE ~Commit(c)
    <3>1. active' = active /\ touched'[d] = touched[d]
      BY <2>2 DEF TypeOK, Check, Start, Evaluate, Resolve, StartResolving, FindsTwo,
         NotifyFired, NotifyResolved, Return, DatabaseFails, End
    <3> QED BY <1>1, <1>2, <3>1 DEF Visible
  <2> QED BY <2>1, <2>2
<1> QED BY <1>1, <1>2 DEF SettledSoFar, UnderWay

(* Every check has settled what it has looked at, in every state.           *)
LEMMA Settling == Spec => [](\A c \in Checks : SettledSoFar(c))
<1> DEFINE RInv == \A c \in Checks : ReasonInv(c)
           SInv == \A c \in Checks : SettledSoFar(c)
<1>1. Init => SInv
  BY DEF Init, SettledSoFar, UnderWay
<1>2. TypeOK /\ RInv /\ SInv /\ [Next]_vars => SInv'
  <2> SUFFICES ASSUME TypeOK, RInv, SInv, [Next]_vars, NEW d \in Checks
               PROVE  SettledSoFar(d)'
    OBVIOUS
  <2>1. ASSUME NEW c \in Checks, Start(c) \/ Check(c) \/ DatabaseFails(c)
        PROVE  SettledSoFar(d)'
    BY <2>1, OwnStepSettles, OtherStepSettles
  <2>2. CASE Restart
    BY <2>2 DEF Restart, SettledSoFar, UnderWay
  <2>3. CASE UNCHANGED <<active, checkVars, touched>>
    BY <2>3 DEF checkVars, SettledSoFar, UnderWay, Visible
  <2> QED BY <2>1, <2>2, <2>3 DEF Next, CreateRule, DeleteRule, vars
<1>3. Spec => []TypeOK
  BY TypeCorrect
<1>4. Spec => []RInv
  BY Reasons
<1> HIDE DEF RInv, SInv
<1> QED BY <1>1, <1>2, <1>3, <1>4, PTL DEF Spec, SInv

(* What the commit of a check leaves of each key.                           *)
LEMMA CommitLeaves ==
    ASSUME TypeOK, NEW c \in Checks, ReasonInv(c), SettledSoFar(c), Commit(c), NEW k \in Keys
    PROVE  /\ k \notin evaluated[c] => ActiveFor(k)' = ActiveFor(k)
           /\ k \in evaluated[c] \ touched[c] =>
                  /\ \A a, b \in ActiveFor(k)' : a = b
                  /\ ActiveFor(k)' # {} <=> k \in fired[c]
<1>1. /\ pc[c] = "resolving" /\ recovered[c] = {}
      /\ active' = (active \cup inserted[c]) \ resolved[c]
  BY DEF Commit
<1>2. ActiveFor(k)' = Visible(c, k) \ resolved[c]
  BY <1>1 DEF ActiveFor, Visible
<1>3. CASE k \notin evaluated[c]
  BY <1>1, <1>3 DEF ReasonInv, UnderWay, ActiveFor
<1>4. CASE k \in evaluated[c] \ touched[c]
  <2>1. CASE k \in fired[c]
    BY <1>1, <1>2, <1>4, <2>1 DEF ReasonInv, SettledSoFar, UnderWay, Visible
  <2>2. CASE k \notin fired[c]
    BY <1>1, <1>2, <1>4, <2>2 DEF SettledSoFar, UnderWay
  <2> QED BY <2>1, <2>2
<1> QED BY <1>3, <1>4

(* A commit settles the keys its check looked at but for those another has  *)
(* written meanwhile, and no others, whatever checks overlap.               *)
THEOREM CommitsSettle == Spec => CommitSettles
<1> DEFINE RInv == \A c \in Checks : ReasonInv(c)
           SInv == \A c \in Checks : SettledSoFar(c)
           Settles(c) ==
             \A k \in Keys :
               /\ k \notin evaluated[c] => ActiveFor(k)' = ActiveFor(k)
               /\ k \in evaluated[c] \ touched[c] =>
                    Cardinality(ActiveFor(k)') = IF k \in fired[c] THEN 1 ELSE 0
<1>1. ASSUME TypeOK, RInv, SInv, Next, NEW c \in Checks, Commits(c) PROVE Settles(c)
  <2>1. PICK d \in Checks : Commit(d)
    BY <1>1, OnlyCommitsWrite
  <2>2. d = c
    BY <1>1, <2>1 DEF Commit, Commits, TypeOK
  <2>3. ASSUME NEW k \in Keys, k \in evaluated[c] \ touched[c]
        PROVE  Cardinality(ActiveFor(k)') = IF k \in fired[c] THEN 1 ELSE 0
    <3>1. /\ \A a, b \in ActiveFor(k)' : a = b
          /\ ActiveFor(k)' # {} <=> k \in fired[c]
      BY <1>1, <2>1, <2>2, <2>3, CommitLeaves
    <3>2. CASE k \notin fired[c]
      BY <3>1, <3>2, FS_EmptySet
    <3>3. CASE k \in fired[c]
      <4>1. PICK a : ActiveFor(k)' = {a}
        BY <3>1, <3>3
      <4> QED BY <3>3, <4>1, FS_Singleton
    <3> QED BY <3>2, <3>3
  <2> QED BY <1>1, <2>1, <2>2, <2>3, CommitLeaves
<1>2. TypeOK /\ RInv /\ SInv /\ [Next]_vars => [\A c \in Checks : Commits(c) => Settles(c)]_vars
  BY <1>1
<1>3. Spec => []TypeOK
  BY TypeCorrect
<1>4. Spec => []RInv
  BY Reasons
<1>5. Spec => []SInv
  BY Settling
<1> HIDE DEF RInv, SInv
<1> QED BY <1>2, <1>3, <1>4, <1>5, PTL DEF Spec, CommitSettles, Settles

(* A second active alert of a key comes of nothing but the commit of a      *)
(* check while which another one has written alerts of that key.            *)
THEOREM OnlyRaces == Spec => OnlyRacesDuplicate
<1> DEFINE RInv == \A c \in Checks : ReasonInv(c)
           SInv == \A c \in Checks : SettledSoFar(c)
           ByRace ==
             \A a, b \in active' :
               a # b /\ a[1] = b[1] /\ ~({a, b} \subseteq active)
               => \E c \in Checks : Commits(c) /\ a[1] \in touched[c]
<1>1. ASSUME TypeOK, RInv, SInv, Next PROVE ByRace
  <2> SUFFICES ASSUME NEW a \in active', NEW b \in active',
                      a # b, a[1] = b[1], ~({a, b} \subseteq active)
               PROVE  \E c \in Checks : Commits(c) /\ a[1] \in touched[c]
    OBVIOUS
  <2>1. PICK c \in Checks : Commit(c)
    BY <1>1, OnlyCommitsWrite
  <2>2. Commits(c) /\ a[1] \in Keys
    BY <1>1, <2>1 DEF Commit, Commits, TypeOK, Alerts
  <2>3. {a, b} \subseteq ActiveFor(a[1])'
    BY DEF ActiveFor
  <2>4. CASE a[1] \notin evaluated[c]
    <3>1. ActiveFor(a[1])' = ActiveFor(a[1])
      BY <1>1, <2>1, <2>2, <2>4, CommitLeaves
    <3> QED BY <2>3, <3>1 DEF ActiveFor
  <2>5. CASE a[1] \in evaluated[c] \ touched[c]
    BY <1>1, <2>1, <2>2, <2>3, <2>5, CommitLeaves
  <2> QED BY <2>2, <2>4, <2>5
<1>2. TypeOK /\ RInv /\ SInv /\ [Next]_vars => [ByRace]_vars
  BY <1>1
<1>3. Spec => []TypeOK
  BY TypeCorrect
<1>4. Spec => []RInv
  BY Reasons
<1>5. Spec => []SInv
  BY Settling
<1> HIDE DEF RInv, SInv
<1> QED BY <1>2, <1>3, <1>4, <1>5, PTL DEF Spec, OnlyRacesDuplicate, ByRace

-----------------------------------------------------------------------------
(* What receivers are told.                                                 *)

(* The keys check c has still to tell of.                                   *)
ToTell(c) == IF pc[c] = "notifying" THEN Writes(c) ELSE {}

(* One check at most has still to tell of key k, and what it will tell is   *)
(* how the key stands; if none has, receivers know.                         *)
ToldInv(k) ==
    /\ \A c, d \in Checks : k \in ToTell(c) \cap ToTell(d) => c = d
    /\ (\A c \in Checks : k \notin ToTell(c)) =>
           ((told[k] = "alert_fired") <=> (ActiveFor(k) # {}))
    /\ \A c \in Checks : pc[c] = "notifying" =>
           /\ \A a \in inserted[c] : a[1] = k => ActiveFor(k) # {}
           /\ \A a \in resolved[c] : a[1] = k => ActiveFor(k) = {}

(* A commit either leaves a doubt about a key it writes or will tell of it. *)
LEMMA CommitTells ==
    ASSUME TypeOK, NEW c \in Checks, ReasonInv(c), SettledSoFar(c), Commit(c),
           NEW k \in Keys \ unsure', k \notin unsure => ToldInv(k)
    PROVE  ToldInv(k)'
<1>1. /\ pc[c] = "resolving" /\ pc'[c] = "notifying" /\ told' = told
      /\ \A d \in Checks \ {c} : pc'[d] = pc[d]
      /\ active' = (active \cup inserted[c]) \ resolved[c]
      /\ inserted' = inserted /\ resolved' = resolved
  BY DEF Commit, TypeOK
<1>2. ToTell(c)' = Writes(c) /\ ToTell(c) = {} /\ \A d \in Checks \ {c} : ToTell(d)' = ToTell(d)
  BY <1>1 DEF ToTell, Writes
<1>3. CASE k \in Writes(c)
  <2>1. k \notin touched[c] /\ \A d \in Checks : k \notin ToTell(d)
    BY <1>3 DEF Commit, Record, ToTell
  <2>2. k \in evaluated[c] \ touched[c]
    BY <1>1, <1>3, <2>1 DEF ReasonInv, UnderWay, Writes
  <2>3. ActiveFor(k)' # {} <=> k \in fired[c]
    BY <2>2, CommitLeaves
  <2>4. /\ \A a \in inserted[c] : a[1] = k => ActiveFor(k)' # {}
        /\ \A a \in resolved[c] : a[1] = k => ActiveFor(k)' = {}
    BY <1>1, <2>3 DEF ReasonInv, UnderWay
  <2>5. \A d \in Checks \ {c} : pc[d] = "notifying" =>
            \A a \in inserted[d] \cup resolved[d] : a[1] # k
    BY <2>1 DEF ToTell, Writes
  <2> QED BY <1>1, <1>2, <1>3, <2>1, <2>4, <2>5 DEF ToldInv
<1>4. CASE k \notin Writes(c)
  <2>1. ToldInv(k)
    BY <1>4 DEF Commit, Record
  <2>2. \A a \in inserted[c] \cup resolved[c] : a[1] # k
    BY <1>4 DEF Writes
  <2>3. ActiveFor(k)' = ActiveFor(k)
    BY <1>1, <2>2 DEF ActiveFor
  <2> QED BY <1>1, <1>2, <1>4, <2>1, <2>2, <2>3 DEF ToldInv
<1> QED BY <1>3, <1>4

(* Every other step of a check keeps what is told in order.                 *)
LEMMA StepTells ==
    ASSUME TypeOK, NEW c \in Checks, Start(c) \/ Check(c) \/ DatabaseFails(c), ~Commit(c),
           NEW k \in Keys, ToldInv(k)
    PROVE  ToldInv(k)'
<1> USE DEF TypeOK
<1>1. \A d \in Checks \ {c} : /\ pc'[d] = pc[d] /\ inserted'[d] = inserted[d]
                              /\ resolved'[d] = resolved[d]
  BY OthersAreUntouched
<1>2. \A d \in Checks \ {c} : ToTell(d)' = ToTell(d)
  BY <1>1 DEF ToTell, Writes
<1>3. CASE NotifyFired(c)
  <2>1. PICK a \in inserted[c] : /\ inserted' = [inserted EXCEPT ![c] = @ \ {a}]
                                 /\ told' = [told EXCEPT ![a[1]] = "alert_fired"]
    BY <1>3 DEF NotifyFired
  <2>2. /\ pc[c] = "notifying" /\ pc'[c] = "notifying" /\ active' = active
        /\ resolved'[c] = resolved[c] /\ inserted'[c] = inserted[c] \ {a}
        /\ told'[k] = IF k = a[1] THEN "alert_fired" ELSE told[k]
    BY <1>3, <2>1 DEF NotifyFired
  <2>3. ActiveFor(k)' = ActiveFor(k)
    BY <2>2 DEF ActiveFor
  <2>4. ToTell(c)' \subseteq ToTell(c) /\ (k # a[1] => (k \in ToTell(c)' <=> k \in ToTell(c)))
    BY <2>2 DEF ToTell, Writes
  <2>5. a[1] \in ToTell(c)
    BY <2>2 DEF ToTell, Writes
  <2> QED BY <1>1, <1>2, <2>2, <2>3, <2>4, <2>5 DEF ToldInv
<1>4. CASE NotifyResolved(c)
  <2>1. PICK a \in resolved[c] : /\ resolved' = [resolved EXCEPT ![c] = @ \ {a}]
                                 /\ told' = [told EXCEPT ![a[1]] = "alert_resolved"]
    BY <1>4 DEF NotifyResolved
  <2>2. /\ pc[c] = "notifying" /\ pc'[c] = "notifying" /\ active' = active
        /\ inserted'[c] = inserted[c] /\ resolved'[c] = resolved[c] \ {a}
        /\ told'[k] = IF k = a[1] THEN "alert_resolved" ELSE told[k]
    BY <1>4, <2>1 DEF NotifyResolved
  <2>3. ActiveFor(k)' = ActiveFor(k)
    BY <2>2 DEF ActiveFor
  <2>4. ToTell(c)' \subseteq ToTell(c) /\ (k # a[1] => (k \in ToTell(c)' <=> k \in ToTell(c)))
    BY <2>2 DEF ToTell, Writes
  <2>5. a[1] \in ToTell(c)
    BY <2>2 DEF ToTell, Writes
  <2> QED BY <1>1, <1>2, <2>2, <2>3, <2>4, <2>5 DEF ToldInv
<1>5. CASE ~NotifyFired(c) /\ ~NotifyResolved(c)
  <2>1. /\ ToTell(c) = {} /\ pc'[c] # "notifying"
        /\ active' = active /\ told' = told
    BY <1>5 DEF ToTell, Writes, Check, Start, Evaluate, Resolve, StartResolving, FindsTwo,
       Return, DatabaseFails, End, UnderWay
  <2>2. ToTell(c)' = {} /\ ActiveFor(k)' = ActiveFor(k)
    BY <2>1 DEF ToTell, ActiveFor
  <2> QED BY <1>1, <1>2, <2>1, <2>2 DEF ToldInv
<1> QED BY <1>3, <1>4, <1>5

(* As soon as no check has still to tell of a key, what receivers were last *)
(* told of it is how it stands, but for keys whose notifications raced or   *)
(* were lost with the server.                                               *)
THEOREM ReceiversKnow == Spec => []ToldAsItIs
<1> DEFINE RInv == \A c \in Checks : ReasonInv(c)
           SInv == \A c \in Checks : SettledSoFar(c)
           TInv == \A k \in Keys \ unsure : ToldInv(k)
<1>1. Init => TInv
  BY DEF Init, ToldInv, ToTell, ActiveFor
<1>2. TypeOK /\ RInv /\ SInv /\ TInv /\ [Next]_vars => TInv'
  <2> SUFFICES ASSUME TypeOK, RInv, SInv, TInv, [Next]_vars, NEW k \in Keys \ unsure'
               PROVE  ToldInv(k)'
    OBVIOUS
  <2>1. ASSUME NEW c \in Checks, Commit(c) PROVE ToldInv(k)'
    BY <2>1, CommitTells
  <2>2. ASSUME NEW c \in Checks, Start(c) \/ Check(c) \/ DatabaseFails(c), ~Commit(c)
        PROVE  ToldInv(k)'
    <3>1. unsure' = unsure
      BY <2>2 DEF Check, Start, Evaluate, Resolve, StartResolving, FindsTwo,
         NotifyFired, NotifyResolved, Return, DatabaseFails
    <3> QED BY <2>2, <3>1, StepTells
  <2>3. CASE Restart
    <3>1. k \notin unsure /\ \A c \in Checks : k \notin ToTell(c)
      BY <2>3 DEF Restart, ToTell
    <3>2. \A c \in Checks : pc'[c] = "idle" /\ ToTell(c)' = {}
      BY <2>3 DEF Restart, ToTell
    <3>3. told' = told /\ ActiveFor(k)' = ActiveFor(k)
      BY <2>3 DEF Restart, ActiveFor
    <3> QED BY <3>1, <3>2, <3>3 DEF ToldInv
  <2>4. CASE UNCHANGED <<active, checkVars, told, unsure>>
    BY <2>4 DEF checkVars, ToldInv, ToTell, Writes, ActiveFor
  <2> QED BY <2>1, <2>2, <2>3, <2>4 DEF Next, CreateRule, DeleteRule, vars
<1>3. TInv => ToldAsItIs
  BY DEF ToldInv, ToTell, ToldAsItIs
<1>4. Spec => []TypeOK
  BY TypeCorrect
<1>5. Spec => []RInv
  BY Reasons
<1>6. Spec => []SInv
  BY Settling
<1> HIDE DEF RInv, SInv, TInv
<1> QED BY <1>1, <1>2, <1>3, <1>4, <1>5, <1>6, PTL DEF Spec
=============================================================================
