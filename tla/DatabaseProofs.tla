---------------------------- MODULE DatabaseProofs ---------------------------
(* Theorems about the three models of tables that concurrent requests and   *)
(* the scheduler write: NodeRegistry, for any requests, names, range of     *)
(* ports and number of faults; Accounts, for any users, tokens and number   *)
(* of requests; JobScheduler, for any jobs and number of faults.  The three *)
(* share no table, and no theorem is about two of them.                     *)
EXTENDS NodeRegistry, Accounts, JobScheduler, FiniteSetTheorems, TLAPS

-----------------------------------------------------------------------------
(* NodeRegistry.                                                            *)

(* The variables of every step keep their types.                            *)
THEOREM TypeCorrect == Spec => []TypeOK
<1>1. Init => TypeOK
  BY DEF Init, TypeOK
<1>2. TypeOK /\ [Next]_vars => TypeOK'
  <2> SUFFICES ASSUME TypeOK, [Next]_vars PROVE TypeOK'
    OBVIOUS
  <2> USE DEF TypeOK, Answers, Goto, Sets
  <2>1. ASSUME NEW r \in Requests, NEW n \in Names, LookForName(r, n) PROVE TypeOK'
    BY <2>1 DEF LookForName
  <2>2. ASSUME NEW r \in Requests, ChoosePort(r) PROVE TypeOK'
    BY <2>2 DEF ChoosePort
  <2>3. ASSUME NEW r \in Requests, FindNoPort(r) PROVE TypeOK'
    BY <2>3 DEF FindNoPort
  <2>4. ASSUME NEW r \in Requests, Insert(r) PROVE TypeOK'
    BY <2>4 DEF Insert
  <2>5. ASSUME NEW r \in Requests, Audit(r) PROVE TypeOK'
    BY <2>5 DEF Audit
  <2>6. ASSUME NEW r \in Requests, Fail(r) PROVE TypeOK'
    BY <2>6 DEF Fail
  <2>7. ASSUME NEW r \in Requests, Delete(r) PROVE TypeOK'
    BY <2>7 DEF Delete
  <2>8. ASSUME NEW r \in Requests, AgentConnects(r) PROVE TypeOK'
    BY <2>8 DEF AgentConnects
  <2>9. CASE UNCHANGED vars BY <2>9 DEF vars
  <2> QED
    BY <2>1, <2>2, <2>3, <2>4, <2>5, <2>6, <2>7, <2>8, <2>9 DEF Next, Register
<1> QED BY <1>1, <1>2, PTL DEF Spec

-----------------------------------------------------------------------------
(* The invariant.  A request that awaits a statement, or got an answer, has *)
(* written what the statements before it write, and no two nodes share a    *)
(* name or a port.                                                          *)
Written(r) ==
    /\ pc[r] \in {"idle", "ports", "insert", "conflict", "full"} => row[r] = "none"
    /\ pc[r] = "audit" => row[r] # "none"
    /\ pc[r] = "insert" \/ row[r] # "none" => name[r] \in Names /\ port[r] \in Ports
    /\ pc[r] = "ports" => name[r] \in Names

Apart(r, x) == r # x /\ IsNode(r) /\ IsNode(x) => name[r] # name[x] /\ port[r] # port[x]

Inv ==
    /\ TypeOK
    /\ \A r \in Requests : Written(r)
    /\ \A r, x \in Requests : Apart(r, x)

(* The two, and the types, hold in every state.                             *)
LEMMA InvHolds == Spec => []Inv
<1>1. Init => Inv
  BY DEF Init, Inv, TypeOK, Written, Apart, IsNode
<1>2. Inv /\ TypeOK' /\ [Next]_vars => Inv'
  <2> SUFFICES ASSUME Inv, TypeOK', [Next]_vars PROVE Inv'
    OBVIOUS
  <2> USE DEF Inv, TypeOK, Answers, Goto, Sets, Written, Apart, IsNode
  <2>1. ASSUME NEW r \in Requests, NEW n \in Names, LookForName(r, n) PROVE Inv'
    BY <2>1 DEF LookForName
  <2>2. ASSUME NEW r \in Requests, ChoosePort(r) PROVE Inv'
    BY <2>2 DEF ChoosePort
  <2>3. ASSUME NEW r \in Requests, FindNoPort(r) PROVE Inv'
    BY <2>3 DEF FindNoPort
  <2>4. ASSUME NEW r \in Requests, Insert(r) PROVE Inv'
    BY <2>4 DEF Insert, Violates, NameTaken, PortTaken
  <2>5. ASSUME NEW r \in Requests, Audit(r) PROVE Inv'
    BY <2>5 DEF Audit
  <2>6. ASSUME NEW r \in Requests, Fail(r) PROVE Inv'
    BY <2>6 DEF Fail
  <2>7. ASSUME NEW r \in Requests, Delete(r) PROVE Inv'
    BY <2>7 DEF Delete
  <2>8. ASSUME NEW r \in Requests, AgentConnects(r) PROVE Inv'
    BY <2>8 DEF AgentConnects
  <2>9. CASE UNCHANGED vars BY <2>9 DEF vars
  <2> QED
    BY <2>1, <2>2, <2>3, <2>4, <2>5, <2>6, <2>7, <2>8, <2>9 DEF Next, Register
<1> QED BY <1>1, <1>2, TypeCorrect, PTL DEF Spec

-----------------------------------------------------------------------------
(* Whoever has the name or the port of a request that has not written its   *)
(* node yet has written his own since that request looked.                  *)
Overtaken(r, x) ==
    /\ pc[r] \in {"ports", "insert"} /\ IsNode(x) /\ name[x] = name[r] => x \in since[r]
    /\ pc[r] = "insert" /\ IsNode(x) /\ port[x] = port[r] => x \in since[r]

LEMMA RivalsAreLate == Spec => [](\A r, x \in Requests : Overtaken(r, x))
<1> DEFINE OInv == \A r, x \in Requests : Overtaken(r, x)
<1>1. Init => OInv
  BY DEF Init, Overtaken, IsNode
<1>2. Inv /\ OInv /\ [Next]_vars => OInv'
  <2> SUFFICES ASSUME Inv, OInv, [Next]_vars PROVE OInv'
    OBVIOUS
  <2> USE DEF Inv, TypeOK, Answers, Goto, Sets, Written, Overtaken, IsNode
  <2>1. ASSUME NEW r \in Requests, NEW n \in Names, LookForName(r, n) PROVE OInv'
    BY <2>1 DEF LookForName, NameTaken
  <2>2. ASSUME NEW r \in Requests, ChoosePort(r) PROVE OInv'
    BY <2>2 DEF ChoosePort, PortTaken
  <2>3. ASSUME NEW r \in Requests, FindNoPort(r) PROVE OInv'
    BY <2>3 DEF FindNoPort
  <2>4. ASSUME NEW r \in Requests, Insert(r) PROVE OInv'
    <3>1. CASE Violates(r) BY <2>4, <3>1 DEF Insert
    <3>2. CASE ~Violates(r)
      <4>1. /\ name' = name /\ port' = port /\ row[r] = "none"
            /\ \A q \in Requests \ {r} : pc'[q] = pc[q] /\ row'[q] = row[q]
            /\ pc'[r] = "audit"
        BY <2>4, <3>2 DEF Insert
      <4>2. since' = [q \in Requests |-> IF q # r /\ pc[q] \in {"ports", "insert"}
                                         THEN since[q] \cup {r} ELSE since[q]]
        <5> HIDE DEF Sets, Goto, TypeOK, Inv, Written, Overtaken, IsNode
        <5> QED BY <2>4, <3>2, Zenon DEF Insert
      <4>3. \A q \in Requests : since[q] \subseteq since'[q]
        BY <4>2
      <4>4. \A q \in Requests \ {r} : pc[q] \in {"ports", "insert"} => r \in since'[q]
        BY <4>2
      <4> QED BY <4>1, <4>3, <4>4
    <3> QED BY <3>1, <3>2
  <2>5. ASSUME NEW r \in Requests, Audit(r) PROVE OInv'
    BY <2>5 DEF Audit
  <2>6. ASSUME NEW r \in Requests, Fail(r) PROVE OInv'
    BY <2>6 DEF Fail
  <2>7. ASSUME NEW r \in Requests, Delete(r) PROVE OInv'
    BY <2>7 DEF Delete
  <2>8. ASSUME NEW r \in Requests, AgentConnects(r) PROVE OInv'
    BY <2>8 DEF AgentConnects
  <2>9. CASE UNCHANGED vars BY <2>9 DEF vars
  <2> QED
    BY <2>1, <2>2, <2>3, <2>4, <2>5, <2>6, <2>7, <2>8, <2>9 DEF Next, Register
<1> HIDE DEF OInv
<1> QED BY <1>1, <1>2, InvHolds, PTL DEF Spec, OInv

(* What a client is told is so when he is told, whatever the interleaving.  *)
THEOREM AnswersHold == Spec => AnswersAreTrue
<1> DEFINE OInv == \A r, x \in Requests : Overtaken(r, x)
           Fits ==
             \A r \in Requests :
               /\ Answered(r, "created") => row'[r] = "audited"
               /\ Answered(r, "conflict") \/ Answered(r, "full") => row'[r] = "none"
               /\ Answered(r, "error") /\ r \notin failed' =>
                      row'[r] = "deleted" \/ (row'[r] = "none" /\ Rival(r))
               /\ Answered(r, "error") /\ row'[r] \in {"bare", "audited"} =>
                      r \in failed' /\ pc[r] = "audit"
<1>1. ASSUME Inv, OInv, Next PROVE Fits
  <2> USE <1>1 DEF Answered, Inv, TypeOK, Answers, Goto, Sets, Written
  <2>1. ASSUME NEW r \in Requests, NEW n \in Names, LookForName(r, n) PROVE Fits
    BY <2>1 DEF LookForName
  <2>2. ASSUME NEW r \in Requests, ChoosePort(r) \/ FindNoPort(r) PROVE Fits
    BY <2>2 DEF ChoosePort, FindNoPort
  <2>3. ASSUME NEW r \in Requests, Insert(r) PROVE Fits
    <3>1. CASE Violates(r)
      <4>1. Rival(r) /\ row[r] = "none"
        BY <2>3, <3>1 DEF Insert, Violates, NameTaken, PortTaken, Rival, Overtaken
      <4> QED BY <2>3, <3>1, <4>1 DEF Insert
    <3>2. CASE ~Violates(r) BY <2>3, <3>2 DEF Insert
    <3> QED BY <3>1, <3>2
  <2>4. ASSUME NEW r \in Requests, Audit(r) PROVE Fits
    BY <2>4 DEF Audit, IsNode
  <2>5. ASSUME NEW r \in Requests, Fail(r) PROVE Fits
    BY <2>5 DEF Fail
  <2>6. ASSUME NEW r \in Requests, Delete(r) \/ AgentConnects(r) PROVE Fits
    BY <2>6 DEF Delete, AgentConnects
  <2> QED BY <2>1, <2>2, <2>3, <2>4, <2>5, <2>6 DEF Next, Register
<1>2. Inv /\ OInv /\ [Next]_vars => [Fits]_vars
  BY <1>1
<1> HIDE DEF OInv
<1>3. Spec => []OInv
  BY RivalsAreLate DEF OInv
<1> QED BY <1>2, <1>3, InvHolds, PTL DEF Spec, AnswersAreTrue, Fits

-----------------------------------------------------------------------------
(* The entries of the directory, and what each step makes of them.          *)
Entry(r) == [name |-> name[r], port |-> port[r]]

Entries == {Entry(r) : r \in {x \in Requests : IsNode(x)}}

(* A step on the row of a request that is no node before or after changes   *)
(* no entry.                                                                *)
LEMMA OthersKeep ==
    ASSUME Inv, NEW r \in Requests, ~IsNode(r), ~IsNode(r)',
           \A x \in Requests \ {r} : row'[x] = row[x] /\ name'[x] = name[x] /\ port'[x] = port[x]
    PROVE  Entries' = Entries
BY DEF Entries, Entry, IsNode

(* The nodes table implements the directory: a registration adds an entry   *)
(* with a fresh name and a fresh port, a deletion takes one away, and no    *)
(* other step changes it.                                                   *)
THEOREM ImplementsDirectory == Spec => KeepsDirectory
<1>1. Init => Directory!Init
  BY DEF Init, Directory!Init, IsNode
<1>2. Inv /\ [Next]_vars => [Directory!Next]_Entries
  <2> SUFFICES ASSUME Inv, [Next]_vars PROVE [Directory!Next]_Entries
    OBVIOUS
  <2> USE DEF Goto, Sets
  <2>1. ASSUME NEW r \in Requests, NEW n \in Names, LookForName(r, n)
        PROVE Entries' = Entries
    BY <2>1, OthersKeep DEF LookForName, Inv, TypeOK, Written, IsNode
  <2>2. ASSUME NEW r \in Requests, ChoosePort(r) PROVE Entries' = Entries
    BY <2>2, OthersKeep DEF ChoosePort, Inv, TypeOK, Written, IsNode
  <2>3. ASSUME NEW r \in Requests, FindNoPort(r) PROVE Entries' = Entries
    BY <2>3 DEF FindNoPort, Entries, Entry, IsNode
  <2>4. ASSUME NEW r \in Requests, Insert(r) PROVE [Directory!Next]_Entries
    <3>1. CASE Violates(r)
      BY <2>4, <3>1 DEF Insert, Entries, Entry, IsNode
    <3>2. CASE ~Violates(r)
      <4>1. name[r] \in Names /\ port[r] \in Ports /\ row[r] = "none"
        BY <2>4 DEF Insert, Inv, Written
      <4>2. \A e \in Entries : e.name # name[r] /\ e.port # port[r]
        BY <3>2 DEF Entries, Entry, Violates, NameTaken, PortTaken
      <4>3. Entries' = Entries \cup {[name |-> name[r], port |-> port[r]]}
        <5>1. \A x \in Requests : Entry(x)' = Entry(x)
          BY <2>4 DEF Insert, Entry
        <5>2. \A x \in Requests : IsNode(x)' <=> IsNode(x) \/ x = r
          BY <2>4, <3>2, <4>1 DEF Insert, IsNode, Inv, TypeOK
        <5>3. Entries' = {Entry(x) : x \in {y \in Requests : IsNode(y) \/ y = r}}
          BY <5>1, <5>2 DEF Entries
        <5>4. Entries' = Entries \cup {Entry(r)}
          BY <5>3 DEF Entries
        <5> QED BY <5>4 DEF Entry
      <4>4. \E n \in Names, p \in Ports :
               /\ \A e \in Entries : e.name # n /\ e.port # p
               /\ Entries' = Entries \cup {[name |-> n, port |-> p]}
        BY <4>1, <4>2, <4>3
      <4> QED
        BY <4>4
        DEF Directory!Next, Directory!Add, Directory!Fresh, Entries, Entry
    <3> QED BY <3>1, <3>2
  <2>5. ASSUME NEW r \in Requests, Audit(r) PROVE Entries' = Entries
    BY <2>5 DEF Audit, Entries, Entry, IsNode, Inv, TypeOK
  <2>6. ASSUME NEW r \in Requests, Fail(r) PROVE Entries' = Entries
    <3>1. \A x \in Requests : IsNode(x)' <=> IsNode(x)
      BY <2>6 DEF Fail, IsNode, Inv, TypeOK
    <3>2. \A x \in Requests : Entry(x)' = Entry(x)
      BY <2>6 DEF Fail, Entry
    <3> QED BY <3>1, <3>2 DEF Entries
  <2>7. ASSUME NEW r \in Requests, Delete(r) PROVE [Directory!Next]_Entries
    <3>1. \A x \in Requests : Entry(x)' = Entry(x)
      BY <2>7 DEF Delete, Entry
    <3>2. \A x \in Requests : IsNode(x)' <=> IsNode(x) /\ x # r
      BY <2>7 DEF Delete, IsNode, Inv, TypeOK
    <3>3. IsNode(r)
      BY <2>7 DEF Delete, IsNode
    <3>4. \A x \in Requests : IsNode(x) /\ x # r => Entry(x) # Entry(r)
      BY <3>3 DEF Inv, Apart, Entry
    <3>5. Entries' = Entries \ {Entry(r)}
      BY <3>1, <3>2, <3>4 DEF Entries
    <3>6. Entry(r) \in Entries
      BY <3>3 DEF Entries
    <3> QED BY <3>5, <3>6 DEF Directory!Next, Directory!Remove, Entries, Entry
  <2>8. ASSUME NEW r \in Requests, AgentConnects(r) PROVE Entries' = Entries
    BY <2>8 DEF AgentConnects, Entries, Entry, IsNode, Inv, TypeOK
  <2>9. CASE UNCHANGED vars
    BY <2>9 DEF vars, Entries, Entry, IsNode
  <2> QED
    BY <2>1, <2>2, <2>3, <2>4, <2>5, <2>6, <2>7, <2>8, <2>9 DEF Next, Register
<1> QED
  BY <1>1, <1>2, InvHolds, PTL DEF Spec, KeepsDirectory, Directory!Spec, Entries, Entry

-----------------------------------------------------------------------------
(* The nodes of the table, and the function from them to their ports.       *)
Rows == {r \in Requests : IsNode(r)}

PortOf == [r \in Rows |-> port[r]]

(* A node has a port of the range to itself, so that they are no more than  *)
(* the ports; when all ports are taken they are as many.                    *)
LEMMA PortsAreShared ==
    ASSUME Inv
    PROVE  /\ IsFiniteSet(Rows) /\ Cardinality(Rows) <= Cardinality(Ports)
           /\ (\A p \in Ports : PortTaken(p)) => Cardinality(Rows) = Cardinality(Ports)
<1>1. IsFiniteSet(Ports)
  BY PortsAssumption, FS_Interval DEF Ports
<1>2. PortOf \in [Rows -> Ports] /\ \A r, x \in Rows : PortOf[r] = PortOf[x] => r = x
  BY DEF PortOf, Rows, Inv, Written, Apart, IsNode
<1>3. PortOf \in Injection(Rows, Ports)
  BY <1>2 DEF Injection, IsInjective
<1>4. IsFiniteSet(Rows) /\ Cardinality(Rows) <= Cardinality(Ports)
  BY <1>1, <1>3, FS_Injection
<1>5. ASSUME \A p \in Ports : PortTaken(p) PROVE Cardinality(Rows) = Cardinality(Ports)
  <2>1. \A p \in Ports : \E r \in Rows : PortOf[r] = p
    BY <1>5 DEF PortTaken, PortOf, Rows
  <2>2. PortOf \in Surjection(Rows, Ports)
    BY <1>2, <2>1 DEF Surjection
  <2>3. Cardinality(Ports) <= Cardinality(Rows)
    BY <1>4, <2>2, FS_Surjection
  <2>4. Cardinality(Rows) \in Nat /\ Cardinality(Ports) \in Nat
    BY <1>1, <1>4, FS_CardinalityType
  <2> QED BY <1>4, <2>3, <2>4
<1> QED BY <1>4, <1>5

(* The range of ports bounds the nodes, and a registration is told that the *)
(* range is full only at a moment when there are as many nodes as ports     *)
(* (routes.py:198-207).                                                     *)
FullIsFull ==
    [][\A r \in Requests : pc[r] # "full" /\ pc'[r] = "full"
           => Cardinality(Rows) = Cardinality(Ports)]_vars

(* There are never more nodes than ports, and never fewer when a client is  *)
(* told so.                                                                 *)
THEOREM RangeBounds ==
    Spec => [](IsFiniteSet(Rows) /\ Cardinality(Rows) <= Cardinality(Ports)) /\ FullIsFull
<1>1. Inv => IsFiniteSet(Rows) /\ Cardinality(Rows) <= Cardinality(Ports)
  BY PortsAreShared
<1>2. ASSUME Inv, [Next]_vars, NEW r \in Requests, pc[r] # "full", pc'[r] = "full"
      PROVE  Cardinality(Rows) = Cardinality(Ports)
  <2> USE <1>2 DEF Inv, TypeOK, Goto
  <2>1. ASSUME NEW x \in Requests, FindNoPort(x) PROVE Cardinality(Rows) = Cardinality(Ports)
    BY <2>1, PortsAreShared DEF FindNoPort
  <2>2. ASSUME NEW x \in Requests, NEW n \in Names, LookForName(x, n) PROVE FALSE
    BY <2>2 DEF LookForName
  <2>3. ASSUME NEW x \in Requests, ChoosePort(x) \/ Insert(x) \/ Audit(x) \/ Fail(x)
        PROVE  FALSE
    BY <2>3 DEF ChoosePort, Insert, Audit, Fail
  <2>4. ASSUME NEW x \in Requests, Delete(x) \/ AgentConnects(x) PROVE FALSE
    BY <2>4 DEF Delete, AgentConnects
  <2>5. CASE UNCHANGED vars BY <2>5 DEF vars
  <2> QED BY <2>1, <2>2, <2>3, <2>4, <2>5 DEF Next, Register
<1>3. Inv /\ [Next]_vars =>
        [\A r \in Requests : pc[r] # "full" /\ pc'[r] = "full"
            => Cardinality(Rows) = Cardinality(Ports)]_vars
  BY <1>2
<1> QED BY <1>1, <1>3, InvHolds, PTL DEF Spec, FullIsFull

-----------------------------------------------------------------------------
(* Accounts.                                                                *)

(* The variables of every step keep their types.                            *)
THEOREM AccountsTypeCorrect == AccountsSpec => []AccountsType
<1>1. AccountsInit => AccountsType
  BY RootAssumption DEF AccountsInit, AccountsType, Roles, Kinds, Idle
<1>2. AccountsType /\ [AccountsNext]_accountVars => AccountsType'
  <2> SUFFICES ASSUME AccountsType, [AccountsNext]_accountVars PROVE AccountsType'
    OBVIOUS
  <2> USE DEF AccountsType, Roles, Kinds, Ends
  <2>1. ASSUME NEW q \in Slots, NEW u \in Users, Login(q, u) PROVE AccountsType'
    BY <2>1 DEF Login, Begin
  <2>2. ASSUME NEW q \in Slots, NEW u \in Users, Authenticate(q, u) PROVE AccountsType'
    BY <2>2 DEF Authenticate, Begin
  <2>3. ASSUME NEW u \in Users, Refresh(u) PROVE AccountsType'
    BY <2>3 DEF Refresh
  <2>4. ASSUME NEW q \in Slots, IssueTokens(q) PROVE AccountsType'
    BY <2>4 DEF IssueTokens
  <2>5. ASSUME NEW q \in Slots, CreateUser(q) PROVE AccountsType'
    BY <2>5 DEF CreateUser
  <2>6. ASSUME NEW q \in Slots, UpdateUser(q) PROVE AccountsType'
    BY <2>6 DEF UpdateUser
  <2>7. ASSUME NEW q \in Slots, DeleteUser(q) PROVE AccountsType'
    BY <2>7 DEF DeleteUser
  <2>8. ASSUME NEW q \in Slots, CreateApiToken(q) PROVE AccountsType'
    BY <2>8 DEF CreateApiToken, By
  <2>9. ASSUME NEW q \in Slots, RevokeApiToken(q) PROVE AccountsType'
    BY <2>9 DEF RevokeApiToken
  <2>10. ASSUME NEW q \in Slots, WriteAuthored(q) PROVE AccountsType'
    BY <2>10 DEF WriteAuthored, By
  <2>11. ASSUME NEW q \in Slots, DeleteAuthored(q) PROVE AccountsType'
    BY <2>11 DEF DeleteAuthored
  <2>12. ASSUME NEW q \in Slots, EndWithout(q) PROVE AccountsType'
    BY <2>12 DEF EndWithout
  <2>13. CASE UNCHANGED accountVars BY <2>13 DEF accountVars
  <2> QED
    BY <2>1, <2>2, <2>3, <2>4, <2>5, <2>6, <2>7, <2>8, <2>9, <2>10, <2>11, <2>12, <2>13
    DEF AccountsNext, Serve
<1> QED BY <1>1, <1>2, PTL DEF AccountsSpec

-----------------------------------------------------------------------------
(* What a step may do to the five variables that references are made of:    *)
(* the other steps leave them alone.                                        *)
LEMMA ReferenceSteps ==
    ASSUME [AccountsNext]_accountVars
    PROVE \/ \E q \in Slots : \/ CreateUser(q) \/ UpdateUser(q) \/ DeleteUser(q)
                              \/ CreateApiToken(q) \/ RevokeApiToken(q)
                              \/ WriteAuthored(q) \/ DeleteAuthored(q)
          \/ UNCHANGED <<status, role, owner, acted, authored>>
BY DEF AccountsNext, Serve, Login, Authenticate, Refresh, IssueTokens, EndWithout, accountVars

(* Every row that names a user finds him, whatever the interleaving.        *)
THEOREM ReferencesResolve == AccountsSpec => []NothingDangles
<1>1. AccountsInit => NothingDangles
  BY DEF AccountsInit, NothingDangles
<1>2. AccountsType /\ NothingDangles /\ [AccountsNext]_accountVars => NothingDangles'
  <2> SUFFICES ASSUME AccountsType, NothingDangles, [AccountsNext]_accountVars PROVE NothingDangles'
    OBVIOUS
  <2> USE NobodyAssumption DEF AccountsType, NothingDangles, Exists
  <2>1. ASSUME NEW q \in Slots, CreateUser(q) PROVE NothingDangles'
    BY <2>1 DEF CreateUser
  <2>2. ASSUME NEW q \in Slots, UpdateUser(q) PROVE NothingDangles'
    BY <2>2 DEF UpdateUser
  <2>3. ASSUME NEW q \in Slots, DeleteUser(q) PROVE NothingDangles'
    BY <2>3 DEF DeleteUser
  <2>4. ASSUME NEW q \in Slots, CreateApiToken(q) PROVE NothingDangles'
    BY <2>4 DEF CreateApiToken
  <2>5. ASSUME NEW q \in Slots, RevokeApiToken(q) PROVE NothingDangles'
    BY <2>5 DEF RevokeApiToken
  <2>6. ASSUME NEW q \in Slots, WriteAuthored(q) PROVE NothingDangles'
    BY <2>6 DEF WriteAuthored
  <2>7. ASSUME NEW q \in Slots, DeleteAuthored(q) PROVE NothingDangles'
    BY <2>7 DEF DeleteAuthored
  <2>8. CASE UNCHANGED <<status, role, owner, acted, authored>>
    BY <2>8
  <2> QED
    BY <2>1, <2>2, <2>3, <2>4, <2>5, <2>6, <2>7, <2>8, ReferenceSteps
<1> QED BY <1>1, <1>2, AccountsTypeCorrect, PTL DEF AccountsSpec

-----------------------------------------------------------------------------
(* The power of a user comes from his row or from a request under way.      *)
LEMMA PowerIs ==
    ASSUME NEW u, NEW p
    PROVE p \in Power(u) <=>
              \/ status[u] = "active" /\ p \in Grants(role[u])
              \/ \E q \in Slots : /\ request[q].user = u /\ request[q].kind = "api"
                                  /\ p \in Grants(request[q].role)
BY DEF Power

(* A step that begins no request and changes no user gives no power.        *)
LEMMA NoGain ==
    ASSUME AccountsType, NEW u \in Users,
           status'[u] = "active" => status[u] = "active" /\ role'[u] = role[u],
           \A q \in Slots : request'[q] \in {request[q], Idle}
    PROVE  Power(u)' \subseteq Power(u)
<1> SUFFICES ASSUME NEW p \in Power(u)' PROVE p \in Power(u)
  OBVIOUS
<1>1. \/ status'[u] = "active" /\ p \in Grants(role'[u])
      \/ \E q \in Slots : /\ request'[q].user = u /\ request'[q].kind = "api"
                          /\ p \in Grants(request'[q].role)
  BY DEF Power, Grants
<1>2. Idle.user # u
  BY NobodyAssumption DEF Idle
<1> QED BY <1>1, <1>2, PowerIs

(* Nobody gains power but by a request of another user who was an admin.    *)
THEOREM PowerComesFromAdmins == AccountsSpec => PowerIsGranted
<1> DEFINE Granted(u) ==
        \E q \in Slots : /\ By(q, require_admin) /\ request[q].user # u
                         /\ request'[q] = Idle
<1>1. AccountsType /\ [AccountsNext]_accountVars =>
          \A u \in Users : ~(Power(u)' \subseteq Power(u)) => Granted(u)
  <2> SUFFICES ASSUME AccountsType, [AccountsNext]_accountVars, NEW u \in Users
               PROVE Power(u)' \subseteq Power(u) \/ Granted(u)
    OBVIOUS
  <2>1. ASSUME NEW q \in Slots, By(q, require_admin), Ends(q)
        PROVE Power(u)' \subseteq Power(u) \/ Granted(u)
    <3>1. CASE request[q].user = u
      <4>1. Power(u)' \subseteq Grants("admin")
        BY DEF Power, Grants, require_admin, require_operator
      <4>2. Grants("admin") \subseteq Power(u)
        BY <2>1, <3>1, PowerIs DEF By, require_admin
      <4> QED BY <4>1, <4>2
    <3>2. CASE request[q].user # u
      BY <2>1, <3>2 DEF Ends, AccountsType
    <3> QED BY <3>1, <3>2
  <2>2. ASSUME NEW q \in Slots, Ends(q), UNCHANGED <<status, role>>
        PROVE Power(u)' \subseteq Power(u)
    <3>1. \A x \in Slots : request'[x] \in {request[x], Idle}
      BY <2>2 DEF Ends, AccountsType
    <3> QED BY <2>2, <3>1, NoGain
  <2>3. ASSUME NEW q \in Slots, NEW v \in Users, NEW kind \in Kinds,
               Begin(q, v, kind), MayEnter(v), UNCHANGED <<status, role>>
        PROVE Power(u)' \subseteq Power(u)
    <3> SUFFICES ASSUME NEW p \in Power(u)' PROVE p \in Power(u)
      OBVIOUS
    <3>1. \/ status[u] = "active" /\ p \in Grants(role[u])
          \/ \E x \in Slots : /\ request'[x].user = u /\ request'[x].kind = "api"
                              /\ p \in Grants(request'[x].role)
      BY <2>3 DEF Power, Grants
    <3>2. \A x \in Slots \ {q} : request'[x] = request[x]
      BY <2>3 DEF Begin, AccountsType
    <3>3. request'[q] = [user |-> v, role |-> role[v], kind |-> kind]
      BY <2>3 DEF Begin, AccountsType
    <3> QED BY <2>3, <3>1, <3>2, <3>3, PowerIs DEF MayEnter
  <2>4. ASSUME UNCHANGED <<status, role, request>>
        PROVE Power(u)' \subseteq Power(u)
    BY <2>4, NoGain
  <2>5. ASSUME NEW q \in Slots, NEW v \in Users, Login(q, v) \/ Authenticate(q, v)
        PROVE Power(u)' \subseteq Power(u)
    BY <2>3, <2>5 DEF Login, Authenticate, Kinds
  <2>6. ASSUME NEW q \in Slots, Serve(q)
        PROVE Power(u)' \subseteq Power(u) \/ Granted(u)
    <3>1. CASE CreateUser(q) \/ UpdateUser(q) \/ DeleteUser(q)
      BY <2>1, <3>1 DEF CreateUser, UpdateUser, DeleteUser
    <3>2. CASE \/ IssueTokens(q) \/ CreateApiToken(q) \/ RevokeApiToken(q)
               \/ WriteAuthored(q) \/ DeleteAuthored(q) \/ EndWithout(q)
      BY <2>2, <3>2
      DEF IssueTokens, CreateApiToken, RevokeApiToken, WriteAuthored, DeleteAuthored,
          EndWithout
    <3> QED BY <2>6, <3>1, <3>2 DEF Serve
  <2>7. ASSUME NEW v \in Users, Refresh(v) PROVE Power(u)' \subseteq Power(u)
    BY <2>4, <2>7 DEF Refresh
  <2>8. CASE UNCHANGED accountVars
    BY <2>4, <2>8 DEF accountVars
  <2> QED BY <2>5, <2>6, <2>7, <2>8 DEF AccountsNext
<1> QED BY <1>1, AccountsTypeCorrect, PTL DEF AccountsSpec, PowerIsGranted

-----------------------------------------------------------------------------
(* A deletion is for good: the row does not come back, no request begins in *)
(* the name of the user, not even with a token he still has, and what his   *)
(* requests under way may do only shrinks (dependencies.py:43-47,           *)
(* routes.py:951-964).                                                      *)
DeletedStayDeleted ==
    [][\A u \in Users : status[u] = "deleted" =>
        /\ status'[u] = "deleted"
        /\ Power(u)' \subseteq Power(u)
        /\ \A q \in Slots : request'[q].user = u => request'[q] = request[q]]_accountVars

(* Whatever other requests do, deleted users stay deleted.                  *)
THEOREM DeletionIsFinal == AccountsSpec => DeletedStayDeleted
<1>1. ASSUME AccountsType, [AccountsNext]_accountVars, NEW u \in Users,
             status[u] = "deleted"
      PROVE  /\ status'[u] = "deleted"
             /\ \A q \in Slots : request'[q].user = u => request'[q] = request[q]
  <2> USE <1>1, NobodyAssumption
      DEF AccountsType, Roles, Kinds, Ends, MayEnter, Exists
  <2>0. Idle.user # u
    BY DEF Idle
  <2> DEFINE Goal == /\ status'[u] = "deleted"
                     /\ \A q \in Slots : request'[q].user = u => request'[q] = request[q]
  <2>1. ASSUME NEW q \in Slots, NEW v \in Users, Login(q, v) \/ Authenticate(q, v)
        PROVE  Goal
    BY <2>0, <2>1 DEF Login, Authenticate, Begin
  <2>2. ASSUME NEW v \in Users, Refresh(v) PROVE Goal
    BY <2>2 DEF Refresh
  <2>3. ASSUME NEW q \in Slots, CreateUser(q) PROVE Goal
    BY <2>0, <2>3 DEF CreateUser
  <2>4. ASSUME NEW q \in Slots, UpdateUser(q) PROVE Goal
    BY <2>0, <2>4 DEF UpdateUser
  <2>5. ASSUME NEW q \in Slots, DeleteUser(q) PROVE Goal
    BY <2>0, <2>5 DEF DeleteUser
  <2>6. ASSUME NEW q \in Slots,
               \/ IssueTokens(q) \/ CreateApiToken(q) \/ RevokeApiToken(q)
               \/ WriteAuthored(q) \/ DeleteAuthored(q) \/ EndWithout(q)
        PROVE  Goal
    BY <2>0, <2>6
       DEF IssueTokens, CreateApiToken, RevokeApiToken, WriteAuthored, DeleteAuthored,
          EndWithout
  <2>7. CASE UNCHANGED accountVars BY <2>7 DEF accountVars
  <2> QED BY <2>1, <2>2, <2>3, <2>4, <2>5, <2>6, <2>7 DEF AccountsNext, Serve
<1>2. ASSUME AccountsType, NEW u \in Users, status'[u] = "deleted",
             \A q \in Slots : request'[q].user = u => request'[q] = request[q]
      PROVE  Power(u)' \subseteq Power(u)
  <2> SUFFICES ASSUME NEW p \in Power(u)' PROVE p \in Power(u)
    OBVIOUS
  <2>1. \E q \in Slots : /\ request'[q].user = u /\ request'[q].kind = "api"
                         /\ p \in Grants(request'[q].role)
    BY <1>2 DEF Power, Grants
  <2> QED BY <1>2, <2>1, PowerIs
<1>3. AccountsType /\ [AccountsNext]_accountVars =>
        [\A u \in Users : status[u] = "deleted" =>
            /\ status'[u] = "deleted"
            /\ Power(u)' \subseteq Power(u)
            /\ \A q \in Slots : request'[q].user = u => request'[q] = request[q]]_accountVars
  BY <1>1, <1>2
<1> QED BY <1>3, AccountsTypeCorrect, PTL DEF AccountsSpec, DeletedStayDeleted

-----------------------------------------------------------------------------
(* JobScheduler.                                                            *)

(* The variables of every step keep their types.                            *)
THEOREM JobsTypeCorrect == JobsSpec => []JobsType
<1>1. JobsInit => JobsType
  <2>1. JobsInit => passing \in BOOLEAN
    BY Zenon DEF JobsInit
  <2> QED BY <2>1, JobsAssumption DEF JobsAssumption, JobsInit, JobsType
<1>2. JobsType /\ [JobsNext]_jobVars => JobsType'
  <2> SUFFICES ASSUME JobsType, [JobsNext]_jobVars PROVE JobsType'
    OBVIOUS
  <2> USE JobsAssumption DEF JobsAssumption, JobsType, passVars, rowVars, fireVars
  <2>1. ASSUME NEW j \in Jobs, CreateJob(j) PROVE JobsType'
    BY <2>1 DEF CreateJob
  <2>2. ASSUME NEW j \in Jobs, EnableJob(j) \/ DisableJob(j) \/ EditJob(j) \/ DeleteJob(j)
        PROVE  JobsType'
    BY <2>2 DEF EnableJob, DisableJob, EditJob, DeleteJob, RowFree
  <2>3. ASSUME NEW j \in Jobs, Fire(j) PROVE JobsType'
    BY <2>3 DEF Fire
  <2>4. ASSUME NEW j \in Jobs, NotDue(j) \/ Skip(j) PROVE JobsType'
    BY <2>4 DEF NotDue, Skip, Looked
  <2>5. ASSUME NEW j \in Jobs, Start(j) PROVE JobsType'
    BY <2>5 DEF Start, Looked
  <2>6. ASSUME NEW j \in Jobs, Raise(j) PROVE JobsType'
    BY <2>6 DEF Raise, RollBack, EndPass
  <2>7. CASE BeginPass BY <2>7 DEF BeginPass, Selected
  <2>8. CASE Finish BY <2>8 DEF Finish
  <2>9. CASE Commit BY <2>9 DEF Commit, EndPass
  <2>10. CASE FailOrRestart
    <3>1. faults' \in 0..MaxFailures BY <2>10 DEF FailOrRestart
    <3> QED BY <3>1, <2>10 DEF FailOrRestart, RollBack, EndPass
  <2>11. CASE UNCHANGED jobVars BY <2>11 DEF jobVars
  <2> QED
    BY <2>1, <2>2, <2>3, <2>4, <2>5, <2>6, <2>7, <2>8, <2>9, <2>10, <2>11
    DEF JobsNext, Operator, Look
<1> QED BY <1>1, <1>2, PTL DEF JobsSpec

-----------------------------------------------------------------------------
(* What is selected and not yet looked at has not been started since it was *)
(* disabled: OnceMoreAtMost alone does not say which late jobs may still    *)
(* start.                                                                   *)
LateInv ==
    \A j \in Jobs :
        /\ late[j] <= 1
        /\ mode[j] = "enabled" \/ plan[j] # "none" => late[j] = 0

(* A disabled or deleted job starts at most once more.                      *)
THEOREM OneMoreStart == JobsSpec => []OnceMoreAtMost
<1>1. JobsInit => LateInv
  <2> SUFFICES ASSUME JobsInit, NEW j \in Jobs PROVE late[j] <= 1 /\ late[j] = 0
    BY Zenon DEF LateInv
  <2> QED BY DEF JobsInit
<1>2. JobsType /\ LateInv /\ [JobsNext]_jobVars => LateInv'
  <2> SUFFICES ASSUME JobsType, LateInv, [JobsNext]_jobVars PROVE LateInv'
    OBVIOUS
  <2> USE DEF JobsType, LateInv, passVars, rowVars, fireVars
  <2>1. ASSUME NEW j \in Jobs, CreateJob(j) PROVE LateInv'
    BY <2>1 DEF CreateJob
  <2>2. ASSUME NEW j \in Jobs, EnableJob(j) \/ DisableJob(j) \/ EditJob(j) \/ DeleteJob(j)
        PROVE  LateInv'
    BY <2>2 DEF EnableJob, DisableJob, EditJob, DeleteJob, RowFree
  <2>3. ASSUME NEW j \in Jobs, Fire(j) PROVE LateInv'
    BY <2>3 DEF Fire
  <2>4. ASSUME NEW j \in Jobs, NotDue(j) \/ Skip(j) PROVE LateInv'
    BY <2>4 DEF NotDue, Skip, Looked
  <2>5. ASSUME NEW j \in Jobs, Start(j) PROVE LateInv'
    BY <2>5 DEF Start, LooksAt, Looked
  <2>6. ASSUME NEW j \in Jobs, Raise(j) PROVE LateInv'
    BY <2>6 DEF Raise, RollBack, EndPass
  <2>7. CASE BeginPass BY <2>7 DEF BeginPass, Selected
  <2>8. CASE Finish BY <2>8 DEF Finish
  <2>9. CASE Commit BY <2>9 DEF Commit, EndPass
  <2>10. CASE FailOrRestart BY <2>10 DEF FailOrRestart, RollBack, EndPass
  <2>11. CASE UNCHANGED jobVars BY <2>11 DEF jobVars
  <2> QED
    BY <2>1, <2>2, <2>3, <2>4, <2>5, <2>6, <2>7, <2>8, <2>9, <2>10, <2>11
    DEF JobsNext, Operator, Look
<1>3. LateInv => OnceMoreAtMost
  BY DEF LateInv, OnceMoreAtMost
<1> QED BY <1>1, <1>2, <1>3, JobsTypeCorrect, PTL DEF JobsSpec

-----------------------------------------------------------------------------
(* Between two passes nothing is left of the last one; within a pass a job  *)
(* is waiting, running or handled, and one that was started for fires that  *)
(* are still due is no longer waiting.                                      *)
PassInv ==
    /\ ~passing => running = NoJob /\ handled = {}
    /\ \A j \in Jobs : plan[j] # "none" => passing /\ j # running /\ j \notin handled
    /\ \A j \in Jobs : plan[j] = "due" => j \in before \/ fate[j] = "owed"
    /\ \A j \in Jobs :
           fate[j] = "started" /\ j \in before => j = running \/ j \in handled

(* The bookkeeping of a pass holds in every state.                          *)
LEMMA PassHolds == JobsSpec => []PassInv
<1>1. JobsInit => PassInv
  BY DEF JobsInit, PassInv
<1>2. JobsType /\ PassInv /\ [JobsNext]_jobVars => PassInv'
  <2> SUFFICES ASSUME JobsType, PassInv, [JobsNext]_jobVars PROVE PassInv'
    OBVIOUS
  <2> USE JobsAssumption DEF JobsAssumption, JobsType, PassInv, passVars, rowVars, fireVars
  <2>1. ASSUME NEW j \in Jobs, CreateJob(j) PROVE PassInv'
    BY <2>1 DEF CreateJob
  <2>2. ASSUME NEW j \in Jobs, EnableJob(j) \/ DisableJob(j) \/ EditJob(j) \/ DeleteJob(j)
        PROVE  PassInv'
    BY <2>2 DEF EnableJob, DisableJob, EditJob, DeleteJob, RowFree
  <2>3. ASSUME NEW j \in Jobs, Fire(j) PROVE PassInv'
    BY <2>3 DEF Fire
  <2>4. ASSUME NEW j \in Jobs, NotDue(j) \/ Skip(j) PROVE PassInv'
    BY <2>4 DEF NotDue, Skip, LooksAt, Looked
  <2>5. ASSUME NEW j \in Jobs, Start(j) PROVE PassInv'
    BY <2>5 DEF Start, LooksAt, Looked
  <2>6. ASSUME NEW j \in Jobs, Raise(j) PROVE PassInv'
    BY <2>6 DEF Raise, RollBack, EndPass
  <2>7. CASE BeginPass BY <2>7 DEF BeginPass, Selected
  <2>8. CASE Finish BY <2>8 DEF Finish
  <2>9. CASE Commit BY <2>9 DEF Commit, EndPass
  <2>10. CASE FailOrRestart BY <2>10 DEF FailOrRestart, RollBack, EndPass
  <2>11. CASE UNCHANGED jobVars BY <2>11 DEF jobVars
  <2> QED
    BY <2>1, <2>2, <2>3, <2>4, <2>5, <2>6, <2>7, <2>8, <2>9, <2>10, <2>11
    DEF JobsNext, Operator, Look
<1> QED BY <1>1, <1>2, JobsTypeCorrect, PTL DEF JobsSpec

(* Only a pass that was rolled back makes a job start again for the same    *)
(* fires.                                                                   *)
THEOREM NoRepeatWithoutRollback == JobsSpec => RepeatedOnlyAfterRollback
<1>1. JobsType /\ PassInv /\ [JobsNext]_jobVars
      => [\A j \in Jobs : Starts(j) => fate[j] # "started"]_jobVars
  <2> SUFFICES ASSUME JobsType, PassInv, JobsNext, NEW i \in Jobs, Starts(i)
               PROVE fate[i] # "started"
    OBVIOUS
  <2> USE JobsAssumption DEF JobsAssumption, JobsType, PassInv, passVars, Starts
  <2>1. ASSUME NEW j \in Jobs, Operator(j) \/ Fire(j) PROVE FALSE
    BY <2>1 DEF Operator, CreateJob, EnableJob, DisableJob, EditJob, DeleteJob, Fire
  <2>2. ASSUME NEW j \in Jobs, NotDue(j) \/ Skip(j) \/ Raise(j) PROVE FALSE
    BY <2>2 DEF NotDue, Skip, Raise, RollBack, EndPass
  <2>3. ASSUME NEW j \in Jobs, Start(j) PROVE fate[i] # "started"
    BY <2>3 DEF Start, LooksAt, Looked
  <2>4. CASE BeginPass \/ Finish \/ Commit \/ FailOrRestart
    BY <2>4 DEF BeginPass, Finish, Commit, FailOrRestart, RollBack, EndPass
  <2> QED BY <2>1, <2>2, <2>3, <2>4 DEF JobsNext, Look
<1> QED BY <1>1, JobsTypeCorrect, PassHolds, PTL DEF JobsSpec, RepeatedOnlyAfterRollback

-----------------------------------------------------------------------------
(* A job that has run before is not robbed of a fire: while its row exists  *)
(* and keeps its expression, a fire is done with only by the commit of a    *)
(* pass that has run the job or skipped it for an absent node.  A pass that *)
(* fails, that dies or that meets a barren expression leaves every one of   *)
(* them due (background.py:138-176).                                        *)
FiresAreKept ==
    [][\A j \in ran :
        mode[j] # "absent" /\ j \in before \cup after /\ j \notin (before \cup after)'
        => \/ EditJob(j)
           \/ j \in handled /\ passing /\ ~passing' /\ faults' = faults]_jobVars

(* Whatever ends a pass, no fire is forgotten.                              *)
THEOREM NoFireIsForgotten == JobsSpec => FiresAreKept
<1>1. ASSUME JobsType, [JobsNext]_jobVars, NEW j \in ran, mode[j] # "absent",
             j \in before \cup after, j \notin (before \cup after)', ~EditJob(j)
      PROVE  j \in handled /\ passing /\ ~passing' /\ faults' = faults
  <2> USE <1>1 DEF JobsType, passVars, rowVars, fireVars
  <2>1. ASSUME NEW i \in Jobs, Operator(i) \/ Fire(i) PROVE FALSE
    BY <2>1 DEF Operator, CreateJob, EnableJob, DisableJob, EditJob, DeleteJob, Fire
  <2>2. ASSUME NEW i \in Jobs, NotDue(i) \/ Skip(i) \/ Start(i) PROVE FALSE
    BY <2>2 DEF NotDue, Skip, Start, Looked
  <2>3. ASSUME RollBack PROVE FALSE
    BY <2>3 DEF RollBack, EndPass
  <2>4. CASE BeginPass \/ Finish BY <2>4 DEF BeginPass, Finish
  <2>5. CASE Commit BY <2>5 DEF Commit, EndPass
  <2>6. CASE UNCHANGED jobVars BY <2>6 DEF jobVars
  <2> QED
    BY <2>1, <2>2, <2>3, <2>4, <2>5, <2>6 DEF JobsNext, Look, Raise, FailOrRestart
<1>2. JobsType /\ [JobsNext]_jobVars =>
        [\A j \in ran :
            mode[j] # "absent" /\ j \in before \cup after /\ j \notin (before \cup after)'
            => \/ EditJob(j)
               \/ j \in handled /\ passing /\ ~passing' /\ faults' = faults]_jobVars
  BY <1>1
<1> QED BY <1>2, JobsTypeCorrect, PTL DEF JobsSpec, FiresAreKept
=============================================================================
