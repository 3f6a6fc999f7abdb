------------------------------ MODULE Accounts ------------------------------
(***************************************************************************)
(* Users, their tokens and what they may do: the auth, users and tokens     *)
(* endpoints of server/api/routes.py, get_current_user() and RequireRole of *)
(* server/core/dependencies.py, the token types of server/core/security.py  *)
(* and the foreign keys to users in server/db/models.py.                    *)
(*                                                                          *)
(* A request reads its user's row once, when it is authenticated; what it   *)
(* does then, it does after further awaits, when other requests may have    *)
(* changed or deleted that user.  Tokens carry no authority of their own:   *)
(* a JWT names a user and is good until it expires, an API token is a row.  *)
(* Passwords are not modelled: whoever may log in as a user knows his.      *)
(* Nor is the expiry of a token, after which it is just not presented.      *)
(***************************************************************************)
CONSTANTS
    Users,      \* users.id; never used again
    Root,       \* the admin of the installation
    Tokens,     \* rows of api_tokens
    Slots,      \* requests that the server works on at a time
    Nobody

ASSUME RootAssumption == Root \in Users
ASSUME NobodyAssumption == Nobody \notin Users

Roles == {"admin", "operator", "viewer"}

VARIABLES
    status,     \* status[u]: "unborn", "active", "inactive" or "deleted"
    role,       \* role[u]: users.role
    signed,     \* JWTs that were issued: pairs of a type and a user
    owner,      \* owner[t]: api_tokens.user_id
    acted,      \* users that rows which stay refer to: audit_log, commands
    authored,   \* users that rows which may go refer to: scheduled jobs
    request     \* request[q]: the user of a request, as it was read, and why

accountVars == <<status, role, signed, owner, acted, authored, request>>

Kinds == {"login", "api"}

Idle == [user |-> Nobody, role |-> "viewer", kind |-> "api"]

AccountsType ==
    /\ status \in [Users -> {"unborn", "active", "inactive", "deleted"}]
    /\ role \in [Users -> Roles]
    /\ signed \subseteq {"access", "refresh"} \X Users
    /\ owner \in [Tokens -> Users \cup {Nobody}]
    /\ acted \subseteq Users
    /\ authored \subseteq Users
    /\ request \in [Slots -> [user : Users, role : Roles, kind : Kinds] \cup {Idle}]

AccountsInit ==
    /\ status = [u \in Users |-> IF u = Root THEN "active" ELSE "unborn"]
    /\ role = [u \in Users |-> IF u = Root THEN "admin" ELSE "viewer"]
    /\ signed = {}
    /\ owner = [t \in Tokens |-> Nobody]
    /\ acted = {} /\ authored = {}
    /\ request = [q \in Slots |-> Idle]

Exists(u) == status[u] \in {"active", "inactive"}

(* RequireRole: who passes which of its instances.                          *)
require_admin == {"admin"}
require_operator == {"admin", "operator"}
require_viewer == {"admin", "operator", "viewer"}

-----------------------------------------------------------------------------
(* A request begins and ends.                                               *)

Begin(q, u, kind) ==
    /\ request[q] = Idle
    /\ request' = [request EXCEPT ![q] = [user |-> u, role |-> role[u], kind |-> kind]]

Ends(q) == request' = [request EXCEPT ![q] = Idle]

(* Mutant of MayEnter: is_active is not looked at.                          *)
MayEnterInactive(u) == Exists(u)

(* The row is there and is_active.                                          *)
MayEnter(u) == status[u] = "active"

(* login(): the password is right; then last_login is committed.            *)
Login(q, u) ==
    /\ MayEnter(u)
    /\ Begin(q, u, "login")
    /\ UNCHANGED <<status, role, signed, owner, acted, authored>>

(* ... and the tokens are made, of the user as he was read.                 *)
IssueTokens(q) ==
    /\ request[q] # Idle /\ request[q].kind = "login"
    /\ signed' = signed \cup {<<"access", request[q].user>>, <<"refresh", request[q].user>>}
    /\ Ends(q)
    /\ UNCHANGED <<status, role, owner, acted, authored>>

(* refresh_token(): nothing is awaited after the row was read.              *)
Refresh(u) ==
    /\ <<"refresh", u>> \in signed
    /\ MayEnter(u)
    /\ signed' = signed \cup {<<"access", u>>, <<"refresh", u>>}
    /\ UNCHANGED <<status, role, owner, acted, authored, request>>

(* get_current_user(): an access token, or an API token.                    *)
Authenticate(q, u) ==
    /\ <<"access", u>> \in signed \/ \E t \in Tokens : owner[t] = u
    /\ MayEnter(u)
    /\ Begin(q, u, "api")
    /\ UNCHANGED <<status, role, signed, owner, acted, authored>>

(* A request of one of the roles has passed its dependencies.               *)
By(q, roles) ==
    /\ request[q] # Idle
    /\ request[q].kind = "api" /\ request[q].role \in roles

(* It only reads, changes a password or a last_used, or is refused; or a    *)
(* statement fails, or the server dies.                                     *)
EndWithout(q) ==
    /\ request[q] # Idle
    /\ Ends(q)
    /\ UNCHANGED <<status, role, signed, owner, acted, authored>>

-----------------------------------------------------------------------------
(* Users.                                                                   *)

(* Mutant of CreateUser: the role is stored as it was sent.                 *)
CreateUserUnchecked(q) ==
    /\ By(q, require_admin)
    /\ \E u \in Users, new \in Roles \cup {"owner"} :
           /\ status[u] = "unborn"
           /\ status' = [status EXCEPT ![u] = "active"]
           /\ role' = [role EXCEPT ![u] = new]
    /\ Ends(q)
    /\ UNCHANGED <<signed, owner, acted, authored>>

CreateUser(q) ==
    /\ By(q, require_admin)
    /\ \E u \in Users, new \in Roles :
           /\ status[u] = "unborn"
           /\ status' = [status EXCEPT ![u] = "active"]
           /\ role' = [role EXCEPT ![u] = new]
    /\ Ends(q)
    /\ UNCHANGED <<signed, owner, acted, authored>>

(* Any admin changes any user, himself and the last admin included.         *)
UpdateUser(q) ==
    /\ By(q, require_admin)
    /\ \E u \in Users, s \in {"active", "inactive"}, new \in Roles :
           /\ Exists(u)
           /\ status' = [status EXCEPT ![u] = s]
           /\ role' = [role EXCEPT ![u] = new]
    /\ Ends(q)
    /\ UNCHANGED <<signed, owner, acted, authored>>

(* Mutant of DeleteUser: the tokens of the user do not go with him.         *)
DeleteUserOnly(q) ==
    /\ By(q, require_admin)
    /\ \E u \in Users \ {request[q].user} :
           /\ Exists(u) /\ u \notin acted \cup authored
           /\ status' = [status EXCEPT ![u] = "deleted"]
    /\ Ends(q)
    /\ UNCHANGED <<owner, role, signed, acted, authored>>

(* Never oneself.  The tokens cascade; other references, which do not, make *)
(* the commit fail.                                                         *)
DeleteUser(q) ==
    /\ By(q, require_admin)
    /\ \E u \in Users \ {request[q].user} :
           /\ Exists(u) /\ u \notin acted \cup authored
           /\ status' = [status EXCEPT ![u] = "deleted"]
           /\ owner' = [t \in Tokens |-> IF owner[t] = u THEN Nobody ELSE owner[t]]
    /\ Ends(q)
    /\ UNCHANGED <<role, signed, acted, authored>>

-----------------------------------------------------------------------------
(* API tokens, and rows that name their author.                             *)

(* The foreign key: a row cannot name a user who was deleted since.         *)
CreateApiToken(q) ==
    /\ By(q, require_viewer)
    /\ Exists(request[q].user)
    /\ \E t \in Tokens :
           owner[t] = Nobody /\ owner' = [owner EXCEPT ![t] = request[q].user]
    /\ Ends(q)
    /\ UNCHANGED <<status, role, signed, acted, authored>>

RevokeApiToken(q) ==
    /\ By(q, require_viewer)
    /\ \E t \in Tokens :
           owner[t] = request[q].user /\ owner' = [owner EXCEPT ![t] = Nobody]
    /\ Ends(q)
    /\ UNCHANGED <<status, role, signed, acted, authored>>

(* A node, a command, a deployment, an acknowledgement or a job.            *)
WriteAuthored(q) ==
    /\ By(q, require_operator)
    /\ Exists(request[q].user)
    /\ \/ acted' = acted \cup {request[q].user} /\ UNCHANGED authored
       \/ authored' = authored \cup {request[q].user} /\ UNCHANGED acted
    /\ Ends(q)
    /\ UNCHANGED <<status, role, signed, owner>>

(* Any operator deletes a job, perhaps the last one of its author.          *)
DeleteAuthored(q) ==
    /\ By(q, require_operator)
    /\ \E u \in authored : authored' = authored \ {u}
    /\ Ends(q)
    /\ UNCHANGED <<status, role, signed, owner, acted>>

-----------------------------------------------------------------------------
Serve(q) ==
    \/ IssueTokens(q)
    \/ CreateUser(q) \/ UpdateUser(q) \/ DeleteUser(q)
    \/ CreateApiToken(q) \/ RevokeApiToken(q)
    \/ WriteAuthored(q) \/ DeleteAuthored(q)
    \/ EndWithout(q)

AccountsNext ==
    \/ \E q \in Slots, u \in Users : Login(q, u) \/ Authenticate(q, u)
    \/ \E u \in Users : Refresh(u)
    \/ \E q \in Slots : Serve(q)

AccountsSpec == AccountsInit /\ [][AccountsNext]_accountVars

-----------------------------------------------------------------------------
(* Properties.                                                              *)

(* What u can do from now on without anybody's help: what his row allows,   *)
(* and what the requests under way may still do in his name.                *)
Grants(r) ==
    (IF r \in require_admin THEN {"administer"} ELSE {})
    \cup (IF r \in require_operator THEN {"operate"} ELSE {})
    \cup {"view"}

Power(u) ==
    (IF status[u] = "active" THEN Grants(role[u]) ELSE {})
    \cup UNION {Grants(request[q].role) :
                  q \in {x \in Slots : request[x].user = u /\ request[x].kind = "api"}}

(* Nobody gains power but by a request of another user who was an admin:    *)
(* neither an old token nor a login or a refresh that overlaps with it      *)
(* brings back what a demotion, deactivation or deletion took away, once    *)
(* the requests that were under way then are through                        *)
(* (dependencies.py:36-86, routes.py:57-113).                               *)
PowerIsGranted ==
    [][\A u \in Users : ~(Power(u)' \subseteq Power(u)) =>
           \E q \in Slots : /\ By(q, require_admin) /\ request[q].user # u
                            /\ request'[q] = Idle]_accountVars

(* Every row that names a user finds him, in whatever order deletions and   *)
(* requests of the deleted user commit: a token is never without its user,  *)
(* and what a user has done or still owns keeps his row (models.py:70-78,   *)
(* 99-277).                                                                 *)
NothingDangles ==
    /\ \A t \in Tokens : owner[t] # Nobody => Exists(owner[t])
    /\ \A u \in acted \cup authored : Exists(u)
=============================================================================
