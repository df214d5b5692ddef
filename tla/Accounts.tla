------------------------------ MODULE Accounts ------------------------------
(***************************************************************************)
(* One user's account, as administrators change it, and the principal each *)
(* request of that user is given (modules/iam/service.py, router.py,       *)
(* core/deps.py).  A role is held by a row of its own.  A principal is     *)
(* read in three queries, each of which sees what is committed by then;    *)
(* tokens carry no roles.                                                  *)
(***************************************************************************)
EXTENDS Session

CONSTANTS
    Roles,     \* role keys of the tenant
    Grants     \* Grants[r]: the permissions of a role

ASSUME AccountsAssumption ==
    /\ DOMAIN Grants = Roles
    /\ "status" \notin Roles /\ None \notin Roles

VARIABLES
    account,     \* users and user_roles: the row with its roles, or None
    principal,   \* whom the last request admitted acts as
    decided      \* history: the account as its requests left it, column by column

accountRows == <<account, principal, decided>>

\* "suspended" stands for "invited" too: any status but "active".
Account == [status : {"active", "suspended"}, roles : SUBSET Roles]
Permissions == UNION {Grants[r] : r \in Roles}

ASSUME AccountRowAssumption == None \notin Account

\* `moved` is history: the account changed between the queries.
Principal == [roles : SUBSET Roles, permissions : SUBSET Permissions, moved : BOOLEAN]

AccountsTypeOK ==
    /\ account \in Account \cup {None}
    /\ principal \in Principal \cup {None}
    /\ decided \in Account \cup {None}
    /\ decided = None <=> account = None

-----------------------------------------------------------------------------
MutantAssignOnly(roles, r) == {r}

assign_role(roles, r) == roles \cup {r}

unassign_role(roles, r) == roles \ {r}

Granted(roles) == UNION {Grants[r] : r \in roles}

-----------------------------------------------------------------------------
AccountsInit ==
    /\ SessionInit
    /\ account = None
    /\ principal = None
    /\ decided = None

\* A user is made with roles of the tenant; unknown roles refuse the request.
CreateUser(q, status, roles) ==
    /\ account = None
    /\ Begin(q, [key |-> "status", op |-> "create",
                 set |-> [status |-> status, roles |-> roles]])
    /\ UNCHANGED accountRows

UpdateUserStatus(q, status) ==
    /\ account # None
    /\ Begin(q, [key |-> "status", op |-> "status", loaded |-> account.status,
                 set |-> status])
    /\ UNCHANGED accountRows

\* The role row is looked up here, and inserted or deleted at the flush.
AssignRole(q, r) ==
    /\ account # None
    /\ Begin(q, [key |-> r, op |-> "assign", loaded |-> account.roles,
                 set |-> assign_role(account.roles, r)])
    /\ UNCHANGED accountRows

UnassignRole(q, r) ==
    /\ account # None
    /\ Begin(q, [key |-> r, op |-> "unassign", loaded |-> account.roles,
                 set |-> unassign_role(account.roles, r)])
    /\ UNCHANGED accountRows

Moved == [o \in Requests |->
            IF req[o] # None /\ req[o].op = "auth" THEN [req[o] EXCEPT !.moved = TRUE]
            ELSE req[o]]

\* Unique: (tenant, email) and (user, role).  The rows inserted are set \ loaded,
\* those deleted loaded \ set; a status that is not new is not written.
CommitAccount(q) ==
    /\ req[q] # None
    /\ req[q].op # "auth"
    /\ req' = [Moved EXCEPT ![q] = None]
    /\ LET r == req[q]
       IN  CASE r.op = "create" ->
                  /\ account = None
                  /\ account' = r.set /\ decided' = r.set
             [] r.op = "status" ->
                  /\ account' = IF r.set = r.loaded THEN account
                                ELSE [account EXCEPT !.status = r.set]
                  /\ decided' = [decided EXCEPT !.status = r.set]
             [] OTHER ->
                  /\ (r.set \ r.loaded) \cap account.roles = {}
                  /\ account' = [account EXCEPT !.roles =
                                   (@ \cup (r.set \ r.loaded)) \ (r.loaded \ r.set)]
                  /\ decided' = [decided EXCEPT !.roles =
                                   IF r.op = "assign" THEN @ \cup {r.key} ELSE @ \ {r.key}]
    /\ UNCHANGED <<crossed, principal>>

AbortAccount(q) == End(q) /\ UNCHANGED accountRows

\* get_current_user: the user, who must be active, the roles, the permissions.
LoadUser(q) ==
    /\ account # None
    /\ account.status = "active"
    /\ Begin(q, [key |-> q, op |-> "auth", roles |-> None, moved |-> FALSE])
    /\ UNCHANGED accountRows

ReadRoles(q) ==
    /\ req[q] # None
    /\ req[q].op = "auth" /\ req[q].roles = None
    /\ req' = [req EXCEPT ![q].roles = account.roles]
    /\ UNCHANGED <<crossed, account, principal, decided>>

ReadPermissions(q) ==
    /\ End(q)
    /\ req[q].op = "auth" /\ req[q].roles # None
    /\ principal' = [roles |-> req[q].roles, permissions |-> Granted(account.roles),
                     moved |-> req[q].moved]
    /\ UNCHANGED <<account, decided>>

AccountsNext ==
    \E q \in Requests :
        \/ \E status \in {"active", "suspended"} :
              \/ \E roles \in SUBSET Roles : CreateUser(q, status, roles)
              \/ UpdateUserStatus(q, status)
        \/ \E r \in Roles : AssignRole(q, r) \/ UnassignRole(q, r)
        \/ CommitAccount(q)
        \/ AbortAccount(q)
        \/ LoadUser(q)
        \/ ReadRoles(q)
        \/ ReadPermissions(q)

AccountsSpec == AccountsInit /\ [][AccountsNext]_<<session, accountRows>>
-----------------------------------------------------------------------------
\* An account has the status and the roles its administrators gave it, whatever
\* they do at once to different ones: a change is lost only where two requests
\* met on that status or that role (iam/service.py:172-196).  A principal holds
\* what its roles grant, unless the account changed while it was read.
AccessIsAsGranted ==
    /\ account # None =>
          /\ "status" \notin crossed => account.status = decided.status
          /\ account.roles \ crossed = decided.roles \ crossed
    /\ principal # None /\ ~principal.moved =>
          principal.permissions = Granted(principal.roles)
=============================================================================
