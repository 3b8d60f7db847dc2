------------------------------ MODULE AccessControl ------------------------------
(***************************************************************************)
(* RBACEngine, JWTManager and RoleAssignmentManager                        *)
(* (src/security/rbac/rbac_config.py): roles are assigned and revoked      *)
(* while tokens, which carry the roles of the moment they were issued,     *)
(* are out.  The login that issues a token for the assigned roles is       *)
(* external.                                                               *)
(***************************************************************************)
EXTENDS Integers, Sequences, FiniteSets

CONSTANTS
    User,
    Role,           \* the roles that are assigned, some of RoleNames
    Asked,          \* the permissions that are asked for, some of Permissions
    Hour,           \* ticks of an hour
    MaxTime         \* bound on the clock

\* The permissions requests name, as the parts their names are split into.
Permissions ==
    {<<"migration", "jobs", op>> : op \in {"read", "create", "update", "delete",
                                           "execute", "approve"}}
    \union {<<"data", "read", "confidential">>, <<"data", "read", "restricted">>,
            <<"data", "export">>, <<"data", "transform", "configure">>,
            <<"config", "read">>, <<"config", "write">>, <<"config", "secrets", "read">>,
            <<"monitoring", "metrics", "read">>, <<"monitoring", "logs", "read">>,
            <<"monitoring", "alerts", "manage">>, <<"audit", "logs", "read">>,
            <<"audit", "reports", "generate">>, <<"admin", "users", "manage">>,
            <<"admin", "system", "manage">>}

RoleNames == {"migration-admin", "migration-operator", "migration-viewer", "api-service",
              "audit-reader", "security-analyst"}

AccessAssumption ==
    /\ User # {} /\ Role \subseteq RoleNames /\ Asked \subseteq Permissions
    /\ Hour \in Nat \ {0} /\ MaxTime \in Nat

VARIABLES
    now,
    assigned,   \* _assignments
    held,       \* observed, per user and role: the last moment it was assigned, or -1
    token,      \* each user's token: its roles, its "mfa" and its "iat"
    decision    \* observed: the last decision

vars == <<now, assigned, held, token, decision>>

-------------------------------------------------------------------------------
Star == "*"
Jobs(ops) == {<<"migration", "jobs", op>> : op \in ops}
Watch == {<<"monitoring", "metrics", "read">>, <<"monitoring", "logs", "read">>}

\* ROLE_DEFINITIONS; a role without a definition has neither rights nor duties.
Granted(role) ==
    CASE role = "migration-admin" ->
            Jobs({Star}) \union {<<"data", "read", "confidential">>,
            <<"data", "read", "restricted">>, <<"data", "export">>,
            <<"data", "transform", "configure">>, <<"config", Star>>, <<"monitoring", Star>>,
            <<"audit", Star>>, <<"admin", Star>>}
      [] role = "migration-operator" ->
            Jobs({"read", "create", "update", "execute"}) \union Watch \union
            {<<"data", "read", "confidential">>, <<"data", "transform", "configure">>,
             <<"config", "read">>}
      [] role = "migration-viewer" -> Jobs({"read"}) \union Watch \union {<<"config", "read">>}
      [] role = "api-service" ->
            Jobs({"read", "create", "update"}) \union
            {<<"data", "read", "confidential">>, <<"config", "read">>}
      [] role = "audit-reader" ->
            Jobs({"read"}) \union {<<"audit", "logs", "read">>,
            <<"audit", "reports", "generate">>, <<"monitoring", "metrics", "read">>}
      [] OTHER -> {}

RequireMfa == {"migration-admin", "migration-operator", "audit-reader"}

Justified(role) ==
    IF role = "migration-admin"
    THEN {<<"data", "read", "restricted">>, <<"data", "export">>}
    ELSE {}

\* session_timeout_minutes, in ticks; a role without a definition has none.
SessionTimeout(role) ==
    CASE role = "migration-admin" -> Hour
      [] role \in {"migration-operator", "migration-viewer"} -> 8 * Hour
      [] role = "audit-reader" -> 4 * Hour
      [] OTHER -> -1

TokenExpiry == Hour

\* PermissionMatcher.matches: part by part, until a star.
Matches(granted, requested) ==
    \/ \E i \in DOMAIN granted :
          /\ granted[i] = Star
          /\ i - 1 <= Len(requested)
          /\ \A j \in 1..i - 1 : granted[j] = requested[j]
    \/ granted = requested

HasPermission(roles, p) == \E r \in roles : \E g \in Granted(r) : Matches(g, p)

Init ==
    /\ now = 0
    /\ assigned \in [User -> {{}, Role}]
    /\ held = [u \in User |-> [r \in Role |-> IF r \in assigned[u] THEN 0 ELSE -1]]
    /\ token = [u \in User |-> [roles |-> {}, mfa |-> FALSE, iat |-> -1]]
    /\ decision = [user |-> CHOOSE u \in User : TRUE, roles |-> {}, allowed |-> FALSE]

AssignRole(u, r) ==
    /\ r \notin assigned[u]
    /\ assigned' = [assigned EXCEPT ![u] = @ \union {r}]
    /\ held' = [held EXCEPT ![u][r] = now]
    /\ UNCHANGED <<now, token, decision>>

RevokeRole(u, r) ==
    /\ r \in assigned[u]
    /\ assigned' = [assigned EXCEPT ![u] = @ \ {r}]
    /\ held' = [held EXCEPT ![u][r] = now]
    /\ UNCHANGED <<now, token, decision>>

\* create_token.
CreateToken(u, mfa) ==
    /\ token' = [token EXCEPT ![u] = [roles |-> assigned[u], mfa |-> mfa, iat |-> now]]
    /\ UNCHANGED <<now, assigned, held, decision>>

Decodes_Always(u) == token[u].iat >= 0

\* decode_token accepts it.
Decodes(u) == token[u].iat >= 0 /\ now < token[u].iat + TokenExpiry

SessionValid(u) ==
    \A r \in token[u].roles :
        SessionTimeout(r) = -1 \/ now - token[u].iat <= SessionTimeout(r)

\* authorize; the header X-Justification comes with the request, or does not.
Authorize(u, p, justified) ==
    LET roles == token[u].roles
    IN  /\ Decodes(u)
        /\ decision' =
             [user |-> u, roles |-> roles,
              allowed |-> /\ SessionValid(u)
                          /\ roles \intersect RequireMfa # {} => token[u].mfa
                          /\ HasPermission(roles, p)
                          /\ justified \/ \A r \in roles : \A j \in Justified(r) : ~Matches(j, p)]
        /\ UNCHANGED <<now, assigned, held, token>>

Tick ==
    /\ now < MaxTime /\ now' = now + 1
    /\ held' = [u \in User |-> [r \in Role |-> IF r \in assigned[u] THEN now' ELSE held[u][r]]]
    /\ decision' = [decision EXCEPT !.allowed = FALSE]
    /\ UNCHANGED <<assigned, token>>

Next ==
    \/ \E u \in User, r \in Role : AssignRole(u, r) \/ RevokeRole(u, r)
    \/ \E u \in User, mfa \in BOOLEAN : CreateToken(u, mfa)
    \/ \E u \in User, p \in Asked, justified \in BOOLEAN : Authorize(u, p, justified)
    \/ Tick

Spec == Init /\ [][Next]_vars

-------------------------------------------------------------------------------
\* The types of the variables.
TypeOK ==
    /\ now \in 0..MaxTime
    /\ assigned \in [User -> SUBSET Role]
    /\ held \in [User -> [Role -> -1..MaxTime]]
    /\ token \in [User -> [roles : SUBSET Role, mfa : BOOLEAN, iat : -1..MaxTime]]
    /\ decision \in [user : User, roles : SUBSET Role, allowed : BOOLEAN]

\* A revoked role is of use until the token that carries it expires, and no longer:
\* whatever is allowed is allowed to roles the user had within the last hour.
RevokedRolesFade ==
    decision.allowed =>
        /\ \A r \in decision.roles :
            held[decision.user][r] > now - TokenExpiry /\ held[decision.user][r] >= 0
================================================================================
