----------------------------- MODULE ProjectContext -----------------------------
(***************************************************************************)
(* ProjectContextServer (src/context-servers/project-context/server.py),   *)
(* which tells agents about migrations, one request at a time: rules of    *)
(* access, a cache with times to live, and an index of the migrations that *)
(* are completed.  The platform it asks is external.  A resource is its    *)
(* kind and the tenant it belongs to.                                      *)
(***************************************************************************)
EXTENDS Integers, FiniteSets

CONSTANTS
    Tenant, Roles, Resources,   \* callers, and what they ask for
    Ttl,            \* default_ttl_seconds
    MaxEntries,     \* max_entries
    IndexTtl,       \* rebuild_interval_seconds
    Migrations,     \* the migrations that get completed
    Booted,         \* how long the host is up when the server starts
    MaxTime, MaxVersion

Kinds == {"migration", "tenant", "schema", "ruleset", "history"}

ContextAssumption ==
    /\ \A r \in Resources : r[1] \in Kinds /\ r[2] \in Tenant
    /\ {Ttl, MaxEntries, IndexTtl, MaxVersion} \subseteq Nat \ {0}
    /\ {Booted, MaxTime} \subseteq Nat

VARIABLES
    now,        \* time.monotonic()
    version,    \* of each resource, at the platform
    until,      \* observed, per resource and version: the last moment it was current
    store,      \* _store: the entries of the cache
    answer,     \* observed: the answer of the last step
    completed,  \* per migration: when it was completed, -1 if it is not
    index       \* the migrations in the index, and _last_built

vars == <<now, version, until, store, answer, completed, index>>

NoAnswer == [tenant |-> "none", role |-> "none", resource |-> <<"none", "none">>, version |-> 0]

Init ==
    /\ now = Booted
    /\ version = [r \in Resources |-> 1]
    /\ until = [r \in Resources |-> [v \in 1..MaxVersion |-> 0]]
    /\ store = {} /\ answer = NoAnswer
    /\ completed = [m \in Migrations |-> -1]
    /\ index = [ids |-> {}, built |-> 0]

-------------------------------------------------------------------------------
\* ROLE_PERMISSIONS; a role that is not in it has none.
Permitted(role, kind) ==
    \/ role = "migration_admin"
    \/ role \in {"migration_operator", "agent_service"}
    \/ role = "security_auditor" /\ kind \in {"migration", "schema", "ruleset"}
    \/ role = "readonly" /\ kind \in {"migration", "history"}

\* validate_access of a resource that belongs to a tenant.  Schemas and rulesets
\* belong to whoever asks.
ValidateAccess(tenant, role, r) ==
    /\ r[1] \in {"schema", "ruleset"} \/ tenant = r[2] \/ role = "migration_admin"
    /\ Permitted(role, r[1])

\* The tenant in the key of an entry.
Scope(tenant, r) == IF r[1] \in {"tenant", "history"} THEN r[2] ELSE tenant

TtlOf(kind) == CASE kind = "schema" -> 6 * Ttl [] kind = "ruleset" -> 12 * Ttl [] OTHER -> Ttl

\* get: an entry that has expired is removed.
Entry(tenant, r) == {e \in store : e.scope = Scope(tenant, r) /\ e.resource = r}
Live_Always(e) == e.expires >= 0

Live(e) == now <= e.expires

\* set: a full cache gets rid of what has expired, and grows.
Put(entries, e) ==
    (IF Cardinality(entries) >= MaxEntries THEN {f \in entries : Live(f)} ELSE entries) \union {e}

Answer(tenant, role, r, v) ==
    answer' = [tenant |-> tenant, role |-> role, resource |-> r, version |-> v]
Refuse == answer' = NoAnswer

\* read_resource and the tools that look up one resource.  For a migration, whose
\* tenant is not known before it is fetched, the cache is asked before the rules are.
ReadResource(tenant, role, r) ==
    LET found == {e \in Entry(tenant, r) : Live(e)}
        rest == store \ Entry(tenant, r)
        allowed == ValidateAccess(tenant, role, r)
    IN  /\ IF found # {} /\ (allowed \/ r[1] = "migration")
           THEN /\ \E e \in found : Answer(tenant, role, r, e.version)
                /\ UNCHANGED store
           ELSE IF allowed
           THEN /\ store' = Put(rest, [scope |-> Scope(tenant, r), resource |-> r,
                                       version |-> version[r], expires |-> now + TtlOf(r[1]),
                                       by |-> role])
                /\ Answer(tenant, role, r, version[r])
           ELSE Refuse /\ store' = IF r[1] = "migration" THEN rest ELSE store
        /\ UNCHANGED <<now, version, until, completed, index>>

\* The platform does not answer: an error, and nothing is stored.
ReadFails(tenant, role, r) ==
    /\ {e \in Entry(tenant, r) : Live(e)} = {}
    /\ r[1] # "migration" => ValidateAccess(tenant, role, r)
    /\ store' = store \ Entry(tenant, r)
    /\ Refuse
    /\ UNCHANGED <<now, version, until, completed, index>>

IsStale == now - index.built > IndexTtl

\* The index holds what was completed, of all tenants, whenever it is rebuilt.
Completed == {m \in Migrations : completed[m] >= 0}

FindSimilar_Never ==
    /\ IsStale
    /\ index' = [index EXCEPT !.built = now]
    /\ Refuse
    /\ UNCHANGED <<now, version, until, store, completed>>

\* _tool_find_similar_migrations; the migrations it finds are fetched afresh.
FindSimilar ==
    /\ IsStale
    /\ index' = [ids |-> Completed, built |-> now]
    /\ Refuse
    /\ UNCHANGED <<now, version, until, store, completed>>

Update(r) ==
    /\ version[r] < MaxVersion
    /\ version' = [version EXCEPT ![r] = @ + 1]
    /\ until' = [until EXCEPT ![r][version[r]] = now]
    /\ Refuse
    /\ UNCHANGED <<now, store, completed, index>>

Complete(m) ==
    /\ completed[m] < 0
    /\ completed' = [completed EXCEPT ![m] = now]
    /\ Refuse
    /\ UNCHANGED <<now, version, until, store, index>>

Tick ==
    /\ now < Booted + MaxTime /\ now' = now + 1
    /\ Refuse
    /\ UNCHANGED <<version, until, store, completed, index>>

CacheNext ==
    \/ \E t \in Tenant, role \in Roles, r \in Resources :
          ReadResource(t, role, r) \/ ReadFails(t, role, r)
    \/ \E r \in Resources : Update(r)
IndexNext == FindSimilar \/ \E m \in Migrations : Complete(m)

Next == CacheNext \/ IndexNext \/ Tick

Spec == Init /\ [][Next]_vars

-------------------------------------------------------------------------------
\* The types of the variables.
TypeOK ==
    /\ now \in Booted..Booted + MaxTime
    /\ version \in [Resources -> 1..MaxVersion]
    /\ \A e \in store : /\ e.scope \in Tenant /\ e.resource \in Resources
                        /\ e.version \in 1..MaxVersion /\ e.by \in Roles
    /\ index.ids \subseteq Completed /\ index.built \in 0..now

\* An answer is no older than the time to live of its kind.
AnswersAreRecent ==
    answer.version # 0 =>
        LET r == answer.resource
        IN  answer.version = version[r] \/ until[r][answer.version] >= now - TtlOf(r[1])

\* What the cache holds was allowed to the one it was fetched for, for each key there
\* is one entry, and so a caller who is not allowed a migration gets it only while an
\* entry lives that one of his tenant who was allowed it has left.
AnswersWereAllowed ==
    /\ \A e \in store : ValidateAccess(e.scope, e.by, e.resource) \/ e.by = "migration_admin"
    /\ \A e, f \in store : e.scope = f.scope /\ e.resource = f.resource => e = f
    /\ answer.version # 0 =>
          \/ ValidateAccess(answer.tenant, answer.role, answer.resource)
          \/ \E e \in Entry(answer.tenant, answer.resource) :
                e.scope = answer.tenant /\ ValidateAccess(answer.tenant, e.by, e.resource)

\* What was completed longer ago than the index lives is in it when it is asked, on a
\* host that has just booted as well.
IndexIsRecent ==
    ~IsStale =>
        \A m \in Completed : completed[m] < now - IndexTtl => m \in index.ids

-------------------------------------------------------------------------------
\* "Rebuilt from API on startup": on a host that has just booted the empty index is
\* not stale.
BuiltOnStartup == ~IsStale => index.built > 0

\* "max_entries": entries that live are kept, however many they are.
CacheIsBounded == Cardinality(store) <= MaxEntries
===============================================================================
