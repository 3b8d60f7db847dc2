------------------------------- MODULE MCSecurity ------------------------------
(***************************************************************************)
(* What guards the program: the middleware and routes of its API           *)
(* (ApiGateway), the secrets (SecretsManager, S), the audit logger and the *)
(* chained audit log (AuditLogs, A) and the roles (AccessControl, R).  One *)
(* of them runs in a behaviour and the others rest in an initial state: in *)
(* the code they share no state.                                           *)
(*                                                                         *)
(* One client and one run for the gateway, since clients and runs have     *)
(* nothing in common; a window that spans two short ones; keys that may be *)
(* replaced once.  Two concurrent reads of a secret with a fallback and    *)
(* one failing request.  Three audit events, a queue and a buffer of two,  *)
(* one fault, two processes.  Five entries of the structured log and two   *)
(* faults, so that it can be torn and mended.  One user with two roles     *)
(* that differ in all that a decision looks at, over more time than a      *)
(* token lives.                                                            *)
(***************************************************************************)
EXTENDS ApiGateway

CONSTANTS
    Reader, NumBackends, CacheTtl, MaxRetries, Timeout, SecretTime, MaxVersion, MaxFaults,
    NumEvents, QueueSize, BufferSize, MaxStarts,
    Logger, NumEntries, MaxTears,
    User, Role, Hour, RoleTime

VARIABLES
    part,   \* the component that runs
    clock, stored, until, entry, reader, invalidated, failures,
    pc, queue, worker, sequence, number, buffer, lines, flushed, lost, late, starts, faults,
    file, torn, up, last, returned, shipping, shipped, logged, tears, broken,
    time, assigned, held, token, decision

\* Permissions of an administrator alone, of an administrator who says why, of both
\* roles, and of nobody.
Wanted == {<<"migration", "jobs", "approve">>, <<"data", "export">>,
           <<"monitoring", "logs", "read">>, <<"config", "write">>}

S == INSTANCE SecretsManager WITH now <- clock, faults <- failures, MaxTime <- SecretTime
A == INSTANCE AuditLogs
R == INSTANCE AccessControl WITH now <- time, MaxTime <- RoleTime, Asked <- Wanted

secretVars == <<clock, stored, until, entry, reader, invalidated, failures>>
auditVars == <<pc, queue, worker, sequence, number, buffer, lines, flushed, lost, late, starts,
               faults>>
chainVars == <<file, torn, up, last, returned, shipping, shipped, logged, tears, broken>>
roleVars == <<time, assigned, held, token, decision>>

ASSUME GuardsAssumption ==
    /\ GatewayAssumption /\ S!SecretsAssumption /\ R!AccessAssumption
    /\ A!AuditAssumption /\ A!ChainAssumption

MCInit ==
    /\ Init /\ S!Init /\ A!LoggerInit /\ A!ChainInit /\ R!Init
    /\ part \in {"gateway", "secrets", "audit", "chain", "roles"}
    /\ part # "roles" => \A u \in User : assigned[u] = {}

GatewayStep == part = "gateway" /\ Next
SecretsStep == part = "secrets" /\ S!Next
AuditStep   == part = "audit" /\ A!LoggerNext
ChainStep   == part = "chain" /\ A!ChainNext
RolesStep   == part = "roles" /\ R!Next

MCNext ==
    \/ GatewayStep /\ UNCHANGED <<part, secretVars, auditVars, chainVars, roleVars>>
    \/ SecretsStep /\ UNCHANGED <<part, vars, auditVars, chainVars, roleVars>>
    \/ AuditStep /\ UNCHANGED <<part, vars, secretVars, chainVars, roleVars>>
    \/ ChainStep /\ UNCHANGED <<part, vars, secretVars, auditVars, roleVars>>
    \/ RolesStep /\ UNCHANGED <<part, vars, secretVars, auditVars, chainVars>>

\* The steps that are taken as long as there is one to take.
Progress ==
    \/ part = "gateway" /\ Background
         /\ UNCHANGED <<part, secretVars, auditVars, chainVars, roleVars>>
    \/ part = "secrets" /\ S!Work /\ UNCHANGED <<part, vars, auditVars, chainVars, roleVars>>
    \/ part = "audit" /\ A!Work /\ UNCHANGED <<part, vars, secretVars, chainVars, roleVars>>

MCSpec ==
    /\ MCInit /\ [][MCNext]_<<part, vars, secretVars, auditVars, chainVars, roleVars>>
    /\ WF_<<part, vars, secretVars, auditVars>>(Progress)

-------------------------------------------------------------------------------
\* The limits of requests hold in every window, and what a refused client is told is
\* true: ApiGateway states both.  Trust ends in time: a token of a replaced key and a
\* role that was revoked are of use for as long as ApiGateway and AccessControl say.
AccessFades ==
    CASE part = "gateway" -> TypeOK /\ WindowsHold /\ AdviceIsHonest /\ ReplacedKeysFade
      [] part = "roles"   -> R!TypeOK /\ R!RevokedRolesFade
      [] part = "secrets" -> S!TypeOK
      [] OTHER            -> TRUE

\* When the audit log has been stopped each event is at every sink, once; and the
\* structured log complains of its chain, or has lost an entry, only after a fault.
AuditIsComplete ==
    CASE part = "audit" -> A!LoggerTypes /\ A!StoppedMeansWritten /\ A!WrittenOnce
      [] part = "chain" -> A!ChainTypes /\ A!ComplaintsNeedFaults /\ A!LossNeedsFaults
      [] OTHER          -> TRUE

\* What a read of a secret serves was current not longer ago than the cache and the
\* retries explain, and a cancelled run moves again only by the background task that
\* was asleep.
StaleThingsFade == S!ServedIsRecent /\ CancelHoldsOnce

\* Runs start, reads of a secret end, and the audit log stops.
GuardsGetOn == RunsStart /\ (part = "secrets" => S!ReadsEnd) /\ A!StopEnds
===============================================================================
