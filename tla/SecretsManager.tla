----------------------------- MODULE SecretsManager -----------------------------
(***************************************************************************)
(* SecretsManager and its Vault and Azure clients                          *)
(* (src/security/secrets/secrets_manager.py): concurrent reads of one      *)
(* secret through a cache with a time to live, retries and a second        *)
(* backend, while the secret is rotated in the backends.                   *)
(***************************************************************************)
EXTENDS Integers

CONSTANTS
    Reader,         \* concurrent calls of get_secret
    NumBackends,    \* 2 with a fallback
    CacheTtl,       \* cache_ttl_seconds
    MaxRetries,     \* max_retries
    Timeout,        \* bound on the time a request takes
    MaxTime,        \* bound on the clock
    MaxVersion,     \* bound on the rotations
    MaxFaults       \* bound on failing requests

SecretsAssumption ==
    /\ NumBackends \in 1..2
    /\ {CacheTtl, MaxRetries, MaxVersion} \subseteq Nat \ {0}
    /\ {Timeout, MaxTime, MaxFaults} \subseteq Nat

VARIABLES
    now,
    stored,     \* per backend: the version it holds
    until,      \* observed, per backend and version: the last moment it was held
    entry,      \* the entry of the cache, Nothing without one
    reader,     \* each call
    invalidated,\* observed: the version notify_rotation announced last
    faults

vars == <<now, stored, until, entry, reader, invalidated, faults>>

Backend == 1..NumBackends
Nothing == [version |-> 0, backend |-> 1, at |-> 0]

New == [pc |-> "new", bypass |-> FALSE, backend |-> 1, attempt |-> 0, sent |-> 0, version |-> 0]

Init ==
    /\ now = 0 /\ faults = 0 /\ invalidated = 1
    /\ stored = [b \in Backend |-> 1]
    /\ until = [b \in Backend |-> [v \in 1..MaxVersion |-> 0]]
    /\ entry = Nothing
    /\ reader = [r \in Reader |-> New]

Fault == faults < MaxFaults /\ faults' = faults + 1

\* Ends with the version it serves, or with an error.
Served(r, v, b, bypass) ==
    [reader EXCEPT ![r] = [New EXCEPT !.pc = "served", !.version = v, !.backend = b,
                                      !.bypass = bypass]]
Failed(r) == [reader EXCEPT ![r] = [New EXCEPT !.pc = "failed"]]

-------------------------------------------------------------------------------
Valid_Inclusive == entry # Nothing /\ now - entry.at <= CacheTtl

\* is_valid.
Valid == entry # Nothing /\ now - entry.at < CacheTtl

\* get_secret: from the cache, which drops an entry that is too old, or on.
Get(r, bypass) ==
    /\ reader[r].pc = "new"
    /\ IF Valid /\ ~bypass
       THEN reader' = Served(r, entry.version, entry.backend, FALSE) /\ UNCHANGED entry
       ELSE /\ reader' = [reader EXCEPT ![r].pc = "send", ![r].bypass = bypass]
            /\ entry' = IF bypass THEN entry ELSE Nothing
    /\ UNCHANGED <<now, stored, until, invalidated, faults>>

\* An attempt failed: again, the other backend, or the end.
Raise(r) ==
    IF reader[r].attempt + 1 < MaxRetries
    THEN [reader EXCEPT ![r].pc = "send", ![r].sent = 0, ![r].version = 0, ![r].attempt = @ + 1]
    ELSE IF reader[r].backend < NumBackends
         THEN [reader EXCEPT ![r].pc = "send", ![r].sent = 0, ![r].version = 0, ![r].attempt = 0,
                             ![r].backend = @ + 1]
         ELSE Failed(r)

\* The client, with a token it had or obtained, sends the request; the backend reads
\* the secret it holds, and the answer is under way.
Read(r) ==
    /\ reader[r].pc = "send"
    /\ reader' = [reader EXCEPT ![r].pc = "answer", ![r].sent = now,
                                ![r].version = stored[reader[r].backend]]
    /\ UNCHANGED <<now, stored, until, entry, invalidated, faults>>

\* _store_in_cache.
StoreInCache(r) == entry' = [version |-> reader[r].version, backend |-> reader[r].backend,
                             at |-> now]

Answer(r) ==
    /\ reader[r].pc = "answer"
    /\ StoreInCache(r)
    /\ reader' = Served(r, reader[r].version, reader[r].backend, reader[r].bypass)
    /\ UNCHANGED <<now, stored, until, invalidated, faults>>

\* The token or the secret is refused, or the request times out.
Error(r) ==
    /\ reader[r].pc \in {"send", "answer"}
    /\ Fault
    /\ reader' = Raise(r)
    /\ UNCHANGED <<now, stored, until, entry, invalidated>>

\* An operator writes a new version to a backend.
Rotate(b) ==
    /\ stored[b] < MaxVersion
    /\ stored' = [stored EXCEPT ![b] = @ + 1]
    /\ until' = [until EXCEPT ![b][stored[b]] = now]
    /\ UNCHANGED <<now, entry, reader, invalidated, faults>>

\* notify_rotation with the version of the first backend.
NotifyRotation ==
    /\ invalidated < stored[1]
    /\ invalidated' = stored[1]
    /\ entry' = Nothing
    /\ UNCHANGED <<now, stored, until, reader, faults>>

\* A request takes at most Timeout.
Tick ==
    /\ now < MaxTime
    /\ \A r \in Reader : reader[r].pc = "answer" => now < reader[r].sent + Timeout
    /\ now' = now + 1
    /\ UNCHANGED <<stored, until, entry, reader, invalidated, faults>>

Step(r) == (\E bypass \in BOOLEAN : Get(r, bypass)) \/ Read(r) \/ Answer(r) \/ Error(r)

Work == \E r \in Reader : Step(r)

Rest == /\ \A r \in Reader : reader[r].pc \in {"served", "failed"}
        /\ UNCHANGED vars

Next ==
    \/ Work
    \/ \E b \in Backend : Rotate(b)
    \/ NotifyRotation \/ Tick \/ Rest

Spec == Init /\ [][Next]_vars

\* Each call goes on.
FairSpec == Spec /\ WF_vars(Work)

-------------------------------------------------------------------------------
\* The types of the variables.
TypeOK ==
    /\ now \in 0..MaxTime /\ faults \in 0..MaxFaults /\ invalidated \in 1..MaxVersion
    /\ stored \in [Backend -> 1..MaxVersion]
    /\ until \in [Backend -> [1..MaxVersion -> 0..MaxTime]]
    /\ entry \in [version : 0..MaxVersion, backend : Backend, at : 0..MaxTime]
    /\ \A r \in Reader :
          /\ reader[r].pc \in {"new", "send", "answer", "served", "failed"}
          /\ reader[r].attempt \in 0..MaxRetries - 1

\* The version was held by the backend at the time, or later.
HeldSince(b, v, time) == v = stored[b] \/ until[b][v] >= time

\* How old a secret may be: when a call returns, its backend held the version within
\* the time to live and the time of one request before, whatever the readers and
\* rotations in between; within the time of a request, if the call skips the cache.
ServedIsRecent ==
    [][\A r \in Reader : reader[r].pc # "served" /\ reader'[r].pc = "served" =>
          HeldSince(reader'[r].backend, reader'[r].version,
                    now - (IF reader'[r].bypass THEN Timeout ELSE CacheTtl + Timeout - 1))]_vars

\* Every call ends.
ReadsEnd == \A r \in Reader : <>(reader[r].pc \in {"served", "failed"})

-------------------------------------------------------------------------------
\* "Call this after secret rotation": a read of the old version that was under way
\* stores it after the cache was cleared, for another time to live.
RotationTakesEffect == entry.version # 0 /\ entry.backend = 1 => entry.version >= invalidated
===============================================================================
