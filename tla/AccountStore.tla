----------------------------- MODULE AccountStore -----------------------------
(***************************************************************************)
(* One account in the staging database, and several sessions that load,    *)
(* edit and save it through PostgresAccountRepository                      *)
(* (src/adapters/outbound/postgres_account_repository.py).  The edits are  *)
(* those of the aggregate, src/domain/entities/account.py, each of which   *)
(* counts the version of its copy.  The database is external: a statement  *)
(* is atomic and committed, and the key of the table is unique.            *)
(***************************************************************************)
EXTENDS Integers

CONSTANTS
    Sessions,   \* holders of a copy of the account
    MaxEdits,   \* bound on the edits of a copy
    MaxSaves    \* bound on the saves of a copy

BoundAssumption == {MaxEdits, MaxSaves} \subseteq Nat

VARIABLES
    row,    \* the stored account, with version 0 as long as there is none
    copy    \* what each session holds

vars == <<row, copy>>

-------------------------------------------------------------------------------
Status == {"ACTIVE", "INACTIVE", "SUSPENDED", "PENDING_REVIEW"}

\* The attributes, of which the two last stand for those edited by a value:
\* salesforce_id is set once, email (as the addresses, the contact data and the
\* revenue) whenever.
Account == [status : Status, sf_id : Sessions \union {"none"},
            email : Sessions \union {"legacy"}]

New == [status |-> "ACTIVE", sf_id |-> "none", email |-> "legacy"]

\* loaded tells a loaded copy from a new one; edits and saves count; since counts
\* the writes to the row since the copy was taken.
Copy == [pc : {"idle", "held", "insert", "update", "raised"}, account : Account,
         version : Nat, loaded : BOOLEAN, edits : 0..MaxEdits, saves : 0..MaxSaves,
         since : Nat,
         outcome : {"none", "inserted", "updated", "duplicate", "conflict"}]

NoCopy == [pc |-> "idle", account |-> New, version |-> 0, loaded |-> FALSE,
           edits |-> 0, saves |-> 0, since |-> 0, outcome |-> "none"]

Init ==
    /\ row \in {[account |-> New, version |-> 0]}
               \union {[account |-> [New EXCEPT !.status = x], version |-> 1] : x \in Status}
    /\ copy = [s \in Sessions |-> NoCopy]

Is(s, pc) == copy[s].pc = pc

\* find_by_legacy_id, and _to_domain.
Load(s) ==
    /\ Is(s, "idle")
    /\ row.version > 0
    /\ copy' = [copy EXCEPT ![s].pc = "held", ![s].loaded = TRUE,
                            ![s].account = row.account, ![s].version = row.version]
    /\ UNCHANGED row

\* Account.create.
Create(s) ==
    /\ Is(s, "idle")
    /\ copy' = [copy EXCEPT ![s].pc = "held"]
    /\ UNCHANGED row

\* What the commands of the aggregate make of an account that they accept; none
\* of them leads to PENDING_REVIEW.
Edits(s, a) ==
    {[a EXCEPT !.email = s]}
    \union (IF a.sf_id = "none" /\ a.status # "SUSPENDED" THEN {[a EXCEPT !.sf_id = s]} ELSE {})
    \union {[a EXCEPT !.status = x] : x \in Status \ {a.status, "PENDING_REVIEW"}}

Edit(s) ==
    /\ Is(s, "held")
    /\ copy[s].edits < MaxEdits
    /\ \E a \in Edits(s, copy[s].account) :
          copy' = [copy EXCEPT ![s].account = a, ![s].version = @ + 1, ![s].edits = @ + 1]
    /\ UNCHANGED row

\* save looks whether there is a row, and inserts or updates in a second
\* statement.
Save(s) ==
    /\ Is(s, "held")
    /\ copy[s].saves < MaxSaves
    /\ copy' = [copy EXCEPT ![s].pc = IF row.version = 0 THEN "insert" ELSE "update",
                            ![s].saves = @ + 1]
    /\ UNCHANGED row

\* What a write of session s does to the copy of x: any copy held ages by it.
Aged(x, s, outcome) ==
    [copy[x] EXCEPT !.since = IF Is(x, "idle") THEN @ ELSE @ + 1,
                    !.pc = IF x = s THEN "held" ELSE @,
                    !.outcome = IF x = s THEN outcome ELSE @]

Write(s, account, outcome) ==
    /\ row' = [account |-> account, version |-> row.version + 1]
    /\ copy' = [x \in Sessions |-> Aged(x, s, outcome)]

\* The save raises: ConcurrencyConflict, or the database's error for the key.
Raise(s, outcome) ==
    /\ copy' = [copy EXCEPT ![s].pc = "raised", ![s].outcome = outcome]
    /\ UNCHANGED row

\* _insert, with row_version 1 whatever the copy counted.
Insert(s) ==
    /\ Is(s, "insert")
    /\ IF row.version = 0 THEN Write(s, copy[s].account, "inserted") ELSE Raise(s, "duplicate")

\* The statement without its condition on the version.
Matches_Any(s) == row.version > 0

\* WHERE acct_id = :acct_id AND row_version = :expected_version, where the
\* expected version is the one the edits have counted.
Matches(s) == row.version > 0 /\ row.version = copy[s].version

\* What the SET clause takes from the copy: the email is not in it.
Updated(s) == [row.account EXCEPT !.status = copy[s].account.status,
                                  !.sf_id = copy[s].account.sf_id]

\* _update.
Update(s) ==
    /\ Is(s, "update")
    /\ IF Matches(s) THEN Write(s, Updated(s), "updated") ELSE Raise(s, "conflict")

Step(s) == Load(s) \/ Create(s) \/ Edit(s) \/ Save(s) \/ Insert(s) \/ Update(s)

Next == \E s \in Sessions : Step(s)

Spec == Init /\ [][Next]_vars

-------------------------------------------------------------------------------
\* The types of the variables.
TypeOK ==
    /\ row \in [account : Account, version : Nat]
    /\ copy \in [Sessions -> Copy]

Updates(s) == Is(s, "update") /\ copy'[s].outcome = "updated" /\ copy'[s].pc = "held"

\* The check of the version compares two counts: an update of a loaded account
\* passes exactly if the row was written as often since the load as the copy was
\* edited.  That is optimistic locking only for a copy that was not edited.
CheckCountsEdits ==
    [][\A s \in Sessions :
          copy[s].loaded /\ Is(s, "update") /\ ~Is(s, "update")' =>
              (Updates(s) <=> copy[s].since = copy[s].edits)]_vars

\* Saving a loaded copy that was never edited leaves the account as it is.
UneditedSaveIsHarmless ==
    [][\A s \in Sessions :
          Updates(s) /\ copy[s].edits = 0 => row'.account = row.account]_vars

-------------------------------------------------------------------------------
\* "Raise ConcurrencyConflict if the stored version does not match": a save does
\* not conflict while nothing has been written since the load.
NoConflictAlone ==
    \A s \in Sessions : copy[s].loaded /\ copy[s].since = 0 => copy[s].outcome # "conflict"

\* "Uses optimistic locking": an update is of the row the copy was loaded from,
\* or that its own session wrote.
NoLostUpdate ==
    [][\A s \in Sessions :
           copy[s].loaded /\ copy[s].saves = 1 /\ Updates(s) => copy[s].since = 0]_vars

\* "Persist a new or updated Account": what was saved is what is stored.
SavedIsStored ==
    [][\A s \in Sessions : Updates(s) => row'.account = copy[s].account]_vars

===============================================================================
