------------------------------ MODULE Tenancy -------------------------------
(***************************************************************************)
(* Organisations, the accounts in them, and the records that are scoped by *)
(* organisation: backend pools with their servers, and mail recipients.    *)
(*                                                                         *)
(* No request puts an account into an organisation.  An account created by *)
(* a request has none until the next start, when everything that has none  *)
(* goes to the organisation with the slug "default" of that day; a start   *)
(* also moves the configured administrator there.  SQLite is used without  *)
(* foreign keys, so only the code keeps ids from dangling, and the id of a *)
(* deleted row with the highest id is used again.                          *)
(*                                                                         *)
(* A request loads its account when it is authorised and acts on that copy *)
(* later: its dependencies run in worker threads in between.               *)
(***************************************************************************)
EXTENDS Integers, FiniteSets

CONSTANTS
    MaxOrg,         \* ids of organisations are 1..MaxOrg
    MaxAccount,     \* ids of accounts are 1..MaxAccount
    Records,        \* pools and recipients
    Slots,          \* places for the servers of a pool
    Requests,       \* requests in progress
    NoRow

ASSUME MaxOrgAssumption == MaxOrg \in Nat \ {0}
ASSUME MaxAccountAssumption == MaxAccount \in Nat \ {0}

Orgs == 1..MaxOrg
NoOrg == 0
Accounts == 1..MaxAccount
Slugs == {"default", "other"}
Protocols == {"http", "https"}
Focuses == {"tenants", "servers"}

VARIABLES
    focus,      \* what is explored: who sees what, or the servers of pools
    stage,      \* the step of the start that is next, or "up"
    orgs,       \* table organizations: the slug
    accounts,   \* table users
    records,    \* tables backend_pools and notification_recipients
    servers,    \* table backend_servers, by pool
    inFlight,   \* per request: the account as it was when it was authorised
    maker,      \* history: the account that made a record, while it exists
    gone,       \* history: requests whose account was deleted meanwhile
    updated     \* history: pools with a server that was updated

vars == <<focus, stage, orgs, accounts, records, servers, inFlight, maker, gone, updated>>
dbVars == <<orgs, accounts, records, servers>>
histVars == <<maker, gone, updated>>

Account == [configured : BOOLEAN, super : BOOLEAN, admin : BOOLEAN, org : Orgs \cup {NoOrg}]
Record == [kind : {"pool", "recipient"}, org : Orgs \cup {NoOrg}]
Server == [protocol : Protocols, enabled : BOOLEAN]
Snapshot == [by : Accounts, super : BOOLEAN, admin : BOOLEAN, org : Orgs \cup {NoOrg}]

ASSUME NoRowAssumption == NoRow \notin Slugs \cup Account \cup Record \cup Server \cup Snapshot

TypeOK ==
    /\ focus \in Focuses
    /\ stage \in {"organization", "orphans", "admin", "up"}
    /\ orgs \in [Orgs -> Slugs \cup {NoRow}]
    /\ accounts \in [Accounts -> Account \cup {NoRow}]
    /\ records \in [Records -> Record \cup {NoRow}]
    /\ servers \in [Records -> [Slots -> Server \cup {NoRow}]]
    /\ inFlight \in [Requests -> Snapshot \cup {NoRow}]
    /\ maker \in [Records -> Accounts \cup {0}]
    /\ gone \subseteq Requests /\ updated \subseteq Records

NoServers == [i \in Slots |-> NoRow]

Init ==
    /\ focus \in Focuses
    /\ stage = "organization"
    /\ orgs = [o \in Orgs |-> NoRow]
    /\ accounts = [a \in Accounts |-> NoRow]
    /\ records = [x \in Records |-> NoRow]
    /\ servers = [x \in Records |-> NoServers]
    /\ inFlight = [r \in Requests |-> NoRow]
    /\ maker = [x \in Records |-> 0]
    /\ gone = {} /\ updated = {}

\* The id SQLite gives to a new row, the highest id in use plus one, unless
\* the bound is reached.
NextIds(table) ==
    {n \in DOMAIN table : /\ \A i \in DOMAIN table : table[i] # NoRow => i < n
                          /\ n = 1 \/ table[n - 1] # NoRow}

HasSlug(s) == \E o \in Orgs : orgs[o] = s
DefaultOrg == CHOOSE o \in Orgs : orgs[o] = "default"

-----------------------------------------------------------------------------
(* Start of the application *)

\* init_db: bootstrap_default_organization.
BootstrapOrganization ==
    /\ stage = "organization"
    /\ IF HasSlug("default")
       THEN UNCHANGED orgs
       ELSE \E o \in NextIds(orgs) : orgs' = [orgs EXCEPT ![o] = "default"]
    /\ stage' = "orphans"
    /\ UNCHANGED <<focus, accounts, records, servers, inFlight, histVars>>

Adopted(row, default) ==
    IF row = NoRow \/ row.org # NoOrg THEN row ELSE [row EXCEPT !.org = default]

\* Mutant: the recipients and pools are forgotten.
AssignOrphanAccounts ==
    /\ stage = "orphans"
    /\ accounts' = [a \in Accounts |-> Adopted(accounts[a], DefaultOrg)]
    /\ stage' = "admin"
    /\ UNCHANGED <<focus, orgs, records, servers, inFlight, histVars>>

\* init_db: assign_orphan_records_to_default_org, one commit.
AssignOrphans ==
    /\ stage = "orphans"
    /\ accounts' = [a \in Accounts |-> Adopted(accounts[a], DefaultOrg)]
    /\ records' = [x \in Records |-> Adopted(records[x], DefaultOrg)]
    /\ stage' = "admin"
    /\ UNCHANGED <<focus, orgs, servers, inFlight, histVars>>

\* The accounts with the configured name: one at most.
Configured == {a \in Accounts : accounts[a] # NoRow /\ accounts[a].configured}

NewAdmin == [configured |-> TRUE, super |-> TRUE, admin |-> TRUE, org |-> DefaultOrg]

\* bootstrap_admin: the account with the configured name is created, or made
\* a super administrator of the default organisation.
BootstrapAdmin ==
    /\ stage = "admin"
    /\ IF Configured # {}
       THEN accounts' = [a \in Accounts |-> IF a \in Configured THEN NewAdmin ELSE accounts[a]]
       ELSE \E a \in NextIds(accounts) : accounts' = [accounts EXCEPT ![a] = NewAdmin]
    /\ stage' = "up"
    /\ UNCHANGED <<focus, orgs, records, servers, inFlight, histVars>>

\* The process ends, during a start too, and is started again.
Crash ==
    /\ stage' = "organization"
    /\ inFlight' = [r \in Requests |-> NoRow] /\ gone' = {}
    /\ UNCHANGED <<focus, dbVars, maker, updated>>

-----------------------------------------------------------------------------
(* Requests *)

\* Mutant: the copy does not say whose it is.
AuthoriseAnonymously(r, a) ==
    /\ stage = "up" /\ inFlight[r] = NoRow /\ accounts[a] # NoRow
    /\ inFlight' = [inFlight EXCEPT ![r] = accounts[a]]
    /\ UNCHANGED <<focus, stage, dbVars, histVars>>

\* get_current_user: the row of the session's account.
Authorise(r, a) ==
    /\ stage = "up" /\ inFlight[r] = NoRow /\ accounts[a] # NoRow
    /\ inFlight' = [inFlight EXCEPT ![r] =
           [by |-> a, super |-> accounts[a].super, admin |-> accounts[a].admin, org |-> accounts[a].org]]
    /\ UNCHANGED <<focus, stage, dbVars, histVars>>

Handling(r) == inFlight[r] # NoRow
End(r) == inFlight' = [inFlight EXCEPT ![r] = NoRow] /\ gone' = gone \ {r}

\* The request is refused, or only reads, or changes nothing that is here.
Refuse(r) == Handling(r) /\ End(r) /\ UNCHANGED <<focus, stage, dbVars, maker, updated>>

CreateOrganization(r, o, slug) ==
    /\ focus = "tenants" /\ Handling(r) /\ inFlight[r].super
    /\ slug = "default" => ~HasSlug("default")
    /\ o \in NextIds(orgs)
    /\ orgs' = [orgs EXCEPT ![o] = slug]
    /\ End(r)
    /\ UNCHANGED <<focus, stage, accounts, records, servers, maker, updated>>

UpdateOrganization(r, o, slug) ==
    /\ focus = "tenants" /\ Handling(r) /\ inFlight[r].super /\ orgs[o] # NoRow
    /\ slug = "default" /\ orgs[o] # "default" => ~HasSlug("default")
    /\ orgs' = [orgs EXCEPT ![o] = slug]
    /\ End(r)
    /\ UNCHANGED <<focus, stage, accounts, records, servers, maker, updated>>

Members(o) == {a \in Accounts : accounts[a] # NoRow /\ accounts[a].org = o}

\* Mutant: only the default organisation is spared.
DeleteAnyOrganization(r, o) ==
    /\ focus = "tenants" /\ Handling(r) /\ inFlight[r].super
    /\ orgs[o] \notin {NoRow, "default"}
    /\ orgs' = [orgs EXCEPT ![o] = NoRow]
    /\ End(r)
    /\ UNCHANGED <<focus, stage, accounts, records, servers, maker, updated>>

\* Nothing is done about the records of the organisation.
DeleteOrganization(r, o) ==
    /\ focus = "tenants" /\ Handling(r) /\ inFlight[r].super
    /\ orgs[o] \notin {NoRow, "default"} /\ Members(o) = {}
    /\ orgs' = [orgs EXCEPT ![o] = NoRow]
    /\ End(r)
    /\ UNCHANGED <<focus, stage, accounts, records, servers, maker, updated>>

\* The name the administrator is configured with is free once that account is
\* deleted.
CreateAccount(r, a, admin, configured) ==
    /\ focus = "tenants" /\ Handling(r) /\ inFlight[r].admin
    /\ configured => Configured = {}
    /\ a \in NextIds(accounts)
    /\ accounts' = [accounts EXCEPT ![a] =
           [configured |-> configured, super |-> FALSE, admin |-> admin, org |-> NoOrg]]
    /\ End(r)
    /\ UNCHANGED <<focus, stage, orgs, records, servers, maker, updated>>

Admins == {a \in Accounts : accounts[a] # NoRow /\ accounts[a].admin}

DeleteAccount(r, a) ==
    /\ focus = "tenants" /\ Handling(r) /\ inFlight[r].admin
    /\ accounts[a] # NoRow /\ a # inFlight[r].by
    /\ accounts[a].admin => Cardinality(Admins) > 1
    /\ accounts' = [accounts EXCEPT ![a] = NoRow]
    /\ maker' = [x \in Records |-> IF maker[x] = a THEN 0 ELSE maker[x]]
    /\ inFlight' = [inFlight EXCEPT ![r] = NoRow]
    /\ gone' = (gone \cup {q \in Requests : inFlight[q] # NoRow /\ inFlight[q].by = a}) \ {r}
    /\ UNCHANGED <<focus, stage, orgs, records, servers, updated>>

-----------------------------------------------------------------------------
(* Records *)

\* get_current_org is None for a super administrator, whose own organisation
\* is taken instead: _default_org_id is the account's organisation.
NewRecord(r, kind) == [kind |-> kind, org |-> inFlight[r].org]

\* filter_query_by_org: an account without organisation is not filtered.
SeenBy(q, row) == q.super \/ q.org = NoOrg \/ row.org = q.org

\* _validate_server_protocols, for every server of the payload.
OneProtocol(ss) ==
    \A i, j \in Slots : ss[i] # NoRow /\ ss[j] # NoRow /\ ss[j].enabled
                            => ss[i].protocol = ss[j].protocol

\* Each pool is filled in the focus that asks about its servers.
InFocus(ss) == focus = "tenants" => ss = NoServers

\* History: who made the record, unless that account was deleted meanwhile.
Made(r, x) == maker' = [maker EXCEPT ![x] = IF r \in gone THEN 0 ELSE inFlight[r].by]

CreatePool(r, x, ss) ==
    /\ Handling(r) /\ records[x] = NoRow /\ OneProtocol(ss) /\ InFocus(ss)
    /\ records' = [records EXCEPT ![x] = NewRecord(r, "pool")]
    /\ servers' = [servers EXCEPT ![x] = ss]
    /\ updated' = updated \ {x}
    /\ Made(r, x) /\ End(r)
    /\ UNCHANGED <<focus, stage, orgs, accounts>>

CreateRecipient(r, x) ==
    /\ focus = "tenants"
    /\ Handling(r) /\ inFlight[r].admin /\ records[x] = NoRow
    /\ records' = [records EXCEPT ![x] = NewRecord(r, "recipient")]
    /\ Made(r, x) /\ End(r)
    /\ UNCHANGED <<focus, stage, orgs, accounts, servers, updated>>

Removed(x) ==
    /\ records' = [records EXCEPT ![x] = NoRow]
    /\ servers' = [servers EXCEPT ![x] = NoServers]
    /\ maker' = [maker EXCEPT ![x] = 0]
    /\ updated' = updated \ {x}
    /\ UNCHANGED <<focus, stage, orgs, accounts>>

DeletePool(r, x) ==
    /\ Handling(r) /\ records[x] # NoRow /\ records[x].kind = "pool"
    /\ SeenBy(inFlight[r], records[x])
    /\ Removed(x) /\ End(r)

DeleteRecipient(r, x) ==
    /\ Handling(r) /\ records[x] # NoRow /\ records[x].kind = "recipient"
    /\ inFlight[r].admin /\ SeenBy(inFlight[r], records[x])
    /\ Removed(x) /\ End(r)

\* api/v1 with a token: the service has no user, so it filters nothing and
\* makes pools that have no organisation.
CreatePoolByToken(x) ==
    /\ focus = "tenants" /\ stage = "up" /\ records[x] = NoRow
    /\ records' = [records EXCEPT ![x] = [kind |-> "pool", org |-> NoOrg]]
    /\ UNCHANGED <<focus, stage, orgs, accounts, servers, inFlight, histVars>>

DeletePoolByToken(x) ==
    /\ focus = "tenants" /\ stage = "up" /\ records[x] # NoRow /\ records[x].kind = "pool"
    /\ Removed(x) /\ UNCHANGED <<inFlight, gone>>

-----------------------------------------------------------------------------
(* Servers of a pool *)

Reaches(r, x) ==
    Handling(r) /\ records[x] # NoRow /\ records[x].kind = "pool" /\ SeenBy(inFlight[r], records[x])

EnabledProtocols(x) ==
    {servers[x][i].protocol : i \in {j \in Slots : servers[x][j] # NoRow /\ servers[x][j].enabled}}

Put(r, x, i, row) ==
    /\ servers' = [servers EXCEPT ![x][i] = row]
    /\ End(r)
    /\ UNCHANGED <<focus, stage, orgs, accounts, records, maker>>

\* Mutant: the protocol of the new server is not among those compared.
CreateServerUnchecked(r, x, i, row) ==
    /\ focus = "servers" /\ Reaches(r, x) /\ servers[x][i] = NoRow
    /\ Cardinality(EnabledProtocols(x)) <= 1
    /\ Put(r, x, i, row) /\ UNCHANGED updated

CreateServer(r, x, i, row) ==
    /\ focus = "servers" /\ Reaches(r, x) /\ servers[x][i] = NoRow
    /\ Cardinality(EnabledProtocols(x) \cup {row.protocol}) = 1
    /\ Put(r, x, i, row) /\ UNCHANGED updated

\* update_server does not look at the other servers of the pool.
UpdateServer(r, x, i, row) ==
    /\ focus = "servers" /\ Reaches(r, x) /\ servers[x][i] # NoRow
    /\ Put(r, x, i, row) /\ updated' = updated \cup {x}

DeleteServer(r, x, i) ==
    /\ focus = "servers" /\ Reaches(r, x) /\ servers[x][i] # NoRow
    /\ Put(r, x, i, NoRow) /\ UNCHANGED updated

-----------------------------------------------------------------------------

Start == BootstrapOrganization \/ AssignOrphans \/ BootstrapAdmin

Organizations(r) ==
    \/ \E o \in Orgs, s \in Slugs : CreateOrganization(r, o, s) \/ UpdateOrganization(r, o, s)
    \/ \E o \in Orgs : DeleteOrganization(r, o)

Users(r) ==
    \E a \in Accounts :
        \/ Authorise(r, a) \/ DeleteAccount(r, a)
        \/ \E admin, configured \in BOOLEAN : CreateAccount(r, a, admin, configured)

Pools(r) == \E x \in Records :
    DeletePool(r, x) \/ \E ss \in [Slots -> Server \cup {NoRow}] : CreatePool(r, x, ss)

Recipients(r) == \E x \in Records : CreateRecipient(r, x) \/ DeleteRecipient(r, x)

Servers(r) == \E x \in Records, i \in Slots :
    \/ \E row \in Server : CreateServer(r, x, i, row) \/ UpdateServer(r, x, i, row)
    \/ DeleteServer(r, x, i)

Tokens == \E x \in Records : CreatePoolByToken(x) \/ DeletePoolByToken(x)

Next ==
    \/ Start \/ Crash \/ Tokens
    \/ \E r \in Requests :
          Organizations(r) \/ Users(r) \/ Pools(r) \/ Recipients(r) \/ Servers(r) \/ Refuse(r)

Spec == Init /\ [][Next]_vars

-----------------------------------------------------------------------------
(* Properties *)

\* Whatever is renamed, deleted and started in between, an account that
\* belongs to an organisation belongs to one that exists, though the database
\* does not see to it; and the organisation of a start is there until the
\* start is over.
AccountsHaveTheirOrganization ==
    /\ \A a \in Accounts : accounts[a] # NoRow /\ accounts[a].org # NoOrg => orgs[accounts[a].org] # NoRow
    /\ stage \in {"orphans", "admin"} => HasSlug("default")

\* An account never loses sight of what it made: starts hand accounts and
\* records over together, also when the default organisation is another one
\* than at the start before, and when the start is cut off.
MakersKeepSight ==
    \A x \in Records : maker[x] # 0 => SeenBy(accounts[maker[x]], records[x])

\* The enabled servers of a pool that is served use one protocol, unless a
\* server of the pool was updated: creating checks, updating does not.
MixedOnlyByUpdate ==
    \A x \in Records : Cardinality(EnabledProtocols(x)) > 1 => x \in updated

=============================================================================
