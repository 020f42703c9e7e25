--------------------------- MODULE TenancyProofs ----------------------------
(***************************************************************************)
(* Organisations never dangle, makers keep sight of what they made, and a  *)
(* pool gets two protocols only by an update: for any number of            *)
(* organisations, accounts, records, servers and requests.                 *)
(***************************************************************************)
EXTENDS Tenancy, FiniteSetTheorems, TLAPS

USE MaxOrgAssumption, MaxAccountAssumption, NoRowAssumption

\* A request acts on a copy of its account, and the account still is what the
\* copy says unless it was deleted: only a start changes organisations and
\* roles, and a start ends every request.
CopiesAreCurrent ==
    \A r \in Requests : inFlight[r] # NoRow =>
        /\ stage = "up"
        /\ r \notin gone =>
              /\ accounts[inFlight[r].by] # NoRow
              /\ accounts[inFlight[r].by].org = inFlight[r].org

\* MakersKeepSight is inductive in this form: the organisations are the same,
\* also when both have none.
MakersShareTheOrganization ==
    \A x \in Records : maker[x] # 0 =>
        /\ records[x] # NoRow /\ accounts[maker[x]] # NoRow
        /\ accounts[maker[x]].super \/ accounts[maker[x]].org = records[x].org

IInv == TypeOK /\ AccountsHaveTheirOrganization /\ CopiesAreCurrent /\ MakersShareTheOrganization

LEMMA DefaultOrgExists ==
  ASSUME TypeOK, HasSlug("default")
  PROVE  DefaultOrg \in Orgs /\ orgs[DefaultOrg] = "default"
  BY DEF HasSlug, DefaultOrg

LEMMA AdoptedAccount ==
  ASSUME NEW d \in Orgs, NEW row \in Account \cup {NoRow}
  PROVE  /\ Adopted(row, d) \in Account \cup {NoRow}
         /\ row = NoRow <=> Adopted(row, d) = NoRow
         /\ row # NoRow => /\ Adopted(row, d).org = IF row.org = NoOrg THEN d ELSE row.org
                           /\ Adopted(row, d).super = row.super
  BY DEF Adopted, Account

LEMMA AdoptedRecord ==
  ASSUME NEW d \in Orgs, NEW row \in Record \cup {NoRow}
  PROVE  /\ Adopted(row, d) \in Record \cup {NoRow}
         /\ row = NoRow <=> Adopted(row, d) = NoRow
         /\ row # NoRow => Adopted(row, d).org = IF row.org = NoOrg THEN d ELSE row.org
  BY DEF Adopted, Record

LEMMA InitIInv == Init => IInv
  BY DEF Init, IInv, TypeOK, AccountsHaveTheirOrganization, CopiesAreCurrent,
         MakersShareTheOrganization, Focuses, Accounts, NoServers

\* The steps of a start: no request is in flight then.
LEMMA StartIInv == IInv /\ (Start \/ Crash) => IInv'
<1> SUFFICES ASSUME IInv, Start \/ Crash PROVE IInv'
  OBVIOUS
<1> USE DEF IInv, TypeOK, AccountsHaveTheirOrganization, CopiesAreCurrent, MakersShareTheOrganization
<1>1. CASE BootstrapOrganization
  <2>1. /\ orgs' \in [Orgs -> Slugs \cup {NoRow}]
        /\ HasSlug("default")'
        /\ \A o \in Orgs : orgs[o] # NoRow => orgs'[o] # NoRow
    <3>1. NextIds(orgs) \subseteq Orgs /\ "default" \in Slugs /\ "default" # NoRow
      BY DEF NextIds, Slugs
    <3>2. CASE HasSlug("default") /\ orgs' = orgs
      BY <3>2 DEF HasSlug
    <3>3. CASE \E o \in NextIds(orgs) : orgs' = [orgs EXCEPT ![o] = "default"]
      BY <3>1, <3>3 DEF HasSlug
    <3> QED
      BY <1>1, <3>2, <3>3 DEF BootstrapOrganization
  <2>2. \A a \in Accounts : accounts[a] # NoRow => accounts[a].org \in Orgs \cup {NoOrg}
    BY DEF Account
  <2>3. TypeOK' /\ AccountsHaveTheirOrganization'
    BY <1>1, <2>1, <2>2 DEF BootstrapOrganization, histVars
  <2>4. CopiesAreCurrent' /\ MakersShareTheOrganization'
    BY <1>1 DEF BootstrapOrganization, histVars
  <2> QED
    BY <2>3, <2>4
<1>2. CASE AssignOrphans
  <2>1. DefaultOrg \in Orgs /\ orgs[DefaultOrg] = "default"
    BY <1>2, DefaultOrgExists DEF AssignOrphans
  <2>2. \A a \in Accounts : accounts'[a] = Adopted(accounts[a], DefaultOrg)
    BY <1>2 DEF AssignOrphans
  <2>3. \A x \in Records : records'[x] = Adopted(records[x], DefaultOrg)
    BY <1>2 DEF AssignOrphans
  <2>4. /\ accounts' \in [Accounts -> Account \cup {NoRow}]
        /\ records' \in [Records -> Record \cup {NoRow}]
    BY <1>2, <2>1, AdoptedAccount, AdoptedRecord DEF AssignOrphans
  <2>5. TypeOK'
    BY <1>2, <2>4 DEF AssignOrphans, histVars
  <2>6. AccountsHaveTheirOrganization'
    <3>1. orgs' = orgs /\ HasSlug("default")'
      BY <1>2 DEF AssignOrphans, HasSlug
    <3>2. ASSUME NEW a \in Accounts, accounts'[a] # NoRow, accounts'[a].org # NoOrg
          PROVE  orgs'[accounts'[a].org] # NoRow
      <4>1. accounts[a] # NoRow
            /\ accounts'[a].org = IF accounts[a].org = NoOrg THEN DefaultOrg ELSE accounts[a].org
        BY <2>1, <2>2, <3>2, AdoptedAccount
      <4>2. "default" # NoRow
        BY DEF Slugs
      <4> QED
        BY <2>1, <3>1, <4>1, <4>2
    <3> QED
      BY <3>1, <3>2
  <2>7. CopiesAreCurrent'
    BY <1>2 DEF AssignOrphans
  <2>8. MakersShareTheOrganization'
    BY <1>2, <2>1, <2>2, <2>3, AdoptedAccount, AdoptedRecord DEF AssignOrphans, histVars
  <2> QED
    BY <2>5, <2>6, <2>7, <2>8
<1>3. CASE BootstrapAdmin
  <2>1. DefaultOrg \in Orgs /\ orgs[DefaultOrg] = "default"
    BY <1>3, DefaultOrgExists DEF BootstrapAdmin
  <2>2. NewAdmin \in Account /\ NewAdmin.org = DefaultOrg /\ NewAdmin.super
    BY <2>1 DEF NewAdmin, Account
  <2>3. /\ accounts' \in [Accounts -> Account \cup {NoRow}]
        /\ \A a \in Accounts : accounts'[a] \in {accounts[a], NewAdmin}
    BY <1>3, <2>2 DEF BootstrapAdmin
  <2>4. NewAdmin # NoRow
    BY <2>2
  <2>5. CopiesAreCurrent'
    BY <1>3 DEF BootstrapAdmin
  <2>6. AccountsHaveTheirOrganization'
    BY <1>3, <2>1, <2>2, <2>3 DEF BootstrapAdmin, HasSlug, Slugs
  <2>7. MakersShareTheOrganization'
    BY <1>3, <2>2, <2>3, <2>4 DEF BootstrapAdmin, histVars
  <2> QED
    BY <1>3, <2>3, <2>5, <2>6, <2>7 DEF BootstrapAdmin, histVars
<1>4. CASE Crash
  BY <1>4 DEF Crash, dbVars
<1> QED
  BY <1>1, <1>2, <1>3, <1>4 DEF Start

\* Requests about organisations and accounts.
LEMMA OrganizationsIInv ==
  ASSUME IInv, NEW r \in Requests, Organizations(r)
  PROVE  IInv'
<1> USE DEF IInv, TypeOK, AccountsHaveTheirOrganization, CopiesAreCurrent, MakersShareTheOrganization
<1>1. stage' = stage /\ stage = "up" /\ inFlight[r] # NoRow
  BY DEF Organizations, CreateOrganization, UpdateOrganization, DeleteOrganization, Handling
<1>2. /\ UNCHANGED <<focus, accounts, records, servers, maker, updated>>
      /\ inFlight' = [inFlight EXCEPT ![r] = NoRow]
      /\ gone' = gone \ {r}
  BY DEF Organizations, CreateOrganization, UpdateOrganization, DeleteOrganization, End
<1>3. /\ orgs' \in [Orgs -> Slugs \cup {NoRow}]
      /\ \A o \in Orgs : orgs[o] # NoRow /\ orgs'[o] = NoRow => Members(o) = {}
  <2>1. ASSUME NEW o \in Orgs, NEW s \in Slugs, CreateOrganization(r, o, s) \/ UpdateOrganization(r, o, s)
        PROVE  orgs' = [orgs EXCEPT ![o] = s] /\ s # NoRow
    BY <2>1 DEF CreateOrganization, UpdateOrganization
  <2>2. ASSUME NEW o \in Orgs, DeleteOrganization(r, o)
        PROVE  orgs' = [orgs EXCEPT ![o] = NoRow] /\ Members(o) = {}
    BY <2>2 DEF DeleteOrganization
  <2> QED
    BY <2>1, <2>2 DEF Organizations
<1>4. AccountsHaveTheirOrganization'
  <2>1. \A a \in Accounts : accounts[a] # NoRow => accounts[a].org \in Orgs \cup {NoOrg}
    BY DEF Account
  <2> QED
    BY <1>1, <1>2, <1>3, <2>1 DEF Members
<1>5. CopiesAreCurrent' /\ MakersShareTheOrganization'
  BY <1>1, <1>2
<1> QED
  BY <1>1, <1>2, <1>3, <1>4, <1>5

LEMMA UsersIInv ==
  ASSUME IInv, NEW r \in Requests, Users(r)
  PROVE  IInv'
<1> USE DEF IInv, TypeOK, AccountsHaveTheirOrganization, CopiesAreCurrent, MakersShareTheOrganization
<1>1. ASSUME NEW a \in Accounts, Authorise(r, a) PROVE IInv'
  <2> DEFINE copy == [by |-> a, super |-> accounts[a].super, admin |-> accounts[a].admin, org |-> accounts[a].org]
  <2>1. accounts[a] \in Account
    BY <1>1 DEF Authorise
  <2>2. copy \in Snapshot /\ copy # NoRow
    BY <2>1 DEF Account, Snapshot
  <2>3. inFlight' = [inFlight EXCEPT ![r] = copy] /\ stage = "up"
        /\ UNCHANGED <<focus, stage, orgs, accounts, records, servers, maker, gone, updated>>
    BY <1>1 DEF Authorise, dbVars, histVars
  <2>4. copy.by = a /\ copy.org = accounts[a].org /\ accounts[a] # NoRow
    BY <2>1
  <2> HIDE DEF copy
  <2> QED
    BY <2>2, <2>3, <2>4 DEF HasSlug
<1>2. ASSUME NEW a \in Accounts, DeleteAccount(r, a) PROVE IInv'
  <2>1. /\ accounts' = [accounts EXCEPT ![a] = NoRow]
        /\ maker' = [x \in Records |-> IF maker[x] = a THEN 0 ELSE maker[x]]
        /\ inFlight' = [inFlight EXCEPT ![r] = NoRow]
        /\ gone' = (gone \cup {q \in Requests : inFlight[q] # NoRow /\ inFlight[q].by = a}) \ {r}
        /\ UNCHANGED <<focus, stage, orgs, records, servers, updated>>
    BY <1>2 DEF DeleteAccount
  <2>2. \A q \in Requests : inFlight[q] # NoRow => inFlight[q].by \in Accounts
    BY DEF Snapshot
  <2>3. TypeOK' /\ AccountsHaveTheirOrganization'
    BY <2>1 DEF HasSlug
  <2>4. CopiesAreCurrent'
    BY <2>1, <2>2
  <2>5. MakersShareTheOrganization'
    BY <2>1 DEF Accounts
  <2> QED
    BY <2>3, <2>4, <2>5
<1>3. ASSUME NEW a \in Accounts, NEW admin \in BOOLEAN, NEW configured \in BOOLEAN,
             CreateAccount(r, a, admin, configured)
      PROVE  IInv'
  <2> DEFINE new == [configured |-> configured, super |-> FALSE, admin |-> admin, org |-> NoOrg]
  <2>a. new \in Account /\ new.org = NoOrg
    BY DEF Account
  <2>1. new \in Account /\ new.org = NoOrg /\ new # NoRow
    <3> HIDE DEF new
    <3> QED
      BY <2>a
  <2>2. accounts[a] = NoRow
    BY <1>3 DEF CreateAccount, NextIds, Accounts
  <2>3. /\ accounts' = [accounts EXCEPT ![a] = new]
        /\ inFlight' = [inFlight EXCEPT ![r] = NoRow]
        /\ gone' = gone \ {r}
        /\ UNCHANGED <<focus, stage, orgs, records, servers, maker, updated>>
    BY <1>3 DEF CreateAccount, End
  <2> HIDE DEF new
  <2>4. \A q \in Requests : inFlight[q] # NoRow => inFlight[q].by \in Accounts
    BY DEF Snapshot
  <2>5. TypeOK' /\ AccountsHaveTheirOrganization'
    BY <2>1, <2>3 DEF HasSlug
  <2>6. CopiesAreCurrent'
    BY <2>2, <2>3, <2>4
  <2>7. MakersShareTheOrganization'
    BY <2>2, <2>3
  <2> QED
    BY <2>5, <2>6, <2>7
<1> QED
  BY <1>1, <1>2, <1>3 DEF Users

\* Records: a new one has the organisation of the copy, which its maker has.
LEMMA PoolsIInv ==
  ASSUME IInv, NEW r \in Requests, Pools(r) \/ Recipients(r) \/ Servers(r)
  PROVE  IInv'
<1> USE DEF IInv, TypeOK, AccountsHaveTheirOrganization, CopiesAreCurrent, MakersShareTheOrganization
<1>1. ASSUME NEW x \in Records, NEW kind \in {"pool", "recipient"},
             records' = [records EXCEPT ![x] = NewRecord(r, kind)], Made(r, x), End(r), Handling(r),
             servers' \in [Records -> [Slots -> Server \cup {NoRow}]], updated' \subseteq Records,
             UNCHANGED <<focus, stage, orgs, accounts>>
      PROVE  IInv'
  <2>1. inFlight[r] \in Snapshot
    BY <1>1 DEF Handling
  <2>2. NewRecord(r, kind) \in Record /\ NewRecord(r, kind).org = inFlight[r].org
    BY <2>1 DEF NewRecord, Record, Snapshot
  <2>3. NewRecord(r, kind) # NoRow
    BY <2>2
  <2>4. inFlight[r].by \in Accounts
    BY <2>1 DEF Snapshot
  <2>5. TypeOK' /\ AccountsHaveTheirOrganization'
    BY <1>1, <2>2, <2>4 DEF Made, End, HasSlug
  <2>6. CopiesAreCurrent'
    BY <1>1 DEF End
  <2>7. MakersShareTheOrganization'
    BY <1>1, <2>2, <2>3, <2>4 DEF Made, Handling
  <2> QED
    BY <2>5, <2>6, <2>7
<1>2. ASSUME NEW x \in Records, Removed(x), End(r) \/ UNCHANGED <<inFlight, gone>> PROVE IInv'
  BY <1>2 DEF Removed, End, NoServers, HasSlug
<1>3. ASSUME NEW x \in Records, NEW i \in Slots, NEW row \in Server \cup {NoRow}, Put(r, x, i, row),
             updated' \subseteq Records
      PROVE  IInv'
  BY <1>3 DEF Put, End, HasSlug
<1>4. ASSUME NEW x \in Records, NEW ss \in [Slots -> Server \cup {NoRow}], CreatePool(r, x, ss) PROVE IInv'
  BY <1>1, <1>4 DEF CreatePool
<1>5. ASSUME NEW x \in Records, CreateRecipient(r, x) PROVE IInv'
  BY <1>1, <1>5 DEF CreateRecipient
<1>6. ASSUME NEW x \in Records, DeletePool(r, x) \/ DeleteRecipient(r, x) PROVE IInv'
  BY <1>2, <1>6 DEF DeletePool, DeleteRecipient
<1>7. ASSUME NEW x \in Records, NEW i \in Slots, NEW row \in Server,
             CreateServer(r, x, i, row) \/ UpdateServer(r, x, i, row)
      PROVE  IInv'
  BY <1>3, <1>7 DEF CreateServer, UpdateServer
<1>8. ASSUME NEW x \in Records, NEW i \in Slots, DeleteServer(r, x, i) PROVE IInv'
  BY <1>3, <1>8 DEF DeleteServer
<1> QED
  BY <1>4, <1>5, <1>6, <1>7, <1>8 DEF Pools, Recipients, Servers

LEMMA TokensIInv == ASSUME IInv, Tokens PROVE IInv'
<1> USE DEF IInv, TypeOK, AccountsHaveTheirOrganization, CopiesAreCurrent, MakersShareTheOrganization
<1>1. ASSUME NEW x \in Records, CreatePoolByToken(x) PROVE IInv'
  <2>1. [kind |-> "pool", org |-> NoOrg] \in Record
    BY DEF Record
  <2> QED
    BY <1>1, <2>1 DEF CreatePoolByToken, histVars, HasSlug
<1>2. ASSUME NEW x \in Records, DeletePoolByToken(x) PROVE IInv'
  BY <1>2 DEF DeletePoolByToken, Removed, NoServers, HasSlug
<1> QED
  BY <1>1, <1>2 DEF Tokens

LEMMA NextIInv == IInv /\ [Next]_vars => IInv'
<1> SUFFICES ASSUME IInv, [Next]_vars PROVE IInv'
  OBVIOUS
<1>1. CASE Start \/ Crash
  BY <1>1, StartIInv
<1>2. CASE Tokens
  BY <1>2, TokensIInv
<1>3. ASSUME NEW r \in Requests, 
             Organizations(r) \/ Users(r) \/ Pools(r) \/ Recipients(r) \/ Servers(r)
      PROVE  IInv'
  BY <1>3, OrganizationsIInv, UsersIInv, PoolsIInv
<1>4. ASSUME NEW r \in Requests, Refuse(r) PROVE IInv'
  BY <1>4 DEF Refuse, End, dbVars, IInv, TypeOK, AccountsHaveTheirOrganization, CopiesAreCurrent,
              MakersShareTheOrganization, HasSlug
<1>5. CASE UNCHANGED vars
  BY <1>5 DEF vars, IInv, TypeOK, AccountsHaveTheirOrganization, CopiesAreCurrent,
              MakersShareTheOrganization, HasSlug
<1> QED
  BY <1>1, <1>2, <1>3, <1>4, <1>5 DEF Next

\* Every table and every copy of an account has its type (models/, db.py).
THEOREM TenancyTypeCorrect == Spec => []TypeOK
<1>1. IInv => TypeOK
  BY DEF IInv
<1> QED
  BY InitIInv, NextIInv, <1>1, PTL DEF Spec

\* No account is ever left in an organisation that was deleted, although the
\* database enforces no foreign keys (organization_service.py).
THEOREM OrganizationsNeverDangle == Spec => []AccountsHaveTheirOrganization
<1>1. IInv => AccountsHaveTheirOrganization
  BY DEF IInv
<1> QED
  BY InitIInv, NextIInv, <1>1, PTL DEF Spec

\* Who made a pool or a recipient can read and change it as long as the
\* account exists (tenant_context.py).
THEOREM MakersAlwaysKeepSight == Spec => []MakersKeepSight
<1>1. IInv => MakersKeepSight
  BY DEF IInv, MakersShareTheOrganization, MakersKeepSight, SeenBy
<1> QED
  BY InitIInv, NextIInv, <1>1, PTL DEF Spec

-----------------------------------------------------------------------------
(* The protocols of a pool *)

Enabled(x) == {j \in Slots : servers[x][j] # NoRow /\ servers[x][j].enabled}

\* Inductive form of MixedOnlyByUpdate, without cardinalities.
UnmixedUnlessUpdated ==
    \A x \in Records \ updated : \A i, j \in Enabled(x) : servers[x][i].protocol = servers[x][j].protocol

LEMMA ProtocolsFinite ==
  ASSUME TypeOK, NEW x \in Records
  PROVE  EnabledProtocols(x) \subseteq Protocols /\ IsFiniteSet(EnabledProtocols(x)) /\ IsFiniteSet(Protocols)
<1>1. EnabledProtocols(x) \subseteq Protocols
  BY DEF EnabledProtocols, TypeOK, Server
<1>2. IsFiniteSet({"http"}) /\ IsFiniteSet({"http", "https"})
  <2>1. IsFiniteSet({"http"})
    BY FS_Singleton
  <2>2. {"http", "https"} = {"http"} \cup {"https"}
    OBVIOUS
  <2> QED
    BY <2>1, <2>2, FS_AddElement
<1> QED
  BY <1>1, <1>2, FS_Subset DEF Protocols

LEMMA InitUnmixed == Init => UnmixedUnlessUpdated
  BY DEF Init, UnmixedUnlessUpdated, Enabled, NoServers

\* A pool whose servers stay, and is not forgotten to have been updated.
LEMMA PoolStays ==
  ASSUME UnmixedUnlessUpdated, NEW x \in Records, servers'[x] = servers[x], x \in updated => x \in updated'
  PROVE  x \notin updated' =>
            \A i, j \in Enabled(x)' : servers'[x][i].protocol = servers'[x][j].protocol
  BY DEF UnmixedUnlessUpdated, Enabled

LEMMA EmptyPool ==
  ASSUME NEW x \in Records, servers'[x] = NoServers
  PROVE  \A i, j \in Enabled(x)' : servers'[x][i].protocol = servers'[x][j].protocol
  BY DEF Enabled, NoServers

\* Each of the servers a save leaves enabled was compared with the others.
LEMMA ServersUnmixed ==
  ASSUME TypeOK, UnmixedUnlessUpdated, NEW r \in Requests, Servers(r)
  PROVE  UnmixedUnlessUpdated'
<1>1. ASSUME NEW x \in Records, NEW i \in Slots, NEW row \in Server, CreateServer(r, x, i, row)
      PROVE  UnmixedUnlessUpdated'
  <2>1. /\ servers' = [servers EXCEPT ![x][i] = row] /\ updated' = updated
        /\ Cardinality(EnabledProtocols(x) \cup {row.protocol}) = 1
    BY <1>1 DEF CreateServer, Put
  <2>2. servers'[x] = [servers[x] EXCEPT ![i] = row] /\ \A y \in Records \ {x} : servers'[y] = servers[y]
    BY <2>1 DEF TypeOK
  <2>3. EnabledProtocols(x) \subseteq {row.protocol}
    <3> DEFINE both == EnabledProtocols(x) \cup {row.protocol}
    <3>1. IsFiniteSet(both)
      BY ProtocolsFinite, FS_AddElement
    <3>2. Cardinality(both) = 1 => \E p : both = {p}
      BY <3>1, FS_Singleton
    <3>3. PICK p : both = {p}
      BY <2>1, <3>2
    <3> QED
      BY <3>3
  <2>4. \A j \in Enabled(x)' : servers'[x][j].protocol = row.protocol
    <3> SUFFICES ASSUME NEW j \in Enabled(x)' PROVE servers'[x][j].protocol = row.protocol
      OBVIOUS
    <3>1. j \in Slots /\ servers'[x][j] # NoRow /\ servers'[x][j].enabled
      BY DEF Enabled
    <3>2. servers[x] \in [Slots -> Server \cup {NoRow}]
      BY DEF TypeOK
    <3>3. CASE j = i
      BY <2>2, <3>2, <3>3
    <3>4. CASE j # i
      <4>1. servers'[x][j] = servers[x][j]
        BY <2>2, <3>1, <3>2, <3>4
      <4>2. servers[x][j].protocol \in EnabledProtocols(x)
        BY <3>1, <4>1 DEF EnabledProtocols
      <4> QED
        BY <2>3, <4>1, <4>2
    <3> QED
      BY <3>3, <3>4
  <2>5. ASSUME NEW y \in Records \ updated'
        PROVE  \A k, j \in Enabled(y)' : servers'[y][k].protocol = servers'[y][j].protocol
    <3>1. CASE y = x
      BY <2>4, <3>1
    <3>2. CASE y # x
      BY <2>1, <2>2, <3>2, PoolStays
    <3> QED
      BY <3>1, <3>2
  <2> QED
    BY <2>5 DEF UnmixedUnlessUpdated
<1>2. ASSUME NEW x \in Records, NEW i \in Slots, NEW row \in Server, UpdateServer(r, x, i, row)
      PROVE  UnmixedUnlessUpdated'
  <2>1. servers' = [servers EXCEPT ![x][i] = row] /\ updated' = updated \cup {x}
    BY <1>2 DEF UpdateServer, Put
  <2>2. \A y \in Records \ updated' : servers'[y] = servers[y]
    BY <2>1 DEF TypeOK
  <2> QED
    BY <2>1, <2>2, PoolStays DEF UnmixedUnlessUpdated
<1>3. ASSUME NEW x \in Records, NEW i \in Slots, DeleteServer(r, x, i)
      PROVE  UnmixedUnlessUpdated'
  <2>1. servers' = [servers EXCEPT ![x][i] = NoRow] /\ updated' = updated
    BY <1>3 DEF DeleteServer, Put
  <2>2. \A y \in Records, j \in Slots : servers'[y][j] \in {NoRow, servers[y][j]}
    BY <2>1 DEF TypeOK
  <2> QED
    BY <2>1, <2>2 DEF UnmixedUnlessUpdated, Enabled
<1> QED
  BY <1>1, <1>2, <1>3 DEF Servers

LEMMA NextUnmixed == TypeOK /\ UnmixedUnlessUpdated /\ [Next]_vars => UnmixedUnlessUpdated'
<1> SUFFICES ASSUME TypeOK, UnmixedUnlessUpdated, [Next]_vars PROVE UnmixedUnlessUpdated'
  OBVIOUS
<1>1. ASSUME UNCHANGED <<servers, updated>> PROVE UnmixedUnlessUpdated'
  BY <1>1 DEF UnmixedUnlessUpdated, Enabled
<1>2. ASSUME NEW x \in Records, Removed(x) PROVE UnmixedUnlessUpdated'
  <2>1. /\ servers'[x] = NoServers /\ \A y \in Records \ {x} : servers'[y] = servers[y]
        /\ updated' = updated \ {x}
    BY <1>2 DEF Removed, TypeOK
  <2>2. ASSUME NEW y \in Records \ updated'
        PROVE  \A i, j \in Enabled(y)' : servers'[y][i].protocol = servers'[y][j].protocol
    <3>1. CASE y = x
      BY <2>1, <3>1, EmptyPool
    <3>2. CASE y # x
      BY <2>1, <3>2, PoolStays
    <3> QED
      BY <3>1, <3>2
  <2> QED
    BY <2>2 DEF UnmixedUnlessUpdated
<1>3. ASSUME NEW r \in Requests, NEW x \in Records, NEW ss \in [Slots -> Server \cup {NoRow}], CreatePool(r, x, ss)
      PROVE  UnmixedUnlessUpdated'
  <2>1. /\ servers'[x] = ss /\ \A y \in Records \ {x} : servers'[y] = servers[y]
        /\ updated' = updated \ {x} /\ OneProtocol(ss)
    BY <1>3 DEF CreatePool, TypeOK
  <2>2. ASSUME NEW y \in Records \ updated'
        PROVE  \A i, j \in Enabled(y)' : servers'[y][i].protocol = servers'[y][j].protocol
    <3>1. CASE y = x
      BY <2>1, <3>1 DEF Enabled, OneProtocol
    <3>2. CASE y # x
      BY <2>1, <3>2, PoolStays
    <3> QED
      BY <3>1, <3>2
  <2> QED
    BY <2>2 DEF UnmixedUnlessUpdated
<1>4. CASE Start \/ Crash
  BY <1>1, <1>4 DEF Start, BootstrapOrganization, AssignOrphans, BootstrapAdmin, Crash, dbVars, histVars
<1>5. CASE Tokens
  <2>1. ASSUME NEW x \in Records, CreatePoolByToken(x) PROVE UnmixedUnlessUpdated'
    BY <1>1, <2>1 DEF CreatePoolByToken, histVars
  <2> QED
    BY <1>2, <1>5, <2>1 DEF Tokens, DeletePoolByToken
<1>6. ASSUME NEW r \in Requests, Organizations(r) PROVE UnmixedUnlessUpdated'
  BY <1>1, <1>6 DEF Organizations, CreateOrganization, UpdateOrganization, DeleteOrganization
<1>7. ASSUME NEW r \in Requests, Users(r) PROVE UnmixedUnlessUpdated'
  BY <1>1, <1>7 DEF Users, Authorise, DeleteAccount, CreateAccount, dbVars, histVars
<1>8. ASSUME NEW r \in Requests, Pools(r) PROVE UnmixedUnlessUpdated'
  BY <1>2, <1>3, <1>8 DEF Pools, DeletePool
<1>9. ASSUME NEW r \in Requests, Recipients(r) PROVE UnmixedUnlessUpdated'
  BY <1>1, <1>2, <1>9 DEF Recipients, CreateRecipient, DeleteRecipient
<1>10. ASSUME NEW r \in Requests, Refuse(r) PROVE UnmixedUnlessUpdated'
  BY <1>1, <1>10 DEF Refuse, dbVars
<1>11. CASE UNCHANGED vars
  BY <1>1, <1>11 DEF vars
<1> QED
  BY <1>4, <1>5, <1>6, <1>7, <1>8, <1>9, <1>10, <1>11, ServersUnmixed DEF Next

\* Two protocols among the enabled servers of a pool come from update_server
\* alone: create_pool and create_server compare, deleting only takes away
\* (backend_pool_service.py), and the id of a deleted pool starts anew.
THEOREM PoolsMixOnlyByUpdate == Spec => []MixedOnlyByUpdate
<1>1. TypeOK /\ UnmixedUnlessUpdated => MixedOnlyByUpdate
  <2> SUFFICES ASSUME TypeOK, NEW x \in Records, x \notin updated, UnmixedUnlessUpdated
               PROVE  ~(Cardinality(EnabledProtocols(x)) > 1)
    BY DEF MixedOnlyByUpdate
  <2>1. \E p \in Protocols : EnabledProtocols(x) \subseteq {p}
    <3>1. CASE Enabled(x) = {}
      BY <3>1 DEF EnabledProtocols, Enabled, Protocols
    <3>2. CASE Enabled(x) # {}
      <4>1. PICK i \in Enabled(x) : TRUE
        BY <3>2
      <4>2. servers[x][i] \in Server
        BY <4>1 DEF Enabled, TypeOK
      <4>3. EnabledProtocols(x) \subseteq {servers[x][i].protocol}
        BY <4>1 DEF UnmixedUnlessUpdated, Enabled, EnabledProtocols
      <4> QED
        BY <4>2, <4>3 DEF Server
    <3> QED
      BY <3>1, <3>2
  <2>2. PICK p \in Protocols : EnabledProtocols(x) \in SUBSET {p}
    BY <2>1
  <2>3. IsFiniteSet({p}) /\ Cardinality({p}) = 1
    BY FS_Singleton
  <2>4. Cardinality(EnabledProtocols(x)) <= 1 /\ Cardinality(EnabledProtocols(x)) \in Nat
    BY <2>2, <2>3, FS_Subset, FS_CardinalityType
  <2> QED
    BY <2>4
<1> QED
  BY TenancyTypeCorrect, InitUnmixed, NextUnmixed, <1>1, PTL DEF Spec

=============================================================================
