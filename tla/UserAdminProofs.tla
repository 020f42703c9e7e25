---------------------------- MODULE UserAdminProofs ----------------------------
(***************************************************************************)
(* What the guards of user_service.py guarantee, for any number of         *)
(* accounts and of overlapping requests.                                   *)
(***************************************************************************)
EXTENDS UserAdmin, FiniteSetTheorems, TLAPS

\* What get_current_user and require_admin saw: an active administrator, with
\* the permissions that administrators have.
AuthorisedAsAdmin == \A r \in Requests : auth[r] # NoAuth =>
    auth[r].row.active = TRUE /\ auth[r].row.admin = TRUE /\ auth[r].row.edit = TRUE

\* AdminsHaveAllPermissions is inductive only together with what the requests
\* in flight hold, because an update computes from that row.
PermInv == TypeOK /\ AuthorisedAsAdmin /\ AdminsHaveAllPermissions

\* Somebody else is an active administrator whenever the count says so.
LEMMA AnotherOne ==
  ASSUME NEW u, NotLastAdmin
  PROVE  \E v \in ActiveAdmins : v # u
<1> SUFFICES ASSUME ActiveAdmins \subseteq {u} PROVE FALSE
  OBVIOUS
<1>1. IsFiniteSet({u}) /\ Cardinality({u}) = 1
  BY FS_Singleton
<1>2. IsFiniteSet(ActiveAdmins) /\ Cardinality(ActiveAdmins) <= Cardinality({u})
  BY <1>1, FS_Subset
<1>3. Cardinality(ActiveAdmins) \in Nat
  BY <1>2, FS_CardinalityType
<1> QED
  BY <1>1, <1>2, <1>3 DEF NotLastAdmin

\* The object after the assignments is a row; an administrator in it has every
\* permission.
LEMMA ChangedRow ==
  ASSUME NEW old \in Row, NEW p \in Payload
  PROVE  Changed(old, p) \in Row /\ (Changed(old, p).admin => Changed(old, p).edit)
  BY UserConstants DEF Changed, Row, Payload, Option, Given

LEMMA FlushedRow ==
  ASSUME NEW old \in Row, NEW new \in Row, NEW row \in Row
  PROVE  Flushed(old, new, row) \in Row
  BY DEF Flushed, Row

\* What the session holds of an existing user is a row, with every permission
\* if it is an administrator's.
LEMMA LoadedRow ==
  ASSUME PermInv, NEW r \in Requests, auth[r] # NoAuth, NEW u \in Ids, Exists(u)
  PROVE  Loaded(r, u) \in Row /\ (Loaded(r, u).admin => Loaded(r, u).edit)
  BY DEF PermInv, TypeOK, Auth, Loaded, Exists, AuthorisedAsAdmin, AdminsHaveAllPermissions

LEMMA InitPermInv == Init => PermInv
  BY UserConstants DEF Init, PermInv, TypeOK, AuthorisedAsAdmin, AdminsHaveAllPermissions,
                       NewAdmin, Row, Exists

LEMMA NextPermInv == PermInv /\ [Next]_vars => PermInv'
<1> SUFFICES ASSUME PermInv, [Next]_vars PROVE PermInv'
  OBVIOUS
<1> USE UserConstants DEF PermInv, TypeOK, AuthorisedAsAdmin, AdminsHaveAllPermissions, Exists
<1>1. CASE Crash
  BY <1>1 DEF Crash
<1>2. CASE Bootstrap
  <2>1. \E u \in Ids, row \in Row :
          /\ users' = [users EXCEPT ![u] = row]
          /\ row.admin => row.edit
    <3>1. CASE ~NameTaken /\ \E u \in Ids : users' = [users EXCEPT ![u] = NewAdmin]
      <4>1. NewAdmin \in Row /\ NewAdmin.edit
        BY DEF NewAdmin, Row
      <4> QED
        BY <3>1, <4>1
    <3>2. ASSUME NEW u \in Ids, Exists(u),
                 users' = [users EXCEPT ![u] = IF @.admin THEN @ ELSE Promoted(@)]
          PROVE  \E v \in Ids, row \in Row :
                   /\ users' = [users EXCEPT ![v] = row]
                   /\ row.admin => row.edit
      <4>1. users[u] \in Row /\ (users[u].admin => users[u].edit)
        BY <3>2
      <4>2. Promoted(users[u]) \in Row /\ Promoted(users[u]).edit
        BY <4>1 DEF Promoted, Row
      <4> DEFINE new == IF users[u].admin THEN users[u] ELSE Promoted(users[u])
      <4>3. new \in Row /\ (new.admin => new.edit)
        BY <4>1, <4>2
      <4>4. users' = [users EXCEPT ![u] = new]
        BY <3>2
      <4> HIDE DEF new
      <4> QED
        BY <4>3, <4>4
    <3> QED
      BY <1>2, <3>1, <3>2 DEF Bootstrap
  <2>2. auth' = auth /\ up' = TRUE
    BY <1>2 DEF Bootstrap
  <2> QED
    BY <2>1, <2>2
<1>3. ASSUME NEW r \in Requests, Authorise(r) PROVE PermInv'
  BY <1>3 DEF Authorise, ActiveAdmins, Auth, Row
<1>4. ASSUME NEW r \in Requests, CreateUser(r) PROVE PermInv'
  BY <1>4 DEF CreateUser, Done, Promoted, Row
<1>5. ASSUME NEW r \in Requests, UpdateUser(r) PROVE PermInv'
  <2>1. PICK u \in Ids, p \in Payload :
          /\ Exists(u)
          /\ users' = [users EXCEPT ![u] = Flushed(Loaded(r, u), Changed(Loaded(r, u), p), @)]
    BY <1>5 DEF UpdateUser
  <2> DEFINE old == Loaded(r, u)
             new == Changed(old, p)
  <2>2. auth[r] # NoAuth /\ auth' = [auth EXCEPT ![r] = NoAuth] /\ up' = up
    BY <1>5 DEF UpdateUser, Done
  <2>3. old \in Row /\ (old.admin => old.edit)
    BY <2>1, <2>2, LoadedRow
  <2>4. new \in Row /\ (new.admin => new.edit)
    BY <2>3, ChangedRow
  <2>5. users[u] \in Row /\ (users[u].admin => users[u].edit)
    BY <2>1
  <2>6. Flushed(old, new, users[u]) \in Row
    BY <2>3, <2>4, <2>5, FlushedRow
  <2>7. Flushed(old, new, users[u]).admin => Flushed(old, new, users[u]).edit
    BY <2>2, <2>3, <2>4, <2>5 DEF Flushed, Row, Loaded, Auth
  <2>8. TypeOK' /\ AuthorisedAsAdmin'
    BY <2>1, <2>2, <2>6
  <2>9. AdminsHaveAllPermissions'
    BY <2>1, <2>7
  <2> QED
    BY <2>8, <2>9
<1>6. ASSUME NEW r \in Requests, DeleteUser(r) PROVE PermInv'
  BY <1>6 DEF DeleteUser, Done
<1>7. ASSUME NEW r \in Requests, Refuse(r) PROVE PermInv'
  BY <1>7 DEF Refuse, Done
<1>8. CASE UNCHANGED vars
  BY <1>8 DEF vars
<1> QED
  BY <1>1, <1>2, <1>3, <1>4, <1>5, <1>6, <1>7, <1>8 DEF Next, Body

\* The inductive invariant: the tables are well formed, and so are the rows the
\* running requests hold; an administrator in either has every permission.
THEOREM PermInvHolds == Spec => []PermInv
  BY InitPermInv, NextPermInv, PTL DEF Spec

\* The tables are well formed in every reachable state.
THEOREM UsersTypeOK == Spec => []TypeOK
<1>1. PermInv => TypeOK
  BY DEF PermInv
<1> QED
  BY <1>1, PermInvHolds, PTL

\* However requests overlap, an administrator has every permission: an update
\* from an outdated row never leaves an administrator without one.
THEOREM AdminsComplete == Spec => []AdminsHaveAllPermissions
<1>1. PermInv => AdminsHaveAllPermissions
  BY DEF PermInv
<1> QED
  BY <1>1, PermInvHolds, PTL

-----------------------------------------------------------------------------
(* The action properties *)

\* A request that updates its own user, and holds it as an administrator, takes
\* the right away only on the count's word, and never switches the user off.
LEMMA OwnUpdate ==
  ASSUME NEW old \in Row, old.admin = TRUE, old.active = TRUE,
         NEW p \in Payload, NEW row \in Row, Changed(old, p).active
  PROVE  /\ Flushed(old, Changed(old, p), row).active <=> row.active
         /\ Flushed(old, Changed(old, p), row).admin => row.admin
         /\ p.admin # FALSE => (Flushed(old, Changed(old, p), row).admin <=> row.admin)
  BY UserConstants DEF Changed, Flushed, Row, Payload, Option, Given

LEMMA KeepAnAdminStep ==
  ASSUME PermInv, Next, NEW r \in Requests, Ends(r), auth[r].user \in ActiveAdmins
  PROVE  ActiveAdmins' # {}
<1> USE UserConstants DEF Exists
<1> DEFINE me == auth[r].user
<1>0. /\ auth[r] \in Auth /\ me \in Ids
      /\ auth[r].row \in Row /\ auth[r].row.admin = TRUE /\ auth[r].row.active = TRUE
      /\ users[me] \in Row /\ users[me].active /\ users[me].admin
      /\ users \in [Ids -> Row \cup {NoUser}]
  BY DEF PermInv, TypeOK, AuthorisedAsAdmin, Ends, Auth, ActiveAdmins
<1>1. CASE Crash
  BY <1>1, <1>0 DEF Crash, ActiveAdmins
<1>2. CASE Bootstrap
  BY <1>2, <1>0 DEF Bootstrap, Ends
<1>3. ASSUME NEW q \in Requests, q # r, Authorise(q) \/ Body(q) PROVE FALSE
  <2>1. \E x : auth' = [auth EXCEPT ![q] = x]
    BY <1>3 DEF Authorise, Body, CreateUser, UpdateUser, DeleteUser, Refuse, Done
  <2> QED
    BY <2>1, <1>3 DEF Ends, PermInv, TypeOK
<1>4. ASSUME Authorise(r) PROVE FALSE
  BY <1>4 DEF Authorise, Ends
<1>5. CASE CreateUser(r)
  BY <1>5, <1>0 DEF CreateUser, ActiveAdmins
<1>6. CASE UpdateUser(r)
  <2>1. PICK u \in Ids, p \in Payload :
          /\ Loaded(r, u).admin /\ p.admin = FALSE => NotLastAdmin
          /\ u = me => Changed(Loaded(r, u), p).active
          /\ users' = [users EXCEPT ![u] = Flushed(Loaded(r, u), Changed(Loaded(r, u), p), @)]
    BY <1>6 DEF UpdateUser
  <2>2. CASE u # me
    BY <2>1, <2>2, <1>0 DEF ActiveAdmins
  <2>3. CASE u = me /\ p.admin # FALSE
    <3>0. Loaded(r, u) = auth[r].row /\ Changed(auth[r].row, p).active
      BY <2>1, <2>3 DEF Loaded
    <3>1. /\ Flushed(auth[r].row, Changed(auth[r].row, p), users[me]).active <=> users[me].active
          /\ Flushed(auth[r].row, Changed(auth[r].row, p), users[me]).admin <=> users[me].admin
      BY <2>3, <3>0, <1>0, OwnUpdate
    <3>2. Flushed(auth[r].row, Changed(auth[r].row, p), users[me]) \in Row
      BY <1>0, ChangedRow, FlushedRow
    <3>3. users'[me] = Flushed(auth[r].row, Changed(auth[r].row, p), users[me])
      BY <2>1, <2>3, <3>0, <1>0
    <3>4. me \in ActiveAdmins'
      BY <3>1, <3>2, <3>3, <1>0 DEF ActiveAdmins
    <3> QED
      BY <3>4
  <2>4. CASE u = me /\ p.admin = FALSE
    <3>1. NotLastAdmin
      BY <2>1, <2>4, <1>0 DEF Loaded
    <3>2. PICK v \in ActiveAdmins : v # me
      BY <3>1, AnotherOne
    <3> QED
      BY <3>2, <2>1, <2>4, <1>0 DEF ActiveAdmins
  <2> QED
    BY <2>2, <2>3, <2>4
<1>7. CASE DeleteUser(r)
  BY <1>7, <1>0 DEF DeleteUser, ActiveAdmins
<1>8. CASE Refuse(r)
  BY <1>8, <1>0 DEF Refuse, ActiveAdmins
<1> QED
  BY <1>1, <1>2, <1>3, <1>4, <1>5, <1>6, <1>7, <1>8 DEF Next, Body

LEMMA OnlyDeactivationStep ==
  ASSUME PermInv, Next, ActiveAdmins # {}, ActiveAdmins' = {}, NEW u \in ActiveAdmins
  PROVE  users'[u] # NoUser /\ users'[u].admin
<1> USE UserConstants DEF Exists
<1>0. /\ u \in Ids /\ users[u] \in Row /\ users[u].active /\ users[u].admin
      /\ users \in [Ids -> Row \cup {NoUser}]
  BY DEF PermInv, TypeOK, ActiveAdmins
<1>1. users' # users
  BY DEF ActiveAdmins
<1>2. CASE Bootstrap
  <2>1. \E v \in Ids : users' = [users EXCEPT ![v] = NewAdmin]
    BY <1>2, <1>0 DEF Bootstrap, ActiveAdmins
  <2>2. NewAdmin \in Row /\ NewAdmin.active /\ NewAdmin.admin
    BY DEF NewAdmin, Row
  <2> QED
    BY <2>1, <2>2, <1>0 DEF ActiveAdmins
<1>3. ASSUME NEW r \in Requests, CreateUser(r) PROVE FALSE
  BY <1>3, <1>0 DEF CreateUser, ActiveAdmins
<1>4. ASSUME NEW r \in Requests, UpdateUser(r) PROVE users'[u] # NoUser /\ users'[u].admin
  <2>0. auth[r] \in Auth /\ auth[r].row \in Row /\ auth[r].row.admin = TRUE
    BY <1>4 DEF UpdateUser, PermInv, TypeOK, AuthorisedAsAdmin, Auth
  <2>1. PICK v \in Ids, p \in Payload :
          /\ Exists(v)
          /\ Loaded(r, v).admin /\ p.admin = FALSE => NotLastAdmin
          /\ users' = [users EXCEPT ![v] = Flushed(Loaded(r, v), Changed(Loaded(r, v), p), @)]
    BY <1>4 DEF UpdateUser
  <2>2. ActiveAdmins \subseteq {v}
    BY <2>1, <1>0 DEF ActiveAdmins
  <2>3. u = v
    BY <2>2
  <2>4. ~NotLastAdmin
    BY <2>2, AnotherOne
  <2>5. Loaded(r, u) \in Row /\ Loaded(r, u).admin = TRUE
    BY <2>0, <1>0 DEF Loaded, Row
  <2>6. p.admin # FALSE
    BY <2>1, <2>3, <2>4, <2>5
  <2>7. /\ Flushed(Loaded(r, u), Changed(Loaded(r, u), p), users[u]) \in Row
        /\ Flushed(Loaded(r, u), Changed(Loaded(r, u), p), users[u]).admin = users[u].admin
    <3>1. Changed(Loaded(r, u), p) \in Row
      BY <2>5, ChangedRow
    <3>2. Changed(Loaded(r, u), p).admin = TRUE
      BY <2>5, <2>6 DEF Changed, Given, Payload, Option
    <3> QED
      BY <3>1, <3>2, <2>5, <1>0, FlushedRow DEF Flushed, Row
  <2> QED
    BY <2>1, <2>3, <2>7, <1>0
<1>5. ASSUME NEW r \in Requests, DeleteUser(r) PROVE FALSE
  <2>1. PICK v \in Ids : /\ users[v].admin => NotLastAdmin
                         /\ users' = [users EXCEPT ![v] = NoUser]
    BY <1>5 DEF DeleteUser
  <2>2. ActiveAdmins \subseteq {v}
    BY <2>1, <1>0 DEF ActiveAdmins
  <2>3. ~NotLastAdmin
    BY <2>2, AnotherOne
  <2> QED
    BY <2>1, <2>2, <2>3, <1>0
<1> QED
  BY <1>1, <1>2, <1>3, <1>4, <1>5 DEF Next, Crash, Authorise, Body, Refuse

LEMMA LostRightStep ==
  ASSUME PermInv, Next, NEW r \in Requests, Ends(r),
         Exists(auth[r].user), ~users[auth[r].user].admin
  PROVE  users'[auth[r].user] = NoUser \/ ~users'[auth[r].user].admin
<1> USE UserConstants DEF Exists
<1> DEFINE me == auth[r].user
<1>0. /\ auth[r] \in Auth /\ me \in Ids
      /\ auth[r].row \in Row /\ auth[r].row.admin = TRUE /\ auth[r].row.active = TRUE
      /\ users[me] \in Row
      /\ users \in [Ids -> Row \cup {NoUser}]
  BY DEF PermInv, TypeOK, AuthorisedAsAdmin, Ends, Auth
<1>1. CASE Crash \/ Refuse(r)
  BY <1>1 DEF Crash, Refuse
<1>2. CASE Bootstrap
  BY <1>2, <1>0 DEF Bootstrap, Ends
<1>3. ASSUME NEW q \in Requests, q # r, Authorise(q) \/ Body(q) PROVE FALSE
  <2>1. \E x : auth' = [auth EXCEPT ![q] = x]
    BY <1>3 DEF Authorise, Body, CreateUser, UpdateUser, DeleteUser, Refuse, Done
  <2> QED
    BY <2>1, <1>3 DEF Ends, PermInv, TypeOK
<1>4. ASSUME Authorise(r) PROVE FALSE
  BY <1>4 DEF Authorise, Ends
<1>5. CASE CreateUser(r)
  BY <1>5, <1>0 DEF CreateUser
<1>6. CASE UpdateUser(r)
  <2>1. PICK u \in Ids, p \in Payload :
          /\ u = me => Changed(Loaded(r, u), p).active
          /\ users' = [users EXCEPT ![u] = Flushed(Loaded(r, u), Changed(Loaded(r, u), p), @)]
    BY <1>6 DEF UpdateUser
  <2>2. CASE u # me
    BY <2>1, <2>2, <1>0
  <2>3. CASE u = me
    <3>1. Loaded(r, u) = auth[r].row /\ Changed(auth[r].row, p).active
      BY <2>1, <2>3 DEF Loaded
    <3>2. Flushed(auth[r].row, Changed(auth[r].row, p), users[me]).admin => users[me].admin
      BY <3>1, <1>0, OwnUpdate
    <3> QED
      BY <2>1, <2>3, <3>1, <3>2, <1>0
  <2> QED
    BY <2>2, <2>3
<1>7. CASE DeleteUser(r)
  BY <1>7, <1>0 DEF DeleteUser
<1> QED
  BY <1>1, <1>2, <1>3, <1>4, <1>5, <1>6, <1>7 DEF Next, Body

\* No request whose user is an active administrator when its body runs locks
\* everybody out, whatever other requests did since it was authorised.
THEOREM AuthorisedKeepAnAdmin == Spec => AuthorisedRequestsKeepAnAdmin
<1>1. PermInv /\ [Next]_vars =>
        [\A r \in Requests : Ends(r) /\ auth[r].user \in ActiveAdmins => ActiveAdmins' # {}]_vars
  BY KeepAnAdminStep DEF vars
<1> QED
  BY <1>1, PermInvHolds, PTL DEF Spec, AuthorisedRequestsKeepAnAdmin

\* However requests overlap, deleting users and taking rights away never costs
\* the last active administrator; deactivation can (it is not counted).
THEOREM DemotionsKeepAnAdmin == Spec => OnlyDeactivationLocksOut
<1>1. PermInv /\ [Next]_vars =>
        [ActiveAdmins # {} /\ ActiveAdmins' = {} =>
           \A u \in ActiveAdmins : users'[u] # NoUser /\ users'[u].admin]_vars
  BY OnlyDeactivationStep DEF vars
<1> QED
  BY <1>1, PermInvHolds, PTL DEF Spec, OnlyDeactivationLocksOut

\* A stale request does not restore the administrator right of its own user.
THEOREM LostRightIsNotRegained == Spec => LostRightStaysLost
<1>1. PermInv /\ [Next]_vars =>
        [\A r \in Requests :
           Ends(r) /\ Exists(auth[r].user) /\ ~users[auth[r].user].admin =>
              \/ users'[auth[r].user] = NoUser
              \/ ~users'[auth[r].user].admin]_vars
  BY LostRightStep DEF vars
<1> QED
  BY <1>1, PermInvHolds, PTL DEF Spec, LostRightStaysLost
=============================================================================
