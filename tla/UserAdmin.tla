------------------------------- MODULE UserAdmin -------------------------------
(***************************************************************************)
(* The accounts of the backend and the guards that keep one administrator  *)
(* able to log in: services/user_service.py behind api/users.py, and       *)
(* bootstrap_admin at startup.                                             *)
(*                                                                         *)
(* A request first loads its user (get_current_user); require_admin is a   *)
(* plain def, which FastAPI runs on a worker thread, so other requests run *)
(* before the handler's body does.  The body itself has no await: it is    *)
(* one step, but it still holds the row it loaded earlier, because the     *)
(* SQLAlchemy session keeps the loaded object.                             *)
(***************************************************************************)
EXTENDS Naturals, FiniteSets

CONSTANTS
    Ids,        \* user ids
    Requests,   \* requests of administrators being served
    NoUser,     \* "no row with this id"
    NoAuth,     \* "this request slot is free"
    Keep        \* "the payload does not set this field"

\* root: the username is the configured one; edit: the permission flags, which
\* the code switches on together for administrators.
Row == [root : BOOLEAN, active : BOOLEAN, admin : BOOLEAN, edit : BOOLEAN]

Auth == [user : Ids, row : Row]

Option == BOOLEAN \cup {Keep}

ASSUME UserConstants ==
    /\ IsFiniteSet(Ids) /\ Ids # {}
    /\ NoUser \notin Row
    /\ NoAuth \notin Auth
    /\ Keep \notin BOOLEAN

VARIABLES
    users,      \* the users table
    auth,       \* what get_current_user loaded for each running request
    up          \* the backend process runs

vars == <<users, auth, up>>

Exists(u) == users[u] # NoUser

ActiveAdmins == {u \in Ids : Exists(u) /\ users[u].active /\ users[u].admin}

NameTaken == \E u \in Ids : Exists(u) /\ users[u].root

TypeOK ==
    /\ users \in [Ids -> Row \cup {NoUser}]
    /\ auth \in [Requests -> Auth \cup {NoAuth}]
    /\ up \in BOOLEAN

NewAdmin == [root |-> TRUE, active |-> TRUE, admin |-> TRUE, edit |-> TRUE]

\* The first start of the backend has created the configured administrator.
Init ==
    /\ \E u \in Ids : users = [v \in Ids |-> IF v = u THEN NewAdmin ELSE NoUser]
    /\ auth = [r \in Requests |-> NoAuth]
    /\ up = TRUE

-----------------------------------------------------------------------------

\* get_current_user and require_admin: an active account, and an administrator
\* in the row that was loaded.
Authorise(r) ==
    /\ up
    /\ auth[r] = NoAuth
    /\ \E u \in ActiveAdmins :
         auth' = [auth EXCEPT ![r] = [user |-> u, row |-> users[u]]]
    /\ UNCHANGED <<users, up>>

Done(r) == auth' = [auth EXCEPT ![r] = NoAuth] /\ UNCHANGED up

\* Administrators have every permission.
Promoted(row) == [root |-> row.root, active |-> row.active, admin |-> TRUE, edit |-> TRUE]

CreateUser(r) ==
    /\ auth[r] # NoAuth
    /\ \E u \in Ids, p \in Row :
         /\ ~Exists(u)
         /\ p.root => ~NameTaken
         /\ users' = [users EXCEPT ![u] = IF p.admin THEN Promoted(p) ELSE p]
    /\ Done(r)

\* Mutant: inactive administrators count as well.
AnotherAdminExists == Cardinality({u \in Ids : Exists(u) /\ users[u].admin}) > 1

\* _ensure_not_last_admin: the count is a fresh query, without the pending
\* changes of the session (autoflush is off).
NotLastAdmin == Cardinality(ActiveAdmins) > 1

\* The object the session holds for u: the one loaded for the request's own
\* user, a fresh one for anybody else.
Loaded(r, u) == IF u = auth[r].user THEN auth[r].row ELSE users[u]

Given(option, old) == IF option = Keep THEN old ELSE option

\* The object after the assignments of update_user.
Changed(old, p) ==
    [root   |-> Given(p.root, old.root),
     active |-> Given(p.active, old.active),
     admin  |-> Given(p.admin, old.admin),
     edit   |-> Given(p.admin, old.admin) \/ Given(p.edit, old.edit)]

\* Mutant: the whole object is written back.
FlushedWhole(old, new, row) == new

\* UPDATE writes only the columns whose value differs from the loaded one.
Flushed(old, new, row) ==
    [root   |-> IF new.root = old.root THEN row.root ELSE new.root,
     active |-> IF new.active = old.active THEN row.active ELSE new.active,
     admin  |-> IF new.admin = old.admin THEN row.admin ELSE new.admin,
     edit   |-> IF new.edit = old.edit THEN row.edit ELSE new.edit]

Payload == [root : Option, active : Option, admin : Option, edit : Option]

\* Mutant: an administrator may switch off his own account.
UpdateAnyone(r) ==
    /\ auth[r] # NoAuth
    /\ \E u \in Ids, p \in Payload :
         LET old == Loaded(r, u) new == Changed(old, p) IN
         /\ Exists(u)
         /\ p.root = TRUE /\ ~old.root => ~NameTaken
         /\ old.admin /\ p.admin = FALSE => NotLastAdmin
         /\ users' = [users EXCEPT ![u] = Flushed(old, new, @)]
    /\ Done(r)

\* update_user: refused for a name in use, for taking the administrator right
\* from the last active administrator, and for deactivating oneself; only the
\* last check looks at is_active.
UpdateUser(r) ==
    /\ auth[r] # NoAuth
    /\ \E u \in Ids, p \in Payload :
         LET old == Loaded(r, u) new == Changed(old, p) IN
         /\ Exists(u)
         /\ p.root = TRUE /\ ~old.root => ~NameTaken
         /\ old.admin /\ p.admin = FALSE => NotLastAdmin
         /\ u = auth[r].user => new.active
         /\ users' = [users EXCEPT ![u] = Flushed(old, new, @)]
    /\ Done(r)

DeleteUser(r) ==
    /\ auth[r] # NoAuth
    /\ \E u \in Ids \ {auth[r].user} :
         /\ Exists(u)
         /\ users[u].admin => NotLastAdmin
         /\ users' = [users EXCEPT ![u] = NoUser]
    /\ Done(r)

\* A body that raises (404, 400) or only reads: nothing is committed.
Refuse(r) == auth[r] # NoAuth /\ Done(r) /\ UNCHANGED users

\* Mutant: requests of the old process keep what they loaded as plain rows.
CrashKeepsRows ==
    /\ up
    /\ up' = FALSE
    /\ auth' = [r \in Requests |-> NoUser]
    /\ UNCHANGED users

\* The process ends: its requests are gone, what was committed stays.
Crash ==
    /\ up
    /\ up' = FALSE
    /\ auth' = [r \in Requests |-> NoAuth]
    /\ UNCHANGED users

\* Startup, bootstrap_admin: the account with the configured name becomes an
\* administrator (it stays inactive if it was), or is created.
Bootstrap ==
    /\ ~up
    /\ up' = TRUE
    /\ \/ \E u \in Ids :
            /\ Exists(u) /\ users[u].root
            /\ users' = [users EXCEPT ![u] = IF @.admin THEN @ ELSE Promoted(@)]
       \/ /\ ~NameTaken
          /\ \E u \in Ids : ~Exists(u) /\ users' = [users EXCEPT ![u] = NewAdmin]
    /\ UNCHANGED auth

Body(r) == CreateUser(r) \/ UpdateUser(r) \/ DeleteUser(r) \/ Refuse(r)

Next == Crash \/ Bootstrap \/ \E r \in Requests : Authorise(r) \/ Body(r)

Spec == Init /\ [][Next]_vars

-----------------------------------------------------------------------------
(* Properties *)

\* A step in which request r's body runs, or in which the process ends.
Ends(r) == auth[r] # NoAuth /\ auth'[r] = NoAuth

\* An administrator has every permission, also when a request changes its own
\* user from a row that is out of date (user_service.py:63-66).
AdminsHaveAllPermissions == \A u \in Ids : Exists(u) /\ users[u].admin => users[u].edit

\* A request whose user is still an active administrator when its body runs
\* leaves an active administrator: it cannot lock everybody out, whatever it
\* asks for (user_service.py:54, 68, 80).
AuthorisedRequestsKeepAnAdmin ==
    [][\A r \in Requests :
         Ends(r) /\ auth[r].user \in ActiveAdmins => ActiveAdmins' # {}]_vars

\* Taking the right away and deleting never remove the last active
\* administrator, not even in requests that overlap: when the last one is
\* lost, that account is still there and still an administrator, only inactive.
OnlyDeactivationLocksOut ==
    [][ActiveAdmins # {} /\ ActiveAdmins' = {} =>
         \A u \in ActiveAdmins : users'[u] # NoUser /\ users'[u].admin]_vars

\* A request that was authorised before its user lost the administrator right
\* does not give it back by updating that user.
LostRightStaysLost ==
    [][\A r \in Requests :
         Ends(r) /\ Exists(auth[r].user) /\ ~users[auth[r].user].admin =>
            \/ users'[auth[r].user] = NoUser
            \/ ~users'[auth[r].user].admin]_vars

\* user_service.py:91, "Cannot remove the last active admin user": there is an
\* active administrator at all times.
AnActiveAdminRemains == ActiveAdmins # {}
=============================================================================
