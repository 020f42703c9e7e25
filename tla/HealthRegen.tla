------------------------------ MODULE HealthRegen ------------------------------
(***************************************************************************)
(* From a probe of a backend server to the upstream block nginx serves:    *)
(* HealthCheckService, the queue of NginxRegenService with its debounce,   *)
(* LoadBalancerService, and the server pages, which re-render at once.     *)
(*                                                                         *)
(* Three threads: the health_checks job (which ends with a regeneration),  *)
(* the nginx_regen job, and the event loop (Api).  Each has a SQLAlchemy   *)
(* session of its own: a status that was assigned is invisible to the      *)
(* others until a commit, and a commit writes the columns that differ from *)
(* what was loaded.  The regeneration is queued before that commit.        *)
(*                                                                         *)
(* One rendering is one step here: SiteConfig has its steps.  Every pool    *)
(* belongs to a route of a site of its own.  Before a site is rendered     *)
(* again its text is parsed, and the parser wants an address where the     *)
(* text of a pool has the name of an upstream: it raises.  Going back to a  *)
(* recorded text parses nothing.                                           *)
(***************************************************************************)
EXTENDS Naturals, FiniteSets

CONSTANTS
    Servers, Pools,
    PoolOf,             \* [Servers -> Pools]
    Health, Regen, Api, \* the threads
    NoServer,           \* no server is being checked
    NotLoaded,          \* the session has no (fresh) copy of the row
    Plain,              \* a text without the pool: the route's own target
    Absent              \* no text: the site is not there

Threads == {Health, Regen, Api}
Checkers == {Health, Api}
Renderers == {Health, Regen}

\* "warning" also stands for the "unknown" of a server never checked: both are
\* served, and no mail is sent for leaving or entering either.
Status == {"healthy", "warning", "offline"}

\* Why a site may disagree with the database although nothing is pending.
Causes == {"none",
           "early",         \* its regeneration ran before the status was committed
           "overwritten",   \* a checker committed over a status it had not seen
           "failed",        \* its last rendering raised, failed nginx -t or found no site
           "unread",        \* a site's text was not parsed, so it was not rendered
           "reverted",      \* an earlier text was put back
           "lost"}          \* the process ended with the rendering still to do

ASSUME HealthConstants ==
    /\ PoolOf \in [Servers -> Pools]
    /\ NoServer \notin Servers
    /\ NotLoaded \notin Status
    /\ Plain # Absent
    /\ Health # Regen /\ Health # Api /\ Regen # Api

VARIABLES
    real,       \* what a probe of the server would find
    db,         \* backend_servers.health_status, committed
    attached,   \* pools that have been created
    enabled,    \* servers with enabled = true, committed
    step,       \* what each thread is doing
    todo, cur,  \* per checker: servers of the run still to check, the one at hand
    loaded,     \* per checker: statuses its session has read ...
    value,      \* ... and what they are set to in it
    queue,      \* _pending_pool_ids
    ripe,       \* the debounce time has passed since the last queue_for_pool
    work,       \* per thread: the pools whose sites it is going to render
    rendered,   \* the servers in the upstream block of the pool's site, or Plain or Absent
    olds,       \* old_config of the site's recorded versions
    cause,      \* history, see Causes
    mailed      \* history: the last mail about a server, see OutageIsMailed

facts == <<db, attached, enabled>>
session == <<todo, cur, loaded, value>>
pending == <<queue, ripe, work>>
sites == <<rendered, olds>>
vars == <<real, facts, step, session, pending, sites, cause, mailed>>

Texts == {Plain, Absent} \cup SUBSET Servers
Mails == {"none", "offline", "healthy",
          "unsaved"}    \* "healthy", and the status was not committed

TypeOK ==
    /\ real \in [Servers -> Status]
    /\ db \in [Servers -> Status]
    /\ enabled \subseteq {s \in Servers : PoolOf[s] \in attached} /\ attached \subseteq Pools
    /\ step \in [Threads -> {"idle", "check", "probe", "mail", "take", "collect", "regen", "rerender"}]
    /\ todo \in [Checkers -> SUBSET Servers]
    /\ cur \in [Checkers -> Servers \cup {NoServer}]
    /\ loaded \in [Checkers -> [Servers -> Status \cup {NotLoaded}]]
    /\ value \in [Checkers -> [Servers -> Status \cup {NotLoaded}]]
    /\ queue \subseteq Pools
    /\ ripe \in BOOLEAN
    /\ ripe => queue # {}
    /\ work \in [Threads -> SUBSET Pools]
    /\ rendered \in [Pools -> Texts] /\ olds \in [Pools -> SUBSET Texts]
    /\ cause \in [Pools -> Causes]
    /\ mailed \in [Servers -> Mails]

Members(p) == {s \in Servers : PoolOf[s] = p}
EnabledIn(p) == Members(p) \cap enabled

\* render_upstream_block: the enabled servers that are not offline.
Active(p) == {s \in EnabledIn(p) : db[s] # "offline"}

Pooled(p) == rendered[p] \notin {Plain, Absent}

Nothing == [s \in Servers |-> NotLoaded]

\* The sites are there, created and updated once, and no pools.
Init ==
    /\ real = [s \in Servers |-> "healthy"]
    /\ db = [s \in Servers |-> "warning"]
    /\ attached = {} /\ enabled = {}
    /\ step = [t \in Threads |-> "idle"]
    /\ todo = [c \in Checkers |-> {}]
    /\ cur = [c \in Checkers |-> NoServer]
    /\ loaded = [c \in Checkers |-> Nothing]
    /\ value = [c \in Checkers |-> Nothing]
    /\ queue = {} /\ ripe = FALSE
    /\ work = [t \in Threads |-> {}]
    /\ rendered = [p \in Pools |-> Plain]
    /\ olds = [p \in Pools |-> {Plain, Absent}]
    /\ cause = [p \in Pools |-> "none"]
    /\ mailed = [s \in Servers |-> "none"]

Goto(t, s) == step' = [step EXCEPT ![t] = s]

\* The backend behind s changes.
Flap(s) ==
    /\ \E st \in Status \ {real[s]} : real' = [real EXCEPT ![s] = st]
    /\ UNCHANGED <<facts, step, session, pending, sites, cause, mailed>>

-----------------------------------------------------------------------------
(* Health checks *)

\* run_all loads the enabled servers.
BeginRun ==
    /\ step[Health] = "idle"
    /\ LET rows == [s \in Servers |-> IF s \in enabled THEN db[s] ELSE NotLoaded] IN
       /\ loaded' = [loaded EXCEPT ![Health] = rows]
       /\ value' = [value EXCEPT ![Health] = rows]
    /\ todo' = [todo EXCEPT ![Health] = enabled]
    /\ Goto(Health, "check")
    /\ UNCHANGED <<real, facts, cur, pending, sites, cause, mailed>>

\* run_server: the check button, for any server.
BeginOne(s) ==
    /\ step[Api] = "idle" /\ PoolOf[s] \in attached
    /\ todo' = [todo EXCEPT ![Api] = {s}]
    /\ Goto(Api, "check")
    /\ UNCHANGED <<real, facts, cur, loaded, value, pending, sites, cause, mailed>>

\* check_server, before the probe: a row the last commit expired is read again.
Probe(c, s) ==
    /\ step[c] = "check"
    /\ s \in todo[c]
    /\ IF loaded[c][s] = NotLoaded
       THEN /\ loaded' = [loaded EXCEPT ![c][s] = db[s]]
            /\ value' = [value EXCEPT ![c][s] = db[s]]
       ELSE UNCHANGED <<loaded, value>>
    /\ todo' = [todo EXCEPT ![c] = @ \ {s}]
    /\ cur' = [cur EXCEPT ![c] = s]
    /\ Goto(c, "probe")
    /\ UNCHANGED <<real, facts, pending, sites, cause, mailed>>

\* Mutant: only outages are queued.
CrossesDown(old, new) == old # "offline" /\ new = "offline"

Crosses(old, new) == (old = "offline") # (new = "offline")

\* ... and after it: the status is assigned, a transition to or from offline
\* queues the pool, and two of the transitions send a mail.
Judge(c) ==
    /\ step[c] = "probe"
    /\ LET s == cur[c] old == value[c][s] new == real[s] IN
       /\ value' = [value EXCEPT ![c][s] = new]
       /\ IF Crosses(old, new)
          THEN queue' = queue \cup {PoolOf[s]} /\ ripe' = FALSE
          ELSE UNCHANGED <<queue, ripe>>
       /\ IF Crosses(old, new) /\ new # "warning"
          THEN Goto(c, "mail") /\ UNCHANGED cur
          ELSE Goto(c, "check") /\ cur' = [cur EXCEPT ![c] = NoServer]
    /\ UNCHANGED <<real, facts, todo, loaded, work, sites, cause, mailed>>

\* Mutant: a commit writes every row the session has read.
WrittenWhole(c, s) == loaded[c][s] # NotLoaded

Written(c, s) == value[c][s] # loaded[c][s]

Commit(c) ==
    /\ db' = [s \in Servers |-> IF Written(c, s) THEN value[c][s] ELSE db[s]]
    /\ cause' = [p \in Pools |->
         IF \E s \in Members(p) : Written(c, s) /\ Crosses(db[s], loaded[c][s])
         THEN "overwritten" ELSE cause[p]]
    /\ loaded' = [loaded EXCEPT ![c] = Nothing]
    /\ value' = [value EXCEPT ![c] = Nothing]

\* dispatch: the mail goes out, then its log row is committed, and with it
\* every status the session has assigned so far.
Mail(c) ==
    /\ step[c] = "mail"
    /\ Commit(c)
    /\ mailed' = [mailed EXCEPT ![cur[c]] = value[c][cur[c]]]
    /\ cur' = [cur EXCEPT ![c] = NoServer]
    /\ Goto(c, "check")
    /\ UNCHANGED <<real, attached, enabled, todo, pending, sites>>

\* Mutant: only the mails commit.
EndRunUncommitted(c) ==
    /\ step[c] = "check" /\ todo[c] = {}
    /\ Goto(c, IF c = Health THEN "take" ELSE "idle")
    /\ loaded' = [loaded EXCEPT ![c] = Nothing]
    /\ value' = [value EXCEPT ![c] = Nothing]
    /\ UNCHANGED <<real, facts, todo, cur, pending, sites, cause, mailed>>

\* The end of run_all or run_server.
EndRun(c) ==
    /\ step[c] = "check" /\ todo[c] = {}
    /\ Commit(c)
    /\ Goto(c, IF c = Health THEN "take" ELSE "idle")
    /\ UNCHANGED <<real, attached, enabled, todo, cur, pending, sites, mailed>>

\* What the mails of some threads said, whose statuses are not committed.
MailedBy(checkers) ==
    [s \in Servers |->
        LET said == {value[c][s] : c \in {c \in checkers : step[c] = "mail" /\ cur[c] = s}} IN
        IF "healthy" \in said THEN "unsaved" ELSE IF said # {} THEN "offline" ELSE mailed[s]]

\* A commit that raises (the database is locked), after the mail: the session
\* is closed.
CommitFails(c) ==
    /\ step[c] = "mail" \/ (step[c] = "check" /\ todo[c] = {})
    /\ mailed' = MailedBy({c})
    /\ cur' = [cur EXCEPT ![c] = NoServer]
    /\ todo' = [todo EXCEPT ![c] = {}]
    /\ loaded' = [loaded EXCEPT ![c] = Nothing]
    /\ value' = [value EXCEPT ![c] = Nothing]
    /\ Goto(c, "idle")
    /\ UNCHANGED <<real, facts, pending, sites, cause>>

-----------------------------------------------------------------------------
(* Regeneration *)

\* nginx_regen_debounce_seconds go by without another queue_for_pool.
DebounceElapses ==
    /\ queue # {} /\ ~ripe
    /\ ripe' = TRUE
    /\ UNCHANGED <<real, facts, step, session, queue, work, sites, cause, mailed>>

\* A status of p that some session has changed and not committed.
Uncommitted(p) == \E c \in Checkers, s \in Members(p) : Crosses(loaded[c][s], value[c][s])

MayTake(t) == step[t] = IF t = Health THEN "take" ELSE "idle"

\* Mutant: the time of the last queueing is not reset.
TakeKeepsTime(t) ==
    /\ MayTake(t) /\ ripe
    /\ work' = [work EXCEPT ![t] = queue]
    /\ queue' = {}
    /\ cause' = [p \in Pools |-> IF p \notin queue THEN cause[p]
                                 ELSE IF Uncommitted(p) THEN "early" ELSE "none"]
    /\ Goto(t, "collect")
    /\ UNCHANGED <<real, facts, session, ripe, sites, mailed>>

\* process_pending, under its lock: the queue is emptied before any rendering.
Take(t) ==
    /\ MayTake(t) /\ ripe
    /\ work' = [work EXCEPT ![t] = queue]
    /\ queue' = {} /\ ripe' = FALSE
    /\ cause' = [p \in Pools |-> IF p \notin queue THEN cause[p]
                                 ELSE IF Uncommitted(p) THEN "early" ELSE "none"]
    /\ Goto(t, "collect")
    /\ UNCHANGED <<real, facts, session, sites, mailed>>

\* ... with nothing to do, or too soon.
TakeNothing ==
    /\ step[Health] = "take" /\ ~ripe
    /\ Goto(Health, "idle")
    /\ UNCHANGED <<real, facts, session, pending, sites, cause, mailed>>

Leave(t, done) ==
    /\ work' = [work EXCEPT ![t] = @ \ done]
    /\ Goto(t, IF work[t] \subseteq done THEN "idle" ELSE "regen")

\* An exception ends process_pending: the rest of the round is dropped.
Raise(t, why) ==
    /\ cause' = [p \in Pools |-> IF p \in work[t] THEN why ELSE cause[p]]
    /\ Leave(t, work[t])
    /\ UNCHANGED rendered

\* _proxy_ids_for_pool parses the text of every site.
Collect(t) ==
    /\ step[t] = "collect"
    /\ IF \E p \in Pools : Pooled(p) THEN Raise(t, "unread")
       ELSE Leave(t, {}) /\ UNCHANGED <<rendered, cause>>
    /\ UNCHANGED <<real, facts, session, queue, ripe, olds, mailed>>

\* The text is parsed, rendered and written.  An upstream without servers fails
\* nginx -t, and so may anything else on the server; the old text comes back.
\* A site that is not there is passed over.
Pass(p) ==
    \/ /\ rendered[p] = Plain /\ EnabledIn(p) # {} /\ Active(p) # {}
       /\ rendered' = [rendered EXCEPT ![p] = Active(p)]
       /\ UNCHANGED cause
    \/ /\ rendered[p] = Absent \/ (rendered[p] = Plain /\ EnabledIn(p) # {})
       /\ cause' = [cause EXCEPT ![p] = "failed"]
       /\ UNCHANGED rendered

\* regen_proxy: one site of the round.  A site that fails its test is not
\* queued again.
Render(t, p) ==
    /\ step[t] = "regen" /\ p \in work[t]
    /\ Pass(p)
    /\ Leave(t, {p})
    /\ UNCHANGED <<real, facts, session, queue, ripe, olds, mailed>>

\* ... and validate_pool raises for a pool without enabled servers.
RenderRaises(t, p) ==
    /\ step[t] = "regen" /\ p \in work[t]
    /\ Pooled(p) \/ (rendered[p] = Plain /\ EnabledIn(p) = {})
    /\ Raise(t, IF Pooled(p) THEN "unread" ELSE "failed")
    /\ UNCHANGED <<real, facts, session, queue, ripe, olds, mailed>>

-----------------------------------------------------------------------------
(* The pages of pools and servers *)

\* create_pool commits the pool with its servers ...
CreatePool(p) ==
    /\ step[Api] = "idle" /\ p \notin attached
    /\ attached' = attached \cup {p}
    /\ enabled' = enabled \cup Members(p)
    /\ work' = [work EXCEPT ![Api] = {p}]
    /\ Goto(Api, "rerender")
    /\ UNCHANGED <<real, db, session, queue, ripe, sites, cause, mailed>>

\* update_server commits the switch; the new row is read by everybody ...
SetServer(s) ==
    /\ step[Api] = "idle" /\ PoolOf[s] \in attached
    /\ enabled' = IF s \in enabled THEN enabled \ {s} ELSE enabled \cup {s}
    /\ work' = [work EXCEPT ![Api] = {PoolOf[s]}]
    /\ Goto(Api, "rerender")
    /\ UNCHANGED <<real, db, attached, session, queue, ripe, sites, cause, mailed>>

\* ... then _rerender_proxy renders the site; if it raises, the request fails,
\* and a failed test is not reported.
Rerender(p) ==
    /\ step[Api] = "rerender" /\ p \in work[Api]
    /\ \/ Pass(p)
       \/ /\ Pooled(p) \/ (rendered[p] = Plain /\ EnabledIn(p) = {})
          /\ cause' = [cause EXCEPT ![p] = IF Pooled(p) THEN "unread" ELSE "failed"]
          /\ UNCHANGED rendered
    /\ work' = [work EXCEPT ![Api] = {}]
    /\ Goto(Api, "idle")
    /\ UNCHANGED <<real, facts, session, queue, ripe, olds, mailed>>

\* ConfigVersionService.rollback puts back what some recorded version replaced,
\* an older upstream or no text at all, too, and records what was there.  It
\* records nothing if nginx then fails: its reload leaves the text that was put
\* back, its test leaves the site unless that was to be removed.
Revert(p) ==
    /\ step[Api] = "idle"
    /\ \E old \in olds[p] \ {rendered[p]} : rendered' = [rendered EXCEPT ![p] = old]
    /\ olds' \in {olds, [olds EXCEPT ![p] = @ \cup {rendered[p]}]}
    /\ cause' = [cause EXCEPT ![p] = "reverted"]
    /\ UNCHANGED <<real, facts, step, session, pending, mailed>>

Pending == queue \cup UNION {work[t] : t \in Threads}

\* The process ends, some mails having been sent, and starts again: the queue
\* was only in its memory.
Crash ==
    /\ \/ \E t \in Threads : step[t] # "idle"
       \/ queue # {}
    /\ step' = [t \in Threads |-> "idle"]
    /\ todo' = [c \in Checkers |-> {}]
    /\ cur' = [c \in Checkers |-> NoServer]
    /\ loaded' = [c \in Checkers |-> Nothing]
    /\ value' = [c \in Checkers |-> Nothing]
    /\ queue' = {} /\ ripe' = FALSE
    /\ work' = [t \in Threads |-> {}]
    /\ cause' = [p \in Pools |-> IF p \in Pending THEN "lost" ELSE cause[p]]
    /\ \E sent \in SUBSET Checkers : mailed' = MailedBy(sent)
    /\ UNCHANGED <<real, facts, sites>>

Check(c) ==
    \/ \E s \in Servers : Probe(c, s)
    \/ Judge(c) \/ Mail(c) \/ EndRun(c)

Regenerate(t) == Take(t) \/ Collect(t) \/ \E p \in Pools : Render(t, p) \/ RenderRaises(t, p)

\* What the threads do by themselves, and what happens to them.
Work ==
    \/ BeginRun \/ DebounceElapses \/ TakeNothing
    \/ \E p \in Pools : Rerender(p)
    \/ \E c \in Checkers : Check(c) \/ CommitFails(c)
    \/ \E t \in Renderers : Regenerate(t)

Disturb ==
    \/ \E s \in Servers : Flap(s) \/ BeginOne(s) \/ SetServer(s)
    \/ \E p \in Pools : CreatePool(p) \/ Revert(p)
    \/ Crash

Next == Work \/ Disturb

Spec == Init /\ [][Next]_vars

-----------------------------------------------------------------------------
(* Properties *)

OutOfDate(p) == p \in attached /\ rendered[p] \notin {Absent, Active(p)}

\* A site whose upstream is not what the database says it should be is about
\* to be rendered, or one of these happened since it was last taken from the
\* queue: the regeneration was faster than the commit (queueing precedes it,
\* health_check_service.py:125-135), a check committed over a status it had
\* not read, the rendering failed or could not parse a text, an earlier text was
\* put back, or the process ended.
OutOfDateIsExplained == \A p \in Pools :
    OutOfDate(p) => p \in Pending \/ cause[p] # "none"

\* A server that the database has offline was reported offline by the last mail
\* about it, although two sessions with copies of their own mail and commit in
\* any order, and a mail's commit takes statuses of other servers with it.  The
\* exception is a recovery that was mailed and then not committed.
OutageIsMailed == \A s \in Servers :
    db[s] = "offline" => mailed[s] \in {"offline", "unsaved"}

\* Once backends, administrators and the process leave it alone, a site whose
\* upstream went through none of those ends up with exactly the servers that
\* answer.
InService(p) == {s \in EnabledIn(p) : real[s] # "offline"}

SettlesInService ==
    <>[](\A p \in attached : cause[p] = "none" => rendered[p] = InService(p))

\* docs/ENTERPRISE_FEATURES.md:17 and README.md:14: failover is automatic, a
\* server that stays offline ends up outside the upstream.
OfflineLeavesService ==
    \A s \in Servers :
        <>[](real[s] = "offline") => <>[](Pooled(PoolOf[s]) => s \notin rendered[PoolOf[s]])
=============================================================================
