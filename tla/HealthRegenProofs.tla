-------------------------- MODULE HealthRegenProofs --------------------------
(***************************************************************************)
(* An upstream that disagrees with the database is explained, and a server *)
(* that the database has offline was reported, for any number of servers   *)
(* and pools, checks, regenerations and reverts.                           *)
(***************************************************************************)
EXTENDS HealthRegen, TLAPS

USE HealthConstants

\* A session has read a row or not; the server at hand has been read.  Only
\* a thread that is going to render has pools to render, and a page has one.
SessionsFit ==
    /\ \A c \in Checkers, s \in Servers : loaded[c][s] = NotLoaded <=> value[c][s] = NotLoaded
    /\ \A c \in Checkers : step[c] = "probe" => cur[c] \in Servers /\ loaded[c][cur[c]] # NotLoaded
    /\ \A c \in Checkers : step[c] = "mail" => /\ cur[c] \in Servers
                                              /\ value[c][cur[c]] \in {"healthy", "offline"}
    /\ \A t \in Threads : step[t] \notin {"collect", "regen", "rerender"} => work[t] = {}
    /\ \A p, q \in work[Api] : p = q

\* A status that was changed and not committed is still in the queue, or was
\* taken from it too early.
UncommittedIsQueued ==
    \A p \in Pools : Uncommitted(p) => p \in queue \/ cause[p] # "none"

IInv == TypeOK /\ SessionsFit /\ UncommittedIsQueued /\ OutOfDateIsExplained

LEMMA InitIInv == Init => IInv
<1> SUFFICES ASSUME Init PROVE IInv
  OBVIOUS
<1> USE DEF Init
<1>1. TypeOK
  BY DEF TypeOK, Nothing, Status, Threads, Checkers, Causes, Texts, Mails
<1>2. SessionsFit
  BY DEF SessionsFit, Nothing, Threads, Checkers
<1>3. UncommittedIsQueued
  BY DEF UncommittedIsQueued, Uncommitted, Crosses, Nothing, Members, Checkers
<1>4. OutOfDateIsExplained
  BY DEF OutOfDateIsExplained, OutOfDate
<1> QED
  BY <1>1, <1>2, <1>3, <1>4 DEF IInv

-----------------------------------------------------------------------------
(* What the three parts of the invariant depend on *)

\* Nothing that a session holds, that was committed or that is served changed.
LEMMA Unmoved ==
  ASSUME UncommittedIsQueued, OutOfDateIsExplained,
         UNCHANGED <<db, attached, enabled, loaded, value, rendered>>,
         \A p \in Pools : cause'[p] = cause[p] \/ cause'[p] # "none",
         \A p \in Pools : p \in queue => p \in queue' \/ cause'[p] # "none",
         \A p \in Pools : p \in Pending => p \in Pending' \/ cause'[p] # "none"
  PROVE  UncommittedIsQueued' /\ OutOfDateIsExplained'
<1>1. \A p \in Pools : Uncommitted(p)' <=> Uncommitted(p)
  BY DEF Uncommitted
<1>2. \A p \in Pools : OutOfDate(p)' <=> OutOfDate(p)
  BY DEF OutOfDate, Active, EnabledIn
<1> QED
  BY <1>1, <1>2 DEF UncommittedIsQueued, OutOfDateIsExplained

\* A commit by a session whose uncommitted changes are all queued.
LEMMA CommitKeeps ==
  ASSUME IInv, NEW c \in Checkers, Commit(c),
         UNCHANGED <<attached, enabled, queue, work, rendered>>
  PROVE  UncommittedIsQueued' /\ OutOfDateIsExplained'
<1> USE DEF IInv
<1>1. \A p \in Pools : cause'[p] = cause[p] \/ cause'[p] = "overwritten"
  BY DEF Commit, TypeOK
<1>2. \A p \in Pools : Uncommitted(p)' => Uncommitted(p)
  BY DEF Commit, Uncommitted, Nothing, Crosses, TypeOK, Members, Checkers
<1>3. UncommittedIsQueued'
  BY <1>1, <1>2 DEF UncommittedIsQueued
<1>4. ASSUME NEW p \in Pools, OutOfDate(p)'
      PROVE  p \in Pending' \/ cause'[p] # "none"
  <2>1. CASE OutOfDate(p)
    BY <2>1, <1>1 DEF OutOfDateIsExplained, Pending
  <2>2. CASE ~OutOfDate(p)
    <3>1. PICK s \in Members(p) : Crosses(db[s], db'[s])
      BY <1>4, <2>2 DEF OutOfDate, Active, EnabledIn, Crosses, Members
    <3>2. s \in Servers /\ Written(c, s) /\ db'[s] = value[c][s]
      BY <3>1 DEF Commit, TypeOK, Crosses, Members
    <3>3. CASE Crosses(db[s], loaded[c][s])
      BY <3>1, <3>2, <3>3 DEF Commit, TypeOK
    <3>4. CASE ~Crosses(db[s], loaded[c][s])
      <4>1. Uncommitted(p)
        BY <3>1, <3>2, <3>4 DEF Uncommitted, Crosses
      <4> QED
        BY <4>1, <1>1 DEF UncommittedIsQueued, Pending
    <3> QED
      BY <3>3, <3>4
  <2> QED
    BY <2>1, <2>2
<1> QED
  BY <1>3, <1>4 DEF OutOfDateIsExplained

\* A mail without its commit.
LEMMA SentAre ==
  ASSUME TypeOK, NEW sent
  PROVE  /\ MailedBy(sent) \in [Servers -> Mails]
         /\ \A s \in Servers : MailedBy(sent)[s] \in {mailed[s], "offline", "unsaved"}
  BY DEF MailedBy, TypeOK, Mails

-----------------------------------------------------------------------------
(* Steps of checks *)

LEMMA ChecksKeep ==
  ASSUME IInv, NEW c \in Checkers,
         BeginRun \/ (\E s \in Servers : BeginOne(s) \/ Probe(c, s)) \/ Judge(c) \/ Mail(c) \/ EndRun(c) \/ CommitFails(c)
  PROVE  IInv'
<1> USE DEF IInv
<1>1. CASE BeginRun
  <2> USE <1>1 DEF BeginRun, Goto, facts, pending, sites
  <2>1. TypeOK'
    BY DEF TypeOK, Threads, Checkers, Status
  <2>2. SessionsFit'
    BY DEF SessionsFit, TypeOK, Threads, Checkers
  <2>3. \A p \in Pools : Uncommitted(p)' => Uncommitted(p)
    BY DEF Uncommitted, Crosses, TypeOK, Checkers, Members
  <2>4. UncommittedIsQueued'
    BY <2>3 DEF UncommittedIsQueued
  <2>5. OutOfDateIsExplained'
    BY DEF OutOfDateIsExplained, OutOfDate, Active, EnabledIn, Pending
  <2> QED
    BY <2>1, <2>2, <2>4, <2>5
<1>2. ASSUME NEW s \in Servers, BeginOne(s) PROVE IInv'
  <2> USE <1>2 DEF BeginOne, Goto, facts, pending, sites
  <2>1. TypeOK'
    BY DEF TypeOK, Threads, Checkers
  <2>2. SessionsFit'
    BY DEF SessionsFit, TypeOK, Threads, Checkers
  <2>3. UncommittedIsQueued' /\ OutOfDateIsExplained'
    BY Unmoved DEF Pending
  <2> QED
    BY <2>1, <2>2, <2>3
<1>3. ASSUME NEW s \in Servers, Probe(c, s) PROVE IInv'
  <2> USE <1>3 DEF Probe, Goto, facts, pending, sites
  <2>1. TypeOK'
    <3>1. /\ loaded' \in [Checkers -> [Servers -> Status \cup {NotLoaded}]]
          /\ value' \in [Checkers -> [Servers -> Status \cup {NotLoaded}]]
      <4>1. CASE loaded[c][s] = NotLoaded
        <5>1. loaded' = [loaded EXCEPT ![c][s] = db[s]] /\ value' = [value EXCEPT ![c][s] = db[s]]
          BY <4>1
        <5>2. db[s] \in Status
          BY DEF TypeOK
        <5> QED
          BY <5>1, <5>2 DEF TypeOK
      <4>2. CASE loaded[c][s] # NotLoaded
        BY <4>2 DEF TypeOK
      <4> QED
        BY <4>1, <4>2
    <3>2. /\ todo' \in [Checkers -> SUBSET Servers] /\ cur' \in [Checkers -> Servers \cup {NoServer}]
          /\ step' \in [Threads -> {"idle", "check", "probe", "mail", "take", "collect", "regen", "rerender"}]
      BY DEF TypeOK
    <3> QED
      BY <3>1, <3>2 DEF TypeOK
  <2>2. SessionsFit'
    BY DEF SessionsFit, TypeOK, Threads, Checkers, Status
  <2>3. \A p \in Pools : Uncommitted(p)' => Uncommitted(p)
    BY DEF Uncommitted, Crosses, TypeOK, Members, Checkers
  <2>4. UncommittedIsQueued'
    BY <2>3 DEF UncommittedIsQueued
  <2>5. OutOfDateIsExplained'
    BY DEF OutOfDateIsExplained, OutOfDate, Active, EnabledIn, Pending
  <2> QED
    BY <2>1, <2>2, <2>4, <2>5
<1>4. CASE Judge(c)
  <2> USE <1>4 DEF Judge, Goto, facts, sites
  <2>1. cur[c] \in Servers /\ real[cur[c]] \in Status /\ PoolOf[cur[c]] \in Pools
    BY DEF SessionsFit, TypeOK
  <2>2. TypeOK'
    <3>1. value' \in [Checkers -> [Servers -> Status \cup {NotLoaded}]]
      BY <2>1 DEF TypeOK
    <3>2. queue' \subseteq Pools /\ ripe' \in BOOLEAN /\ (ripe' => queue' # {})
      BY <2>1 DEF TypeOK
    <3> QED
      BY <2>1, <3>1, <3>2 DEF TypeOK, Threads, Checkers
  <2>3. SessionsFit'
    BY <2>1 DEF SessionsFit, TypeOK, Threads, Checkers, Status
  <2>4. ASSUME NEW p \in Pools, Uncommitted(p)'
        PROVE  p \in queue' \/ cause'[p] # "none"
    <3>1. CASE Uncommitted(p)
      BY <3>1 DEF UncommittedIsQueued
    <3>2. CASE ~Uncommitted(p)
      <4>1. p = PoolOf[cur[c]] /\ Crosses(value[c][cur[c]], real[cur[c]])
        BY <2>1, <2>4, <3>2 DEF Uncommitted, Crosses, TypeOK, Members
      <4> QED
        BY <4>1
    <3> QED
      BY <3>1, <3>2
  <2>5. OutOfDateIsExplained'
    BY DEF OutOfDateIsExplained, OutOfDate, Active, EnabledIn, Pending
  <2> QED
    BY <2>2, <2>3, <2>4, <2>5 DEF UncommittedIsQueued
<1>5. ASSUME Mail(c) \/ EndRun(c) PROVE IInv'
  <2>1. Commit(c) /\ UNCHANGED <<attached, enabled, queue, ripe, work, rendered, olds, real, todo>>
    BY <1>5 DEF Mail, EndRun, pending, sites
  <2>2. /\ step[c] \in {"mail", "check"}
        /\ \E to \in {"check", "take", "idle"} : step' = [step EXCEPT ![c] = to]
    BY <1>5 DEF Mail, EndRun, Goto
  <2>3. TypeOK'
    <3>1. db' \in [Servers -> Status]
      BY <2>1 DEF Commit, Written, TypeOK, SessionsFit
    <3>2. cause' \in [Pools -> Causes]
      BY <2>1 DEF Commit, TypeOK, Causes
    <3>3. loaded' \in [Checkers -> [Servers -> Status \cup {NotLoaded}]]
          /\ value' \in [Checkers -> [Servers -> Status \cup {NotLoaded}]]
      BY <2>1 DEF Commit, TypeOK, Nothing
    <3>4. cur' \in [Checkers -> Servers \cup {NoServer}] /\ mailed' \in [Servers -> Mails]
      <4>1. CASE EndRun(c)
        BY <4>1 DEF EndRun, TypeOK
      <4>2. CASE Mail(c)
        <5>1. value[c][cur[c]] \in Mails
          BY <4>2 DEF Mail, SessionsFit, Mails
        <5> QED
          BY <4>2, <5>1 DEF Mail, TypeOK
      <4> QED
        BY <1>5, <4>1, <4>2
    <3> QED
      BY <2>1, <2>2, <3>1, <3>2, <3>3, <3>4 DEF TypeOK
  <2>4. SessionsFit'
    <3>1. \A d \in Checkers, s \in Servers : loaded'[d][s] = NotLoaded <=> value'[d][s] = NotLoaded
      BY <2>1 DEF Commit, Nothing, SessionsFit, TypeOK
    <3>2. \A d \in Checkers \ {c} : cur'[d] = cur[d] /\ step'[d] = step[d] /\ loaded'[d] = loaded[d]
                                    /\ value'[d] = value[d]
      BY <1>5, <2>1, <2>2 DEF Mail, EndRun, Commit, TypeOK, Threads, Checkers
    <3>3. step'[c] \notin {"probe", "mail"}
      BY <2>2 DEF TypeOK, Threads, Checkers
    <3>4. \A t \in Threads : step'[t] \notin {"collect", "regen", "rerender"} => work'[t] = {}
      BY <2>1, <2>2 DEF SessionsFit, TypeOK, Threads, Checkers
    <3>5. work' = work
      BY <2>1
    <3> QED
      BY <3>1, <3>2, <3>3, <3>4, <3>5 DEF SessionsFit
  <2>5. UncommittedIsQueued' /\ OutOfDateIsExplained'
    BY <2>1, CommitKeeps
  <2> QED
    BY <2>3, <2>4, <2>5
<1>6. CASE CommitFails(c)
  <2> USE <1>6 DEF CommitFails, Goto, facts, pending, sites
  <2>1. TypeOK'
    <3>1. mailed' \in [Servers -> Mails]
      BY SentAre
    <3> QED
      BY <3>1 DEF TypeOK, Threads, Checkers, Nothing
  <2>2. SessionsFit'
    BY DEF SessionsFit, TypeOK, Threads, Checkers, Nothing
  <2>3. \A p \in Pools : Uncommitted(p)' => Uncommitted(p)
    BY DEF Uncommitted, Crosses, TypeOK, Members, Checkers, Nothing
  <2>4. UncommittedIsQueued'
    BY <2>3 DEF UncommittedIsQueued
  <2>5. OutOfDateIsExplained'
    BY DEF OutOfDateIsExplained, OutOfDate, Active, EnabledIn, Pending
  <2> QED
    BY <2>1, <2>2, <2>4, <2>5
<1> QED
  BY <1>1, <1>2, <1>3, <1>4, <1>5, <1>6

-----------------------------------------------------------------------------
(* Steps of regenerations *)

\* Pools leave the work of a thread rendered, or with a reason.
LEMMA LeaveKeeps ==
  ASSUME IInv, NEW t \in Renderers, NEW done \in SUBSET Pools,
         step[t] \in {"collect", "regen"}, Leave(t, done),
         UNCHANGED <<real, facts, session, queue, ripe, olds, mailed>>,
         rendered' \in [Pools -> Texts],
         cause' \in [Pools -> Causes],
         \A p \in Pools \ done : rendered'[p] = rendered[p],
         \A p \in Pools : cause'[p] = cause[p] \/ cause'[p] # "none",
         \A p \in done : ~OutOfDate(p)' \/ cause'[p] # "none"
  PROVE  IInv'
<1> USE DEF IInv
<1>0. t \in Threads /\ t # Api
  BY DEF Renderers, Threads
<1>1. \A u \in Threads : work'[u] = IF u = t THEN work[t] \ done ELSE work[u]
  BY <1>0 DEF Leave, TypeOK
<1>2. \E to \in {"idle", "regen"} :
        /\ step' = [step EXCEPT ![t] = to]
        /\ to = "idle" => work'[t] = {}
  BY <1>0, <1>1 DEF Leave, Goto
<1>3. TypeOK'
  BY <1>0, <1>2 DEF TypeOK, Leave, facts, session
<1>4. SessionsFit'
  <2>1. work'[Api] = work[Api]
    BY <1>0, <1>1 DEF Threads
  <2>2. \A c \in Checkers : step'[c] \in {"probe", "mail"} => step'[c] = step[c]
    BY <1>0, <1>2 DEF TypeOK, Threads, Checkers
  <2>3. \A u \in Threads : step'[u] \notin {"collect", "regen", "rerender"} => work'[u] = {}
    BY <1>0, <1>1, <1>2 DEF TypeOK, SessionsFit
  <2> QED
    BY <2>1, <2>2, <2>3 DEF SessionsFit, session
<1>5. \A p \in Pools : Uncommitted(p)' <=> Uncommitted(p)
  BY DEF Uncommitted, session
<1>6. UncommittedIsQueued'
  BY <1>5 DEF UncommittedIsQueued
<1>7. ASSUME NEW p \in Pools, OutOfDate(p)'
      PROVE  p \in Pending' \/ cause'[p] # "none"
  <2>1. CASE p \in done
    BY <2>1, <1>7
  <2>2. CASE p \notin done
    <3>1. OutOfDate(p)
      BY <1>7, <2>2 DEF OutOfDate, Active, EnabledIn, facts
    <3>2. p \in Pending => p \in Pending'
      BY <1>1, <2>2 DEF Pending
    <3> QED
      BY <3>1, <3>2 DEF OutOfDateIsExplained
  <2> QED
    BY <2>1, <2>2
<1> QED
  BY <1>3, <1>4, <1>6, <1>7 DEF OutOfDateIsExplained

LEMMA RaiseKeeps ==
  ASSUME IInv, NEW t \in Renderers, step[t] \in {"collect", "regen"},
         NEW why \in Causes \ {"none"}, Raise(t, why),
         UNCHANGED <<real, facts, session, queue, ripe, olds, mailed>>
  PROVE  IInv'
<1>1. work[t] \in SUBSET Pools
  BY DEF IInv, TypeOK, Renderers, Threads
<1>2. /\ cause' \in [Pools -> Causes]
      /\ \A p \in Pools : cause'[p] = IF p \in work[t] THEN why ELSE cause[p]
  BY DEF Raise, IInv, TypeOK
<1>3. Leave(t, work[t]) /\ rendered' = rendered
  BY DEF Raise
<1>4. rendered' \in [Pools -> Texts]
  BY <1>3 DEF IInv, TypeOK
<1> QED
  BY <1>1, <1>2, <1>3, <1>4, LeaveKeeps

\* What Pass writes is what the database says, or it leaves a reason.
LEMMA Passed ==
  ASSUME TypeOK, NEW p \in Pools, Pass(p), UNCHANGED facts
  PROVE  /\ rendered' \in [Pools -> Texts]
         /\ cause' \in [Pools -> Causes]
         /\ \A q \in Pools \ {p} : rendered'[q] = rendered[q] /\ cause'[q] = cause[q]
         /\ cause'[p] = cause[p] \/ cause'[p] # "none"
         /\ ~OutOfDate(p)' \/ cause'[p] # "none"
<1>1. Active(p)' = Active(p) /\ Active(p) \in Texts
  BY DEF Active, EnabledIn, Members, facts, Texts
<1>2. CASE rendered' = [rendered EXCEPT ![p] = Active(p)] /\ UNCHANGED cause
  <2>1. rendered'[p] = Active(p)
    BY <1>2 DEF TypeOK
  <2>2. ~OutOfDate(p)'
    BY <1>1, <2>1 DEF OutOfDate
  <2> QED
    BY <1>1, <1>2, <2>2 DEF TypeOK
<1>3. CASE cause' = [cause EXCEPT ![p] = "failed"] /\ UNCHANGED rendered
  BY <1>3 DEF TypeOK, Causes
<1> QED
  BY <1>2, <1>3 DEF Pass

LEMMA RegenerationsKeep ==
  ASSUME IInv, NEW t \in Renderers, Regenerate(t) \/ DebounceElapses \/ TakeNothing
  PROVE  IInv'
<1> USE DEF IInv
<1>0. t \in Threads /\ t # Api /\ Health \in Threads
  BY DEF Renderers, Threads
<1>1. CASE DebounceElapses
  <2> USE <1>1 DEF DebounceElapses, sites
  <2>1. TypeOK'
    BY DEF TypeOK, facts, session
  <2>2. SessionsFit'
    BY DEF SessionsFit, session
  <2>3. UncommittedIsQueued' /\ OutOfDateIsExplained'
    BY Unmoved DEF Pending, facts, session
  <2> QED
    BY <2>1, <2>2, <2>3
<1>2. CASE TakeNothing
  <2> USE <1>2, <1>0 DEF TakeNothing, Goto, sites
  <2>1. TypeOK'
    BY DEF TypeOK, facts, session, pending
  <2>2. SessionsFit'
    BY DEF SessionsFit, TypeOK, session, pending, Threads, Checkers
  <2>3. UncommittedIsQueued' /\ OutOfDateIsExplained'
    BY Unmoved DEF Pending, facts, session, pending
  <2> QED
    BY <2>1, <2>2, <2>3
<1>3. CASE Take(t)
  <2> USE <1>3, <1>0 DEF Take, Goto, sites
  <2>1. work[t] = {} /\ step[t] \in {"take", "idle"}
    BY DEF MayTake, SessionsFit
  <2>2. TypeOK'
    <3>1. step' \in [Threads -> {"idle", "check", "probe", "mail", "take", "collect", "regen", "rerender"}]
      BY DEF TypeOK
    <3>2. work' \in [Threads -> SUBSET Pools]
      BY DEF TypeOK
    <3>3. cause' \in [Pools -> Causes]
      BY DEF TypeOK, Causes
    <3> QED
      BY <3>1, <3>2, <3>3 DEF TypeOK, facts, session
  <2>3. SessionsFit'
    <3>1. \A u \in Threads : step'[u] = (IF u = t THEN "collect" ELSE step[u])
      BY DEF TypeOK
    <3>2. \A u \in Threads : work'[u] = (IF u = t THEN queue ELSE work[u])
      BY DEF TypeOK
    <3>3. \A u \in Threads : step'[u] \notin {"collect", "regen", "rerender"} => work'[u] = {}
      BY <3>1, <3>2 DEF SessionsFit
    <3>4. \A c \in Checkers : step'[c] = "probe" => step[c] = "probe"
      BY <3>1 DEF Checkers, Threads
    <3>5. work'[Api] = work[Api]
      BY <3>2 DEF Threads
    <3> QED
      BY <3>3, <3>4, <3>5 DEF SessionsFit, session
  <2>5. UncommittedIsQueued'
    <3>1. ASSUME NEW p \in Pools, Uncommitted(p)' PROVE cause'[p] # "none"
      <4>1. Uncommitted(p)
        BY <3>1 DEF Uncommitted, session
      <4>2. CASE p \in queue
        BY <4>1, <4>2
      <4>3. CASE p \notin queue
        <5>1. cause'[p] = cause[p]
          BY <4>3
        <5> QED
          BY <4>1, <4>3, <5>1 DEF UncommittedIsQueued
      <4> QED
        BY <4>2, <4>3
    <3> QED
      BY <3>1 DEF UncommittedIsQueued
  <2>6. \A p \in Pools : p \in Pending => p \in Pending'
    BY <2>1 DEF Pending, TypeOK
  <2>7. \A p \in Pools : p \in queue => p \in Pending'
    BY DEF Pending, TypeOK
  <2>8. ASSUME NEW p \in Pools, OutOfDate(p)' PROVE p \in Pending' \/ cause'[p] # "none"
    <3>1. OutOfDate(p)
      BY <2>8 DEF OutOfDate, Active, EnabledIn, facts
    <3>2. CASE p \in queue
      BY <2>7, <3>2
    <3>3. CASE p \notin queue
      <4>1. cause'[p] = cause[p]
        BY <3>3
      <4> QED
        BY <2>6, <3>1, <4>1 DEF OutOfDateIsExplained
    <3> QED
      BY <3>2, <3>3
  <2> QED
    BY <2>2, <2>3, <2>5, <2>8 DEF OutOfDateIsExplained
<1>4. CASE Collect(t)
  <2>1. step[t] = "collect" /\ UNCHANGED <<real, facts, session, queue, ripe, olds, mailed>>
    BY <1>4 DEF Collect
  <2>2. CASE Raise(t, "unread")
    BY <2>1, <2>2, <1>0, RaiseKeeps DEF Causes
  <2>3. CASE Leave(t, {}) /\ UNCHANGED <<rendered, cause>>
    <3>1. {} \in SUBSET Pools
      OBVIOUS
    <3>2. /\ rendered' \in [Pools -> Texts] /\ cause' \in [Pools -> Causes]
          /\ \A p \in Pools : rendered'[p] = rendered[p] /\ cause'[p] = cause[p]
      BY <2>3 DEF TypeOK
    <3> QED
      BY <2>1, <2>3, <1>0, <3>1, <3>2, LeaveKeeps
  <2> QED
    BY <1>4, <2>2, <2>3 DEF Collect
<1>5. ASSUME NEW p \in Pools, Render(t, p) PROVE IInv'
  <2>1. /\ step[t] = "regen" /\ UNCHANGED <<real, facts, session, queue, ripe, olds, mailed>>
        /\ Pass(p) /\ Leave(t, {p})
    BY <1>5 DEF Render
  <2> QED
    BY <2>1, <1>0, Passed, LeaveKeeps, {p} \in SUBSET Pools
<1>6. ASSUME NEW p \in Pools, RenderRaises(t, p) PROVE IInv'
  <2>1. /\ step[t] = "regen" /\ UNCHANGED <<real, facts, session, queue, ripe, olds, mailed>>
        /\ \E why \in {"unread", "failed"} : Raise(t, why)
    BY <1>6 DEF RenderRaises
  <2> QED
    BY <2>1, <1>0, RaiseKeeps DEF Causes
<1> QED
  BY <1>1, <1>2, <1>3, <1>4, <1>5, <1>6 DEF Regenerate

-----------------------------------------------------------------------------
(* Steps of the pages, and the end of the process *)

LEMMA PagesKeep ==
  ASSUME IInv, NEW p \in Pools,
         CreatePool(p) \/ (\E s \in Servers : SetServer(s)) \/ Rerender(p) \/ Revert(p)
  PROVE  IInv'
<1> USE DEF IInv
<1>0. Api \in Threads /\ Api \in Checkers
  BY DEF Threads, Checkers
<1>1. ASSUME NEW q \in Pools, step[Api] = "idle", step' = [step EXCEPT ![Api] = "rerender"],
             work' = [work EXCEPT ![Api] = {q}],
             UNCHANGED <<real, db, session, queue, ripe, sites, cause, mailed>>,
             attached' \subseteq Pools, enabled' \subseteq {s \in Servers : PoolOf[s] \in attached'},
             \A r \in Pools \ {q} : (r \in attached' <=> r \in attached) /\ EnabledIn(r)' = EnabledIn(r)
      PROVE  IInv'
  <2> USE <1>1, <1>0 DEF sites
  <2>1. TypeOK'
    BY DEF TypeOK, session
  <2>2. SessionsFit'
    BY DEF SessionsFit, TypeOK, session
  <2>3. \A r \in Pools : Uncommitted(r)' <=> Uncommitted(r)
    BY DEF Uncommitted, session
  <2>4. UncommittedIsQueued'
    BY <2>3 DEF UncommittedIsQueued
  <2>5. work[Api] = {}
    BY DEF SessionsFit
  <2>6. \A r \in Pools : r \in Pending => r \in Pending'
    BY <2>5 DEF Pending, TypeOK
  <2>7. q \in Pending'
    BY DEF Pending, TypeOK
  <2>8. \A r \in Pools \ {q} : OutOfDate(r)' <=> OutOfDate(r)
    BY DEF OutOfDate, Active
  <2> QED
    BY <2>1, <2>2, <2>4, <2>6, <2>7, <2>8 DEF OutOfDateIsExplained
<1>2. CASE CreatePool(p)
  <2> USE <1>2 DEF CreatePool, Goto
  <2>1. attached' \subseteq Pools /\ enabled' \subseteq {s \in Servers : PoolOf[s] \in attached'}
    BY DEF TypeOK, Members
  <2>2. \A r \in Pools \ {p} : (r \in attached' <=> r \in attached) /\ EnabledIn(r)' = EnabledIn(r)
    BY DEF EnabledIn, Members
  <2> QED
    BY <1>1, <2>1, <2>2
<1>3. ASSUME NEW s \in Servers, SetServer(s) PROVE IInv'
  <2> USE <1>3 DEF SetServer, Goto
  <2>1. attached' \subseteq Pools /\ enabled' \subseteq {x \in Servers : PoolOf[x] \in attached'}
    BY DEF TypeOK
  <2>2. PoolOf[s] \in Pools
    OBVIOUS
  <2>3. \A r \in Pools \ {PoolOf[s]} : (r \in attached' <=> r \in attached) /\ EnabledIn(r)' = EnabledIn(r)
    BY DEF EnabledIn, Members
  <2> QED
    BY <1>1, <2>1, <2>2, <2>3
<1>4. CASE Rerender(p)
  <2> USE <1>0
  <2>1. /\ step[Api] = "rerender" /\ UNCHANGED <<real, facts, session, queue, ripe, olds, mailed>>
        /\ step' = [step EXCEPT ![Api] = "idle"] /\ work' = [work EXCEPT ![Api] = {}]
        /\ p \in work[Api]
    BY <1>4 DEF Rerender, Goto
  <2>2. /\ rendered' \in [Pools -> Texts]
        /\ cause' \in [Pools -> Causes]
        /\ \A q \in Pools \ {p} : rendered'[q] = rendered[q] /\ cause'[q] = cause[q]
        /\ cause'[p] = cause[p] \/ cause'[p] # "none"
        /\ ~OutOfDate(p)' \/ cause'[p] # "none"
    <3>1. CASE Pass(p)
      BY <2>1, <3>1, Passed
    <3>2. CASE \E why \in {"unread", "failed"} : cause' = [cause EXCEPT ![p] = why] /\ rendered' = rendered
      BY <3>2 DEF TypeOK, Causes
    <3> QED
      BY <1>4, <3>1, <3>2 DEF Rerender
  <2>3. TypeOK'
    BY <2>1, <2>2 DEF TypeOK, facts, session
  <2>4. SessionsFit'
    BY <2>1 DEF SessionsFit, TypeOK, session
  <2>5. \A q \in Pools : Uncommitted(q)' <=> Uncommitted(q)
    BY <2>1 DEF Uncommitted, session
  <2>6. UncommittedIsQueued'
    BY <2>1, <2>2, <2>5 DEF UncommittedIsQueued
  <2>7. ASSUME NEW q \in Pools, OutOfDate(q)'
        PROVE  q \in Pending' \/ cause'[q] # "none"
    <3>1. CASE q = p
      BY <2>2, <2>7, <3>1
    <3>2. CASE q # p
      <4>1. OutOfDate(q)
        BY <2>1, <2>2, <2>7, <3>2 DEF OutOfDate, Active, EnabledIn, facts
      <4>2. q \notin work[Api]
        BY <2>1, <3>2 DEF SessionsFit
      <4>3. q \in Pending => q \in Pending'
        BY <2>1, <4>2 DEF Pending, TypeOK
      <4> QED
        BY <2>2, <3>2, <4>1, <4>3 DEF OutOfDateIsExplained
    <3> QED
      BY <3>1, <3>2
  <2> QED
    BY <2>3, <2>4, <2>6, <2>7 DEF OutOfDateIsExplained
<1>5. CASE Revert(p)
  <2>1. UNCHANGED <<real, facts, step, session, pending, mailed>>
    BY <1>5 DEF Revert
  <2>2. /\ rendered' \in [Pools -> Texts] /\ olds' \in [Pools -> SUBSET Texts]
        /\ cause' = [cause EXCEPT ![p] = "reverted"] /\ cause' \in [Pools -> Causes]
        /\ \A q \in Pools \ {p} : rendered'[q] = rendered[q] /\ cause'[q] = cause[q]
        /\ cause'[p] = "reverted"
    <3>1. PICK old \in olds[p] : rendered' = [rendered EXCEPT ![p] = old]
      BY <1>5 DEF Revert
    <3>2. old \in Texts
      BY <3>1 DEF TypeOK
    <3>3. rendered' \in [Pools -> Texts] /\ \A q \in Pools \ {p} : rendered'[q] = rendered[q]
      BY <3>1, <3>2 DEF TypeOK
    <3>4. olds[p] \cup {rendered[p]} \in SUBSET Texts
      BY DEF TypeOK
    <3>5. olds' \in [Pools -> SUBSET Texts]
      BY <1>5, <3>4 DEF Revert, TypeOK
    <3>6. cause' = [cause EXCEPT ![p] = "reverted"]
      BY <1>5 DEF Revert
    <3>7. cause' \in [Pools -> Causes] /\ cause'[p] = "reverted"
          /\ \A q \in Pools \ {p} : cause'[q] = cause[q]
      BY <3>6 DEF TypeOK, Causes
    <3> QED
      BY <3>3, <3>5, <3>6, <3>7
  <2>3. TypeOK'
    BY <2>1, <2>2 DEF TypeOK, facts, session, pending
  <2>4. SessionsFit'
    BY <2>1 DEF SessionsFit, session, pending
  <2>5. \A q \in Pools : Uncommitted(q)' <=> Uncommitted(q)
    BY <2>1 DEF Uncommitted, session
  <2>6. UncommittedIsQueued'
    BY <2>1, <2>2, <2>5 DEF UncommittedIsQueued, pending
  <2>7. \A q \in Pools \ {p} : OutOfDate(q)' <=> OutOfDate(q)
    BY <2>1, <2>2 DEF OutOfDate, Active, EnabledIn, facts
  <2> QED
    BY <2>1, <2>2, <2>3, <2>4, <2>6, <2>7 DEF OutOfDateIsExplained, Pending, pending
<1> QED
  BY <1>2, <1>3, <1>4, <1>5

LEMMA CrashKeeps ==
  ASSUME IInv, Crash
  PROVE  IInv'
<1> USE DEF IInv, Crash, sites
<1>1. TypeOK'
  <2>1. mailed' \in [Servers -> Mails]
    BY SentAre
  <2> QED
    BY <2>1 DEF TypeOK, facts, Nothing, Causes
<1>2. SessionsFit'
  BY DEF SessionsFit, Nothing, Threads, Checkers
<1>3. \A p \in Pools : ~Uncommitted(p)'
  BY DEF Uncommitted, Crosses, Nothing, Members
<1>4. \A p \in Pools : cause'[p] = cause[p] \/ cause'[p] # "none"
  OBVIOUS
<1>5. \A p \in Pools : OutOfDate(p)' => OutOfDate(p)
  BY DEF OutOfDate, Active, EnabledIn, facts
<1>6. \A p \in Pools : p \in Pending => cause'[p] # "none"
  OBVIOUS
<1> QED
  BY <1>1, <1>2, <1>3, <1>4, <1>5, <1>6 DEF UncommittedIsQueued, OutOfDateIsExplained

LEMMA FlapKeeps ==
  ASSUME IInv, NEW s \in Servers, Flap(s)
  PROVE  IInv'
<1> USE DEF IInv, Flap, sites
<1>1. TypeOK'
  BY DEF TypeOK, facts, session, pending
<1>2. SessionsFit'
  BY DEF SessionsFit, session, pending
<1>3. UncommittedIsQueued' /\ OutOfDateIsExplained'
  BY Unmoved DEF Pending, facts, session, pending
<1> QED
  BY <1>1, <1>2, <1>3

LEMMA StutterKeeps ==
  ASSUME IInv, UNCHANGED vars
  PROVE  IInv'
<1> USE DEF IInv, vars, facts, session, pending, sites
<1>1. TypeOK'
  BY DEF TypeOK
<1>2. SessionsFit'
  BY DEF SessionsFit
<1>3. UncommittedIsQueued' /\ OutOfDateIsExplained'
  BY Unmoved DEF Pending
<1> QED
  BY <1>1, <1>2, <1>3

LEMMA NextIInv == IInv /\ [Next]_vars => IInv'
<1> SUFFICES ASSUME IInv, [Next]_vars PROVE IInv'
  OBVIOUS
<1>1. CASE Work
  <2>1. CASE BeginRun
    BY <2>1, ChecksKeep DEF Checkers
  <2>2. CASE DebounceElapses \/ TakeNothing
    BY <2>2, RegenerationsKeep DEF Renderers
  <2>3. ASSUME NEW p \in Pools, Rerender(p) PROVE IInv'
    BY <2>3, PagesKeep
  <2>4. ASSUME NEW c \in Checkers, Check(c) \/ CommitFails(c) PROVE IInv'
    BY <2>4, ChecksKeep DEF Check
  <2>5. ASSUME NEW t \in Renderers, Regenerate(t) PROVE IInv'
    BY <2>5, RegenerationsKeep
  <2> QED
    BY <1>1, <2>1, <2>2, <2>3, <2>4, <2>5 DEF Work
<1>2. CASE Disturb
  <2>1. ASSUME NEW s \in Servers, Flap(s) PROVE IInv'
    BY <2>1, FlapKeeps
  <2>2. ASSUME NEW s \in Servers, BeginOne(s) PROVE IInv'
    BY <2>2, ChecksKeep DEF Checkers
  <2>3. ASSUME NEW s \in Servers, SetServer(s) PROVE IInv'
    <3>1. PoolOf[s] \in Pools
      OBVIOUS
    <3> QED
      BY <2>3, <3>1, PagesKeep
  <2>4. ASSUME NEW p \in Pools, CreatePool(p) \/ Revert(p) PROVE IInv'
    BY <2>4, PagesKeep
  <2>5. CASE Crash
    BY <2>5, CrashKeeps
  <2> QED
    BY <1>2, <2>1, <2>2, <2>3, <2>4, <2>5 DEF Disturb
<1>3. CASE UNCHANGED vars
  BY <1>3, StutterKeeps
<1> QED
  BY <1>1, <1>2, <1>3 DEF Next

-----------------------------------------------------------------------------

\* The whole invariant holds in every reachable state.
THEOREM HealthIInv == Spec => []IInv
<1> QED
  BY InitIInv, NextIInv, PTL DEF Spec

\* The sessions, the queue and the rendered upstreams have their types:
\* nothing is ripe in an empty queue, and only servers of created pools are
\* switched on (health_check_service.py, nginx_regen_service.py).
THEOREM HealthTypeOK == Spec => []TypeOK
<1>1. IInv => TypeOK
  BY DEF IInv
<1> QED
  BY HealthIInv, <1>1, PTL

\* An upstream that disagrees with the committed database is waiting for its
\* rendering, or one of the reasons of Causes befell it (NginxRegenService and
\* the sessions of HealthCheckService).
THEOREM OutOfDateAlwaysExplained == Spec => []OutOfDateIsExplained
<1>1. IInv => OutOfDateIsExplained
  BY DEF IInv
<1> QED
  BY HealthIInv, <1>1, PTL

-----------------------------------------------------------------------------
(* The mails *)

\* A server that a run has not judged yet is as the session read it.  A status
\* that turned offline waits for nothing but the commit of its own mail, and a
\* recovery that is being mailed is to be committed.
MailInv ==
    /\ \A c \in Checkers, s \in Servers :
         s \in todo[c] \/ (step[c] = "probe" /\ cur[c] = s) => ~Written(c, s)
    /\ \A c \in Checkers : step[c] = "probe" => cur[c] \notin todo[c]
    /\ \A c \in Checkers, s \in Servers :
         step[c] \notin {"check", "probe", "mail"} => ~Written(c, s) /\ todo[c] = {}
    /\ \A c \in Checkers : step[c] = "mail" => Written(c, cur[c])
    /\ \A c \in Checkers, s \in Servers :
         Written(c, s) /\ value[c][s] = "offline" => step[c] = "mail" /\ cur[c] = s
    /\ OutageIsMailed

LEMMA InitMailInv == Init => MailInv
  BY DEF Init, MailInv, Written, Nothing, OutageIsMailed, Checkers, Threads

\* Nothing that a checker holds changed but where it goes on.
LEMMA SessionStays ==
  ASSUME TypeOK, MailInv, UNCHANGED <<db, session, mailed>>,
         \A c \in Checkers : step'[c] = step[c] \/ (/\ step[c] \notin {"check", "probe", "mail"}
                                                       /\ step'[c] \notin {"check", "probe", "mail"})
  PROVE  MailInv'
<1>1. UNCHANGED <<db, todo, cur, loaded, value, mailed>>
  BY DEF session
<1>2. \A c, s : Written(c, s)' <=> Written(c, s)
  BY <1>1 DEF Written
<1> QED
  BY <1>1, <1>2 DEF MailInv, OutageIsMailed

\* Where a session has not written anything, so it is after it was closed.
LEMMA ClosedSession ==
  ASSUME TypeOK, MailInv, NEW c \in Checkers,
         \A d \in Checkers \ {c} : step'[d] = step[d],
         step'[c] \notin {"probe", "mail"},
         \A d \in Checkers \ {c} : /\ loaded'[d] = loaded[d] /\ value'[d] = value[d]
                                   /\ todo'[d] = todo[d] /\ cur'[d] = cur[d],
         \A s \in Servers : loaded'[c][s] = value'[c][s],
         step'[c] = "check" \/ todo'[c] = {},
         todo'[c] \subseteq Servers,
         OutageIsMailed'
  PROVE  MailInv'
<1>1. \A d \in Checkers \ {c} : \A s : Written(d, s)' <=> Written(d, s)
  BY DEF Written
<1>2. \A s \in Servers : ~Written(c, s)'
  BY DEF Written
<1> QED
  BY <1>1, <1>2 DEF MailInv

\* The steps that read rows, probe, judge, mail and commit.
LEMMA ChecksMail ==
  ASSUME TypeOK, SessionsFit, MailInv, NEW c \in Checkers,
         BeginRun \/ (\E s \in Servers : BeginOne(s) \/ Probe(c, s)) \/ Judge(c) \/ Mail(c) \/ EndRun(c) \/ CommitFails(c)
  PROVE  MailInv'
<1>0. Health \in Checkers /\ Api \in Checkers /\ \A d \in Checkers : d \in Threads
  BY DEF Checkers, Threads
<1>1. CASE BeginRun
  <2> USE <1>0, <1>1 DEF BeginRun, Goto, facts
  <2>1. OutageIsMailed'
    BY DEF MailInv, OutageIsMailed
  <2>2. step'[Health] = "check" /\ \A d \in Checkers \ {Health} : step'[d] = step[d]
    BY DEF TypeOK
  <2>3. \A s \in Servers : loaded'[Health][s] = value'[Health][s]
    BY DEF TypeOK
  <2>4. \A d \in Checkers \ {Health} : /\ loaded'[d] = loaded[d] /\ value'[d] = value[d]
                                        /\ todo'[d] = todo[d] /\ cur'[d] = cur[d]
    BY DEF TypeOK
  <2>5. todo'[Health] \subseteq Servers
    BY DEF TypeOK
  <2> HIDE <1>1
  <2> QED
    BY <2>1, <2>2, <2>3, <2>4, <2>5, ClosedSession
<1>2. ASSUME NEW s \in Servers, BeginOne(s) PROVE MailInv'
  <2> USE <1>0, <1>2 DEF BeginOne, Goto, facts
  <2>1. OutageIsMailed'
    BY DEF MailInv, OutageIsMailed
  <2>2. step'[Api] = "check" /\ \A d \in Checkers \ {Api} : step'[d] = step[d]
    BY DEF TypeOK
  <2>3. \A x \in Servers : loaded'[Api][x] = value'[Api][x]
    BY DEF MailInv, Written
  <2>4. \A d \in Checkers \ {Api} : /\ loaded'[d] = loaded[d] /\ value'[d] = value[d]
                                     /\ todo'[d] = todo[d] /\ cur'[d] = cur[d]
    BY DEF TypeOK
  <2>5. todo'[Api] \subseteq Servers
    BY DEF TypeOK
  <2> HIDE <1>2
  <2> QED
    BY <2>1, <2>2, <2>3, <2>4, <2>5, ClosedSession
<1>3. ASSUME NEW s \in Servers, Probe(c, s) PROVE MailInv'
  <2> USE <1>0, <1>3 DEF Probe, Goto, facts
  <2>1. \A d \in Checkers \ {c} : /\ step'[d] = step[d] /\ cur'[d] = cur[d] /\ todo'[d] = todo[d]
                                   /\ value'[d] = value[d] /\ loaded'[d] = loaded[d]
    BY DEF TypeOK
  <2>2. \A d \in Checkers \ {c} : \A x : Written(d, x)' <=> Written(d, x)
    BY <2>1 DEF Written
  <2>3. /\ step'[c] = "probe" /\ cur'[c] = s /\ todo'[c] = todo[c] \ {s} /\ s \in todo[c]
    BY DEF TypeOK
  <2>4. \A x \in Servers : Written(c, x)' => Written(c, x) /\ x # s /\ value'[c][x] = value[c][x]
    <3>1. ~Written(c, s)
      BY DEF MailInv
    <3>2. CASE loaded[c][s] = NotLoaded
      BY <3>1, <3>2 DEF TypeOK, Written
    <3>3. CASE loaded[c][s] # NotLoaded
      BY <3>1, <3>3 DEF TypeOK, Written
    <3> QED
      BY <3>2, <3>3
  <2>5. step[c] = "check" /\ UNCHANGED <<db, mailed>> /\ todo[c] \subseteq Servers
    BY DEF TypeOK
  <2> HIDE <1>3
  <2> QED
    BY <2>1, <2>2, <2>3, <2>4, <2>5 DEF MailInv, OutageIsMailed
<1>4. CASE Judge(c)
  <2> USE <1>0
  <2>. PICK s \in Servers : s = cur[c]
    BY <1>4 DEF Judge, SessionsFit
  <2>. PICK old, new : old = value[c][s] /\ new = real[s]
    OBVIOUS
  <2>0. /\ step[c] = "probe" /\ value' = [value EXCEPT ![c][s] = new]
        /\ UNCHANGED <<db, mailed, todo, loaded>>
        /\ \/ Crosses(old, new) /\ new # "warning" /\ step' = [step EXCEPT ![c] = "mail"] /\ cur' = cur
           \/ /\ ~(Crosses(old, new) /\ new # "warning")
              /\ step' = [step EXCEPT ![c] = "check"] /\ cur' = [cur EXCEPT ![c] = NoServer]
    BY <1>4 DEF Judge, Goto, facts
  <2>1. ~Written(c, s) /\ s \notin todo[c] /\ todo[c] \subseteq Servers
    BY <2>0 DEF SessionsFit, MailInv, TypeOK
  <2>2. \A d \in Checkers \ {c} : /\ step'[d] = step[d] /\ cur'[d] = cur[d] /\ value'[d] = value[d]
                                   /\ todo'[d] = todo[d] /\ loaded'[d] = loaded[d]
    BY <2>0 DEF TypeOK
  <2>3. \A d \in Checkers \ {c} : \A x : Written(d, x)' <=> Written(d, x)
    BY <2>2 DEF Written
  <2>4. /\ value'[c][s] = new /\ loaded'[c] = loaded[c]
        /\ \A x \in Servers \ {s} : value'[c][x] = value[c][x]
    BY <2>0, <2>1 DEF TypeOK
  <2>5. /\ \A x \in Servers \ {s} : Written(c, x)' <=> Written(c, x)
        /\ Written(c, s)' <=> new # old
    <3>1. loaded[c][s] = old
      BY <2>1 DEF Written
    <3> QED
      BY <2>4, <3>1 DEF Written
  <2>6. \/ step'[c] = "mail" /\ cur'[c] = s /\ Crosses(old, new)
        \/ step'[c] = "check" /\ ~(Crosses(old, new) /\ new # "warning")
    BY <2>0 DEF TypeOK
  <2>7. /\ Crosses(old, new) => new # old
        /\ new = "offline" /\ new # old => Crosses(old, new) /\ new # "warning"
    BY DEF Crosses
  <2>8. \A x \in Servers \ {s} : ~(Written(c, x) /\ value[c][x] = "offline")
    BY <2>0 DEF MailInv
  <2>9. OutageIsMailed'
    BY <2>0 DEF MailInv, OutageIsMailed
  <2>10. \A x \in todo'[c] : ~Written(c, x)'
    BY <2>0, <2>1, <2>5 DEF MailInv
  <2>11. \A x \in Servers : Written(c, x)' /\ value'[c][x] = "offline" => step'[c] = "mail" /\ cur'[c] = x
    BY <2>4, <2>5, <2>6, <2>7, <2>8
  <2>12. step'[c] = "mail" => Written(c, s)' /\ cur'[c] = s
    BY <2>5, <2>6, <2>7
  <2>13. step'[c] \in {"mail", "check"}
    BY <2>6
  <2> QED
    BY <2>2, <2>3, <2>9, <2>10, <2>11, <2>12, <2>13 DEF MailInv
<1>5. CASE Mail(c)
  <2> USE <1>0, <1>5 DEF Mail, Commit, Goto
  <2> DEFINE s == cur[c]
  <2>1. s \in Servers /\ value[c][s] \in {"healthy", "offline"} /\ Written(c, s)
    BY DEF SessionsFit, MailInv
  <2>2. mailed'[s] = value[c][s] /\ db'[s] = value[c][s] /\ \A x \in Servers \ {s} : mailed'[x] = mailed[x]
    BY <2>1 DEF TypeOK
  <2>3. \A x \in Servers \ {s} : db'[x] = "offline" => db[x] = "offline"
    BY DEF MailInv
  <2>4. OutageIsMailed'
    BY <2>1, <2>2, <2>3 DEF MailInv, OutageIsMailed
  <2>5. step'[c] = "check" /\ \A d \in Checkers \ {c} : step'[d] = step[d]
    BY DEF TypeOK
  <2>6. \A x \in Servers : loaded'[c][x] = value'[c][x]
    BY DEF TypeOK
  <2>7. \A d \in Checkers \ {c} : /\ loaded'[d] = loaded[d] /\ value'[d] = value[d]
                                   /\ todo'[d] = todo[d] /\ cur'[d] = cur[d]
    BY DEF TypeOK
  <2>8. todo'[c] \subseteq Servers
    BY DEF TypeOK
  <2> HIDE <1>5
  <2> QED
    BY <2>4, <2>5, <2>6, <2>7, <2>8, ClosedSession
<1>6. CASE EndRun(c)
  <2> USE <1>0, <1>6 DEF EndRun, Commit, Goto
  <2>1. \A x \in Servers : db'[x] = "offline" => db[x] = "offline"
    BY DEF MailInv
  <2>2. OutageIsMailed'
    BY <2>1 DEF MailInv, OutageIsMailed
  <2>3. step'[c] \in {"take", "idle"} /\ \A d \in Checkers \ {c} : step'[d] = step[d]
    BY DEF TypeOK
  <2>4. \A x \in Servers : loaded'[c][x] = value'[c][x]
    BY DEF TypeOK
  <2>5. \A d \in Checkers \ {c} : /\ loaded'[d] = loaded[d] /\ value'[d] = value[d]
                                   /\ todo'[d] = todo[d] /\ cur'[d] = cur[d]
    BY DEF TypeOK
  <2>6. todo'[c] = {}
    OBVIOUS
  <2> HIDE <1>6
  <2> QED
    BY <2>2, <2>3, <2>4, <2>5, <2>6, ClosedSession
<1>7. CASE CommitFails(c)
  <2> USE <1>0, <1>7 DEF CommitFails, Goto, facts
  <2>1. OutageIsMailed'
    <3>1. \A s \in Servers : db'[s] = db[s] /\ mailed'[s] \in {mailed[s], "offline", "unsaved"}
      BY SentAre
    <3> QED
      BY <3>1 DEF MailInv, OutageIsMailed
  <2>2. step'[c] = "idle" /\ todo'[c] = {} /\ \A d \in Checkers \ {c} : step'[d] = step[d]
    BY DEF TypeOK
  <2>3. \A x \in Servers : loaded'[c][x] = value'[c][x]
    BY DEF TypeOK
  <2>4. \A d \in Checkers \ {c} : /\ loaded'[d] = loaded[d] /\ value'[d] = value[d]
                                   /\ todo'[d] = todo[d] /\ cur'[d] = cur[d]
    BY DEF TypeOK
  <2> HIDE <1>7
  <2> QED
    BY <2>1, <2>2, <2>3, <2>4, ClosedSession
<1> QED
  BY <1>1, <1>2, <1>3, <1>4, <1>5, <1>6, <1>7

\* Renderings and pages touch neither statuses nor mails; the end of the
\* process may leave mails without their commits.
LEMMA OthersMail ==
  ASSUME TypeOK, MailInv,
         \/ \E t \in Renderers : Regenerate(t)
         \/ \E p \in Pools : CreatePool(p) \/ Rerender(p) \/ Revert(p)
         \/ \E s \in Servers : SetServer(s) \/ Flap(s)
         \/ DebounceElapses \/ TakeNothing \/ Crash
  PROVE  MailInv'
<1> DEFINE checking == {"check", "probe", "mail"}
<1>1. CASE Crash
  <2>1. \A s \in Servers : db'[s] = db[s] /\ mailed'[s] \in {mailed[s], "offline", "unsaved"}
    BY <1>1, SentAre DEF Crash, facts
  <2>2. OutageIsMailed'
    BY <2>1 DEF MailInv, OutageIsMailed
  <2>3. \A c \in Checkers, s \in Servers : ~Written(c, s)'
    BY <1>1 DEF Crash, Written
  <2>4. \A c \in Checkers : todo'[c] = {} /\ step'[c] = "idle"
    BY <1>1 DEF Crash, Threads, Checkers
  <2> QED
    BY <2>2, <2>3, <2>4 DEF MailInv
<1>2. ASSUME NEW t \in Renderers, Regenerate(t) PROVE MailInv'
  <2>1. UNCHANGED <<db, session, mailed>>
    BY <1>2 DEF Regenerate, Take, Collect, Render, RenderRaises, facts
  <2>2. /\ step[t] \notin checking
        /\ \E to \in {"collect", "idle", "regen"} : step' = [step EXCEPT ![t] = to]
    BY <1>2 DEF Regenerate, Take, MayTake, Collect, Render, RenderRaises, Raise, Leave, Goto
  <2>3. \A c \in Checkers : step'[c] = step[c] \/ (step[c] \notin checking /\ step'[c] \notin checking)
    BY <2>2 DEF TypeOK, Threads, Checkers
  <2> QED
    BY <2>1, <2>3, SessionStays
<1>3. CASE \/ \E p \in Pools : CreatePool(p) \/ Rerender(p) \/ Revert(p)
           \/ \E s \in Servers : SetServer(s) \/ Flap(s)
           \/ DebounceElapses \/ TakeNothing
  <2>1. UNCHANGED <<db, session, mailed>>
    BY <1>3 DEF CreatePool, Rerender, Revert, SetServer, Flap, DebounceElapses, TakeNothing, facts
  <2>2. \/ step' = step
        \/ /\ step[Api] \notin checking
           /\ \E to \in {"rerender", "idle"} : step' = [step EXCEPT ![Api] = to]
        \/ step[Health] = "take" /\ step' = [step EXCEPT ![Health] = "idle"]
    BY <1>3 DEF CreatePool, Rerender, Revert, SetServer, Flap, DebounceElapses, TakeNothing, Goto
  <2>3. \A c \in Checkers : step'[c] = step[c] \/ (step[c] \notin checking /\ step'[c] \notin checking)
    BY <2>2 DEF TypeOK, Threads, Checkers
  <2> QED
    BY <2>1, <2>3, SessionStays
<1> QED
  BY <1>1, <1>2, <1>3

LEMMA NextMailInv == IInv /\ MailInv /\ [Next]_vars => MailInv'
<1> SUFFICES ASSUME IInv, MailInv, [Next]_vars PROVE MailInv'
  OBVIOUS
<1>0. TypeOK /\ SessionsFit
  BY DEF IInv
<1>1. CASE Work
  <2>1. CASE BeginRun
    BY <1>0, <2>1, ChecksMail DEF Checkers
  <2>2. ASSUME NEW c \in Checkers, Check(c) \/ CommitFails(c) PROVE MailInv'
    BY <1>0, <2>2, ChecksMail DEF Check
  <2>3. CASE \/ DebounceElapses \/ TakeNothing
             \/ \E p \in Pools : Rerender(p)
             \/ \E t \in Renderers : Regenerate(t)
    BY <1>0, <2>3, OthersMail
  <2> QED
    BY <1>1, <2>1, <2>2, <2>3 DEF Work
<1>2. CASE Disturb
  <2>1. ASSUME NEW s \in Servers, BeginOne(s) PROVE MailInv'
    BY <1>0, <2>1, ChecksMail DEF Checkers
  <2>2. CASE \/ \E s \in Servers : Flap(s) \/ SetServer(s)
             \/ \E p \in Pools : CreatePool(p) \/ Revert(p)
             \/ Crash
    BY <1>0, <2>2, OthersMail
  <2> QED
    BY <1>2, <2>1, <2>2 DEF Disturb
<1>3. CASE UNCHANGED vars
  BY <1>0, <1>3, SessionStays DEF vars, facts
<1> QED
  BY <1>1, <1>2, <1>3 DEF Next

\* A server that the database has offline was reported by the last mail about
\* it, or a recovery was mailed that was not committed, whatever two sessions
\* do with copies of the same rows (HealthCheckService.check_server and
\* _maybe_notify, NotificationService.dispatch).
THEOREM OutagesAreMailed == Spec => []OutageIsMailed
<1>1. Spec => []MailInv
  BY HealthIInv, InitMailInv, NextMailInv, PTL DEF Spec
<1>2. MailInv => OutageIsMailed
  BY DEF MailInv
<1> QED
  BY <1>1, <1>2, PTL
=============================================================================
