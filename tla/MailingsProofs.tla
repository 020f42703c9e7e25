---------------------------- MODULE MailingsProofs ----------------------------
(***************************************************************************)
(* One mail per deduplication key and recipient, but for a process that    *)
(* died before it logged; no scheduled report twice in an interval, but    *)
(* for a crash or a request beside the job: for any recipients, rules,     *)
(* keys, crashes, intervals, and senders that run together.                *)
(***************************************************************************)
EXTENDS Mailings, TLAPS

Mail == [about : Abouts, todo : SUBSET Emails]

\* TypeOK without the bound on keyMails, and with the senders' locals as records.
Typed ==
    /\ active \in Scenarios
    /\ subscribed \subseteq Emails /\ accepts \subseteq Emails
    /\ doing \in [Senders -> Mail]
    /\ rules \in [RuleIds -> {"none"} \cup RuleModes] /\ high \in [RuleIds -> BOOLEAN]
    /\ firedAge \in [RuleIds -> 0..DedupeWindow]
    /\ key \in 1..MaxKeys /\ keyLogged \subseteq 1..key
    /\ breached \in BOOLEAN
    /\ lastSentAge \in 0..Interval
    /\ crashes \in 0..MaxCrashes
    /\ got \in [about : Abouts, to : SUBSET Emails]
    /\ keyMails \in [1..MaxKeys -> [Emails -> Nat]]
    /\ reportAge \in [Emails -> 0..Interval]
    /\ overlapped \in BOOLEAN /\ twice \in BOOLEAN

Mails(t, k) == doing[t].about = About("ssl", k)
Reports(t) == doing[t].about.kind = "report"

\* Each sender mails of its own subject; no mail is of a key to come.
OwnAbout ==
    \A t \in Senders :
        /\ doing[t].about.kind = "ssl" => t = "ssl" /\ doing[t].about.n <= key
        /\ Reports(t) => t \in {"report", "api"}

\* Only a crash lets a key be mailed more often than it is logged or on its way.
KeyInv ==
    \A k \in 1..MaxKeys, e \in Emails :
        /\ keyMails[k][e] <= 1 + crashes
        /\ k \notin keyLogged /\ ~Mails("ssl", k) => keyMails[k][e] <= crashes
        /\ Mails("ssl", k) /\ e \in doing["ssl"].todo => keyMails[k][e] <= crashes

\* Without crash or overlap the last report is as old as last_sent_at says, and
\* those the job is yet to reach had none for an interval.
ReportInv ==
    crashes = 0 /\ ~overlapped =>
        /\ ~twice
        /\ ~(Reports("report") /\ Reports("api"))
        /\ ~Reports("report") /\ ~Reports("api") => \A e \in Emails : lastSentAge <= reportAge[e]
        /\ doing["report"].todo # {} => Reports("report")
        /\ \A e \in doing["report"].todo : reportAge[e] = Interval

MInv == Typed /\ OwnAbout /\ KeyInv /\ ReportInv

-----------------------------------------------------------------------------
(* Types *)

LEMMA AboutTypes ==
  /\ About("nothing", 0) \in Abouts /\ About("monitor", 0) \in Abouts /\ About("report", 0) \in Abouts
  /\ \A r \in RuleIds : About("rule", r) \in Abouts
  /\ \A k \in 1..MaxKeys : About("ssl", k) \in Abouts
  /\ \A a \in Abouts, k \in 1..MaxKeys : a = About("ssl", k) <=> a.kind = "ssl" /\ a.n = k
  /\ Nothing \in Mail /\ NoMail \in [about : Abouts, to : SUBSET Emails]
  /\ Nothing.about.kind = "nothing" /\ Nothing.todo = {}
  BY DEF About, Abouts, Nothing, NoMail, Mail

\* What Send, a delivery and the end of a mailing make of the senders.
LEMMA SendIs ==
  ASSUME Typed, NEW t \in Senders, NEW a \in Abouts, Send(t, a)
  PROVE  /\ doing' \in [Senders -> Mail]
         /\ doing'[t].about = a /\ doing'[t].todo = subscribed
         /\ \A u \in Senders \ {t} : doing'[u] = doing[u]
<1>1. [about |-> a, todo |-> subscribed] \in Mail
  BY DEF Typed, Mail
<1> QED
  BY <1>1 DEF Send, Typed

LEMMA DeliverIs ==
  ASSUME Typed, NEW t \in Senders, NEW e \in Emails, Deliver(t, e)
  PROVE  /\ doing' \in [Senders -> Mail]
         /\ doing'[t].about = doing[t].about /\ doing'[t].todo = doing[t].todo \ {e}
         /\ \A u \in Senders \ {t} : doing'[u] = doing[u]
<1>1. doing[t] \in Mail /\ doing \in [Senders -> Mail]
  BY DEF Typed
<1>2. [doing[t] EXCEPT !.todo = @ \ {e}] \in Mail
  BY <1>1 DEF Mail
<1>3. doing' = [doing EXCEPT ![t] = [doing[t] EXCEPT !.todo = @ \ {e}]]
  BY <1>1 DEF Deliver
<1> QED
  BY <1>1, <1>2, <1>3 DEF Mail

LEMMA DoneIs ==
  ASSUME Typed, NEW t \in Senders, Done(t)
  PROVE  /\ doing' \in [Senders -> Mail] /\ doing'[t] = Nothing
         /\ \A u \in Senders \ {t} : doing'[u] = doing[u]
  BY AboutTypes DEF Done, Typed

LEMMA InitTyped == Init => Typed
<1> SUFFICES ASSUME Init PROVE Typed
  OBVIOUS
<1>1. /\ DedupeWindow \in Nat /\ Interval \in Nat /\ MaxKeys \in Nat \ {0} /\ MaxCrashes \in Nat
  BY MailingsConstants
<1>2. doing \in [Senders -> Mail] /\ got \in [about : Abouts, to : SUBSET Emails]
  BY AboutTypes DEF Init
<1>3. key \in 1..MaxKeys /\ keyLogged \subseteq 1..key /\ lastSentAge \in 0..Interval /\ crashes \in 0..MaxCrashes
  BY <1>1 DEF Init
<1>4. /\ firedAge \in [RuleIds -> 0..DedupeWindow] /\ reportAge \in [Emails -> 0..Interval]
      /\ keyMails \in [1..MaxKeys -> [Emails -> Nat]]
  BY <1>1 DEF Init
<1> QED
  BY <1>2, <1>3, <1>4 DEF Init, Typed

LEMMA DeliverTyped ==
  ASSUME Typed, NEW t \in Senders, NEW e \in Emails, Deliver(t, e)
  PROVE  Typed'
<1>1. doing' \in [Senders -> Mail] /\ doing[t].about \in Abouts
  BY DeliverIs DEF Typed, Mail
<1>2. UNCHANGED <<active, dbVars, worldVars, crashes>>
  BY DEF Deliver
<1>3. CASE e \in accepts
  <2>1. Remember(t, e) /\ got' = [about |-> doing[t].about, to |-> {e}]
    BY <1>3 DEF Deliver
  <2>2. keyMails' \in [1..MaxKeys -> [Emails -> Nat]]
    BY <2>1 DEF Remember, Typed
  <2>3. reportAge' \in [Emails -> 0..Interval]
    BY <2>1, MailingsConstants DEF Remember, Typed
  <2>4. twice' \in BOOLEAN /\ overlapped' \in BOOLEAN
    BY <2>1 DEF Remember, Typed
  <2>5. got' \in [about : Abouts, to : SUBSET Emails]
    BY <1>1, <2>1
  <2> QED
    BY <1>1, <1>2, <2>2, <2>3, <2>4, <2>5 DEF Typed, dbVars, worldVars
<1>4. CASE e \notin accepts
  <2>1. UNCHANGED <<got, histVars>>
    BY <1>4 DEF Deliver
  <2> QED
    BY <1>1, <1>2, <2>1 DEF Typed, dbVars, worldVars, histVars
<1> QED
  BY <1>3, <1>4

LEMMA FinishTyped ==
  ASSUME Typed, OwnAbout, NEW t \in Senders, Finish(t)
  PROVE  Typed'
<1>1. doing' \in [Senders -> Mail]
  BY DoneIs DEF Finish
<1>2. keyLogged' \subseteq 1..key
  <2>1. ASSUME NEW k \in 1..MaxKeys, Mails(t, k) PROVE k \in 1..key
    <3>1. doing[t].about.kind = "ssl" /\ doing[t].about.n = k
      BY <2>1 DEF Mails, About
    <3> QED
      BY <3>1 DEF OwnAbout, Typed
  <2> QED
    BY <2>1 DEF Finish, Typed, Mails
<1> QED
  BY <1>1, <1>2 DEF Finish, Typed, worldVars, histVars

\* The start of a mailing changes little but the sender.
LEMMA StartsTyped ==
  ASSUME Typed, doing' \in [Senders -> Mail], overlapped' \in BOOLEAN,
         firedAge' \in [RuleIds -> 0..DedupeWindow],
         UNCHANGED <<active, subscribed, rules, keyLogged, lastSentAge, worldVars, crashes, got,
                     keyMails, reportAge, twice>>
  PROVE  Typed'
  BY DEF Typed, worldVars

LEMMA JobTyped ==
  ASSUME Typed, OwnAbout, NEW t \in Senders, Job(t)
  PROVE  Typed'
<1>0. /\ {"rules", "ssl", "monitor", "report", "api"} \subseteq Senders
      /\ 0 \in 0..DedupeWindow /\ 0 \in 0..Interval /\ key \in 1..MaxKeys
  BY MailingsConstants DEF Senders, Typed
<1>1. ASSUME NEW e \in Emails, Deliver(t, e) PROVE Typed'
  BY <1>1, DeliverTyped
<1>2. CASE Finish(t)
  BY <1>2, FinishTyped
<1>3. CASE FinishReport(t)
  <2>1. doing' \in [Senders -> Mail]
    BY <1>3, DoneIs DEF FinishReport
  <2> QED
    BY <1>0, <1>3, <2>1 DEF FinishReport, Typed, worldVars, histVars
<1>4. ASSUME NEW r \in RuleIds, Fire(r) PROVE Typed'
  <2>1. doing' \in [Senders -> Mail]
    <3>1. CASE Send("rules", About("rule", r))
      BY <1>0, <3>1, SendIs, AboutTypes
    <3>2. CASE UNCHANGED doing
      BY <3>2 DEF Typed
    <3> QED
      BY <1>4, <3>1, <3>2 DEF Fire
  <2>2. firedAge' \in [RuleIds -> 0..DedupeWindow]
    BY <1>0, <1>4 DEF Fire, Typed
  <2>3. /\ UNCHANGED <<active, subscribed, rules, keyLogged, lastSentAge, worldVars, crashes, got, histVars>>
    BY <1>4 DEF Fire
  <2> QED
    BY <2>1, <2>2, <2>3, StartsTyped DEF histVars, Typed
<1>5. CASE SslCheck
  <2>1. doing' \in [Senders -> Mail]
    BY <1>0, <1>5, SendIs, AboutTypes DEF SslCheck
  <2> QED
    BY <1>5, <2>1, StartsTyped DEF SslCheck, dbVars, histVars, Typed
<1>6. CASE MonitorRun
  <2>1. doing' \in [Senders -> Mail]
    BY <1>0, <1>6, SendIs, AboutTypes DEF MonitorRun
  <2> QED
    BY <1>6, <2>1, StartsTyped DEF MonitorRun, dbVars, histVars, Typed
<1>7. CASE StartReport(t)
  <2>1. doing' \in [Senders -> Mail]
    BY <1>7, SendIs, AboutTypes DEF StartReport
  <2>2. overlapped' \in BOOLEAN
    BY <1>7 DEF StartReport, Typed
  <2> QED
    BY <1>7, <2>1, <2>2, StartsTyped DEF StartReport, dbVars, Typed
<1> QED
  BY <1>1, <1>2, <1>3, <1>4, <1>5, <1>6, <1>7 DEF Job, Sending

LEMMA OutsideTyped ==
  ASSUME Typed, Requests \/ World \/ Crash \/ (\E t \in Senders : CommitFails(t)) \/ Tick
  PROVE  Typed'
<1>1. CASE \E e \in Emails : ChangeRecipient(e)
  BY <1>1 DEF ChangeRecipient, Typed, worldVars, histVars
<1>2. CASE CreateRule \/ \E r \in RuleIds : UpdateRule(r) \/ DeleteRule(r)
  <2>1. rules' \in [RuleIds -> {"none"} \cup RuleModes] /\ high' \in [RuleIds -> BOOLEAN]
    BY <1>2 DEF CreateRule, UpdateRule, DeleteRule, Typed, worldVars
  <2>2. UNCHANGED <<active, subscribed, firedAge, keyLogged, lastSentAge, accepts, key, breached, doing, crashes,
                    got, histVars>>
    BY <1>2 DEF CreateRule, UpdateRule, DeleteRule, worldVars
  <2> QED
    BY <2>1, <2>2 DEF Typed, worldVars, histVars
<1>3. CASE World
  <2>1. /\ accepts' \subseteq Emails /\ high' \in [RuleIds -> BOOLEAN] /\ breached' \in BOOLEAN
        /\ key' \in 1..MaxKeys /\ keyLogged \subseteq 1..key'
    <3>1. key' = key \/ (key < MaxKeys /\ key' = key + 1)
      BY <1>3 DEF World
    <3>2. key' \in 1..MaxKeys /\ keyLogged \subseteq 1..key'
      BY <3>1, MailingsConstants DEF Typed
    <3> QED
      BY <1>3, <3>2 DEF World, Typed
  <2> QED
    BY <1>3, <2>1 DEF World, Typed, dbVars, histVars
<1>4. CASE Crash
  <2>1. crashes' \in 0..MaxCrashes
    BY <1>4, MailingsConstants DEF Crash, Typed
  <2>2. doing' \in [Senders -> Mail]
    BY <1>4, AboutTypes DEF Crash
  <2> QED
    BY <1>4, <2>1, <2>2 DEF Crash, Typed, dbVars, worldVars, histVars
<1>6. ASSUME NEW t \in Senders, CommitFails(t) PROVE Typed'
  <2>1. crashes' \in 0..MaxCrashes
    BY <1>6, MailingsConstants DEF CommitFails, Typed
  <2>2. doing' \in [Senders -> Mail]
    BY <1>6, DoneIs DEF CommitFails
  <2> QED
    BY <1>6, <2>1, <2>2 DEF CommitFails, Typed, dbVars, worldVars, histVars
<1>5. CASE Tick
  <2>1. \A limit \in Nat : \A age \in 0..limit : Older(age, limit) \in 0..limit
    BY DEF Older
  <2>2. DedupeWindow \in Nat /\ Interval \in Nat
    BY MailingsConstants
  <2>3. firedAge' \in [RuleIds -> 0..DedupeWindow]
    BY <1>5, <2>1, <2>2 DEF Tick, Typed
  <2>4. lastSentAge' \in 0..Interval
    BY <1>5, <2>1, <2>2 DEF Tick, Typed
  <2>5. reportAge' \in [Emails -> 0..Interval]
    BY <1>5, <2>1, <2>2 DEF Tick, Typed
  <2> QED
    BY <1>5, <2>3, <2>4, <2>5, AboutTypes DEF Tick, Typed, worldVars
<1> QED
  BY <1>1, <1>2, <1>3, <1>4, <1>5, <1>6 DEF Requests

-----------------------------------------------------------------------------
(* Keys and reports *)

Kept == OwnAbout /\ KeyInv /\ ReportInv

LEMMA InitKept == Init => Kept
<1> SUFFICES ASSUME Init PROVE Kept
  OBVIOUS
<1> USE DEF Init
<1>1. \A t \in Senders : doing[t].about.kind = "nothing" /\ doing[t].todo = {}
  BY AboutTypes
<1>2. OwnAbout
  BY <1>1 DEF OwnAbout, Reports
<1>3. KeyInv
  BY DEF KeyInv
<1>4. ReportInv
  <2>1. Interval \in Nat /\ "report" \in Senders /\ "api" \in Senders
    BY MailingsConstants DEF Senders
  <2> QED
    BY <1>1, <2>1 DEF ReportInv, Reports
<1> QED
  BY <1>2, <1>3, <1>4 DEF Kept

\* Requests and the world do not touch what is being sent or was.
LEMMA ElsewhereKept ==
  ASSUME Typed, Kept, key' \in Nat, key <= key',
         UNCHANGED <<doing, keyMails, keyLogged, crashes, lastSentAge, reportAge, overlapped, twice>>
  PROVE  Kept'
<1>1. OwnAbout'
  <2> SUFFICES ASSUME NEW t \in Senders, doing[t].about.kind = "ssl" PROVE doing[t].about.n <= key'
    BY DEF Kept, OwnAbout, Reports
  <2>1. doing[t].about.n <= key /\ doing[t].about.n \in 1..MaxKeys /\ key \in Nat
    <3>1. doing[t].about \in Abouts /\ key \in 1..MaxKeys
      BY DEF Typed, Mail
    <3> QED
      BY <3>1 DEF Abouts, Kept, OwnAbout
  <2> QED
    BY <2>1
<1>2. KeyInv' /\ ReportInv'
  BY DEF Kept, KeyInv, ReportInv, Mails, Reports
<1> QED
  BY <1>1, <1>2 DEF Kept

\* An idle sender begins: a key that is not logged, or a report that is due if
\* it is the job's; a report beside another is an overlap.
LEMMA StartKept ==
  ASSUME Typed, Kept, NEW t \in Senders, NEW a \in Abouts, doing[t] = Nothing, Send(t, a),
         UNCHANGED <<key, keyMails, keyLogged, crashes, lastSentAge, reportAge, twice>>,
         overlapped' = (overlapped \/ (a.kind = "report" /\ \E u \in Senders : Reports(u))),
         a.kind = "ssl" => t = "ssl" /\ a.n <= key /\ a.n \notin keyLogged,
         a.kind = "report" => t \in {"report", "api"},
         t = "report" => a.kind = "report" /\ Due
  PROVE  Kept'
<1>1. /\ doing'[t].about = a /\ doing'[t].todo = subscribed
      /\ \A u \in Senders \ {t} : doing'[u] = doing[u]
      /\ doing[t].about.kind = "nothing" /\ doing[t].todo = {}
  BY SendIs, AboutTypes
<1>2. OwnAbout'
  BY <1>1 DEF Kept, OwnAbout, Reports
<1>3. KeyInv'
  <2> SUFFICES ASSUME NEW k \in 1..MaxKeys, NEW e \in Emails
               PROVE  /\ keyMails[k][e] <= 1 + crashes
                      /\ k \notin keyLogged /\ ~Mails("ssl", k)' => keyMails[k][e] <= crashes
                      /\ Mails("ssl", k)' /\ e \in doing'["ssl"].todo => keyMails[k][e] <= crashes
    BY DEF KeyInv
  <2>1. CASE t = "ssl"
    <3>1. ~Mails("ssl", k)
      BY <1>1, <2>1, AboutTypes DEF Mails, About
    <3>2. Mails("ssl", k)' => k \notin keyLogged
      BY <1>1, <2>1, AboutTypes DEF Mails
    <3> QED
      BY <3>1, <3>2 DEF Kept, KeyInv
  <2>2. CASE t # "ssl"
    <3>1. "ssl" \in Senders
      BY DEF Senders
    <3> QED
      BY <1>1, <2>2, <3>1 DEF Kept, KeyInv, Mails
  <2> QED
    BY <2>1, <2>2
<1>4. ReportInv'
  <2>0. "report" \in Senders /\ "api" \in Senders
    BY DEF Senders
  <2> SUFFICES ASSUME crashes = 0, ~overlapped, ~overlapped'
               PROVE  /\ ~twice
                      /\ ~(Reports("report")' /\ Reports("api")')
                      /\ ~Reports("report")' /\ ~Reports("api")' => \A e \in Emails : lastSentAge <= reportAge[e]
                      /\ doing'["report"].todo # {} => Reports("report")'
                      /\ \A e \in doing'["report"].todo : reportAge[e] = Interval
    BY DEF ReportInv
  <2>1. a.kind = "report" => ~Reports("report") /\ ~Reports("api")
    BY <2>0
  <2>2. Reports(t)' <=> a.kind = "report"
    BY <1>1 DEF Reports
  <2>3. \A u \in Senders \ {t} : (Reports(u)' <=> Reports(u)) /\ doing'[u].todo = doing[u].todo
    BY <1>1 DEF Reports
  <2>4. ~Reports(t)
    BY <1>1 DEF Reports
  <2>5. CASE t = "report"
    <3>1. lastSentAge = Interval /\ \A e \in Emails : lastSentAge <= reportAge[e]
      BY <2>1, <2>5 DEF Due, Kept, ReportInv
    <3>2. \A e \in Emails : reportAge[e] = Interval
      <4>1. \A e \in Emails : reportAge[e] \in 0..Interval
        BY DEF Typed
      <4> QED
        BY <3>1, <4>1, MailingsConstants
    <3>3. subscribed \subseteq Emails /\ ~twice
      BY DEF Typed, Kept, ReportInv
    <3> QED
      BY <1>1, <2>0, <2>1, <2>2, <2>3, <2>5, <3>2, <3>3
  <2>6. CASE t # "report"
    BY <2>0, <2>1, <2>2, <2>3, <2>4, <2>6 DEF Kept, ReportInv
  <2> QED
    BY <2>5, <2>6
<1> QED
  BY <1>2, <1>3, <1>4 DEF Kept

LEMMA DeliverKept ==
  ASSUME Typed, Kept, NEW t \in Senders, NEW e \in Emails, Deliver(t, e)
  PROVE  Kept'
<1>1. /\ doing'[t].about = doing[t].about /\ doing'[t].todo = doing[t].todo \ {e}
      /\ \A u \in Senders \ {t} : doing'[u] = doing[u]
  BY DeliverIs
<1>2. /\ e \in doing[t].todo /\ UNCHANGED <<key, keyLogged, crashes, lastSentAge>>
      /\ UNCHANGED histVars \/ Remember(t, e)
  BY DEF Deliver, dbVars, worldVars
<1>3. \A u \in Senders : /\ doing'[u].about = doing[u].about /\ doing'[u].todo \subseteq doing[u].todo
                         /\ (Reports(u)' <=> Reports(u))
                         /\ \A k \in 1..MaxKeys : Mails(u, k)' <=> Mails(u, k)
  BY <1>1 DEF Reports, Mails
<1>4. {"ssl", "report", "api"} \subseteq Senders
  BY DEF Senders
<1>5. OwnAbout'
  BY <1>2, <1>3 DEF Kept, OwnAbout
<1>6. KeyInv'
  <2> SUFFICES ASSUME NEW k \in 1..MaxKeys, NEW x \in Emails
               PROVE  /\ keyMails'[k][x] <= 1 + crashes
                      /\ k \notin keyLogged /\ ~Mails("ssl", k) => keyMails'[k][x] <= crashes
                      /\ Mails("ssl", k) /\ x \in doing'["ssl"].todo => keyMails'[k][x] <= crashes
    BY <1>2, <1>3, <1>4 DEF KeyInv
  <2>0. /\ keyMails[k][x] \in Nat /\ crashes \in Nat
        /\ keyMails[k][x] <= 1 + crashes
        /\ k \notin keyLogged /\ ~Mails("ssl", k) => keyMails[k][x] <= crashes
        /\ Mails("ssl", k) /\ x \in doing["ssl"].todo => keyMails[k][x] <= crashes
    <3>1. keyMails[k][x] \in Nat /\ crashes \in Nat
      BY DEF Typed
    <3> QED
      BY <3>1 DEF Kept, KeyInv
  <2>1. \/ keyMails'[k][x] = keyMails[k][x]
        \/ Mails(t, k) /\ x = e /\ keyMails'[k][x] = keyMails[k][x] + 1
    <3>1. CASE UNCHANGED histVars
      BY <3>1 DEF histVars
    <3>2. CASE Remember(t, e)
      <4>1. keyMails[k] \in [Emails -> Nat]
        BY DEF Typed
      <4>2. keyMails'[k] = [keyMails[k] EXCEPT ![e] = IF Mails(t, k) THEN @ + 1 ELSE @]
        BY <3>2 DEF Remember, Mails
      <4> QED
        BY <4>1, <4>2
    <3> QED
      BY <1>2, <3>1, <3>2
  <2>2. CASE keyMails'[k][x] = keyMails[k][x]
    BY <1>3, <1>4, <2>0, <2>2
  <2>3. CASE Mails(t, k) /\ x = e /\ keyMails'[k][x] = keyMails[k][x] + 1
    <3>1. t = "ssl"
      BY <2>3 DEF Mails, About, Kept, OwnAbout
    <3>2. e \in doing["ssl"].todo /\ e \notin doing'["ssl"].todo
      BY <1>1, <1>2, <3>1
    <3> QED
      BY <2>0, <2>3, <3>1, <3>2
  <2> QED
    BY <2>1, <2>2, <2>3
<1>7. ReportInv'
  <2>1. overlapped' = overlapped
    BY <1>2 DEF histVars, Remember
  <2> SUFFICES ASSUME crashes = 0, ~overlapped
               PROVE  /\ ~twice'
                      /\ ~(Reports("report") /\ Reports("api"))
                      /\ ~Reports("report") /\ ~Reports("api") => \A x \in Emails : lastSentAge <= reportAge'[x]
                      /\ doing'["report"].todo # {} => Reports("report")
                      /\ \A x \in doing'["report"].todo : reportAge'[x] = Interval
    BY <1>2, <1>3, <1>4, <2>1 DEF ReportInv
  <2>2. /\ ~twice
        /\ ~(Reports("report") /\ Reports("api"))
        /\ ~Reports("report") /\ ~Reports("api") => \A x \in Emails : lastSentAge <= reportAge[x]
        /\ doing["report"].todo # {} => Reports("report")
        /\ \A x \in doing["report"].todo : reportAge[x] = Interval
    BY DEF Kept, ReportInv
  <2>3. doing'["report"].todo \subseteq doing["report"].todo
    BY <1>3, <1>4
  <2>4. CASE UNCHANGED histVars
    BY <2>2, <2>3, <2>4 DEF histVars
  <2>5. CASE Remember(t, e)
    <3>1. ~twice'
      <4>1. t = "report" => reportAge[e] = Interval /\ Interval \in Nat
        BY <1>2, <2>2, MailingsConstants
      <4>2. ~(t = "report" /\ reportAge[e] < Interval)
        BY <4>1
      <4>3. twice' = (twice \/ (t = "report" /\ reportAge[e] < Interval))
        BY <2>5 DEF Remember
      <4> QED
        BY <2>2, <4>2, <4>3, Zenon
    <3>2. CASE Reports(t)
      <4>1. t \in {"report", "api"} /\ reportAge' = [reportAge EXCEPT ![e] = 0]
        BY <2>5, <3>2 DEF Kept, OwnAbout, Remember, Reports
      <4>2. t = "report" => e \notin doing'["report"].todo
        BY <1>1
      <4>3. t = "api" => doing'["report"].todo = {}
        BY <2>2, <2>3, <3>2
      <4>4. \A x \in Emails : x # e => reportAge'[x] = reportAge[x]
        BY <4>1 DEF Typed
      <4>5. doing["report"].todo \subseteq Emails
        BY <1>4 DEF Typed, Mail
      <4>6. \A x \in doing'["report"].todo : reportAge'[x] = Interval
        BY <2>2, <2>3, <4>1, <4>2, <4>3, <4>4, <4>5
      <4> QED
        BY <2>2, <2>3, <3>1, <3>2, <4>1, <4>6
    <3>3. CASE ~Reports(t)
      <4>1. reportAge' = reportAge
        BY <2>5, <3>3 DEF Remember, Reports
      <4> QED
        BY <2>2, <2>3, <3>1, <4>1
    <3> QED
      BY <3>2, <3>3
  <2> QED
    BY <1>2, <2>4, <2>5
<1> QED
  BY <1>5, <1>6, <1>7 DEF Kept

LEMMA FinishKept ==
  ASSUME Typed, Kept, NEW t \in Senders, Finish(t)
  PROVE  Kept'
<1>1. /\ doing'[t] = Nothing /\ doing[t].todo = {} /\ ~Reports(t)
      /\ \A u \in Senders \ {t} : doing'[u] = doing[u]
      /\ UNCHANGED <<key, crashes, lastSentAge, histVars>>
      /\ keyLogged' = keyLogged \cup {k \in 1..MaxKeys : Mails(t, k)}
  BY DoneIs DEF Finish, Sent, Reports, Mails, worldVars
<1>2. Nothing.about.kind = "nothing" /\ Nothing.todo = {}
  BY AboutTypes
<1>3. {"ssl", "report", "api"} \subseteq Senders
  BY DEF Senders
<1>4. \A u \in Senders : /\ (Reports(u)' <=> Reports(u))
                         /\ doing'[u].todo \subseteq doing[u].todo
                         /\ u # t => doing'[u].todo = doing[u].todo
  BY <1>1, <1>2 DEF Reports
<1>5. OwnAbout'
  BY <1>1, <1>2 DEF Kept, OwnAbout, Reports
<1>6. KeyInv'
  <2> SUFFICES ASSUME NEW k \in 1..MaxKeys, NEW e \in Emails
               PROVE  /\ keyMails[k][e] <= 1 + crashes
                      /\ k \notin keyLogged' /\ ~Mails("ssl", k)' => keyMails[k][e] <= crashes
                      /\ Mails("ssl", k)' /\ e \in doing'["ssl"].todo => keyMails[k][e] <= crashes
    BY <1>1 DEF KeyInv, histVars
  <2>1. CASE t = "ssl"
    <3>1. ~Mails("ssl", k)'
      BY <1>1, <1>2, <2>1 DEF Mails, About
    <3> QED
      BY <1>1, <2>1, <3>1 DEF Kept, KeyInv
  <2>2. CASE t # "ssl"
    BY <1>1, <1>3, <2>2 DEF Kept, KeyInv, Mails
  <2> QED
    BY <2>1, <2>2
<1>7. ReportInv'
  <2>1. doing'["report"].todo = doing["report"].todo
    BY <1>1, <1>2, <1>3, <1>4
  <2> QED
    BY <1>1, <1>3, <1>4, <2>1 DEF Kept, ReportInv, histVars
<1> QED
  BY <1>5, <1>6, <1>7 DEF Kept

LEMMA FinishReportKept ==
  ASSUME Typed, Kept, NEW t \in Senders, FinishReport(t)
  PROVE  Kept'
<1>1. /\ doing'[t] = Nothing /\ Reports(t) /\ lastSentAge' = 0
      /\ \A u \in Senders \ {t} : doing'[u] = doing[u]
      /\ UNCHANGED <<key, keyLogged, crashes, histVars>>
  BY DoneIs DEF FinishReport, Reports, worldVars
<1>2. Nothing.about.kind = "nothing" /\ Nothing.todo = {}
  BY AboutTypes
<1>3. {"ssl", "report", "api"} \subseteq Senders
  BY DEF Senders
<1>4. t \in {"report", "api"}
  BY <1>1 DEF Kept, OwnAbout
<1>5. OwnAbout'
  BY <1>1, <1>2 DEF Kept, OwnAbout, Reports
<1>6. KeyInv'
  BY <1>1, <1>3, <1>4 DEF Kept, KeyInv, Mails, histVars
<1>7. ReportInv'
  <2>1. \A e \in Emails : 0 <= reportAge[e]
    BY DEF Typed
  <2>2. \A u \in Senders : Reports(u)' <=> u # t /\ Reports(u)
    BY <1>1, <1>2 DEF Reports
  <2>3. doing'["report"].todo = IF t = "report" THEN {} ELSE doing["report"].todo
    BY <1>1, <1>2, <1>3
  <2> QED
    BY <1>1, <1>3, <1>4, <2>1, <2>2, <2>3 DEF Kept, ReportInv, histVars
<1> QED
  BY <1>5, <1>6, <1>7 DEF Kept

LEMMA JobKept ==
  ASSUME Typed, Kept, NEW t \in Senders, Job(t)
  PROVE  Kept'
<1>0. /\ {"rules", "ssl", "monitor"} \subseteq Senders /\ key \in 1..MaxKeys /\ key \in Nat
      /\ overlapped \in BOOLEAN
  BY MailingsConstants DEF Senders, Typed
<1>1. ASSUME NEW e \in Emails, Deliver(t, e) PROVE Kept'
  BY <1>1, DeliverKept
<1>2. CASE Finish(t)
  BY <1>2, FinishKept
<1>3. CASE FinishReport(t)
  BY <1>3, FinishReportKept
<1>4. ASSUME NEW r \in RuleIds, Fire(r) PROVE Kept'
  <2>1. /\ doing["rules"] = Nothing /\ UNCHANGED <<keyLogged, lastSentAge, worldVars, crashes, histVars>>
    BY <1>4 DEF Fire, Idle
  <2>2. CASE UNCHANGED doing
    BY <1>0, <2>1, <2>2, ElsewhereKept DEF worldVars, histVars
  <2>3. CASE Send("rules", About("rule", r))
    <3> DEFINE a == About("rule", r)
    <3>1. a \in Abouts /\ a.kind = "rule" /\ Send("rules", a)
      BY <2>3, AboutTypes DEF About
    <3> HIDE DEF a
    <3> QED
      BY <1>0, <2>1, <3>1, StartKept DEF worldVars, histVars
  <2> QED
    BY <1>4, <2>2, <2>3 DEF Fire
<1>5. CASE SslCheck
  <2> DEFINE a == About("ssl", key)
  <2>1. a \in Abouts /\ a.kind = "ssl" /\ a.n = key /\ Send("ssl", a)
    BY <1>0, <1>5, AboutTypes DEF About, SslCheck
  <2>2. /\ doing["ssl"] = Nothing /\ key \notin keyLogged /\ UNCHANGED <<dbVars, worldVars, crashes, histVars>>
    BY <1>5 DEF SslCheck, Idle
  <2> HIDE DEF a
  <2> QED
    BY <1>0, <2>1, <2>2, StartKept DEF dbVars, worldVars, histVars
<1>6. CASE MonitorRun
  <2> DEFINE a == About("monitor", 0)
  <2>1. a \in Abouts /\ a.kind = "monitor" /\ Send("monitor", a)
    BY <1>6, AboutTypes DEF About, MonitorRun
  <2>2. /\ doing["monitor"] = Nothing /\ UNCHANGED <<dbVars, worldVars, crashes, histVars>>
    BY <1>6 DEF MonitorRun, Idle
  <2> HIDE DEF a
  <2> QED
    BY <1>0, <2>1, <2>2, StartKept DEF dbVars, worldVars, histVars
<1>7. CASE StartReport(t)
  <2> DEFINE a == About("report", 0)
  <2>1. a \in Abouts /\ a.kind = "report" /\ Send(t, a)
    BY <1>7, AboutTypes DEF About, StartReport
  <2>2. /\ doing[t] = Nothing /\ t \in {"report", "api"} /\ (t = "report" => Due)
        /\ overlapped' = (overlapped \/ \E u \in Senders : Reports(u))
        /\ UNCHANGED <<dbVars, worldVars, crashes, keyMails, reportAge, twice>>
    BY <1>7 DEF StartReport, Idle, Reports
  <2> HIDE DEF a
  <2> QED
    BY <1>0, <2>1, <2>2, StartKept DEF dbVars, worldVars
<1> QED
  BY <1>1, <1>2, <1>3, <1>4, <1>5, <1>6, <1>7 DEF Job, Sending

LEMMA CrashKept == ASSUME Typed, Kept, Crash \/ \E t \in Senders : CommitFails(t) PROVE Kept'
<1>1. /\ \A u \in Senders : doing'[u] = Nothing \/ doing'[u] = doing[u]
      /\ crashes' = crashes + 1 /\ crashes \in Nat
      /\ UNCHANGED <<key, keyLogged, keyMails>>
  <2>1. CASE Crash
    BY <2>1 DEF Crash, Typed, worldVars, dbVars, histVars
  <2>2. ASSUME NEW t \in Senders, CommitFails(t) PROVE <1>1!:
    <3>1. \A u \in Senders : doing'[u] = Nothing \/ doing'[u] = doing[u]
      BY <2>2, DoneIs DEF CommitFails
    <3> QED
      BY <2>2, <3>1 DEF CommitFails, Typed, worldVars, dbVars, histVars
  <2> QED
    BY <2>1, <2>2
<1>2. OwnAbout'
  BY <1>1, AboutTypes DEF Kept, OwnAbout, Reports
<1>3. KeyInv'
  <2>1. \A k \in 1..MaxKeys, e \in Emails : keyMails[k][e] \in Nat /\ keyMails[k][e] <= 1 + crashes
    BY DEF Typed, Kept, KeyInv
  <2>2. "ssl" \in Senders
    BY DEF Senders
  <2> QED
    BY <1>1, <2>1, <2>2 DEF KeyInv
<1>4. ReportInv'
  BY <1>1 DEF ReportInv
<1> QED
  BY <1>2, <1>3, <1>4 DEF Kept

LEMMA TickKept == ASSUME Typed, Kept, Tick PROVE Kept'
<1>1. UNCHANGED <<key, keyLogged, doing, crashes, keyMails, overlapped, twice>>
  BY DEF Tick, worldVars
<1>2. OwnAbout' /\ KeyInv'
  BY <1>1 DEF Kept, OwnAbout, KeyInv, Reports, Mails
<1>3. ReportInv'
  <2>1. /\ lastSentAge \in 0..Interval /\ Interval \in Nat
        /\ \A e \in Emails : reportAge[e] \in 0..Interval
        /\ doing["report"].todo \subseteq Emails
    BY MailingsConstants DEF Typed, Mail, Senders
  <2>2. /\ lastSentAge' = Older(lastSentAge, Interval)
        /\ \A e \in Emails : reportAge'[e] = Older(reportAge[e], Interval)
    BY DEF Tick
  <2>3. \A e \in Emails : lastSentAge <= reportAge[e] => lastSentAge' <= reportAge'[e]
    BY <2>1, <2>2 DEF Older
  <2>4. \A e \in Emails : reportAge[e] = Interval => reportAge'[e] = Interval
    BY <2>1, <2>2 DEF Older
  <2> QED
    BY <1>1, <2>1, <2>3, <2>4 DEF Kept, ReportInv, Reports
<1> QED
  BY <1>2, <1>3 DEF Kept

-----------------------------------------------------------------------------
(* The theorems *)

LEMMA InitMInv == Init => MInv
  BY InitTyped, InitKept DEF MInv, Kept

LEMMA NextMInv == MInv /\ [Next]_vars => MInv'
<1> SUFFICES ASSUME Typed, Kept, [Next]_vars PROVE Typed' /\ Kept'
  BY DEF MInv, Kept
<1>0. OwnAbout /\ key \in Nat
  BY MailingsConstants DEF Kept, Typed
<1>1. ASSUME NEW t \in Senders, Job(t) PROVE Typed' /\ Kept'
  BY <1>0, <1>1, JobTyped, JobKept
<1>2. CASE Requests \/ World
  <2>1. UNCHANGED <<doing, keyMails, keyLogged, crashes, lastSentAge, reportAge, overlapped, twice>>
    BY <1>2 DEF Requests, CreateRule, UpdateRule, DeleteRule, ChangeRecipient, World, dbVars, histVars
  <2>2. key' = key \/ key' = key + 1
    BY <1>2 DEF Requests, CreateRule, UpdateRule, DeleteRule, ChangeRecipient, World, worldVars
  <2>3. key' \in Nat /\ key <= key'
    BY <1>0, <2>2
  <2> QED
    BY <1>2, <2>1, <2>3, OutsideTyped, ElsewhereKept
<1>3. CASE Crash \/ \E t \in Senders : CommitFails(t)
  BY <1>3, OutsideTyped, CrashKept
<1>4. CASE Tick
  BY <1>4, OutsideTyped, TickKept
<1>5. CASE UNCHANGED vars
  <2>1. Typed'
    BY <1>5 DEF vars, dbVars, worldVars, histVars, Typed
  <2>2. Kept'
    BY <1>0, <1>5, ElsewhereKept DEF vars, dbVars, worldVars, histVars
  <2> QED
    BY <2>1, <2>2
<1> QED
  BY <1>1, <1>2, <1>3, <1>4, <1>5 DEF Next

\* What is on its way, logged and remembered fits together in every reachable
\* state.
THEOREM MailingsMInv == Spec => []MInv
<1> QED
  BY InitMInv, NextMInv, PTL DEF Spec

\* Nobody gets more mails of one deduplication key than one, plus the times the
\* process died or a commit failed before one was logged (SslAlertService.run_daily_checks and dispatch: the
\* key is looked up before the first mail and logged after the last).
THEOREM KeysAreMailedOnce == Spec => []KeyIsMailedOnce
<1>1. MInv => KeyIsMailedOnce
  BY DEF MInv, KeyInv, KeyIsMailedOnce
<1> QED
  BY MailingsMInv, <1>1, PTL

\* A scheduled report that comes within an interval of another has a crash, a failed
\* commit or a request beside the job for its reason (maybe_send_scheduled looks at
\* last_sent_at, which send_report sets when every address was tried).
THEOREM ReportsTwiceAreExplained == Spec => []ReportTwiceIsExplained
<1>1. MInv => ReportTwiceIsExplained
  <2> SUFFICES ASSUME MInv, twice, ~(crashes > 0) PROVE overlapped
    BY DEF ReportTwiceIsExplained
  <2>1. crashes = 0
    BY DEF MInv, Typed
  <2> QED
    BY <2>1 DEF MInv, ReportInv
<1> QED
  BY MailingsMInv, <1>1, PTL

\* Type correctness, with the bound the keys give: no counter of mails passes
\* the number of crashes by more than one.
THEOREM MailingsTypeOK == Spec => []TypeOK
<1>1. MInv => TypeOK
  <2> SUFFICES ASSUME MInv PROVE TypeOK
    OBVIOUS
  <2>1. keyMails \in [1..MaxKeys -> [Emails -> 0..MaxCrashes + 1]]
    <3>1. keyMails \in [1..MaxKeys -> [Emails -> Nat]] /\ crashes \in 0..MaxCrashes /\ MaxCrashes \in Nat
      BY MailingsConstants DEF MInv, Typed
    <3>2. \A k \in 1..MaxKeys, e \in Emails : keyMails[k][e] <= 1 + crashes
      BY DEF MInv, KeyInv
    <3>3. \A k \in 1..MaxKeys, e \in Emails : keyMails[k][e] \in 0..MaxCrashes + 1
      BY <3>1, <3>2
    <3>4. \A k \in 1..MaxKeys : keyMails[k] \in [Emails -> 0..MaxCrashes + 1]
      BY <3>1, <3>3
    <3> QED
      BY <3>1, <3>4
  <2>2. DOMAIN doing = Senders /\ \A t \in Senders : doing[t].about \in Abouts /\ doing[t].todo \subseteq Emails
    BY DEF MInv, Typed, Mail
  <2> QED
    BY <2>1, <2>2 DEF MInv, Typed, TypeOK
<1> QED
  BY MailingsMInv, <1>1, PTL
=============================================================================
