------------------------------ MODULE Mailings ------------------------------
(***************************************************************************)
(* What the periodic jobs mail: metric rules, certificates that expire,    *)
(* thresholds of the machine, status reports.  Each job looks at the       *)
(* database, sends to one address after the other over a server that may   *)
(* refuse each, and commits the log of what it did at the end.  Beside     *)
(* them the event loop changes rules and recipients and sends reports.     *)
(*                                                                         *)
(* Time is kept as ages that stop counting where the code stops looking.   *)
(***************************************************************************)
EXTENDS Naturals, FiniteSets

CONSTANTS
    Emails,         \* recipients that can be entered
    RuleIds,        \* 1..n: rows of metric_alert_rules
    DedupeWindow,   \* DEDUPE_MINUTES
    Interval,       \* interval_hours of the status report
    MaxKeys,        \* bound: deduplication keys of one certificate
    MaxCrashes,     \* bound: processes that die and commits that fail
    Scenarios       \* which of the senders run together

Senders == {"rules", "ssl", "monitor", "report", "api"}

\* Columns enabled and notify_email of a rule: a silent one only writes history.
RuleModes == {"on", "silent", "off"}

ASSUME MailingsConstants ==
    /\ IsFiniteSet(RuleIds) /\ RuleIds = 1..Cardinality(RuleIds)
    /\ {DedupeWindow, Interval, MaxKeys} \subseteq Nat \ {0}
    /\ MaxCrashes \in Nat
    /\ Scenarios \subseteq SUBSET Senders

VARIABLES
    active,         \* the scenario
    subscribed,     \* recipients whose preferences let these mails through
    accepts,        \* addresses the mail server delivers to at the moment
    doing,          \* per sender: the mail it is sending, or Nothing
    rules, high, firedAge,      \* rules, their metric, age of their last firing
    key, keyLogged,             \* the certificate's current key; keys in the log
    breached,                   \* the machine
    lastSentAge,                \* age of the report's last_sent_at
    crashes,
    got,            \* history: the delivery of this step
    keyMails,       \* history: deliveries per key and address
    reportAge, overlapped, twice    \* history, see ReportTwiceIsExplained

dbVars == <<subscribed, rules, firedAge, keyLogged, lastSentAge>>
worldVars == <<accepts, high, key, breached>>
histVars == <<keyMails, reportAge, overlapped, twice>>
vars == <<active, dbVars, worldVars, doing, crashes, got, histVars>>

About(kind, n) == [kind |-> kind, n |-> n]
Abouts == [kind : {"nothing", "monitor", "report"}, n : {0}]
          \cup [kind : {"rule"}, n : RuleIds] \cup [kind : {"ssl"}, n : 1..MaxKeys]

Nothing == [about |-> About("nothing", 0), todo |-> {}]
NoMail == [about |-> About("nothing", 0), to |-> {}]

TypeOK ==
    /\ active \in Scenarios
    /\ subscribed \subseteq Emails /\ accepts \subseteq Emails
    /\ DOMAIN doing = Senders
    /\ \A t \in Senders : doing[t].about \in Abouts /\ doing[t].todo \subseteq Emails
    /\ rules \in [RuleIds -> {"none"} \cup RuleModes] /\ high \in [RuleIds -> BOOLEAN]
    /\ firedAge \in [RuleIds -> 0..DedupeWindow]
    /\ key \in 1..MaxKeys /\ keyLogged \subseteq 1..key
    /\ breached \in BOOLEAN
    /\ lastSentAge \in 0..Interval
    /\ crashes \in 0..MaxCrashes
    /\ got \in [about : Abouts, to : SUBSET Emails]
    /\ keyMails \in [1..MaxKeys -> [Emails -> 0..MaxCrashes + 1]]
    /\ reportAge \in [Emails -> 0..Interval]
    /\ {overlapped, twice} \subseteq BOOLEAN

Init ==
    /\ active \in Scenarios
    /\ subscribed \in SUBSET Emails /\ accepts = Emails
    /\ doing = [t \in Senders |-> Nothing]
    /\ rules = [r \in RuleIds |-> "none"] /\ high = [r \in RuleIds |-> FALSE]
    /\ firedAge = [r \in RuleIds |-> DedupeWindow]
    /\ key = 1 /\ keyLogged = {}
    /\ breached = FALSE
    /\ lastSentAge = Interval
    /\ crashes = 0 /\ got = NoMail
    /\ keyMails = [k \in 1..MaxKeys |-> [e \in Emails |-> 0]]
    /\ reportAge = [e \in Emails |-> Interval]
    /\ overlapped = FALSE /\ twice = FALSE

Idle(t) == t \in active /\ doing[t] = Nothing

-----------------------------------------------------------------------------
(* Sending *)

\* The sender resolves the recipients and starts with them.
Send(t, about) == doing' = [doing EXCEPT ![t] = [about |-> about, todo |-> subscribed]]

\* Deliveries of a certificate's mail, and a scheduled report that comes to
\* somebody who had one less than an interval ago.
Remember(t, e) ==
    LET about == doing[t].about IN
    /\ keyMails' = [k \in 1..MaxKeys |-> [keyMails[k] EXCEPT ![e] =
                       IF about = About("ssl", k) THEN @ + 1 ELSE @]]
    /\ reportAge' = IF about.kind = "report" THEN [reportAge EXCEPT ![e] = 0] ELSE reportAge
    /\ twice' = (twice \/ (t = "report" /\ reportAge[e] < Interval))
    /\ UNCHANGED overlapped

\* Mutant: the first refusal ends the mailing.
DeliverUntilRefused(t, e) ==
    /\ e \in doing[t].todo
    /\ IF e \in accepts
       THEN /\ doing' = [doing EXCEPT ![t].todo = @ \ {e}]
            /\ got' = [about |-> doing[t].about, to |-> {e}] /\ Remember(t, e)
       ELSE doing' = [doing EXCEPT ![t].todo = {}] /\ UNCHANGED <<got, histVars>>
    /\ UNCHANGED <<active, dbVars, worldVars, crashes>>

\* smtp.send_email for one address; it reports a refusal and raises nothing.
Deliver(t, e) ==
    /\ e \in doing[t].todo
    /\ doing' = [doing EXCEPT ![t].todo = @ \ {e}]
    /\ IF e \in accepts
       THEN got' = [about |-> doing[t].about, to |-> {e}] /\ Remember(t, e)
       ELSE UNCHANGED <<got, histVars>>
    /\ UNCHANGED <<active, dbVars, worldVars, crashes>>

Sent(t) == doing[t] # Nothing /\ doing[t].todo = {}
Done(t) == doing' = [doing EXCEPT ![t] = Nothing]

\* The log rows are committed.
Finish(t) ==
    /\ Sent(t) /\ doing[t].about.kind # "report"
    /\ Done(t)
    /\ keyLogged' = keyLogged \cup {k \in 1..MaxKeys : doing[t].about = About("ssl", k)}
    /\ UNCHANGED <<active, subscribed, rules, firedAge, lastSentAge, worldVars, crashes, got, histVars>>

-----------------------------------------------------------------------------
(* Metric rules *)

RecentFire(r) == firedAge[r] < DedupeWindow

Triggered(r) == rules[r] \in {"on", "silent"} /\ high[r]

\* _fire: the firing is committed, then it is mailed if the rule notifies.
Fire(r) ==
    /\ Idle("rules") /\ Triggered(r) /\ ~RecentFire(r)
    /\ firedAge' = [firedAge EXCEPT ![r] = 0]
    /\ IF rules[r] = "on" /\ subscribed # {} THEN Send("rules", About("rule", r)) ELSE UNCHANGED doing
    /\ UNCHANGED <<active, subscribed, rules, keyLogged, lastSentAge, worldVars, crashes, got, histVars>>

\* A new rule gets the highest id in use plus one: SQLite uses the id of a
\* deleted rule again, and the firings of that rule are still in the history.
NextRuleId == CHOOSE n \in 1..Cardinality(RuleIds) + 1 :
    /\ \A r \in RuleIds : r >= n => rules[r] = "none"
    /\ n = 1 \/ rules[n - 1] # "none"

CreateRule ==
    /\ "rules" \in active /\ NextRuleId \in RuleIds
    /\ \E set \in RuleModes : rules' = [rules EXCEPT ![NextRuleId] = set]
    /\ UNCHANGED <<active, subscribed, firedAge, keyLogged, lastSentAge, worldVars, doing, crashes, got, histVars>>

UpdateRule(r) ==
    /\ rules[r] # "none"
    /\ \E set \in RuleModes \ {rules[r]} : rules' = [rules EXCEPT ![r] = set]
    /\ UNCHANGED <<active, subscribed, firedAge, keyLogged, lastSentAge, worldVars, doing, crashes, got, histVars>>

DeleteRule(r) ==
    /\ rules[r] # "none"
    /\ rules' = [rules EXCEPT ![r] = "none"] /\ high' = [high EXCEPT ![r] = FALSE]
    /\ UNCHANGED <<active, subscribed, firedAge, keyLogged, lastSentAge, accepts, key, breached,
                   doing, crashes, got, histVars>>

-----------------------------------------------------------------------------
(* Certificates that expire *)

\* Mutant: a key counts as logged when everybody got the mail.
SslCheckRetries ==
    /\ Idle("ssl") /\ subscribed # {}
    /\ \E e \in subscribed : keyMails[key][e] = 0
    /\ Send("ssl", About("ssl", key))
    /\ UNCHANGED <<active, dbVars, worldVars, crashes, got, histVars>>

\* Mutant: the log is not asked.
SslCheckIgnoresLog ==
    /\ Idle("ssl") /\ subscribed # {}
    /\ Send("ssl", About("ssl", key))
    /\ UNCHANGED <<active, dbVars, worldVars, crashes, got, histVars>>

\* run_daily_checks: the key is made of the certificate, the days it has left
\* and the date; dispatch sends only if no row has it.
SslCheck ==
    /\ Idle("ssl") /\ subscribed # {} /\ key \notin keyLogged
    /\ Send("ssl", About("ssl", key))
    /\ UNCHANGED <<active, dbVars, worldVars, crashes, got, histVars>>

-----------------------------------------------------------------------------
(* Thresholds of the machine *)

\* run_checks on an object made for this run, whose set of active alerts is
\* empty: a breach is always new, and nothing that ended is noticed.
MonitorRun ==
    /\ Idle("monitor") /\ breached
    /\ Send("monitor", About("monitor", 0))
    /\ UNCHANGED <<active, dbVars, worldVars, crashes, got, histVars>>

-----------------------------------------------------------------------------
(* Status reports *)

Due == lastSentAge = Interval

\* maybe_send_scheduled by the job, send_report by a request.
StartReport(t) ==
    /\ t \in {"report", "api"} /\ Idle(t) /\ subscribed # {}
    /\ t = "report" => Due
    /\ Send(t, About("report", 0))
    /\ overlapped' = (overlapped \/ \E u \in Senders : doing[u].about.kind = "report")
    /\ UNCHANGED <<active, dbVars, worldVars, crashes, got, keyMails, reportAge, twice>>

\* Mutant: a report that somebody refused is not counted as sent.
FinishReportIfDelivered(t) ==
    /\ Sent(t) /\ doing[t].about.kind = "report"
    /\ Done(t)
    /\ lastSentAge' = IF subscribed \subseteq accepts THEN 0 ELSE lastSentAge
    /\ UNCHANGED <<active, subscribed, rules, firedAge, keyLogged, worldVars, crashes, got, histVars>>

\* last_sent_at is set whatever became of the mails.
FinishReport(t) ==
    /\ Sent(t) /\ doing[t].about.kind = "report"
    /\ Done(t)
    /\ lastSentAge' = 0
    /\ UNCHANGED <<active, subscribed, rules, firedAge, keyLogged, worldVars, crashes, got, histVars>>

-----------------------------------------------------------------------------
(* Around them *)

\* update_recipient, create_recipient, delete_recipient.
ChangeRecipient(e) ==
    /\ subscribed' = IF e \in subscribed THEN subscribed \ {e} ELSE subscribed \cup {e}
    /\ UNCHANGED <<active, rules, firedAge, keyLogged, lastSentAge, worldVars, doing, crashes, got, histVars>>

\* The mail server, a metric, the machine, the calendar.
World ==
    /\ \/ \E e \in Emails : /\ accepts' = IF e \in accepts THEN accepts \ {e} ELSE accepts \cup {e}
                            /\ UNCHANGED <<high, key, breached>>
       \/ \E r \in RuleIds : /\ rules[r] # "none" /\ high' = [high EXCEPT ![r] = ~@]
                             /\ UNCHANGED <<accepts, key, breached>>
       \/ /\ "monitor" \in active /\ breached' = ~breached
          /\ UNCHANGED <<accepts, high, key>>
       \/ /\ "ssl" \in active /\ key < MaxKeys /\ key' = key + 1
          /\ UNCHANGED <<accepts, high, breached>>
    /\ UNCHANGED <<active, dbVars, doing, crashes, got, histVars>>

\* The process is killed: what was not committed is gone, the mails are not.
Crash ==
    /\ crashes < MaxCrashes
    /\ doing # [t \in Senders |-> Nothing]
    /\ crashes' = crashes + 1
    /\ doing' = [t \in Senders |-> Nothing]
    /\ UNCHANGED <<active, dbVars, worldVars, got, histVars>>

\* A commit fails after the mails: the job ends, its rows are rolled back.
CommitFails(t) ==
    /\ Sent(t) /\ crashes < MaxCrashes
    /\ crashes' = crashes + 1
    /\ Done(t)
    /\ UNCHANGED <<active, dbVars, worldVars, got, histVars>>

Older(age, limit) == IF age < limit THEN age + 1 ELSE age

Tick ==
    /\ firedAge' = [r \in RuleIds |-> Older(firedAge[r], DedupeWindow)]
    /\ lastSentAge' = Older(lastSentAge, Interval)
    /\ reportAge' = [e \in Emails |-> Older(reportAge[e], Interval)]
    /\ got' = NoMail
    /\ UNCHANGED <<active, subscribed, rules, keyLogged, worldVars, doing, crashes, keyMails, overlapped, twice>>

-----------------------------------------------------------------------------

Sending(t) == (\E e \in Emails : Deliver(t, e)) \/ Finish(t) \/ FinishReport(t)
Job(t) ==
    \/ Sending(t)
    \/ t = "rules" /\ \E r \in RuleIds : Fire(r)
    \/ t = "ssl" /\ SslCheck
    \/ t = "monitor" /\ MonitorRun
    \/ StartReport(t)
Requests ==
    \/ CreateRule \/ (\E r \in RuleIds : UpdateRule(r) \/ DeleteRule(r))
    \/ \E e \in Emails : ChangeRecipient(e)

Next == (\E t \in Senders : Job(t) \/ CommitFails(t)) \/ Requests \/ World \/ Crash \/ Tick

Spec == Init /\ [][Next]_vars

\* Jobs are started again and again and end; time passes.
FairSpec ==
    /\ Spec
    /\ WF_vars(Tick)
    /\ \A t \in Senders : WF_vars(Sending(t))
    /\ \A r \in RuleIds : SF_vars(Fire(r))
    /\ WF_vars(MonitorRun)

-----------------------------------------------------------------------------
(* Properties *)

\* Nobody gets two mails of one deduplication key, however often the job runs
\* and whoever was refused, unless the first was not logged: the process died
\* or the commit failed.
KeyIsMailedOnce == \A k \in 1..MaxKeys, e \in Emails : keyMails[k][e] <= 1 + crashes

\* A scheduled report comes to somebody who had a report less than an interval
\* ago only if the process died between sending and committing, or the commit
\* failed, or a request sent one at the same time as the job.
ReportTwiceIsExplained == twice => crashes > 0 \/ overlapped

\* A rule that stays enabled, notifying and triggered is mailed again and again to
\* everybody whose address works, whatever happens to other addresses, other
\* rules, deleted or silent rules with the same id, and mailings cut off; and
\* so is a breach of the system's thresholds that lasts.
StandingAlarmIsMailed ==
    \A e \in Emails :
        /\ \A r \in RuleIds :
            <>[](rules[r] = "on" /\ high[r] /\ e \in subscribed /\ e \in accepts)
                => []<>(got = [about |-> About("rule", r), to |-> {e}])
        /\ <>[]("monitor" \in active /\ breached /\ e \in subscribed /\ e \in accepts)
            => []<>(got = [about |-> About("monitor", 0), to |-> {e}])

=============================================================================
