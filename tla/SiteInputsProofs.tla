--------------------------- MODULE SiteInputsProofs ---------------------------
(***************************************************************************)
(* For any number of sites, crashes and kinds of change: a site that       *)
(* differs from the database, and a file that is included and missing,     *)
(* have a reason.                                                          *)
(***************************************************************************)
EXTENDS SiteInputs, FiniteSetTheorems, WellFoundedInduction, TLAPS

-----------------------------------------------------------------------------
(* The inductive invariant *)

\* TypeOK once more, with whole records, and with which steps have sites to do.

Pcs == {"idle", "geo include", "waf include", "combine", "install", "remove", "read", "render", "write", "test"}
Acts == [pc : Pcs, todo : SUBSET Sites, tested : BOOLEAN, https : BOOLEAN, out : Texts, backup : Texts]

ActTyped ==
    /\ act \in [Actors -> Acts]
    /\ \A a \in Actors :
          /\ act[a].pc \notin {"idle", "install", "remove"} => act[a].todo # {}
          /\ act[a].tested => \E s \in Sites : act[a].todo = {s}

DataTyped ==
    /\ active \in Scenarios
    /\ rule \in Rules /\ geo \in GeoRules /\ waf \in [Sites -> BOOLEAN] /\ feed \in Feeds
    /\ cert \in BOOLEAN /\ pools \in [Sites -> {"none", "served", "empty"}]
    /\ globalFile \in BOOLEAN /\ feedFile \in BOOLEAN /\ certFiles \in BOOLEAN /\ letsencrypt \in BOOLEAN
    /\ geoFile \in [Sites -> BOOLEAN] /\ wafFile \in [Sites -> BOOLEAN]
    /\ combined \in {"absent", "empty", "feed"} /\ (combined = "feed" => feedFile)
    /\ text \in [Sites -> Texts]
    /\ sync \in {"idle", "combine"} /\ crashes \in 0..MaxCrashes
    /\ excuse \in [{0} \cup Sites -> SUBSET Reasons]

Typed == DataTyped /\ ActTyped

\* The request will still write the site, so that it may differ meanwhile.
Pending(s) ==
    s \in act["api"].todo /\ act["api"].pc \in {"geo include", "waf include", "read", "render", "write"}

\* SitesFollowInputs between the steps of a request.
Followed ==
    /\ \A s \in Sites : excuse[s] = {} => text[s] = Wanted(s, Https(s)) \/ Pending(s)
    /\ \A s \in Sites : "missed" \notin excuse[s]
    /\ excuse[0] = {} => globalFile = GlobalRules \/ act["api"].pc \in {"read", "render"}

\* As long as the list of the feeds is missing, no text includes it, and none
\* that somebody is going to write or to put back.
ThreatListed ==
    combined = "absent" =>
        /\ \A s \in Sites : ~text[s].threat
        /\ \A a \in Actors : ~act[a].out.threat /\ ~act[a].backup.threat

\* What explains that an include of a geo rule or of WAF settings is missing.
Failures == {"raised", "crashed", "raced", "restored"}

\* Geo rules and WAF settings are included alike.
Says(k, t) == IF k = "geo" THEN t.geo ELSE t.waf
File(k) == IF k = "geo" THEN geoFile ELSE wafFile
Applies(k, s) == IF k = "geo" THEN GeoRule(s) ELSE waf[s]
Writing(k) == IF k = "geo" THEN "geo include" ELSE "waf include"

ToWrite(k, s) == s \in act["api"].todo /\ act["api"].pc = Writing(k)
Rewriting(s) == s \in act["api"].todo /\ act["api"].pc \in {"read", "render", "write"}

\* A text that includes the file finds it, unless the request is about to write
\* it or to take the include away.
TextIncludes(k) == \A s \in Sites :
    Says(k, text[s]) /\ excuse[s] \cap Failures = {} =>
        File(k)[s] \/ ToWrite(k, s) \/ (Rewriting(s) /\ ~Applies(k, s))

\* ... and so will the text that an actor has in hand, if the rule it was
\* rendered from still applies: writing it clears the excuses of the site.
WriteIncludes(k) == \A a \in Actors : \A s \in Sites :
    act[a].pc = "write" /\ s = Site(a) /\ Says(k, act[a].out) /\ Applies(k, s) =>
        File(k)[s] \/ ToWrite(k, s)

Included(k) == TextIncludes(k) /\ WriteIncludes(k)

\* DanglingIsExplained follows from all of them where nobody is active.
IInv == Typed /\ Followed /\ ThreatListed /\ Included("geo") /\ Included("waf")

-----------------------------------------------------------------------------
(* Types *)

LEMMA LeastExists ==
  ASSUME NEW S \in SUBSET Nat, S # {}
  PROVE  \E s \in S : \A t \in S : s <= t
<1>1. \E x \in S : \A y \in S : ~(<<y, x>> \in OpToRel(<, Nat))
  BY NatLessThanWellFounded, WFMin
<1>2. \A x, y \in S : ~(<<y, x>> \in OpToRel(<, Nat)) => x <= y
  BY DEF OpToRel
<1> QED
  BY <1>1, <1>2

LEMMA SiteIsTodo ==
  ASSUME ActTyped, NEW a \in Actors, act[a].todo # {}
  PROVE  Site(a) \in act[a].todo /\ Site(a) \in Sites /\ (act[a].tested => act[a].todo = {Site(a)})
<1>1. act[a].todo \subseteq Sites /\ Sites \subseteq Nat
  BY SiteInputsConstants DEF ActTyped, Acts, Sites
<1>2. \E s \in act[a].todo : \A t \in act[a].todo : s <= t
  BY <1>1, LeastExists
<1>3. Site(a) \in act[a].todo
  BY <1>2 DEF Site
<1> QED
  BY <1>1, <1>3 DEF ActTyped

LEMMA RulesTyped ==
  /\ \A r \in Rules : r.on \in BOOLEAN /\ r.site \in {0} \cup Sites
  /\ \A r \in GeoRules : r.on \in BOOLEAN /\ r.site \in {0} \cup Sites
<1>1. \A r \in [scope : {"global", "proxy"}, site : {0} \cup Sites, on : BOOLEAN] :
        r.on \in BOOLEAN /\ r.site \in {0} \cup Sites
  OBVIOUS
<1>2. \A r \in [site : Sites, on : BOOLEAN] : r.on \in BOOLEAN /\ r.site \in {0} \cup Sites
  OBVIOUS
<1>3. /\ [scope |-> "none", site |-> 0, on |-> FALSE].on \in BOOLEAN
      /\ [scope |-> "none", site |-> 0, on |-> FALSE].site \in {0} \cup Sites
  OBVIOUS
<1>4. /\ [site |-> 0, on |-> FALSE].on \in BOOLEAN
      /\ [site |-> 0, on |-> FALSE].site \in {0} \cup Sites
  OBVIOUS
<1>5. \A r \in Rules : r.on \in BOOLEAN /\ r.site \in {0} \cup Sites
  BY <1>1, <1>3 DEF Rules
<1>6. \A r \in GeoRules : r.on \in BOOLEAN /\ r.site \in {0} \cup Sites
  BY <1>2, <1>4 DEF GeoRules
<1> QED
  BY <1>5, <1>6

LEMMA WantedTexts ==
  ASSUME DataTyped, NEW s \in Sites, NEW https
  PROVE  Wanted(s, https) \in Texts
<1>1. rule.on \in BOOLEAN /\ geo.on \in BOOLEAN /\ waf[s] \in BOOLEAN /\ cert \in BOOLEAN
  BY RulesTyped DEF DataTyped
<1>2. CertificatePaths \in {"imported", "letsencrypt"}
  BY DEF CertificatePaths
<1>3. RulesForProxy(s) \in BOOLEAN /\ GlobalRules \in BOOLEAN /\ GeoRule(s) \in BOOLEAN
  BY <1>1 DEF RulesForProxy, GlobalRules, GeoRule
<1> QED
  BY <1>1, <1>2, <1>3 DEF Wanted, Texts

LEMMA IdleTyped ==
  /\ Idle \in Acts /\ Blank \in Texts /\ "api" \in Actors /\ "job" \in Actors
  /\ Idle.pc = "idle" /\ Idle.todo = {} /\ Idle.tested = FALSE /\ Idle.out = Blank /\ Idle.backup = Blank
  BY DEF Idle, Acts, Blank, Texts, Pcs, Actors

\* One actor's step.
LEMMA StepTyped ==
  ASSUME ActTyped, NEW a \in Actors, NEW r \in Acts, act' = [act EXCEPT ![a] = r],
         r.pc \notin {"idle", "install", "remove"} => r.todo # {},
         r.tested => \E s \in Sites : r.todo = {s}
  PROVE  ActTyped'
  BY DEF ActTyped

LEMMA BeginTyped ==
  ASSUME ActTyped, NEW pc \in Pcs, NEW sites \in SUBSET Sites, Begin(pc, sites),
         pc \in {"idle", "install", "remove"} \/ sites # {}
  PROVE  ActTyped'
<1>1. [Idle EXCEPT !.pc = pc, !.todo = sites] \in Acts
  BY DEF Idle, Acts, Blank, Texts, Pcs
<1> QED
  BY <1>1, IdleTyped DEF ActTyped, Begin, Idle

LEMMA RewriteTyped ==
  ASSUME ActTyped, NEW sites \in SUBSET Sites, Rewrite(sites)
  PROVE  ActTyped'
<1>1. CASE sites = {}
  BY <1>1, IdleTyped DEF Rewrite, ActTyped
<1>2. CASE sites # {}
  BY <1>2, BeginTyped DEF Rewrite, Pcs
<1> QED
  BY <1>1, <1>2

LEMMA TestedTyped ==
  ASSUME DataTyped, NEW s \in Sites, NEW https \in BOOLEAN
  PROVE  /\ Tested(s, https) \in Acts /\ Tested(s, https).todo = {s} /\ Tested(s, https).pc = "read"
         /\ Tested(s, https).out = Blank /\ Tested(s, https).backup = text[s] /\ Tested(s, https).tested
  BY IdleTyped DEF DataTyped, Tested, Idle, Acts, Pcs

LEMMA ToldTyped ==
  ASSUME DataTyped, NEW sites, NEW reason \in Reasons, Told(sites, reason)
  PROVE  excuse' \in [{0} \cup Sites -> SUBSET Reasons]
  BY DEF DataTyped, Told

LEMMA FetchedTyped ==
  ASSUME DataTyped, Fetched
  PROVE  feed' \in Feeds /\ feedFile' \in BOOLEAN /\ (feedFile => feedFile')
<1>1. CASE feedFile' = TRUE /\ feed' \in IF Enabled THEN {"on", "on, with addresses"} ELSE {"off", "off, with addresses"}
  BY <1>1 DEF Feeds
<1> QED
  BY <1>1 DEF Fetched, DataTyped

LEMMA TargetsAreSites ==
  ASSUME NEW named \in SUBSET Sites
  PROVE  Targets(named) \in SUBSET Sites
  BY DEF Targets

LEMMA SitesThere == 1 \in Sites /\ 0 \notin Sites /\ Sites \subseteq Nat
  BY SiteInputsConstants DEF Sites

LEMMA NamedAreSites ==
  ASSUME NEW old \in Rules, NEW new \in Rules
  PROVE  Named(old, new) \in SUBSET Sites
  BY RulesTyped DEF Named

LEMMA InitTyped == Init => Typed
<1> SUFFICES ASSUME Init PROVE Typed
  OBVIOUS
<1>1. ActTyped
  BY IdleTyped DEF Init, ActTyped
<1>2. DataTyped
  <2>1. excuse \in [{0} \cup Sites -> SUBSET Reasons] /\ text \in [Sites -> Texts] /\ waf \in [Sites -> BOOLEAN]
    BY IdleTyped DEF Init
  <2>2. rule \in Rules /\ geo \in GeoRules /\ feed \in Feeds /\ letsencrypt \in BOOLEAN
    BY DEF Init, Rules, GeoRules, Feeds
  <2>3. crashes \in 0..MaxCrashes
    BY SiteInputsConstants DEF Init
  <2> QED
    BY <2>1, <2>2, <2>3 DEF Init, DataTyped
<1> QED
  BY <1>1, <1>2 DEF Typed

LEMMA NextTyped == Typed /\ [Next]_vars => Typed'
<1> SUFFICES ASSUME Typed, [Next]_vars PROVE Typed'
  OBVIOUS
<1> USE DEF Typed
<1>1. ASSUME NEW new \in Rules, ChangeIpRule(new) PROVE Typed'
  <2>1. Targets(Named(rule, new)) \in SUBSET Sites
    BY NamedAreSites, TargetsAreSites DEF DataTyped
  <2>2. ActTyped'
    BY <1>1, <2>1, RewriteTyped DEF ChangeIpRule
  <2>3. excuse' \in [{0} \cup Sites -> SUBSET Reasons]
    BY <1>1, ToldTyped DEF ChangeIpRule, Reasons
  <2> QED
    BY <1>1, <2>2, <2>3 DEF ChangeIpRule, DataTyped, fileVars, includeVars
<1>2. ASSUME NEW new \in GeoRules, ChangeGeoRule(new) PROVE Typed'
  <2> DEFINE site == IF new.site = 0 THEN geo.site ELSE new.site
  <2>1. site \in Sites
    <3>1. \A r \in GeoRules : r.site = 0 => r = [site |-> 0, on |-> FALSE]
      BY SitesThere DEF GeoRules
    <3> QED
      BY <1>2, <3>1, RulesTyped DEF ChangeGeoRule, DataTyped
  <2> HIDE DEF site
  <2>2. Begin("geo include", {site}) /\ \E reason \in Reasons : Told({site}, reason)
    BY <1>2 DEF ChangeGeoRule, Reasons, site
  <2>3. ActTyped'
    BY <2>1, <2>2, BeginTyped DEF Pcs
  <2>4. excuse' \in [{0} \cup Sites -> SUBSET Reasons]
    BY <2>2, ToldTyped
  <2> QED
    BY <1>2, <2>3, <2>4 DEF ChangeGeoRule, DataTyped, fileVars, includeVars
<1>3. ASSUME NEW s \in Sites, ChangeWaf(s) PROVE Typed'
  <2>1. ActTyped'
    BY <1>3, BeginTyped DEF ChangeWaf, Pcs
  <2>2. excuse' \in [{0} \cup Sites -> SUBSET Reasons]
    BY <1>3, ToldTyped DEF ChangeWaf, Reasons
  <2> QED
    BY <1>3, <2>1, <2>2 DEF ChangeWaf, DataTyped, fileVars, includeVars
<1>4. ASSUME NEW s \in Sites, ChangePool(s) PROVE Typed'
  <2>1. ActTyped'
    BY <1>4, IdleTyped, TestedTyped DEF ChangePool, ActTyped, Https
  <2>2. excuse' \in [{0} \cup Sites -> SUBSET Reasons]
    BY <1>4, ToldTyped DEF ChangePool, Reasons
  <2> QED
    BY <1>4, <2>1, <2>2 DEF ChangePool, DataTyped, fileVars, includeVars
<1>5. ASSUME NEW s \in Sites, NEW https \in BOOLEAN, Save(s, https) PROVE Typed'
  <2>1. ActTyped'
    BY <1>5, TestedTyped, IdleTyped DEF Save, ActTyped
  <2> QED
    BY <1>5, <2>1 DEF Save, DataTyped, fileVars, includeVars, dbVars
<1>6. CASE WriteGeoInclude
  <2>1. ActTyped'
    BY <1>6, IdleTyped DEF WriteGeoInclude, ActTyped, Acts, Pcs
  <2>2. geoFile' \in [Sites -> BOOLEAN]
    BY <1>6, RulesTyped DEF WriteGeoInclude, DataTyped, GeoRule
  <2> QED
    BY <1>6, <2>1, <2>2 DEF WriteGeoInclude, DataTyped, dbVars
<1>7. CASE WriteWafInclude
  <2>1. ActTyped'
    BY <1>7, IdleTyped DEF WriteWafInclude, ActTyped, Acts, Pcs
  <2> QED
    BY <1>7, <2>1 DEF WriteWafInclude, DataTyped, dbVars
<1>8. CASE ChangeFeed
  <2>1. feed' \in Feeds
    BY <1>8 DEF ChangeFeed, DataTyped, Feeds
  <2> QED
    BY <1>8, <2>1 DEF ChangeFeed, DataTyped, ActTyped, fileVars, includeVars
<1>9. CASE SyncRequest
  <2>1. ActTyped'
    BY <1>9, SitesThere, BeginTyped DEF SyncRequest, Pcs, ActTyped
  <2>2. feed' \in Feeds /\ feedFile' \in BOOLEAN /\ (feedFile => feedFile')
    BY <1>9, FetchedTyped DEF SyncRequest
  <2> QED
    BY <1>9, <2>1, <2>2 DEF SyncRequest, DataTyped, includeVars
<1>10. CASE CombineRequest
  <2>1. ActTyped'
    BY <1>10, TargetsAreSites, RewriteTyped DEF CombineRequest
  <2>2. excuse' \in [{0} \cup Sites -> SUBSET Reasons]
    BY <1>10, ToldTyped DEF CombineRequest, Reasons
  <2>3. combined' \in {"empty", "feed"} /\ (combined' = "feed" => feedFile)
    BY <1>10 DEF CombineRequest, Combined
  <2> QED
    BY <1>10, <2>1, <2>2, <2>3 DEF CombineRequest, DataTyped, dbVars, includeVars
<1>11. CASE BeginImport \/ BeginRemove
  <2>1. ActTyped'
    BY <1>11, BeginTyped DEF BeginImport, BeginRemove, Pcs
  <2>2. excuse' \in [{0} \cup Sites -> SUBSET Reasons]
    <3>1. CASE BeginImport
      BY <3>1 DEF BeginImport, DataTyped
    <3>2. CASE BeginRemove
      <4>1. \A x \in {0} \cup Sites : excuse[x] \subseteq Reasons /\ excuse[x] \cup {"certificate"} \subseteq Reasons
        BY DEF DataTyped, Reasons
      <4> QED
        BY <3>2, <4>1 DEF BeginRemove, DataTyped
    <3> QED
      BY <1>11, <3>1, <3>2
  <2> QED
    BY <1>11, <2>1, <2>2 DEF BeginImport, BeginRemove, DataTyped, dbVars, includeVars
<1>12. CASE EndCertificate
  <2>1. ActTyped'
    BY <1>12, IdleTyped DEF EndCertificate, ActTyped
  <2>2. excuse' \in [{0} \cup Sites -> SUBSET Reasons]
    BY <1>12, ToldTyped DEF EndCertificate, Reasons
  <2> QED
    BY <1>12, <2>1, <2>2 DEF EndCertificate, DataTyped, fileVars, includeVars
<1>13. ASSUME NEW s \in Sites, Regenerate(s) PROVE Typed'
  <2>1. Https(s) \in BOOLEAN
    BY DEF Https
  <2>2. ActTyped'
    <3>1. \E b \in BOOLEAN : act' = [act EXCEPT !["job"] = Tested(s, b)]
      BY <1>13, <2>1 DEF Regenerate
    <3> QED
      BY <3>1, TestedTyped, IdleTyped DEF ActTyped
  <2> QED
    BY <1>13, <2>2 DEF Regenerate, DataTyped, fileVars, includeVars, dbVars
<1>14. CASE SyncJob
  <2>1. feed' \in Feeds /\ feedFile' \in BOOLEAN /\ (feedFile => feedFile')
    BY <1>14, FetchedTyped DEF SyncJob, DataTyped
  <2> QED
    BY <1>14, <2>1 DEF SyncJob, DataTyped, ActTyped, includeVars
<1>15. CASE CombineJob
  <2>2. excuse' \in [{0} \cup Sites -> SUBSET Reasons]
    BY <1>15, ToldTyped DEF CombineJob, Reasons
  <2>3. combined' \in {"empty", "feed"} /\ (combined' = "feed" => feedFile)
    BY <1>15 DEF CombineJob, Combined
  <2> QED
    BY <1>15, <2>2, <2>3 DEF CombineJob, DataTyped, ActTyped, dbVars, includeVars
<1>16. ASSUME NEW a \in Actors, ReadRaises(a) PROVE Typed'
  <2>1. ActTyped'
    BY <1>16, IdleTyped DEF ReadRaises, ActTyped
  <2>2. excuse' \in [{0} \cup Sites -> SUBSET Reasons]
    BY <1>16 DEF ReadRaises, DataTyped, Reasons
  <2> QED
    BY <1>16, <2>1, <2>2 DEF ReadRaises, DataTyped, fileVars, includeVars, dbVars
<1>17. ASSUME NEW a \in Actors, Read(a) PROVE Typed'
  <2>1. act[a].todo # {} /\ Site(a) \in Sites
    BY <1>17, SiteIsTodo DEF Read, ActTyped
  <2>2. PICK out \in Texts : act' = [act EXCEPT ![a].pc = "render", ![a].out = out]
    BY <1>17, <2>1, WantedTexts DEF Read
  <2> DEFINE r == [act[a] EXCEPT !.pc = "render", !.out = out]
  <2>3. ActTyped'
    <3>1. r \in Acts /\ r.todo = act[a].todo /\ r.tested = act[a].tested
      BY DEF ActTyped, Acts, Pcs
    <3>2. act' = [act EXCEPT ![a] = r]
      BY <2>2 DEF ActTyped
    <3> QED
      BY <2>1, <3>1, <3>2, StepTyped DEF ActTyped
  <2> QED
    BY <1>17, <2>3 DEF Read, DataTyped, fileVars, includeVars, dbVars
<1>18. ASSUME NEW a \in Actors, Render(a) PROVE Typed'
  <2>1. act[a].todo # {} /\ Site(a) \in Sites /\ act[a].out \in Texts
    BY <1>18, SiteIsTodo DEF Render, ActTyped, Acts
  <2>2. act' = [act EXCEPT ![a] = Idle] \/ act' = [act EXCEPT ![a] = [@ EXCEPT !.pc = "write"]]
    BY <1>18 DEF Render
  <2> DEFINE r == [act[a] EXCEPT !.pc = "write"]
  <2>3. ActTyped'
    <3>1. r \in Acts /\ r.todo = act[a].todo /\ r.tested = act[a].tested
      BY DEF ActTyped, Acts, Pcs
    <3>2. act' = [act EXCEPT ![a] = Idle] \/ act' = [act EXCEPT ![a] = r]
      BY <2>2
    <3> HIDE DEF r
    <3> QED
      BY <2>1, <3>1, <3>2, StepTyped, IdleTyped DEF ActTyped
  <2>4. excuse' \in [{0} \cup Sites -> SUBSET Reasons]
    BY <1>18 DEF Render, DataTyped, Reasons
  <2>5. globalFile' \in BOOLEAN /\ geoFile' \in [Sites -> BOOLEAN] /\ wafFile' \in [Sites -> BOOLEAN]
    BY <1>18, <2>1 DEF Render, WrittenIncludes, DataTyped, Texts
  <2> QED
    BY <1>18, <2>3, <2>4, <2>5 DEF Render, DataTyped, dbVars
<1>19. ASSUME NEW a \in Actors, Write(a) PROVE Typed'
  <2>1. act[a].todo # {} /\ Site(a) \in Sites /\ act[a].out \in Texts /\ (act[a].tested => act[a].todo = {Site(a)})
    BY <1>19, SiteIsTodo DEF Write, ActTyped, Acts
  <2> DEFINE r == [act[a] EXCEPT !.pc = "test"]
             q == [act[a] EXCEPT !.pc = "read", !.todo = @ \ {Site(a)}]
  <2>2. \/ act' = [act EXCEPT ![a] = r]
        \/ act' = [act EXCEPT ![a] = Idle]
        \/ act[a].todo # {Site(a)} /\ ~act[a].tested /\ act' = [act EXCEPT ![a] = q]
    <3>1. act[a].tested => act' = [act EXCEPT ![a] = r]
      BY <1>19 DEF Write
    <3>2. ~act[a].tested /\ act[a].todo = {Site(a)} => act' = [act EXCEPT ![a] = Idle]
      BY <1>19 DEF Write
    <3>3. ~act[a].tested /\ act[a].todo # {Site(a)} => act' = [act EXCEPT ![a] = q]
      BY <1>19 DEF Write
    <3> QED
      BY <3>1, <3>2, <3>3
  <2>3. ActTyped'
    <3>1. r \in Acts /\ r.todo = act[a].todo /\ r.tested = act[a].tested
      BY DEF ActTyped, Acts, Pcs
    <3>2. q \in Acts /\ q.todo = act[a].todo \ {Site(a)} /\ q.tested = act[a].tested
      BY DEF ActTyped, Acts, Pcs
    <3> HIDE DEF r, q
    <3>3. CASE act' = [act EXCEPT ![a] = q] /\ act[a].todo # {Site(a)} /\ ~act[a].tested
      BY <2>1, <3>2, <3>3, StepTyped
    <3>4. CASE act' = [act EXCEPT ![a] = r]
      BY <2>1, <3>1, <3>4, StepTyped DEF ActTyped
    <3> QED
      BY <2>2, <3>3, <3>4, StepTyped, IdleTyped
  <2>4. excuse' \in [{0} \cup Sites -> SUBSET Reasons]
    BY <1>19 DEF Write, DataTyped, Reasons
  <2> QED
    BY <1>19, <2>1, <2>3, <2>4 DEF Write, DataTyped, dbVars, fileVars, includeVars
<1>20. ASSUME NEW a \in Actors, Test(a) PROVE Typed'
  <2>1. Site(a) \in Sites /\ act[a].backup \in Texts
    BY <1>20, SiteIsTodo DEF Test, ActTyped, Acts
  <2>2. ActTyped'
    BY <1>20, IdleTyped DEF Test, ActTyped
  <2>3. text' \in [Sites -> Texts]
    BY <1>20, <2>1 DEF Test, DataTyped
  <2>4. excuse' \in [{0} \cup Sites -> SUBSET Reasons]
    <3>1. excuse[Site(a)] \cup {"restored"} \in SUBSET Reasons /\ excuse[Site(a)] \in SUBSET Reasons
      BY <2>1 DEF DataTyped, Reasons
    <3> QED
      BY <1>20, <2>1, <3>1 DEF Test, DataTyped
  <2> QED
    BY <1>20, <2>2, <2>3, <2>4 DEF Test, DataTyped, dbVars, fileVars, includeVars
<1>21. CASE Crash
  <2>1. ActTyped'
    BY <1>21, IdleTyped DEF Crash, ActTyped
  <2>2. excuse' \in [{0} \cup Sites -> SUBSET Reasons]
    BY <1>21 DEF Crash, DataTyped, Reasons
  <2>3. crashes' \in 0..MaxCrashes
    BY <1>21, SiteInputsConstants DEF Crash, DataTyped
  <2> QED
    BY <1>21, <2>1, <2>2, <2>3 DEF Crash, DataTyped, dbVars, fileVars, includeVars
<1>22. CASE UNCHANGED vars
  BY <1>22 DEF vars, dbVars, fileVars, includeVars, DataTyped, ActTyped
<1> QED
  BY <1>1, <1>2, <1>3, <1>4, <1>5, <1>6, <1>7, <1>8, <1>9, <1>10, <1>11, <1>12, <1>13, <1>14, <1>15,
     <1>16, <1>17, <1>18, <1>19, <1>20, <1>21, <1>22 DEF Next, Requests, Steps, FeedJob

-----------------------------------------------------------------------------
(* Who differs from the database, and why *)

inputs == <<rule, combined, geo, waf, pools, cert>>

LEMMA SameInputs ==
  ASSUME UNCHANGED inputs
  PROVE  /\ \A s, https : Wanted(s, https)' = Wanted(s, https)
         /\ GlobalRules' = GlobalRules
  BY DEF inputs, Wanted, RulesForProxy, GlobalRules, GeoRule, CertificatePaths

\* A change of the inputs: the request will write the sites it has not told of.
LEMMA ToldFollowed ==
  ASSUME Typed, Followed, NEW sites \in SUBSET Sites, NEW reason, Told(sites, reason),
         UNCHANGED <<text, globalFile>>,
         UNCHANGED act \/ act["api"].pc \notin {"geo include", "waf include", "read", "render", "write"},
         \A s \in sites : Pending(s)',
         sites # {} => GlobalRules' = GlobalRules \/ act'["api"].pc \in {"read", "render"},
         reason = "missed" => \A s \in Sites \ sites : Wanted(s, Https(s))' = Wanted(s, Https(s))
  PROVE  Followed'
<1>1. DOMAIN excuse = {0} \cup Sites
  BY DEF Typed, DataTyped
<1>2. \A s \in Sites : Pending(s) => Pending(s)'
  BY DEF Pending
<1>3. ASSUME NEW s \in Sites
      PROVE  /\ excuse'[s] = {} => (text[s] = Wanted(s, Https(s)))' \/ Pending(s)'
             /\ "missed" \notin excuse'[s]
  <2>1. CASE s \notin sites /\ Wanted(s, Https(s))' # Wanted(s, Https(s))
    <3>1. excuse'[s] = excuse[s] \cup {reason} /\ reason # "missed"
      BY <1>1, <2>1, SitesThere DEF Told
    <3> QED
      BY <3>1 DEF Followed
  <2>2. CASE s \in sites \/ Wanted(s, Https(s))' = Wanted(s, Https(s))
    <3>1. excuse'[s] = excuse[s]
      BY <1>1, <2>2, SitesThere DEF Told
    <3> QED
      BY <1>2, <2>2, <3>1 DEF Followed
  <2> QED
    BY <2>1, <2>2
<1>4. excuse'[0] = {} => (globalFile = GlobalRules)' \/ act'["api"].pc \in {"read", "render"}
  <2>1. CASE sites = {} /\ GlobalRules' # GlobalRules
    BY <1>1, <2>1 DEF Told
  <2>2. CASE sites # {} \/ GlobalRules' = GlobalRules
    <3>1. excuse'[0] = excuse[0]
      BY <1>1, <2>2, SitesThere DEF Told
    <3> QED
      BY <2>2, <3>1 DEF Followed
  <2> QED
    BY <2>1, <2>2
<1> QED
  BY <1>3, <1>4 DEF Followed

\* The inputs stay, and the texts: only what is pending may change.
LEMMA KeptFollowed ==
  ASSUME Typed, Followed, UNCHANGED inputs, UNCHANGED <<text, globalFile>>,
         \A s \in {0} \cup Sites : excuse[s] \subseteq excuse'[s] /\ ("missed" \in excuse'[s] => "missed" \in excuse[s]),
         \A s \in Sites : Pending(s) => Pending(s)' \/ excuse'[s] # {} \/ text[s] = Wanted(s, Https(s)),
         act["api"].pc \in {"read", "render"} =>
           act'["api"].pc \in {"read", "render"} \/ excuse'[0] # {} \/ globalFile = GlobalRules
  PROVE  Followed'
<1>1. \A s \in Sites : Wanted(s, Https(s))' = Wanted(s, Https(s))
  BY SameInputs DEF Https
<1>2. GlobalRules' = GlobalRules
  BY SameInputs
<1> QED
  BY <1>1, <1>2 DEF Followed

LEMMA SilentFollowed ==
  ASSUME Typed, Followed, UNCHANGED inputs, UNCHANGED <<text, globalFile, excuse>>,
         act'["api"] = act["api"] \/ act["api"].pc \notin {"geo include", "waf include", "read", "render", "write"}
           \/ (act'["api"].todo = act["api"].todo /\ act'["api"].pc \in {"read", "render"})
  PROVE  Followed'
  BY KeptFollowed DEF Pending

\* Who is not named by a change of rules is not concerned, but for the rules
\* that hold everywhere and name a site.
LEMMA NamedAreConcerned ==
  ASSUME Typed, NEW new \in Rules, rule' = new, UNCHANGED <<combined, geo, waf, pools, cert, text>>,
         "global" \notin {rule.scope, new.scope}, NEW s \in Sites \ Named(rule, new)
  PROVE  Wanted(s, Https(s))' = Wanted(s, Https(s))
<1>1. s # rule.site /\ s # new.site
  BY SitesThere DEF Named
<1>3. RulesForProxy(s)' = FALSE /\ RulesForProxy(s) = FALSE /\ GlobalRules' = FALSE /\ GlobalRules = FALSE
  BY <1>1 DEF RulesForProxy, GlobalRules
<1> QED
  BY <1>3 DEF Wanted, Https, GeoRule, CertificatePaths

LEMMA ChangeIpRuleFollowed ==
  ASSUME Typed, Followed, NEW new \in Rules, ChangeIpRule(new)
  PROVE  Followed'
<1> DEFINE sites == Targets(Named(rule, new))
           reason == IF sites = {} THEN "raised"
                     ELSE IF {rule.site, new.site} # {0} /\ "global" \in {rule.scope, new.scope} THEN "scope"
                     ELSE "missed"
<1>1. /\ Told(sites, reason) /\ Rewrite(sites) /\ act["api"].pc = "idle"
      /\ rule' = new /\ UNCHANGED <<combined, geo, waf, pools, cert, text, globalFile>>
  BY DEF ChangeIpRule, fileVars, includeVars
<1>2. sites \in SUBSET Sites /\ (sites \in {{}, Sites} \/ (sites = Named(rule, new) /\ sites # {}))
  BY NamedAreSites DEF Targets, Typed, DataTyped
<1>3. ASSUME reason = "missed", NEW s \in Sites \ sites
      PROVE  Wanted(s, Https(s))' = Wanted(s, Https(s))
  <2>1. sites = Named(rule, new) /\ sites # {}
    BY <1>2, <1>3
  <2>2. {rule.site, new.site} # {0}
    BY <2>1 DEF Named
  <2>3. "global" \notin {rule.scope, new.scope}
    BY <1>3, <2>1, <2>2
  <2> HIDE DEF sites, reason
  <2> QED
    BY <1>1, <1>3, <2>1, <2>3, NamedAreConcerned
<1> HIDE DEF sites, reason
<1>4. \A s \in sites : Pending(s)' /\ act'["api"].pc = "read"
  BY <1>1, IdleTyped DEF Rewrite, Begin, Pending, Typed, ActTyped, Idle
<1>5. sites # {} => act'["api"].pc = "read"
  BY <1>4
<1> QED
  BY <1>1, <1>2, <1>3, <1>4, <1>5, ToldFollowed

LEMMA ChangeGeoRuleFollowed ==
  ASSUME Typed, Followed, NEW new \in GeoRules, ChangeGeoRule(new)
  PROVE  Followed'
<1> DEFINE site == IF new.site = 0 THEN geo.site ELSE new.site
           reason == IF 0 \notin {geo.site, new.site} THEN "moved" ELSE "missed"
<1>1. /\ Told({site}, reason) /\ Begin("geo include", {site}) /\ act["api"].pc = "idle"
      /\ geo' = new /\ UNCHANGED <<combined, rule, waf, pools, cert, text, globalFile>> /\ new # geo
  BY DEF ChangeGeoRule, fileVars, includeVars
<1>2. site \in Sites
  <2>1. \A r \in GeoRules : r.site = 0 => r = [site |-> 0, on |-> FALSE]
    BY SitesThere DEF GeoRules
  <2> QED
    BY <1>1, <2>1, RulesTyped DEF Typed, DataTyped
<1>3. GlobalRules' = GlobalRules
  BY <1>1 DEF GlobalRules
<1>4. ASSUME reason = "missed", NEW s \in Sites \ {site}
      PROVE  Wanted(s, Https(s))' = Wanted(s, Https(s))
  <2>1. s # geo.site /\ s # new.site
    BY <1>2, <1>4, SitesThere
  <2>2. GeoRule(s)' = FALSE /\ GeoRule(s) = FALSE
    BY <1>1, <2>1 DEF GeoRule
  <2> QED
    BY <1>1, <2>2 DEF Wanted, Https, RulesForProxy, GlobalRules, CertificatePaths
<1> HIDE DEF site, reason
<1>5. \A s \in {site} : Pending(s)'
  BY <1>1, IdleTyped DEF Begin, Pending, Typed, ActTyped, Idle
<1>6. {site} \in SUBSET Sites
  BY <1>2
<1> QED
  BY <1>1, <1>3, <1>4, <1>5, <1>6, ToldFollowed

LEMMA ChangeWafFollowed ==
  ASSUME Typed, Followed, NEW s \in Sites, ChangeWaf(s)
  PROVE  Followed'
<1>1. /\ Told({s}, "missed") /\ Begin("waf include", {s}) /\ act["api"].pc = "idle"
      /\ waf' = [waf EXCEPT ![s] = ~@] /\ UNCHANGED <<combined, rule, geo, pools, cert, text, globalFile>>
  BY DEF ChangeWaf, fileVars, includeVars
<1>2. GlobalRules' = GlobalRules
  BY <1>1 DEF GlobalRules
<1>3. \A t \in Sites \ {s} : Wanted(t, Https(t))' = Wanted(t, Https(t))
  <2>1. \A t \in Sites \ {s} : waf'[t] = waf[t]
    BY <1>1 DEF Typed, DataTyped
  <2> QED
    BY <1>1, <2>1 DEF Wanted, Https, RulesForProxy, GlobalRules, GeoRule, CertificatePaths
<1>4. \A t \in {s} : Pending(t)'
  BY <1>1, IdleTyped DEF Begin, Pending, Typed, ActTyped, Idle
<1>5. {s} \in SUBSET Sites
  OBVIOUS
<1> QED
  BY <1>1, <1>2, <1>3, <1>4, <1>5, ToldFollowed

LEMMA ChangePoolFollowed ==
  ASSUME Typed, Followed, NEW s \in Sites, ChangePool(s)
  PROVE  Followed'
<1> DEFINE sites == IF Https(s) /\ ~CertificateExists THEN {} ELSE {s}
<1>1. /\ Told(sites, "raised") /\ act["api"].pc = "idle"
      /\ act' = [act EXCEPT !["api"] = IF Https(s) /\ ~CertificateExists THEN Idle ELSE Tested(s, Https(s))]
      /\ UNCHANGED <<rule, text, globalFile>>
  BY DEF ChangePool, fileVars, includeVars
<1>2. GlobalRules' = GlobalRules
  BY <1>1 DEF GlobalRules
<1>3. \A t \in sites : Pending(t)'
  <2>1. Https(s) \in BOOLEAN
    BY DEF Https
  <2>2. sites # {} => sites = {s} /\ \E b \in BOOLEAN : act' = [act EXCEPT !["api"] = Tested(s, b)]
    BY <1>1, <2>1
  <2> HIDE DEF sites
  <2>3. ASSUME NEW b \in BOOLEAN, act' = [act EXCEPT !["api"] = Tested(s, b)] PROVE Pending(s)'
    <3>1. Tested(s, b).todo = {s} /\ Tested(s, b).pc = "read"
      BY TestedTyped DEF Typed
    <3>2. act'["api"] = Tested(s, b)
      BY <2>3, IdleTyped DEF Typed, ActTyped
    <3> QED
      BY <3>1, <3>2 DEF Pending
  <2> QED
    BY <2>2, <2>3
<1> HIDE DEF sites
<1>4. sites \in SUBSET Sites
  BY DEF sites
<1> QED
  BY <1>1, <1>2, <1>3, <1>4, ToldFollowed

LEMMA CombinedFollowed ==
  ASSUME Typed, Followed, CombineRequest \/ CombineJob \/ EndCertificate
  PROVE  Followed'
<1>1. UNCHANGED <<rule, text, globalFile>> /\ GlobalRules' = GlobalRules
  BY DEF CombineRequest, CombineJob, EndCertificate, GlobalRules, dbVars, fileVars, includeVars
<1>2. CASE CombineRequest
  <2> DEFINE sites == Targets({})
  <2>1. Told(sites, "raised") /\ Rewrite(sites) /\ act["api"].pc = "combine" /\ sites \in SUBSET Sites
    BY <1>2, TargetsAreSites DEF CombineRequest
  <2> HIDE DEF sites
  <2>2. \A s \in sites : Pending(s)'
    BY <2>1, IdleTyped DEF Rewrite, Begin, Pending, Typed, ActTyped, Idle
  <2> QED
    BY <1>1, <2>1, <2>2, ToldFollowed
<1>3. CASE CombineJob
  BY <1>1, <1>3, ToldFollowed DEF CombineJob
<1>4. CASE EndCertificate
  <2>1. Told({}, "certificate") /\ act["api"].pc \notin {"geo include", "waf include", "read", "render", "write"}
    BY <1>4 DEF EndCertificate
  <2>2. \A sites \in SUBSET Sites : sites = {} /\ Told(sites, "certificate") => Followed'
    BY <1>1, <2>1, ToldFollowed
  <2> QED
    BY <2>1, <2>2
<1> QED
  BY <1>2, <1>3, <1>4

LEMMA SilentStepsFollowed ==
  ASSUME Typed, Followed,
         \/ WriteGeoInclude \/ WriteWafInclude \/ ChangeFeed \/ SyncRequest \/ SyncJob
         \/ BeginImport \/ UNCHANGED vars
         \/ (\E s \in Sites : Regenerate(s) \/ \E https \in BOOLEAN : Save(s, https))
         \/ (\E a \in Actors : Read(a))
  PROVE  Followed'
<1> DEFINE early == {"idle", "combine", "install", "remove"}
<1>1. CASE WriteGeoInclude \/ WriteWafInclude
  <2>0. act' = [act EXCEPT !["api"].pc = "read"]
    BY <1>1 DEF WriteGeoInclude, WriteWafInclude
  <2>1. act'["api"].todo = act["api"].todo /\ act'["api"].pc = "read"
    BY <2>0, IdleTyped DEF Typed, ActTyped, Acts
  <2> QED
    BY <1>1, <2>1, SilentFollowed DEF WriteGeoInclude, WriteWafInclude, inputs, dbVars
<1>2. CASE ChangeFeed \/ SyncJob \/ UNCHANGED vars
  BY <1>2, SilentFollowed DEF ChangeFeed, SyncJob, vars, inputs, dbVars, fileVars, includeVars
<1>3. CASE SyncRequest \/ BeginImport
  BY <1>3, SilentFollowed DEF SyncRequest, BeginImport, inputs, dbVars, fileVars, includeVars
<1>4. ASSUME NEW s \in Sites, Regenerate(s) PROVE Followed'
  <2>1. act'["api"] = act["api"]
    BY <1>4, IdleTyped DEF Regenerate, Typed, ActTyped
  <2> QED
    BY <1>4, <2>1, SilentFollowed DEF Regenerate, inputs, dbVars, fileVars, includeVars
<1>5. ASSUME NEW s \in Sites, NEW https \in BOOLEAN, Save(s, https) PROVE Followed'
  BY <1>5, SilentFollowed DEF Save, inputs, dbVars, fileVars, includeVars
<1>6. ASSUME NEW a \in Actors, Read(a) PROVE Followed'
  <2>1. act'["api"] = act["api"] \/ (act'["api"].todo = act["api"].todo /\ act'["api"].pc = "render")
    BY <1>6, IdleTyped DEF Read, Typed, ActTyped, Acts
  <2> QED
    BY <1>6, <2>1, SilentFollowed DEF Read, inputs, dbVars, fileVars, includeVars
<1> QED
  BY <1>1, <1>2, <1>3, <1>4, <1>5, <1>6

LEMMA ExcusedStepsFollowed ==
  ASSUME Typed, Followed, BeginRemove \/ Crash \/ \E a \in Actors : ReadRaises(a)
  PROVE  Followed'
<1>0. UNCHANGED inputs /\ UNCHANGED <<text, globalFile>>
  BY DEF BeginRemove, Crash, ReadRaises, inputs, dbVars, fileVars, includeVars
<1>1. CASE BeginRemove
  <2>1. \A s \in {0} \cup Sites : excuse[s] \subseteq excuse'[s] /\ ("missed" \in excuse'[s] => "missed" \in excuse[s])
    BY <1>1 DEF BeginRemove, Typed, DataTyped
  <2> QED
    BY <1>0, <1>1, <2>1, KeptFollowed DEF BeginRemove, Pending
<1>2. CASE Crash
  <2>1. \A s \in {0} \cup Sites : excuse[s] \subseteq excuse'[s] /\ ("missed" \in excuse'[s] => "missed" \in excuse[s])
    BY <1>2 DEF Crash, Typed, DataTyped
  <2>2. \A s \in Sites : Pending(s) => excuse'[s] # {}
    BY <1>2, IdleTyped DEF Crash, Pending, Typed, DataTyped
  <2>3. act["api"].pc \in {"read", "render"} => excuse'[0] # {}
    BY <1>2, IdleTyped DEF Crash, Typed, DataTyped, ActTyped
  <2> QED
    BY <1>0, <2>1, <2>2, <2>3, KeptFollowed
<1>3. ASSUME NEW a \in Actors, ReadRaises(a) PROVE Followed'
  <2>0. \A t \in {0} \cup Sites :
          excuse'[t] = excuse[t] \cup (IF t \in LeftBehind(act[a].todo) THEN {"raised"} ELSE {})
    BY <1>3 DEF ReadRaises, Typed, DataTyped
  <2>1. \A s \in {0} \cup Sites : excuse[s] \subseteq excuse'[s] /\ ("missed" \in excuse'[s] => "missed" \in excuse[s])
    BY <2>0
  <2>2. CASE a = "job"
    <3>1. act'["api"] = act["api"]
      BY <1>3, <2>2, IdleTyped DEF ReadRaises, Typed, ActTyped
    <3> QED
      BY <1>0, <2>1, <3>1, KeptFollowed DEF Pending
  <2>3. CASE a = "api"
    <3>1. \A s \in Sites : Pending(s) => excuse'[s] # {} \/ text[s] = Wanted(s, Https(s))
      BY <2>0, <2>3 DEF Pending, LeftBehind
    <3>2. excuse'[0] # {} \/ globalFile = GlobalRules
      BY <2>0 DEF LeftBehind
    <3> QED
      BY <1>0, <2>1, <3>1, <3>2, KeptFollowed
  <2> QED
    BY <2>2, <2>3 DEF Actors
<1> QED
  BY <1>1, <1>2, <1>3

LEMMA RenderFollowed ==
  ASSUME Typed, Followed, NEW a \in Actors, Render(a)
  PROVE  Followed'
<1> DEFINE s == Site(a)
           raised == pools[s] = "empty"
           raced == IF UpToDate(s, act[a].out) THEN {} ELSE {"raced"}
<1>0. s \in Sites /\ s \in act[a].todo
  BY SiteIsTodo DEF Render, Typed, ActTyped
<1>1. UNCHANGED inputs /\ UNCHANGED text
  BY DEF Render, inputs, dbVars
<1>2. \A t \in Sites : Wanted(t, Https(t))' = Wanted(t, Https(t)) /\ GlobalRules' = GlobalRules
  BY <1>1, SameInputs DEF Https
<1>3. excuse'[0] = raced
  BY DEF Render, Typed, DataTyped
<1>4. excuse'[0] = {} => globalFile' = GlobalRules
  <2>1. UpToDate(s, act[a].out) => act[a].out.global = GlobalRules
    BY DEF UpToDate, Wanted
  <2> QED
    BY <1>3, <2>1 DEF Render, WrittenIncludes
<1>5. \A t \in Sites : excuse'[t] = excuse[t] \cup (IF t = s THEN raced ELSE {})
                         \cup (IF raised /\ t \in LeftBehind(act[a].todo) THEN {"raised"} ELSE {})
  BY SitesThere DEF Render, Typed, DataTyped
<1>6. \A t \in Sites : excuse[t] \subseteq excuse'[t] /\ ("missed" \in excuse'[t] => "missed" \in excuse[t])
  BY <1>5
<1>7. act' = [act EXCEPT ![a] = IF raised THEN Idle ELSE [@ EXCEPT !.pc = "write"]]
  BY DEF Render
<1>8. \A t \in Sites : Pending(t) => Pending(t)' \/ excuse'[t] # {} \/ text[t] = Wanted(t, Https(t))
  <2>1. CASE a = "job"
    BY <1>7, <2>1, IdleTyped DEF Pending, Typed, ActTyped
  <2>2. CASE a = "api" /\ raised
    BY <1>5, <2>2 DEF Pending, LeftBehind
  <2>3. CASE a = "api" /\ ~raised
    <3>1. act'["api"].todo = act["api"].todo /\ act'["api"].pc = "write"
      BY <1>7, <2>3, IdleTyped DEF Typed, ActTyped, Acts
    <3> QED
      BY <3>1 DEF Pending
  <2> QED
    BY <2>1, <2>2, <2>3 DEF Actors
<1> HIDE DEF s, raised, raced
<1>9. \A t \in Sites : excuse'[t] = {} => (text[t] = Wanted(t, Https(t)))' \/ Pending(t)'
  BY <1>1, <1>2, <1>6, <1>8 DEF Followed
<1> QED
  BY <1>2, <1>4, <1>6, <1>9, SitesThere DEF Followed

LEMMA WriteFollowed ==
  ASSUME Typed, Followed, NEW a \in Actors, Write(a)
  PROVE  Followed'
<1>0. PICK s \in Sites : s = Site(a) /\ s \in act[a].todo /\ (act[a].tested => act[a].todo = {s})
  BY SiteIsTodo DEF Write, Typed, ActTyped
<1> DEFINE out == act[a].out
<1>1. UNCHANGED inputs /\ UNCHANGED globalFile
  BY DEF Write, inputs, dbVars, fileVars, includeVars
<1>2. GlobalRules' = GlobalRules /\ \A t, https : Wanted(t, https)' = Wanted(t, https)
  BY <1>1, SameInputs
<1>3. text'[s] = out /\ \A t \in Sites \ {s} : text'[t] = text[t]
  BY <1>0 DEF Write, Typed, DataTyped
<1>4. /\ excuse'[s] = IF UpToDate(s, out) THEN {} ELSE {"raced"}
      /\ \A t \in ({0} \cup Sites) \ {s} : excuse'[t] = excuse[t]
  BY <1>0 DEF Write, Typed, DataTyped
<1>5. excuse'[s] = {} => (text[s] = Wanted(s, Https(s)))'
  <2>1. UpToDate(s, out) => out = Wanted(s, out.cert # "plain")
    BY DEF UpToDate
  <2>2. Wanted(s, Https(s))' = Wanted(s, out.cert # "plain")
    BY <1>2, <1>3 DEF Https
  <2> HIDE DEF out
  <2> QED
    BY <1>3, <1>4, <2>1, <2>2
<1>6. \A t \in Sites \ {s} : Pending(t) => Pending(t)'
  <2>1. CASE a = "job"
    <3>1. act'["api"] = act["api"]
      BY <2>1, IdleTyped DEF Write, Typed, ActTyped
    <3> QED
      BY <3>1 DEF Pending
  <2>2. CASE a = "api" /\ act[a].todo = {s}
    BY <2>2 DEF Pending
  <2>3. CASE a = "api" /\ act[a].todo # {s}
    <3>1. act' = [act EXCEPT ![a] = [act[a] EXCEPT !.pc = "read", !.todo = @ \ {s}]]
      BY <1>0, <2>3 DEF Write
    <3>2. act'["api"].pc = "read" /\ act'["api"].todo = act["api"].todo \ {s}
      BY <2>3, <3>1, IdleTyped DEF Typed, ActTyped, Acts
    <3> QED
      BY <3>2 DEF Pending
  <2> QED
    BY <2>1, <2>2, <2>3 DEF Actors
<1>7. \A t \in Sites \ {s} : Wanted(t, Https(t))' = Wanted(t, Https(t))
  BY <1>2, <1>3 DEF Https
<1>8. act["api"].pc \in {"read", "render"} => act'["api"].pc \in {"read", "render"}
  BY <1>0, IdleTyped DEF Write, Typed, ActTyped
<1>9. "missed" \notin excuse'[s]
  BY <1>4
<1> HIDE DEF out
<1> QED
  BY <1>1, <1>2, <1>3, <1>4, <1>5, <1>6, <1>7, <1>8, <1>9, SitesThere DEF Followed

LEMMA TestFollowed ==
  ASSUME Typed, Followed, NEW a \in Actors, Test(a)
  PROVE  Followed'
<1>0. PICK s \in Sites : s = Site(a) /\ s \in act[a].todo
  BY SiteIsTodo DEF Test, Typed, ActTyped
<1>1. UNCHANGED inputs /\ UNCHANGED globalFile
  BY DEF Test, inputs, dbVars, fileVars, includeVars
<1>2. GlobalRules' = GlobalRules /\ \A t, https : Wanted(t, https)' = Wanted(t, https)
  BY <1>1, SameInputs
<1>3. /\ \A t \in Sites : Pending(t) => Pending(t)'
      /\ act["api"].pc \in {"read", "render"} => act'["api"].pc \in {"read", "render"}
  BY IdleTyped DEF Test, Pending, Typed, ActTyped
<1>4. \A t \in Sites : excuse'[t] = {} => text'[t] = text[t] /\ excuse[t] = {}
  <2>1. CASE UNCHANGED <<text, excuse>>
    BY <2>1
  <2>2. CASE /\ text' = [text EXCEPT ![s] = act[a].backup]
             /\ excuse' = [excuse EXCEPT ![s] = IF act[a].backup = text[s] THEN @ ELSE @ \cup {"restored"}]
    <3>1. \A t \in Sites \ {s} : excuse'[t] = excuse[t] /\ text'[t] = text[t]
      BY <2>2 DEF Typed, DataTyped
    <3>2. text'[s] = act[a].backup
      BY <2>2 DEF Typed, DataTyped
    <3>3. excuse'[s] = IF act[a].backup = text[s] THEN excuse[s] ELSE excuse[s] \cup {"restored"}
      BY <2>2 DEF Typed, DataTyped
    <3> QED
      BY <3>1, <3>2, <3>3
  <2> QED
    BY <1>0, <2>1, <2>2 DEF Test
<1>5. excuse'[0] = excuse[0] /\ \A t \in Sites : "missed" \in excuse'[t] => "missed" \in excuse[t]
  BY <1>0, SitesThere DEF Test, Typed, DataTyped
<1>6. \A t \in Sites : text'[t] = text[t] => Wanted(t, Https(t))' = Wanted(t, Https(t))
  BY <1>2 DEF Https
<1> QED
  BY <1>1, <1>2, <1>3, <1>4, <1>5, <1>6 DEF Followed

LEMMA NextFollowed == Typed /\ Followed /\ [Next]_vars => Followed'
<1> SUFFICES ASSUME Typed, Followed, [Next]_vars PROVE Followed'
  OBVIOUS
<1>1. CASE Requests
  BY <1>1, ChangeIpRuleFollowed, ChangeGeoRuleFollowed, ChangeWafFollowed, ChangePoolFollowed,
     SilentStepsFollowed, CombinedFollowed, ExcusedStepsFollowed DEF Requests
<1>2. ASSUME NEW a \in Actors, Steps(a) PROVE Followed'
  BY <1>2, ExcusedStepsFollowed, SilentStepsFollowed, RenderFollowed, WriteFollowed, TestFollowed DEF Steps
<1>3. CASE (\E s \in Sites : Regenerate(s)) \/ FeedJob \/ Crash \/ UNCHANGED vars
  BY <1>3, SilentStepsFollowed, CombinedFollowed, ExcusedStepsFollowed DEF FeedJob
<1> QED
  BY <1>1, <1>2, <1>3 DEF Next

LEMMA InitFollowed == Init => Followed
<1> SUFFICES ASSUME Init PROVE Followed
  OBVIOUS
<1>1. \A s \in Sites : text[s] = Wanted(s, Https(s))
  BY DEF Init, Wanted, Https, Blank, RulesForProxy, GlobalRules, GeoRule
<1>2. globalFile = GlobalRules
  BY DEF Init, GlobalRules
<1> QED
  BY <1>1, <1>2, SitesThere DEF Init, Followed

-----------------------------------------------------------------------------
(* The list of the feeds is never missing *)

\* Nobody who has no text with the list in hand writes one.
LEMMA ThreatKept ==
  ASSUME Typed, ThreatListed, combined' = "absent" => combined = "absent",
         \A s \in Sites : text'[s] = text[s] \/ \E a \in Actors : text'[s] \in {act[a].out, act[a].backup},
         \A a \in Actors :
            /\ act'[a].out \in {act[a].out, Blank} \/ \E s \in Sites : \E https : act'[a].out = Wanted(s, https)
            /\ act'[a].backup \in {act[a].backup, Blank} \/ \E s \in Sites : act'[a].backup = text[s]
  PROVE  ThreatListed'
<1> SUFFICES ASSUME combined' = "absent"
             PROVE  /\ \A s \in Sites : ~text'[s].threat
                    /\ \A a \in Actors : ~act'[a].out.threat /\ ~act'[a].backup.threat
  BY DEF ThreatListed
<1>1. /\ \A s \in Sites : ~text[s].threat
      /\ \A a \in Actors : ~act[a].out.threat /\ ~act[a].backup.threat
  BY DEF ThreatListed
<1>2. ~Blank.threat /\ \A s \in Sites : \A https : ~Wanted(s, https).threat
  BY DEF Blank, Wanted
<1> QED
  BY <1>1, <1>2

LEMMA ActSame ==
  ASSUME Typed, UNCHANGED act \/ (\E pc, sites : Begin(pc, sites)) \/ act' = [act EXCEPT !["api"] = Idle]
  PROVE  \A a \in Actors : act'[a].out \in {act[a].out, Blank} /\ act'[a].backup \in {act[a].backup, Blank}
<1>1. ASSUME NEW pc, NEW sites, Begin(pc, sites)
      PROVE  \A a \in Actors : act'[a].out \in {act[a].out, Blank} /\ act'[a].backup \in {act[a].backup, Blank}
  <2>1. \A a \in Actors : act'[a] = IF a = "api" THEN [Idle EXCEPT !.pc = pc, !.todo = sites] ELSE act[a]
    BY <1>1 DEF Begin, Typed, ActTyped
  <2>2. [Idle EXCEPT !.pc = pc, !.todo = sites].out = Blank /\ [Idle EXCEPT !.pc = pc, !.todo = sites].backup = Blank
    BY DEF Idle
  <2> QED
    BY <2>1, <2>2
<1>2. CASE act' = [act EXCEPT !["api"] = Idle]
  <2>1. \A a \in Actors : act'[a] = IF a = "api" THEN Idle ELSE act[a]
    BY <1>2 DEF Typed, ActTyped
  <2> QED
    BY <2>1, IdleTyped
<1>3. CASE UNCHANGED act
  BY <1>3
<1> QED
  BY <1>1, <1>2, <1>3

LEMMA RewriteSame ==
  ASSUME NEW sites, Rewrite(sites)
  PROVE  (\E pc, ss : Begin(pc, ss)) \/ act' = [act EXCEPT !["api"] = Idle]
  BY DEF Rewrite

LEMMA NextThreat == Typed /\ ThreatListed /\ [Next]_vars => ThreatListed'
<1> SUFFICES ASSUME Typed, ThreatListed, [Next]_vars PROVE ThreatListed'
  OBVIOUS
<1>1. ASSUME UNCHANGED text, UNCHANGED combined \/ combined' \in {"empty", "feed"},
             UNCHANGED act \/ (\E pc, sites : Begin(pc, sites)) \/ act' = [act EXCEPT !["api"] = Idle]
      PROVE  ThreatListed'
  BY <1>1, ActSame, ThreatKept
<1>2. ASSUME NEW new \in Rules, ChangeIpRule(new) PROVE ThreatListed'
  BY <1>1, <1>2, RewriteSame DEF ChangeIpRule, fileVars
<1>3. ASSUME NEW new \in GeoRules, ChangeGeoRule(new) PROVE ThreatListed'
  BY <1>1, <1>3 DEF ChangeGeoRule, fileVars
<1>4. ASSUME NEW s \in Sites, ChangeWaf(s) PROVE ThreatListed'
  BY <1>1, <1>4 DEF ChangeWaf, fileVars
<1>5. CASE ChangeFeed \/ SyncRequest \/ BeginImport \/ BeginRemove \/ SyncJob \/ UNCHANGED vars
  BY <1>1, <1>5 DEF ChangeFeed, SyncRequest, BeginImport, BeginRemove, SyncJob, vars, fileVars
<1>6. CASE EndCertificate
  BY <1>1, <1>6 DEF EndCertificate, fileVars
<1>7. CASE CombineRequest \/ CombineJob
  BY <1>1, <1>7, RewriteSame DEF CombineRequest, CombineJob, Combined
<1>8. ASSUME NEW a \in Actors, NEW s \in Sites, NEW https \in BOOLEAN,
             act' = [act EXCEPT ![a] = Tested(s, https)], UNCHANGED <<text, combined>>
      PROVE  ThreatListed'
  <2>1. Tested(s, https).out = Blank /\ Tested(s, https).backup = text[s]
    BY TestedTyped DEF Typed
  <2>2. \A b \in Actors : act'[b] = IF b = a THEN Tested(s, https) ELSE act[b]
    BY <1>8 DEF Typed, ActTyped
  <2> QED
    BY <1>8, <2>1, <2>2, ThreatKept
<1>9. ASSUME NEW s \in Sites, NEW https \in BOOLEAN, Save(s, https) PROVE ThreatListed'
  BY <1>8, <1>9, IdleTyped DEF Save, fileVars
<1>10. ASSUME NEW s \in Sites PROVE Https(s) \in BOOLEAN
  BY DEF Https
<1>11. ASSUME NEW s \in Sites, Regenerate(s) PROVE ThreatListed'
  <2>1. \E b \in BOOLEAN : act' = [act EXCEPT !["job"] = Tested(s, b)]
    BY <1>10, <1>11 DEF Regenerate
  <2> QED
    BY <1>8, <1>11, <2>1, IdleTyped DEF Regenerate, fileVars
<1>12. ASSUME NEW s \in Sites, ChangePool(s) PROVE ThreatListed'
  <2>1. act' = [act EXCEPT !["api"] = Idle] \/ \E b \in BOOLEAN : act' = [act EXCEPT !["api"] = Tested(s, b)]
    BY <1>10, <1>12 DEF ChangePool
  <2> QED
    BY <1>1, <1>8, <1>12, <2>1, IdleTyped DEF ChangePool, fileVars
<1>13. CASE WriteGeoInclude \/ WriteWafInclude
  <2>0. act' = [act EXCEPT !["api"].pc = "read"] /\ UNCHANGED <<text, combined>>
    BY <1>13 DEF WriteGeoInclude, WriteWafInclude
  <2>1. \A a \in Actors : act'[a].out = act[a].out /\ act'[a].backup = act[a].backup
    BY <2>0, IdleTyped DEF Typed, ActTyped, Acts
  <2> QED
    BY <2>0, <2>1, ThreatKept
<1>14. CASE Crash
  <2>1. \A a \in Actors : act'[a].out = Blank /\ act'[a].backup = Blank
    BY <1>14, IdleTyped DEF Crash
  <2> QED
    BY <1>14, <2>1, ThreatKept DEF Crash, fileVars
<1>15. ASSUME NEW a \in Actors, Steps(a) PROVE ThreatListed'
  <2>1. CASE ReadRaises(a)
    <3>1. \A b \in Actors : act'[b] = IF b = a THEN Idle ELSE act[b]
      BY <2>1 DEF ReadRaises, Typed, ActTyped
    <3> QED
      BY <2>1, <3>1, IdleTyped, ThreatKept DEF ReadRaises, fileVars
  <2>2. CASE Read(a)
    <3>1. Site(a) \in Sites
      BY <2>2, SiteIsTodo DEF Read, Typed, ActTyped
    <3>2. PICK https : act' = [act EXCEPT ![a].pc = "render", ![a].out = Wanted(Site(a), https)]
      BY <2>2 DEF Read
    <3>3. \A b \in Actors : /\ act'[b].out = IF b = a THEN Wanted(Site(a), https) ELSE act[b].out
                            /\ act'[b].backup = act[b].backup
      BY <3>2 DEF Typed, ActTyped, Acts
    <3> QED
      BY <2>2, <3>1, <3>3, ThreatKept DEF Read, fileVars
  <2>3. CASE Render(a)
    <3>1. act' = [act EXCEPT ![a] = Idle] \/ act' = [act EXCEPT ![a] = [@ EXCEPT !.pc = "write"]]
      BY <2>3 DEF Render
    <3>2. \A b \in Actors : act'[b].out \in {act[b].out, Blank} /\ act'[b].backup \in {act[b].backup, Blank}
      BY <3>1, IdleTyped DEF Typed, ActTyped, Acts
    <3> QED
      BY <2>3, <3>2, ThreatKept DEF Render
  <2>4. CASE Write(a)
    <3>1. \A b \in Actors : act'[b].out \in {act[b].out, Blank} /\ act'[b].backup \in {act[b].backup, Blank}
      BY <2>4, IdleTyped DEF Write, Typed, ActTyped, Acts
    <3>2. \A s \in Sites : text'[s] = text[s] \/ text'[s] = act[a].out
      BY <2>4 DEF Write, Typed, DataTyped
    <3> QED
      BY <2>4, <3>1, <3>2, ThreatKept DEF Write, fileVars
  <2>5. CASE Test(a)
    <3>1. \A b \in Actors : act'[b].out \in {act[b].out, Blank} /\ act'[b].backup \in {act[b].backup, Blank}
      BY <2>5, IdleTyped DEF Test, Typed, ActTyped
    <3>2. \A s \in Sites : text'[s] = text[s] \/ text'[s] = act[a].backup
      BY <2>5 DEF Test, Typed, DataTyped
    <3> QED
      BY <2>5, <3>1, <3>2, ThreatKept DEF Test, fileVars
  <2> QED
    BY <1>15, <2>1, <2>2, <2>3, <2>4, <2>5 DEF Steps
<1> QED
  BY <1>2, <1>3, <1>4, <1>5, <1>6, <1>7, <1>9, <1>11, <1>12, <1>13, <1>14, <1>15 DEF Next, Requests, FeedJob

LEMMA InitThreat == Init => ThreatListed
  BY IdleTyped DEF Init, ThreatListed, Blank

-----------------------------------------------------------------------------
(* The files of geo rules and WAF settings are there when they are included *)

Kinds == {"geo", "waf"}

LEMMA KindFacts ==
  ASSUME NEW k \in Kinds
  PROVE  /\ \A s, https : Says(k, Wanted(s, https)) = Applies(k, s)
         /\ ~Says(k, Blank)
         /\ Writing(k) \in {"geo include", "waf include"}
  BY DEF Kinds, Says, Wanted, Applies, Blank, Writing

\* A request begins or ends: it will write the file of the site that has a
\* rule now and had none.
LEMMA RequestIncluded ==
  ASSUME Typed, NEW k \in Kinds, Included(k), UNCHANGED <<text, File(k)>>,
         \A s \in Sites : excuse[s] \subseteq excuse'[s],
         act["api"].pc \notin {"geo include", "waf include", "read", "render", "write"},
         act'["api"].pc # "write", act'["job"] = act["job"],
         \A s \in Sites : Applies(k, s)' => Applies(k, s) \/ ToWrite(k, s)'
  PROVE  Included(k)'
<1>1. \A s \in Sites : ~ToWrite(k, s) /\ ~Rewriting(s)
  BY KindFacts DEF ToWrite, Rewriting
<1>2. TextIncludes(k)'
  BY <1>1 DEF Included, TextIncludes
<1>3. Site("job")' = Site("job")
  BY DEF Site
<1>4. WriteIncludes(k)'
  BY <1>1, <1>3 DEF Included, WriteIncludes, Actors
<1> QED
  BY <1>2, <1>4 DEF Included

\* The rules stay: whoever breaks off leaves an excuse, and whoever comes to
\* write has written the file.
LEMMA KeptIncluded ==
  ASSUME Typed, NEW k \in Kinds, Included(k), \A s \in Sites : Applies(k, s)' = Applies(k, s),
         \A s \in Sites : File(k)[s] => File(k)'[s],
         \A s \in Sites : excuse[s] \subseteq excuse'[s] /\ (text'[s] = text[s] \/ excuse'[s] \cap Failures # {}),
         \A s \in Sites : ToWrite(k, s) => ToWrite(k, s)' \/ (excuse'[s] \cap Failures # {} /\ \A a \in Actors : act'[a].pc # "write"),
         \A s \in Sites : Rewriting(s) /\ text[s] # Wanted(s, Https(s)) => Rewriting(s)' \/ excuse'[s] \cap Failures # {},
         \A a \in Actors : act'[a].pc = "write" =>
            \/ act[a].pc = "write" /\ act'[a].out = act[a].out /\ act'[a].todo = act[a].todo
            \/ Says(k, act'[a].out) => File(k)'[Site(a)']
  PROVE  Included(k)'
<1>1. \A s \in Sites : text[s] = Wanted(s, Https(s)) => Says(k, text[s]) = Applies(k, s)
  BY KindFacts
<1>2. TextIncludes(k)'
  BY <1>1 DEF Included, TextIncludes
<1>3. \A a \in Actors : act'[a].todo = act[a].todo => Site(a)' = Site(a)
  BY DEF Site
<1>4. WriteIncludes(k)'
  BY <1>3 DEF Included, WriteIncludes
<1> QED
  BY <1>2, <1>4 DEF Included

\* The file follows the rule before the sites are read.
LEMMA FileWritten ==
  ASSUME Typed, NEW k \in Kinds, Included(k), UNCHANGED <<text, excuse>>,
         \A s \in Sites : Applies(k, s)' = Applies(k, s),
         act["api"].pc = Writing(k), act' = [act EXCEPT !["api"].pc = "read"],
         \A s \in Sites : File(k)'[s] = IF s \in act["api"].todo THEN Applies(k, s) ELSE File(k)[s]
  PROVE  Included(k)'
<1>1. /\ act'["api"].pc = "read" /\ act'["api"].todo = act["api"].todo
      /\ act'["job"] = act["job"]
  BY IdleTyped DEF Typed, ActTyped, Acts
<1>2. \A s \in Sites : ~Rewriting(s) /\ (ToWrite(k, s) <=> s \in act["api"].todo)
  BY KindFacts DEF Rewriting, ToWrite
<1>3. \A s \in Sites : s \in act["api"].todo => Rewriting(s)'
  BY <1>1 DEF Rewriting
<1>4. TextIncludes(k)'
  BY <1>2, <1>3 DEF Included, TextIncludes
<1>5. Site("job")' = Site("job")
  BY <1>1 DEF Site
<1>6. WriteIncludes(k)'
  BY <1>1, <1>2, <1>5 DEF Included, WriteIncludes, Actors
<1> QED
  BY <1>4, <1>6 DEF Included

LEMMA WriteIncluded ==
  ASSUME Typed, NEW k \in Kinds, Included(k), NEW a \in Actors, Write(a)
  PROVE  Included(k)'
<1>0. PICK s \in Sites : s = Site(a) /\ s \in act[a].todo /\ (act[a].tested => act[a].todo = {s})
  BY SiteIsTodo DEF Write, Typed, ActTyped
<1> DEFINE out == act[a].out
<1>1. (\A t : Applies(k, t)' = Applies(k, t)) /\ File(k)' = File(k)
  BY DEF Write, dbVars, fileVars, includeVars, Applies, GeoRule, File
<1>2. text'[s] = out /\ \A t \in Sites \ {s} : text'[t] = text[t]
  BY <1>0 DEF Write, Typed, DataTyped
<1>3. /\ excuse'[s] = IF UpToDate(s, out) THEN {} ELSE {"raced"}
      /\ \A t \in Sites \ {s} : excuse'[t] = excuse[t]
  BY <1>0 DEF Write, Typed, DataTyped
<1>4. \A b \in Actors \ {a} : act'[b] = act[b]
  BY DEF Write, Typed, ActTyped
<1>5. act[a].pc = "write" /\ act'[a].pc # "write"
  BY <1>0, IdleTyped DEF Write, Typed, ActTyped, Acts
<1>6. \A t \in Sites : ToWrite(k, t) => ToWrite(k, t)'
  BY <1>4, <1>5, IdleTyped, KindFacts DEF ToWrite, Actors
<1>7. \A t \in Sites \ {s} : Rewriting(t) => Rewriting(t)'
  <2>1. CASE a = "job"
    BY <1>4, <2>1, IdleTyped DEF Rewriting
  <2>2. CASE a = "api" /\ act[a].todo = {s}
    BY <2>2 DEF Rewriting
  <2>3. CASE a = "api" /\ act[a].todo # {s}
    <3>1. act' = [act EXCEPT ![a] = [act[a] EXCEPT !.pc = "read", !.todo = @ \ {s}]]
      BY <1>0, <2>3 DEF Write
    <3>2. act'["api"].pc = "read" /\ act'["api"].todo = act["api"].todo \ {s}
      BY <2>3, <3>1, IdleTyped DEF Typed, ActTyped, Acts
    <3> QED
      BY <3>2 DEF Rewriting
  <2> QED
    BY <2>1, <2>2, <2>3 DEF Actors
<1>8. Says(k, out) /\ excuse'[s] \cap Failures = {} => File(k)[s] \/ ToWrite(k, s)
  <2>1. UpToDate(s, out) => Says(k, out) = Applies(k, s)
    BY KindFacts DEF UpToDate
  <2>2. "raced" \in Failures
    BY DEF Failures
  <2> HIDE DEF out
  <2>3. CASE ~UpToDate(s, out)
    BY <1>3, <2>2, <2>3
  <2>4. CASE UpToDate(s, out)
    BY <1>0, <1>5, <2>1, <2>4 DEF Included, WriteIncludes, out
  <2> QED
    BY <2>3, <2>4
<1> HIDE DEF out
<1>9. TextIncludes(k)'
  <2>1. \A t \in Sites \ {s} : Says(k, text'[t]) /\ excuse'[t] \cap Failures = {} =>
          File(k)'[t] \/ ToWrite(k, t)' \/ (Rewriting(t)' /\ ~Applies(k, t)')
    BY <1>1, <1>2, <1>3, <1>6, <1>7 DEF Included, TextIncludes
  <2>2. Says(k, text'[s]) /\ excuse'[s] \cap Failures = {} => File(k)'[s] \/ ToWrite(k, s)'
    BY <1>1, <1>2, <1>6, <1>8
  <2> QED
    BY <2>1, <2>2 DEF TextIncludes
<1>10. WriteIncludes(k)'
  <2>1. \A b \in Actors \ {a} : Site(b)' = Site(b)
    BY <1>4 DEF Site
  <2> QED
    BY <1>1, <1>4, <1>5, <1>6, <2>1 DEF Included, WriteIncludes
<1> QED
  BY <1>9, <1>10 DEF Included

LEMMA RenderIncluded ==
  ASSUME Typed, NEW k \in Kinds, Included(k), NEW a \in Actors, Render(a)
  PROVE  Included(k)'
<1>0. PICK s \in Sites : s = Site(a) /\ s \in act[a].todo
  BY SiteIsTodo DEF Render, Typed, ActTyped
<1> DEFINE raised == pools[s] = "empty"
<1>1. \A t \in Sites : Applies(k, t)' = Applies(k, t)
  BY DEF Render, dbVars, Applies, GeoRule
<1>2. \A t \in Sites : File(k)'[t] = (File(k)[t] \/ (t = s /\ Says(k, act[a].out)))
  BY <1>0 DEF Render, WrittenIncludes, File, Says, Typed, DataTyped
<1>3. \A t \in Sites : /\ excuse[t] \subseteq excuse'[t]
                       /\ raised /\ t \in LeftBehind(act[a].todo) => "raised" \in excuse'[t]
  BY <1>0, SitesThere DEF Render, Typed, DataTyped
<1>4. act' = [act EXCEPT ![a] = IF raised THEN Idle ELSE [@ EXCEPT !.pc = "write"]] /\ act[a].pc = "render" /\ text' = text
  BY <1>0 DEF Render
<1>5. \A b \in Actors \ {a} : act'[b] = act[b]
  BY <1>4 DEF Typed, ActTyped
<1>6. \/ raised /\ act'[a].pc = "idle"
      \/ act'[a].pc = "write" /\ act'[a].out = act[a].out /\ act'[a].todo = act[a].todo
  BY <1>4, IdleTyped DEF Typed, ActTyped, Acts
<1>7. \A t \in Sites : ToWrite(k, t) => ToWrite(k, t)'
  BY <1>4, <1>5, IdleTyped, KindFacts DEF ToWrite, Actors
<1>8. \A t \in Sites : Rewriting(t) /\ text[t] # Wanted(t, Https(t)) => Rewriting(t)' \/ excuse'[t] \cap Failures # {}
  <2>1. CASE a = "job"
    BY <1>5, <2>1, IdleTyped DEF Rewriting
  <2>2. CASE a = "api" /\ act'[a].pc = "write" /\ act'[a].todo = act[a].todo
    BY <2>2 DEF Rewriting
  <2>3. CASE a = "api" /\ raised
    BY <1>3, <2>3 DEF Rewriting, LeftBehind, Failures
  <2> QED
    BY <1>6, <2>1, <2>2, <2>3 DEF Actors
<1>9. act'[a].pc = "write" => (Says(k, act'[a].out) => File(k)'[Site(a)'])
  <2>1. act'[a].todo = act[a].todo => Site(a)' = s
    BY <1>0 DEF Site
  <2> QED
    BY <1>2, <1>6, <2>1
<1> HIDE DEF raised
<1> QED
  BY <1>1, <1>2, <1>3, <1>4, <1>5, <1>7, <1>8, <1>9, KeptIncluded

LEMMA TestIncluded ==
  ASSUME Typed, NEW k \in Kinds, Included(k), NEW a \in Actors, Test(a)
  PROVE  Included(k)'
<1>0. PICK s \in Sites : s = Site(a)
  BY SiteIsTodo DEF Test, Typed, ActTyped
<1>1. (\A t \in Sites : Applies(k, t)' = Applies(k, t)) /\ File(k)' = File(k)
  BY DEF Test, dbVars, fileVars, includeVars, Applies, GeoRule, File
<1>2. \A b \in Actors : act'[b] = IF b = a THEN Idle ELSE act[b]
  BY DEF Test, Typed, ActTyped
<1>3. \A t \in Sites : excuse[t] \subseteq excuse'[t] /\ (text'[t] = text[t] \/ excuse'[t] \cap Failures # {})
  <2>1. CASE UNCHANGED <<text, excuse>>
    BY <2>1
  <2>2. CASE /\ text' = [text EXCEPT ![s] = act[a].backup]
             /\ excuse' = [excuse EXCEPT ![s] = IF act[a].backup = text[s] THEN @ ELSE @ \cup {"restored"}]
    <3>1. \A t \in Sites \ {s} : excuse'[t] = excuse[t] /\ text'[t] = text[t]
      BY <2>2 DEF Typed, DataTyped
    <3>2. text'[s] = act[a].backup
      BY <2>2 DEF Typed, DataTyped
    <3>3. excuse'[s] = IF act[a].backup = text[s] THEN excuse[s] ELSE excuse[s] \cup {"restored"}
      BY <2>2 DEF Typed, DataTyped
    <3> QED
      BY <3>1, <3>2, <3>3 DEF Failures
  <2> QED
    BY <1>0, <2>1, <2>2 DEF Test
<1>4. \A t \in Sites : (ToWrite(k, t) => ToWrite(k, t)') /\ (Rewriting(t) => Rewriting(t)')
  BY <1>2, IdleTyped, KindFacts DEF ToWrite, Rewriting, Test
<1> QED
  BY <1>1, <1>2, <1>3, <1>4, IdleTyped, KeptIncluded

LEMMA ReadIncluded ==
  ASSUME Typed, NEW k \in Kinds, Included(k), NEW a \in Actors, ReadRaises(a) \/ Read(a)
  PROVE  Included(k)'
<1>1. (\A t \in Sites : Applies(k, t)' = Applies(k, t)) /\ File(k)' = File(k) /\ text' = text /\ act[a].pc = "read"
  BY DEF ReadRaises, Read, dbVars, fileVars, includeVars, Applies, GeoRule, File
<1>2. \A t \in Sites : ToWrite(k, t) => ToWrite(k, t)'
  <2>1. act'["api"] = act["api"] \/ act["api"].pc = "read"
    BY <1>1, IdleTyped DEF ReadRaises, Read, Typed, ActTyped
  <2> QED
    BY <2>1, KindFacts DEF ToWrite
<1>3. CASE ReadRaises(a)
  <2>1. \A b \in Actors : act'[b] = IF b = a THEN Idle ELSE act[b]
    BY <1>3 DEF ReadRaises, Typed, ActTyped
  <2>2. \A t \in Sites : excuse'[t] = excuse[t] \cup (IF t \in LeftBehind(act[a].todo) THEN {"raised"} ELSE {})
    BY <1>3 DEF ReadRaises, Typed, DataTyped
  <2>3. \A t \in Sites : Rewriting(t) /\ text[t] # Wanted(t, Https(t)) => Rewriting(t)' \/ excuse'[t] \cap Failures # {}
    <3>1. CASE a = "job"
      BY <2>1, <3>1, IdleTyped DEF Rewriting
    <3>2. CASE a = "api"
      BY <2>2, <3>2 DEF Rewriting, LeftBehind, Failures
    <3> QED
      BY <3>1, <3>2 DEF Actors
  <2> QED
    BY <1>1, <1>2, <2>1, <2>2, <2>3, IdleTyped, KeptIncluded
<1>4. CASE Read(a)
  <2>1. PICK out : act' = [act EXCEPT ![a].pc = "render", ![a].out = out]
    BY <1>4 DEF Read
  <2>2. /\ \A b \in Actors \ {a} : act'[b] = act[b]
        /\ act'[a].pc = "render" /\ act'[a].todo = act[a].todo
    BY <2>1 DEF Typed, ActTyped, Acts
  <2>3. \A t \in Sites : Rewriting(t) => Rewriting(t)'
    BY <2>2, IdleTyped DEF Rewriting
  <2>4. \A b \in Actors : act'[b].pc = "write" => act'[b] = act[b]
    BY <2>2
  <2> QED
    BY <1>1, <1>2, <1>4, <2>3, <2>4, KeptIncluded DEF Read
<1> QED
  BY <1>3, <1>4

LEMMA CrashIncluded ==
  ASSUME Typed, NEW k \in Kinds, Included(k), Crash
  PROVE  Included(k)'
<1>1. (\A t \in Sites : Applies(k, t)' = Applies(k, t)) /\ File(k)' = File(k) /\ text' = text
  BY DEF Crash, dbVars, fileVars, includeVars, Applies, GeoRule, File
<1>2. \A a \in Actors : act'[a].pc # "write"
  BY IdleTyped DEF Crash
<1>3. \A t \in Sites : excuse[t] \subseteq excuse'[t] /\ (t \in act["api"].todo => excuse'[t] \cap Failures # {})
  BY IdleTyped DEF Crash, Failures, Typed, DataTyped
<1> QED
  BY <1>1, <1>2, <1>3, KeptIncluded DEF ToWrite, Rewriting

LEMMA SilentIncluded ==
  ASSUME Typed, NEW k \in Kinds, Included(k),
         ChangeFeed \/ SyncJob \/ CombineJob \/ UNCHANGED vars \/ \E s \in Sites : Regenerate(s)
  PROVE  Included(k)'
<1>1. (\A t \in Sites : Applies(k, t)' = Applies(k, t)) /\ File(k)' = File(k) /\ text' = text
  BY DEF ChangeFeed, SyncJob, CombineJob, vars, Regenerate, dbVars, fileVars, includeVars, Applies, GeoRule, File
<1>2. \A t \in Sites : excuse[t] \subseteq excuse'[t]
  BY DEF ChangeFeed, SyncJob, CombineJob, vars, Regenerate, Told, Typed, DataTyped
<1>3. act'["api"] = act["api"] /\ (act'["job"] = act["job"] \/ act'["job"].pc # "write")
  <2>1. CASE UNCHANGED act
    BY <2>1
  <2>2. ASSUME NEW s \in Sites, Regenerate(s)
        PROVE  act'["api"] = act["api"] /\ act'["job"].pc # "write"
    <3>1. act' = [act EXCEPT !["job"] = Tested(s, Https(s))] /\ Tested(s, Https(s)).pc = "read"
      BY <2>2 DEF Regenerate, Tested, Idle
    <3> QED
      BY <3>1, IdleTyped DEF Typed, ActTyped
  <2> QED
    BY <2>1, <2>2 DEF ChangeFeed, SyncJob, CombineJob, vars
<1> QED
  BY <1>1, <1>2, <1>3, KeptIncluded DEF ToWrite, Rewriting, Actors

\* What Told does to the histories.
LEMMA ToldGrows ==
  ASSUME Typed, NEW sites, NEW reason, Told(sites, reason)
  PROVE  \A t \in Sites : excuse[t] \subseteq excuse'[t]
  BY DEF Told, Typed, DataTyped

LEMMA BeginGoesOn ==
  ASSUME Typed, NEW pc, NEW sites, Begin(pc, sites)
  PROVE  act'["api"].pc = pc /\ act'["api"].todo = sites /\ act'["job"] = act["job"]
  BY IdleTyped DEF Begin, Idle, Typed, ActTyped

LEMMA RewriteGoesOn ==
  ASSUME Typed, NEW sites, Rewrite(sites)
  PROVE  act'["api"].pc \in {"idle", "read"} /\ act'["job"] = act["job"]
<1>1. CASE sites = {}
  BY <1>1, IdleTyped DEF Rewrite, Typed, ActTyped
<1>2. CASE sites # {}
  BY <1>2, BeginGoesOn DEF Rewrite
<1> QED
  BY <1>1, <1>2

LEMMA RequestsIncluded ==
  ASSUME Typed, NEW k \in Kinds, Included(k), Requests
  PROVE  Included(k)'
<1>1. ASSUME NEW new \in Rules, ChangeIpRule(new) PROVE Included(k)'
  <2>1. act'["api"].pc \in {"idle", "read"} /\ act'["job"] = act["job"] /\ act["api"].pc = "idle"
    BY <1>1, RewriteGoesOn DEF ChangeIpRule
  <2>2. \A t \in Sites : excuse[t] \subseteq excuse'[t]
    BY <1>1, ToldGrows DEF ChangeIpRule
  <2>3. UNCHANGED <<text, File(k)>> /\ \A t \in Sites : Applies(k, t)' = Applies(k, t)
    BY <1>1 DEF ChangeIpRule, fileVars, includeVars, File, Applies, GeoRule
  <2> QED
    BY <2>1, <2>2, <2>3, RequestIncluded
<1>2. ASSUME NEW new \in GeoRules, ChangeGeoRule(new) PROVE Included(k)'
  <2> DEFINE site == IF new.site = 0 THEN geo.site ELSE new.site
  <2>1. act'["api"].pc = "geo include" /\ act'["api"].todo = {site} /\ act'["job"] = act["job"] /\ act["api"].pc = "idle"
    BY <1>2, BeginGoesOn DEF ChangeGeoRule
  <2>2. \A t \in Sites : excuse[t] \subseteq excuse'[t]
    BY <1>2, ToldGrows DEF ChangeGeoRule
  <2>3. UNCHANGED <<text, File(k), waf>> /\ geo' = new
    BY <1>2 DEF ChangeGeoRule, fileVars, includeVars, File
  <2>4. \A t \in Sites : Applies(k, t)' => Applies(k, t) \/ ToWrite(k, t)'
    <3>1. CASE k = "geo"
      <4>1. \A t \in Sites : GeoRule(t)' => t = site
        BY <2>3, SitesThere DEF GeoRule
      <4> QED
        BY <2>1, <3>1, <4>1 DEF Applies, ToWrite, Writing
    <3>2. CASE k = "waf"
      BY <2>3, <3>2 DEF Applies
    <3> QED
      BY <3>1, <3>2 DEF Kinds
  <2> QED
    BY <2>1, <2>2, <2>3, <2>4, RequestIncluded
<1>3. ASSUME NEW s \in Sites, ChangeWaf(s) PROVE Included(k)'
  <2>1. act'["api"].pc = "waf include" /\ act'["api"].todo = {s} /\ act'["job"] = act["job"] /\ act["api"].pc = "idle"
    BY <1>3, BeginGoesOn DEF ChangeWaf
  <2>2. \A t \in Sites : excuse[t] \subseteq excuse'[t]
    BY <1>3, ToldGrows DEF ChangeWaf
  <2>3. UNCHANGED <<text, File(k), geo>> /\ \A t \in Sites \ {s} : waf'[t] = waf[t]
    BY <1>3 DEF ChangeWaf, fileVars, includeVars, File, Typed, DataTyped
  <2>4. \A t \in Sites : Applies(k, t)' => Applies(k, t) \/ ToWrite(k, t)'
    <3>1. CASE k = "geo"
      BY <2>3, <3>1 DEF Applies, GeoRule
    <3>2. CASE k = "waf"
      BY <2>1, <2>3, <3>2 DEF Applies, ToWrite, Writing
    <3> QED
      BY <3>1, <3>2 DEF Kinds
  <2> QED
    BY <2>1, <2>2, <2>3, <2>4, RequestIncluded
<1>4. ASSUME NEW s \in Sites, NEW https \in BOOLEAN,
             act' = [act EXCEPT !["api"] = Idle] \/ act' = [act EXCEPT !["api"] = Tested(s, https)]
      PROVE  act'["api"].pc # "write" /\ act'["job"] = act["job"]
  BY <1>4, IdleTyped, TestedTyped DEF Typed, ActTyped
<1>5. ASSUME NEW s \in Sites, ChangePool(s) PROVE Included(k)'
  <2>1. Https(s) \in BOOLEAN
    BY DEF Https
  <2>2. act'["api"].pc # "write" /\ act'["job"] = act["job"] /\ act["api"].pc = "idle"
    BY <1>4, <1>5, <2>1 DEF ChangePool
  <2>3. \A t \in Sites : excuse[t] \subseteq excuse'[t]
    BY <1>5, ToldGrows DEF ChangePool
  <2>4. UNCHANGED <<text, File(k)>> /\ \A t \in Sites : Applies(k, t)' = Applies(k, t)
    BY <1>5 DEF ChangePool, fileVars, includeVars, File, Applies, GeoRule
  <2> QED
    BY <2>2, <2>3, <2>4, RequestIncluded
<1>6. ASSUME NEW s \in Sites, NEW https \in BOOLEAN, Save(s, https) PROVE Included(k)'
  <2>1. act'["api"].pc # "write" /\ act'["job"] = act["job"] /\ act["api"].pc = "idle"
    BY <1>4, <1>6 DEF Save
  <2>2. UNCHANGED <<text, File(k), excuse>> /\ \A t \in Sites : Applies(k, t)' = Applies(k, t)
    BY <1>6 DEF Save, dbVars, fileVars, includeVars, File, Applies, GeoRule
  <2> QED
    BY <2>1, <2>2, RequestIncluded
<1>7. CASE WriteGeoInclude
  <2>1. CASE k = "geo"
    <3>1. \A s \in Sites : File(k)'[s] = IF s \in act["api"].todo THEN Applies(k, s) ELSE File(k)[s]
      BY <1>7, <2>1 DEF WriteGeoInclude, File, Applies
    <3>2. \A s \in Sites : Applies(k, s)' = Applies(k, s)
      BY <1>7 DEF WriteGeoInclude, dbVars, Applies, GeoRule
    <3> QED
      BY <1>7, <2>1, <3>1, <3>2, FileWritten DEF WriteGeoInclude, Writing
  <2>2. CASE k = "waf"
    <3>1. /\ UNCHANGED <<text, File(k), excuse>> /\ act["api"].pc = "geo include"
          /\ \A s \in Sites : Applies(k, s)' = Applies(k, s)
      BY <1>7, <2>2 DEF WriteGeoInclude, dbVars, File, Applies
    <3>2. act'["api"].pc = "read" /\ act'["job"] = act["job"]
      BY <1>7, IdleTyped DEF WriteGeoInclude, Typed, ActTyped, Acts
    <3>3. \A s \in Sites : ~ToWrite(k, s) /\ ~Rewriting(s)
      BY <2>2, <3>1 DEF ToWrite, Rewriting, Writing
    <3> QED
      BY <3>1, <3>2, <3>3, KeptIncluded DEF Actors
  <2> QED
    BY <2>1, <2>2 DEF Kinds
<1>8. CASE WriteWafInclude
  <2>1. CASE k = "waf"
    <3>1. \A s \in Sites : File(k)'[s] = IF s \in act["api"].todo THEN Applies(k, s) ELSE File(k)[s]
      BY <1>8, <2>1 DEF WriteWafInclude, File, Applies
    <3>2. \A s \in Sites : Applies(k, s)' = Applies(k, s)
      BY <1>8 DEF WriteWafInclude, dbVars, Applies, GeoRule
    <3> QED
      BY <1>8, <2>1, <3>1, <3>2, FileWritten DEF WriteWafInclude, Writing
  <2>2. CASE k = "geo"
    <3>1. /\ UNCHANGED <<text, File(k), excuse>> /\ act["api"].pc = "waf include"
          /\ \A s \in Sites : Applies(k, s)' = Applies(k, s)
      BY <1>8, <2>2 DEF WriteWafInclude, dbVars, File, Applies, GeoRule
    <3>2. act'["api"].pc = "read" /\ act'["job"] = act["job"]
      BY <1>8, IdleTyped DEF WriteWafInclude, Typed, ActTyped, Acts
    <3>3. \A s \in Sites : ~ToWrite(k, s) /\ ~Rewriting(s)
      BY <2>2, <3>1 DEF ToWrite, Rewriting, Writing
    <3> QED
      BY <3>1, <3>2, <3>3, KeptIncluded DEF Actors
  <2> QED
    BY <2>1, <2>2 DEF Kinds
<1>9. CASE ChangeFeed
  BY <1>9, SilentIncluded
<1>10. CASE SyncRequest \/ BeginImport \/ BeginRemove
  <2>1. UNCHANGED act \/ \E pc \in {"combine", "install", "remove"} : \E sites : Begin(pc, sites)
    BY <1>10 DEF SyncRequest, BeginImport, BeginRemove
  <2>2. act["api"].pc = "idle" /\ act'["api"].pc # "write" /\ act'["job"] = act["job"]
    BY <1>10, <2>1, BeginGoesOn DEF SyncRequest, BeginImport, BeginRemove
  <2>3. \A t \in Sites : excuse[t] \subseteq excuse'[t]
    BY <1>10 DEF SyncRequest, BeginImport, BeginRemove, Typed, DataTyped
  <2>4. UNCHANGED <<text, File(k)>> /\ \A t \in Sites : Applies(k, t)' = Applies(k, t)
    BY <1>10 DEF SyncRequest, BeginImport, BeginRemove, dbVars, includeVars, File, Applies, GeoRule
  <2> QED
    BY <2>2, <2>3, <2>4, RequestIncluded
<1>11. CASE CombineRequest
  <2>1. act'["api"].pc \in {"idle", "read"} /\ act'["job"] = act["job"] /\ act["api"].pc = "combine"
    BY <1>11, RewriteGoesOn DEF CombineRequest
  <2>2. \A t \in Sites : excuse[t] \subseteq excuse'[t]
    BY <1>11, ToldGrows DEF CombineRequest
  <2>3. UNCHANGED <<text, File(k)>> /\ \A t \in Sites : Applies(k, t)' = Applies(k, t)
    BY <1>11 DEF CombineRequest, dbVars, includeVars, File, Applies, GeoRule
  <2> QED
    BY <2>1, <2>2, <2>3, RequestIncluded
<1>12. CASE EndCertificate
  <2>1. act'["api"].pc # "write" /\ act'["job"] = act["job"] /\ act["api"].pc \in {"install", "remove"}
    BY <1>12, IdleTyped DEF EndCertificate, Typed, ActTyped
  <2>2. \A t \in Sites : excuse[t] \subseteq excuse'[t]
    BY <1>12, ToldGrows DEF EndCertificate
  <2>3. UNCHANGED <<text, File(k)>> /\ \A t \in Sites : Applies(k, t)' = Applies(k, t)
    BY <1>12 DEF EndCertificate, fileVars, includeVars, File, Applies, GeoRule
  <2> QED
    BY <2>1, <2>2, <2>3, RequestIncluded
<1> QED
  BY <1>1, <1>2, <1>3, <1>5, <1>6, <1>7, <1>8, <1>9, <1>10, <1>11, <1>12 DEF Requests

LEMMA NextIncluded ==
  ASSUME Typed, NEW k \in Kinds, Included(k), [Next]_vars
  PROVE  Included(k)'
  BY RequestsIncluded, ReadIncluded, RenderIncluded, WriteIncluded, TestIncluded, SilentIncluded, CrashIncluded
     DEF Next, Steps, FeedJob

LEMMA InitIncluded ==
  ASSUME Init, NEW k \in Kinds
  PROVE  Included(k)
  BY IdleTyped, KindFacts DEF Init, Included, TextIncludes, WriteIncludes

-----------------------------------------------------------------------------
(* Theorems *)

\* The invariant of all requests, regenerations, synchronisations and crashes.
THEOREM SiteInputsInv == Spec => []IInv
<1>1. Init => IInv
  BY InitTyped, InitFollowed, InitThreat, InitIncluded DEF IInv, Kinds
<1>2. IInv /\ [Next]_vars => IInv'
  <2> SUFFICES ASSUME IInv, [Next]_vars PROVE IInv'
    OBVIOUS
  <2>1. Typed /\ Followed /\ ThreatListed /\ "geo" \in Kinds /\ Included("geo") /\ "waf" \in Kinds /\ Included("waf")
    BY DEF IInv, Kinds
  <2>2. Typed' /\ Followed' /\ ThreatListed'
    BY <2>1, NextTyped, NextFollowed, NextThreat
  <2>3. Included("geo")'
    BY <2>1, NextIncluded
  <2>4. Included("waf")'
    BY <2>1, NextIncluded
  <2> QED
    BY <2>2, <2>3, <2>4 DEF IInv
<1> QED
  BY <1>1, <1>2, PTL DEF Spec

\* The rows, files, texts and steps have their types: a save and a regeneration
\* have exactly one site to do until they end (apply_change), and the list of
\* the feeds has addresses only if there is a feed's file.
THEOREM InputsTypeOK == Spec => []TypeOK
<1>1. IInv => TypeOK
  <2> SUFFICES ASSUME IInv PROVE TypeOK
    OBVIOUS
  <2>1. ASSUME NEW a \in Actors, act[a].tested PROVE Cardinality(act[a].todo) = 1
    BY <2>1, FS_Singleton DEF IInv, Typed, ActTyped
  <2>2. \A a \in Actors :
          /\ act[a].pc \in Pcs /\ act[a].todo \subseteq Sites /\ act[a].out \in Texts /\ act[a].backup \in Texts
          /\ act[a].pc \in {"read", "render", "write", "test"} => act[a].todo # {}
    BY DEF IInv, Typed, ActTyped, Acts
  <2> QED
    BY <2>1, <2>2 DEF TypeOK, IInv, Typed, DataTyped, Pcs
<1> QED
  BY <1>1, SiteInputsInv, PTL

\* When all is quiet a site without an excuse says what the database says, no
\* change of a rule missed a site without a reason, and the rules that hold
\* everywhere are in their file (_regen_proxies and the callers that name the
\* sites, api/security.py).
THEOREM SitesFollowTheirInputs == Spec => []SitesFollowInputs
<1>1. IInv => SitesFollowInputs
  BY IdleTyped DEF IInv, SitesFollowInputs, Followed, Quiet, Pending
<1> QED
  BY <1>1, SiteInputsInv, PTL

\* When all is quiet an include that is missing, which makes nginx -t refuse
\* every change of every site, has one of the reasons DanglingIsExplained
\* names: geo rules and WAF settings only after an error, a crash, a race or a
\* refused test, and the list of the feeds never (write_include of
\* GeoIpService and WafService before _regen_proxies).
THEOREM MissingFilesAreExplained == Spec => []DanglingIsExplained
<1>1. ASSUME IInv, Quiet, NEW s \in Sites
      PROVE  /\ Dangling(s) # {} => excuse[s] \cup excuse[0] # {} \/ (Dangling(s) = {"cert"} /\ ~PathsExist)
             /\ Dangling(s) \cap {"geo", "waf"} # {} => excuse[s] \cap Failures # {}
             /\ "threat" \notin Dangling(s)
  <2>1. act["api"].pc = "idle" /\ ~Pending(s) /\ ~Rewriting(s) /\ \A k \in Kinds : ~ToWrite(k, s)
    BY <1>1, IdleTyped, KindFacts DEF Quiet, Pending, Rewriting, ToWrite
  <2>2. "threat" \notin Dangling(s)
    BY <1>1 DEF Dangling, IInv, ThreatListed
  <2>3. ASSUME excuse[s] \cap Failures = {} PROVE "geo" \notin Dangling(s) /\ "waf" \notin Dangling(s)
    <3>1. text[s].geo => geoFile[s]
      BY <1>1, <2>1, <2>3 DEF IInv, Included, TextIncludes, Says, File, Kinds
    <3>2. text[s].waf => wafFile[s]
      BY <1>1, <2>1, <2>3 DEF IInv, Included, TextIncludes, Says, File, Kinds
    <3> QED
      BY <3>1, <3>2 DEF Dangling
  <2>4. ASSUME excuse[s] = {}, excuse[0] = {}, Dangling(s) # {}
        PROVE  Dangling(s) = {"cert"} /\ ~PathsExist
    <3>1. text[s] = Wanted(s, Https(s)) /\ globalFile = GlobalRules
      BY <1>1, <2>1, <2>4 DEF IInv, Followed
    <3>2. text[s].global = globalFile /\ text[s].cert \in {CertificatePaths, "plain"}
      BY <3>1 DEF Wanted
    <3>3. "global" \notin Dangling(s)
      BY <3>2 DEF Dangling
    <3>4. Dangling(s) \subseteq {"global", "threat", "geo", "waf", "cert"}
      BY DEF Dangling
    <3>5. Dangling(s) = {"cert"}
      BY <2>2, <2>3, <2>4, <3>3, <3>4
    <3>6. (text[s].cert = "imported" /\ ~certFiles) \/ (text[s].cert = "letsencrypt" /\ ~letsencrypt)
      BY <3>5 DEF Dangling
    <3>7. ~PathsExist
      BY <3>2, <3>6 DEF CertificatePaths, PathsExist
    <3> QED
      BY <3>5, <3>7
  <2> QED
    BY <2>2, <2>3, <2>4
<1>2. IInv => DanglingIsExplained
  BY <1>1 DEF DanglingIsExplained, Failures
<1> QED
  BY <1>2, SiteInputsInv, PTL
=============================================================================
