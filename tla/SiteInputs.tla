----------------------------- MODULE SiteInputs -----------------------------
(***************************************************************************)
(* What the sites' files are rendered from and refer to: IP rules, geo     *)
(* rules, WAF settings, threat feeds, certificates and pools are rows of   *)
(* the database; the IP rules that hold everywhere, the geo rule and the   *)
(* WAF settings of a site and the feeds also become files that the sites   *)
(* include.  A file that is included and missing makes nginx -t refuse the *)
(* whole configuration, so no site can be changed any more.                *)
(*                                                                         *)
(* Requests run one at a time on the event loop.  Beside them the          *)
(* scheduler regenerates sites and synchronises feeds in threads of its    *)
(* own.  A change of rules rewrites the sites it names one after the other,*)
(* without lock, test or reload; a save and a regeneration lock the site's *)
(* file, test, and restore the text if the test fails.  All of them parse   *)
(* the site's text first, which raises if it refers to a pool.             *)
(***************************************************************************)
EXTENDS Naturals, FiniteSets

CONSTANTS
    N,              \* sites are 1..N, in the order of their names
    Scenarios,      \* what happens together: which inputs change, whether sites
                    \* are saved and regenerated, whether the process dies
    MaxCrashes      \* bound

Sites == 1..N
Happenings == {"ip", "geo", "waf", "feed", "cert", "pool", "save", "regen", "crash"}

ASSUME SiteInputsConstants ==
    N \in Nat \ {0} /\ MaxCrashes \in Nat /\ Scenarios \subseteq SUBSET Happenings

VARIABLES
    active,                                 \* the scenario
    rule, geo, waf, feed, cert, pools,      \* the database
    globalFile, geoFile, wafFile,           \* data_dir/security
    feedFile, combined,
    certFiles, letsencrypt,                 \* certificates on disk
    text,                                   \* sites-available
    act,                                    \* the request and the regeneration
    sync,                                   \* the job that synchronises feeds
    crashes,
    excuse          \* history: why a site, or globalFile (0), may differ
                    \* from the database

dbVars == <<rule, geo, waf, feed, cert, pools>>
includeVars == <<globalFile, geoFile, wafFile>>
fileVars == <<includeVars, feedFile, combined, certFiles, letsencrypt>>
vars == <<active, dbVars, fileVars, text, act, sync, crashes, excuse>>

Actors == {"api", "job"}
Rules == {[scope |-> "none", site |-> 0, on |-> FALSE]}
         \cup [scope : {"global", "proxy"}, site : {0} \cup Sites, on : BOOLEAN]
GeoRules == {[site |-> 0, on |-> FALSE]} \cup [site : Sites, on : BOOLEAN]
Feeds == {"none", "off", "on", "off, with addresses", "on, with addresses"}
Reasons == {"scope", "moved", "feed", "certificate", "missed", "raised", "crashed", "raced", "restored"}
Texts == [ip : BOOLEAN, global : BOOLEAN, threat : BOOLEAN, geo : BOOLEAN, waf : BOOLEAN, pool : BOOLEAN,
          cert : {"plain", "letsencrypt", "imported"}]
Blank == [ip |-> FALSE, global |-> FALSE, threat |-> FALSE, geo |-> FALSE, waf |-> FALSE,
          pool |-> FALSE, cert |-> "plain"]
Idle == [pc |-> "idle", todo |-> {}, tested |-> FALSE, https |-> FALSE,
         out |-> Blank, backup |-> Blank]

TypeOK ==
    /\ active \in Scenarios
    /\ rule \in Rules /\ geo \in GeoRules /\ waf \in [Sites -> BOOLEAN] /\ feed \in Feeds
    /\ cert \in BOOLEAN /\ pools \in [Sites -> {"none", "served", "empty"}]
    /\ {globalFile, feedFile, certFiles, letsencrypt} \subseteq BOOLEAN
    /\ geoFile \in [Sites -> BOOLEAN] /\ wafFile \in [Sites -> BOOLEAN]
    /\ combined \in {"absent", "empty", "feed"} /\ (combined = "feed" => feedFile)
    /\ text \in [Sites -> Texts]
    /\ \A a \in Actors :
          /\ act[a].pc \in {"idle", "geo include", "waf include", "combine", "install", "remove", "read", "render", "write", "test"}
          /\ act[a].todo \subseteq Sites /\ act[a].out \in Texts /\ act[a].backup \in Texts
          /\ act[a].pc \in {"read", "render", "write", "test"} => act[a].todo # {}
          /\ act[a].tested => Cardinality(act[a].todo) = 1
    /\ sync \in {"idle", "combine"}
    /\ crashes \in 0..MaxCrashes
    /\ excuse \in [{0} \cup Sites -> SUBSET Reasons]

Init ==
    /\ active \in Scenarios
    /\ rule = [scope |-> "none", site |-> 0, on |-> FALSE] /\ geo = [site |-> 0, on |-> FALSE]
    /\ waf = [s \in Sites |-> FALSE] /\ feed = "none" /\ cert = FALSE
    /\ pools = [s \in Sites |-> "none"]
    /\ globalFile = FALSE /\ geoFile = [s \in Sites |-> FALSE] /\ wafFile = [s \in Sites |-> FALSE]
    /\ feedFile = FALSE /\ combined = "absent" /\ certFiles = FALSE
    /\ letsencrypt \in (IF "cert" \in active THEN BOOLEAN ELSE {TRUE})
    /\ text = [s \in Sites |-> Blank]
    /\ act = [a \in Actors |-> Idle] /\ sync = "idle"
    /\ crashes = 0 /\ excuse = [s \in {0} \cup Sites |-> {}]

-----------------------------------------------------------------------------
(* What a site's text says *)

\* rules_for_proxy: the rules of the site and those that hold everywhere.
RulesForProxy(s) == rule.on /\ (rule.scope = "global" \/ (rule.scope = "proxy" /\ rule.site = s))
GlobalRules == rule.on /\ rule.scope = "global"
GeoRule(s) == geo.on /\ geo.site = s

\* resolve_certificate_paths asks for the row only, certificate_exists also
\* for the files, and falls back.
CertificatePaths == IF cert THEN "imported" ELSE "letsencrypt"
PathsExist == IF cert THEN certFiles ELSE letsencrypt
CertificateExists == (cert /\ certFiles) \/ letsencrypt

Https(s) == text[s].cert # "plain"
Wanted(s, https) ==
    [ip |-> RulesForProxy(s), global |-> GlobalRules, threat |-> combined # "absent",
     geo |-> GeoRule(s), waf |-> waf[s], pool |-> pools[s] = "served", cert |-> IF https THEN CertificatePaths ELSE "plain"]

Dangling(s) ==
    {k \in {"global", "threat", "geo", "waf", "cert"} :
        \/ k = "global" /\ text[s].global /\ ~globalFile
        \/ k = "threat" /\ text[s].threat /\ combined = "absent"
        \/ k = "geo" /\ text[s].geo /\ ~geoFile[s]
        \/ k = "waf" /\ text[s].waf /\ ~wafFile[s]
        \/ k = "cert" /\ text[s].cert = "imported" /\ ~certFiles
        \/ k = "cert" /\ text[s].cert = "letsencrypt" /\ ~letsencrypt}

\* parse_config_file raises: a pool's upstream is no address.
Unreadable(s) == text[s].pool

\* _regen_proxies without names parses all the sites before it rewrites one;
\* a site that is named is parsed when its turn comes.
Targets(named) ==
    IF named # {} THEN named ELSE IF \E s \in Sites : Unreadable(s) THEN {} ELSE Sites

\* nginx -t reads all the sites.
TestOk == \A s \in Sites : Dangling(s) = {}

-----------------------------------------------------------------------------
(* Histories *)

Other(a) == CHOOSE b \in Actors : b # a

\* What the text says of site s is what the database says now.
UpToDate(s, written) == written = Wanted(s, written.cert # "plain")

\* A change of the inputs: the sites that should differ now and that the
\* request is not going to rewrite.
Told(sites, reason) ==
    excuse' = [s \in DOMAIN excuse |->
        IF \/ s \in Sites \ sites /\ Wanted(s, Https(s))' # Wanted(s, Https(s))
           \/ s = 0 /\ sites = {} /\ GlobalRules' # GlobalRules
        THEN excuse[s] \cup {reason} ELSE excuse[s]]

\* ... and a request or a job that raises: what it leaves behind.
LeftBehind(sites) ==
    {s \in sites : text[s] # Wanted(s, Https(s))} \cup {s \in {0} : globalFile # GlobalRules}

\* The request goes on with pc, for the sites that it names.
Begin(pc, sites) == act' = [act EXCEPT !["api"] = [Idle EXCEPT !.pc = pc, !.todo = sites]]
Rewrite(sites) == IF sites = {} THEN act' = [act EXCEPT !["api"] = Idle] ELSE Begin("read", sites)

-----------------------------------------------------------------------------
(* Requests that change rules *)

\* Mutant: a rule without a site counts as a rule of site 0.
NamedWithNone(old, new) == {old.site, new.site}

\* Mutant: only the site the rule has now is rewritten.
NamedOnlyNew(old, new) == {new.site} \ {0}

\* The sites that the rule names before and after the change; if these are none
\* then _regen_proxies rewrites all.
Named(old, new) == {old.site, new.site} \ {0}

\* create_ip_rule, update_ip_rule (which cannot take the site away), delete_ip_rule.
ChangeIpRule(new) ==
    /\ "ip" \in active /\ act["api"].pc = "idle" /\ new # rule
    /\ \/ rule.scope = "none" \/ new.scope = "none"
       \/ rule.site # 0 => new.site # 0
    /\ rule' = new
    /\ Rewrite(Targets(Named(rule, new)))
    /\ UNCHANGED <<active, geo, waf, feed, cert, pools, fileVars, text, sync, crashes>>
    /\ Told(Targets(Named(rule, new)),
            IF Targets(Named(rule, new)) = {} THEN "raised"
            ELSE IF {rule.site, new.site} # {0} /\ "global" \in {rule.scope, new.scope} THEN "scope"
            ELSE "missed")

\* create_geo_rule, update_geo_rule, delete_geo_rule: the site that has the
\* rule now, or had it when it is deleted.
ChangeGeoRule(new) ==
    LET site == IF new.site = 0 THEN geo.site ELSE new.site IN
    /\ "geo" \in active /\ act["api"].pc = "idle" /\ new # geo
    /\ geo' = new
    /\ Begin("geo include", {site})
    /\ UNCHANGED <<active, rule, waf, feed, cert, pools, fileVars, text, sync, crashes>>
    /\ Told({site}, IF 0 \notin {geo.site, new.site} THEN "moved" ELSE "missed")

\* update_waf_settings
ChangeWaf(s) ==
    /\ "waf" \in active /\ act["api"].pc = "idle"
    /\ waf' = [waf EXCEPT ![s] = ~@]
    /\ Begin("waf include", {s})
    /\ UNCHANGED <<active, rule, geo, feed, cert, pools, fileVars, text, sync, crashes>>
    /\ Told({s}, "missed")

\* Mutant: the file of a rule that does not apply stays and is not rewritten.
WriteGeoIncludeOnly ==
    /\ act["api"].pc = "geo include"
    /\ act' = [act EXCEPT !["api"].pc = "idle", !["api"].todo = {}]
    /\ geoFile' = [s \in Sites |-> IF s \in act["api"].todo THEN GeoRule(s) ELSE geoFile[s]]
    /\ UNCHANGED <<active, dbVars, globalFile, wafFile, feedFile, combined, certFiles, letsencrypt, text, sync, crashes, excuse>>

\* write_include of the geo rule and of the WAF settings, before the rendering:
\* the file of a rule that does not apply is removed.
WriteGeoInclude ==
    /\ act["api"].pc = "geo include"
    /\ act' = [act EXCEPT !["api"].pc = "read"]
    /\ geoFile' = [s \in Sites |-> IF s \in act["api"].todo THEN GeoRule(s) ELSE geoFile[s]]
    /\ UNCHANGED <<active, dbVars, globalFile, wafFile, feedFile, combined, certFiles, letsencrypt, text, sync, crashes, excuse>>
WriteWafInclude ==
    /\ act["api"].pc = "waf include"
    /\ act' = [act EXCEPT !["api"].pc = "read"]
    /\ wafFile' = [s \in Sites |-> IF s \in act["api"].todo THEN waf[s] ELSE wafFile[s]]
    /\ UNCHANGED <<active, dbVars, globalFile, geoFile, feedFile, combined, certFiles, letsencrypt, text, sync, crashes, excuse>>

-----------------------------------------------------------------------------
(* Threat feeds *)

Enabled == feed \in {"on", "on, with addresses"}
WithAddresses == feed \in {"off, with addresses", "on, with addresses"}

\* create_threat_feed, update_threat_feed, delete_threat_feed: only the row.
ChangeFeed ==
    /\ "feed" \in active /\ act["api"].pc = "idle"
    /\ feed' \in CASE feed = "none" -> {"on", "off"}
                   [] feed = "on" -> {"off", "none"}
                   [] feed = "off" -> {"on", "none"}
                   [] feed = "on, with addresses" -> {"off, with addresses", "none"}
                   [] feed = "off, with addresses" -> {"on, with addresses", "none"}
    /\ UNCHANGED <<active, rule, geo, waf, cert, pools, fileVars, text, act, sync, crashes, excuse>>

\* sync_feed: the file and the number of addresses, or nothing but an error.
Fetched ==
    \/ /\ feedFile' = TRUE
       /\ feed' \in IF Enabled THEN {"on", "on, with addresses"} ELSE {"off", "off, with addresses"}
    \/ UNCHANGED <<feed, feedFile>>

\* Mutant: the list is only written when it has a feed.
CombinedIfAny == IF Enabled /\ WithAddresses /\ feedFile THEN "feed" ELSE combined

\* _write_combined_deny_file
Combined == IF Enabled /\ WithAddresses /\ feedFile THEN "feed" ELSE "empty"

\* sync_threat_feed; a fetch that fails ends the request.
SyncRequest ==
    /\ "feed" \in active /\ act["api"].pc = "idle" /\ feed # "none"
    /\ Fetched
    /\ \/ Begin("combine", Sites) \/ UNCHANGED act
    /\ UNCHANGED <<active, rule, geo, waf, cert, pools, includeVars, combined, certFiles, letsencrypt, text, sync, crashes, excuse>>

CombineRequest ==
    /\ act["api"].pc = "combine"
    /\ combined' = Combined
    /\ Rewrite(Targets({}))
    /\ UNCHANGED <<active, dbVars, includeVars, feedFile, certFiles, letsencrypt, text, sync, crashes>>
    /\ Told(Targets({}), "raised")

\* sync_all in the scheduler: the feeds that are enabled, then the list.
SyncJob ==
    /\ "feed" \in active /\ sync = "idle"
    /\ IF Enabled THEN Fetched ELSE UNCHANGED <<feed, feedFile>>
    /\ sync' = "combine"
    /\ UNCHANGED <<active, rule, geo, waf, cert, pools, includeVars, combined, certFiles, letsencrypt, text, act, crashes, excuse>>

CombineJob ==
    /\ sync = "combine"
    /\ combined' = Combined
    /\ sync' = "idle"
    /\ UNCHANGED <<active, dbVars, includeVars, feedFile, certFiles, letsencrypt, text, act, crashes>>
    /\ Told({}, "feed")

-----------------------------------------------------------------------------
(* Imported certificates *)

\* import_certificate writes the files, then the row; delete_certificate
\* unlinks the files, then deletes the row.  Neither looks at the sites.
BeginImport ==
    /\ "cert" \in active /\ act["api"].pc = "idle" /\ ~cert
    /\ certFiles' = TRUE
    /\ Begin("install", {})
    /\ UNCHANGED <<active, dbVars, includeVars, feedFile, combined, letsencrypt, text, sync, crashes, excuse>>

BeginRemove ==
    /\ "cert" \in active /\ act["api"].pc = "idle" /\ cert
    /\ certFiles' = FALSE
    /\ excuse' = [s \in DOMAIN excuse |-> IF s # 0 /\ text[s].cert = "imported" THEN excuse[s] \cup {"certificate"} ELSE excuse[s]]
    /\ Begin("remove", {})
    /\ UNCHANGED <<active, dbVars, includeVars, feedFile, combined, letsencrypt, text, sync, crashes>>

EndCertificate ==
    /\ act["api"].pc \in {"install", "remove"}
    /\ cert' = (act["api"].pc = "install")
    /\ act' = [act EXCEPT !["api"] = Idle]
    /\ UNCHANGED <<active, rule, geo, waf, feed, pools, fileVars, text, sync, crashes>>
    /\ Told({}, "certificate")

-----------------------------------------------------------------------------
(* Saving and regenerating one site: lock, write, test, restore *)

Tested(s, https) ==
    [Idle EXCEPT !.pc = "read", !.todo = {s}, !.tested = TRUE, !.https = https, !.backup = text[s]]

\* update_proxy, with _validate_force_https before anything is written.
Save(s, https) ==
    /\ "save" \in active /\ act["api"].pc = "idle"
    /\ https => CertificateExists
    /\ act' = [act EXCEPT !["api"] = Tested(s, https)]
    /\ UNCHANGED <<active, dbVars, fileVars, text, sync, crashes, excuse>>

\* create_pool, update_server, delete_pool and _rerender_proxy: the row is
\* committed whatever becomes of the site that is saved again.
ChangePool(s) ==
    /\ "pool" \in active /\ act["api"].pc = "idle"
    /\ \E p \in {"none", "served", "empty"} \ {pools[s]} : pools' = [pools EXCEPT ![s] = p]
    /\ act' = [act EXCEPT !["api"] = IF Https(s) /\ ~CertificateExists THEN Idle ELSE Tested(s, Https(s))]
    /\ UNCHANGED <<active, rule, geo, waf, feed, cert, fileVars, text, sync, crashes>>
    /\ Told(IF Https(s) /\ ~CertificateExists THEN {} ELSE {s}, "raised")

\* regen_proxy by the scheduler, after it has parsed all the sites.
Regenerate(s) ==
    /\ "regen" \in active /\ act["job"].pc = "idle"
    /\ \A t \in Sites : ~Unreadable(t)
    /\ act' = [act EXCEPT !["job"] = Tested(s, Https(s))]
    /\ UNCHANGED <<active, dbVars, fileVars, text, sync, crashes, excuse>>

Site(a) == CHOOSE s \in act[a].todo : \A t \in act[a].todo : s <= t
Locked(b, s) == act[b].tested /\ act[b].pc \in {"render", "write", "test"} /\ s \in act[b].todo

\* get_proxy raises: the request ends there.
ReadRaises(a) ==
    /\ act[a].pc = "read" /\ Unreadable(Site(a))
    /\ act' = [act EXCEPT ![a] = Idle]
    /\ excuse' = [t \in DOMAIN excuse |->
                    excuse[t] \cup (IF t \in LeftBehind(act[a].todo) THEN {"raised"} ELSE {})]
    /\ UNCHANGED <<active, dbVars, fileVars, text, sync, crashes>>

\* _render_config reads the rows; a save and a regeneration hold the lock.
Read(a) ==
    LET s == Site(a) IN
    /\ act[a].pc = "read" /\ ~Unreadable(s)
    /\ act[a].tested => ~Locked(Other(a), s)
    /\ act' = [act EXCEPT ![a].pc = "render",
                          ![a].out = Wanted(s, IF act[a].tested THEN act[a].https ELSE Https(s))]
    /\ UNCHANGED <<active, dbVars, fileVars, text, sync, crashes, excuse>>

\* The files the text will include, written with what was read.
WrittenIncludes(a, s) ==
    /\ globalFile' = act[a].out.global
    /\ geoFile' = [geoFile EXCEPT ![s] = @ \/ act[a].out.geo]
    /\ wafFile' = [wafFile EXCEPT ![s] = @ \/ act[a].out.waf]

\* validate_pool raises for a pool without enabled servers: the request ends
\* there and the sites it had not come to stay as they are.
Render(a) ==
    LET s == Site(a)
        raised == pools[s] = "empty"
        raced == IF UpToDate(s, act[a].out) THEN {} ELSE {"raced"}
    IN
    /\ act[a].pc = "render"
    /\ WrittenIncludes(a, s)
    /\ act' = [act EXCEPT ![a] = IF raised THEN Idle ELSE [@ EXCEPT !.pc = "write"]]
    /\ excuse' = [t \in DOMAIN excuse |->
                    IF t = 0 THEN raced
                    ELSE excuse[t] \cup (IF t = s THEN raced ELSE {})
                                   \cup (IF raised /\ t \in LeftBehind(act[a].todo) THEN {"raised"} ELSE {})]
    /\ UNCHANGED <<active, dbVars, feedFile, combined, certFiles, letsencrypt, text, sync, crashes>>

\* atomic_write.  Without a test the next site follows.
Write(a) ==
    LET s == Site(a) IN
    /\ act[a].pc = "write"
    /\ text' = [text EXCEPT ![s] = act[a].out]
    /\ excuse' = [excuse EXCEPT ![s] = IF UpToDate(s, act[a].out) THEN {} ELSE {"raced"}]
    /\ act' = [act EXCEPT ![a] =
                  IF act[a].tested THEN [act[a] EXCEPT !.pc = "test"]
                  ELSE IF act[a].todo = {s} THEN Idle
                  ELSE [act[a] EXCEPT !.pc = "read", !.todo = @ \ {s}]]
    /\ UNCHANGED <<active, dbVars, fileVars, sync, crashes>>

\* nginx -t, and the text from before if it refuses.
Test(a) ==
    LET s == Site(a) IN
    /\ act[a].pc = "test"
    /\ act' = [act EXCEPT ![a] = Idle]
    /\ IF TestOk THEN UNCHANGED <<text, excuse>>
       ELSE /\ text' = [text EXCEPT ![s] = act[a].backup]
            /\ excuse' = [excuse EXCEPT ![s] = IF act[a].backup = text[s] THEN @ ELSE @ \cup {"restored"}]
    /\ UNCHANGED <<active, dbVars, fileVars, sync, crashes>>

\* The process is killed.
Crash ==
    /\ "crash" \in active /\ crashes < MaxCrashes
    /\ \E a \in Actors : act[a].pc # "idle"
    /\ crashes' = crashes + 1
    /\ excuse' = [s \in DOMAIN excuse |-> excuse[s] \cup
                    (IF \E a \in Actors : s \in act[a].todo \/ (s = 0 /\ act[a].todo # {}) THEN {"crashed"} ELSE {})]
    /\ act' = [a \in Actors |-> Idle] /\ sync' = "idle"
    /\ UNCHANGED <<active, dbVars, fileVars, text>>

-----------------------------------------------------------------------------

Requests ==
    \/ \E new \in Rules : ChangeIpRule(new)
    \/ \E new \in GeoRules : ChangeGeoRule(new)
    \/ \E s \in Sites : ChangeWaf(s) \/ ChangePool(s) \/ \E https \in BOOLEAN : Save(s, https)
    \/ WriteGeoInclude \/ WriteWafInclude \/ ChangeFeed \/ SyncRequest \/ CombineRequest
    \/ BeginImport \/ BeginRemove \/ EndCertificate
Steps(a) == ReadRaises(a) \/ Read(a) \/ Render(a) \/ Write(a) \/ Test(a)
FeedJob == SyncJob \/ CombineJob

Next == Requests \/ (\E a \in Actors : Steps(a)) \/ (\E s \in Sites : Regenerate(s)) \/ FeedJob \/ Crash

Spec == Init /\ [][Next]_vars

\* The scheduler starts the synchronisation again and again.
FairSpec == Spec /\ WF_vars(SyncJob) /\ WF_vars(CombineJob)

-----------------------------------------------------------------------------
(* Properties *)

Quiet == \A a \in Actors : act[a].pc = "idle"

\* A site includes a file that is missing, and nginx -t refuses every change
\* of every site, only if a rule that holds everywhere and names a site was
\* changed, a rendering raised before it came to the site, the process died,
\* a regeneration wrote what it had read before the change or put back an
\* older text, or the files of the certificate that the database names are
\* gone.  For geo rules and WAF settings the first never happens, and the list
\* of the feeds is never missing.
DanglingIsExplained ==
    Quiet => \A s \in Sites :
        /\ Dangling(s) # {} => excuse[s] \cup excuse[0] # {} \/ (Dangling(s) = {"cert"} /\ ~PathsExist)
        /\ Dangling(s) \cap {"geo", "waf"} # {} => excuse[s] \cap {"raised", "crashed", "raced", "restored"} # {}
        /\ "threat" \notin Dangling(s)

\* A site says what the database says unless one of these happened to it since
\* it was last written: a rule that holds everywhere and names a site, or a
\* geo rule that moved to another site, or the first list of the feeds, or a
\* certificate that came or went, or an error, a crash, a race or a refused
\* test.  No other change misses a site.  The file of the rules that hold
\* everywhere follows them unless its last writer was interrupted or late.
SitesFollowInputs ==
    Quiet =>
        /\ \A s \in Sites : excuse[s] = {} => text[s] = Wanted(s, Https(s))
        /\ \A s \in Sites : "missed" \notin excuse[s]
        /\ excuse[0] = {} => globalFile = GlobalRules

\* A feed that is deleted or disabled for good is taken off the list of denied
\* addresses, although neither request touches it.
FeedFades == <>[](feed \in {"none", "off", "off, with addresses"}) => <>[](combined # "feed")

=============================================================================
