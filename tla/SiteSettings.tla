---------------------------- MODULE SiteSettings ----------------------------
(***************************************************************************)
(* What becomes of the settings an administrator gives a site.  They live  *)
(* in three places: the text of the site's file, the rate limit's row, and *)
(* the metadata file that says how to log.  The text is also the only      *)
(* record of the paths, so every regeneration parses it and renders it     *)
(* again, and what the parser does not recover is gone.  A save renders    *)
(* the text from row and metadata as they are, and writes them afterwards. *)
(*                                                                         *)
(* Handlers run one at a time here: SiteConfig has their interleavings,    *)
(* the test, the reload and the restoring.  The paths lead to addresses:   *)
(* reading a text that refers to a pool raises (SiteInputs, HealthRegen),  *)
(* as does reading one with an IPv6 address, which is rendered without     *)
(* brackets.  No handler that reads the site first gets past that.         *)
(***************************************************************************)
EXTENDS Naturals, Sequences

CONSTANTS
    Slugs,              \* names of sites
    Segments,           \* what stands between the slashes of a path
    Paths,              \* path prefixes, as sequences of "/" and segments
    Addresses,          \* where a path can lead
    Unbracketed,        \* those that are IPv6
    Payloads,           \* the requests that are sent
    Templates, TemplateRequests,
    MaxChanges          \* bound: requests

Root == <<"/">>
Settings == {"limit", "log"}            \* kept in the row and in the metadata
Unparsed == {"headers", "timeouts", "hsts"}
Bodies == {"unset", "small", "large"}
\* Path prefixes do not end in a slash: validate_path_prefix strips it.
Prefixes == {q \in Seq(Segments \cup {"/"}) : Len(q) > 0 /\ (q # Root => q[Len(q)] # "/")}
Routes == [path : Paths, to : Addresses, ws : BOOLEAN]
UniquePaths(routes) == \A r, q \in routes : r.path = q.path => r = q

Payload == [routes : {R \in SUBSET Routes : R # {} /\ UniquePaths(R)}, https : BOOLEAN,
            body : Bodies, auth : BOOLEAN, extras : SUBSET Unparsed,
            limit : {"absent", "off", "on"}, log : BOOLEAN, enabled : BOOLEAN]

\* A catalog template, and a request for a site from one, which may leave the
\* answer to the template.
Answers == {"default", "yes", "no"}
Template == [ws : BOOLEAN, https : BOOLEAN, upload : BOOLEAN, body : Bodies, timeouts : BOOLEAN, hsts : BOOLEAN]
TemplateRequest ==
    [to : Addresses, ws : Answers, https : Answers, upload : Answers, body : Bodies,
     headers : BOOLEAN, hsts : Answers, enabled : BOOLEAN]

ASSUME SettingsConstants ==
    /\ Paths \subseteq Prefixes
    /\ Payloads \subseteq Payload /\ Unbracketed \subseteq Addresses
    /\ Templates \subseteq Template
    /\ TemplateRequests \subseteq TemplateRequest
    /\ MaxChanges \in Nat

VARIABLES
    text,       \* sites-available
    linked,     \* sites-enabled
    stored,     \* the rate limit's row and the metadata
    olds,       \* old_config of the site's versions
    asked,      \* history: what the site's text should say
    wanted,     \* history: what row and metadata should say
    late,       \* history: the text was rendered from other stored settings
    lost,       \* history: settings dropped, or inherited from an earlier site
    changes

siteVars == <<text, linked, stored, olds, asked, wanted, late, lost, changes>>

-----------------------------------------------------------------------------
(* Texts *)

NoText == [blocks |-> {}, uses |-> [k \in Settings |-> FALSE]]
Exists(s) == text[s].blocks # {}
Off == [k \in Settings |-> FALSE]

\* route_location_and_pass: prefixes get a slash, except the root.
Location(r) == [at |-> IF r.path = Root THEN Root ELSE Append(r.path, "/"), to |-> r.to, ws |-> r.ws]
\* Mutant: the parser takes the location as it stands.
ToPrefixVerbatim(at) == at
ToPrefix(at) ==
    IF at = Root THEN Root ELSE IF at[Len(at)] = "/" THEN SubSeq(at, 1, Len(at) - 1) ELSE at
RouteOf(l) == [path |-> ToPrefix(l.at), to |-> l.to, ws |-> l.ws]

Redirect == [redirect |-> TRUE, locations |-> {}, body |-> "unset", auth |-> FALSE, extras |-> {}]
Block(p) ==
    [redirect |-> FALSE, locations |-> {Location(r) : r \in p.routes}, body |-> p.body, auth |-> p.auth,
     extras |-> IF p.https THEN p.extras ELSE p.extras \ {"hsts"}]

Rendered(p, settings) ==
    [blocks |-> {Block(p)} \cup (IF p.https THEN {Redirect} ELSE {}), uses |-> settings]

ProxyBlock(t) == CHOOSE x \in t.blocks : x.locations # {}
\* _parse_upstream raises on what is left of an IPv6 address for a port; nginx
\* refuses it too, but reads only the sites that are linked.
Readable(t) == \A l \in ProxyBlock(t).locations : l.to \notin Unbracketed
Accepted(p) == p.enabled => \A r \in p.routes : r.to \notin Unbracketed

\* parse_config_file and parsed_to_response, of a text that is readable; what a
\* regeneration gives back.
Parsed(t, enabled) ==
    LET b == ProxyBlock(t)
    IN  [routes |-> {RouteOf(l) : l \in b.locations}, https |-> \E x \in t.blocks : x.redirect,
         body |-> b.body, auth |-> b.auth, extras |-> {}, limit |-> "absent", log |-> FALSE,
         enabled |-> enabled]
Reading(s) == Parsed(text[s], s \in linked)

\* The settings that a regeneration must not lose.
Kept(p) == [routes |-> p.routes, https |-> p.https, body |-> p.body, auth |-> p.auth, enabled |-> p.enabled]

\* build_proxy_payload: what the request says, else what the template says.
Chosen(answer, default) == IF answer = "default" THEN default ELSE answer = "yes"
Built(t, r) ==
    [routes |-> {[path |-> Root, to |-> r.to, ws |-> Chosen(r.ws, t.ws)]},
     https |-> Chosen(r.https, t.https),
     body |-> IF r.upload = "no" THEN "unset"
              ELSE IF r.body = "unset" /\ t.upload THEN t.body ELSE r.body,
     auth |-> FALSE,
     extras |-> {x \in Unparsed : \/ x = "timeouts" /\ t.timeouts
                                  \/ x = "headers" /\ r.headers
                                  \/ x = "hsts" /\ Chosen(r.hsts, t.hsts)},
     limit |-> "absent", log |-> FALSE, enabled |-> r.enabled]

-----------------------------------------------------------------------------

Init ==
    /\ text = [s \in Slugs |-> NoText] /\ linked = {} /\ stored = [s \in Slugs |-> Off]
    /\ olds = [s \in Slugs |-> {}]
    /\ asked \in [Slugs -> {Kept(p) : p \in Payloads}] /\ wanted = [s \in Slugs |-> Off]
    /\ \A s, t \in Slugs : asked[s] = asked[t]
    /\ late = {} /\ lost = {} /\ changes = 0

\* What a payload says of row and metadata, and the two after a save.
Given(p) == {k \in Settings : k = "log" \/ p.limit # "absent"}
Saved(p, settings) ==
    [k \in Settings |-> IF k \notin Given(p) THEN settings[k] ELSE IF k = "log" THEN p.log ELSE p.limit = "on"]
Linked(s, enabled) == IF enabled THEN linked \cup {s} ELSE linked \ {s}
Of(s, settings) == {s} \X settings
Count == changes < MaxChanges /\ changes' = changes + 1
History(s, t) == olds' = [olds EXCEPT ![s] = @ \cup {t}]
Recorded(s) == History(s, text[s]) \/ UNCHANGED olds       \* unless the test or the reload fails

\* apply_change put the text back, and nothing the link.
Restored(s, enabled) ==
    /\ linked' = Linked(s, enabled) /\ asked' = [asked EXCEPT ![s].enabled = enabled]
    /\ UNCHANGED <<text, olds>>

\* create_proxy, and update_proxy under the same name: row and metadata follow
\* once nginx has reloaded.
Save(s, p) ==
    /\ Accepted(p)
    /\ text' = [text EXCEPT ![s] = Rendered(p, stored[s])]
    /\ linked' = Linked(s, p.enabled)
    /\ asked' = [asked EXCEPT ![s] = Kept(p)]
    /\ wanted' = [wanted EXCEPT ![s] = Saved(p, IF Exists(s) THEN @ ELSE Off)]
    /\ \/ /\ stored' = [stored EXCEPT ![s] = Saved(p, @)]
          /\ lost' = lost \ Of(s, Given(p))
          /\ late' = (late \ Of(s, Settings)) \cup Of(s, {k \in Given(p) : stored[s][k] # Saved(p, stored[s])[k]})
          /\ History(s, text[s])
       \/ \* the reload fails
          /\ lost' = lost \cup Of(s, Given(p)) /\ late' = late \ Of(s, Settings)
          /\ UNCHANGED <<stored, olds>>

Refused(s, p) == Restored(s, p.enabled) /\ UNCHANGED <<stored, wanted, late, lost>>

\* The other handlers of the API read the site before they do anything.
Found(s) == Exists(s) /\ Readable(text[s])
Create(s, p) == ~Exists(s) /\ Count /\ (Save(s, p) \/ Refused(s, p))
Update(s, p) == Found(s) /\ Count /\ (Save(s, p) \/ Refused(s, p))

\* A failed rename is undone.
Rename(s, t, p) ==
    /\ Found(s) /\ ~Exists(t) /\ s # t /\ Accepted(p) /\ Count
    /\ text' = [text EXCEPT ![s] = NoText, ![t] = Rendered(p, stored[t])]
    /\ linked' = Linked(t, p.enabled) \ {s}
    /\ asked' = [asked EXCEPT ![t] = Kept(p)]
    /\ wanted' = [wanted EXCEPT ![s] = Off, ![t] = Saved(p, wanted[s])]
    /\ stored' = [stored EXCEPT ![s] = [k \in Settings |-> k \notin Given(p) /\ @[k]], ![t] = Saved(p, @)]
    /\ lost' = (lost \ ({s, t} \X Given(p))) \cup ({s, t} \X (Settings \ Given(p)))
    /\ late' = (late \ ({s, t} \X Settings)) \cup Of(t, {k \in Given(p) : stored[t][k] # Saved(p, stored[t])[k]})
    /\ History(t, text[s])

Remove(s) ==
    /\ text' = [text EXCEPT ![s] = NoText] /\ linked' = linked \ {s}
    /\ wanted' = [wanted EXCEPT ![s] = Off] /\ late' = late \ Of(s, Settings)
    /\ UNCHANGED asked

\* Mutant: row and metadata stay, and the next site of this name finds them.
DeleteLeavesRow(s) == Found(s) /\ Count /\ Remove(s) /\ History(s, text[s]) /\ UNCHANGED <<stored, lost>>

\* Row and metadata stay if the reload fails.
Delete(s) ==
    /\ Found(s) /\ Count
    /\ \/ Remove(s) /\ stored' = [stored EXCEPT ![s] = Off] /\ lost' = lost \ Of(s, Settings) /\ History(s, text[s])
       \/ Remove(s) /\ lost' = lost \cup Of(s, Settings) /\ UNCHANGED <<stored, olds>>
       \/ Restored(s, FALSE) /\ UNCHANGED <<stored, wanted, late, lost>>

SetEnabled(s, enabled) ==
    /\ Exists(s) /\ Count /\ Restored(s, enabled) /\ UNCHANGED <<stored, wanted, late, lost>>

\* update_proxy_rate_limit commits the row, then saves what it has read of the
\* site: not how to log, so that becomes the default.
UpdateRateLimit(s, on) ==
    LET row == [stored[s] EXCEPT !["limit"] = on]
    IN  /\ Found(s) /\ Count
        /\ wanted' = [wanted EXCEPT ![s]["limit"] = on]
        /\ UNCHANGED <<linked, asked>>
        /\ \/ \* nginx refuses it
              /\ stored' = [stored EXCEPT ![s] = row]
              /\ late' = late \cup Of(s, {"limit"}) /\ lost' = lost \ Of(s, {"limit"})
              /\ UNCHANGED <<text, olds>>
           \/ /\ text' = [text EXCEPT ![s] = Rendered(Reading(s), row)]
              /\ \/ /\ stored' = [stored EXCEPT ![s] = Saved(Reading(s), row)]
                    /\ late' = (late \ Of(s, Settings)) \cup Of(s, {k \in {"log"} : row[k]})
                    /\ lost' = (lost \ Of(s, {"limit"})) \cup Of(s, {"log"})
                    /\ History(s, text[s])
                 \/ \* the reload fails
                    /\ stored' = [stored EXCEPT ![s] = row]
                    /\ late' = late \ Of(s, Settings) /\ lost' = lost \ Of(s, {"limit"})
                    /\ UNCHANGED olds

\* regen_proxy, the security pages, and the removal of a pool, which saves the
\* whole response and so keeps row and metadata.
Regenerate(s) ==
    /\ Found(s)
    /\ text' = [text EXCEPT ![s] = Rendered(Reading(s), stored[s])]
    /\ late' = late \ Of(s, Settings)
    /\ UNCHANGED <<linked, stored, olds, asked, wanted, lost, changes>>
RemovePool(s) ==
    /\ Found(s) /\ Count
    /\ text' = [text EXCEPT ![s] = Rendered(Reading(s), stored[s])]
    /\ late' = late \ Of(s, Settings)
    /\ Recorded(s)
    /\ UNCHANGED <<linked, stored, asked, wanted, lost>>

\* rollback writes a text and links it, or removes it; row and metadata stay.
\* It reads nothing, and does not put back what it has removed when nginx
\* refuses the rest: apply_change restores only a file that is there.
RevertToText(s, old) ==
    /\ old # NoText /\ Count
    /\ \/ /\ Readable(old)
          /\ text' = [text EXCEPT ![s] = old] /\ linked' = linked \cup {s}
          /\ asked' = [asked EXCEPT ![s] = Kept(Parsed(old, TRUE))]
          /\ late' = late \cup Of(s, Settings)
          /\ Recorded(s)
       \/ Restored(s, TRUE) /\ UNCHANGED late
    /\ UNCHANGED <<stored, wanted, lost>>
RevertToNone(s) ==
    /\ NoText \in olds[s] /\ Exists(s) /\ Count
    /\ Remove(s) /\ lost' = lost \cup Of(s, Settings) /\ Recorded(s)
    /\ UNCHANGED stored

Administrator ==
    \E s \in Slugs :
        \/ \E p \in Payloads : Create(s, p) \/ Update(s, p) \/ \E t \in Slugs : Rename(s, t, p)
        \/ Delete(s)
        \/ \E b \in BOOLEAN : SetEnabled(s, b) \/ UpdateRateLimit(s, b)
Token ==
    \E s \in Slugs : Delete(s) \/ \E p \in Payloads : Create(s, p) \/ Update(s, p)
FromTemplate ==
    \E s \in Slugs, t \in Templates, r \in TemplateRequests : Create(s, Built(t, r))
Versions == \E s \in Slugs : RevertToNone(s) \/ \E old \in olds[s] : RevertToText(s, old)

Next ==
    \/ Administrator
    \/ Token
    \/ FromTemplate
    \/ Versions
    \/ \E s \in Slugs : Regenerate(s) \/ RemovePool(s)

Spec == Init /\ [][Next]_siteVars

-----------------------------------------------------------------------------
(* Properties *)

\* Through regenerations, changes of the limit, removals of pools, failures and
\* rollbacks, a site keeps the paths, destinations, redirect, body size and
\* authentication that were asked of it last, and stays enabled or disabled:
\* the parser recovers them from what the template renders.  Only what was asked
\* for makes a text unreadable, and nothing that needs to read it changes it then.
PathsSurvive == \A s \in {t \in Slugs : Exists(t)} :
    /\ Kept(Reading(s)) = asked[s]
    /\ Readable(text[s]) <=> \A r \in asked[s].routes : r.to \notin Unbracketed

\* The limit and the log format that nginx applies are those stored, unless
\* they were stored after the text was rendered, or the text is an old one.
\* Those stored are those asked for, unless the handler that should have stored
\* them failed half way, a limit's change has reset the log format, a rename has
\* left the row behind, or a site has found the row of one that was removed, or
\* that a rollback has lost.
SettingsAreExplained ==
    \A s \in {t \in Slugs : Exists(t)}, k \in Settings :
        /\ text[s].uses[k] # stored[s][k] => <<s, k>> \in late
        /\ stored[s][k] # wanted[s][k] => <<s, k>> \in lost
=============================================================================
