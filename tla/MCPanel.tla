------------------------------ MODULE MCPanel ------------------------------
(***************************************************************************)
(* Three parts of the panel, checked in one run.  They share no state: the *)
(* initial state chooses the part that moves, the others stay as they are. *)
(***************************************************************************)
EXTENDS SiteSettings, Certificates, Statistics, TLC

CONSTANTS siteA, siteB

\* The two sites are alike.
SiteSymmetry == Permutations({siteA, siteB})

\* Settings of sites
Api == <<"/", "api">>
MCPaths == {Root, Api}
Route(p, address, ws) == [path |-> p, to |-> address, ws |-> ws]
Plain == [routes |-> {Route(Root, "x", FALSE)}, https |-> FALSE, body |-> "unset", auth |-> FALSE,
          extras |-> {}, limit |-> "absent", log |-> TRUE, enabled |-> TRUE]
Rich == [routes |-> {Route(Root, "y", FALSE), Route(Api, "x", TRUE)}, https |-> TRUE, body |-> "small",
         auth |-> TRUE, extras |-> {"headers", "hsts"}, limit |-> "on", log |-> FALSE, enabled |-> FALSE]
\* An IPv6 address, in a site that is not linked: nginx never reads it.
Six == [Plain EXCEPT !.routes = {Route(Root, "six", FALSE)}, !.enabled = FALSE]
MCPayloads == {Plain, Rich, Six}
MCTemplates == {[ws |-> TRUE, https |-> TRUE, upload |-> TRUE, body |-> "large", timeouts |-> TRUE, hsts |-> TRUE]}
MCTemplateRequests ==
    {[to |-> "x", ws |-> "default", https |-> "no", upload |-> "default", body |-> "unset",
      headers |-> TRUE, hsts |-> "default", enabled |-> TRUE]}

\* Statistics: two status groups and a status outside of all, one line untimed.
MCRequests == {[status |-> 200, client |-> "c", ms |-> 1], [status |-> 502, client |-> "d", ms |-> 3],
               [status |-> 700, client |-> "c", ms |-> -1]}

\* Certificates: x.test is part of the name of yx.test.
MCDomains == {"x.test", "yx.test"}
MCWithin == {<<"x.test", "x.test">>, <<"yx.test", "yx.test">>, <<"x.test", "yx.test">>}
MCKeyOf == [one |-> "k", both |-> "l"]
MCDomainsOf == [one |-> {"x.test"}, both |-> {"x.test", "yx.test"}]

VARIABLE part
vars == <<siteVars, statVars, certVars, part>>

MCInit ==
    /\ part \in {"settings", "statistics", "certificates"}
    /\ Init /\ StatInit /\ CertInit
    \* what the other parts begin with does not matter
    /\ part # "settings" => asked = [s \in Slugs |-> Kept(Plain)]
    /\ part # "statistics" => rate = 1
    /\ part # "certificates" => ~sudo

MCNext ==
    /\ UNCHANGED part
    /\ \/ part = "settings" /\ Next /\ UNCHANGED <<statVars, certVars>>
       \/ part = "statistics" /\ StatNext /\ UNCHANGED <<siteVars, certVars>>
       \/ part = "certificates" /\ CertNext /\ UNCHANGED <<siteVars, statVars>>

MCSpec == MCInit /\ [][MCNext]_vars
=============================================================================
