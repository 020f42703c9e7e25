---------------------------- MODULE Certificates ----------------------------
(***************************************************************************)
(* Certificates: those an administrator imports have a row and two files,  *)
(* those of Let's Encrypt are certbot's, and three readers put the two     *)
(* together in their own way: whether a domain has a certificate, which    *)
(* files its site names, and the list the page and the warnings show.      *)
(*                                                                         *)
(* Requests run one at a time: the handlers do not await once the uploads  *)
(* are read.  The process may end, or a write fail, between two steps of   *)
(* an import or a deletion.  A certificate is the domains it names, its    *)
(* key and its age; which commands of certbot fail is its own choice.      *)
(***************************************************************************)
EXTENDS Naturals

CONSTANTS
    Domains,
    Names,          \* names of certificates; a lineage of certbot is named like a domain
    Within,         \* <<domain, name>>: the domain's text is part of the name's
    Leaves,         \* certificates to import
    Keys, KeyOf, DomainsOf,     \* private keys; per leaf its key and its domains
    None,
    MaxRequests     \* bound: requests, and certificates growing older

Ages == <<"valid", "expiring", "expired">>
Lineage == [domains : (SUBSET Domains) \ {{}}, age : 1..3]

ASSUME CertificatesConstants ==
    /\ Domains \subseteq Names /\ MaxRequests \in Nat
    /\ {<<d, d>> : d \in Domains} \subseteq Within /\ Within \subseteq Domains \X Names
    /\ KeyOf \in [Leaves -> Keys] /\ DomainsOf \in [Leaves -> (SUBSET Domains) \ {{}}]
    /\ None \notin Leaves \cup Keys

VARIABLES
    sudo,       \* settings.use_sudo
    rows,       \* imported_certificates: name and domains
    cert, key,  \* per name: fullchain.pem and privkey.pem of data_dir/certs
    age,        \* per leaf
    live,       \* certbot's lineages
    torn,       \* history: names whose deletion was cut off
    requests

certVars == <<sudo, rows, cert, key, age, live, torn, requests>>

CertInit ==
    /\ sudo \in BOOLEAN /\ rows = {}
    /\ cert = [n \in Names |-> None] /\ key = [n \in Names |-> None]
    /\ age = [l \in Leaves |-> 1]
    /\ live = [n \in {} |-> None] /\ torn = {} /\ requests = 0

-----------------------------------------------------------------------------
(* Readers *)

RowOf(n) == {r \in rows : r.name = n}
IsImported(n) == RowOf(n) # {}

ForDomain(d) == {r \in rows : d \in r.domains}
HasFiles(n) == cert[n] # None /\ key[n] # None

\* What resolve_certificate_paths may answer: find_for_domain takes the first
\* row that names the domain, of a query without an order.
Resolved(d) ==
    IF ForDomain(d) = {} THEN {[source |-> "letsencrypt", name |-> d]}
    ELSE {[source |-> "imported", name |-> r.name] : r \in ForDomain(d)}

\* What a reader is told of the lineages.  With sudo "certbot certificates" tells
\* of all, or of none when it takes 15 seconds or fails, as beside another certbot;
\* otherwise each certificate whose date openssl does not give in time is left out.
Told == IF sudo THEN {DOMAIN live, {}} ELSE SUBSET DOMAIN live
\* Whether test -f, which sudo runs, answers in time.
Tests == IF sudo THEN BOOLEAN ELSE {TRUE}

\* domain_has_certificate_in_output: any mention counts.
Mentioned(d, told) == \E n \in told : d \in live[n].domains \/ <<d, n>> \in Within
\* The traffic test of a site does not ask for imported certificates.
SslReady(d, told, tested) == (tested /\ d \in DOMAIN live) \/ (sudo /\ Mentioned(d, told))
CertificateExists(d, r, told, tested) ==
    SslReady(d, told, tested) \/ (tested /\ r.source = "imported" /\ HasFiles(r.name))

\* list_certificates of the three services.  The live directory knows no
\* domains but the name, certbot's output does.
Imported == {[source |-> "imported", name |-> r.name, domains |-> r.domains, age |-> age[cert[r.name]]] :
                r \in {q \in rows : cert[q.name] # None}}
LetsEncrypt(told) == {[source |-> "letsencrypt", name |-> n,
                       domains |-> IF sudo THEN live[n].domains ELSE {n}, age |-> live[n].age] : n \in told}
\* Mutant: Let's Encrypt goes over imported.
MergedUnder(over, under) == under \cup {o \in over : \A c \in under : o.name # c.name}
Merged(over, under) == over \cup {c \in under : \A o \in over : o.name # c.name}
ListCertificates(told) == Merged(Imported, LetsEncrypt(told))

-----------------------------------------------------------------------------
(* Requests *)

Requested == requests < MaxRequests /\ requests' = requests + 1
Put(f, n, x) == [f EXCEPT ![n] = x]

\* import_certificate checks the key and the domain.
Acceptable(d, l, k) == KeyOf[l] = k /\ d \in DomainsOf[l]

\* Certificate, key and row are written in this order, the first "done" of
\* them.
ImportCertificate(n, d, l, k, done) ==
    /\ ~IsImported(n) /\ Acceptable(d, l, k) /\ Requested
    /\ cert' = IF done >= 1 THEN Put(cert, n, l) ELSE cert
    /\ key' = IF done >= 2 THEN Put(key, n, k) ELSE key
    /\ rows' = IF done >= 3 THEN rows \cup {[name |-> n, domains |-> DomainsOf[l]]} ELSE rows
    /\ UNCHANGED <<sudo, age, live, torn>>

\* Certificate, key and row go in this order.
DeleteCertificate(n, done) ==
    /\ IsImported(n) /\ Requested
    /\ cert' = IF done >= 1 THEN Put(cert, n, None) ELSE cert
    /\ key' = IF done >= 2 THEN Put(key, n, None) ELSE key
    /\ rows' = IF done >= 3 THEN rows \ RowOf(n) ELSE rows
    /\ torn' = IF done >= 3 THEN torn \ {n} ELSE IF done = 0 THEN torn ELSE torn \cup {n}
    /\ UNCHANGED <<sudo, age, live>>

\* What certbot leaves behind: a certificate that is not due is kept.
Certified(n, domains) ==
    [m \in DOMAIN live \cup {n} |->
        IF m # n THEN live[m]
        ELSE [domains |-> IF n \in DOMAIN live THEN live[n].domains ELSE domains, age |-> 1]]

\* certbot succeeds, fails, or is killed after 300 seconds, having done it or not.
Certbot(after) == live' \in {live, after} /\ UNCHANGED <<sudo, rows, cert, key, age, torn>>

\* Without a valid address certbot is not called.  Where the lineage has other
\* domains too, certbot begins another one beside it.
IssueCertificate(d) ==
    Requested /\ Certbot(IF d \in DOMAIN live /\ live[d].domains # {d} THEN live ELSE Certified(d, {d}))
RenewCertificate(n) ==
    /\ ~IsImported(n) /\ Requested
    /\ Certbot(IF n \in DOMAIN live THEN Certified(n, {n}) ELSE live)
DryRunRenew == Requested /\ Certbot(live)

\* An administrator calls certbot by hand, for several domains.
ByHand(n) ==
    /\ n \notin DOMAIN live /\ Requested
    /\ \E ds \in SUBSET Domains : n \in ds /\ live' = Certified(n, ds)
    /\ UNCHANGED <<sudo, rows, cert, key, age, torn>>

Older ==
    /\ Requested
    /\ \/ \E l \in Leaves : age[l] < 3 /\ age' = [age EXCEPT ![l] = @ + 1] /\ UNCHANGED live
       \/ \E n \in DOMAIN live : live[n].age < 3 /\ live' = [live EXCEPT ![n].age = @ + 1] /\ UNCHANGED age
    /\ UNCHANGED <<sudo, rows, cert, key, torn>>

CertificatePages ==
    \/ \E n \in Names, done \in 0..3 :
        DeleteCertificate(n, done)
        \/ \E d \in Domains, l \in Leaves, k \in Keys : ImportCertificate(n, d, l, k, done)
    \/ \E d \in Domains : IssueCertificate(d)
    \/ \E n \in Names : RenewCertificate(n)
    \/ DryRunRenew

\* The token's API can do the same, but for the dry run.
CertificateTokens ==
    \/ \E n \in Names, done \in 0..3 :
        DeleteCertificate(n, done)
        \/ \E d \in Domains, l \in Leaves, k \in Keys : ImportCertificate(n, d, l, k, done)
    \/ \E d \in Domains : IssueCertificate(d)
    \/ \E n \in Names : RenewCertificate(n)

CertNext == CertificatePages \/ CertificateTokens \/ Older \/ \E d \in Domains : ByHand(d)

CertSpec == CertInit /\ [][CertNext]_certVars

-----------------------------------------------------------------------------
(* Properties *)

\* The files a site of domain d names are there, belong together and are for
\* this domain, if its certificate is r.
Usable(d, r) ==
    IF r.source = "letsencrypt" THEN d \in DOMAIN live
    ELSE HasFiles(r.name) /\ KeyOf[cert[r.name]] = key[r.name] /\ d \in DomainsOf[cert[r.name]]

\* The list shows r, for domain d and with its age.
Listed(d, r, told) == \E c \in ListCertificates(told) :
    /\ c.source = r.source /\ c.name = r.name /\ d \in c.domains
    /\ c.age = IF r.source = "imported" THEN age[cert[r.name]] ELSE live[d].age

\* Where an imported certificate has taken the name of a lineage.
Hidden(n) == \E r \in RowOf(n) : n \notin r.domains /\ cert[n] # None

\* Three readers, one answer: if a domain is said to have a certificate then
\* its site's files are usable, the list shows that certificate with its age,
\* and what the list offers to renew is renewed, whatever each of the readers was
\* told by certbot.  Exceptions are a deletion that was cut off, an imported
\* certificate under the name of another domain's lineage, a lineage that the
\* list was not told of, and, with sudo, a certificate that only mentions the
\* domain.
CertificatesAgree == \A told \in Told :
    /\ \A d \in Domains : \A r \in Resolved(d), heard \in Told, tested \in Tests :
        CertificateExists(d, r, heard, tested) =>
            \/ Usable(d, r) /\ Listed(d, r, told)
            \/ r.source = "imported" /\ r.name \in torn
            \/ Usable(d, r) /\ r.source = "letsencrypt" /\ (Hidden(d) \/ d \notin told)
            \/ sudo /\ r.source = "letsencrypt" /\ d \notin DOMAIN live
    /\ \A c \in ListCertificates(told) :
        c.source = "letsencrypt" /\ IsImported(c.name) => c.name \in torn
=============================================================================
