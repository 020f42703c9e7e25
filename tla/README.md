# Verification of reverse-proxy-admin

A TLA+ development beside the code of *In a Cloud Gateway* (reverse-proxy-admin):
a FastAPI backend that edits the nginx configuration of a server, watches the
backends behind it, counts its traffic, mails alarms and manages who may do all
this. Paths are relative to `src/backend/app/` unless they start otherwise;
`name:12-20` are lines.

- [1. The system](#1-the-system) - components, their state, how they interact
- [2. Modules](#2-modules) - what models what
- [3. Runs](#3-runs) - what TLC checks, with which bounds and fairness
- [4. What the results say](#4-what-the-results-say)
- [5. Proofs](#5-proofs)
- [6. What is not modelled](#6-what-is-not-modelled) and [7. Plan](#7-plan)

## 1. The system

One uvicorn worker (`src/deploy/systemd/nginx-admin.service:11`) runs the API. Every
endpoint is an `async def` whose body has no `await`, so two requests never
interleave inside their bodies; they do interleave between the dependencies of a
request and its body, because plain `def` dependencies run on a worker thread.
APScheduler (`services/scheduler.py`) runs the periodic jobs on threads of the
same process; a job and a handler interleave at every step. Each request and
each job has a SQLAlchemy session of its own with autoflush off. The state
outside the process is the disk (site files, links, lock files, backups,
password files, include files, certificates, access logs), the configuration
nginx has loaded, and a SQLite file without foreign keys.

| Component | Code | State | Operations | What makes it correct |
|---|---|---|---|---|
| File lock | `services/file_lock.py` | lock files, descriptors, flock owners | a context manager | exclusion as far as the unlinking allows; no waiter starves |
| Site transaction | `services/proxy_service.py`, `nginx_writer.py`, `nginx_ops.py`, `config_version_service.py`, `api/security.py:39-62` | files of sites-available, links of sites-enabled, password files, metadata, `config_versions`, what nginx runs | create, save, rename, delete, enable/disable, roll back to a version, re-render by a job or by the security pages | a failed change leaves the site as it was; a reported success is what nginx serves when it has loaded; no step loses the site |
| Texts and settings of sites | `nginx_writer.py:174-334`, `nginx_parser.py`, `proxy_metadata_service.py`, `rate_limit_service.py`, `template_service.py` | the text, the limit's row, the log metadata | render, parse, regenerate, store | parsing loses nothing rendering needs; row, metadata and text agree |
| Health and regeneration | `services/health_check_service.py`, `nginx_regen_service.py`, `load_balancer_service.py` | `backend_servers.health_status`, the in-memory queue and its debounce | probe, transition, queue, take, render | nginx balances over the servers that answer; whoever should is told of an outage |
| Accounts | `services/user_service.py`, `security/auth.py`, `security/permissions.py` | `users` | create, update, delete, bootstrap | somebody can still administer; rights that were taken stay taken |
| Organisations and tenants | `services/organization_service.py`, `security/tenant_context.py`, `security/api_token_auth.py` | `organizations`, the organisation of accounts, pools, recipients, tokens | start-up adoption, CRUD, scoping | no id dangles; a record stays within reach of its maker |
| Backend pools | `services/backend_pool_service.py`, `api/backend_pools.py` | pools, servers | CRUD of both, attaching to a route | one protocol per pool; a site's upstream follows its pool |
| Traffic collection | `services/proxy_traffic_service.py`, `log_reader.py`, `access_log_parser.py` | byte offset per log, minute, hour and day rows, sampled events | collect, roll up, clean up | every line counted at most once, and lost only for a reason |
| Statistics pages | `services/metrics_service.py`, `proxy_traffic_service.py:296-578` | none of their own | sums, averages, histories | the numbers are those of the lines |
| Alerts and reports | `services/alert_rule_service.py`, `system_monitor_service.py`, `ssl_alert_service.py`, `status_report_service.py` | alert history, time of the last report | evaluate, fire, send | a standing alarm is mailed; one mail per deduplication key |
| Notifications | `services/notification_service.py` | recipients, log with deduplication keys | dispatch, address by address | one refused address harms nobody else |
| Certificates | `services/certbot_ops.py`, `certificate_import_service.py`, `cert_paths.py`, `certificate_service.py` | files, rows, certbot's lineages | issue, renew, import, delete, resolve | readers agree; a site never names a missing certificate |
| Security rules | `services/ip_access_service.py`, `geoip_service.py`, `waf_service.py`, `threat_feed_service.py`, `api/security.py` | rows, include files | CRUD, sync | sites include files that exist and agree with the rows |
| Sessions, CSRF, login limits | `security/*` | cookies, windows of attempts | log in, validate | not modelled, see section 6 |

How they meet: `apply_change` runs the caller's `write_fn` under the site's file
lock and calls `nginx -t`; the health job ends with `process_pending`, which
re-renders sites through the same `apply_change`, while the event loop may be
anywhere inside a save of the same site; the pool pages call `update_proxy`; the
security pages rewrite site files directly. Because `nginx -t` tests the whole
server, a site that includes a missing file blocks every change of every site.
Alert rules sum the rows the collector writes; health transitions, rules,
certificates and reports all end in `dispatch`.

`PROJECT.json` lists the hazards this leaves, each at its line: stale reads
before the lock, a lock whose name disappears, changes that fail half-way, a
regeneration queued before its cause is committed, texts that cannot be parsed
again, backups copied back in place, a reload that is only a signal, a log rotated
under its reader, mails sent before their log is committed, include files removed
under the sites that name them, ids that are used again.

## 2. Modules

| Module | Models | Instance |
|---|---|---|
| `FileLock` | `services/file_lock.py`. `lockFile` is what the name refers to, `fd` the open descriptor, `owner` the flock of an inode. `Open`, `Acquire`, `Unlock`, `Unlink` are its lines 14, 15, 19, 20; `LockCrash` is the kernel closing everything. | `MCFileLock` |
| `SiteConfig` | Every handler that changes a site, one action per step (`pc`), with its locals in `op`. It extends `FileLock`, whose paths are the sites: `LockOpen`, `LockAcquire`, `Release`, `UnlinkLock` take that module's steps, the others run inside or outside the lock as the code does. `Load` is nginx's master process, which gets to a signal at any later time. | `MCSiteConfig` |
| `SiteStore` | The abstract specification of the site transaction: what each handler promises of the texts of its sites, without files, locks, tests or reloads. `SiteConfig` implements it. | by `SiteConfig` |
| `SiteSettings` | What a site's text says, what the parser recovers, the limit's row and the log metadata, through saves, renames, deletions, the limit's own page, regenerations, templates and rollbacks; what nginx or the parser do not accept (`Accepted`, `Readable`). Handlers run one at a time here; `SiteConfig` has their interleavings. | `MCPanel` |
| `SiteInputs` | IP rules, geo rules, WAF settings, threat feeds and certificates: their rows, their include files and the sites that name them, with the regenerations beside the pages, one action per site that is rewritten. | `MCSiteInputs` |
| `HealthRegen` | Checks, the queue with its debounce, the two jobs and the pool and server pages. Sessions are explicit: `loaded` is what a session has read, `value` what it set, `db` what was committed; `olds` the texts a rollback may put back. A rendering is one step here. | `MCHealthRegen` |
| `UserAdmin` | Accounts and the requests that change them. `auth` holds the row a request loaded when it was authorised; the body is one step and computes with that row. | `MCUserAdmin` |
| `Tenancy` | Organisations, start-up in its separate commits, accounts, requests with copies of their accounts, calls with tokens, pools and recipients with their scoping, and the servers of a pool with their protocols. | `MCTenancy` |
| `Traffic` | One access log: nginx appends half lines, logrotate replaces the file, the collector lists the sites (`listable`), stats, reads and commits, the daily jobs roll up and delete, everything may fail or restart; the sums of alert rules over the rows. | `MCTraffic` |
| `Statistics` | What rows and events hold (status groups, single codes, clients, times), how collections merge them, and each page that sums them, against the lines themselves. | `MCPanel` |
| `Mailings` | The senders (rules, certificates, monitor, reports, a request), dispatch address by address, the deduplication keys, rules that do not notify, and crashes and failing commits after sending. | `MCMailings` |
| `Certificates` | Imported certificates (files and rows) beside certbot's lineages, and the readers by domain, by name and by certbot's output, each with what it is told then (`Told`, `Tests`). | `MCPanel` |
| `MC...` | Instances for TLC: bounds, scenarios, symmetry, fairness. `MCPanel` holds three modules that share no state in one run. | |
| `...Proofs` | Theorems, see section 5. | |

`SiteConfig`, `SiteSettings` and `SiteInputs` are three cuts through the same
functions: the first has the steps and abstracts the text, the second has the
text and makes a handler one step, the third has the include files and the order
in which sites are rewritten. `HealthRegen` begins where a pool is rendered into
a site, which changes the rules: such a text cannot be parsed again. The scope of
the first three is therefore sites no pool was rendered into, except where
`SiteInputs` has a pool that makes a reading raise.

### SiteConfig in detail

`avail[s]` is the text of a site's file, abstracted to what the properties tell
apart: the settings it was rendered from, whether it names a password file, and
whether `nginx -t` accepts it. The last is an input of the handler, since it
depends on certificates, includes and pools; `TestOk` is false as soon as one
enabled site has a rejected text or no file, because nginx tests the whole
server. A reload leaves the master process a signal (`master`); `live` is what its
last load saw, which is not tied to the handlers' steps. What a copy in place has
on disk before it is done is in `Torn`: an empty file, which `nginx -t` accepts, or
the beginning of a text, which it refuses. `recorded` the newest history row;
`notes` the metadata files. The history variable `alone[t]` says that no other
thread was inside a handler of the same sites; `op[t].wasPw` and the names in
`op[t]` survive the handler only so that properties can speak of it.

| Steps (`pc`) | Code |
|---|---|
| `backup` | `create_backup` in `apply_change`, before the lock (`nginx_writer.py:373`) |
| `lock`, `unlock`, `unlink` | `file_lock` |
| `sync` | `write_htpasswd` / `_sync_htpasswd` (`proxy_service.py:301-319`) |
| `write`, `link`, `drop` | the `write_fn` of the handler (`atomic_write`, `enable_site`, `disable_site`, `unlink`) |
| `test`, `restore` | `nginx_writer.py:376-383` |
| `undoNew`, `undoOld` | `rollback()` of a rename (`proxy_service.py:369-378`), inside the lock after a failed test, outside it after a failed reload |
| `restoreDeleted` | `proxy_service.py:427-429` |
| `copy` | the second half of each restoration: `restore`, `undoOld` and `restoreDeleted` only truncate the file (`shutil.copy2`, `nginx_writer.py:153-156`), `CopyBack` completes it |
| `reload`, `signal` | `NginxOps.reload`: test again, then the signal |
| `record` | notes and history row |

Renames have their own transaction in `update_proxy`; `rewrite` is
`_regen_proxies`, which starts at `write` and ends at `link` with no lock, test
or reload. A re-render writes `Reparse[cfg]`, which is assumed idempotent and
nothing else.

### SiteStore, and how SiteConfig implements it

`SiteStore` says of a handler that it changes the texts of its sites at one moment
(`Commit`, both names of a rename at once) or gives up and changes nothing, and
that its answer tells which. Two things end the promise: a handler that meets
another one on its sites (`Clash`), and a crash, after which each name of a task
that was under way is as before or as it was to be, or torn if its
handler was just putting it back (`MayTear`). `SiteConfig` ends with
the refinement mapping (`Store == INSTANCE SiteStore WITH ...`):

| Abstract | In `SiteConfig` |
|---|---|
| `phase` | `Phase`: idle, *shared* if the handler met another (`~alone`), else *done* from the step that decides the change on (`Decided`: the write, the unlinking or the reload after which nothing takes it back), *trying* before, *undoing* once it has failed |
| `store` | `Stored`: the files, but for handlers that have begun to change them and may still take it back (`Undecided`): for these the text the handler found |
| `task` | `Task`: names and text of `op[t]` |
| `reply` | `Reply`: `out[t]` once the handler has ended |

### History variables

Many properties have the form "X, unless one of these happened". What happened
is kept in variables no guard reads: `cause` and `mailed` (`HealthRegen`), `explained`
(`Traffic`), `excuse` (`SiteInputs`), `late` and `lost` (`SiteSettings`), `torn`
(`Certificates`), `twice` and `overlapped` (`Mailings`), `alone` (`SiteConfig`).
Each is set where the code takes the branch that loses something, and cleared
where a later step of the code repairs it, so that the property also says the
list of reasons is complete.

## 3. Runs

| Run | Instance | Checks |
|---|---|---|
| `file_lock` | 3 threads, 2 paths, 4 inodes, crashes | `OneHolderOfTheNamedFile`, `NoStarvation` |
| `sites_seq` | 2 sites, 2 handlers in sequence, failures at every step, crashes | `RollbackWhenUncontended`, `BookkeepingMatchesDisk`, `PasswordsFollowSite` |
| `sites_jobs` | 2 sites, a handler beside a regeneration and nginx's loads, crashes, fair | `CommittedIsLive`, `SiteSurvives`, `HandlersEnd`, `ChangesAreAtomic` |
| `users` | 3 accounts, 2 overlapping requests, restarts | `AuthorisedRequestsKeepAnAdmin`, `OnlyDeactivationLocksOut`, `LostRightStaysLost` |
| `health` | 3 servers in 2 pools, 2 changes of a backend, a disturbance, fair jobs | `OutOfDateIsExplained`, `OutageIsMailed`, `SettlesInService` |
| `traffic` | 2 lines in 2 of 4 formats, a rotation, a failure, unreadable sites, 4 minutes | `CountedAtMostOnce`, `PeriodsAddUp`, `LossIsExplained`, `RulesCountTwiceAtMost`, `AheadIsCounted` |
| `mailings` | 2 addresses, 2 rule ids, 2 deduplication keys, a crash or failed commit | `KeyIsMailedOnce`, `ReportTwiceIsExplained`, `StandingAlarmIsMailed` |
| `inputs` | 2 sites, nine combinations of what changes together, a crash | `DanglingIsExplained`, `SitesFollowInputs`, `FeedFades` |
| `tenants` | ids up to 3, 2 overlapping requests, a record, a pool of 2 servers | `AccountsHaveTheirOrganization`, `MakersKeepSight`, `MixedOnlyByUpdate` |
| `panel` | 2 sites and 4 requests; 3 lines on 2 sites; 3 certificate names | `PathsSurvive`, `SettingsAreExplained`, `ReadersAgree`, `CertificatesAgree` |
| `v_users` | 2 administrators | `AnActiveAdminRemains`, violated |
| `v_failover` | a pool of 2 servers | `OfflineLeavesService`, violated |

Each module with a `TypeOK` has it checked in its run; `SiteConfig`'s contains the
lock's.

**Bounds.** *Sites:* handlers touch at most two sites, so two show every overlap
of footprints (disjoint, equal, the rename's target). `MaxByApi = 2` in
`sites_seq` lets a handler run on everything an earlier one left behind,
including after a crash or a failure; `MaxByJob = 1` puts a regeneration beside
any one handler. Names of sites and free inodes are interchangeable, so where
the event loop runs one handler it is enough that it runs on the first site and
that a new lock file takes the first free inode (`FirstSites`, `FirstInodes`).
In `sites_seq` nginx loads before anything else happens (`LoadsAtOnce`), in
`sites_jobs` at any time; there the site beside the handler's begins linked if it
exists, since nginx neither tests nor serves one that is not.
With as many inodes as threads plus paths minus one, `Open` always finds a free
one (`EnoughInodes`). *Health:* `MaxFlaps = 2` lets a backend go and come back;
only server `a` changes, as the others of its pool are alike; `MaxDisturb = 1`
is one check, switch, revert to any recorded text, restart, failing commit, or the second pool. The
jobs are unbounded. *Users:* no bound but three ids: one that stays, one that is
changed, one that is created. *Traffic:* an hour is two minutes and a day one
hour, so that periods end between collections and a roll-up and a retention
limit fall inside the four minutes; two lines are enough for one to be torn or
stepped over while the other is counted; sites become unreadable and readable again
at any time. The proofs of section 5 need none of
this. *Mailings:* senders meet only in the recipients and the mail server, and
the report's job also in `last_sent_at` with a request, so each runs alone
except these two (`EachAlone`). *Inputs:* inputs of different kinds meet only in
the texts; the scenarios pair each with what disturbs it. *Tenants:* id 1 is the
default organisation, 2 and 3 come and go and are used again; records are
independent of each other, so one is enough. *Panel:* `part`, chosen at the
start, says which of three modules moves: they share no state, so their product
would only multiply the states; two sites are alike (`SiteSymmetry`); the
sampling rate is 1 or 2, fixed at the start; the page that reads 5000 events reads
one (`EventLimit`), so that two lines are too many for it; one of the addresses is
IPv6 (`Unbracketed`).

**Deadlock** is checked except where the system really may stop: `sites_*` (all
budgets spent), `users` and `v_users` (all ids in use and no account of the
configured name, so that a restarted process finds no id to create it with),
`traffic` and `panel` (time and requests run out).

**Symmetry** of sites, inodes and job threads, accounts and requests is used for
safety only; no run with a liveness property has it.

**Fairness.** `FileLock`: a waiter is granted a flock that is free, and the body
of the section ends, since every call in it returns. `SiteConfig`: a thread in a
handler takes its next step if it can; nobody has to start one, and nginx need not
load.
`HealthRegen`: the scheduler starts both jobs again and again
(`scheduler.py:129-147`), time passes, and what a job calls returns (probes have
timeouts, `health_check_service.py:91-102`). `Traffic`: collections start again
and again and end; a collection that cannot list the sites does not begin, and
nothing says that this passes. `Mailings`: time passes, a sender that has begun goes on, the
monitor's job runs, and a rule that is again and again ready to fire is evaluated
(`SF`: the job goes over all rules at each run, and a rule is not ready all the
time as it waits out its deduplication window). `SiteInputs`: the feed job runs
and ends. Requests, flaps, rotations, restarts and failing commits are never
forced.

**Mutants.** Each property of each passing run is paired in `PROJECT.json` with
a changed definition that stands, as a comment starts *Mutant:*, right before
the one it replaces; with it TLC finds the property violated.


## 4. What the results say

**file_lock.** `file_lock` removes the lock file after releasing it, so the next
waiter may own an inode no name leads to while a newcomer creates and owns
another: two threads can be in the section of one site at once. What is left of
exclusion is `OneHolderOfTheNamedFile`: only one of them holds the file that
has the name. Nobody who waits on a file waits for ever.

**sites_seq, sites_jobs.** `RollbackWhenUncontended`: a handler whose test or
rendering failed and which met nobody on its sites leaves their files as they
were. The condition is needed: the backup is read before the lock is taken, so
restoring it after another thread's save undoes that save (see the hazards).
`CommittedIsLive`: a handler that reported success and met no other thread is what
nginx serves once it has loaded what it was signalled to, whatever the others did to
other sites meanwhile. Until then it serves an older state, and when another
handler's text makes nginx refuse the load it stays so although both were told of
success or only the other of a failure: `nginx -s reload` does not wait. History row and
metadata agree with the disk (`BookkeepingMatchesDisk`), and the password file
follows the site: while a save or rename that keeps authentication is under way it
is under the old or the new name at every step, and at the end under the new one
and no other (`PasswordsFollowSite`). A handler that failed may leave it under the
new name, since no rollback restores password files.
`SiteSurvives`: at every moment of a save, rename, switch, regeneration or
rollback a whole text is under the old or the new name, so that a crash neither
loses nor tears it, but for two moments of a restoration: between the two halves of
a rename's rollback, and while the backup is copied into the file in place (writing
replaces the file, restoring does not). Every handler ends (`HandlersEnd`).
`ChangesAreAtomic` puts these together as a
refinement: seen from outside, a handler that meets no other one changes its sites
at one moment or not at all, as its answer says, whatever the lock, the test, the
restoration and the reload do in between, and writes to no other site; only a crash
in one of these two moments breaks this.

**users, v_users.** The guard against losing the last administrator counts other
active administrators, but is missing where accounts are deactivated.
`AuthorisedRequestsKeepAnAdmin` says which part holds under overlap: a request
whose author is still an active administrator when its body runs leaves one.
`OnlyDeactivationLocksOut` says that deletions and demotions never cost the last
one, and `LostRightStaysLost` that a request authorised before its user lost the
right does not give it back by updating that user. `v_users` is the rest: two
administrators who deactivate each other in overlapping requests. `bootstrap_admin`
does not switch an existing account on.

**health, v_failover.** A site's upstream agrees with the database or its
regeneration is waiting or running, unless one of six things happened
(`OutOfDateIsExplained`): its entry was taken *early*, before the transition was
committed; *overwritten*, by a session that wrote back an older status; the
commit *failed* after the queue was filled; the site was *unread*, as the parser
raised on it; a page *reverted* the site to a recorded text; or a restart *lost* the queue. "Unread"
is the rule and not the exception: a site that has its upstream once cannot be
parsed again (`nginx_parser.py:175`), so no page and no job changes its upstream any
more, only a rollback does, and a server that goes offline later stays in it
(`v_failover`). Before that, a server that is up gets into service
(`SettlesInService`). A server the database has offline was reported offline by the
last mail about it (`OutageIsMailed`), although the job and the check button judge
with copies of their own and commit in any order; the exception is a recovery that
was mailed and not committed.

**traffic.** A line is counted at most once in each kind of row
(`CountedAtMostOnce`), and a complete line behind the offset that is not counted
was rotated away before it was read, hidden by an offset kept from the old file,
or read torn (`LossIsExplained`). A line in a minute row is in the row of its hour
and the other way round, and a day has at most one row (`PeriodsAddUp`). Alert
rules sum the minute and the hour rows of one window, so a line counts up to
twice but not more (`RulesCountTwiceAtMost`). What a log has ahead of the offset
is counted in the end, unless one of the three happens to it (`AheadIsCounted`) -
provided the sites stay readable: `collect_all` lists all of them first, so one site
with a rendered upstream or an IPv6 destination ends the collection of every log
(`proxy_traffic_service.py:118`).

**mailings.** Nobody gets two mails of one deduplication key, unless the process
died or the commit failed before the first was logged (`KeyIsMailedOnce`); a report
comes twice within an interval only by one of these or by a request beside the job
(`ReportTwiceIsExplained`). A rule that notifies and stays triggered is mailed again
and again to everybody whose address works, whatever happens to other addresses, and
to deleted or silent rules with the same id, whose firings count for the deduplication
window; so is a lasting breach of a threshold
(`StandingAlarmIsMailed`). The price of the latter is that a breach is "new" at
every run of the monitor.

**inputs.** A site includes a file that is missing, so that `nginx -t` refuses every
change of every site, only if a rule for all sites that also names one was
changed, a rendering raised before it came to the site, the process died, a
regeneration wrote what it had read before the change or put back an older text,
or the files of a certificate are gone (`DanglingIsExplained`); geo rules and WAF
settings are never the first of these. A site says what the database says unless
one of the reasons in `excuse` holds (`SitesFollowInputs`). Addresses of a feed
that is disabled or deleted for good leave the list (`FeedFades`), though neither
request touches it.

**tenants.** No account is left in an organisation that does not exist, though the
database does not see to it (`AccountsHaveTheirOrganization`), and whoever made a
pool or a recipient can still reach it, through starts that are cut off, renames
and adoption (`MakersKeepSight`). The enabled servers of a pool that is served mix
protocols only after an update of a server (`MixedOnlyByUpdate`): creating one
is checked, editing one is not.

**panel.** A site keeps the paths, destinations, redirect, body size and
authentication that were last asked of it, through regenerations, changes of the
limit, failures and rollbacks; it can be read again exactly if none of the
destinations is an IPv6 address, which nginx refuses as it is rendered, so that only a
site that is switched off comes to have one (`PathsSurvive`). Not so the limit and the log
format: nginx applies those stored unless they were stored after the text was
rendered or the text is an old one (`late`), and those stored are those asked
for unless a handler failed half way, a change of the limit reset the log
format, a rename left the row behind, or a site found the row of one that was removed or lost by a
failed rollback (`lost`; `SettingsAreExplained`). The pages' numbers are those of the lines they
count, however the lines were cut into collections (`ReadersAgree`); the errors of a
client are fewer when the range has more events than the page reads. A domain that
is said to have a certificate has usable files, the list shows that certificate,
and what it offers to renew is renewed (`CertificatesAgree`), each up to the
exceptions the property's comment names; one of them is a certbot that does not
answer the list (`certbot_ops.py:136`) while the files are found.

**Findings.** `PROJECT.json` has two: `v_users` and `v_failover`, each with the
sentence of the repository it contradicts.

**Behaviour met while modelling, without a run of its own.** Unless a note
says so no document promises otherwise. They are listed by the module they are
nearest to:

- `SiteConfig`: a failed test restores texts but not links; a rollback to a state
  without a file loses the file when its test fails; a reload that nginx refuses later
  is reported as a success; a regeneration beside a deletion can write the
  deleted site again.
- `SiteInputs`: `src/README.md:276-286` lists backup, `nginx -t` and rollback for every
  configuration write; `_regen_proxies` (`api/security.py:39-62`) writes without any of the
  three, which is one of the reasons in `excuse`.
- `Tenancy`: ids of deleted organisations are used again; accounts without an
  organisation see everything until the next start; tokens and audit rows without
  one go to the default organisation.
- `SiteSettings`: a rename loses the limit and leaves its row to a later site of
  the old name; the limit's page resets enhanced logging, headers, timeouts and
  HSTS; a limit or log format chosen when a site is created is in its text only
  after the next rendering.
- `Certificates`: under sudo a domain whose text is part of another lineage's name
  counts as having a certificate; the readiness test ignores imported ones; a
  deletion that is cut off leaves a row whose files are gone.
- `Statistics`: client counts include deleted sites and use the exact range, where
  requests use the starts of periods and listed sites; averages mix timed and
  untimed lines; the sampling counter starts again with each collection.
- `GET /metrics/traffic` raises, as an attribute `traffic` hides the method of that
  name; a pool's status can be overwritten by a later pool's warning.

## 5. Proofs

`tlapm` checks every theorem below for all values of the constants, from the
named assumptions of the modules (`LockConstants`, `SiteConstants`,
`NoFileIsNoText`, `TornIsNoContent`, `UserConstants`, `MaxOrgAssumption`, `MaxAccountAssumption`,
`NoRowAssumption`, `HealthConstants`, `SettingsConstants`, `TrafficConstants`,
`MailingsConstants`, `SiteInputsConstants`, `CertificatesConstants`,
`StatisticsConstants`), which TLC evaluates in the runs. They keep ids of
different kinds apart, give numbers their ranges and make some sets finite; bounds
such as `MaxTick` may be any number.

- **`SiteConfigProofs`: the lock.** `LockInv` adds to the types that a thread between
  opening and closing has a descriptor (`HasDescriptor`) and that whoever is inside
  owns the inode it has open and every owner is inside (`HoldersOwnTheirInode`).
  From it `LockStateIsTyped`, `HoldersOwn`, `OneNamedHolder`. `HandlersUseLock` is
  `Spec => LockSpec`: every step of a handler is a step of the lock or leaves it
  alone. So what was proved of the lock holds inside the handlers (`HandlersLockInv`,
  `HandlersNamedHolder`) without looking at a handler again.
- **`SiteConfigProofs`: the handlers.** `SitesTypeOK`. The other properties speak of the
  end of a handler, so the invariants say what holds on the way there. `RollbackInv`
  adds that two handlers that met nobody work on different sites (`Apart`), which
  values the locals have at each step (`ShapeOf`), and how far the files have been
  changed or put back there (`FilesOf`); it gives `RollbackHolds`. `OutcomeInv` adds
  which handlers come to which step (`LocalsOf`), since when the new text is in place
  and the old name gone (`TextOf`), and for each property its form for one handler at
  any step (`Survives`, `Served`, `Booked`, `Passwords`; `Served` speaks of what nginx
  has once its master process is *loaded*, and a load may come between any two steps); it
  gives `SuccessIsLive`,
  `BookkeepingFollowsDisk`, `PasswordsAreKept`, `SiteAlwaysSurvives`. `WorkFrame` and
  `WorkBookFrame` say what a step leaves alone; `OthersKept` and `OthersDone` carry the
  invariants over a step for every other thread, `OwnKept` and the `Own...` lemmas for
  the thread itself, `StartFinds` says what a handler finds when it begins.
- **`SiteConfigProofs`: the store.** `HandlersImplementStore` is
  `Spec => ChangesAreAtomic`. `StoreInv` adds to `OutcomeInv`, for each handler, the answers
  with which it can be at a step that ends it (`Standing`), and, for one that met
  nobody, that each of its sites has the text it found or the one it is to have,
  only the latter once it has decided, and a torn one only while it is copied back
  (`Between`), which a decided handler never does (`CopyUndecided`). A step of a thread
  is then a `Commit`, an `Undo`, the end of a handler, a `Clash` or a stutter, and the
  texts other threads have not decided about are not touched by it; a beginning may end other handlers'
  promises, and a crash all of them.
- **`UserAdminProofs`.** `PermInv`: administrators have every permission, in the table and
  in the rows requests hold. The counting of other administrators is
  a lemma on cardinalities, from `FS_Subset`.
- **`TenancyProofs`.** `IInv` adds to the types that the copies requests hold
  agree with the table in the organisation (`CopiesAreCurrent`) and that a record
  is in its maker's organisation (`MakersShareTheOrganization`): the scoping of a
  request is computed from the copy, so neither property is inductive alone.
  `PoolsMixOnlyByUpdate` counts protocols; `UnmixedUnlessUpdated` says the same of each
  pair of enabled servers, which a step keeps.
- **`HealthRegenProofs`.** `IInv` adds what sessions may hold (`SessionsFit`) and that an
  uncommitted transition is in the queue or was taken too early
  (`UncommittedIsQueued`): the commit is what makes a site out of date, and
  it may be explained only by what happened before. `OutagesAreMailed` needs `MailInv`, which
  looks into the sessions of both checkers: a server a run has not come to is as it was
  read, what a session has set to offline waits for nothing but the commit of its own
  mail, and a recovery that is being mailed is still to be committed (`Written`).
  So whichever of two sessions commits last, it does not bring back an outage of which
  no mail told.
- **`PanelProofs`: settings.** `SettingsAlwaysExplained` is inductive when stated over all
  names, those without a site included: what is stored for a missing one is in
  `lost`. `PathsAlwaysSurvive` rests on `PrefixIsRecovered` (the parser's
  `_location_to_prefix` undoes what the template makes of a path that
  `validate_path_prefix` accepts) and `ParsedRendered` (a rendered text reads as the
  payload it was rendered from); the invariant adds that all texts, those of the
  history included, are of that kind (`TextsAreLegible`). What is asked is proved to be
  what the text holds (`PathsAreAsked`), and the parser to stop exactly at an unbracketed
  address among it.
- **`PanelProofs`: certificates.** `CertInv` says that an imported name has one row
  (`OneRow`) and that its files are a certificate, its key and the domains of the row
  unless a deletion was cut off (`FilesMatchRow`). An import or a deletion changes
  row and files one after the other and may be cut off after any of them, so how far it
  came is a case distinction. From it `CertificatesAlwaysAgree`: list, lookup by domain and
  files give one answer,
  whatever certbot answers to each reader (`Told`, `Tests`).
- **`PanelProofs`: statistics.** `StatInv` says that there is a row for each key of a
  collected line and no other, and that it is *tallied*: each counter is the sum of
  what its lines weigh (`Mass`), the average is at most any bound of their times, and
  exact if all have one (`Tallied`); and that events are lines drawn in order, all of
  them at rate 1 (`EventsFollow`). `RowsGrow` and `EventsGrow` are `collect_proxy`:
  a bucket is the mass of its lines (`BucketCounters`, `BucketTimes`), and adding it to
  a row adds masses (`TallyAdds`, `TallyNew`, `TallyKeeps`). For a page, exchanging two
  sums turns rows into lines (`PageTotals`, `PageAverage`), whatever range, sites and
  batches were: `ReadersAlwaysAgree`. A client's errors are counted in any of the
  newest events up to `EventLimit` (`Newest`), so they are at most the failed lines, and
  exactly these if all events of the range fit. The pages fold over sets, and averages are
  fractions, since the code's floats are sums of products; both need facts no library
  module states. They are proved here without a theorem that takes an operator:
  a fold has a value on each subset, a sum does not depend on the order of its terms
  and a recursion over `1..n` has a value, each by a least counterexample among sets
  or numbers (`SubsetInduction`, `Induction`). Then `SumTakes`, `SumPlus`, `SumConcat`,
  `SumOfParts` are the algebra of sums the rest is made of.
- **`TrafficProofs`.** `Mark` is the chunk the offset reaches. Counted lines are before
  the mark and before the batch being read (`CountedIsBehind`), complete lines before the
  mark are counted or explained (`BehindIsCounted`), and what a batch holds
  was explained when it was read (`ReadIsExplained`): `NothingIsCountedTwice`,
  `EveryLossIsExplained`. `RowInv` adds what the rows hold: minute and hour row of a
  line are of the same hour, and the hour of a deleted minute row began before the
  retention does, so no window that still sums its hour has lost it (`RowsFit`); the next roll-up comes
  after every day that has a row is over (`DaysFit`). It gives `PeriodsAlwaysAddUp` and
  `RulesNeverCountThrice`, with lemmas on `\div` for any length of an hour and a day.
- **`MailingsProofs`.** `KeyInv` counts per key and address: mails are at most the crashes
  and failed commits plus one, and at most these while the key is not logged or the address is still
  to be tried. `ReportInv` says that without crash and overlap the last report is as
  old as `last_sent_at` says and that whom the job is yet to reach had none for an
  interval. `OwnAbout` keeps the senders apart. The proof holds for any
  `Scenarios`, so all senders may run together.
- **`SiteInputsProofs`.** Both properties speak of quiet states. `Followed` says that a
  site without an excuse agrees with the database or is still to be written;
  `ThreatListed` that while the list of the feeds is missing neither a text nor
  anything in an actor's hands names it; `Included`, once for geo rules and once for
  WAF settings, that a text that names a file finds it, or the request is still about to
  write one of the two (`TextIncludes`), and that the same is true of the text an actor
  is about to write (`WriteIncludes`). The last is what makes it inductive: a write
  clears the excuses of its site, so what was rendered earlier must be good already.

**Only model-checked.** Liveness is out of the prover's reach: `NoStarvation`,
`HandlersEnd`, `SettlesInService`, `AheadIsCounted`, `StandingAlarmIsMailed`, `FeedFades`.
Every other property of a passing run is a theorem.

## 6. What is not modelled

- **`SiteConfig`:** the copy `enable_site` makes where links are impossible; a full
  disk, and with it a copy back that fails by itself; nginx reads all sites of one load at
  one instant; the write lock SQLite holds from the default rows flushed while rendering
  (`rate_limit_service.py:35`) until somebody commits.
- **Commits that fail** in modules other than `HealthRegen`, `Traffic` and `Mailings`.
  `SiteSettings`, `HealthRegen` and `SiteInputs` take the restoration of a handler as
  one step and leave its cut-off copy and nginx's later load to `SiteConfig`.
- **Sessions, CSRF, login limits:** signatures and windows of time per client,
  without state shared between actors other than a counter.
- **API tokens:** their rows, scopes and expiry, and the filters of the audit log;
  `Tenancy` has only the organisation a token acts for.
- **Migrations and table definitions:** run once, in order, by Alembic.
- **certbot:** external; lineages it names `d-0001` and its own edits of site files
  are not in `Certificates`, nor is the log of renewals.
- **Traffic and metrics:** the purging of request events, health roll-ups, gauges of
  connections and backends, the network map, the search in raw logs: queries
  without a state of their own.
- **SMTP:** the stored server and its encrypted password; `Mailings` has the outcome
  of a send per address.
- **What rules deny:** nginx's evaluation of allow, deny, geo and WAF directives.
- **Web interface, deployment, catalog generator:** presentation, scripts, a build tool.

## 7. Plan

The model as planned is complete. What could be added:

1. The database's write lock beside the site's lock, for the hazard at
   `rate_limit_service.py:35`.
2. Rows of API tokens with scopes and expiry; sessions and the limiter of logins.
3. The purging of events beside the collector; the syntax check of the flow test.
4. An abstract specification of the collector (each line is counted once or named
   as lost) between `Traffic` and `Statistics`, which share the rows only in prose.
