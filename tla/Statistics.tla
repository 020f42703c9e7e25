----------------------------- MODULE Statistics -----------------------------
(***************************************************************************)
(* What the pages say about the traffic.  A collection sums its lines up   *)
(* in buckets and adds each bucket to a row of its site, once per hour and *)
(* once per minute; a row has counters and an average that is weighted     *)
(* anew with each bucket.  Pages add the rows of a range up, each in its   *)
(* own query.  Every so many lines of a collection one becomes an event,   *)
(* and some pages count events beside the rows.  Which lines a collection  *)
(* gets, and that old rows are purged, is the matter of Traffic.           *)
(*                                                                         *)
(* Times are ticks, MinuteLen to the minute: a range begins anywhere in a  *)
(* period.  Averages are exact fractions <<sum, count>>, where the code    *)
(* has floats.  Bytes, paths and upstream times are added like requests,   *)
(* clients and response times, and left out.                               *)
(***************************************************************************)
EXTENDS Integers, Sequences, FiniteSets, Folds, Functions

CONSTANTS
    Sites, Clients,
    Requests,           \* lines as [status, client, ms], without their time
    MinuteLen, HourLen, \* ticks
    MinuteRange, HourRange,             \* ticks of "1h" and of "24h"
    Rates,              \* values of request_event_sample_rate
    EventLimit,         \* client_ips reads no more events than that (5000)
    Lag,                \* bound: ticks between a line and its collection
    MaxTick, MaxLines, MaxBatch     \* bounds

Untimed == -1           \* ms of a line without a response time
Statuses == {q.status : q \in Requests}
Groups == {"2xx", "3xx", "4xx", "5xx"}
Kinds == {"hour", "minute"}
Length(kind) == IF kind = "hour" THEN HourLen ELSE MinuteLen

\* _aggregate_period_type, _range_start: short ranges use the minute rows.
Ranges == {[ticks |-> MinuteRange, kind |-> "minute"], [ticks |-> HourRange, kind |-> "hour"]}

ASSUME StatisticsConstants ==
    /\ IsFiniteSet(Sites)
    /\ Requests \subseteq [status : 200..999, client : Clients, ms : Nat \cup {Untimed}]
    /\ Rates \subseteq Nat \ {0}
    /\ MinuteLen \in Nat \ {0} /\ HourLen \in Nat \ {0} /\ HourLen % MinuteLen = 0
    /\ {EventLimit, MinuteRange, HourRange, Lag, MaxTick, MaxLines, MaxBatch} \subseteq Nat

VARIABLES
    tick,
    rate,       \* every how many lines of a collection there is an event
    events,     \* request_events
    aggregates, \* per <<site, kind, start>>: the row
    listed,     \* sites that list_proxies returns
    seen        \* history: the collected lines, with site and time

statVars == <<tick, rate, events, aggregates, listed, seen>>

-----------------------------------------------------------------------------
(* Buckets and rows *)

StatusBucket(status) ==
    CASE status \in 200..299 -> "2xx"
      [] status \in 300..399 -> "3xx"
      [] status \in 500..599 -> "5xx"
      [] OTHER -> "4xx"

NewBucket ==
    [requests |-> 0, groups |-> [g \in Groups |-> 0], codes |-> [c \in Statuses |-> 0],
     clients |-> [c \in Clients |-> 0], sum |-> 0, timed |-> 0, max |-> 0]

Larger(a, b) == IF a > b THEN a ELSE b
Timed(l) == l.ms # Untimed

ApplyParsedLine(bucket, l) ==
    [requests |-> bucket.requests + 1,
     groups |-> [bucket.groups EXCEPT ![StatusBucket(l.status)] = @ + 1],
     codes |-> [bucket.codes EXCEPT ![l.status] = @ + 1],
     clients |-> [bucket.clients EXCEPT ![l.client] = @ + 1],
     sum |-> bucket.sum + (IF Timed(l) THEN l.ms ELSE 0),
     timed |-> bucket.timed + (IF Timed(l) THEN 1 ELSE 0),
     max |-> Larger(bucket.max, l.ms)]

\* classify_failed_request: collect_proxy gives it no message.
IsFailed(status) == status \in {429, 500, 502, 503, 504}
Event(s, l) == [site |-> s, client |-> l.client, status |-> l.status, at |-> l.at, failed |-> IsFailed(l.status)]

Merge(f, g) == [x \in DOMAIN f |-> f[x] + g[x]]

\* _weighted_avg_ms: the row's average counts for all its requests, the
\* bucket's for those that were timed.
WeightedAvg(avg, count, bucket) ==
    IF count + bucket.timed = 0 THEN <<0, 1>>
    ELSE <<avg[1] * count + bucket.sum * avg[2], avg[2] * (count + bucket.timed)>>

NewRow(b) ==
    [requests |-> b.requests, groups |-> b.groups, codes |-> b.codes, clients |-> b.clients,
     avg |-> IF b.timed = 0 THEN <<0, 1>> ELSE <<b.sum, b.timed>>, max |-> b.max]

\* Mutant: the average is weighted after the requests were added.
AddedLate(row, b) ==
    [requests |-> row.requests + b.requests, groups |-> Merge(row.groups, b.groups),
     codes |-> Merge(row.codes, b.codes), clients |-> Merge(row.clients, b.clients),
     avg |-> WeightedAvg(row.avg, row.requests + b.requests, b), max |-> Larger(row.max, b.max)]

Added(row, b) ==
    [requests |-> row.requests + b.requests, groups |-> Merge(row.groups, b.groups),
     codes |-> Merge(row.codes, b.codes), clients |-> Merge(row.clients, b.clients),
     avg |-> WeightedAvg(row.avg, row.requests, b), max |-> Larger(row.max, b.max)]

UpsertAggregate(k, b) == IF k \in DOMAIN aggregates THEN Added(aggregates[k], b) ELSE NewRow(b)

-----------------------------------------------------------------------------

StatInit ==
    /\ tick = 0 /\ rate \in Rates /\ events = <<>> /\ aggregates = <<>>
    /\ listed = Sites /\ seen = <<>>

Start(kind, at) == at - (at % Length(kind))
Line == {[status |-> q.status, client |-> q.client, ms |-> q.ms, at |-> t] :
            q \in Requests, t \in {u \in 0..tick : u + Lag >= tick}}

\* The lines of a collection that fall into the period of key k, one by one.
Bucket(lines, k) ==
    LET applied[n \in 0..Len(lines)] ==
            IF n = 0 THEN NewBucket
            ELSE IF Start(k[2], lines[n].at) = k[3] THEN ApplyParsedLine(applied[n - 1], lines[n])
            ELSE applied[n - 1]
    IN  applied[Len(lines)]

\* collect_proxy
Collect(s, lines) ==
    LET touched == {<<s, kind, Start(kind, lines[i].at)>> : kind \in Kinds, i \in DOMAIN lines}
    IN  /\ aggregates' = [k \in DOMAIN aggregates \cup touched |->
                            IF k \in touched THEN UpsertAggregate(k, Bucket(lines, k)) ELSE aggregates[k]]
        /\ events' = events \o [i \in 1..(Len(lines) \div rate) |-> Event(s, lines[i * rate])]
        /\ seen' = seen \o [i \in DOMAIN lines |-> [site |-> s, line |-> lines[i]]]
        /\ UNCHANGED <<tick, rate, listed>>

\* Rows and events stay when a site is deleted, and are there when it is created again.
DeleteSite(s) == s \in listed /\ listed' = listed \ {s}
CreateSite(s) == s \notin listed /\ listed' = listed \cup {s}

Tick == tick < MaxTick /\ tick' = tick + 1 /\ UNCHANGED <<rate, events, aggregates, listed, seen>>

\* nginx writes lines in the order of their times.
Batches == {b \in UNION {[1..n -> Line] : n \in 1..MaxBatch} :
                /\ Len(seen) + Len(b) <= MaxLines
                /\ \A i, j \in DOMAIN b : i < j => b[i].at <= b[j].at}

StatNext ==
    \/ Tick
    \/ \E s \in listed, b \in Batches : Collect(s, b)
    \/ \E s \in Sites :
        (DeleteSite(s) \/ CreateSite(s)) /\ UNCHANGED <<tick, rate, events, aggregates, seen>>

StatSpec == StatInit /\ [][StatNext]_statVars

-----------------------------------------------------------------------------
(* Pages *)

InRange(sites, range) ==
    {k \in DOMAIN aggregates : k[1] \in sites /\ k[2] = range.kind /\ k[3] + range.ticks >= tick}
Total(keys) == SumFunction([k \in keys |-> aggregates[k].requests])
SumTraffic(keys) == [g \in Groups |-> SumFunction([k \in keys |-> aggregates[k].groups[g]])]
MergeStatusCodes(keys) == [c \in Statuses |-> SumFunction([k \in keys |-> aggregates[k].codes[c]])]
MergeTopJson(keys) == [c \in Clients |-> SumFunction([k \in keys |-> aggregates[k].clients[c]])]

\* The sum of latency_avg_ms * requests over that of requests.
AverageOf(keys) ==
    LET Plus(k, a) == <<a[1] * aggregates[k].avg[2] + aggregates[k].avg[1] * aggregates[k].requests * a[2],
                        a[2] * aggregates[k].avg[2]>>
        sum == MapThenFoldSet(Plus, <<0, 1>>, LAMBDA k : k, LAMBDA ks : CHOOSE k \in ks : TRUE, keys)
    IN  <<sum[1], sum[2] * Larger(1, Total(keys))>>

\* _sum_aggregates, and get_proxy_analytics_data: one site.
SiteStats(s, range) ==
    LET keys == InRange({s}, range)
    IN  [requests |-> Total(keys), groups |-> SumTraffic(keys), clients |-> MergeTopJson(keys),
         average |-> AverageOf(keys)]

\* list_analytics_summary: all rows grouped by site, then the listed ones.
Summary(range) == [s \in listed |-> Total({k \in InRange(Sites, range) : k[1] = s})]

\* status_codes: _sum_traffic and _merge_status_codes over all sites.
StatusCodes(range) ==
    LET keys == InRange(Sites, range)
    IN  [groups |-> SumTraffic(keys), specific |-> MergeStatusCodes(keys)]

\* proxy_hosts: an error is a request that is neither 2xx nor 3xx.
ProxyHosts(range) ==
    [s \in listed |-> LET stats == SiteStats(s, range)
                     IN  [requests |-> stats.requests, errors |-> stats.groups["4xx"] + stats.groups["5xx"]]]

\* Of all sites, without a range: all events, or the failed ones.
LiveRequests(errorsOnly) == {j \in DOMAIN events : errorsOnly => events[j].failed}
FailedRequests == LiveRequests(TRUE)

\* The events client_ips may read: those in the range, failed or not, the newest
\* ones if there are too many; the order of equal times is the database's.
Newest(range) ==
    LET inside == {j \in DOMAIN events : events[j].at + range.ticks >= tick}
    IN  IF Cardinality(inside) <= EventLimit THEN {inside}
        ELSE {read \in SUBSET inside :
                /\ Cardinality(read) = EventLimit
                /\ \A j \in read, k \in inside \ read : events[j].at >= events[k].at}

\* client_ips: requests of the listed sites, errors of the events that were read.
ClientIps(range, read) ==
    [c \in Clients |->
        [requests |-> SumFunction([s \in listed |-> SiteStats(s, range).clients[c]]),
         errors |-> Cardinality({j \in read : events[j].failed /\ events[j].client = c})]]

\* aggregate_history: hour rows of all sites, grouped by their start.
AggregateHistory(range) ==
    LET keys == InRange(Sites, [range EXCEPT !.kind = "hour"])
    IN  [t \in {k[3] : k \in keys} |-> Total({k \in keys : k[3] = t})]

-----------------------------------------------------------------------------
(* Properties *)

\* The collected lines a page on these sites and this range is about: those
\* whose period began in the range.
Lines(sites, range) ==
    {i \in DOMAIN seen : seen[i].site \in sites
                         /\ Start(range.kind, seen[i].line.at) + range.ticks >= tick}
Number(lines, Test(_)) == Cardinality({i \in lines : Test(seen[i].line)})
Recent(range) == {i \in DOMAIN seen : seen[i].line.at + range.ticks >= tick}
Sampled(n, lines) == n <= lines /\ (rate = 1 => n = lines)
NotAbove(avg, ms) == avg[1] <= ms * avg[2]
Times(lines) == {seen[i].line.ms : i \in {j \in lines : Timed(seen[j].line)}}

\* However the lines were cut into collections, and whatever was deleted and
\* created in between, each page's numbers are those of the lines themselves:
\* requests, status groups, single codes and clients; per site, over the listed
\* sites, and over all that ever were.  An average is never above the slowest
\* request, and it is exact if every line had a time.  The errors of a client
\* are never more than its failed lines in the range, deleted sites included;
\* they are all of them if every line is an event and the range has no more
\* lines than the page reads events.
ReadersAgree ==
    \A range \in Ranges :
        LET all == Lines(Sites, range)
            codes == StatusCodes(range)
        IN  /\ \A s \in Sites :
                LET own == Lines({s}, range)
                    stats == SiteStats(s, range)
                IN  /\ stats.requests = Cardinality(own)
                    /\ \A g \in Groups : stats.groups[g] = Number(own, LAMBDA l : StatusBucket(l.status) = g)
                    /\ \A c \in Clients : stats.clients[c] = Number(own, LAMBDA l : l.client = c)
                    /\ s \in listed => Summary(range)[s] = Cardinality(own)
                    /\ Times(own) # {} => \E ms \in Times(own) : NotAbove(stats.average, ms)
                    /\ (\A i \in own : Timed(seen[i].line)) =>
                        stats.average[1] * Larger(1, Cardinality(own))
                            = stats.average[2] * SumFunction([i \in own |-> seen[i].line.ms])
            /\ \A c \in Statuses : codes.specific[c] = Number(all, LAMBDA l : l.status = c)
            /\ \A g \in Groups : codes.groups[g] = Number(all, LAMBDA l : StatusBucket(l.status) = g)
            /\ \A s \in listed :
                ProxyHosts(range)[s].errors = Number(Lines({s}, range), LAMBDA l : l.status \notin 200..399)
            /\ \A c \in Clients, read \in Newest(range) :
                LET client == ClientIps(range, read)[c]
                    failed == Number(Recent(range), LAMBDA l : l.client = c /\ IsFailed(l.status))
                IN  /\ client.requests = Number(Lines(listed, range), LAMBDA l : l.client = c)
                    /\ client.errors <= failed
                    /\ rate = 1 /\ Cardinality(Recent(range)) <= EventLimit => client.errors = failed
            /\ Sampled(Cardinality(LiveRequests(FALSE)), Len(seen))
            /\ Sampled(Cardinality(FailedRequests), Number(DOMAIN seen, LAMBDA l : IsFailed(l.status)))
            /\ range.kind = "hour" =>
                SumFunction(AggregateHistory(range)) = Cardinality(all)
=============================================================================
