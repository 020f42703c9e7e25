------------------------------- MODULE Traffic -------------------------------
(***************************************************************************)
(* Counting the access log of one proxy: the collector's job reads what    *)
(* was appended since a stored offset and adds it to hour and minute rows, *)
(* a daily job adds the hours of yesterday up, a third deletes old rows.   *)
(* nginx appends, logrotate replaces the file, the process restarts, and   *)
(* the sites become unreadable for the panel, at any moment.               *)
(*                                                                         *)
(* A line is two chunks, written by nginx one after the other, so that a   *)
(* reader can find half of it.  Chunk numbers never repeat; the file holds *)
(* the chunks base+1 .. base+size, and offsets count chunks.               *)
(***************************************************************************)
EXTENDS Integers, Sequences, FiniteSets

CONSTANTS
    HourLen, DayLen,        \* minutes of an hour and of a day
    KeepMinutes, KeepHours, \* retention of minute and hour rows, in minutes
    Window,                 \* window_minutes of an alert rule
    Formats,                \* how lines are written, see AllFormats
    MaxMinute, MaxLines, MaxRotations, MaxFailures  \* bounds

\* A line torn "early" is parsed from its second half, one torn "late" from its
\* first; torn in the "middle" neither half has the eleven fields.  proxy_json
\* lines have a time the parser cannot read and no half that parses.
AllFormats == [dated : {TRUE}, cut : {"early", "middle", "late"}]
                \cup [dated : {FALSE}, cut : {"middle"}]

ASSUME TrafficConstants ==
    /\ Formats \subseteq AllFormats
    /\ HourLen \in Nat \ {0} /\ DayLen \in Nat \ {0} /\ DayLen % HourLen = 0
    /\ {KeepMinutes, KeepHours, Window} \subseteq Nat
    /\ {MaxMinute, MaxLines, MaxRotations, MaxFailures} \subseteq Nat

VARIABLES
    now,        \* minutes since some midnight
    lines,      \* every line nginx began: its minute, format and where it tears
    base, size, \* the file: chunks rotated away before it, chunks in it
    listable,   \* list_proxies can parse the file of every site
    offset,     \* ProxyTrafficLogState.byte_offset, committed
    counted,    \* rows: per kind and line, the periods it was counted in
    days,       \* day rows: their numbers of requests
    nextRollup, \* when the daily job is due
    pc, seen, batch,        \* the collector: step, its offset, what it read
    failures,
    gen, offsetGen, batchGen, explained     \* history, see LossIsExplained

fileVars == <<lines, base, size, gen, listable>>
jobVars == <<pc, seen, batch, batchGen>>
dbVars == <<offset, offsetGen, counted>>
dayVars == <<days, nextRollup>>
vars == <<now, fileVars, jobVars, dbVars, dayVars, failures, explained>>

Kinds == {"hour", "minute"}
Ids == 1..MaxLines
Pruned == -1    \* stands for the period of a deleted row

Line == [at : Nat, format : Formats]

TypeOK ==
    /\ now \in 0..MaxMinute
    /\ lines \in Seq(Line) /\ Len(lines) <= MaxLines
    /\ base \in Nat /\ size \in Nat /\ base + size \in {2 * Len(lines), 2 * Len(lines) - 1}
    /\ listable \in BOOLEAN
    /\ offset \in 0..2 * MaxLines /\ seen \in 0..2 * MaxLines
    /\ counted \in [Kinds -> [Ids -> Seq(Nat \cup {Pruned})]]
    /\ days \in [0..MaxMinute \div DayLen -> Seq(Nat \ {0})]
    /\ nextRollup \in Nat
    /\ pc \in {"idle", "read", "commit"}
    /\ batch \in [from : Nat, to : Nat]
    /\ failures \in 0..MaxFailures
    /\ explained \subseteq Ids
    /\ {gen, offsetGen, batchGen} \subseteq 0..MaxRotations

Init ==
    /\ now = 0 /\ lines = <<>> /\ base = 0 /\ size = 0 /\ listable = TRUE
    /\ offset = 0
    /\ counted = [k \in Kinds |-> [n \in Ids |-> <<>>]]
    /\ days = [d \in 0..MaxMinute \div DayLen |-> <<>>]
    /\ nextRollup = DayLen
    /\ pc = "idle" /\ seen = 0 /\ batch = [from |-> 0, to |-> 0]
    /\ failures = 0 /\ explained = {}
    /\ gen = 0 /\ offsetGen = 0 /\ batchGen = 0

-----------------------------------------------------------------------------
(* nginx and logrotate *)

Whole == (base + size) % 2 = 0      \* no line is half written

\* nginx begins a line, and ends it.
WriteHalf ==
    /\ Whole /\ Len(lines) < MaxLines
    /\ \E f \in Formats : lines' = Append(lines, [at |-> now, format |-> f])
    /\ size' = size + 1
    /\ UNCHANGED <<now, base, gen, listable, jobVars, dbVars, dayVars, failures, explained>>

WriteRest ==
    /\ ~Whole
    /\ size' = size + 1
    /\ UNCHANGED <<now, lines, base, gen, listable, jobVars, dbVars, dayVars, failures, explained>>

\* The collection ends: its locals are gone.
Return == pc' = "idle" /\ seen' = 0 /\ batch' = [from |-> 0, to |-> 0] /\ batchGen' = 0

Complete(n) == n \in DOMAIN lines /\ 2 * n <= base + size

\* Lines of the file that are not all behind its offset, if it has one.
Uncollected == {n \in DOMAIN lines : 2 * n > base + (IF offsetGen = gen THEN offset ELSE 0)}

\* logrotate puts an empty file in the place of this one.
Rotate ==
    /\ Whole /\ size > 0 /\ gen < MaxRotations
    /\ base' = base + size /\ size' = 0 /\ gen' = gen + 1
    /\ explained' = explained \cup Uncollected
    /\ UNCHANGED <<now, lines, listable, jobVars, dbVars, dayVars, failures>>

\* A site gets a text that the panel cannot parse, such as a rendered upstream,
\* or the last such text goes.
Sites ==
    /\ listable' = ~listable
    /\ UNCHANGED <<now, lines, base, size, gen, jobVars, dbVars, dayVars, failures, explained>>

-----------------------------------------------------------------------------
(* collect_proxy *)

\* Mutant: a file as long as the offset is taken for a new one.
StatRestarts ==
    /\ pc = "idle" /\ listable
    /\ seen' = IF offset >= size THEN 0 ELSE offset
    /\ pc' = "read"
    /\ UNCHANGED <<now, fileVars, batch, batchGen, dbVars, dayVars, failures, explained>>

\* list_proxies, then the stored offset, unless the file has become shorter.
\* Where one site cannot be parsed collect_all raises here, whichever site is
\* collected, and has changed nothing.
Stat ==
    /\ pc = "idle" /\ listable
    /\ seen' = IF offset > size THEN 0 ELSE offset
    /\ pc' = "read"
    /\ UNCHANGED <<now, fileVars, batch, batchGen, dbVars, dayVars, failures, explained>>

\* Complete lines the read steps over because the offset is of an older file,
\* and the line it tears beyond recognition.
SteppedOver ==
    IF seen > 0 /\ offsetGen # gen
    THEN {n \in DOMAIN lines : base < 2 * n - 1 /\ 2 * n - 1 <= base + seen} ELSE {}
Torn == {n \in DOMAIN lines : 2 * n - 1 = base + size /\ lines[n].format.cut = "middle"}

\* read_from_offset: everything from the offset to the end, if there is any.
Read ==
    /\ pc = "read"
    /\ pc' = "commit"
    /\ batch' = [from |-> base + seen, to |-> base + size]
    /\ batchGen' = gen
    /\ explained' = explained \cup SteppedOver \cup Torn
    /\ UNCHANGED <<now, fileVars, seen, dbVars, dayVars, failures>>

InBatch(c) == batch.from < c /\ c <= batch.to

\* Mutant: only lines the batch holds as a whole are recognised.
ParsedWhole == {n \in DOMAIN lines : InBatch(2 * n - 1) /\ InBatch(2 * n)}

\* parse_access_line: the lines of the batch that are recognised.
Parsed ==
    {n \in DOMAIN lines :
        \/ InBatch(2 * n - 1) /\ InBatch(2 * n)
        \/ InBatch(2 * n - 1) /\ ~InBatch(2 * n) /\ lines[n].format.cut = "late"
        \/ ~InBatch(2 * n - 1) /\ InBatch(2 * n) /\ lines[n].format.cut = "early"}

\* A line without a readable time is counted at the time of collection.
Stamp(n) == IF lines[n].format.dated THEN lines[n].at ELSE now

\* Mutant: the hour is taken from the clock.
PeriodOfNow(kind, t) == IF kind = "hour" THEN HourLen * (now \div HourLen) ELSE t

Period(kind, t) == IF kind = "hour" THEN HourLen * (t \div HourLen) ELSE t

\* The rows with the batch added (_upsert_aggregate).
Upserted ==
    [k \in Kinds |-> [n \in Ids |->
        IF n \in Parsed THEN Append(counted[k][n], Period(k, Stamp(n))) ELSE counted[k][n]]]

\* Rows and offset are one transaction.  A read that found nothing leaves the
\* offset as Stat computed it; collect_all commits that.
Commit ==
    /\ pc = "commit"
    /\ Return
    /\ counted' = Upserted
    /\ IF batch.to > batch.from
       THEN offset' = seen + (batch.to - batch.from) /\ offsetGen' = batchGen
       ELSE offset' = seen /\ UNCHANGED offsetGen
    /\ UNCHANGED <<now, fileVars, dayVars, failures, explained>>

\* Mutant: the offset is kept, the rows go to the next transaction.
FailHalfWay ==
    /\ pc # "idle" /\ failures < MaxFailures
    /\ Return /\ failures' = failures + 1
    /\ offset' = IF pc = "commit" /\ batch.to > batch.from THEN seen + (batch.to - batch.from) ELSE offset
    /\ UNCHANGED <<now, fileVars, offsetGen, counted, dayVars, explained>>

\* The collection raises (path, read, SQLite), or the process is killed in it.
Fail ==
    /\ pc # "idle" /\ failures < MaxFailures
    /\ Return /\ failures' = failures + 1
    /\ UNCHANGED <<now, fileVars, dbVars, dayVars, explained>>

-----------------------------------------------------------------------------
(* The daily jobs *)

\* The requests that rows of a kind hold for periods in from .. to-1.
Entries(kind, from, to) ==
    LET Held(n) == {i \in DOMAIN counted[kind][n] :
                       LET t == counted[kind][n][i] IN t # Pruned /\ from <= t /\ t < to}
    IN  UNION {{n} \X Held(n) : n \in Ids}

HourRequests(day) == Cardinality(Entries("hour", day * DayLen, (day + 1) * DayLen))

\* Mutant: a day without hour rows gets a row, too.
RolledAlways ==
    LET day == now \div DayLen - 1 IN
    IF day >= 0 THEN [days EXCEPT ![day] = Append(@, HourRequests(day))] ELSE days

\* rollup_daily: a day row for yesterday, if it has hour rows.
Rolled ==
    LET day == now \div DayLen - 1 IN
    IF day >= 0 /\ HourRequests(day) > 0
    THEN [days EXCEPT ![day] = Append(@, HourRequests(day))] ELSE days

Rollup ==
    /\ now = nextRollup
    /\ days' = Rolled
    /\ nextRollup' = now + DayLen
    /\ UNCHANGED <<now, fileVars, jobVars, dbVars, failures, explained>>

\* Mutant: a restart runs the daily job at once.
RestartRollsUp ==
    /\ pc = "idle" /\ failures < MaxFailures
    /\ failures' = failures + 1
    /\ nextRollup' = now
    /\ UNCHANGED <<now, fileVars, jobVars, dbVars, days, explained>>

\* A restart starts every IntervalTrigger anew.
Restart ==
    /\ pc = "idle" /\ failures < MaxFailures
    /\ failures' = failures + 1
    /\ nextRollup' = now + DayLen
    /\ UNCHANGED <<now, fileVars, jobVars, dbVars, days, explained>>

Keep(kind) == IF kind = "hour" THEN KeepHours ELSE KeepMinutes

\* MetricsRetentionService.cleanup.
Cleanup ==
    /\ counted' = [k \in Kinds |-> [n \in Ids |-> [i \in DOMAIN counted[k][n] |->
                      IF counted[k][n][i] < now - Keep(k) THEN Pruned ELSE counted[k][n][i]]]]
    /\ counted' # counted
    /\ UNCHANGED <<now, fileVars, jobVars, offset, offsetGen, dayVars, failures, explained>>

\* A daily run that is due and does not start in its minute is left out.
Tick ==
    /\ now < MaxMinute
    /\ now' = now + 1
    /\ nextRollup' = IF now = nextRollup THEN now + DayLen ELSE nextRollup
    /\ UNCHANGED <<fileVars, jobVars, dbVars, days, failures, explained>>

-----------------------------------------------------------------------------

Nginx == WriteHalf \/ WriteRest \/ Rotate
Collect == Stat \/ Read \/ Commit
Next == Nginx \/ Sites \/ Collect \/ Fail \/ Rollup \/ Restart \/ Cleanup \/ Tick

Spec == Init /\ [][Next]_vars
FairSpec == Spec /\ WF_vars(Collect)

-----------------------------------------------------------------------------
(* What an alert rule sums (_metric_value): rows of every kind whose period *)
(* began inside its window.                                                 *)

DaysInWindow == {d \in DOMAIN days : d * DayLen >= now - Window}

RuleRequests ==
    LET dayRows == UNION {UNION {{<<d, i>>} \X (1..days[d][i]) : i \in DOMAIN days[d]} : d \in DaysInWindow}
    IN Cardinality(Entries("hour", now - Window, now + 1))
         + Cardinality(Entries("minute", now - Window, now + 1)) + Cardinality(dayRows)

-----------------------------------------------------------------------------
(* Properties *)

\* However reads, rotations, failures and restarts fall, no request is in two
\* minute rows or in two hour rows, or twice in one: offset and rows change
\* together, and a file is read from its beginning only when it is new.
CountedAtMostOnce == \A k \in Kinds, n \in Ids : Len(counted[k][n]) <= 1

\* The minutes of an hour add up to the hour: a line in one kind of row is in
\* the other, under the same hour, as long as neither row was deleted.  A day
\* gets at most one day row, though nothing in the table forbids a second: the
\* daily job runs a day apart, also after a restart.
PeriodsAddUp ==
    /\ \A n \in Ids :
        /\ counted["minute"][n] = <<>> <=> counted["hour"][n] = <<>>
        /\ \A i \in DOMAIN counted["minute"][n] :
              LET m == counted["minute"][n][i] h == counted["hour"][n][i] IN
              m # Pruned /\ h # Pruned => h = Period("hour", m)
    /\ \A d \in DOMAIN days : Len(days[d]) <= 1

\* A complete line that the stored offset has passed is counted, but for three
\* ways to lose it: a rotation before it was collected, an offset of the old
\* file that hides the beginning of the new one, a read of half of it.
LossIsExplained ==
    \A n \in DOMAIN lines :
        Complete(n) /\ n \notin Uncollected => counted["hour"][n] # <<>> \/ n \in explained

\* A rule's sum takes hour rows in besides the minute rows of the same
\* requests, yet never more than twice what the window holds: an hour that
\* began inside the window has all its minutes inside.
RulesCountTwiceAtMost ==
    Window < DayLen /\ Window <= KeepMinutes =>
        RuleRequests <= 2 * Cardinality(Entries("minute", now - Window, now + 1))

\* When no site stays unreadable, a line that lies ahead of the offset is
\* counted some time, unless one of the three happens to it: also what came in
\* while every collection raised is caught up with.
AheadIsCounted ==
    <>[]listable =>
        \A n \in Ids :
            Complete(n) /\ n \in Uncollected
                ~> counted["hour"][n] # <<>> \/ n \in explained

=============================================================================
