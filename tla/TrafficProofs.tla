---------------------------- MODULE TrafficProofs ----------------------------
(***************************************************************************)
(* No line is counted twice, a line the offset has passed is counted or    *)
(* its loss has a reason, the rows of its minute, hour and day add up, and *)
(* an alert rule counts it twice at most: for any number of lines,         *)
(* rotations, failures and restarts, and any lengths of periods and        *)
(* retentions.                                                             *)
(***************************************************************************)
EXTENDS Traffic, FiniteSetTheorems, TLAPS

\* The chunk up to which the file's lines lie behind the stored offset.
Mark == base + (IF offsetGen = gen THEN offset ELSE 0)

HasRow(kind, n) == counted[kind][n] # <<>>
Cut(n) == lines[n].format.cut

Typed ==
    /\ now \in Nat /\ lines \in Seq(Line) /\ \A n \in DOMAIN lines : lines[n].format \in AllFormats
    /\ Len(lines) <= MaxLines
    /\ base \in Nat /\ size \in Nat /\ offset \in Nat /\ seen \in Nat
    /\ batch \in [from : Nat, to : Nat]
    /\ gen \in Nat /\ offsetGen \in Nat /\ batchGen \in Nat
    /\ pc \in {"idle", "read", "commit"}
    /\ counted \in [Kinds -> [Ids -> Seq(Int)]]

\* The file ends with the last line or its first half, and begins with a line.
FileFits ==
    /\ base + size \in {2 * Len(lines), 2 * Len(lines) - 1}
    /\ base % 2 = 0

\* An offset of this file lies in it, and a collection has it as it is stored.
\* What was read ends in the file it was read from, which was rotated since or not.
OffsetFits ==
    /\ offsetGen <= gen /\ (offsetGen = gen => offset <= size)
    /\ pc # "idle" /\ offsetGen = gen => seen = offset
    /\ pc = "commit" => /\ offsetGen <= batchGen /\ batchGen <= gen
                        /\ batch.to <= IF batchGen = gen THEN base + size ELSE base
                        /\ batchGen = gen => batch.from = base + seen

\* Before chunk c lies all of line n that can be recognised.
Before(n, c) == 2 * n <= c \/ (2 * n - 1 <= c /\ Cut(n) = "late")

\* A counted line lies behind the offset, and before what was read since.
CountedIsBehind ==
    \A k \in Kinds, n \in Ids :
        /\ Len(counted[k][n]) <= 1
        /\ HasRow(k, n) => /\ n \in DOMAIN lines /\ Before(n, Mark)
                           /\ pc = "commit" => Before(n, batch.from)

\* A line behind the offset is counted or explained, and so is one the offset
\* tears, unless its second half will do.
BehindIsCounted ==
    \A n \in DOMAIN lines :
        /\ 2 * n <= Mark => HasRow("hour", n) \/ n \in explained
        /\ offsetGen = gen /\ 2 * n - 1 = base + offset =>
              \/ n \in explained \/ Cut(n) = "early"
              \/ Cut(n) = "late" /\ HasRow("hour", n)

\* What a read steps over is explained, and what it tears beyond recognition.
ReadIsExplained ==
    pc = "commit" /\ batchGen = gen /\ batch.to > batch.from =>
        \A n \in DOMAIN lines :
            /\ Mark < 2 * n /\ 2 * n - 1 <= batch.from =>
                  n \in explained \/ (offsetGen = gen /\ 2 * n - 1 = batch.from)
            /\ 2 * n - 1 = batch.to /\ Cut(n) = "middle" => n \in explained

IInv ==
    /\ Typed /\ FileFits /\ OffsetFits
    /\ CountedIsBehind /\ BehindIsCounted /\ ReadIsExplained

LEMMA InitIInv == Init => IInv
<1> SUFFICES ASSUME Init PROVE IInv
  OBVIOUS
<1> USE DEF Init
<1>1. Typed
  BY TrafficConstants DEF Typed, Line
<1>2. FileFits
  BY DEF FileFits
<1>3. OffsetFits
  BY DEF OffsetFits
<1>4. CountedIsBehind /\ BehindIsCounted /\ ReadIsExplained
  BY DEF CountedIsBehind, BehindIsCounted, ReadIsExplained, HasRow
<1> QED
  BY <1>1, <1>2, <1>3, <1>4 DEF IInv

LEMMA Parity == \A i \in Nat : (2 * i) % 2 = 0 /\ (2 * i - 1) % 2 # 0
  OBVIOUS

\* No line is half written exactly if all of the last one is there.
LEMMA WholeLines ==
  ASSUME Typed, FileFits
  PROVE  /\ Len(lines) \in Nat /\ DOMAIN lines = 1..Len(lines) /\ base % 2 = 0
         /\ base + size = IF Whole THEN 2 * Len(lines) ELSE 2 * Len(lines) - 1
<1>1. Len(lines) \in Nat /\ DOMAIN lines = 1..Len(lines)
  BY DEF Typed
<1>2. (2 * Len(lines)) % 2 = 0 /\ (2 * Len(lines) - 1) % 2 # 0
  BY <1>1, Parity
<1> QED
  BY <1>1, <1>2 DEF FileFits, Whole

-----------------------------------------------------------------------------
(* nginx, logrotate and the clock *)

LEMMA WriteHalfKeeps ==
  ASSUME IInv, WriteHalf
  PROVE  IInv'
<1> USE DEF IInv
<1>1. PICK f \in Formats : lines' = Append(lines, [at |-> now, format |-> f])
  BY DEF WriteHalf
<1> DEFINE l == [at |-> now, format |-> f]
<1>2. f \in AllFormats
  BY TrafficConstants
<1>3. l \in Line
  BY <1>2 DEF Line, Typed
<1>4. /\ lines' \in Seq(Line) /\ Len(lines') = Len(lines) + 1
      /\ DOMAIN lines' = DOMAIN lines \cup {Len(lines) + 1}
      /\ \A n \in DOMAIN lines : lines'[n] = lines[n]
      /\ lines'[Len(lines) + 1] = l
  BY <1>1, <1>3 DEF Typed
<1> HIDE DEF l
<1>5. base + size = 2 * Len(lines) /\ Len(lines) \in Nat /\ base % 2 = 0 /\ MaxLines \in Nat
  BY WholeLines, TrafficConstants DEF WriteHalf
<1>6. Typed'
  BY <1>2, <1>4, <1>5 DEF WriteHalf, Typed, jobVars, dbVars, l
<1>7. FileFits'
  <2>1. base' = base /\ size' = size + 1
    BY DEF WriteHalf
  <2>2. Len(lines') = Len(lines) + 1
    BY <1>4
  <2> QED
    BY <1>5, <2>1, <2>2 DEF FileFits, Typed
<1>8. OffsetFits'
  BY DEF WriteHalf, OffsetFits, Typed, jobVars, dbVars
<1>9. /\ Mark' = Mark /\ Mark \in Nat /\ Mark <= base + size
      /\ \A n \in DOMAIN lines : Cut(n)' = Cut(n)
  BY <1>4 DEF WriteHalf, Mark, Cut, OffsetFits, Typed, dbVars
<1>10. CountedIsBehind'
  BY <1>4, <1>9 DEF WriteHalf, CountedIsBehind, HasRow, Before, jobVars, dbVars
<1>11. ASSUME NEW n \in DOMAIN lines'
       PROVE  n \in DOMAIN lines \/ (2 * n - 1 > base + size /\ n \in Nat)
  BY <1>4, <1>5
<1>12. BehindIsCounted'
  BY <1>4, <1>9, <1>11 DEF WriteHalf, BehindIsCounted, OffsetFits, Typed, HasRow, dbVars
<1>13. ReadIsExplained'
  <2> SUFFICES ASSUME pc = "commit", batchGen = gen, batch.to > batch.from, NEW n \in DOMAIN lines'
               PROVE  /\ Mark < 2 * n /\ 2 * n - 1 <= batch.from =>
                            n \in explained \/ (offsetGen = gen /\ 2 * n - 1 = batch.from)
                      /\ 2 * n - 1 = batch.to /\ Cut(n)' = "middle" => n \in explained
    BY <1>9 DEF WriteHalf, ReadIsExplained, jobVars, dbVars
  <2>1. CASE n \in DOMAIN lines
    BY <1>9, <2>1 DEF ReadIsExplained
  <2>2. CASE 2 * n - 1 > base + size /\ n \in Nat
    <3>1. batch.to <= base + size /\ batch.to \in Nat /\ batch.from \in Nat /\ base + size \in Nat
      BY DEF OffsetFits, Typed
    <3> QED
      BY <2>2, <3>1
  <2> QED
    BY <1>11, <2>1, <2>2
<1> QED
  BY <1>6, <1>7, <1>8, <1>10, <1>12, <1>13

LEMMA WriteRestKeeps ==
  ASSUME IInv, WriteRest
  PROVE  IInv'
<1> USE DEF IInv, WriteRest, jobVars, dbVars
<1>1. base + size = 2 * Len(lines) - 1 /\ Len(lines) \in Nat
  BY WholeLines
<1>2. Typed'
  BY DEF Typed
<1>3. FileFits'
  BY <1>1 DEF FileFits, Typed
<1>4. OffsetFits'
  BY DEF OffsetFits, Typed
<1>5. CountedIsBehind' /\ BehindIsCounted' /\ ReadIsExplained'
  BY DEF CountedIsBehind, BehindIsCounted, ReadIsExplained, HasRow, Before, Mark, Cut
<1> QED
  BY <1>2, <1>3, <1>4, <1>5

LEMMA RotateKeeps ==
  ASSUME IInv, Rotate
  PROVE  IInv'
<1> USE DEF IInv, Rotate, jobVars, dbVars
<1>1. /\ base + size = 2 * Len(lines) /\ Len(lines) \in Nat /\ DOMAIN lines = 1..Len(lines)
      /\ offsetGen # gen' /\ Mark \in Nat /\ Mark <= base + size
  BY WholeLines DEF OffsetFits, Typed, Mark
<1>2. Mark' = base + size /\ base' = base + size
  BY <1>1 DEF Mark, Typed
<1>3. Typed'
  BY DEF Typed
<1>4. FileFits'
  <2>1. base' = 2 * Len(lines) /\ base' + size' = 2 * Len(lines)
    BY <1>1, <1>2
  <2> QED
    BY <1>1, <2>1, Parity DEF FileFits
<1>5. OffsetFits'
  BY <1>1 DEF OffsetFits, Typed
<1>6. CountedIsBehind'
  BY <1>1, <1>2 DEF CountedIsBehind, HasRow, Before, Cut
<1>7. \A n \in DOMAIN lines : n \in explained' \/ 2 * n <= Mark
  BY <1>1 DEF Uncollected, Mark
<1>8. BehindIsCounted'
  BY <1>1, <1>2, <1>7 DEF BehindIsCounted, HasRow, Cut
<1>9. ReadIsExplained'
  BY DEF ReadIsExplained, OffsetFits, Typed
<1> QED
  BY <1>3, <1>4, <1>5, <1>6, <1>8, <1>9

\* The file, the database and the explanations stay; a collection goes on or ends.
LEMMA ElsewhereKeeps ==
  ASSUME IInv, UNCHANGED <<lines, base, size, gen, dbVars, explained>>, now' \in Nat,
         UNCHANGED jobVars \/ Return
  PROVE  IInv'
<1> USE DEF IInv, fileVars, dbVars, jobVars, Return
<1>1. Typed'
  BY DEF Typed
<1>2. FileFits' /\ OffsetFits'
  BY DEF FileFits, OffsetFits
<1>3. Mark' = Mark /\ \A n \in DOMAIN lines : Cut(n)' = Cut(n)
  BY DEF Mark, Cut
<1>4. CountedIsBehind' /\ BehindIsCounted' /\ ReadIsExplained'
  BY <1>3 DEF CountedIsBehind, BehindIsCounted, ReadIsExplained, HasRow, Before
<1> QED
  BY <1>1, <1>2, <1>4

-----------------------------------------------------------------------------
(* The collection *)

LEMMA StatKeeps ==
  ASSUME IInv, Stat
  PROVE  IInv'
<1> USE DEF IInv, Stat, fileVars, dbVars
<1>1. Typed'
  BY DEF Typed
<1>2. FileFits' /\ OffsetFits'
  BY DEF FileFits, OffsetFits, Typed
<1>3. CountedIsBehind' /\ BehindIsCounted' /\ ReadIsExplained'
  BY DEF CountedIsBehind, BehindIsCounted, ReadIsExplained, HasRow, Before, Mark, Cut
<1> QED
  BY <1>1, <1>2, <1>3

LEMMA ReadKeeps ==
  ASSUME IInv, Read
  PROVE  IInv'
<1> USE DEF IInv, Read, fileVars, dbVars
<1>1. Typed'
  BY DEF Typed
<1>2. /\ batch'.from = base + seen /\ batch'.to = base + size
      /\ Mark \in Nat /\ Mark <= base + seen /\ base % 2 = 0 /\ base \in Nat /\ seen \in Nat /\ size \in Nat
      /\ Mark' = Mark /\ \A n \in DOMAIN lines : Cut(n)' = Cut(n)
  BY DEF Mark, OffsetFits, FileFits, Typed, Cut
<1>3. FileFits' /\ OffsetFits'
  BY <1>2 DEF FileFits, OffsetFits, Typed
<1>4. DOMAIN lines \subseteq Nat
  BY DEF Typed
<1>5. CountedIsBehind'
  <2> SUFFICES ASSUME NEW k \in Kinds, NEW n \in Ids, HasRow(k, n)
               PROVE  n \in DOMAIN lines /\ Before(n, Mark) /\ Before(n, base + seen)
    BY <1>2 DEF CountedIsBehind, HasRow, Before, Cut
  <2>1. n \in DOMAIN lines /\ Before(n, Mark)
    BY DEF CountedIsBehind
  <2> QED
    BY <1>2, <1>4, <2>1 DEF Before
<1>6. BehindIsCounted'
  BY <1>2 DEF BehindIsCounted, HasRow
<1>7. ReadIsExplained'
  <2> SUFFICES ASSUME NEW n \in DOMAIN lines
               PROVE  /\ Mark < 2 * n /\ 2 * n - 1 <= base + seen =>
                            n \in explained' \/ (offsetGen = gen /\ 2 * n - 1 = base + seen)
                      /\ 2 * n - 1 = base + size /\ Cut(n) = "middle" => n \in explained'
    BY <1>2 DEF ReadIsExplained
  <2>1. ASSUME 2 * n - 1 = base + size, Cut(n) = "middle" PROVE n \in explained'
    BY <2>1 DEF Torn, Cut
  <2>2. ASSUME Mark < 2 * n, 2 * n - 1 <= base + seen, offsetGen = gen PROVE 2 * n - 1 = base + seen
    BY <1>2, <1>4, <2>2 DEF Mark, OffsetFits
  <2>3. ASSUME Mark < 2 * n, 2 * n - 1 <= base + seen, offsetGen # gen PROVE n \in explained'
    <3>1. base < 2 * n - 1 /\ seen > 0
      BY <1>2, <1>4, <2>3 DEF Mark
    <3> QED
      BY <2>3, <3>1 DEF SteppedOver
  <2> QED
    BY <2>1, <2>2, <2>3
<1> QED
  BY <1>1, <1>3, <1>5, <1>6, <1>7

LEMMA StampedPeriods ==
  ASSUME Typed, NEW k \in Kinds, NEW n \in DOMAIN lines
  PROVE  Period(k, Stamp(n)) \in Nat
<1>1. Stamp(n) \in Nat
  <2>1. lines[n] \in Line /\ now \in Nat
    BY DEF Typed
  <2> QED
    BY <2>1 DEF Stamp, Line
<1>2. HourLen \in Nat \ {0}
  BY TrafficConstants
<1>3. Stamp(n) \div HourLen \in Nat
  BY <1>1, <1>2
<1> QED
  BY <1>1, <1>2, <1>3 DEF Period

LEMMA CommitKeeps ==
  ASSUME IInv, Commit
  PROVE  IInv'
<1> USE DEF IInv
<1>0. /\ pc = "commit" /\ pc' = "idle" /\ seen' = 0 /\ batch' = [from |-> 0, to |-> 0] /\ batchGen' = 0
      /\ UNCHANGED <<now, lines, base, size, gen, explained>> /\ counted' = Upserted
  BY DEF Commit, Return, fileVars
<1>1. /\ Len(lines) \in Nat /\ DOMAIN lines = 1..Len(lines) /\ base % 2 = 0 /\ Len(lines) <= MaxLines /\ MaxLines \in Nat
      /\ Mark \in Nat /\ base \in Nat /\ size \in Nat /\ offset \in Nat /\ batch.from \in Nat /\ batch.to \in Nat
  BY WholeLines, TrafficConstants DEF Typed, Mark
<1>2. DOMAIN lines \subseteq Ids
  BY <1>1 DEF Ids
<1>3. \A k \in Kinds, n \in Ids :
        counted'[k][n] = IF n \in Parsed THEN Append(counted[k][n], Period(k, Stamp(n))) ELSE counted[k][n]
  BY <1>0 DEF Upserted
<1>4. Parsed \subseteq DOMAIN lines
  BY DEF Parsed
<1>5. \A k \in Kinds, n \in Parsed : counted[k][n] = <<>>
  <2> SUFFICES ASSUME NEW k \in Kinds, NEW n \in Parsed, HasRow(k, n) PROVE FALSE
    BY DEF HasRow
  <2>1. Before(n, batch.from) /\ n \in Nat
    BY <1>0, <1>1, <1>2, <1>4 DEF CountedIsBehind
  <2> QED
    BY <1>1, <2>1 DEF Before, Parsed, InBatch, Cut
<1>6. \A k \in Kinds, n \in Ids :
        /\ counted'[k][n] \in Seq(Int) /\ Len(counted'[k][n]) <= 1
        /\ HasRow(k, n)' <=> HasRow(k, n) \/ n \in Parsed
  <2> SUFFICES ASSUME NEW k \in Kinds, NEW n \in Ids
               PROVE  /\ counted'[k][n] \in Seq(Int) /\ Len(counted'[k][n]) <= 1
                      /\ counted'[k][n] # <<>> <=> counted[k][n] # <<>> \/ n \in Parsed
    BY DEF HasRow
  <2>1. CASE n \in Parsed
    <3>1. counted'[k][n] = Append(<<>>, Period(k, Stamp(n))) /\ Period(k, Stamp(n)) \in Int
      <4>1. n \in DOMAIN lines /\ counted[k][n] = <<>>
        BY <1>4, <1>5, <2>1
      <4>2. counted'[k][n] = Append(counted[k][n], Period(k, Stamp(n)))
        BY <1>3, <2>1
      <4> QED
        BY <4>1, <4>2, StampedPeriods
    <3> QED
      BY <2>1, <3>1
  <2>2. CASE n \notin Parsed
    BY <1>3, <2>2 DEF Typed, CountedIsBehind
  <2> QED
    BY <2>1, <2>2
\* Either the offset moves to the end of what was read, or it stays.
<1>7. /\ offset' \in Nat /\ offsetGen' \in Nat /\ offsetGen' <= gen
      /\ \/ batch.to > batch.from /\ batchGen = gen /\ offsetGen' = gen /\ offset' <= size /\ base + offset' = batch.to
         \/ batchGen # gen /\ offsetGen' # gen /\ offsetGen # gen /\ batch.to <= base
         \/ ~(batch.to > batch.from) /\ offsetGen' = offsetGen /\ (offsetGen = gen => offset' = offset)
  <2>1. /\ offsetGen \in Nat /\ batchGen \in Nat /\ gen \in Nat /\ seen \in Nat
        /\ offsetGen <= batchGen /\ batchGen <= gen /\ (offsetGen = gen => seen = offset)
        /\ batchGen = gen => batch.from = base + seen /\ batch.to <= base + size
        /\ batchGen # gen => batch.to <= base
    BY <1>0 DEF OffsetFits, Typed
  <2>2. CASE batch.to > batch.from
    <3>1. offset' = seen + (batch.to - batch.from) /\ offsetGen' = batchGen
      BY <2>2 DEF Commit
    <3>2. CASE batchGen = gen
      <4>0. batch.from = base + seen /\ batch.from \in Nat /\ batch.to \in Nat /\ base \in Nat /\ seen \in Nat
        BY <1>1, <2>1, <3>2
      <4>1. base + offset' = batch.to /\ offset' \in Nat
        BY <2>2, <3>1, <4>0
      <4> QED
        BY <1>1, <2>1, <2>2, <3>1, <3>2, <4>1
    <3>3. CASE batchGen # gen
      <4>1. offset' \in Nat /\ offsetGen # gen
        BY <1>1, <2>1, <2>2, <3>1, <3>3
      <4> QED
        BY <2>1, <3>1, <3>3, <4>1
    <3> QED
      BY <3>2, <3>3
  <2>3. CASE ~(batch.to > batch.from)
    <3>1. offset' = seen /\ offsetGen' = offsetGen
      BY <2>3 DEF Commit
    <3> QED
      BY <1>1, <2>1, <2>3, <3>1
  <2> QED
    BY <2>2, <2>3
<1>8. /\ Mark' \in Nat
      /\ \/ batch.to > batch.from /\ batchGen = gen /\ Mark' = batch.to
         \/ batchGen # gen /\ Mark' = base /\ Mark = base /\ batch.to <= base
         \/ ~(batch.to > batch.from) /\ Mark' = Mark
  <2>1. /\ Mark' = base + (IF offsetGen' = gen THEN offset' ELSE 0)
        /\ Mark = base + (IF offsetGen = gen THEN offset ELSE 0)
    BY <1>0 DEF Mark
  <2>2. CASE batch.to > batch.from /\ batchGen = gen /\ offsetGen' = gen /\ base + offset' = batch.to
    BY <1>1, <1>7, <2>1, <2>2
  <2>3. CASE batchGen # gen /\ offsetGen' # gen /\ offsetGen # gen /\ batch.to <= base
    BY <1>1, <2>1, <2>3
  <2>4. CASE ~(batch.to > batch.from) /\ offsetGen' = offsetGen /\ (offsetGen = gen => offset' = offset)
    BY <1>1, <1>7, <2>1, <2>4
  <2> QED
    BY <1>7, <2>2, <2>3, <2>4
<1>9. Typed'
  <2>1. counted' \in [Kinds -> [Ids -> Seq(Int)]]
    BY <1>0, <1>6 DEF Upserted
  <2> QED
    BY <1>0, <1>7, <2>1 DEF Typed
<1>10. FileFits'
  BY <1>0 DEF FileFits
<1>11. OffsetFits'
  BY <1>0, <1>7 DEF OffsetFits
<1>12. CountedIsBehind'
  <2> SUFFICES ASSUME NEW k \in Kinds, NEW n \in Ids, HasRow(k, n)'
               PROVE  n \in DOMAIN lines /\ (2 * n <= Mark' \/ (2 * n - 1 <= Mark' /\ Cut(n) = "late"))
    BY <1>0, <1>6 DEF CountedIsBehind, Before, Cut
  <2>1. CASE HasRow(k, n)
    <3>1. n \in DOMAIN lines /\ Before(n, Mark) /\ Before(n, batch.from) /\ n \in Nat
      BY <1>0, <1>1, <2>1 DEF CountedIsBehind
    <3> QED
      BY <1>1, <1>8, <3>1 DEF Before
  <2>2. CASE n \in Parsed
    <3>1. n \in DOMAIN lines /\ n \in Nat
      BY <1>1, <1>4, <2>2
    <3>2. 2 * n <= batch.to \/ (2 * n - 1 <= batch.to /\ Cut(n) = "late")
      BY <2>2 DEF Parsed, InBatch, Cut
    <3>3. batch.to > batch.from
      BY <1>1, <2>2, <3>1 DEF Parsed, InBatch
    <3> QED
      BY <1>1, <1>8, <3>1, <3>2, <3>3
  <2> QED
    BY <1>6, <2>1, <2>2
<1>13. BehindIsCounted'
  <2> SUFFICES ASSUME NEW n \in DOMAIN lines
               PROVE  /\ 2 * n <= Mark' => HasRow("hour", n)' \/ n \in explained
                      /\ offsetGen' = gen /\ 2 * n - 1 = base + offset' =>
                            \/ n \in explained \/ Cut(n) = "early"
                            \/ Cut(n) = "late" /\ HasRow("hour", n)'
    BY <1>0 DEF BehindIsCounted, Cut
  <2>1. n \in Nat /\ n \in Ids /\ "hour" \in Kinds /\ Cut(n) \in {"early", "middle", "late"}
    <3>1. lines[n].format \in AllFormats
      BY DEF Typed
    <3>2. \A f \in AllFormats : f.cut \in {"early", "middle", "late"}
      BY DEF AllFormats
    <3>3. n \in Nat /\ n \in Ids
      BY <1>1, <1>2
    <3> QED
      BY <3>1, <3>2, <3>3 DEF Kinds, Cut
  <2>2. HasRow("hour", n)' <=> HasRow("hour", n) \/ n \in Parsed
    BY <1>6, <2>1
  <2>3. CASE batch.to > batch.from /\ batchGen = gen /\ Mark' = batch.to
    <3>1. ASSUME 2 * n <= batch.to PROVE HasRow("hour", n)' \/ n \in explained
      <4>1. CASE 2 * n <= Mark
        BY <2>2, <4>1 DEF BehindIsCounted
      <4>2. CASE Mark < 2 * n /\ 2 * n - 1 <= batch.from
        <5>1. CASE n \in explained
          BY <5>1
        <5>2. CASE offsetGen = gen /\ 2 * n - 1 = batch.from
          <6>1. 2 * n - 1 = base + offset
            BY <1>0, <2>3, <5>2 DEF OffsetFits
          <6>2. n \in Parsed \/ Cut(n) # "early"
            BY <1>1, <2>1, <3>1, <5>2 DEF Parsed, InBatch, Cut
          <6> QED
            BY <2>2, <5>2, <6>1, <6>2 DEF BehindIsCounted
        <5> QED
          BY <1>0, <2>3, <4>2, <5>1, <5>2 DEF ReadIsExplained
      <4>3. CASE 2 * n - 1 > batch.from
        BY <1>1, <2>1, <2>2, <3>1, <4>3 DEF Parsed, InBatch
      <4> QED
        BY <1>1, <2>1, <4>1, <4>2, <4>3
    <3>2. ASSUME 2 * n - 1 = batch.to PROVE n \in explained \/ Cut(n) = "early" \/ (Cut(n) = "late" /\ HasRow("hour", n)')
      <4>1. CASE Cut(n) = "middle"
        BY <1>0, <2>3, <3>2, <4>1 DEF ReadIsExplained
      <4>2. CASE Cut(n) = "late"
        BY <1>1, <2>1, <2>2, <2>3, <3>2, <4>2 DEF Parsed, InBatch, Cut
      <4> QED
        BY <2>1, <4>1, <4>2
    <3>3. offsetGen' = gen => base + offset' = batch.to
      BY <1>7, <2>3
    <3> QED
      BY <2>3, <3>1, <3>2, <3>3
  <2>4. CASE batchGen # gen /\ Mark' = base /\ Mark = base
    BY <1>7, <2>2, <2>4 DEF BehindIsCounted
  <2>5. CASE ~(batch.to > batch.from) /\ Mark' = Mark
    BY <1>7, <2>2, <2>5 DEF BehindIsCounted
  <2> QED
    BY <1>8, <2>3, <2>4, <2>5
<1>14. ReadIsExplained'
  BY <1>0 DEF ReadIsExplained
<1> QED
  BY <1>9, <1>10, <1>11, <1>12, <1>13, <1>14

-----------------------------------------------------------------------------
(* The daily jobs, and the theorem *)

LEMMA CleanupKeeps ==
  ASSUME IInv, Cleanup
  PROVE  IInv'
<1> USE DEF IInv
<1>1. \A k \in Kinds, n \in Ids :
        counted'[k][n] \in Seq(Int) /\ Len(counted'[k][n]) = Len(counted[k][n]) /\ (HasRow(k, n)' <=> HasRow(k, n))
  <2> SUFFICES ASSUME NEW k \in Kinds, NEW n \in Ids
               PROVE  /\ counted'[k][n] \in Seq(Int) /\ Len(counted'[k][n]) = Len(counted[k][n])
                      /\ counted'[k][n] = <<>> <=> counted[k][n] = <<>>
    BY DEF HasRow
  <2>1. counted[k][n] \in Seq(Int)
    BY DEF Typed
  <2>2. counted'[k][n] = [i \in DOMAIN counted[k][n] |->
          IF counted[k][n][i] < now - Keep(k) THEN Pruned ELSE counted[k][n][i]]
    BY DEF Cleanup
  <2>3. /\ Len(counted[k][n]) \in Nat /\ DOMAIN counted[k][n] = 1..Len(counted[k][n])
        /\ \A i \in 1..Len(counted[k][n]) : counted[k][n][i] \in Int
    BY <2>1
  <2>4. counted'[k][n] \in [1..Len(counted[k][n]) -> Int]
    BY <2>2, <2>3 DEF Pruned
  <2>5. counted'[k][n] \in Seq(Int) /\ Len(counted'[k][n]) = Len(counted[k][n])
    BY <2>3, <2>4
  <2> QED
    BY <2>1, <2>5
<1>2. UNCHANGED <<now, fileVars, jobVars, offset, offsetGen, explained>>
  BY DEF Cleanup
<1>3. Typed'
  <2>1. counted' \in [Kinds -> [Ids -> Seq(Int)]]
    BY <1>1 DEF Cleanup
  <2> QED
    BY <1>2, <2>1 DEF Typed, fileVars, jobVars
<1>4. FileFits' /\ OffsetFits'
  BY <1>2 DEF FileFits, OffsetFits, fileVars, jobVars
<1>5. Mark' = Mark /\ \A n \in DOMAIN lines : Cut(n)' = Cut(n)
  BY <1>2 DEF Mark, Cut, fileVars
<1>6. CountedIsBehind'
  BY <1>1, <1>2, <1>5 DEF CountedIsBehind, Before, Cut, fileVars, jobVars
<1>7. DOMAIN lines \subseteq Ids /\ "hour" \in Kinds
  BY WholeLines, TrafficConstants DEF Typed, Ids, Kinds
<1>8. \A n \in DOMAIN lines : HasRow("hour", n)' <=> HasRow("hour", n)
  BY <1>1, <1>7
<1>9. BehindIsCounted' /\ ReadIsExplained'
  BY <1>2, <1>5, <1>8 DEF BehindIsCounted, ReadIsExplained, fileVars, jobVars
<1> QED
  BY <1>3, <1>4, <1>6, <1>9

LEMMA NextIInv == IInv /\ [Next]_vars => IInv'
<1> SUFFICES ASSUME IInv, [Next]_vars PROVE IInv'
  OBVIOUS
<1>0. now \in Nat
  BY DEF IInv, Typed
<1>1. CASE Nginx
  BY <1>1, WriteHalfKeeps, WriteRestKeeps, RotateKeeps DEF Nginx
<1>2. CASE Collect
  BY <1>2, StatKeeps, ReadKeeps, CommitKeeps DEF Collect
<1>3. CASE Fail
  BY <1>0, <1>3, ElsewhereKeeps DEF Fail, fileVars
<1>4. CASE Rollup \/ Restart
  BY <1>0, <1>4, ElsewhereKeeps DEF Rollup, Restart, fileVars
<1>5. CASE Cleanup
  BY <1>5, CleanupKeeps
<1>6. CASE Tick
  BY <1>0, <1>6, ElsewhereKeeps DEF Tick, fileVars
<1>7. CASE Sites
  BY <1>0, <1>7, ElsewhereKeeps DEF Sites
<1>8. CASE UNCHANGED vars
  BY <1>0, <1>8, ElsewhereKeeps DEF vars, fileVars
<1> QED
  BY <1>1, <1>2, <1>3, <1>4, <1>5, <1>6, <1>7, <1>8 DEF Next

\* What was read, counted and explained fits the offset in every reachable state.
THEOREM TrafficIInv == Spec => []IInv
<1> QED
  BY InitIInv, NextIInv, PTL DEF Spec

\* No request is twice in the minute rows or in the hour rows, whatever reads,
\* rotations, failures and restarts come between (ProxyTrafficService.
\* collect_proxy: rows and offset are one transaction).
THEOREM NothingIsCountedTwice == Spec => []CountedAtMostOnce
<1>1. IInv => CountedAtMostOnce
  BY DEF IInv, CountedIsBehind, CountedAtMostOnce
<1> QED
  BY TrafficIInv, <1>1, PTL

\* A complete line the stored offset has passed is counted, or rotated away,
\* hidden by an offset of the old file or torn (read_from_offset).
THEOREM EveryLossIsExplained == Spec => []LossIsExplained
<1>1. IInv => LossIsExplained
  <2> SUFFICES ASSUME IInv, NEW n \in DOMAIN lines, n \notin Uncollected
               PROVE  counted["hour"][n] # <<>> \/ n \in explained
    BY DEF LossIsExplained
  <2>1. 2 * n <= Mark
    BY WholeLines DEF IInv, Typed, Uncollected, Mark
  <2> QED
    BY <2>1 DEF IInv, BehindIsCounted, HasRow
<1> QED
  BY TrafficIInv, <1>1, PTL
-----------------------------------------------------------------------------
(* What the rows hold: periods, days, retention *)

\* The other bounds and types TypeOK names, and that no line is dated ahead.
Bounded ==
    /\ TypeOK
    /\ \A n \in DOMAIN lines : lines[n].at <= now
    /\ pc = "commit" => seen <= batch.from

\* A counted line has a row of each kind.  A minute that was deleted is older
\* than the retention, so the hour it belongs to began before that, too.
RowsFit ==
    \A n \in Ids :
        /\ counted["minute"][n] = <<>> <=> counted["hour"][n] = <<>>
        /\ counted["minute"][n] # <<>> =>
              LET m == counted["minute"][n][1] h == counted["hour"][n][1] IN
              /\ m <= now /\ h <= now
              /\ m # Pruned /\ h # Pruned => h = Period("hour", m)
              /\ m = Pruned => h < now - KeepMinutes

\* The daily job is due within a day, and not before the day after the last
\* one it has a row for is over.
DaysFit ==
    /\ now <= nextRollup /\ nextRollup <= now + DayLen
    /\ \A d \in DOMAIN days :
        /\ Len(days[d]) <= 1
        /\ days[d] # <<>> => DayLen * (d + 2) <= nextRollup

RowInv == Bounded /\ RowsFit /\ DaysFit

LEMMA DivBounds ==
  ASSUME NEW a \in Nat, NEW b \in Nat \ {0}
  PROVE  /\ a \div b \in Nat /\ b * (a \div b) \in Nat
         /\ b * (a \div b) <= a /\ a < b * (a \div b) + b
  OBVIOUS

LEMMA Multiples ==
  ASSUME NEW b \in Nat \ {0}, NEW i \in Nat, NEW j \in Nat
  PROVE  /\ b * i \in Nat /\ i * b = b * i /\ b * (i + 1) = b * i + b
         /\ i <= j => b * i <= b * j
  OBVIOUS

LEMMA DivMonotone ==
  ASSUME NEW a \in Nat, NEW c \in Nat, a <= c, NEW b \in Nat \ {0}
  PROVE  a \div b <= c \div b
<1>1. SUFFICES ASSUME c \div b + 1 <= a \div b PROVE FALSE
  BY DivBounds
<1>2. b * (c \div b + 1) <= b * (a \div b)
  BY <1>1, DivBounds, Multiples
<1>3. b * (c \div b + 1) = b * (c \div b) + b
  BY DivBounds, Multiples
<1> QED
  BY <1>2, <1>3, DivBounds

\* The hour of a minute begins no later than it.
LEMMA HourOf ==
  ASSUME NEW t \in Nat, NEW k \in Kinds
  PROVE  Period(k, t) \in Nat /\ Period(k, t) <= t /\ Period("minute", t) = t
  BY DivBounds, TrafficConstants DEF Period

LEMMA SingleRows ==
  ASSUME IInv, NEW k \in Kinds, NEW n \in Ids
  PROVE  /\ counted[k][n] \in Seq(Int)
         /\ counted[k][n] = <<>> => DOMAIN counted[k][n] = {}
         /\ counted[k][n] # <<>> => Len(counted[k][n]) = 1 /\ DOMAIN counted[k][n] = {1}
<1> DEFINE rows == counted[k][n]
<1>1. rows \in Seq(Int) /\ Len(rows) <= 1
  BY DEF IInv, Typed, CountedIsBehind
<1> HIDE DEF rows
<1>2. Len(rows) \in Nat /\ DOMAIN rows = 1..Len(rows) /\ (rows # <<>> => Len(rows) # 0)
  BY <1>1
<1>3. rows # <<>> => Len(rows) = 1
  BY <1>1, <1>2
<1> QED
  BY <1>1, <1>2, <1>3 DEF rows

LEMMA InitRowInv == Init => RowInv
<1> SUFFICES ASSUME Init PROVE RowInv
  OBVIOUS
<1> USE DEF Init
<1>1. MaxMinute \in Nat /\ MaxLines \in Nat /\ MaxRotations \in Nat /\ MaxFailures \in Nat /\ DayLen \in Nat \ {0}
  BY TrafficConstants
<1>2. TypeOK
  BY <1>1 DEF TypeOK
<1>3. Bounded
  BY <1>2 DEF Bounded
<1>4. RowsFit
  BY DEF RowsFit, Kinds
<1>5. DaysFit
  BY <1>1 DEF DaysFit
<1> QED
  BY <1>3, <1>4, <1>5 DEF RowInv

\* What the file does leaves the rows alone.
LEMMA NginxRows ==
  ASSUME IInv, IInv', RowInv, Nginx
  PROVE  RowInv'
<1> USE DEF IInv, RowInv
<1>1. UNCHANGED <<now, listable, jobVars, dbVars, dayVars, failures>>
  BY DEF Nginx, WriteHalf, WriteRest, Rotate
<1>2. RowsFit' /\ DaysFit'
  BY <1>1 DEF RowsFit, DaysFit, dbVars, dayVars, Period
<1>3. /\ lines' \in Seq(Line) /\ gen' \in 0..MaxRotations
      /\ \A n \in DOMAIN lines' : lines'[n].at <= now
  <2>0. /\ lines \in Seq(Line) /\ now \in Nat /\ \A n \in DOMAIN lines : lines[n].at <= now
        /\ gen \in 0..MaxRotations /\ gen \in Nat /\ MaxRotations \in Nat
    <3>1. gen \in 0..MaxRotations
      BY DEF Bounded, TypeOK
    <3> QED
      BY <3>1, TrafficConstants DEF Bounded, Typed
  <2>1. CASE WriteHalf
    <3>1. PICK f \in Formats : lines' = Append(lines, [at |-> now, format |-> f])
      BY <2>1 DEF WriteHalf
    <3> DEFINE l == [at |-> now, format |-> f]
    <3>2. l \in Line /\ l.at = now
      BY <2>0 DEF Line
    <3> HIDE DEF l
    <3>3. /\ lines' \in Seq(Line)
          /\ \A n \in DOMAIN lines' : (n \in DOMAIN lines /\ lines'[n] = lines[n]) \/ lines'[n] = l
      BY <2>0, <3>1, <3>2 DEF l
    <3>4. gen' = gen
      BY <2>1 DEF WriteHalf
    <3>5. \A n \in DOMAIN lines' : lines'[n].at <= now
      BY <2>0, <3>2, <3>3
    <3> QED
      BY <2>0, <3>3, <3>4, <3>5
  <2>2. CASE WriteRest
    BY <2>0, <2>2 DEF WriteRest
  <2>3. CASE Rotate
    BY <2>0, <2>3 DEF Rotate
  <2> QED
    BY <2>1, <2>2, <2>3 DEF Nginx
<1>4. explained' \subseteq Ids
  <2>1. Uncollected \subseteq Ids
    <3>1. Len(lines) \in Nat /\ DOMAIN lines = 1..Len(lines) /\ Len(lines) <= MaxLines /\ MaxLines \in Nat
      BY WholeLines, TrafficConstants DEF Typed
    <3>2. DOMAIN lines \subseteq Ids
      BY <3>1 DEF Ids
    <3> QED
      BY <3>2 DEF Uncollected
  <2> QED
    BY <2>1 DEF Nginx, WriteHalf, WriteRest, Rotate, Bounded, TypeOK
<1>5. TypeOK'
  <2>1. /\ now \in 0..MaxMinute /\ offset \in 0..2 * MaxLines /\ seen \in 0..2 * MaxLines
        /\ counted \in [Kinds -> [Ids -> Seq(Nat \cup {Pruned})]]
        /\ days \in [0..MaxMinute \div DayLen -> Seq(Nat \ {0})] /\ nextRollup \in Nat
        /\ pc \in {"idle", "read", "commit"} /\ batch \in [from : Nat, to : Nat]
        /\ failures \in 0..MaxFailures /\ {offsetGen, batchGen} \subseteq 0..MaxRotations
        /\ listable \in BOOLEAN
    BY DEF Bounded, TypeOK
  <2>2. Len(lines') <= MaxLines /\ base' \in Nat /\ size' \in Nat
        /\ base' + size' \in {2 * Len(lines'), 2 * Len(lines') - 1}
    BY DEF Typed, FileFits
  <2> QED
    BY <1>1, <1>3, <1>4, <2>1, <2>2 DEF TypeOK, jobVars, dbVars, dayVars
<1> QED
  BY <1>1, <1>2, <1>3, <1>5 DEF Bounded, jobVars

\* Outside nginx and logrotate the file's part of TypeOK stays as it is.
LEMMA FileStays ==
  ASSUME Bounded, UNCHANGED fileVars
  PROVE  /\ lines' \in Seq(Line) /\ Len(lines') <= MaxLines /\ base' \in Nat /\ size' \in Nat
         /\ base' + size' \in {2 * Len(lines'), 2 * Len(lines') - 1}
         /\ gen' \in 0..MaxRotations /\ listable' \in BOOLEAN
  BY DEF Bounded, TypeOK, fileVars

\* Nor does it matter to the rows which sites can be parsed.
LEMMA SitesRows ==
  ASSUME RowInv, Sites
  PROVE  RowInv'
<1>1. UNCHANGED <<now, lines, base, size, gen, jobVars, dbVars, dayVars, failures, explained>>
  BY DEF Sites
<1>2. listable' \in BOOLEAN
  BY DEF Sites, RowInv, Bounded, TypeOK
<1>3. Bounded' /\ RowsFit' /\ DaysFit'
  BY <1>1, <1>2 DEF RowInv, Bounded, TypeOK, RowsFit, DaysFit, jobVars, dbVars, dayVars, Period
<1> QED
  BY <1>3 DEF RowInv

LEMMA StatRows ==
  ASSUME IInv, IInv', RowInv, Stat
  PROVE  RowInv'
<1> USE DEF RowInv, Stat
<1>1. TypeOK'
  <2>1. seen' \in 0..2 * MaxLines
    <3>1. offset \in 0..2 * MaxLines
      BY DEF Bounded, TypeOK
    <3> QED
      BY <3>1, TrafficConstants
  <2> QED
    BY <2>1, FileStays DEF Bounded, TypeOK, dbVars, dayVars
<1>2. RowsFit' /\ DaysFit'
  BY DEF RowsFit, DaysFit, dbVars, dayVars, Period
<1> QED
  BY <1>1, <1>2 DEF Bounded, fileVars

LEMMA ReadRows ==
  ASSUME IInv, IInv', RowInv, Read
  PROVE  RowInv'
<1> USE DEF RowInv, Read
<1>1. explained' \subseteq Ids
  <2>1. Len(lines) \in Nat /\ DOMAIN lines = 1..Len(lines) /\ Len(lines) <= MaxLines /\ MaxLines \in Nat
    BY WholeLines, TrafficConstants DEF IInv, Typed
  <2>2. DOMAIN lines \subseteq Ids
    BY <2>1 DEF Ids
  <2> QED
    BY <2>2 DEF SteppedOver, Torn, Bounded, TypeOK
<1>2. batch' \in [from : Nat, to : Nat] /\ seen' <= batch'.from
  BY DEF IInv, Typed
<1>3. batchGen' \in 0..MaxRotations /\ offsetGen' \in 0..MaxRotations
  BY DEF Bounded, TypeOK, dbVars
<1>4. TypeOK'
  BY <1>1, <1>2, <1>3, FileStays DEF Bounded, TypeOK, dbVars, dayVars
<1>5. RowsFit' /\ DaysFit'
  BY DEF RowsFit, DaysFit, dbVars, dayVars, Period
<1> QED
  BY <1>2, <1>4, <1>5 DEF Bounded, fileVars

\* A batch adds a row of each kind for a line that had none, the hour its
\* minute is in.
LEMMA CommitRows ==
  ASSUME IInv, IInv', RowInv, Commit
  PROVE  RowInv'
<1> USE DEF RowInv
<1>0. /\ pc = "commit" /\ UNCHANGED <<now, fileVars, dayVars, failures, explained>> /\ Return
      /\ counted' = Upserted
  BY DEF Commit
<1>1. /\ offset \in Nat /\ offset' \in Nat /\ seen \in Nat /\ base \in Nat /\ size \in Nat /\ MaxLines \in Nat
      /\ batch.from \in Nat /\ batch.to \in Nat /\ now \in Nat /\ MaxRotations \in Nat
      /\ gen \in 0..MaxRotations /\ offsetGen' \in Nat /\ offsetGen' <= gen
  <2>1. gen \in 0..MaxRotations
    BY DEF Bounded, TypeOK
  <2> QED
    BY <1>0, <2>1, TrafficConstants DEF IInv, Typed, OffsetFits, fileVars
<1>2. base + size <= 2 * MaxLines /\ batch.to <= base + size
  <2>1. Len(lines) \in Nat /\ Len(lines) <= MaxLines /\ base + size \in {2 * Len(lines), 2 * Len(lines) - 1}
    BY DEF IInv, Typed, FileFits
  <2>2. base + size <= 2 * MaxLines
    BY <1>1, <2>1
  <2>3. batch.to <= base + size
    BY <1>0, <1>1 DEF IInv, OffsetFits
  <2> QED
    BY <2>2, <2>3
<1>3. offset' \in 0..2 * MaxLines /\ offsetGen' \in 0..MaxRotations
  <2>1. offsetGen' \in 0..MaxRotations
    BY <1>1
  <2>2. seen <= batch.from /\ seen <= 2 * MaxLines
    BY <1>0 DEF Bounded, TypeOK
  <2>3. CASE batch.to > batch.from
    <3>1. offset' = seen + (batch.to - batch.from)
      BY <2>3 DEF Commit
    <3> QED
      BY <1>1, <1>2, <2>1, <2>2, <3>1
  <2>4. CASE ~(batch.to > batch.from)
    <3>1. offset' = seen
      BY <2>4 DEF Commit
    <3> QED
      BY <1>1, <2>1, <2>2, <3>1
  <2> QED
    BY <2>3, <2>4
<1>4. /\ \A n \in Parsed : n \in DOMAIN lines /\ n \in Ids
      /\ \A n \in Parsed : Stamp(n) \in Nat /\ Stamp(n) <= now
  <2>1. Len(lines) \in Nat /\ DOMAIN lines = 1..Len(lines) /\ Len(lines) <= MaxLines
    BY WholeLines DEF IInv, Typed
  <2>2. \A n \in DOMAIN lines : n \in Ids
    BY <1>1, <2>1 DEF Ids
  <2>3. \A n \in DOMAIN lines : lines[n].at \in Nat /\ lines[n].at <= now
    <3>1. \A n \in DOMAIN lines : lines[n] \in Line
      <4>1. lines \in Seq(Line)
        BY DEF IInv, Typed
      <4> QED
        BY <4>1
    <3> QED
      BY <3>1 DEF Line, Bounded
  <2> QED
    BY <1>1, <2>2, <2>3 DEF Parsed, Stamp
\* What is added to a line that has no row yet.
<1>5. ASSUME NEW n \in Parsed, NEW k \in Kinds
      PROVE  /\ counted[k][n] = <<>> /\ counted'[k][n] = <<Period(k, Stamp(n))>>
             /\ Period(k, Stamp(n)) \in Nat
  <2>1. n \in Ids /\ n \in DOMAIN lines /\ n \in Nat
    BY <1>4 DEF Ids
  <2>2. counted[k][n] = <<>>
    <3> SUFFICES ASSUME HasRow(k, n) PROVE FALSE
      BY DEF HasRow
    <3>1. Before(n, batch.from)
      BY <1>0, <2>1 DEF IInv, CountedIsBehind
    <3> QED
      BY <1>1, <2>1, <3>1 DEF Before, Parsed, InBatch, Cut
  <2>3. counted'[k][n] = Append(counted[k][n], Period(k, Stamp(n)))
    BY <1>0, <2>1 DEF Upserted
  <2> QED
    BY <1>4, <2>2, <2>3, HourOf
<1>6. \A n \in Ids \ Parsed, k \in Kinds : counted'[k][n] = counted[k][n]
  BY <1>0 DEF Upserted
<1>7. RowsFit'
  <2> SUFFICES ASSUME NEW n \in Ids
               PROVE  /\ counted'["minute"][n] = <<>> <=> counted'["hour"][n] = <<>>
                      /\ counted'["minute"][n] # <<>> =>
                            LET m == counted'["minute"][n][1] h == counted'["hour"][n][1] IN
                            /\ m <= now /\ h <= now
                            /\ m # Pruned /\ h # Pruned => h = Period("hour", m)
                            /\ m = Pruned => h < now - KeepMinutes
    BY <1>0 DEF RowsFit, Period
  <2>1. "minute" \in Kinds /\ "hour" \in Kinds
    BY DEF Kinds
  <2>2. CASE n \in Parsed
    <3>1. /\ counted'["minute"][n] = <<Stamp(n)>> /\ counted'["hour"][n] = <<Period("hour", Stamp(n))>>
          /\ Period("hour", Stamp(n)) <= Stamp(n) /\ Period("hour", Stamp(n)) \in Nat
      BY <1>4, <1>5, <2>1, <2>2, HourOf
    <3>2. Stamp(n) # Pruned
      BY <1>4, <2>2 DEF Pruned
    <3> QED
      BY <1>1, <1>4, <2>2, <3>1, <3>2
  <2>3. CASE n \notin Parsed
    BY <1>6, <2>1, <2>3 DEF RowsFit
  <2> QED
    BY <2>2, <2>3
<1>8. counted' \in [Kinds -> [Ids -> Seq(Nat \cup {Pruned})]]
  <2>1. \A k \in Kinds, n \in Ids : counted'[k][n] \in Seq(Nat \cup {Pruned})
    <3> SUFFICES ASSUME NEW k \in Kinds, NEW n \in Ids PROVE counted'[k][n] \in Seq(Nat \cup {Pruned})
      OBVIOUS
    <3>1. CASE n \in Parsed
      <4> DEFINE p == Period(k, Stamp(n))
      <4>1. p \in Nat /\ counted'[k][n] = <<p>>
        BY <1>5, <3>1
      <4> HIDE DEF p
      <4>2. p \in Nat \cup {Pruned}
        BY <4>1
      <4> QED
        BY <4>1, <4>2
    <3>2. CASE n \notin Parsed
      BY <1>6, <3>2 DEF Bounded, TypeOK
    <3> QED
      BY <3>1, <3>2
  <2> QED
    BY <1>0, <2>1 DEF Upserted
<1>9. TypeOK'
  <2>1. /\ pc' \in {"idle", "read", "commit"} /\ seen' \in 0..2 * MaxLines
        /\ batch' \in [from : Nat, to : Nat] /\ batchGen' \in 0..MaxRotations
    BY <1>0, <1>1 DEF Return
  <2>2. /\ now' \in 0..MaxMinute /\ days' \in [0..MaxMinute \div DayLen -> Seq(Nat \ {0})]
        /\ nextRollup' \in Nat /\ failures' \in 0..MaxFailures /\ explained' \subseteq Ids
    BY <1>0 DEF Bounded, TypeOK, dayVars
  <2> QED
    BY <1>0, <1>3, <1>8, <2>1, <2>2, FileStays DEF TypeOK
<1>10. DaysFit'
  BY <1>0 DEF DaysFit, dayVars
<1> QED
  BY <1>0, <1>7, <1>9, <1>10 DEF Bounded, fileVars, Return

LEMMA FailRows ==
  ASSUME IInv, IInv', RowInv, Fail
  PROVE  RowInv'
<1> USE DEF RowInv, Fail, Return
<1>1. TypeOK'
  <2>1. failures' \in 0..MaxFailures
    <3>1. failures \in 0..MaxFailures /\ failures' = failures + 1 /\ failures < MaxFailures
      BY DEF Bounded, TypeOK
    <3> QED
      BY <3>1, TrafficConstants
  <2>2. /\ seen' \in 0..2 * MaxLines /\ batch' \in [from : Nat, to : Nat]
        /\ batchGen' \in 0..MaxRotations /\ pc' \in {"idle", "read", "commit"}
    BY TrafficConstants
  <2> QED
    BY <2>1, <2>2, FileStays DEF Bounded, TypeOK, dbVars, dayVars
<1>2. RowsFit' /\ DaysFit'
  BY DEF RowsFit, DaysFit, dbVars, dayVars, Period
<1> QED
  BY <1>1, <1>2 DEF Bounded, fileVars

\* A line has at most one entry in the rows of a kind.
LEMMA EntriesAre ==
  ASSUME IInv, NEW k \in Kinds, NEW from, NEW to
  PROVE  /\ \A e : e \in Entries(k, from, to) <=>
                     \E n \in Ids : /\ e = <<n, 1>> /\ counted[k][n] # <<>>
                                    /\ counted[k][n][1] # Pruned
                                    /\ from <= counted[k][n][1] /\ counted[k][n][1] < to
         /\ IsFiniteSet(Entries(k, from, to)) /\ Cardinality(Entries(k, from, to)) \in Nat
<1> DEFINE Held(n) == {i \in DOMAIN counted[k][n] :
                          LET t == counted[k][n][i] IN t # Pruned /\ from <= t /\ t < to}
<1>1. \A n \in Ids : Held(n) = IF /\ counted[k][n] # <<>> /\ counted[k][n][1] # Pruned
                                  /\ from <= counted[k][n][1] /\ counted[k][n][1] < to
                               THEN {1} ELSE {}
  BY SingleRows
<1>2. Entries(k, from, to) = UNION {{n} \X Held(n) : n \in Ids}
  BY DEF Entries
<1> HIDE DEF Held
<1>3. \A e : e \in Entries(k, from, to) <=> \E n \in Ids : e \in {n} \X Held(n)
  BY <1>2
<1>4. \A e : e \in Entries(k, from, to) <=>
               \E n \in Ids : /\ e = <<n, 1>> /\ counted[k][n] # <<>>
                              /\ counted[k][n][1] # Pruned
                              /\ from <= counted[k][n][1] /\ counted[k][n][1] < to
  BY <1>1, <1>3
<1>5. IsFiniteSet(Ids \X {1})
  <2>1. IsFiniteSet(1..MaxLines)
    BY FS_Interval, TrafficConstants
  <2> QED
    BY <2>1, FS_Singleton, FS_Product DEF Ids
<1>6. Entries(k, from, to) \in SUBSET (Ids \X {1})
  BY <1>4
<1> QED
  BY <1>4, <1>5, <1>6, FS_Subset, FS_CardinalityType

LEMMA RollupRows ==
  ASSUME IInv, IInv', RowInv, Rollup
  PROVE  RowInv'
<1> USE DEF RowInv
<1>0. /\ now = nextRollup /\ days' = Rolled /\ nextRollup' = now + DayLen
      /\ UNCHANGED <<now, fileVars, jobVars, dbVars, failures, explained>>
  BY DEF Rollup
<1>1. now \in Nat /\ now <= MaxMinute /\ MaxMinute \in Nat /\ DayLen \in Nat \ {0}
  BY TrafficConstants DEF Bounded, TypeOK
<1> DEFINE today == now \div DayLen
           due   == HourRequests(today - 1)
<1>2. /\ today \in Nat /\ today <= MaxMinute \div DayLen /\ MaxMinute \div DayLen \in Nat
      /\ DayLen * today <= now /\ now < DayLen * today + DayLen /\ DayLen * today \in Nat
  BY <1>1, DivBounds, DivMonotone
<1>3. due \in Nat
  BY EntriesAre DEF HourRequests, Kinds
<1>4. Rolled = IF today - 1 >= 0 /\ due > 0 THEN [days EXCEPT ![today - 1] = Append(@, due)] ELSE days
  BY DEF Rolled
<1>5. days \in [0..MaxMinute \div DayLen -> Seq(Nat \ {0})]
  BY DEF Bounded, TypeOK
<1> HIDE DEF today, due
\* Yesterday has no row yet: with one, the job would be due a day later.
<1>6. today - 1 >= 0 => today - 1 \in DOMAIN days /\ days[today - 1] = <<>>
  <2> SUFFICES ASSUME today - 1 >= 0 PROVE today - 1 \in DOMAIN days /\ days[today - 1] = <<>>
    OBVIOUS
  <2>1. today - 1 \in DOMAIN days
    BY <1>2, <1>5
  <2>2. days[today - 1] # <<>> => DayLen * ((today - 1) + 2) <= now
    BY <1>0, <2>1 DEF DaysFit
  <2>3. DayLen * ((today - 1) + 2) = DayLen * today + DayLen
    <3>1. (today - 1) + 2 = today + 1
      BY <1>2
    <3> QED
      BY <1>1, <1>2, <3>1, Multiples
  <2> QED
    BY <1>1, <1>2, <2>1, <2>2, <2>3
<1>7. /\ days' \in [0..MaxMinute \div DayLen -> Seq(Nat \ {0})]
      /\ \A d \in DOMAIN days : d # today - 1 => days'[d] = days[d]
      /\ today - 1 >= 0 => days'[today - 1] = <<>> \/ days'[today - 1] = <<due>>
  <2>1. CASE today - 1 >= 0 /\ due > 0
    <3>1. days' = [days EXCEPT ![today - 1] = <<due>>]
      <4>1. days' = [days EXCEPT ![today - 1] = Append(days[today - 1], due)]
        BY <1>0, <1>4, <2>1
      <4>2. Append(days[today - 1], due) = <<due>>
        <5>1. days[today - 1] = <<>>
          BY <1>6, <2>1
        <5> QED
          BY <1>3, <5>1
      <4> QED
        BY <4>1, <4>2
    <3>2. <<due>> \in Seq(Nat \ {0})
      BY <1>3, <2>1
    <3> QED
      BY <1>5, <1>6, <2>1, <3>1, <3>2
  <2>2. CASE ~(today - 1 >= 0 /\ due > 0)
    BY <1>0, <1>4, <1>5, <1>6, <2>2
  <2> QED
    BY <2>1, <2>2
<1>8. DaysFit'
  <2>1. now' <= nextRollup' /\ nextRollup' <= now' + DayLen
    BY <1>0, <1>1
  <2>2. ASSUME NEW d \in DOMAIN days
        PROVE  Len(days'[d]) <= 1 /\ (days'[d] # <<>> => DayLen * (d + 2) <= now + DayLen)
    <3>1. CASE d = today - 1
      <4>1. DayLen * (d + 2) = DayLen * today + DayLen
        <5>1. d + 2 = today + 1
          BY <1>2, <3>1
        <5> QED
          BY <1>1, <1>2, <5>1, Multiples
      <4>2. today - 1 >= 0
        BY <1>5, <3>1
      <4>3. Len(days'[d]) <= 1
        <5>1. CASE days'[d] = <<>>
          BY <5>1
        <5>2. CASE days'[d] = <<due>>
          BY <1>3, <5>2
        <5> QED
          BY <1>7, <3>1, <4>2, <5>1, <5>2
      <4>4. DayLen * (d + 2) <= now + DayLen
        BY <1>1, <1>2, <4>1
      <4> QED
        BY <4>3, <4>4
    <3>2. CASE d # today - 1
      <4>1. DayLen * (d + 2) \in Nat
        BY <1>1, <1>5, Multiples
      <4> QED
        BY <1>0, <1>1, <1>7, <3>2, <4>1 DEF DaysFit
    <3> QED
      BY <3>1, <3>2
  <2> QED
    BY <1>0, <1>5, <1>7, <2>1, <2>2 DEF DaysFit
<1>9. TypeOK'
  <2>1. nextRollup' \in Nat
    BY <1>0, <1>1
  <2> QED
    BY <1>0, <1>7, <2>1, FileStays DEF Bounded, TypeOK, jobVars, dbVars
<1>10. RowsFit'
  BY <1>0 DEF RowsFit, dbVars, Period
<1> QED
  BY <1>0, <1>8, <1>9, <1>10 DEF Bounded, fileVars, jobVars

\* The clock and a restart: the daily job is due later than it was.
LEMMA ClockRows ==
  ASSUME IInv, IInv', RowInv, Restart \/ Tick
  PROVE  RowInv'
<1> USE DEF RowInv
<1>1. /\ UNCHANGED <<fileVars, jobVars, dbVars, days, explained>>
      /\ now' \in 0..MaxMinute /\ now <= now' /\ failures' \in 0..MaxFailures
      /\ nextRollup' \in Nat /\ now' <= nextRollup' /\ nextRollup' <= now' + DayLen /\ nextRollup <= nextRollup'
  <2>1. /\ now \in 0..MaxMinute /\ failures \in 0..MaxFailures /\ nextRollup \in Nat
        /\ now <= nextRollup /\ nextRollup <= now + DayLen
    BY DEF Bounded, TypeOK, DaysFit
  <2>2. CASE Restart
    BY <2>1, <2>2, TrafficConstants DEF Restart
  <2>3. CASE Tick
    BY <2>1, <2>3, TrafficConstants DEF Tick
  <2> QED
    BY <2>2, <2>3
<1>2. TypeOK'
  BY <1>1, FileStays DEF Bounded, TypeOK, jobVars, dbVars
<1>3. now \in Nat /\ now' \in Nat
  BY <1>1 DEF IInv, Typed
<1>4. \A n \in DOMAIN lines : lines[n].at <= now'
  <2>1. \A n \in DOMAIN lines : lines[n] \in Line
    <3>1. lines \in Seq(Line)
      BY DEF IInv, Typed
    <3> QED
      BY <3>1
  <2> QED
    BY <1>1, <1>3, <2>1 DEF Bounded, Line
<1>5. RowsFit'
  <2> SUFFICES ASSUME NEW n \in Ids, counted["minute"][n] # <<>>, counted["hour"][n] # <<>>
               PROVE  LET m == counted["minute"][n][1] h == counted["hour"][n][1] IN
                      /\ m <= now' /\ h <= now'
                      /\ m = Pruned => h < now' - KeepMinutes
    BY <1>1 DEF RowsFit, dbVars, Period
  <2>1. counted["minute"][n][1] \in Int /\ counted["hour"][n][1] \in Int /\ KeepMinutes \in Nat
    BY SingleRows, TrafficConstants DEF Kinds
  <2> QED
    BY <1>1, <1>3, <2>1 DEF RowsFit
<1>6. DaysFit'
  <2> SUFFICES ASSUME NEW d \in DOMAIN days, days[d] # <<>> PROVE DayLen * (d + 2) <= nextRollup'
    BY <1>1 DEF DaysFit
  <2>1. d + 2 \in Nat /\ DayLen * (d + 2) <= nextRollup /\ nextRollup \in Nat
    BY DivBounds, TrafficConstants DEF Bounded, TypeOK, DaysFit
  <2>2. DayLen * (d + 2) \in Nat
    BY <2>1, Multiples, TrafficConstants
  <2> QED
    BY <1>1, <2>1, <2>2
<1> QED
  BY <1>1, <1>2, <1>4, <1>5, <1>6 DEF Bounded, fileVars, jobVars

LEMMA CleanupRows ==
  ASSUME IInv, IInv', RowInv, Cleanup
  PROVE  RowInv'
<1> USE DEF RowInv
<1>0. UNCHANGED <<now, fileVars, jobVars, offset, offsetGen, dayVars, failures, explained>>
  BY DEF Cleanup
<1>1. \A k \in Kinds, n \in Ids :
        /\ counted'[k][n] = [i \in DOMAIN counted[k][n] |->
             IF counted[k][n][i] < now - Keep(k) THEN Pruned ELSE counted[k][n][i]]
        /\ counted'[k][n] \in Seq(Nat \cup {Pruned})
        /\ counted'[k][n] = <<>> <=> counted[k][n] = <<>>
  <2> SUFFICES ASSUME NEW k \in Kinds, NEW n \in Ids
               PROVE  /\ counted'[k][n] = [i \in DOMAIN counted[k][n] |->
                           IF counted[k][n][i] < now - Keep(k) THEN Pruned ELSE counted[k][n][i]]
                      /\ counted'[k][n] \in Seq(Nat \cup {Pruned})
                      /\ counted'[k][n] = <<>> <=> counted[k][n] = <<>>
    OBVIOUS
  <2>1. counted'[k][n] = [i \in DOMAIN counted[k][n] |->
          IF counted[k][n][i] < now - Keep(k) THEN Pruned ELSE counted[k][n][i]]
    BY DEF Cleanup
  <2>2. counted[k][n] \in Seq(Nat \cup {Pruned})
    BY DEF Bounded, TypeOK
  <2> DEFINE rows == counted[k][n]
             bar  == now - Keep(k)
  <2>3. /\ Len(rows) \in Nat /\ DOMAIN rows = 1..Len(rows)
        /\ \A i \in 1..Len(rows) : rows[i] \in Nat \cup {Pruned}
    BY <2>2
  <2> HIDE DEF rows, bar
  <2>4. counted'[k][n] \in [1..Len(rows) -> Nat \cup {Pruned}]
    BY <2>1, <2>3 DEF rows, bar
  <2>5. counted'[k][n] \in Seq(Nat \cup {Pruned}) /\ Len(counted'[k][n]) = Len(rows)
    BY <2>3, <2>4
  <2>6. rows \in Seq(Nat \cup {Pruned})
    BY <2>2 DEF rows
  <2> QED
    BY <2>1, <2>5, <2>6 DEF rows
<1>2. TypeOK'
  <2>1. counted' \in [Kinds -> [Ids -> Seq(Nat \cup {Pruned})]]
    BY <1>1 DEF Cleanup
  <2> QED
    BY <1>0, <2>1, FileStays DEF Bounded, TypeOK, jobVars, dayVars
<1>3. RowsFit'
  <2> SUFFICES ASSUME NEW n \in Ids, counted["minute"][n] # <<>>, counted["hour"][n] # <<>>
               PROVE  LET m == counted'["minute"][n][1] h == counted'["hour"][n][1] IN
                      /\ m <= now /\ h <= now
                      /\ m # Pruned /\ h # Pruned => h = Period("hour", m)
                      /\ m = Pruned => h < now - KeepMinutes
    BY <1>0, <1>1 DEF RowsFit, Period, Kinds
  <2> DEFINE m == counted["minute"][n][1]
             h == counted["hour"][n][1]
             m2 == counted'["minute"][n][1]
             h2 == counted'["hour"][n][1]
  <2>1. /\ m2 = IF m < now - KeepMinutes THEN Pruned ELSE m
        /\ h2 = IF h < now - KeepHours THEN Pruned ELSE h
    <3>1. 1 \in DOMAIN counted["minute"][n] /\ 1 \in DOMAIN counted["hour"][n]
      BY SingleRows DEF Kinds
    <3>2. /\ counted'["minute"][n] = [i \in DOMAIN counted["minute"][n] |->
               IF counted["minute"][n][i] < now - Keep("minute") THEN Pruned ELSE counted["minute"][n][i]]
          /\ counted'["hour"][n] = [i \in DOMAIN counted["hour"][n] |->
               IF counted["hour"][n][i] < now - Keep("hour") THEN Pruned ELSE counted["hour"][n][i]]
      BY <1>1 DEF Kinds
    <3>3. Keep("minute") = KeepMinutes /\ Keep("hour") = KeepHours
      BY DEF Keep
    <3> QED
      BY <3>1, <3>2, <3>3
  <2>2. m \in Nat \cup {Pruned} /\ h \in Nat \cup {Pruned} /\ m \in Int /\ h \in Int /\ now \in Nat
    <3>1. counted["minute"][n] \in Seq(Nat \cup {Pruned}) /\ counted["hour"][n] \in Seq(Nat \cup {Pruned})
      BY DEF Bounded, TypeOK, Kinds
    <3>2. DOMAIN counted["minute"][n] = {1} /\ DOMAIN counted["hour"][n] = {1}
      BY SingleRows DEF Kinds
    <3>3. m \in Nat \cup {Pruned} /\ h \in Nat \cup {Pruned}
      BY <3>1, <3>2
    <3>4. now \in Nat
      BY DEF IInv, Typed
    <3> HIDE DEF m, h
    <3> QED
      BY <3>3, <3>4 DEF Pruned
  <2>3. /\ m <= now /\ h <= now
        /\ m # Pruned /\ h # Pruned => h = Period("hour", m)
        /\ m = Pruned => h < now - KeepMinutes
    BY DEF RowsFit
  <2>4. m \in Nat => Period("hour", m) <= m /\ Period("hour", m) \in Nat
    BY HourOf DEF Kinds
  <2>5. KeepMinutes \in Nat /\ KeepHours \in Nat
    BY TrafficConstants
  <2> HIDE DEF m, h, m2, h2
  <2>6. /\ m2 <= now /\ h2 <= now
        /\ m2 # Pruned /\ h2 # Pruned => h2 = Period("hour", m2)
    BY <2>1, <2>2, <2>3, <2>5 DEF Pruned
  <2>7. ASSUME m2 = Pruned PROVE h2 < now - KeepMinutes
    <3>1. CASE m = Pruned
      BY <2>1, <2>2, <2>3, <2>5, <3>1 DEF Pruned
    <3>2. CASE m # Pruned
      <4>1. m \in Nat /\ m < now - KeepMinutes
        BY <2>1, <2>2, <2>7, <3>2
      <4>2. h = Pruned \/ h <= m
        BY <2>3, <2>4, <3>2, <4>1
      <4> QED
        BY <2>1, <2>2, <2>5, <4>1, <4>2 DEF Pruned
    <3> QED
      BY <3>1, <3>2
  <2> QED
    BY <2>6, <2>7 DEF m2, h2
<1>4. DaysFit'
  BY <1>0 DEF DaysFit, dayVars
<1> QED
  BY <1>0, <1>2, <1>3, <1>4 DEF Bounded, fileVars, jobVars

LEMMA NextRowInv == IInv /\ IInv' /\ RowInv /\ [Next]_vars => RowInv'
<1> SUFFICES ASSUME IInv, IInv', RowInv, [Next]_vars PROVE RowInv'
  OBVIOUS
<1>1. CASE UNCHANGED vars
  BY <1>1 DEF vars, fileVars, jobVars, dbVars, dayVars, RowInv, Bounded, TypeOK, RowsFit, DaysFit, Period
<1> QED
  BY <1>1, NginxRows, SitesRows, StatRows, ReadRows, CommitRows, FailRows, RollupRows, ClockRows, CleanupRows
     DEF Next, Collect

\* Which lines the rows hold, which rows the daily jobs have written and deleted.
THEOREM TrafficRowInv == Spec => []RowInv
<1> QED
  BY TrafficIInv, InitRowInv, NextRowInv, PTL DEF Spec

\* Type correctness of the counters: offsets and reads never leave what was
\* written, day rows are of days that are over.
THEOREM TrafficTypeOK == Spec => []TypeOK
<1>1. RowInv => TypeOK
  BY DEF RowInv, Bounded
<1> QED
  BY TrafficRowInv, <1>1, PTL

\* The minutes of an hour add up to the hour (_upsert_aggregate writes both
\* rows of a line, cleanup deletes them by their own age), and a day gets one
\* row at most, restarts of the daily job included (rollup_daily).
THEOREM PeriodsAlwaysAddUp == Spec => []PeriodsAddUp
<1>1. IInv /\ RowInv => PeriodsAddUp
  <2> SUFFICES ASSUME IInv, RowInv PROVE PeriodsAddUp
    OBVIOUS
  <2>1. \A n \in Ids : DOMAIN counted["minute"][n] \subseteq {1}
    BY SingleRows DEF Kinds
  <2>2. \A n \in Ids : counted["minute"][n] = <<>> => DOMAIN counted["minute"][n] = {}
    BY SingleRows DEF Kinds
  <2> QED
    BY <2>1, <2>2 DEF RowInv, RowsFit, DaysFit, PeriodsAddUp
<1> QED
  BY TrafficIInv, TrafficRowInv, <1>1, PTL

\* A rule that sums rows of all kinds (_metric_value) counts a request at most
\* twice: a day with a row is over for a day, and an hour row in the window has
\* its minute row in the window, which the retention has not reached.
THEOREM RulesNeverCountThrice == Spec => []RulesCountTwiceAtMost
<1>1. IInv /\ RowInv => RulesCountTwiceAtMost
  <2> SUFFICES ASSUME IInv, RowInv, Window < DayLen, Window <= KeepMinutes
               PROVE  RuleRequests <= 2 * Cardinality(Entries("minute", now - Window, now + 1))
    BY DEF RulesCountTwiceAtMost
  <2> DEFINE hours   == Entries("hour", now - Window, now + 1)
             minutes == Entries("minute", now - Window, now + 1)
             dayRows == UNION {UNION {{<<d, i>>} \X (1..days[d][i]) : i \in DOMAIN days[d]} : d \in DaysInWindow}
  <2>0. /\ Window \in Nat /\ KeepMinutes \in Nat /\ DayLen \in Nat \ {0} /\ now \in Nat
        /\ "hour" \in Kinds /\ "minute" \in Kinds
    BY TrafficConstants DEF IInv, Typed, Kinds
  <2>1. \A d \in DaysInWindow : days[d] = <<>>
    <3> SUFFICES ASSUME NEW d \in DOMAIN days, d * DayLen >= now - Window, days[d] # <<>> PROVE FALSE
      BY DEF DaysInWindow
    <3>1. /\ DayLen * (d + 2) <= nextRollup /\ nextRollup <= now + DayLen /\ nextRollup \in Nat /\ d \in Nat
      BY DivBounds, TrafficConstants DEF RowInv, DaysFit, Bounded, TypeOK
    <3>2. DayLen * (d + 2) = DayLen * d + DayLen + DayLen /\ d * DayLen = DayLen * d /\ DayLen * d \in Nat
      <4>1. DayLen * (d + 1) = DayLen * d + DayLen /\ d * DayLen = DayLen * d /\ DayLen * d \in Nat
        BY <2>0, <3>1, Multiples
      <4>2. DayLen * ((d + 1) + 1) = DayLen * (d + 1) + DayLen /\ (d + 1) + 1 = d + 2
        BY <2>0, <3>1, Multiples
      <4> QED
        BY <4>1, <4>2
    <3> QED
      BY <2>0, <3>1, <3>2
  <2>2. dayRows = {}
    BY <2>1
  <2>3. hours \in SUBSET minutes
    <3> SUFFICES ASSUME NEW n \in Ids, counted["hour"][n] # <<>>, counted["hour"][n][1] # Pruned,
                        now - Window <= counted["hour"][n][1], counted["hour"][n][1] < now + 1
                 PROVE  /\ counted["minute"][n] # <<>> /\ counted["minute"][n][1] # Pruned
                        /\ now - Window <= counted["minute"][n][1] /\ counted["minute"][n][1] < now + 1
      BY <2>0, EntriesAre
    <3>1. counted["minute"][n] # <<>>
      BY DEF RowInv, RowsFit
    <3> DEFINE m == counted["minute"][n][1]
               h == counted["hour"][n][1]
    <3>2. m \in Nat \cup {Pruned} /\ h \in Nat \cup {Pruned}
      <4>1. counted["minute"][n] \in Seq(Nat \cup {Pruned}) /\ counted["hour"][n] \in Seq(Nat \cup {Pruned})
        BY DEF RowInv, Bounded, TypeOK, Kinds
      <4>2. DOMAIN counted["minute"][n] = {1} /\ DOMAIN counted["hour"][n] = {1}
        BY <3>1, SingleRows DEF Kinds
      <4> QED
        BY <4>1, <4>2
    <3>3. /\ m <= now /\ h <= now
          /\ m # Pruned /\ h # Pruned => h = Period("hour", m)
          /\ m = Pruned => h < now - KeepMinutes
      BY <3>1 DEF RowInv, RowsFit
    <3>4. m \in Nat => Period("hour", m) <= m
      BY <2>0, HourOf
    <3>5. h # Pruned /\ now - Window <= h
      OBVIOUS
    <3> HIDE DEF m, h
    <3>6. m # Pruned
      BY <2>0, <3>2, <3>3, <3>5
    <3>7. m \in Nat /\ h \in Nat /\ h <= m
      BY <3>2, <3>3, <3>4, <3>5, <3>6
    <3>8. now - Window <= m /\ m < now + 1
      BY <2>0, <3>3, <3>5, <3>7
    <3> QED
      BY <3>1, <3>6, <3>8 DEF m
  <2>4. /\ IsFiniteSet(minutes) /\ Cardinality(minutes) \in Nat
        /\ Cardinality(hours) \in Nat /\ Cardinality(hours) <= Cardinality(minutes)
    <3>1. IsFiniteSet(minutes) /\ Cardinality(minutes) \in Nat /\ Cardinality(hours) \in Nat
      BY <2>0, EntriesAre
    <3> QED
      BY <2>3, <3>1, FS_Subset
  <2>5. RuleRequests = Cardinality(hours) + Cardinality(minutes) + Cardinality(dayRows)
    BY DEF RuleRequests
  <2>6. Cardinality(dayRows) = 0
    BY <2>2, FS_EmptySet
  <2> HIDE DEF hours, minutes, dayRows
  <2>7. RuleRequests <= 2 * Cardinality(minutes)
    BY <2>4, <2>5, <2>6
  <2> QED
    BY <2>7 DEF minutes
<1> QED
  BY TrafficIInv, TrafficRowInv, <1>1, PTL
=============================================================================
