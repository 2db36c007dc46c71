----------------------------- MODULE Intervals -----------------------------
(***************************************************************************)
(* Differences between times, and intervals of time: diff and hasSame of   *)
(* luxon's DateTime, and its Interval (src/ui/js/bundle.js).               *)
(*                                                                         *)
(* An interval holds its start and is open at its end.  Arrays are         *)
(* sequences, null is Null.                                                *)
(***************************************************************************)
EXTENDS Durations, TLC

LOCAL INSTANCE SequencesExt

-----------------------------------------------------------------------------
(* Differences.                                                            *)

\* Days of the calendar, whatever the time of day and the offset.
dayDiff(a, b) == DateUTC(b.c.year, b.c.month, b.c.day) - DateUTC(a.c.year, a.c.month, a.c.day)

quarter(dt) == (dt.c.month + 2) \div 3

\* A first estimate of the whole units from a to b.  That of the quarters does
\* not count the years.
differ(unit, a, b) ==
    CASE unit = "years"    -> b.c.year - a.c.year
      [] unit = "quarters" -> quarter(b) - quarter(a)
      [] unit = "months"   -> b.c.month - a.c.month + (b.c.year - a.c.year) * 12
      [] unit = "weeks"    -> trunc(dayDiff(a, b), 7)
      [] unit = "days"     -> dayDiff(a, b)

highOrder == <<"years", "quarters", "months", "weeks", "days">>

Times1(unit, n) == [u \in {unit} |-> n]

\* Mutated: an estimate that is too high stays.
stepBy_High(st, unit, later, delta, high) ==
    [cursor |-> IF high.ts > later.ts THEN plus(st.cursor, Times1(unit, delta - 1)) ELSE high,
     results |-> Extends(st.results, Times1(unit, delta)), highWater |-> high, lowest |-> unit]

\* The cursor moves by as many as fit, one less than the estimate if that goes
\* past the later time.
stepBy(st, unit, later, delta, high) ==
    LET d == IF high.ts > later.ts THEN delta - 1 ELSE delta
    IN  [cursor |-> plus(st.cursor, Times1(unit, d)),
         results |-> Extends(st.results, Times1(unit, d)), highWater |-> high, lowest |-> unit]

\* One unit, with the estimate of it.
step(st, unit, later) ==
    LET delta == differ(unit, st.cursor, later)
    IN  stepBy(st, unit, later, delta, plus(st.cursor, Times1(unit, delta)))

highOrderDiffs(earlier, later, units) ==
    FoldLeft(LAMBDA st, unit : step(st, unit, later),
             [cursor |-> earlier, results |-> <<>>, highWater |-> earlier, lowest |-> "none"],
             SelectSeq(highOrder, LAMBDA u : u \in units))

\* What is left of the time: in the low-order units, or when there is none of them
\* as the fraction rest/span that the smallest of the high-order units has besides.
remainder(st, later, lower) ==
    LET rest == later.ts - st.cursor.ts
        high == IF st.highWater.ts < later.ts THEN plus(st.cursor, One(st.lowest)) ELSE st.highWater
    IN  IF lower # {}
          THEN [values |-> durationPlus(shiftTo([seconds |-> rest], lower), st.results),
                rest |-> 0, span |-> 1]
          ELSE [values |-> st.results, rest |-> rest, span |-> high.ts - st.cursor.ts]

_diff(earlier, later, units) ==
    remainder(highOrderDiffs(earlier, later, units), later, units \cap {"hours", "minutes", "seconds"})

\* diffed.negate().
opposite(diffed) == [diffed EXCEPT !.values = negate(@), !.rest = -@]

signed(otherIsLater, diffed) == IF otherIsLater THEN opposite(diffed) ELSE diffed

\* Of two valid times.  The later one minus the earlier, negated if need be.
diff(dt, other, units) ==
    LET otherIsLater == other.ts > dt.ts
    IN  signed(otherIsLater, _diff(IF otherIsLater THEN dt ELSE other,
                                   IF otherIsLater THEN other ELSE dt, units))

\* setZone with keepLocalTime.
keepLocalTime(dt, zone) ==
    DateTime(objToTS(dt.c, zoneOffset(zone, dt.ts), zone)[1], zone)

\* The local times lie in the same unit, whatever the zones.
inUnitOf(ts, adjusted, unit) == startOf(adjusted, unit).ts <= ts /\ ts <= endOf(adjusted, unit).ts

hasSame(dt, other, unit) == inUnitOf(other.ts, keepLocalTime(dt, other.zone), unit)

dtEquals(a, b) == a.ts = b.ts /\ a.zone = b.zone

-----------------------------------------------------------------------------
(* Intervals.                                                              *)

InvalidInterval == [isValid |-> FALSE]
Null == [isNull |-> TRUE]

validateStartEnd(s, e) == s.isValid /\ e.isValid /\ s.ts <= e.ts

fromDateTimes(s, e) ==
    IF validateStartEnd(s, e) THEN [isValid |-> TRUE, s |-> s, e |-> e] ELSE InvalidInterval

until(dt, other) == fromDateTimes(dt, other)
after(dt, dur) == fromDateTimes(dt, plus(dt, dur))
before(dt, dur) == fromDateTimes(minus(dt, dur), dt)

isEmpty(i) == i.s.ts = i.e.ts
isAfter(i, dt) == i.s.ts > dt.ts
isBefore(i, dt) == i.e.ts <= dt.ts
contains(i, dt) == i.s.ts <= dt.ts /\ i.e.ts > dt.ts
overlaps(i, j) == i.e.ts > j.s.ts /\ i.s.ts < j.e.ts
abutsStart(i, j) == i.e.ts = j.s.ts
abutsEnd(i, j) == j.e.ts = i.s.ts
engulfs(i, j) == i.s.ts <= j.s.ts /\ i.e.ts >= j.e.ts
intervalEquals(i, j) == dtEquals(i.s, j.s) /\ dtEquals(i.e, j.e)

\* The number of units the interval touches.
count(i, unit) == diff(startOf(i.e, unit), startOf(i.s, unit), {unit}).values[unit] + 1

intervalHasSame(i, unit) == isEmpty(i) \/ hasSame(minus(i.e, One("seconds")), i.s, unit)

Later(a, b) == IF a.ts > b.ts THEN a ELSE b
Earlier(a, b) == IF a.ts < b.ts THEN a ELSE b

intersection(i, j) ==
    LET s == Later(i.s, j.s)
        e == Earlier(i.e, j.e)
    IN  IF s.ts >= e.ts THEN Null ELSE fromDateTimes(s, e)

union(i, j) == fromDateTimes(Earlier(i.s, j.s), Later(i.e, j.e))

\* The order of the texts: the local times, then the offsets as they are
\* written, "+" before "-" before "Z".
textBefore(a, b) ==
    LET read(t) == objToLocalTS(t.c)
        written(t) == IF t.zone.type = "fixed" /\ t.o = 0 THEN 4000
                      ELSE IF t.o < 0 THEN 2000 - t.o ELSE t.o
    IN  read(a) < read(b) \/ (read(a) = read(b) /\ written(a) < written(b))

\* Cut at the times it contains, which sort() orders as texts.
splitAt(i, dts) ==
    LET sorted == SortSeq(SelectSeq(dts, LAMBDA t : contains(i, t)), textBefore)
        cuts   == <<i.s>> \o sorted \o <<i.e>>
    IN  IF isEmpty(i) THEN <<>>
        ELSE [k \in 1..(Len(cuts) - 1) |-> fromDateTimes(cuts[k], cuts[k + 1])]

\* Mutated: each piece is measured from the end of the one before.
cut_FromLast(i, dur, k) ==
    LET c[n \in 0..k] == IF n = 0 THEN i.s ELSE plus(c[n - 1], dur)
    IN  c[k]

\* The k-th cut is measured from the start.
cut(i, dur, k) == plus(i.s, mapUnits(dur, k))

\* Pieces of the length dur, which is positive, and what is left over, in at
\* most maxPieces pieces.
splitBy(i, dur, maxPieces) ==
    LET n == CHOOSE n \in 1..maxPieces : /\ cut(i, dur, n).ts >= i.e.ts
                                         /\ \A k \in 1..(n - 1) : cut(i, dur, k).ts < i.e.ts
        next(k) == IF k = 0 THEN i.s ELSE Earlier(i.e, cut(i, dur, k))
    IN  IF isEmpty(i) THEN <<>>
        ELSE [k \in 1..n |-> fromDateTimes(next(k - 1), next(k))]

\* The current interval grows, or is done with.
mergeStep(st, item) ==
    IF st.current = Null THEN [st EXCEPT !.current = item]
    ELSE IF overlaps(st.current, item) \/ abutsStart(st.current, item)
      THEN [st EXCEPT !.current = union(@, item)]
    ELSE [sofar |-> Append(st.sofar, st.current), current |-> item]

merge(intervals) ==
    LET sorted == SortSeq(intervals, LAMBDA a, b : a.s.ts < b.s.ts)
        st     == FoldLeft(mergeStep, [sofar |-> <<>>, current |-> Null], sorted)
    IN  IF st.current = Null THEN st.sofar ELSE Append(st.sofar, st.current)

\* One end of an interval: a span begins when one is open.
xorStep(st, i) ==
    LET n == st.count + (IF i.type = "s" THEN 1 ELSE -1)
    IN  [count |-> n,
         start |-> IF n = 1 THEN i.time ELSE Null,
         results |-> IF n # 1 /\ st.start # Null /\ st.start.ts # i.time.ts
                       THEN Append(st.results, fromDateTimes(st.start, i.time)) ELSE st.results]

xor(intervals) ==
    LET ends == [k \in 1..(2 * Len(intervals)) |->
                    LET i == intervals[(k + 1) \div 2]
                    IN  IF k % 2 = 1 THEN [time |-> i.s, type |-> "s"] ELSE [time |-> i.e, type |-> "e"]]
        arr  == SortSeq(ends, LAMBDA a, b : a.time.ts < b.time.ts)
    IN  merge(FoldLeft(xorStep, [count |-> 0, start |-> Null, results |-> <<>>], arr).results)

difference(i, others) ==
    LET spans == xor(<<i>> \o others)
        cuts  == [k \in DOMAIN spans |-> intersection(i, spans[k])]
    IN  SelectSeq(cuts, LAMBDA c : c # Null /\ ~isEmpty(c))

toDuration(i, units) == diff(i.e, i.s, units)

\* <start>/<end>, <start>/<duration> and <duration>/<end>; an end is the text of
\* a time or of a duration.
intervalToISO(i) == [start |-> toISO(i.s), end |-> toISO(i.e)]

isTime(text) == "date" \in DOMAIN text

\* DateTime.fromISO of one end, which a duration is not.
readEnd(text, zone) == IF isTime(text) THEN fromISO(text, zone) ELSE InvalidDateTime

between(text, start, end) ==
    IF start.isValid /\ end.isValid THEN fromDateTimes(start, end)
    ELSE IF start.isValid THEN after(start, durationFromISO(text.end))
    ELSE IF end.isValid THEN before(end, durationFromISO(text.start))
    ELSE InvalidInterval

intervalFromISO(text, zone) == between(text, readEnd(text.start, zone), readEnd(text.end, zone))
=============================================================================
