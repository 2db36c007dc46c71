------------------------------- MODULE Spans -------------------------------
(***************************************************************************)
(* What the library promises of durations, differences and intervals,      *)
(* stated without its loops, along the clock of Preview.                   *)
(***************************************************************************)
EXTENDS Preview, Intervals

CONSTANTS
    Gaps,     \* seconds between two times that are compared
    Points    \* bound: points of the line the intervals lie on

ASSUME SpansAssumption == Gaps \subseteq Nat /\ Points \in Nat

Seconds(dur) == 604800 * Get(dur, "weeks") + 86400 * Get(dur, "days") + asSeconds(dur)

\* Durations of every mixture of signs, at and next to a whole larger unit.
Durations == [{"days", "hours", "minutes", "seconds"} -> {-61, -60, -24, -1, 0, 1, 25, 60}]

\* "Reduce this Duration to its canonical representation": normalize and shiftTo
\* carry from unit to unit and lose no time, whatever the signs, and leave no
\* whole larger unit in a smaller one.  Nor do the texts lose any: a sign in front
\* of a text is the opposite duration, and the time of day of one without negative
\* units is a time of day (25 hours less 61 minutes, plus a second, make "24:00:-59").
DurationsKept ==
    Observed /\ tick = 0 => \A dur \in Durations :
        LET d == normalize(dur)
            s == shiftTo(dur, {"weeks", "hours", "seconds"})
        IN  /\ Seconds(d) = Seconds(dur) /\ Seconds(s) = Seconds(dur)
            /\ d.seconds \in -59..59 /\ d.minutes \in -59..59 /\ d.hours \in -23..23
            /\ s.seconds \in -3599..3599 /\ s.hours \in -167..167
            /\ DOMAIN s = {"weeks", "hours", "seconds"}
            /\ durationEquals(durationFromISO(durationToISO(dur)), dur)
            /\ durationEquals(durationPlus(dur, durationFromISO(
                                  [durationToISO(dur) EXCEPT !.negative = TRUE])), [seconds |-> 0])
            /\ dur.days = 0 /\ (\A u \in DOMAIN dur : dur[u] >= 0) /\ Seconds(dur) < 86400 =>
                   LET time == durationToISOTime(dur)
                   IN  /\ ~hasInvalidTimeData(time)
                       /\ Seconds(durationFromISOTime(time)) = Seconds(dur)

Others(t) == {DateTime(t.ts + g, t.zone) : g \in Gaps}

\* n is the number of units that fit between t and u.
FitIn(n, unit, t, u) == plus(t, Times1(unit, n)).ts <= u.ts /\ u.ts < plus(t, Times1(unit, n + 1)).ts

\* A difference counts the units that fit, over months of different lengths,
\* leap days and changes of the offset; with a fixed offset adding it leads back.
DiffsFit ==
    Observed /\ tick % 7 = 0 => \A t \in Times : \A u \in Others(t) :
        /\ \A unit \in {"years", "months", "weeks", "days"} :
               FitIn(diff(u, t, {unit}).values[unit], unit, t, u)
        /\ t.zone.type = "fixed" =>
               plus(t, diff(u, t, {"months", "days", "hours", "minutes", "seconds"}).values).ts = u.ts

\* "Note that time zones are ignored in this comparison": two times are in the
\* same unit when their local times are, in whatever zones they are.
SameUnit ==
    Observed /\ tick % 7 = 0 => \A t, o \in Times : \A u \in Others(o) :
        \A unit \in {"years", "quarters", "months", "weeks", "days"} :
            hasSame(t, u, unit) <=> startOf(t, unit).c = startOf(u, unit).c

\* diff and hasSame agree with plus and startOf: what two times have between them
\* and in common is what the calendar says.
DifferencesKept == DiffsFit /\ SameUnit

-----------------------------------------------------------------------------
\* Intervals between points an hour apart, and the hours they hold.
Point(k) == DateTime(now + 3600 * k, FixedOffsetZone(0))
Hours == {fromDateTimes(Point(p[1]), Point(p[2])) :
              p \in {q \in (0..Points) \X (0..Points) : q[1] < q[2]}}
Arrays == UNION {[1..n -> Hours] : n \in 1..3}
Holds(i, k) == contains(i, Point(k))
HeldBy(array, k) == {n \in DOMAIN array : Holds(array[n], k)}

\* "An equivalent minimal set": what merge returns holds the same times, in
\* order, and neither overlaps nor touches.
MergeMinimal ==
    Observed /\ tick = 0 => \A array \in Arrays :
        LET m == merge(array)
        IN  /\ \A k \in 0..Points : HeldBy(m, k) # {} <=> HeldBy(array, k) # {}
            /\ \A n \in 1..(Len(m) - 1) : isBefore(m[n], m[n + 1].s) /\ ~abutsStart(m[n], m[n + 1])

\* xor holds what is in exactly one of the intervals, difference what is in the
\* first and in none of the others.
XorOnce ==
    Observed /\ tick = 0 => \A array \in Arrays : \A k \in 0..Points :
        LET others == SubSeq(array, 2, Len(array))
        IN  /\ HeldBy(xor(array), k) # {} <=> Cardinality(HeldBy(array, k)) = 1
            /\ HeldBy(difference(array[1], others), k) # {} <=>
                   Holds(array[1], k) /\ HeldBy(others, k) = {}

Tile(i, pieces) ==
    /\ pieces # <<>> /\ pieces[1].s = i.s /\ pieces[Len(pieces)].e = i.e
    /\ \A n \in DOMAIN pieces : pieces[n].isValid
    /\ \A n \in 1..(Len(pieces) - 1) : abutsStart(pieces[n], pieces[n + 1])

\* The pieces begin on one day of the month, or on the last where there is no such day.
OnDay(day, pieces) ==
    \A n \in DOMAIN pieces :
        LET c == pieces[n].s.c
        IN  c.day = day \/ (c.day < day /\ c.day = daysInMonth(c.year, c.month))

SplitsWell(i) ==
    /\ \A dur \in {[months |-> 1], [days |-> 30, hours |-> 7]} : Tile(i, splitBy(i, dur, 5))
    /\ OnDay(i.s.c.day, splitBy(i, [months |-> 1], 5))
    /\ Tile(i, splitAt(i, [n \in 1..3 |-> plus(i.s, [weeks |-> <<8, -1, 3>>[n]])]))

\* The pieces an interval is split into tile it, and those of a month do not
\* drift to other days.
SplitsTile ==
    Observed /\ tick % 2 = 0 => \A o \in Offsets :
        SplitsWell(after(DateTime(now, FixedOffsetZone(o)), [days |-> 100]))

\* The texts of an interval: its ends, its start and its length, its length and its end.
TextsOf(text, long) == {text, [text EXCEPT !.end = long], [text EXCEPT !.start = long]}

ReadBack(i, zone) ==
    \A text \in TextsOf(intervalToISO(i), durationToISO(toDuration(i, {"days", "hours", "seconds"}).values)) :
        intervalFromISO(text, zone) = i

\* An interval is read back from each of the three texts of it.
IntervalTexts ==
    Observed /\ tick % 7 = 0 => \A o \in Offsets : \A g \in Gaps :
        ReadBack(fromDateTimes(DateTime(now, FixedOffsetZone(o)), DateTime(now + g, FixedOffsetZone(o))),
                 FixedOffsetZone(o))

\* Interval: whatever is merged, taken out, split, written and read, no time is
\* lost and none is there twice.
IntervalsKept == MergeMinimal /\ XorOnce /\ SplitsTile /\ IntervalTexts
=============================================================================
