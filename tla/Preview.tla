------------------------------ MODULE Preview ------------------------------
(***************************************************************************)
(* The "nextExecTime" column of the job table: the formatter of            *)
(* src/ui/js/job_list.js and the loops of getFutureMatches and             *)
(* getTimeSeries (cronjs-matcher in src/ui/js/bundle.js) under it.         *)
(*                                                                         *)
(* The clock moves, the table is loaded, and the cell of a row is computed *)
(* one turn of the nested loops at a time.  The interface passes the       *)
(* browser's offset as a fixed zone, and asks for MatchCount matches.      *)
(***************************************************************************)
EXTENDS Cron, FiniteSetsExt

CONSTANTS
    Texts,       \* the crons of the table's rows
    Offsets,     \* offsets of browsers, in minutes east of Greenwich
    Begin,       \* the first instant of the clock
    Stride,      \* seconds from one instant of the clock to the next
    MaxTicks,    \* bound: how far the clock runs
    Loads,       \* bound: the ticks at which the table is loaded
    Zones,       \* named zones the calendar is asked about
    MatchCount,  \* matchCount
    MaxLoop      \* maxLoopCount

ASSUME PreviewAssumption ==
    /\ MatchCount \in Nat \ {0} /\ MaxLoop \in Nat \ {0}
    /\ \A text \in Texts : text \subseteq ExprText
    /\ \A text \in Texts : valid(text) => Ends(parse(text))

ASSUME ClockAssumption == /\ Begin \in Int /\ Stride \in Int /\ MaxTicks \in Nat
                          /\ Offsets \subseteq Int

\* A named zone is ahead of its offset in summer.
ASSUME ZoneAssumption ==
    \A zone \in Zones :
        /\ zone = IANAZone(zone.offset, zone.dst, zone.from, zone.to)
        /\ {zone.offset, zone.dst, zone.from, zone.to} \subseteq Int
        /\ zone.offset <= zone.dst

VARIABLES
    tick,        \* the clock, in strides
    offset,      \* the browser's offset
    pc,          \* of the row whose cell is computed: "idle", "series" (in the loops), "shown"
    startTime,
    exprs,       \* cronExprs
    merged,      \* mergedExpr
    loop,        \* the values of the loop variables, -1 before the first turn
    level,       \* the innermost loop that is running
    newTime,
    loopCount,
    nextTimes,
    cell         \* what the cell shows

consts == <<startTime, exprs, merged>>
series == <<loop, level, newTime, loopCount, nextTimes>>
vars == <<tick, offset, pc, consts, series, cell>>

now == Begin + Stride * tick

\* new Date().toISOString(), read in the zone the formatter names.
start == fromISO(toISO(DateTime(now, FixedOffsetZone(0))), normalizeZone(offset))

Fresh == [u \in 1..6 |-> -1]

-----------------------------------------------------------------------------
advance ==
    /\ pc = "idle" /\ tick < MaxTicks
    /\ tick' = tick + 1
    /\ UNCHANGED <<offset, pc, consts, series, cell>>

\* getFutureMatches starts the series, over the fields of the expressions.
begin(parsed, time) ==
    /\ exprs' = parsed /\ merged' = mergeExprs(parsed, time.c.year)
    /\ pc' = "series" /\ cell' = "none"

\* A cell that shows no series.
blank(text) ==
    /\ UNCHANGED <<exprs, merged>>
    /\ pc' = "shown" /\ cell' = text

\* The formatter parses the cron.  The year of an invalid time is NaN: no year
\* is in the series.
formatterAt(text, time) ==
    /\ startTime' = time
    /\ \/ valid(text) /\ time.isValid /\ begin(simplifyExprs(parse(text)), time)
       \/ ~(valid(text) /\ time.isValid) /\ blank(IF valid(text) THEN "never" ELSE "invalid")
    /\ loop' = Fresh /\ level' = 1 /\ newTime' = time
    /\ loopCount' = 0 /\ nextTimes' = <<>>
    /\ UNCHANGED <<tick, offset>>

formatter(text) ==
    /\ pc = "idle" /\ tick \in Loads
    /\ formatterAt(text, start)

\* The first match, or "never".
show(times) ==
    /\ pc' = "shown"
    /\ cell' = IF times = <<>> THEN "never" ELSE "time"

-----------------------------------------------------------------------------
(* getTimeSeries.                                                          *)

\* Mutated: the month after the start's is not told from the start's.
Skipped_DayOnly(l, v) ==
    \/ l = 1 /\ v < startTime.c.year
    \/ l = 2 /\ newTime.c.year = startTime.c.year /\ v < startTime.c.month
    \/ l = 3 /\ \/ v < startTime.c.day
                \/ v > daysInMonth(newTime.c.year, newTime.c.month)
    \/ l = 4 /\ loop[3] = startTime.c.day /\ v < startTime.c.hour

\* The turns that "continue" skips: before the start, and days the month lacks.
Skipped(l, v) ==
    LET sameYear  == loop[1] = startTime.c.year
        sameMonth == sameYear /\ loop[2] = startTime.c.month
        sameDay   == sameMonth /\ loop[3] = startTime.c.day
    IN  \/ l = 1 /\ v < startTime.c.year
        \/ l = 2 /\ sameYear /\ v < startTime.c.month
        \/ l = 3 /\ \/ sameMonth /\ v < startTime.c.day
                    \/ v > daysInMonth(newTime.c.year, newTime.c.month)
        \/ l = 4 /\ sameDay /\ v < startTime.c.hour

\* The turns left in the loop at level l.
Turns(l) == {v \in merged[Units[l]] : v > loop[l] /\ ~Skipped(l, v)}

\* setTime(newTime, { unit }).
turnTime == set(newTime, [u \in {Units[level]} |-> Min(Turns(level))])

\* A turn of an outer loop: the time is set, the loop inside begins.
turn ==
    /\ pc = "series" /\ level < 6 /\ Turns(level) # {}
    /\ loop' = [l \in 1..6 |-> IF l = level THEN Min(Turns(level))
                               ELSE IF l > level THEN -1 ELSE loop[l]]
    /\ newTime' = turnTime
    /\ level' = level + 1
    /\ UNCHANGED <<tick, offset, consts, pc, loopCount, nextTimes, cell>>

\* Mutated: before the start the loop outside begins again.
leave_Restart ==
    /\ pc = "series" /\ Turns(level) = {}
    /\ IF level = 1 THEN show(nextTimes) /\ UNCHANGED <<level, loop>>
       ELSE /\ level' = level - 1 /\ UNCHANGED <<pc, cell>>
            /\ loop' = IF newTime.ts < startTime.ts THEN [loop EXCEPT ![level - 1] = -1] ELSE loop
    /\ UNCHANGED <<tick, offset, consts, newTime, loopCount, nextTimes>>

\* A loop ends; the series ends with the outermost.
leave ==
    /\ pc = "series" /\ Turns(level) = {}
    /\ IF level = 1 THEN show(nextTimes) /\ UNCHANGED level
       ELSE level' = level - 1 /\ UNCHANGED <<pc, cell>>
    /\ UNCHANGED <<tick, offset, consts, loop, newTime, loopCount, nextTimes>>

\* Mutated: one match too many.
Enough_Over(times, loops) == Len(times) > MatchCount \/ loops >= MaxLoop

\* getFutureMatches stops.
Enough(times, loops) == Len(times) >= MatchCount \/ loops >= MaxLoop

\* The matches so far; the cell is shown once they are enough.
collect(times) ==
    /\ nextTimes' = times
    /\ loopCount' = loopCount + 1
    /\ IF Enough(times, loopCount + 1) THEN show(times) ELSE UNCHANGED <<pc, cell>>

\* From the start on the series yields the time and getFutureMatches asks the
\* expressions about it.
yieldAt(time) ==
    /\ newTime' = time
    /\ IF time.ts < startTime.ts
         THEN UNCHANGED <<pc, loopCount, nextTimes, cell>>
         ELSE collect(IF isExprsMatches(exprs, time) THEN Append(nextTimes, toISO(time)) ELSE nextTimes)

\* A turn of the innermost loop.
yield ==
    /\ pc = "series" /\ level = 6 /\ Turns(6) # {}
    /\ loop' = [loop EXCEPT ![6] = Min(Turns(6))]
    /\ yieldAt(turnTime)
    /\ UNCHANGED <<tick, offset, consts, level>>

\* The next cell.
done ==
    /\ pc = "shown"
    /\ pc' = "idle"
    /\ startTime' = InvalidDateTime /\ exprs' = {} /\ merged' = <<>>
    /\ loop' = Fresh /\ level' = 1 /\ newTime' = InvalidDateTime
    /\ loopCount' = 0 /\ nextTimes' = <<>> /\ cell' = "none"
    /\ UNCHANGED <<tick, offset>>

-----------------------------------------------------------------------------
Init ==
    /\ tick = 0 /\ offset \in Offsets
    /\ startTime = InvalidDateTime /\ exprs = {} /\ merged = <<>>
    /\ pc = "idle" /\ loop = Fresh /\ level = 1
    /\ newTime = InvalidDateTime /\ loopCount = 0 /\ nextTimes = <<>> /\ cell = "none"

Next == \/ advance \/ turn \/ leave \/ yield \/ done
        \/ \E text \in Texts : formatter(text)

\* The script goes on once it has been called: weak fairness of turn, leave and
\* yield, which are the steps from "series" and of which one is enabled there,
\* written without ENABLED (TLC evaluates it too slowly on the calendar).
Fairness == []<>(pc # "series") \/ []<><<pc = "series">>_vars

Spec == Init /\ [][Next]_vars /\ Fairness

-----------------------------------------------------------------------------
(* What a cron means, told without the code's loops.                       *)

DayOf(y, m, d) == DateUTC(y, m, d)
KindOf(y, m, d) == dayOfWeek(y, m, d) % 7
Weekdays(y, m) == {d \in 1..daysInMonth(y, m) : KindOf(y, m, d) \in 1..5}
Dist(a, b) == IF a < b THEN b - a ELSE a - b

\* d is the weekday of its month nearest to the day n, or to its last day.
NearestTo(y, m, d, n) ==
    LET target == IF n > daysInMonth(y, m) THEN daysInMonth(y, m) ELSE n
    IN  /\ d \in Weekdays(y, m)
        /\ \A x \in Weekdays(y, m) : Dist(d, target) <= Dist(x, target)

\* The nth day of a kind is in the nth group of seven days, the last in the last seven.
DayFires(e, y, m, d) ==
    LET dom  == e.day_of_month
        dow  == e.day_of_week
        last == daysInMonth(y, m)
        kind == KindOf(y, m, d)
        in(f, v) == f.all \/ v \in f.values \/ \E r \in f.ranges : v \in r.from..r.to
    IN  \/ /\ ~dom.omit
           /\ \/ in(dom, d)
              \/ dom.lastDay /\ d = last
              \/ dom.lastWeekday /\ d = Max(Weekdays(y, m))
              \/ \E n \in dom.nearestWeekdays : NearestTo(y, m, d, n)
        \/ /\ ~dow.omit
           /\ \/ in(dow, kind) \/ (kind = 0 /\ in(dow, 7))
              \/ dow.lastDay /\ kind = 6
              \/ kind \in dow.lastDays /\ d + 7 > last
              \/ \E nth \in dow.nthDays :
                     kind = nth.day_of_week /\ (d - 1) \div 7 + 1 = nth.instance

TimeFires(e, c) ==
    \A u \in {"year", "month", "hour", "minute", "second"} :
        \/ e[u].all \/ c[u] \in e[u].values
        \/ e[u].omit /\ c[u] = 0
        \/ \E r \in e[u].ranges : c[u] \in r.from..r.to

Fires(e, c) == TimeFires(e, c) /\ DayFires(e, c.year, c.month, c.day)

-----------------------------------------------------------------------------
(* Properties of the column.                                               *)

\* The type of the state.
TypeOK ==
    /\ tick \in 0..MaxTicks /\ offset \in Offsets
    /\ pc \in {"idle", "series", "shown"}
    /\ cell \in {"none", "invalid", "never", "time"}
    /\ level \in 1..6 /\ loopCount \in 0..MaxLoop
    /\ Len(nextTimes) <= MatchCount

Instant(text) == fromISO(text, FixedOffsetZone(0)).ts

\* Every time getFutureMatches returns is a time the cron means, not before now
\* and later than the one before it, although the series reaches it through
\* dates that were clamped on the way.
MatchesSound ==
    \A i \in DOMAIN nextTimes :
        /\ \E e \in exprs : Fires(e, parseISODate(nextTimes[i])[1])
        /\ Instant(nextTimes[i]) >= now
        /\ i > 1 => Instant(nextTimes[i - 1]) < Instant(nextTimes[i])

\* The instants of a day at which the expressions fire.
FiresOn(day) ==
    LET date == UTCDate(day)
    IN  {c \in {Extends(date, [hour |-> h, minute |-> mi, second |-> s]) :
                  h \in merged.hour, mi \in merged.minute, s \in merged.second} :
            \E e \in exprs : Fires(e, c)}

Returned == {parseISODate(nextTimes[i])[1] : i \in DOMAIN nextTimes}

\* When the cell is shown no time the cron means lies between now and the time
\* the series has come to and is missing: days 29 to 31, short months, leap
\* years and the turn of the year do not make it jump over one.
MatchesComplete ==
    pc = "shown" /\ cell \in {"never", "time"} /\ startTime.isValid =>
        \A day \in DateUTC(startTime.c.year, startTime.c.month, startTime.c.day)
                   ..DateUTC(newTime.c.year, newTime.c.month, newTime.c.day) :
            \A c \in FiresOn(day) :
                objToLocalTS(c) \in objToLocalTS(startTime.c)..objToLocalTS(newTime.c)
                    => c \in Returned

\* Every cell is filled: the loops over the parsed fields end, for every cron without
\* a step of 0 and a last 8th day of the week (PreviewAssumption), which hang the page.
CellShown == pc = "series" ~> pc = "shown"

\* parseNth accepts an instance of a day of the week: "It must be between 1 and
\* 5".  Each of them is matched in the months that have it.
NthDayMatched ==
    pc = "series" /\ level = 6 =>
        \A e \in exprs : \A nth \in e.day_of_week.nthDays :
            LET c == newTime.c
            IN  /\ KindOf(c.year, c.month, c.day) = nth.day_of_week
                /\ (c.day - 1) \div 7 + 1 = nth.instance
                => isDayOfWeekMatches(e.day_of_week, newTime)

-----------------------------------------------------------------------------
(* Properties of the calendar, at every instant of the clock.              *)

\* Once at every instant: the browser does not matter to the calendar.
Observed == pc = "idle" /\ offset = Min(Offsets)

AllZones == Zones \cup {FixedOffsetZone(o) : o \in Offsets}
Times == {DateTime(now, zone) : zone \in AllZones}

\* A time taken apart and put together again is the same instant: as a date
\* with the offset it was read at (also in the hour that a zone repeats), as a
\* week date, as a day of the year, and as an ISO text.  Units that are left
\* out are those of now in front of the others and the least after them.
TimesRoundTrip ==
    Observed => \A t \in Times :
        /\ objToTS(t.c, t.o, t.zone) = <<now, t.o>>
        /\ set(t, gregorianToWeek(t.c)).ts = now
        /\ set(t, [ordinal |-> gregorianToOrdinal(t.c).ordinal]).ts = now
        /\ fromObject(gregorianToWeek(t.c), now, t.zone).ts = now
        /\ fromObject(gregorianToOrdinal(t.c), now, t.zone).ts = now
        /\ fromObject(timeObject(t.c), now, t.zone).ts = now
        /\ fromObject([month |-> t.c.month, day |-> t.c.day], now, t.zone) = startOf(t, "days")
        /\ local(t.c, now, t.zone) = t /\ utc(tsToObj(now, 0), now).ts = now
        /\ local([year |-> t.c.year], now, t.zone) = startOf(t, "years")
        /\ fromISO(toISO(t), t.zone).ts = now

\* fixOffset finds an instant that reads as the local time asked for, whatever
\* the guess; only in a hole there is none, and the clock then reads later, by
\* the length of the hole ("we're in a hole time").
LocalTimesFound ==
    Observed => \A zone \in Zones : \A o \in {zone.offset, zone.dst} : \A k \in -4..4 :
        LET asked   == now + 60 * zone.offset + 900 * k
            reads(ts) == ts + 60 * zoneOffset(zone, ts)
            ts      == fixOffset(asked, o, zone)[1]
            exists  == \E x \in {zone.offset, zone.dst} : reads(asked - 60 * x) = asked
        IN  reads(ts) = IF exists THEN asked ELSE asked + 60 * (zone.dst - zone.offset)

\* The units tile time: a unit starts where the one before ended, and an
\* instant lies in its own.
UnitsTile ==
    Observed => \A t \in Times :
        \A unit \in {"years", "quarters", "months", "weeks", "days", "hours", "minutes"} :
            LET end == endOf(t, unit)
            IN  /\ startOf(t, unit).ts <= now /\ now <= end.ts
                /\ startOf(DateTime(end.ts + 1, t.zone), unit).ts = end.ts + 1
                /\ startOf(end, unit) = startOf(t, unit)

\* An ISO week belongs to the year its Thursday is in, and counts the Thursdays.
IsoWeeks ==
    Observed => \A t \in Times :
        LET w == gregorianToWeek(t.c)
            thursday == UTCDate(DateUTC(t.c.year, t.c.month, t.c.day) + 4 - w.weekday)
        IN  /\ w.weekYear = thursday.year
            /\ w.weekNumber = (computeOrdinal(thursday.year, thursday.month, thursday.day) - 1) \div 7 + 1

\* startOf, endOf and the week data of DateTime divide time without a gap, the
\* turn of the ISO year included.
UnitsKept == UnitsTile /\ IsoWeeks

\* Adding months keeps the day, or takes the last one of a month that is too
\* short, over any number of years; the time of day stays.
MonthsAdded ==
    Observed => \A o \in Offsets : \A k \in {-13, -11, -1, 1, 2, 3, 4, 12, 23} :
        LET t    == DateTime(now, FixedOffsetZone(o))
            u    == plus(t, [months |-> k])
            last == daysInMonth(u.c.year, u.c.month)
        IN  /\ 12 * u.c.year + u.c.month = 12 * t.c.year + t.c.month + k
            /\ u.c.day = IF t.c.day < last THEN t.c.day ELSE last
            /\ timeObject(u.c) = timeObject(t.c)
=============================================================================
