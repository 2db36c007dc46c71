------------------------------ MODULE Calendar ------------------------------
(***************************************************************************)
(* The calendar arithmetic the job table's "nextExecTime" column is        *)
(* computed with: the part of luxon (src/ui/js/bundle.js) that the cron    *)
(* matcher reaches.                                                        *)
(*                                                                         *)
(* A timestamp counts seconds, from 2000 (TLC's integers end in the sixty- *)
(* eighth year).  Milliseconds are left out: every                         *)
(* time of one preview carries the same ones, and endOf, which the code    *)
(* defines as the last millisecond of a unit, is its last second.  An      *)
(* offset counts minutes.                                                  *)
(***************************************************************************)
EXTENDS Integers, Sequences

-----------------------------------------------------------------------------
(* Numbers of days.                                                        *)

floorMod(x, n) == x - n * (x \div n)

isLeapYear(year) == year % 4 = 0 /\ (year % 100 # 0 \/ year % 400 = 0)

daysInYear(year) == IF isLeapYear(year) THEN 366 ELSE 365

\* Mutated: the month is not brought back into 1..12 before its year is known.
daysInMonth_SameYear(year, month) ==
    LET m == floorMod(month - 1, 12) + 1
    IN  IF m = 2 THEN (IF isLeapYear(year) THEN 29 ELSE 28)
        ELSE IF m \in {4, 6, 9, 11} THEN 30 ELSE 31

\* The month may lie outside 1..12: adjustTime asks before it carries.
daysInMonth(year, month) ==
    LET m == floorMod(month - 1, 12) + 1
        y == year + (month - m) \div 12
    IN  IF m = 2 THEN (IF isLeapYear(y) THEN 29 ELSE 28)
        ELSE IF m \in {4, 6, 9, 11} THEN 30 ELSE 31

weeksInWeekYear(weekYear) ==
    LET p(y) == (y + y \div 4 - y \div 100 + y \div 400) % 7
    IN  IF p(weekYear) = 4 \/ p(weekYear - 1) = 3 THEN 53 ELSE 52

nonLeapLadder == <<0, 31, 59, 90, 120, 151, 181, 212, 243, 273, 304, 334>>
leapLadder    == <<0, 31, 60, 91, 121, 152, 182, 213, 244, 274, 305, 335>>

Ladder(year) == IF isLeapYear(year) THEN leapLadder ELSE nonLeapLadder

-----------------------------------------------------------------------------
(* The browser's Date.                                                     *)

\* Days from 2000 to the first of January.
DaysToYear(year) ==
    LET leaps(y) == y \div 4 - y \div 100 + y \div 400
    IN  365 * (year - 2000) + leaps(year - 1) - leaps(1999)

\* Date.UTC: months and days outside their ranges are carried.
DateUTC(year, month, day) ==
    LET y == year + (month - 1) \div 12
    IN  DaysToYear(y) + Ladder(y)[floorMod(month - 1, 12) + 1] + day - 1

UTCYear(days) ==
    LET short == 2000 + days \div 365
        long  == 2000 + days \div 366
    IN  CHOOSE y \in (long..short) \cup (short..long) :
            DaysToYear(y) <= days /\ days < DaysToYear(y + 1)

\* The month that the day n of the year, counted from 0, is in.
UTCMonth(ladder, n) ==
    CHOOSE m \in 1..12 : ladder[m] <= n /\ (m = 12 \/ n < ladder[m + 1])

DateIn(year, ladder, n) ==
    LET m == UTCMonth(ladder, n)
    IN  [year |-> year, month |-> m, day |-> n - ladder[m] + 1]

\* getUTCFullYear, getUTCMonth + 1, getUTCDate of a day.
UTCDate(days) ==
    LET y == UTCYear(days)
    IN  DateIn(y, Ladder(y), days - DaysToYear(y))

-----------------------------------------------------------------------------
(* Calendar objects: Gregorian, week and ordinal dates with a time of day. *)

timeObject(c) == [hour |-> c.hour, minute |-> c.minute, second |-> c.second]

\* The fields of b on top of those of a (_extends).
Extends(a, b) == [u \in DOMAIN a \cup DOMAIN b |-> IF u \in DOMAIN b THEN b[u] ELSE a[u]]

\* A local timestamp: epoch with the offset baked in.
objToLocalTS(c) ==
    86400 * DateUTC(c.year, c.month, c.day) + 3600 * c.hour + 60 * c.minute + c.second

\* getUTCDay, with Sunday as 7.
dayOfWeek(year, month, day) == ((DateUTC(year, month, day) + 5) % 7) + 1

computeOrdinal(year, month, day) == day + Ladder(year)[month]

\* findIndex(i < ordinal) stops at its first entry, 0: the month is always
\* January, and Date.UTC carries the days.
findIndex(ladder, ordinal) ==
    CHOOSE m \in 1..12 : ladder[m] < ordinal /\ \A k \in 1..(m - 1) : ladder[k] >= ordinal

uncomputeOrdinal(year, ordinal) ==
    LET month == findIndex(Ladder(year), ordinal)
    IN  [year |-> year, month |-> month, day |-> ordinal - Ladder(year)[month]]

\* The week of a weekday, which is the day ordinal of the year.
weekOf(year, ordinal, weekday) ==
    LET week == (ordinal - weekday + 10) \div 7
        date == IF week < 1
                  THEN [weekYear |-> year - 1, weekNumber |-> weeksInWeekYear(year - 1)]
                ELSE IF week > weeksInWeekYear(year)
                  THEN [weekYear |-> year + 1, weekNumber |-> 1]
                ELSE [weekYear |-> year, weekNumber |-> week]
    IN  Extends(date, [weekday |-> weekday])

gregorianToWeek(c) ==
    Extends(weekOf(c.year, computeOrdinal(c.year, c.month, c.day), dayOfWeek(c.year, c.month, c.day)),
            timeObject(c))

\* A day of the year that may lie in the year before or after.
carryOrdinal(year, ordinal) ==
    IF ordinal < 1 THEN uncomputeOrdinal(year - 1, ordinal + daysInYear(year - 1))
    ELSE IF ordinal > daysInYear(year) THEN uncomputeOrdinal(year + 1, ordinal - daysInYear(year))
    ELSE uncomputeOrdinal(year, ordinal)

weekToGregorian(w) ==
    Extends(carryOrdinal(w.weekYear,
                         w.weekNumber * 7 + w.weekday - dayOfWeek(w.weekYear, 1, 4) - 3),
            timeObject(w))

gregorianToOrdinal(c) ==
    Extends([year |-> c.year, ordinal |-> computeOrdinal(c.year, c.month, c.day)], timeObject(c))

ordinalToGregorian(o) == Extends(uncomputeOrdinal(o.year, o.ordinal), timeObject(o))

hasInvalidGregorianData(c) ==
    \/ c.month \notin 1..12
    \/ c.day \notin 1..daysInMonth(c.year, c.month)

hasInvalidWeekData(w) ==
    w.weekNumber \notin 1..weeksInWeekYear(w.weekYear) \/ w.weekday \notin 1..7

hasInvalidOrdinalData(o) == o.ordinal \notin 1..daysInYear(o.year)

\* What an object is given in: a week date, a day of the year, or a date.
kindOf(obj) ==
    IF DOMAIN obj \cap {"weekYear", "weekNumber", "weekday"} # {} THEN "week"
    ELSE IF "ordinal" \in DOMAIN obj THEN "ordinal" ELSE "date"

toKind(c, kind) ==
    CASE kind = "week"    -> gregorianToWeek(c)
      [] kind = "ordinal" -> gregorianToOrdinal(c)
      [] kind = "date"    -> c

toGregorian(obj, kind) ==
    CASE kind = "week"    -> weekToGregorian(obj)
      [] kind = "ordinal" -> ordinalToGregorian(obj)
      [] kind = "date"    -> obj

higherOrderInvalid(obj, kind) ==
    CASE kind = "week"    -> hasInvalidWeekData(obj)
      [] kind = "ordinal" -> hasInvalidOrdinalData(obj)
      [] kind = "date"    -> hasInvalidGregorianData(obj)

\* Hour 24 is midnight of the next day.
hasInvalidTimeData(c) ==
    \/ ~(c.hour \in 0..23 \/ (c.hour = 24 /\ c.minute = 0 /\ c.second = 0))
    \/ c.minute \notin 0..59 \/ c.second \notin 0..59

-----------------------------------------------------------------------------
(* Zones: fixed offsets, and named zones, whose offset changes at from and *)
(* back at to.                                                             *)

FixedOffsetZone(minutes) == [type |-> "fixed", offset |-> minutes]

IANAZone(minutes, dst, from, to) ==
    [type |-> "iana", offset |-> minutes, dst |-> dst, from |-> from, to |-> to]

InvalidZone == [type |-> "invalid"]

\* Mutated: the minutes are always added.
signedOffset_Plus(negative, hours, minutes) ==
    (IF negative THEN -60 * hours ELSE 60 * hours) + minutes

\* signedOffset: the sign of the hours, "-00" included, is that of the minutes.
signedOffset(negative, hours, minutes) ==
    IF negative THEN -(60 * hours + minutes) ELSE 60 * hours + minutes

\* The zone of "UTC+" followed by a number of hours, given in minutes, if there
\* is one: the pattern takes one sign and whole hours.
parseSpecifier(minutes) ==
    IF minutes >= 0 /\ minutes % 60 = 0
      THEN {FixedOffsetZone(signedOffset(FALSE, minutes \div 60, 0))} ELSE {}

\* "UTC+-5" and "UTC+5.5" are looked up as names of zones, which they are not.
normalizeZone(minutes) ==
    IF parseSpecifier(minutes) = {} THEN InvalidZone
    ELSE CHOOSE zone \in parseSpecifier(minutes) : TRUE

zoneOffset(zone, ts) ==
    IF zone.type = "iana" /\ zone.from <= ts /\ ts < zone.to THEN zone.dst ELSE zone.offset

-----------------------------------------------------------------------------
(* DateTime.                                                               *)

\* Mutated: the second guess is taken without asking the zone again.
fixOffset_OneGuess(localTS, o, zone) ==
    LET guess == localTS - 60 * o
    IN  <<localTS - 60 * zoneOffset(zone, guess), zoneOffset(zone, guess)>>

\* The offset changed between the guesses.  In a hole the time moves forward.
secondGuess(localTS, o2, o3) ==
    IF o2 = o3 THEN <<localTS - 60 * o2, o2>>
    ELSE IF o2 < o3 THEN <<localTS - 60 * o2, o3>> ELSE <<localTS - 60 * o3, o2>>

\* The timestamp of a local time; o, a guess, decides when there are two.
fixOffset(localTS, o, zone) ==
    LET o2 == zoneOffset(zone, localTS - 60 * o)
    IN  IF o = o2 THEN <<localTS - 60 * o, o>>
        ELSE secondGuess(localTS, o2, zoneOffset(zone, localTS - 60 * o2))

timeOfDay(secs) == [hour |-> secs \div 3600, minute |-> (secs \div 60) % 60, second |-> secs % 60]

tsToObj(ts, offset) ==
    LET shifted == ts + 60 * offset
    IN  Extends(UTCDate(shifted \div 86400), timeOfDay(shifted % 86400))

objToTS(c, offset, zone) == fixOffset(objToLocalTS(c), offset, zone)

InvalidDateTime == [isValid |-> FALSE]

\* The constructor asks the zone for the offset of the timestamp.
DateTime(ts, zone) ==
    IF zone.type = "invalid" THEN InvalidDateTime
    ELSE [isValid |-> TRUE, ts |-> ts, zone |-> zone, o |-> zoneOffset(zone, ts),
          c |-> tsToObj(ts, zoneOffset(zone, ts))]

weekday(dt) == gregorianToWeek(dt.c).weekday

\* A day that was not set but overflows becomes the last one of the month.
lastDayAtMost(c) ==
    LET last == daysInMonth(c.year, c.month)
    IN  IF c.day < last THEN c ELSE [c EXCEPT !.day = last]

mixed(c, values) ==
    IF kindOf(values) = "date" /\ "day" \notin DOMAIN values THEN lastDayAtMost(Extends(c, values))
    ELSE toGregorian(Extends(toKind(c, kindOf(values)), values), kindOf(values))

set(dt, values) ==
    IF dt.isValid THEN DateTime(objToTS(mixed(dt.c, values), dt.o, dt.zone)[1], dt.zone) ELSE dt

\* A duration is a function on some of the units; the getters return 0 for the others.
Get(dur, unit) == IF unit \in DOMAIN dur THEN dur[unit] ELSE 0

negate(dur) == [u \in DOMAIN dur |-> -dur[u]]

\* shiftTo the smallest unit, of a duration of hours, minutes and seconds.
asSeconds(dur) == 3600 * Get(dur, "hours") + 60 * Get(dur, "minutes") + Get(dur, "seconds")

\* Calendar units move the date, a day that overflows becoming the last one of
\* the month before days and weeks are added; the rest is added to the timestamp.
adjustTime(dt, dur) ==
    LET moved == lastDayAtMost([dt.c EXCEPT !.year = @ + Get(dur, "years"),
                                            !.month = @ + Get(dur, "months") + 3 * Get(dur, "quarters")])
        c     == [moved EXCEPT !.day = @ + Get(dur, "days") + 7 * Get(dur, "weeks")]
    IN  objToTS(c, dt.o, dt.zone)[1] + asSeconds(dur)

plus(dt, dur) == IF dt.isValid THEN DateTime(adjustTime(dt, dur), dt.zone) ELSE dt

minus(dt, dur) == plus(dt, negate(dur))

Midnight == [hour |-> 0, minute |-> 0, second |-> 0]

\* Mutated: rounded down.
quarterStart_Floor(month) == (month \div 3) * 3 + 1

\* (ceil(month / 3) - 1) * 3 + 1.
quarterStart(month) == ((month + 2) \div 3 - 1) * 3 + 1

startOf(dt, unit) ==
    set(dt, CASE unit = "years"    -> Extends([month |-> 1, day |-> 1], Midnight)
              [] unit = "quarters" -> Extends([month |-> quarterStart(dt.c.month), day |-> 1],
                                              Midnight)
              [] unit = "months"   -> Extends([day |-> 1], Midnight)
              [] unit = "weeks"    -> Extends([weekday |-> 1], Midnight)
              [] unit = "days"     -> Midnight
              [] unit = "hours"    -> [minute |-> 0, second |-> 0]
              [] unit = "minutes"  -> [second |-> 0])

\* The duration { unit: 1 }.
One(unit) == [u \in {unit} |-> 1]

endOf(dt, unit) == minus(startOf(plus(dt, One(unit)), unit), One("seconds"))

setZone(dt, zone) ==
    IF zone.type = "invalid" \/ ~dt.isValid THEN InvalidDateTime ELSE DateTime(dt.ts, zone)

\* The units of each kind, the largest first.
orderedUnitsOf ==
    [week    |-> <<"weekYear", "weekNumber", "weekday", "hour", "minute", "second">>,
     ordinal |-> <<"year", "ordinal", "hour", "minute", "second">>,
     date    |-> <<"year", "month", "day", "hour", "minute", "second">>]

\* What comes before the first unit of obj is that of now, what is missing after
\* it the least there is.
completed(obj, units, objNow) ==
    LET before(i) == \A k \in 1..i : units[k] \notin DOMAIN obj
        least(u) == IF u \in {"hour", "minute", "second"} THEN 0 ELSE 1
        index(u) == CHOOSE i \in DOMAIN units : units[i] = u
        filled   == [u \in {units[i] : i \in DOMAIN units} |->
                        IF before(index(u)) THEN objNow[u] ELSE least(u)]
    IN  Extends(filled, obj)

fromNormalized(obj, kind, provis, zone) ==
    IF higherOrderInvalid(obj, kind) \/ hasInvalidTimeData(obj) THEN InvalidDateTime
    ELSE DateTime(objToTS(toGregorian(obj, kind), provis, zone)[1], zone)

\* obj has at least one unit, and units of one kind only (two are an error).
fromObject(obj, tsNow, zone) ==
    LET kind   == kindOf(obj)
        provis == zoneOffset(zone, tsNow)
    IN  IF zone.type = "invalid" THEN InvalidDateTime
        ELSE fromNormalized(completed(obj, orderedUnitsOf[kind], toKind(tsToObj(tsNow, provis), kind)),
                            kind, provis, zone)

\* Without a year it is now; otherwise what is missing is the least there is.
quickDT(obj, tsNow, zone) ==
    IF "year" \notin DOMAIN obj THEN DateTime(tsNow, zone)
    ELSE LET c == Extends(Extends([month |-> 1, day |-> 1], Midnight), obj)
         IN  IF hasInvalidGregorianData(c) \/ hasInvalidTimeData(c) THEN InvalidDateTime
             ELSE DateTime(objToTS(c, zoneOffset(zone, tsNow), zone)[1], zone)

local(obj, tsNow, zone) == quickDT(obj, tsNow, zone)
utc(obj, tsNow) == quickDT(obj, tsNow, FixedOffsetZone(0))

-----------------------------------------------------------------------------
(* ISO 8601 texts: the calendar object, and the offset in hours and minutes. *)

_toISODate(dt) == [year |-> dt.c.year, month |-> dt.c.month, day |-> dt.c.day]

_toISOTime(dt) ==
    LET abs == IF dt.o < 0 THEN -dt.o ELSE dt.o
    IN  [time |-> timeObject(dt.c), negative |-> dt.o < 0, hours |-> abs \div 60, minutes |-> abs % 60]

toISO(dt) == Extends(_toISOTime(dt), [date |-> _toISODate(dt)])

extractISOOffset(text) == FixedOffsetZone(signedOffset(text.negative, text.hours, text.minutes))

\* The date and time of the text, and its zone.
parseISODate(text) == <<Extends(text.date, text.time), extractISOOffset(text)>>

\* A text is complete: what time it is now does not matter.
parseDataToDateTime(parsed, parsedZone, zone) == setZone(fromObject(parsed, 0, parsedZone), zone)

fromISO(text, zone) ==
    LET parsed == parseISODate(text)
    IN  parseDataToDateTime(parsed[1], parsed[2], zone)
=============================================================================
