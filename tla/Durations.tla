----------------------------- MODULE Durations -----------------------------
(***************************************************************************)
(* The arithmetic of durations: luxon's Duration (src/ui/js/bundle.js).    *)
(*                                                                         *)
(* A duration is a function from some of the units to integers; fractions  *)
(* are left out, so that shiftTo is asked for seconds among its units, and *)
(* the units of a duration are in the order of their size.                 *)
(***************************************************************************)
EXTENDS Calendar

LOCAL INSTANCE SequencesExt

\* Units ordered by size.
orderedUnits ==
    <<"years", "quarters", "months", "weeks", "days", "hours", "minutes", "seconds">>

Unit == {orderedUnits[i] : i \in DOMAIN orderedUnits}

Rank(unit) == CHOOSE i \in DOMAIN orderedUnits : orderedUnits[i] = unit

\* casualMatrix: how many of the smaller unit make the larger one.  A year is
\* 52 weeks and 365 days, a quarter 13 weeks and 91 days, a month 4 weeks and
\* 30 days, and below them the units agree.
casualMatrix(larger, smaller) ==
    LET secs == [weeks |-> 604800, days |-> 86400, hours |-> 3600, minutes |-> 60, seconds |-> 1]
        calendar == [years    |-> [quarters |-> 4, months |-> 12, weeks |-> 52, days |-> 365],
                     quarters |-> [months |-> 3, weeks |-> 13, days |-> 91],
                     months   |-> [weeks |-> 4, days |-> 30]]
    IN  IF larger \in DOMAIN calendar
          THEN IF smaller \in DOMAIN calendar[larger] THEN calendar[larger][smaller]
               ELSE calendar[larger].days * (86400 \div secs[smaller])
          ELSE secs[larger] \div secs[smaller]

\* Math.trunc(n / d), and antiTrunc.
trunc(n, d) == IF n < 0 THEN -((-n) \div d) ELSE n \div d
antiTrunc(n, d) == IF n < 0 THEN -((-n + d - 1) \div d) ELSE (n + d - 1) \div d

sign(n) == IF n < 0 THEN -1 ELSE IF n = 0 THEN 0 ELSE 1

\* How much of the larger unit convert adds for n of the smaller one: a part of
\* one counts as a whole when the signs differ.
added(conv, n, to) ==
    IF sign(n) # sign(to) /\ to # 0 /\ -conv <= n /\ n <= conv
      THEN antiTrunc(n, conv) ELSE trunc(n, conv)

\* Mutated: the part that was carried stays in the smaller unit as well.
convert_Keeps(vals, fromUnit, toUnit) ==
    LET conv == casualMatrix(toUnit, fromUnit)
        a    == added(conv, vals[fromUnit], vals[toUnit])
    IN  [vals EXCEPT ![toUnit] = @ + a]

\* Whole multiples of toUnit move there from fromUnit.
convert(vals, fromUnit, toUnit) ==
    LET conv == casualMatrix(toUnit, fromUnit)
        a    == added(conv, vals[fromUnit], vals[toUnit])
    IN  [vals EXCEPT ![toUnit] = @ + a, ![fromUnit] = @ - a * conv]

\* From the smallest unit that is present up, each carries into the next.
normalizeValues(vals) ==
    LET present == SelectSeq(orderedUnits, LAMBDA u : u \in DOMAIN vals)
        n       == Len(present)
        step(v, i) == convert(v, present[n - i + 1], present[n - i])
    IN  FoldLeft(step, vals, [i \in 1..(n - 1) |-> i])

normalize(dur) == normalizeValues(dur)

\* Unit by unit from the largest: what is above boils down to it, what is below
\* rolls up into it.  The units of the result include seconds.
shiftTo(dur, units) ==
    LET first == [built |-> <<>>, wings |-> <<>>, vals |-> dur]
        into(st, k) ==
          IF k \in units
            THEN LET own == Get(st.vals, k) + SumFunction(
                              [ak \in DOMAIN st.wings |-> casualMatrix(ak, k) * st.wings[ak]])
                     down == SelectSeq(orderedUnits, LAMBDA u : u \in DOMAIN st.vals /\ Rank(u) > Rank(k))
                     start == Extends(st.vals, [u \in {k} |-> own])
                     vals == FoldLeft(LAMBDA v, u : convert(v, u, k), start, down)
                 IN  [built |-> Extends(st.built, [u \in {k} |-> vals[k]]), wings |-> <<>>,
                      vals  |-> [u \in DOMAIN st.vals |-> IF u = k THEN st.vals[k] ELSE vals[u]]]
          ELSE IF k \in DOMAIN st.vals
            THEN [st EXCEPT !.wings = Extends(st.wings, [u \in {k} |-> st.vals[k]])]
          ELSE st
    IN  normalize(FoldLeft(into, first, orderedUnits).built)

durationPlus(a, b) == [u \in DOMAIN a \cup DOMAIN b |-> Get(a, u) + Get(b, u)]

durationMinus(a, b) == durationPlus(a, negate(b))

durationSet(dur, values) == Extends(dur, values)

\* mapUnits with its only callback, which multiplies by k.
mapUnits(dur, k) == [u \in DOMAIN dur |-> dur[u] * k]

\* A unit that is missing and one that is 0 are equal.
durationEquals(a, b) == \A u \in Unit : Get(a, u) = Get(b, u)

-----------------------------------------------------------------------------
(* ISO 8601 texts: a sign in front of the "P", and units with a sign each.  *)

\* Units that are 0 are left out, "PT0S" if all are; a quarter is three months.
durationToISO(dur) ==
    LET written == {u \in DOMAIN dur \ {"quarters"} : dur[u] # 0}
        months  == IF Get(dur, "months") # 0 \/ Get(dur, "quarters") # 0
                     THEN [months |-> Get(dur, "months") + 3 * Get(dur, "quarters")] ELSE <<>>
        units   == Extends([u \in written |-> dur[u]], months)
    IN  [negative |-> FALSE, units |-> IF units = <<>> THEN [seconds |-> 0] ELSE units]

\* The sign in front turns every unit round.
extractISODuration(text) == IF text.negative THEN negate(text.units) ELSE text.units

durationFromISO(text) == extractISODuration(text)

\* A time of day, of a duration from nothing up to less than a day.
durationToISOTime(dur) ==
    LET value == shiftTo(dur, {"hours", "minutes", "seconds"})
    IN  IF asSeconds(dur) < 0 \/ asSeconds(dur) >= 86400 THEN <<>>
        ELSE [hour |-> value.hours, minute |-> value.minutes, second |-> value.seconds]

durationFromISOTime(text) ==
    [hours |-> text.hour, minutes |-> text.minute, seconds |-> text.second]
=============================================================================
