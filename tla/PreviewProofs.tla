--------------------------- MODULE PreviewProofs ---------------------------
(***************************************************************************)
(* The calendar for every day there is, and the next execution time of a   *)
(* job for any crons, clock, zones and bounds of the loops.                *)
(***************************************************************************)
EXTENDS Preview, FiniteSetTheorems, WellFoundedInduction, TLAPS

-----------------------------------------------------------------------------
(* The type of the state.                                                  *)

\* What the assumptions say of the counts, without the texts.
LEMMA Counts == MatchCount \in Nat /\ MatchCount > 0 /\ MaxLoop \in Nat /\ MaxLoop > 0
<1>1. MatchCount \in Nat \ {0} /\ MaxLoop \in Nat \ {0}
    BY PreviewAssumption, Zenon
<1> QED  BY <1>1

\* A sequence, of whatever texts.
IsList(l) == \E S : l \in Seq(S)

\* What Append does to it.
LEMMA ListFacts ==
    /\ IsList(<<>>) /\ Len(<<>>) = 0
    /\ \A l : IsList(l) => Len(l) \in Nat
    /\ \A l, x : IsList(l) => IsList(Append(l, x)) /\ Len(Append(l, x)) = Len(l) + 1
<1>1. <<>> \in Seq({}) /\ Len(<<>>) = 0
    OBVIOUS
<1>2. ASSUME NEW l, IsList(l) PROVE Len(l) \in Nat
    BY <1>2 DEF IsList
<1>3. ASSUME NEW l, NEW x, IsList(l)
      PROVE  IsList(Append(l, x)) /\ Len(Append(l, x)) = Len(l) + 1
    <2>1. PICK S : l \in Seq(S)
        BY <1>3 DEF IsList
    <2>2. l \in Seq(S \cup {x})
        BY <2>1
    <2>3. Append(l, x) \in Seq(S \cup {x}) /\ Len(Append(l, x)) = Len(l) + 1
        BY <2>2
    <2> QED  BY <2>3 DEF IsList
<1> QED  BY <1>1, <1>2, <1>3 DEF IsList

\* While the loops run the matches are not enough.
Running ==
    /\ IsList(nextTimes)
    /\ pc = "series" => Len(nextTimes) < MatchCount /\ loopCount < MaxLoop

PreviewInv == TypeOK /\ Running

\* getFutureMatches collects one match at a time and stops when they are enough.
LEMMA CollectStep ==
    ASSUME PreviewInv, NEW times, IsList(times), Len(times) <= Len(nextTimes) + 1,
           pc = "series", collect(times)
    PROVE  /\ IsList(nextTimes')
           /\ Len(nextTimes') <= MatchCount /\ loopCount' \in 0..MaxLoop
           /\ \/ pc' = pc /\ cell' = cell /\ Len(nextTimes') < MatchCount /\ loopCount' < MaxLoop
              \/ pc' = "shown" /\ cell' \in {"never", "time"}
<1>1. Len(times) \in Nat /\ Len(nextTimes) \in Nat
    BY ListFacts DEF PreviewInv, Running
<1>2. Len(times) <= MatchCount /\ loopCount + 1 \in 0..MaxLoop
    BY <1>1, Counts DEF PreviewInv, Running, TypeOK
<1>3. CASE Enough(times, loopCount + 1)
    BY <1>2, <1>3 DEF collect, show
<1>4. CASE ~Enough(times, loopCount + 1)
    BY <1>1, <1>2, <1>4, Counts DEF collect, Enough, PreviewInv, TypeOK
<1> QED  BY <1>3, <1>4

\* A turn of the innermost loop.
LEMMA YieldStep ==
    ASSUME PreviewInv, yield
    PROVE  PreviewInv'
<1> DEFINE time == turnTime
           times == IF isExprsMatches(exprs, time) THEN Append(nextTimes, toISO(time)) ELSE nextTimes
<1>1. /\ IsList(times) /\ Len(times) <= Len(nextTimes) + 1
    <2>1. IsList(nextTimes)
        BY DEF PreviewInv, Running
    <2>2. /\ IsList(Append(nextTimes, toISO(time))) /\ Len(nextTimes) \in Nat
          /\ Len(Append(nextTimes, toISO(time))) = Len(nextTimes) + 1
        BY <2>1, ListFacts
    <2> HIDE DEF time
    <2> QED  BY <2>1, <2>2
<1>2. /\ pc = "series"
      /\ \/ UNCHANGED <<pc, loopCount, nextTimes, cell>>
         \/ collect(times)
      /\ UNCHANGED <<tick, offset, consts, level>>
    BY DEF yield, yieldAt
<1> HIDE DEF times
<1>3. CASE UNCHANGED <<pc, loopCount, nextTimes, cell>>
    BY <1>2, <1>3 DEF PreviewInv, TypeOK, Running
<1>4. CASE collect(times)
    <2>1. /\ IsList(nextTimes')
          /\ Len(nextTimes') <= MatchCount /\ loopCount' \in 0..MaxLoop
          /\ \/ pc' = pc /\ cell' = cell /\ Len(nextTimes') < MatchCount /\ loopCount' < MaxLoop
             \/ pc' = "shown" /\ cell' \in {"never", "time"}
        BY <1>1, <1>2, <1>4, CollectStep
    <2> QED  BY <1>2, <2>1 DEF PreviewInv, TypeOK, Running
<1> QED  BY <1>2, <1>3, <1>4

\* The type of the state holds in every state: getFutureMatches never keeps more
\* than matchCount matches, nor runs its loop more than maxLoopCount times,
\* whatever the crons, the clock and the two bounds are.
THEOREM PreviewTyped == Spec => []TypeOK
<1>0. IsList(<<>>) /\ Len(<<>>) = 0
    BY ListFacts
<1>1. Init => PreviewInv
    BY <1>0, Counts, ClockAssumption DEF Init, PreviewInv, TypeOK, Running
<1>2. PreviewInv /\ [Next]_vars => PreviewInv'
    <2> SUFFICES ASSUME PreviewInv, [Next]_vars PROVE PreviewInv'
        OBVIOUS
    <2>1. CASE advance
        BY <2>1, ClockAssumption DEF advance, PreviewInv, TypeOK, Running, series
    <2>2. CASE turn
        BY <2>2 DEF turn, PreviewInv, TypeOK, Running
    <2>3. CASE leave
        <3>1. CASE level = 1
            BY <2>3, <3>1 DEF leave, show, PreviewInv, TypeOK, Running
        <3>2. CASE level # 1
            BY <2>3, <3>2 DEF leave, PreviewInv, TypeOK, Running
        <3> QED  BY <3>1, <3>2
    <2>4. CASE yield
        BY <2>4, YieldStep
    <2>5. CASE done
        BY <1>0, <2>5, Counts DEF done, PreviewInv, TypeOK, Running
    <2>6. ASSUME NEW text \in Texts, formatter(text) PROVE PreviewInv'
        BY <1>0, <2>6, Counts DEF formatter, formatterAt, begin, blank, PreviewInv, TypeOK, Running
    <2>7. CASE UNCHANGED vars
        BY <2>7 DEF vars, series, PreviewInv, TypeOK, Running
    <2> QED  BY <2>1, <2>2, <2>3, <2>4, <2>5, <2>6, <2>7 DEF Next
<1>3. PreviewInv => TypeOK
    BY DEF PreviewInv
<1> QED  BY <1>1, <1>2, <1>3, PTL DEF Spec

-----------------------------------------------------------------------------
(* Local times.                                                            *)

\* The clock counts seconds.
LEMMA NowInt ==
    ASSUME TypeOK
    PROVE  now \in Int
<1>1. \A i, j \in Int : i * j \in Int
    OBVIOUS
<1>2. Begin \in Int /\ Stride \in Int /\ tick \in Int
    BY ClockAssumption DEF TypeOK
<1>3. Stride * tick \in Int
    BY <1>1, <1>2
<1> QED  BY <1>2, <1>3 DEF now

\* fixOffset finds an instant that reads as the local time asked for whenever
\* there is one, with either offset of the zone as the guess; in a hole, where
\* there is none, its clock reads later by the length of the hole.  For every
\* instant and every named zone that is ahead of its offset in summer.
THEOREM LocalTimesHold == Spec => []LocalTimesFound
<1>1. TypeOK => LocalTimesFound
    <2> SUFFICES ASSUME TypeOK, NEW zone \in Zones, NEW o \in {zone.offset, zone.dst}, NEW k \in -4..4
                 PROVE LET asked   == now + 60 * zone.offset + 900 * k
                           reads(ts) == ts + 60 * zoneOffset(zone, ts)
                           ts      == fixOffset(asked, o, zone)[1]
                           exists  == \E x \in {zone.offset, zone.dst} : reads(asked - 60 * x) = asked
                       IN  reads(ts) = IF exists THEN asked ELSE asked + 60 * (zone.dst - zone.offset)
        BY DEF LocalTimesFound
    <2>1. PICK a, b, from, to \in Int :
              /\ zone.type = "iana" /\ a = zone.offset /\ b = zone.dst
              /\ from = zone.from /\ to = zone.to /\ a <= b
        <3>1. /\ zone.type = "iana" /\ zone.offset <= zone.dst
              /\ zone.offset \in Int /\ zone.dst \in Int /\ zone.from \in Int /\ zone.to \in Int
            BY ZoneAssumption DEF IANAZone
        <3> QED  BY <3>1
    <2>2. PICK asked \in Int : asked = now + 60 * zone.offset + 900 * k
        <3>1. now \in Int
            BY NowInt
        <3>2. 60 * zone.offset \in Int /\ 900 * k \in Int
            BY <2>1
        <3> QED  BY <3>1, <3>2
    <2>3. \A ts \in Int : zoneOffset(zone, ts) = IF from <= ts /\ ts < to THEN b ELSE a
        BY <2>1 DEF zoneOffset
    <2>4. o = a \/ o = b
        BY <2>1
    <2>5. PICK x, y \in Int : x = asked - 60 * a /\ y = asked - 60 * b
        OBVIOUS
    <2>6. fixOffset(asked, o, zone)[1] =
             IF o = a THEN IF zoneOffset(zone, x) = a THEN x
                           ELSE IF zoneOffset(zone, y) = b THEN y ELSE x
             ELSE IF zoneOffset(zone, y) = b THEN y ELSE x
        BY <2>1, <2>3, <2>4, <2>5 DEF fixOffset, secondGuess
    <2>7. (\E e \in {a, b} : asked - 60 * e + 60 * zoneOffset(zone, asked - 60 * e) = asked)
             <=> (zoneOffset(zone, x) = a \/ zoneOffset(zone, y) = b)
        BY <2>3, <2>5
    <2> QED  BY <2>1, <2>2, <2>3, <2>4, <2>5, <2>6, <2>7
<1> QED  BY <1>1, PreviewTyped, PTL

-----------------------------------------------------------------------------
(* Days and dates.                                                         *)

\* Induction over the naturals, for a set.
LEMMA NatSet ==
    ASSUME NEW T \in SUBSET Nat, 0 \in T, \A n \in T : n + 1 \in T
    PROVE  T = Nat
<1> SUFFICES ASSUME Nat \ T # {} PROVE FALSE
    OBVIOUS
<1> DEFINE R == OpToRel(<, Nat)
<1>1. \A m, n \in Nat : <<m, n>> \in R <=> m < n
    BY DEF OpToRel
<1>2. IsWellFoundedOn(R, Nat)
    BY NatLessThanWellFounded
<1> HIDE DEF R
<1>3. PICK m \in Nat \ T : \A n \in Nat \ T : ~ <<n, m>> \in R
    BY <1>2, WFMin
<1>4. m # 0 /\ m - 1 \in Nat /\ m - 1 < m
    OBVIOUS
<1>5. <<m - 1, m>> \in R
    BY <1>1, <1>4
<1>6. m - 1 \in T
    BY <1>3, <1>4, <1>5
<1>7. m - 1 + 1 \in T
    BY <1>6
<1> QED  BY <1>4, <1>7

\* The years follow each other without a gap.
LEMMA YearLength ==
    ASSUME NEW y \in Int
    PROVE  DaysToYear(y) \in Int /\ DaysToYear(y + 1) = DaysToYear(y) + daysInYear(y)
BY DEF DaysToYear, daysInYear, isLeapYear

\* Years last 365 or 366 days, before 2000 as after.
LEMMA YearBounds == ASSUME NEW y \in Int PROVE
   /\ y >= 2000 => 365 * (y - 2000) <= DaysToYear(y) /\ DaysToYear(y) <= 366 * (y - 2000)
   /\ y <= 2000 => 366 * (y - 2000) <= DaysToYear(y) /\ DaysToYear(y) <= 365 * (y - 2000)
BY DEF DaysToYear

\* Every day lies in a year: counting up from an early one reaches it.
LEMMA YearOf ==
    ASSUME NEW d \in Int
    PROVE  \E y \in Int : DaysToYear(y) <= d /\ d < DaysToYear(y + 1)
<1> DEFINE a == IF d < 0 THEN 2000 + d ELSE 2000
           b == IF d < 0 THEN 1 - d ELSE d + 1
           T == {n \in Nat : DaysToYear(a + n) <= d}
<1>1. a \in Int /\ a <= 2000 /\ 365 * (a - 2000) <= d
    OBVIOUS
<1>2. b \in Nat /\ d < 365 * (a + b - 2000) /\ a + b >= 2000
    OBVIOUS
<1> HIDE DEF a, b
<1>3. 0 \in T
    <2>1. DaysToYear(a) <= d
        BY <1>1, YearBounds, YearLength
    <2> QED  BY <1>1, <2>1
<1>4. b \notin T
    BY <1>1, <1>2, YearBounds, YearLength
<1>5. PICK n \in T : n + 1 \notin T
    <2>1. T \in SUBSET Nat
        OBVIOUS
    <2> HIDE DEF T
    <2> QED  BY <1>2, <1>3, <1>4, <2>1, NatSet
<1>6. a + n \in Int /\ DaysToYear(a + n) <= d /\ DaysToYear(a + n + 1) > d
    BY <1>1, <1>5, YearLength
<1> QED  BY <1>6

\* UTCYear looks for that year between two estimates, and it is there.
LEMMA YearFound ==
    ASSUME NEW d \in Int
    PROVE  /\ UTCYear(d) \in Int
           /\ DaysToYear(UTCYear(d)) <= d /\ d < DaysToYear(UTCYear(d) + 1)
<1> DEFINE short == 2000 + d \div 365
           long  == 2000 + d \div 366
           years == (long..short) \cup (short..long)
<1>1. PICK y \in Int : DaysToYear(y) <= d /\ d < DaysToYear(y + 1)
    BY YearOf
<1>2. y \in years
    <2>1. PICK dy, dz \in Int : dy = DaysToYear(y) /\ dz = DaysToYear(y + 1)
        BY YearLength
    <2>2. \/ /\ y >= 2000 /\ 365 * (y - 2000) <= d /\ d < 366 * (y + 1 - 2000)
          \/ /\ y < 2000 /\ 366 * (y - 2000) <= d /\ d < 365 * (y + 1 - 2000)
        <3>1. /\ y >= 2000 => 365 * (y - 2000) <= dy
              /\ y <= 2000 => 366 * (y - 2000) <= dy
            BY <2>1, YearBounds
        <3>2. /\ y + 1 >= 2000 => dz <= 366 * (y + 1 - 2000)
              /\ y + 1 <= 2000 => dz <= 365 * (y + 1 - 2000)
            BY <2>1, YearBounds
        <3> QED  BY <1>1, <2>1, <3>1, <3>2
    <2>3. \/ long <= y /\ y <= short
          \/ short <= y /\ y <= long
        BY <2>2
    <2> QED  BY <2>3
<1>3. years \subseteq Int
    OBVIOUS
<1> HIDE DEF years
<1>4. \E x \in years : DaysToYear(x) <= d /\ d < DaysToYear(x + 1)
    BY <1>1, <1>2
<1>5. UTCYear(d) = CHOOSE x \in years : DaysToYear(x) <= d /\ d < DaysToYear(x + 1)
    BY DEF UTCYear, years
<1> QED  BY <1>3, <1>4, <1>5

\* The months of a year.
IsDate(y, m, d) == y \in Int /\ m \in 1..12 /\ d \in 1..daysInMonth(y, m)

\* The length of a month that is not carried.
LEMMA MonthDays ==
    ASSUME NEW y \in Int, NEW m \in 1..12
    PROVE  /\ daysInMonth(y, m) = IF m = 2 THEN (IF isLeapYear(y) THEN 29 ELSE 28)
                                  ELSE IF m \in {4, 6, 9, 11} THEN 30 ELSE 31
           /\ daysInMonth(y, m) \in 28..31
<1>1. floorMod(m - 1, 12) + 1 = m /\ y + (m - m) \div 12 = y
    BY DEF floorMod
<1> QED  BY <1>1 DEF daysInMonth

\* The ladders of computeOrdinal add up the lengths of the months.
LEMMA LadderSteps ==
    ASSUME NEW y \in Int
    PROVE  /\ Ladder(y)[1] = 0 /\ Ladder(y)[12] + 31 = daysInYear(y)
           /\ \A m \in 1..12 : Ladder(y)[m] \in 0..335
           /\ \A m \in 1..11 : Ladder(y)[m + 1] = Ladder(y)[m] + daysInMonth(y, m)
<1>1. Ladder(y)[1] = 0 /\ Ladder(y)[12] + 31 = daysInYear(y)
    BY DEF Ladder, leapLadder, nonLeapLadder, daysInYear
<1>2. ASSUME NEW m \in 1..12 PROVE Ladder(y)[m] \in 0..335
    BY DEF Ladder, leapLadder, nonLeapLadder
<1>3. ASSUME NEW m \in 1..11 PROVE Ladder(y)[m + 1] = Ladder(y)[m] + daysInMonth(y, m)
    <2>1. m \in {1, 2, 3, 4, 5, 6, 7, 8, 9, 10, 11}
        OBVIOUS
    <2> QED  BY <2>1, MonthDays DEF Ladder, leapLadder, nonLeapLadder
<1> QED  BY <1>1, <1>2, <1>3

\* The same, as numbers only.
LEMMA LadderInt ==
    ASSUME NEW y \in Int, NEW m \in 1..12
    PROVE  Ladder(y)[m] \in Int /\ 0 <= Ladder(y)[m] /\ daysInMonth(y, m) \in Int
<1>1. Ladder(y)[m] \in 0..335 /\ daysInMonth(y, m) \in 28..31
    BY LadderSteps, MonthDays
<1> QED  BY <1>1

\* Every day of a year lies in a month.
LEMMA MonthFound ==
    ASSUME NEW y \in Int, NEW n \in 0..daysInYear(y)-1
    PROVE  /\ UTCMonth(Ladder(y), n) \in 1..12
           /\ n - Ladder(y)[UTCMonth(Ladder(y), n)] + 1 \in 1..daysInMonth(y, UTCMonth(Ladder(y), n))
<1> DEFINE L == Ladder(y)
           P(m) == L[m] <= n /\ (m = 12 \/ n < L[m + 1])
<1>1. \E m \in 1..12 : P(m)
    BY DEF Ladder, leapLadder, nonLeapLadder, daysInYear
<1>2. UTCMonth(L, n) \in 1..12 /\ P(UTCMonth(L, n))
    BY <1>1 DEF UTCMonth
<1>3. PICK m \in 1..12 : m = UTCMonth(L, n) /\ P(m)
    BY <1>2
<1>4. L[m] \in Int /\ n \in Int /\ n < L[m] + daysInMonth(y, m)
    <2>1. daysInYear(y) \in Int
        BY DEF daysInYear
    <2>2. n \in Int /\ n < daysInYear(y)
        BY <2>1
    <2>3. L[m] \in Int /\ daysInMonth(y, m) \in Int
        BY LadderInt
    <2>4. CASE m = 12
        BY <2>2, <2>3, <2>4, LadderSteps, MonthDays
    <2>5. CASE m # 12
        <3>1. m \in 1..11 /\ n < L[m + 1]
            BY <1>3, <2>5
        <3> QED  BY <2>2, <2>3, <3>1, LadderSteps
    <2> QED  BY <2>4, <2>5
<1>5. daysInMonth(y, m) \in Int
    BY MonthDays
<1> QED  BY <1>3, <1>4, <1>5

\* The date of a day, and the day of a date.
LEMMA DateOfDay ==
    ASSUME NEW d \in Int
    PROVE  \E y, m, day : /\ IsDate(y, m, day) /\ DateUTC(y, m, day) = d
                          /\ UTCDate(d) = [year |-> y, month |-> m, day |-> day]
<1> DEFINE y == UTCYear(d)
           n == d - DaysToYear(y)
           m == UTCMonth(Ladder(y), n)
           day == n - Ladder(y)[m] + 1
<1>1. y \in Int /\ DaysToYear(y) \in Int /\ n \in 0..daysInYear(y)-1
    <2>1. y \in Int /\ DaysToYear(y) <= d /\ d < DaysToYear(y + 1)
        BY YearFound
    <2>2. daysInYear(y) \in Int
        BY DEF daysInYear
    <2> HIDE DEF y
    <2> QED  BY <2>1, <2>2, YearLength
<1>2. UTCDate(d) = [year |-> y, month |-> m, day |-> day]
    BY DEF UTCDate, DateIn
<1> HIDE DEF y, n
<1>3. IsDate(y, m, day)
    BY <1>1, MonthFound DEF IsDate
<1>4. y + (m - 1) \div 12 = y /\ floorMod(m - 1, 12) + 1 = m
    BY <1>1, <1>3 DEF floorMod, IsDate
<1>5. Ladder(y)[m] \in Int /\ n \in Int
    <2>1. daysInYear(y) \in Int
        BY DEF daysInYear
    <2>2. n \in Int
        BY <1>1, <2>1
    <2>3. y \in Int /\ m \in 1..12
        BY <1>3 DEF IsDate
    <2> HIDE DEF m
    <2> QED  BY <2>2, <2>3, LadderInt
<1>6. DateUTC(y, m, day) = DaysToYear(y) + Ladder(y)[m] + day - 1
    BY <1>4 DEF DateUTC
<1>7. DateUTC(y, m, day) = d
    <2> HIDE DEF m
    <2> QED  BY <1>1, <1>5, <1>6 DEF n
<1> QED  BY <1>2, <1>3, <1>7

\* A later year starts after the earlier one has ended.
LEMMA YearsAscend ==
    ASSUME NEW y \in Int, NEW z \in Int, y < z
    PROVE  DaysToYear(y + 1) <= DaysToYear(z)
BY DEF DaysToYear

\* So does a later month.
LEMMA MonthsAscend ==
    ASSUME NEW y \in Int, NEW m \in 1..12, NEW k \in 1..12, m < k
    PROVE  Ladder(y)[m] + daysInMonth(y, m) <= Ladder(y)[k]
<1>1. Ladder(y)[m + 1] = Ladder(y)[m] + daysInMonth(y, m)
    BY LadderSteps
<1>2. m + 1 \in 2..12 /\ k \in 2..12 /\ m + 1 <= k
    OBVIOUS
<1>3. \A i, j \in 2..12 : i <= j => Ladder(y)[i] <= Ladder(y)[j]
    BY DEF Ladder, leapLadder, nonLeapLadder
<1> QED  BY <1>1, <1>2, <1>3

\* A date is a day of its own year.
LEMMA DayInYear ==
    ASSUME NEW y, NEW m, NEW d, IsDate(y, m, d)
    PROVE  /\ DateUTC(y, m, d) = DaysToYear(y) + Ladder(y)[m] + d - 1
           /\ DateUTC(y, m, d) \in Int /\ DaysToYear(y) \in Int /\ d \in Int
           /\ Ladder(y)[m] \in Int
           /\ DaysToYear(y) <= DateUTC(y, m, d) /\ DateUTC(y, m, d) < DaysToYear(y + 1)
<1>1. y \in Int /\ m \in 1..12
    BY DEF IsDate
<1>2. Ladder(y)[m] \in Int /\ daysInMonth(y, m) \in Int
    BY <1>1, LadderInt
<1>3. d \in Int /\ 1 <= d /\ d <= daysInMonth(y, m)
    BY <1>2 DEF IsDate
<1>4. y + (m - 1) \div 12 = y /\ floorMod(m - 1, 12) + 1 = m
    BY <1>1 DEF floorMod
<1>5. DateUTC(y, m, d) = DaysToYear(y) + Ladder(y)[m] + d - 1
    BY <1>4 DEF DateUTC
<1>6. 0 <= Ladder(y)[m] /\ Ladder(y)[m] + daysInMonth(y, m) <= daysInYear(y)
    <2>1. 0 <= Ladder(y)[m] /\ Ladder(y)[12] \in Int /\ daysInYear(y) = Ladder(y)[12] + 31
        <3>1. 0 <= Ladder(y)[m]
            BY <1>1, LadderInt
        <3>2. 12 \in 1..12
            OBVIOUS
        <3>3. Ladder(y)[12] \in Int
            BY <1>1, <3>2, LadderInt
        <3> QED  BY <1>1, <3>1, <3>3, LadderSteps
    <2>2. CASE m = 12
        BY <1>1, <2>1, <2>2, MonthDays
    <2>3. CASE m # 12
        <3>1. Ladder(y)[m] + daysInMonth(y, m) <= Ladder(y)[12]
            BY <1>1, <2>3, MonthsAscend
        <3> QED  BY <1>2, <2>1, <3>1
    <2> QED  BY <2>2, <2>3
<1>7. DaysToYear(y) \in Int /\ DaysToYear(y + 1) = DaysToYear(y) + daysInYear(y) /\ daysInYear(y) \in Int
    BY <1>1, YearLength DEF daysInYear
<1> QED  BY <1>2, <1>3, <1>5, <1>6, <1>7

\* The date that Date.UTC makes a day of is the date of that day.
LEMMA DayOfDate ==
    ASSUME NEW y, NEW m, NEW d, IsDate(y, m, d)
    PROVE  UTCDate(DateUTC(y, m, d)) = [year |-> y, month |-> m, day |-> d]
<1> DEFINE n == DateUTC(y, m, d)
<1>1. n \in Int
    BY DayInYear
<1>2. PICK z, k, e : /\ IsDate(z, k, e) /\ DateUTC(z, k, e) = n
                     /\ UTCDate(n) = [year |-> z, month |-> k, day |-> e]
    BY <1>1, DateOfDay
<1>3. /\ n = DaysToYear(y) + Ladder(y)[m] + d - 1
      /\ DaysToYear(y) <= n /\ n < DaysToYear(y + 1)
    BY DayInYear
<1>4. /\ n = DaysToYear(z) + Ladder(z)[k] + e - 1
      /\ DaysToYear(z) <= n /\ n < DaysToYear(z + 1)
    BY <1>2, DayInYear
<1>5. y \in Int /\ z \in Int /\ m \in 1..12 /\ k \in 1..12
    BY <1>2 DEF IsDate
<1>6. /\ DaysToYear(y) \in Int /\ DaysToYear(z) \in Int
      /\ DaysToYear(y + 1) \in Int /\ DaysToYear(z + 1) \in Int
    BY <1>5, YearLength
<1>7. y = z
    <2>1. y < z => DaysToYear(y + 1) <= DaysToYear(z)
        BY <1>5, YearsAscend
    <2>2. z < y => DaysToYear(z + 1) <= DaysToYear(y)
        BY <1>5, YearsAscend
    <2> HIDE DEF n
    <2> QED  BY <1>1, <1>3, <1>4, <1>5, <1>6, <2>1, <2>2
<1>8. /\ Ladder(y)[m] \in Int /\ Ladder(y)[k] \in Int
      /\ daysInMonth(y, m) \in Int /\ daysInMonth(y, k) \in Int
    BY <1>5, LadderInt
<1>9. d \in Int /\ e \in Int /\ d \in 1..daysInMonth(y, m) /\ e \in 1..daysInMonth(y, k)
    BY <1>2, <1>7, <1>8 DEF IsDate
<1>10. Ladder(y)[m] + d = Ladder(y)[k] + e
    <2>1. PICK p, a, b \in Int : p = DaysToYear(y) /\ a = Ladder(y)[m] /\ b = Ladder(y)[k]
        BY <1>6, <1>8
    <2>2. d \in Int /\ e \in Int /\ p + a + d - 1 = p + b + e - 1
        BY <1>3, <1>4, <1>7, <1>9, <2>1
    <2>3. a + d = b + e
        BY <2>2
    <2> QED  BY <2>1, <2>3
<1>11. m = k
    <2>1. m < k => Ladder(y)[m] + daysInMonth(y, m) <= Ladder(y)[k]
        BY <1>5, MonthsAscend
    <2>2. k < m => Ladder(y)[k] + daysInMonth(y, k) <= Ladder(y)[m]
        BY <1>5, MonthsAscend
    <2> QED  BY <1>5, <1>8, <1>9, <1>10, <2>1, <2>2
<1> QED  BY <1>2, <1>7, <1>8, <1>9, <1>10, <1>11

-----------------------------------------------------------------------------
(* Calendar objects.                                                       *)

\* The calendar object of a DateTime.
Object(y, m, d, h, mi, s) ==
    [year |-> y, month |-> m, day |-> d, hour |-> h, minute |-> mi, second |-> s]

IsTime(h, mi, s) == h \in 0..23 /\ mi \in 0..59 /\ s \in 0..59

\* A date and a time of day.
IsObject(c) ==
    \E y, m, d, h, mi, s : c = Object(y, m, d, h, mi, s) /\ IsDate(y, m, d) /\ IsTime(h, mi, s)

\* _extends puts a date and a time of day together.
LEMMA ExtendsDate ==
    ASSUME NEW y, NEW m, NEW d, NEW h, NEW mi, NEW s
    PROVE  Extends([year |-> y, month |-> m, day |-> d], [hour |-> h, minute |-> mi, second |-> s])
             = Object(y, m, d, h, mi, s)
BY DEF Extends, Object

\* The seconds of a day.
LEMMA TimeOfSeconds ==
    ASSUME NEW n \in Nat, n < 86400
    PROVE  /\ IsTime(n \div 3600, (n \div 60) % 60, n % 60)
           /\ 3600 * (n \div 3600) + 60 * ((n \div 60) % 60) + (n % 60) = n
<1>1. PICK q, r \in Nat : q = n \div 60 /\ r = n % 60 /\ r < 60 /\ n = 60 * q + r
    OBVIOUS
<1>2. PICK h, mi \in Nat : h = q \div 60 /\ mi = q % 60 /\ mi < 60 /\ q = 60 * h + mi
    OBVIOUS
<1>3. n \div 3600 = h /\ h < 24
    BY <1>1, <1>2
<1>4. IsTime(h, mi, r)
    BY <1>1, <1>2, <1>3 DEF IsTime
<1>5. 3600 * h + 60 * mi + r = n
    BY <1>1, <1>2
<1> QED  BY <1>1, <1>2, <1>3, <1>4, <1>5

\* And the time of day of those seconds.
LEMMA SecondsOfTime ==
    ASSUME NEW h, NEW mi, NEW s, IsTime(h, mi, s)
    PROVE  /\ 3600 * h + 60 * mi + s \in Nat /\ 3600 * h + 60 * mi + s < 86400
           /\ timeOfDay(3600 * h + 60 * mi + s) = [hour |-> h, minute |-> mi, second |-> s]
<1>1. h \in 0..23 /\ mi \in 0..59 /\ s \in 0..59
    BY DEF IsTime
<1>2. PICK n \in Int : n = 3600 * h + 60 * mi + s
    BY <1>1
<1>3. n \in Nat /\ n < 86400 /\ n \div 3600 = h /\ n % 60 = s
    BY <1>1, <1>2
<1>4. n \div 60 = 60 * h + mi
    BY <1>1, <1>2
<1>5. (n \div 60) % 60 = mi
    BY <1>1, <1>4
<1> QED  BY <1>2, <1>3, <1>5 DEF timeOfDay

\* A timestamp read at an offset is a date and a time of day that stand for it.
LEMMA ObjectOfTS ==
    ASSUME NEW ts \in Int, NEW o \in Int
    PROVE  IsObject(tsToObj(ts, o)) /\ objToLocalTS(tsToObj(ts, o)) = ts + 60 * o
<1>1. PICK n \in Int : n = ts + 60 * o
    OBVIOUS
<1>2. PICK day \in Int, secs \in Nat :
          /\ secs < 86400 /\ day = n \div 86400 /\ secs = n % 86400 /\ n = 86400 * day + secs
    OBVIOUS
<1>3. PICK y, m, d : /\ IsDate(y, m, d) /\ DateUTC(y, m, d) = day
                     /\ UTCDate(day) = [year |-> y, month |-> m, day |-> d]
    BY DateOfDay
<1>4. PICK h, mi, s : /\ IsTime(h, mi, s) /\ 3600 * h + 60 * mi + s = secs
                      /\ h = secs \div 3600 /\ mi = (secs \div 60) % 60 /\ s = secs % 60
    BY <1>2, TimeOfSeconds, SMT
<1>5. tsToObj(ts, o) = Object(y, m, d, h, mi, s)
    <2>1. timeOfDay(secs) = [hour |-> h, minute |-> mi, second |-> s]
        BY <1>4 DEF timeOfDay
    <2>2. tsToObj(ts, o) = Extends(UTCDate(day), timeOfDay(secs))
        BY <1>1, <1>2 DEF tsToObj
    <2> QED  BY <1>3, <2>1, <2>2, ExtendsDate
<1>6. objToLocalTS(Object(y, m, d, h, mi, s)) = 86400 * day + 3600 * h + 60 * mi + s
    BY <1>3 DEF objToLocalTS, Object
<1>7. h \in Int /\ mi \in Int /\ s \in Int
    BY <1>4 DEF IsTime
<1>8. 86400 * day + 3600 * h + 60 * mi + s = n
    BY <1>2, <1>4, <1>7
<1> QED  BY <1>1, <1>3, <1>4, <1>5, <1>6, <1>8 DEF IsObject

\* A date and a time of day are what the timestamp they stand for reads as.
LEMMA TSOfObject ==
    ASSUME NEW c, IsObject(c), NEW o \in Int
    PROVE  objToLocalTS(c) \in Int /\ tsToObj(objToLocalTS(c) - 60 * o, o) = c
<1>1. PICK y, m, d, h, mi, s :
          c = Object(y, m, d, h, mi, s) /\ IsDate(y, m, d) /\ IsTime(h, mi, s)
    BY DEF IsObject
<1>2. PICK day \in Int : day = DateUTC(y, m, d)
    BY <1>1, DayInYear
<1>3. PICK secs \in Nat :
          /\ secs < 86400 /\ secs = 3600 * h + 60 * mi + s
          /\ timeOfDay(secs) = [hour |-> h, minute |-> mi, second |-> s]
    <2> DEFINE n == 3600 * h + 60 * mi + s
    <2>1. n \in Nat /\ n < 86400 /\ timeOfDay(n) = [hour |-> h, minute |-> mi, second |-> s]
        BY <1>1, SecondsOfTime
    <2> HIDE DEF n
    <2>2. n = 3600 * h + 60 * mi + s
        BY SMT DEF n
    <2> QED  BY <2>1, <2>2, SMT
<1>4. h \in Int /\ mi \in Int /\ s \in Int
    BY <1>1 DEF IsTime
<1>5. objToLocalTS(c) = 86400 * day + 3600 * h + 60 * mi + s
    BY <1>1, <1>2 DEF objToLocalTS, Object
<1>6. objToLocalTS(c) = 86400 * day + secs
    BY <1>3, <1>4, <1>5
<1>7. PICK n \in Int : n = objToLocalTS(c) /\ n = 86400 * day + secs
    BY <1>6
<1>8. n \div 86400 = day /\ n % 86400 = secs
    BY <1>3, <1>7, SMT
<1>9. tsToObj(n - 60 * o, o) = Extends(UTCDate(day), timeOfDay(secs))
    <2>1. n - 60 * o + 60 * o = n
        BY SMT
    <2> QED  BY <1>8, <2>1, SMT DEF tsToObj
<1>10. UTCDate(day) = [year |-> y, month |-> m, day |-> d]
    BY <1>1, <1>2, DayOfDate
<1> QED  BY <1>1, <1>3, <1>7, <1>9, <1>10, ExtendsDate

-----------------------------------------------------------------------------
(* Adding months.                                                          *)

\* A month outside 1..12 is one of another year, for Date.UTC and for
\* daysInMonth alike.
LEMMA MonthsCarried ==
    ASSUME NEW y \in Int, NEW n \in Int
    PROVE  \E z \in Int : \E m \in 1..12 :
              /\ 12 * z + m = 12 * y + n
              /\ daysInMonth(y, n) = daysInMonth(z, m)
              /\ \A d \in Int : DateUTC(y, n, d) = DateUTC(z, m, d)
<1> DEFINE z == y + (n - 1) \div 12
           m == floorMod(n - 1, 12) + 1
<1>1. z \in Int /\ m \in 1..12 /\ 12 * z + m = 12 * y + n
    BY DEF floorMod
<1>2. y + (n - m) \div 12 = z
    BY DEF floorMod
<1>3. floorMod(m - 1, 12) + 1 = m /\ z + (m - m) \div 12 = z /\ z + (m - 1) \div 12 = z
    <2> HIDE DEF z, m
    <2> QED  BY <1>1 DEF floorMod
<1>4. daysInMonth(y, n) = daysInMonth(z, m)
    <2>1. daysInMonth(y, n) = IF m = 2 THEN (IF isLeapYear(z) THEN 29 ELSE 28)
                              ELSE IF m \in {4, 6, 9, 11} THEN 30 ELSE 31
        BY <1>2 DEF daysInMonth
    <2> HIDE DEF z, m
    <2> QED  BY <1>1, <2>1, MonthDays
<1>5. ASSUME NEW d \in Int PROVE DateUTC(y, n, d) = DaysToYear(z) + Ladder(z)[m] + d - 1
    BY DEF DateUTC
<1>6. ASSUME NEW d \in Int PROVE DateUTC(z, m, d) = DaysToYear(z) + Ladder(z)[m] + d - 1
    <2> HIDE DEF z, m
    <2> QED  BY <1>3 DEF DateUTC
<1> HIDE DEF z, m
<1> QED  BY <1>1, <1>4, <1>5, <1>6

\* plus, of a number of months, at a fixed offset.
LEMMA PlusMonths ==
    ASSUME NEW o \in Int, NEW k \in Int,
           NEW y, NEW m, NEW d, NEW h, NEW mi, NEW s, IsDate(y, m, d), IsTime(h, mi, s),
           NEW t, t.isValid, t.zone = FixedOffsetZone(o), t.o = o, t.c = Object(y, m, d, h, mi, s)
    PROVE  \E z, n, e : /\ IsDate(z, n, e) /\ 12 * z + n = 12 * y + m + k
                        /\ e = IF d < daysInMonth(z, n) THEN d ELSE daysInMonth(z, n)
                        /\ plus(t, [months |-> k]).c = Object(z, n, e, h, mi, s)
<1> DEFINE dur == [months |-> k]
           last == daysInMonth(y, m + k)
           e == IF d < last THEN d ELSE last
           c == Object(y, m + k, e, h, mi, s)
<1>0. y \in Int /\ m \in Int /\ d \in Int /\ 1 <= d
    <2>1. y \in Int /\ m \in 1..12
        BY DEF IsDate
    <2>2. daysInMonth(y, m) \in Int
        BY <2>1, LadderInt
    <2> QED  BY <2>1, <2>2 DEF IsDate
<1>1. /\ Get(dur, "months") = k
      /\ \A u \in {"years", "quarters", "days", "weeks", "hours", "minutes", "seconds"} : Get(dur, u) = 0
    BY DEF Get
<1>2. asSeconds(dur) = 0
    BY <1>1 DEF asSeconds
<1>3. PICK z \in Int, n \in 1..12 :
          /\ 12 * z + n = 12 * y + m + k
          /\ daysInMonth(y, m + k) = daysInMonth(z, n)
          /\ \A x \in Int : DateUTC(y, m + k, x) = DateUTC(z, n, x)
    <2>1. m + k \in Int
        BY <1>0
    <2>2. PICK z \in Int, n \in 1..12 :
              /\ 12 * z + n = 12 * y + (m + k)
              /\ daysInMonth(y, m + k) = daysInMonth(z, n)
              /\ \A x \in Int : DateUTC(y, m + k, x) = DateUTC(z, n, x)
        BY <1>0, <2>1, MonthsCarried
    <2>3. 12 * z + n = 12 * y + m + k
        BY <1>0, <2>2
    <2> QED  BY <2>2, <2>3
<1>4. last \in Int /\ last = daysInMonth(z, n) /\ 28 <= last
    BY <1>3, MonthDays
<1>5. IsDate(z, n, e) /\ e \in Int
    BY <1>0, <1>3, <1>4 DEF IsDate
<1> HIDE DEF dur, e, last
<1>6. objToLocalTS(c) = objToLocalTS(Object(z, n, e, h, mi, s))
    BY <1>3, <1>5 DEF objToLocalTS, Object
<1>7. objToTS(c, o, FixedOffsetZone(o))[1] = objToLocalTS(c) - 60 * o
    BY DEF objToTS, fixOffset, zoneOffset, FixedOffsetZone
<1>8. /\ objToLocalTS(Object(z, n, e, h, mi, s)) \in Int
      /\ tsToObj(objToLocalTS(Object(z, n, e, h, mi, s)) - 60 * o, o) = Object(z, n, e, h, mi, s)
    BY <1>5, TSOfObject DEF IsObject
<1>9. adjustTime(t, dur) = objToTS(c, o, FixedOffsetZone(o))[1]
    <2>1. [t.c EXCEPT !.year = @ + Get(dur, "years"),
                      !.month = @ + Get(dur, "months") + 3 * Get(dur, "quarters")]
             = Object(y, m + k, d, h, mi, s)
        <3>1. y + Get(dur, "years") = y /\ m + Get(dur, "months") + 3 * Get(dur, "quarters") = m + k
            BY <1>0, <1>1
        <3>2. t.c.year = y /\ t.c.month = m
            BY DEF Object
        <3>3. [Object(y, m, d, h, mi, s) EXCEPT !.year = y] = Object(y, m, d, h, mi, s)
            BY DEF Object
        <3>4. [Object(y, m, d, h, mi, s) EXCEPT !.month = m + k] = Object(y, m + k, d, h, mi, s)
            BY DEF Object
        <3> QED  BY <3>1, <3>2, <3>3, <3>4
    <2>2. lastDayAtMost(Object(y, m + k, d, h, mi, s)) = c
        BY DEF lastDayAtMost, Object, e, last
    <2>3. [c EXCEPT !.day = @ + Get(dur, "days") + 7 * Get(dur, "weeks")] = c
        <3>1. e + Get(dur, "days") + 7 * Get(dur, "weeks") = e
            BY <1>1, <1>5
        <3> QED  BY <3>1 DEF Object
    <2>4. t.o = o /\ t.zone = FixedOffsetZone(o)
        OBVIOUS
    <2>5. objToTS(c, o, FixedOffsetZone(o))[1] \in Int
        BY <1>6, <1>7, <1>8
    <2> QED  BY <1>2, <2>1, <2>2, <2>3, <2>4, <2>5 DEF adjustTime
<1>10. plus(t, dur).c = tsToObj(adjustTime(t, dur), o)
    BY DEF plus, DateTime, zoneOffset, FixedOffsetZone
<1>11. plus(t, dur).c = Object(z, n, e, h, mi, s)
    BY <1>6, <1>7, <1>8, <1>9, <1>10
<1> QED  BY <1>3, <1>4, <1>5, <1>11 DEF dur, e

\* Adding months keeps the day, or takes the last one of the month, and the time
\* of day, at every instant, at every offset and over any number of years: the
\* carry of months that plus leaves to Date.UTC and the lengths of months that
\* adjustTime asks for before it agree.
THEOREM MonthsAddedHold == Spec => []MonthsAdded
<1>1. TypeOK => MonthsAdded
    <2> SUFFICES ASSUME TypeOK, NEW o \in Offsets, NEW k \in {-13, -11, -1, 1, 2, 3, 4, 12, 23}
                 PROVE  LET t    == DateTime(now, FixedOffsetZone(o))
                            u    == plus(t, [months |-> k])
                            last == daysInMonth(u.c.year, u.c.month)
                        IN  /\ 12 * u.c.year + u.c.month = 12 * t.c.year + t.c.month + k
                            /\ u.c.day = IF t.c.day < last THEN t.c.day ELSE last
                            /\ timeObject(u.c) = timeObject(t.c)
        BY DEF MonthsAdded
    <2> DEFINE t == DateTime(now, FixedOffsetZone(o))
    <2>1. o \in Int /\ k \in Int /\ now \in Int
        BY ClockAssumption, NowInt
    <2>2. t.isValid /\ t.zone = FixedOffsetZone(o) /\ t.o = o /\ t.c = tsToObj(now, o)
        BY DEF DateTime, FixedOffsetZone, zoneOffset
    <2>3. IsObject(tsToObj(now, o))
        BY <2>1, ObjectOfTS
    <2>4. PICK y, m, d, h, mi, s :
              t.c = Object(y, m, d, h, mi, s) /\ IsDate(y, m, d) /\ IsTime(h, mi, s)
        BY <2>2, <2>3 DEF IsObject
    <2> HIDE DEF t
    <2>5. PICK z, n, e : /\ IsDate(z, n, e) /\ 12 * z + n = 12 * y + m + k
                         /\ e = IF d < daysInMonth(z, n) THEN d ELSE daysInMonth(z, n)
                         /\ plus(t, [months |-> k]).c = Object(z, n, e, h, mi, s)
        BY <2>1, <2>2, <2>4, PlusMonths
    <2> QED  BY <2>4, <2>5 DEF t, Object, timeObject
<1> QED  BY <1>1, PreviewTyped, PTL

-----------------------------------------------------------------------------
(* Days of the year and week dates.                                        *)

\* The month of uncomputeOrdinal is January, and Date.UTC carries the day.
LEMMA OrdinalDay ==
    ASSUME NEW y \in Int, NEW n \in Int, 1 <= n
    PROVE  /\ uncomputeOrdinal(y, n) = [year |-> y, month |-> 1, day |-> n]
           /\ DateUTC(y, 1, n) = DaysToYear(y) + n - 1
<1>1. Ladder(y)[1] = 0
    BY LadderSteps
<1>2. findIndex(Ladder(y), n) = 1
    <2>1. 1 \in 1..12 /\ Ladder(y)[1] < n /\ \A k \in 1..(1 - 1) : Ladder(y)[k] >= n
        BY <1>1
    <2>2. ASSUME NEW m \in 1..12, \A k \in 1..(m - 1) : Ladder(y)[k] >= n PROVE m = 1
        <3>1. CASE 1 \in 1..(m - 1)
            BY <1>1, <2>2, <3>1
        <3>2. CASE 1 \notin 1..(m - 1)
            BY <3>2
        <3> QED  BY <3>1, <3>2
    <2> QED  BY <2>1, <2>2 DEF findIndex
<1>3. uncomputeOrdinal(y, n) = [year |-> y, month |-> 1, day |-> n]
    BY <1>1, <1>2 DEF uncomputeOrdinal
<1>4. y + (1 - 1) \div 12 = y /\ floorMod(1 - 1, 12) + 1 = 1
    BY DEF floorMod
<1>5. DateUTC(y, 1, n) = DaysToYear(y) + 0 + n - 1
    BY <1>1, <1>4 DEF DateUTC
<1>6. DaysToYear(y) \in Int
    BY YearLength
<1> QED  BY <1>3, <1>5, <1>6

\* A day given as one of a year next to its own.
LEMMA CarriedDay ==
    ASSUME NEW y \in Int, NEW n \in Int,
           1 - daysInYear(y - 1) <= n, n <= daysInYear(y) + daysInYear(y + 1)
    PROVE  \E z, e : /\ carryOrdinal(y, n) = [year |-> z, month |-> 1, day |-> e]
                     /\ DateUTC(z, 1, e) = DaysToYear(y) + n - 1
<1>1. /\ daysInYear(y - 1) \in Int /\ daysInYear(y) \in Int /\ daysInYear(y + 1) \in Int
      /\ y - 1 \in Int /\ y + 1 \in Int /\ y - 1 + 1 = y
    BY DEF daysInYear
<1>2. /\ DaysToYear(y) \in Int /\ DaysToYear(y - 1) \in Int /\ DaysToYear(y + 1) \in Int
      /\ DaysToYear(y + 1) = DaysToYear(y) + daysInYear(y)
      /\ DaysToYear(y) = DaysToYear(y - 1) + daysInYear(y - 1)
    BY <1>1, YearLength
<1>3. CASE n < 1
    <2>1. n + daysInYear(y - 1) \in Int /\ 1 <= n + daysInYear(y - 1)
        BY <1>1
    <2>2. carryOrdinal(y, n) = uncomputeOrdinal(y - 1, n + daysInYear(y - 1))
        BY <1>3 DEF carryOrdinal
    <2>3. DateUTC(y - 1, 1, n + daysInYear(y - 1)) = DaysToYear(y - 1) + (n + daysInYear(y - 1)) - 1
        BY <1>1, <2>1, OrdinalDay
    <2>4. DateUTC(y - 1, 1, n + daysInYear(y - 1)) = DaysToYear(y) + n - 1
        BY <1>1, <1>2, <2>3
    <2> QED  BY <1>1, <2>1, <2>2, <2>4, OrdinalDay
<1>4. CASE n > daysInYear(y)
    <2>1. n - daysInYear(y) \in Int /\ 1 <= n - daysInYear(y)
        BY <1>1, <1>4
    <2>2. carryOrdinal(y, n) = uncomputeOrdinal(y + 1, n - daysInYear(y))
        <3>1. ~(n < 1)
            BY <1>4 DEF daysInYear
        <3> QED  BY <1>4, <3>1 DEF carryOrdinal
    <2>3. DateUTC(y + 1, 1, n - daysInYear(y)) = DaysToYear(y + 1) + (n - daysInYear(y)) - 1
        BY <1>1, <2>1, OrdinalDay
    <2>4. DateUTC(y + 1, 1, n - daysInYear(y)) = DaysToYear(y) + n - 1
        BY <1>1, <1>2, <2>3
    <2> QED  BY <1>1, <2>1, <2>2, <2>4, OrdinalDay
<1>5. CASE ~(n < 1) /\ ~(n > daysInYear(y))
    BY <1>5, OrdinalDay DEF carryOrdinal
<1> QED  BY <1>3, <1>4, <1>5

\* The day before the first week of a year.
WeekStart(y) == DaysToYear(y) + 3 - dayOfWeek(y, 1, 4)

\* The years of the week calendar tile the days.
LEMMA WeeksOfYear ==
    ASSUME NEW y \in Int
    PROVE  /\ WeekStart(y) \in Int
           /\ WeekStart(y + 1) = WeekStart(y) + 7 * weeksInWeekYear(y)
<1> DEFINE leaps(x) == x \div 4 - x \div 100 + x \div 400
           p == y + leaps(y)
           q == y - 1 + leaps(y - 1)
<1>1. p \in Int /\ q \in Int /\ (p = q + 1 \/ p = q + 2)
    OBVIOUS
<1>2. DateUTC(y, 1, 4) = DaysToYear(y) + 3 /\ DateUTC(y + 1, 1, 4) = DaysToYear(y + 1) + 3
    BY OrdinalDay, YearLength
<1>3. DaysToYear(y) = 364 * (y - 2000) + q - 2483 /\ DaysToYear(y + 1) = 364 * (y - 1999) + p - 2483
    BY DEF DaysToYear
<1>4. weeksInWeekYear(y) = IF p % 7 = 4 \/ q % 7 = 3 THEN 53 ELSE 52
    BY DEF weeksInWeekYear
<1> HIDE DEF p, q
<1>5. PICK a, b \in Int : a = DaysToYear(y) /\ b = DaysToYear(y + 1)
    BY <1>1, <1>3
<1>6. WeekStart(y) = a + 3 - (((a + 8) % 7) + 1) /\ WeekStart(y + 1) = b + 3 - (((b + 8) % 7) + 1)
    BY <1>2, <1>5 DEF WeekStart, dayOfWeek
<1>7. a = 364 * (y - 2000) + q - 2483 /\ b = a + 364 + p - q
    BY <1>1, <1>3, <1>5
<1>8. (a + 8) % 7 = (q + 3) % 7 /\ (b + 8) % 7 = (p + 3) % 7
    BY <1>1, <1>7
<1> QED  BY <1>1, <1>4, <1>6, <1>7, <1>8

\* The weeks between two days, of which w and a are the weekdays.
LEMMA WeekCount ==
    ASSUME NEW x \in Int, NEW z \in Int, NEW w \in Int, NEW a \in Int,
           w = ((x + 5) % 7) + 1, a = ((z + 8) % 7) + 1
    PROVE  /\ x + 5 = 7 * ((x + 5) \div 7) + w - 1
           /\ z + 8 = 7 * ((z + 8) \div 7) + a - 1
           /\ (x - z + 11 - w) \div 7 = ((x + 5) \div 7) - ((z + 8) \div 7) + 1
<1>1. PICK i, r \in Int : i = (x + 5) \div 7 /\ r = (x + 5) % 7 /\ 0 <= r /\ r < 7 /\ x + 5 = 7 * i + r
    OBVIOUS
<1>2. PICK j, q \in Int : j = (z + 8) \div 7 /\ q = (z + 8) % 7 /\ 0 <= q /\ q < 7 /\ z + 8 = 7 * j + q
    OBVIOUS
<1>3. w = r + 1 /\ a = q + 1
    BY <1>1, <1>2
<1>4. x - z + 11 - w = 7 * (i - j + 1) + (6 - q)
    BY <1>1, <1>2, <1>3
<1>5. (x - z + 11 - w) \div 7 = i - j + 1
    <2>1. PICK n, e \in Int : n = i - j + 1 /\ e = 6 - q /\ 0 <= e /\ e < 7
        BY <1>2
    <2>2. (7 * n + e) \div 7 = n
        BY <2>1
    <2>3. x - z + 11 - w = 7 * n + e
        BY <1>4, <2>1
    <2> QED  BY <2>1, <2>2, <2>3
<1> QED  BY <1>1, <1>2, <1>3, <1>5

\* A day and its week, counted from the first one of the year.
LEMMA WeekOfDay ==
    ASSUME NEW y, NEW m, NEW d, IsDate(y, m, d)
    PROVE  \E z \in Int, n \in Int, w \in 1..7 :
              /\ n \in 1..weeksInWeekYear(z)
              /\ w = dayOfWeek(y, m, d)
              /\ DateUTC(y, m, d) = WeekStart(z) + 7 * (n - 1) + w
              /\ weekOf(y, computeOrdinal(y, m, d), w)
                   = [weekYear |-> z, weekNumber |-> n, weekday |-> w]
<1>1. PICK day, dy, dz, l \in Int :
          /\ day = DateUTC(y, m, d) /\ dy = DaysToYear(y) /\ dz = DaysToYear(y + 1) /\ l = Ladder(y)[m]
          /\ y \in Int /\ d \in Int /\ day = dy + l + d - 1 /\ dy <= day /\ day < dz
    <2>1. y \in Int /\ y + 1 \in Int
        BY DEF IsDate
    <2>2. DaysToYear(y) \in Int /\ DaysToYear(y + 1) \in Int
        BY <2>1, YearLength
    <2>3. /\ DateUTC(y, m, d) = DaysToYear(y) + Ladder(y)[m] + d - 1
          /\ DateUTC(y, m, d) \in Int /\ d \in Int /\ Ladder(y)[m] \in Int
          /\ DaysToYear(y) <= DateUTC(y, m, d) /\ DateUTC(y, m, d) < DaysToYear(y + 1)
        BY DayInYear
    <2> QED  BY <2>1, <2>2, <2>3
<1>2. PICK w \in 1..7 : w = dayOfWeek(y, m, d) /\ w = ((day + 5) % 7) + 1
    BY <1>1 DEF dayOfWeek
<1>3. PICK a, b \in 1..7 : /\ a = dayOfWeek(y, 1, 4) /\ a = ((dy + 8) % 7) + 1
                           /\ b = dayOfWeek(y + 1, 1, 4)
    <2>1. DateUTC(y, 1, 4) = dy + 3 /\ DateUTC(y + 1, 1, 4) = dz + 3
        BY <1>1, OrdinalDay
    <2>2. dayOfWeek(y, 1, 4) = ((dy + 3 + 5) % 7) + 1 /\ dayOfWeek(y + 1, 1, 4) = ((dz + 3 + 5) % 7) + 1
        BY <2>1 DEF dayOfWeek
    <2>3. dy + 3 + 5 = dy + 8 /\ \A x \in Int : ((x + 3 + 5) % 7) + 1 \in 1..7
        OBVIOUS
    <2> QED  BY <2>2, <2>3
<1>4. WeekStart(y) = dy + 3 - a /\ WeekStart(y + 1) = dz + 3 - b
    BY <1>1, <1>3 DEF WeekStart
<1>5. PICK k \in Int : k = (computeOrdinal(y, m, d) - w + 10) \div 7
    BY <1>1, <1>2 DEF computeOrdinal
<1>6. k = (day - dy + 11 - w) \div 7
    <2>1. computeOrdinal(y, m, d) - w + 10 = day - dy + 11 - w
        BY <1>1, <1>2 DEF computeOrdinal
    <2> QED  BY <1>5, <2>1
<1>7. day = WeekStart(y) + 7 * (k - 1) + w
    <2>1. (day - dy + 11 - w) \div 7 = ((day + 5) \div 7) - ((dy + 8) \div 7) + 1
        BY <1>2, <1>3, WeekCount
    <2>2. day + 5 = 7 * ((day + 5) \div 7) + w - 1 /\ dy + 8 = 7 * ((dy + 8) \div 7) + a - 1
        BY <1>2, <1>3, WeekCount
    <2> QED  BY <1>2, <1>3, <1>4, <1>6, <2>1, <2>2
<1>8. PICK p, q \in Int : /\ p = weeksInWeekYear(y - 1) /\ q = weeksInWeekYear(y)
                          /\ p \in 52..53 /\ q \in 52..53
    BY DEF weeksInWeekYear
<1>9. /\ WeekStart(y) = WeekStart(y - 1) + 7 * p /\ WeekStart(y - 1) \in Int
      /\ WeekStart(y + 1) = WeekStart(y) + 7 * q
    <2>1. y - 1 \in Int /\ y - 1 + 1 = y
        BY <1>1
    <2> QED  BY <1>1, <1>8, <2>1, WeeksOfYear
<1>10. k >= 0 /\ k <= q + 1
    <2>1. 7 * k >= dy - WeekStart(y) + 7 - w
        BY <1>1, <1>2, <1>3, <1>4, <1>7
    <2>2. 7 * k <= dz - 1 - WeekStart(y) + 7 - w
        BY <1>1, <1>2, <1>3, <1>4, <1>7
    <2>3. 7 * k > -7
        BY <1>2, <1>3, <1>4, <1>1, <2>1
    <2>4. 7 * k < 7 * (q + 2)
        BY <1>1, <1>2, <1>3, <1>4, <1>8, <1>9, <2>2
    <2> QED  BY <1>8, <2>3, <2>4
<1>11. CASE k < 1
    <2>1. weekOf(y, computeOrdinal(y, m, d), w) = [weekYear |-> y - 1, weekNumber |-> p, weekday |-> w]
        BY <1>5, <1>8, <1>11 DEF weekOf, Extends
    <2>2. day = WeekStart(y - 1) + 7 * (p - 1) + w
        BY <1>1, <1>2, <1>7, <1>8, <1>9, <1>10, <1>11
    <2>3. y - 1 \in Int /\ p \in 1..weeksInWeekYear(y - 1)
        BY <1>1, <1>8
    <2> QED  BY <1>1, <1>2, <2>1, <2>2, <2>3
<1>12. CASE k > q
    <2>1. weekOf(y, computeOrdinal(y, m, d), w) = [weekYear |-> y + 1, weekNumber |-> 1, weekday |-> w]
        BY <1>5, <1>8, <1>12 DEF weekOf, Extends
    <2>2. k = q + 1
        BY <1>8, <1>10, <1>12
    <2>3. day = WeekStart(y + 1) + 7 * (1 - 1) + w
        BY <1>1, <1>2, <1>3, <1>4, <1>7, <1>8, <1>9, <2>2
    <2>4. y + 1 \in Int /\ 1 \in Int /\ 1 \in 1..weeksInWeekYear(y + 1)
        BY <1>1 DEF weeksInWeekYear
    <2> QED  BY <1>1, <1>2, <2>1, <2>3, <2>4
<1>13. CASE ~(k < 1) /\ ~(k > q)
    <2>1. weekOf(y, computeOrdinal(y, m, d), w) = [weekYear |-> y, weekNumber |-> k, weekday |-> w]
        BY <1>5, <1>8, <1>13 DEF weekOf, Extends
    <2>2. k \in 1..weeksInWeekYear(y)
        BY <1>8, <1>13
    <2> QED  BY <1>1, <1>2, <1>7, <2>1, <2>2
<1> QED  BY <1>11, <1>12, <1>13

\* The day of a week date.
LEMMA DayOfWeekDate ==
    ASSUME NEW z \in Int, NEW n \in Int, NEW w \in 1..7, n \in 1..weeksInWeekYear(z)
    PROVE  \E x, e :
              /\ carryOrdinal(z, n * 7 + w - dayOfWeek(z, 1, 4) - 3) = [year |-> x, month |-> 1, day |-> e]
              /\ DateUTC(x, 1, e) = WeekStart(z) + 7 * (n - 1) + w
<1>1. PICK dz \in Int : dz = DaysToYear(z)
    BY YearLength
<1>2. PICK a \in 1..7 : a = dayOfWeek(z, 1, 4)
    <2>1. DateUTC(z, 1, 4) = dz + 3
        BY <1>1, OrdinalDay
    <2> QED  BY <2>1 DEF dayOfWeek
<1>3. 1 <= n /\ n <= 53
    BY DEF weeksInWeekYear
<1>4. PICK r \in Int : r = n * 7 + w - a - 3
    OBVIOUS
<1>5. 1 - daysInYear(z - 1) <= r /\ r <= daysInYear(z) + daysInYear(z + 1)
    BY <1>3, <1>4 DEF daysInYear
<1>6. PICK x, e : /\ carryOrdinal(z, r) = [year |-> x, month |-> 1, day |-> e]
                  /\ DateUTC(x, 1, e) = dz + r - 1
    BY <1>1, <1>5, CarriedDay
<1>7. dz + r - 1 = WeekStart(z) + 7 * (n - 1) + w
    BY <1>1, <1>2, <1>4 DEF WeekStart
<1> QED  BY <1>2, <1>4, <1>6, <1>7

\* A week date and a day of the year, with a time of day.
WeekObject(z, n, w, h, mi, s) ==
    [weekYear |-> z, weekNumber |-> n, weekday |-> w, hour |-> h, minute |-> mi, second |-> s]

OrdinalObject(y, n, h, mi, s) ==
    [year |-> y, ordinal |-> n, hour |-> h, minute |-> mi, second |-> s]

\* A time as a week date: it is valid, and stands for the same local time.
LEMMA WeekDate ==
    ASSUME NEW y, NEW m, NEW d, NEW h, NEW mi, NEW s, IsDate(y, m, d)
    PROVE  \E z, n, w :
              /\ gregorianToWeek(Object(y, m, d, h, mi, s)) = WeekObject(z, n, w, h, mi, s)
              /\ ~hasInvalidWeekData(WeekObject(z, n, w, h, mi, s))
              /\ objToLocalTS(weekToGregorian(WeekObject(z, n, w, h, mi, s)))
                   = objToLocalTS(Object(y, m, d, h, mi, s))
<1>1. PICK z \in Int, n \in Int, w \in 1..7 :
          /\ n \in 1..weeksInWeekYear(z)
          /\ w = dayOfWeek(y, m, d)
          /\ DateUTC(y, m, d) = WeekStart(z) + 7 * (n - 1) + w
          /\ weekOf(y, computeOrdinal(y, m, d), w)
               = [weekYear |-> z, weekNumber |-> n, weekday |-> w]
    BY WeekOfDay
<1>2. PICK x, e :
          /\ carryOrdinal(z, n * 7 + w - dayOfWeek(z, 1, 4) - 3) = [year |-> x, month |-> 1, day |-> e]
          /\ DateUTC(x, 1, e) = WeekStart(z) + 7 * (n - 1) + w
    BY <1>1, DayOfWeekDate
<1> DEFINE date == WeekObject(z, n, w, h, mi, s)
<1>3. gregorianToWeek(Object(y, m, d, h, mi, s)) = date
    <2>1. gregorianToWeek(Object(y, m, d, h, mi, s))
             = Extends(weekOf(y, computeOrdinal(y, m, d), w), [hour |-> h, minute |-> mi, second |-> s])
        BY <1>1 DEF gregorianToWeek, Object, timeObject
    <2>2. gregorianToWeek(Object(y, m, d, h, mi, s))
             = Extends([weekYear |-> z, weekNumber |-> n, weekday |-> w],
                       [hour |-> h, minute |-> mi, second |-> s])
        BY <1>1, <2>1
    <2> QED  BY <2>2 DEF Extends, WeekObject
<1>4. ~hasInvalidWeekData(date)
    BY <1>1 DEF hasInvalidWeekData, WeekObject
<1>5. weekToGregorian(date) = Object(x, 1, e, h, mi, s)
    <2>1. weekToGregorian(date)
             = Extends([year |-> x, month |-> 1, day |-> e], [hour |-> h, minute |-> mi, second |-> s])
        BY <1>2 DEF weekToGregorian, WeekObject, timeObject
    <2> QED  BY <2>1, ExtendsDate
<1>6. objToLocalTS(Object(x, 1, e, h, mi, s)) = objToLocalTS(Object(y, m, d, h, mi, s))
    BY <1>1, <1>2 DEF objToLocalTS, Object
<1> HIDE DEF date
<1> QED  BY <1>3, <1>4, <1>5, <1>6 DEF date

\* A time as a day of its year.
LEMMA OrdinalDate ==
    ASSUME NEW y, NEW m, NEW d, NEW h, NEW mi, NEW s, IsDate(y, m, d)
    PROVE  \E n :
              /\ gregorianToOrdinal(Object(y, m, d, h, mi, s)) = OrdinalObject(y, n, h, mi, s)
              /\ ~hasInvalidOrdinalData(OrdinalObject(y, n, h, mi, s))
              /\ objToLocalTS(ordinalToGregorian(OrdinalObject(y, n, h, mi, s)))
                   = objToLocalTS(Object(y, m, d, h, mi, s))
<1>1. y \in Int
    BY DEF IsDate
<1>2. PICK day, dy, dz, l \in Int :
          /\ day = DateUTC(y, m, d) /\ dy = DaysToYear(y) /\ dz = DaysToYear(y + 1) /\ l = Ladder(y)[m]
          /\ d \in Int /\ day = dy + l + d - 1 /\ dy <= day /\ day < dz /\ dz = dy + daysInYear(y)
    <2>1. /\ DaysToYear(y) \in Int /\ DaysToYear(y + 1) \in Int
          /\ DaysToYear(y + 1) = DaysToYear(y) + daysInYear(y)
        BY <1>1, YearLength
    <2>2. /\ DateUTC(y, m, d) = DaysToYear(y) + Ladder(y)[m] + d - 1
          /\ DateUTC(y, m, d) \in Int /\ d \in Int /\ Ladder(y)[m] \in Int
          /\ DaysToYear(y) <= DateUTC(y, m, d) /\ DateUTC(y, m, d) < DaysToYear(y + 1)
        BY DayInYear
    <2> QED  BY <2>1, <2>2
<1>3. PICK n \in Int : n = computeOrdinal(y, m, d) /\ n = d + l
    BY <1>2 DEF computeOrdinal
<1>4. daysInYear(y) \in Int
    BY DEF daysInYear
<1>5. n \in 1..daysInYear(y) /\ 1 <= n /\ day = dy + n - 1
    <2>1. day = dy + n - 1
        BY <1>2, <1>3
    <2>2. dy <= dy + n - 1 /\ dy + n - 1 < dy + daysInYear(y)
        BY <1>2, <2>1
    <2> QED  BY <1>4, <2>1, <2>2
<1>6. uncomputeOrdinal(y, n) = [year |-> y, month |-> 1, day |-> n] /\ DateUTC(y, 1, n) = day
    BY <1>1, <1>2, <1>5, OrdinalDay
<1>7. gregorianToOrdinal(Object(y, m, d, h, mi, s)) = OrdinalObject(y, n, h, mi, s)
    <2>1. gregorianToOrdinal(Object(y, m, d, h, mi, s))
             = Extends([year |-> y, ordinal |-> n], [hour |-> h, minute |-> mi, second |-> s])
        BY <1>3 DEF gregorianToOrdinal, Object, timeObject
    <2> QED  BY <2>1 DEF Extends, OrdinalObject
<1>8. ~hasInvalidOrdinalData(OrdinalObject(y, n, h, mi, s))
    BY <1>5 DEF hasInvalidOrdinalData, OrdinalObject
<1>9. ordinalToGregorian(OrdinalObject(y, n, h, mi, s)) = Object(y, 1, n, h, mi, s)
    <2>1. ordinalToGregorian(OrdinalObject(y, n, h, mi, s))
             = Extends([year |-> y, month |-> 1, day |-> n], [hour |-> h, minute |-> mi, second |-> s])
        BY <1>6 DEF ordinalToGregorian, OrdinalObject, timeObject
    <2> QED  BY <2>1, ExtendsDate
<1>10. objToLocalTS(Object(y, 1, n, h, mi, s)) = objToLocalTS(Object(y, m, d, h, mi, s))
    <2>1. DateUTC(y, 1, n) = DateUTC(y, m, d)
        BY <1>2, <1>6
    <2> QED  BY <2>1 DEF objToLocalTS, Object
<1> QED  BY <1>7, <1>8, <1>9, <1>10

-----------------------------------------------------------------------------
(* Times taken apart and put together again.                               *)

\* A zone knows its offset at every instant.
IsZone(zone) == zone.type # "invalid" /\ \A ts \in Int : zoneOffset(zone, ts) \in Int

\* Every zone that the calendar is asked about is one.
LEMMA ZonesKnown == \A zone \in AllZones : IsZone(zone)
<1>1. ASSUME NEW zone \in Zones PROVE IsZone(zone)
    <2>1. zone.type = "iana" /\ zone.offset \in Int /\ zone.dst \in Int
        BY ZoneAssumption DEF IANAZone
    <2> QED  BY <2>1 DEF IsZone, zoneOffset
<1>2. ASSUME NEW o \in Offsets PROVE IsZone(FixedOffsetZone(o))
    <2>1. o \in Int
        BY ClockAssumption
    <2> QED  BY <2>1 DEF IsZone, zoneOffset, FixedOffsetZone
<1> QED  BY <1>1, <1>2 DEF AllZones

\* With the offset of an instant as the guess, fixOffset takes a local time of
\* that instant back to it, also when the zone reads it twice.
LEMMA SameInstant ==
    ASSUME NEW zone, IsZone(zone), NEW ts \in Int, NEW c,
           objToLocalTS(c) = ts + 60 * zoneOffset(zone, ts)
    PROVE  objToTS(c, zoneOffset(zone, ts), zone) = <<ts, zoneOffset(zone, ts)>>
<1>1. PICK o \in Int : o = zoneOffset(zone, ts)
    BY DEF IsZone
<1>2. PICK l \in Int : l = objToLocalTS(c) /\ l = ts + 60 * o
    BY <1>1
<1>3. l - 60 * o = ts
    BY <1>2
<1>4. fixOffset(l, o, zone) = <<ts, o>>
    BY <1>1, <1>3 DEF fixOffset
<1> QED  BY <1>1, <1>2, <1>4 DEF objToTS

\* What is complete stays as it is.
LEMMA Complete ==
    ASSUME NEW obj, NEW units, NEW objNow, obj = [u \in DOMAIN obj |-> obj[u]],
           \A i \in DOMAIN units : units[i] \in DOMAIN obj
    PROVE  completed(obj, units, objNow) = obj
<1> DEFINE filled == [u \in {units[i] : i \in DOMAIN units} |->
                        IF \A k \in 1..(CHOOSE i \in DOMAIN units : units[i] = u) : units[k] \notin DOMAIN obj
                          THEN objNow[u] ELSE IF u \in {"hour", "minute", "second"} THEN 0 ELSE 1]
<1>1. completed(obj, units, objNow) = Extends(filled, obj)
    BY DEF completed
<1>2. DOMAIN filled \cup DOMAIN obj = DOMAIN obj
    OBVIOUS
<1> HIDE DEF filled
<1>3. Extends(filled, obj) = [u \in DOMAIN obj |-> IF u \in DOMAIN obj THEN obj[u] ELSE filled[u]]
    BY <1>2 DEF Extends
<1> QED  BY <1>1, <1>3

\* The time of day and the date are those of now where they are not given.
LEMMA CompleteTime ==
    ASSUME NEW y, NEW m, NEW d, NEW h, NEW mi, NEW s
    PROVE  completed([hour |-> h, minute |-> mi, second |-> s], orderedUnitsOf["date"],
                     Object(y, m, d, h, mi, s)) = Object(y, m, d, h, mi, s)
<1> DEFINE obj == [hour |-> h, minute |-> mi, second |-> s]
           units == <<"year", "month", "day", "hour", "minute", "second">>
           index(u) == CHOOSE i \in DOMAIN units : units[i] = u
           before(i) == \A k \in 1..i : units[k] \notin DOMAIN obj
           filled == [u \in {units[i] : i \in DOMAIN units} |->
                         IF before(index(u)) THEN Object(y, m, d, h, mi, s)[u]
                         ELSE IF u \in {"hour", "minute", "second"} THEN 0 ELSE 1]
<1>1. orderedUnitsOf["date"] = units
    BY DEF orderedUnitsOf
<1>2. completed(obj, units, Object(y, m, d, h, mi, s)) = Extends(filled, obj)
    BY DEF completed
<1>3. index("year") = 1 /\ index("month") = 2 /\ index("day") = 3
    OBVIOUS
<1>4. before(1) /\ before(2) /\ before(3)
    OBVIOUS
<1>5. DOMAIN filled = {"year", "month", "day", "hour", "minute", "second"}
    OBVIOUS
<1>6. filled["year"] = y /\ filled["month"] = m /\ filled["day"] = d
    <2> HIDE DEF before, index
    <2> QED  BY <1>3, <1>4, <1>5 DEF Object
<1> HIDE DEF filled
<1>7. Extends(filled, obj) = Object(y, m, d, h, mi, s)
    BY <1>5, <1>6 DEF Extends, Object
<1> QED  BY <1>1, <1>2, <1>7

\* The year of now, the day given, and midnight.
LEMMA CompleteDay ==
    ASSUME NEW y, NEW m, NEW d, NEW h, NEW mi, NEW s
    PROVE  completed([month |-> m, day |-> d], orderedUnitsOf["date"],
                     Object(y, m, d, h, mi, s)) = Object(y, m, d, 0, 0, 0)
<1> DEFINE obj == [month |-> m, day |-> d]
           units == <<"year", "month", "day", "hour", "minute", "second">>
           index(u) == CHOOSE i \in DOMAIN units : units[i] = u
           before(i) == \A k \in 1..i : units[k] \notin DOMAIN obj
           filled == [u \in {units[i] : i \in DOMAIN units} |->
                         IF before(index(u)) THEN Object(y, m, d, h, mi, s)[u]
                         ELSE IF u \in {"hour", "minute", "second"} THEN 0 ELSE 1]
<1>1. orderedUnitsOf["date"] = units
    BY DEF orderedUnitsOf
<1>2. completed(obj, units, Object(y, m, d, h, mi, s)) = Extends(filled, obj)
    BY DEF completed
<1>3. index("year") = 1 /\ index("hour") = 4 /\ index("minute") = 5 /\ index("second") = 6
    OBVIOUS
<1>4. before(1) /\ ~before(4) /\ ~before(5) /\ ~before(6)
    <2>1. 2 \in 1..4 /\ 2 \in 1..5 /\ 2 \in 1..6 /\ units[2] \in DOMAIN obj
        OBVIOUS
    <2> QED  BY <2>1
<1>5. DOMAIN filled = {"year", "month", "day", "hour", "minute", "second"}
    OBVIOUS
<1>6. filled["year"] = y /\ filled["hour"] = 0 /\ filled["minute"] = 0 /\ filled["second"] = 0
    <2> HIDE DEF before, index
    <2> QED  BY <1>3, <1>4, <1>5 DEF Object
<1> HIDE DEF filled
<1>7. Extends(filled, obj) = Object(y, m, d, 0, 0, 0)
    BY <1>5, <1>6 DEF Extends, Object
<1> QED  BY <1>1, <1>2, <1>7

\* c is what the instant ts reads as in the zone.
Reads(c, ts, zone) ==
    /\ IsZone(zone) /\ ts \in Int
    /\ c = tsToObj(ts, zoneOffset(zone, ts))
    /\ objToLocalTS(c) = ts + 60 * zoneOffset(zone, ts)

\* The DateTime of an instant, and every way back to it from its local time.
LEMMA ReadTime ==
    ASSUME NEW c, NEW ts, NEW zone, Reads(c, ts, zone)
    PROVE  LET t == DateTime(ts, zone) IN
           /\ t.isValid /\ t.ts = ts /\ t.zone = zone /\ t.o = zoneOffset(zone, ts) /\ t.c = c
           /\ \A b : objToLocalTS(b) = objToLocalTS(c) =>
                 /\ objToTS(b, t.o, zone) = <<ts, t.o>>
                 /\ DateTime(objToTS(b, t.o, zone)[1], zone) = t
<1> DEFINE t == DateTime(ts, zone)
<1>1. t.isValid /\ t.ts = ts /\ t.zone = zone /\ t.o = zoneOffset(zone, ts) /\ t.c = c
    BY DEF DateTime, Reads, IsZone
<1> HIDE DEF t
<1>2. ASSUME NEW b, objToLocalTS(b) = objToLocalTS(c)
      PROVE  objToTS(b, t.o, zone) = <<ts, t.o>> /\ DateTime(objToTS(b, t.o, zone)[1], zone) = t
    <2>1. objToTS(b, zoneOffset(zone, ts), zone) = <<ts, zoneOffset(zone, ts)>>
        BY <1>2, SameInstant DEF Reads
    <2> QED  BY <1>1, <2>1 DEF t
<1> QED  BY <1>1, <1>2 DEF t

\* set, to the week date or the day of the year that the time already has.
LEMMA SetRoundTrip ==
    ASSUME NEW y, NEW m, NEW d, NEW h, NEW mi, NEW s, IsDate(y, m, d), NEW c,
           c = Object(y, m, d, h, mi, s), NEW ts, NEW zone, Reads(c, ts, zone)
    PROVE  LET t == DateTime(ts, zone) IN
           /\ set(t, gregorianToWeek(c)) = t
           /\ set(t, [ordinal |-> gregorianToOrdinal(c).ordinal]) = t
<1> DEFINE t == DateTime(ts, zone)
<1>1. /\ t.isValid /\ t.ts = ts /\ t.zone = zone /\ t.c = c
      /\ \A b : objToLocalTS(b) = objToLocalTS(c) => DateTime(objToTS(b, t.o, zone)[1], zone) = t
    BY ReadTime
<1> HIDE DEF t
<1>2. set(t, gregorianToWeek(c)) = t
    <2>1. PICK z, n, w :
              /\ gregorianToWeek(c) = WeekObject(z, n, w, h, mi, s)
              /\ objToLocalTS(weekToGregorian(WeekObject(z, n, w, h, mi, s))) = objToLocalTS(c)
        BY WeekDate
    <2>2. kindOf(WeekObject(z, n, w, h, mi, s)) = "week"
        BY DEF kindOf, WeekObject
    <2>3. Extends(WeekObject(z, n, w, h, mi, s), WeekObject(z, n, w, h, mi, s)) = WeekObject(z, n, w, h, mi, s)
        BY DEF Extends, WeekObject
    <2>4. mixed(c, gregorianToWeek(c)) = weekToGregorian(WeekObject(z, n, w, h, mi, s))
        BY <2>1, <2>2, <2>3 DEF mixed, toKind, toGregorian
    <2> QED  BY <1>1, <2>1, <2>4 DEF set
<1>3. set(t, [ordinal |-> gregorianToOrdinal(c).ordinal]) = t
    <2>1. PICK n :
              /\ gregorianToOrdinal(c) = OrdinalObject(y, n, h, mi, s)
              /\ objToLocalTS(ordinalToGregorian(OrdinalObject(y, n, h, mi, s))) = objToLocalTS(c)
        BY OrdinalDate
    <2>2. gregorianToOrdinal(c).ordinal = n /\ kindOf([ordinal |-> n]) = "ordinal"
        BY <2>1 DEF kindOf, OrdinalObject
    <2>3. Extends(OrdinalObject(y, n, h, mi, s), [ordinal |-> n]) = OrdinalObject(y, n, h, mi, s)
        BY DEF Extends, OrdinalObject
    <2>4. mixed(c, [ordinal |-> n]) = ordinalToGregorian(OrdinalObject(y, n, h, mi, s))
        BY <2>1, <2>2, <2>3 DEF mixed, toKind, toGregorian
    <2> QED  BY <1>1, <2>1, <2>2, <2>4 DEF set
<1> QED  BY <1>2, <1>3 DEF t

\* A time of day is in its ranges.
LEMMA ValidTime ==
    ASSUME NEW c, IsTime(c.hour, c.minute, c.second)
    PROVE  ~hasInvalidTimeData(c)
BY DEF IsTime, hasInvalidTimeData

\* fromObject, of a week date, a day of the year, a time of day, a month and a day.
LEMMA ObjectRoundTrip ==
    ASSUME NEW y, NEW m, NEW d, NEW h, NEW mi, NEW s, IsDate(y, m, d), IsTime(h, mi, s), NEW c,
           c = Object(y, m, d, h, mi, s), NEW ts, NEW zone, Reads(c, ts, zone)
    PROVE  LET t == DateTime(ts, zone) IN
           /\ fromObject(gregorianToWeek(c), ts, zone) = t
           /\ fromObject(gregorianToOrdinal(c), ts, zone) = t
           /\ fromObject(c, ts, zone) = t
           /\ fromObject(timeObject(c), ts, zone) = t
           /\ fromObject([month |-> m, day |-> d], ts, zone)
                = DateTime(objToTS(Object(y, m, d, 0, 0, 0), t.o, zone)[1], zone)
<1> DEFINE t == DateTime(ts, zone)
<1>1. /\ t.o = zoneOffset(zone, ts)
      /\ \A b : objToLocalTS(b) = objToLocalTS(c) => DateTime(objToTS(b, t.o, zone)[1], zone) = t
    BY ReadTime
<1> HIDE DEF t
<1>2. zone.type # "invalid" /\ tsToObj(ts, zoneOffset(zone, ts)) = c
    BY DEF Reads, IsZone
<1>3. ASSUME NEW obj, NEW kind, kindOf(obj) = kind
      PROVE  fromObject(obj, ts, zone)
               = fromNormalized(completed(obj, orderedUnitsOf[kind], toKind(c, kind)), kind, t.o, zone)
    BY <1>1, <1>2, <1>3 DEF fromObject
<1>4. fromObject(gregorianToWeek(c), ts, zone) = t
    <2>1. PICK z, n, w :
              /\ gregorianToWeek(c) = WeekObject(z, n, w, h, mi, s)
              /\ ~hasInvalidWeekData(WeekObject(z, n, w, h, mi, s))
              /\ objToLocalTS(weekToGregorian(WeekObject(z, n, w, h, mi, s))) = objToLocalTS(c)
        BY WeekDate
    <2> DEFINE obj == WeekObject(z, n, w, h, mi, s)
    <2>2. kindOf(obj) = "week"
        BY DEF kindOf, WeekObject
    <2>3. completed(obj, orderedUnitsOf["week"], toKind(c, "week")) = obj
        <3>1. obj = [u \in DOMAIN obj |-> obj[u]]
            BY DEF WeekObject
        <3>2. \A i \in DOMAIN orderedUnitsOf["week"] : orderedUnitsOf["week"][i] \in DOMAIN obj
            BY DEF WeekObject, orderedUnitsOf
        <3> HIDE DEF obj
        <3> QED  BY <3>1, <3>2, Complete
    <2>4. ~hasInvalidTimeData(obj)
        BY ValidTime DEF WeekObject
    <2> HIDE DEF obj
    <2>5. fromObject(obj, ts, zone) = fromNormalized(obj, "week", t.o, zone)
        BY <1>3, <2>2, <2>3
    <2>6. fromNormalized(obj, "week", t.o, zone) = DateTime(objToTS(weekToGregorian(obj), t.o, zone)[1], zone)
        BY <2>1, <2>4 DEF fromNormalized, higherOrderInvalid, toGregorian, obj
    <2> QED  BY <1>1, <2>1, <2>5, <2>6 DEF obj
<1>5. fromObject(gregorianToOrdinal(c), ts, zone) = t
    <2>1. PICK n :
              /\ gregorianToOrdinal(c) = OrdinalObject(y, n, h, mi, s)
              /\ ~hasInvalidOrdinalData(OrdinalObject(y, n, h, mi, s))
              /\ objToLocalTS(ordinalToGregorian(OrdinalObject(y, n, h, mi, s))) = objToLocalTS(c)
        BY OrdinalDate
    <2> DEFINE obj == OrdinalObject(y, n, h, mi, s)
    <2>2. kindOf(obj) = "ordinal"
        BY DEF kindOf, OrdinalObject
    <2>3. completed(obj, orderedUnitsOf["ordinal"], toKind(c, "ordinal")) = obj
        <3>1. obj = [u \in DOMAIN obj |-> obj[u]]
            BY DEF OrdinalObject
        <3>2. \A i \in DOMAIN orderedUnitsOf["ordinal"] : orderedUnitsOf["ordinal"][i] \in DOMAIN obj
            BY DEF OrdinalObject, orderedUnitsOf
        <3> HIDE DEF obj
        <3> QED  BY <3>1, <3>2, Complete
    <2>4. ~hasInvalidTimeData(obj)
        BY ValidTime DEF OrdinalObject
    <2> HIDE DEF obj
    <2>5. fromObject(obj, ts, zone) = fromNormalized(obj, "ordinal", t.o, zone)
        BY <1>3, <2>2, <2>3
    <2>6. fromNormalized(obj, "ordinal", t.o, zone) = DateTime(objToTS(ordinalToGregorian(obj), t.o, zone)[1], zone)
        BY <2>1, <2>4 DEF fromNormalized, higherOrderInvalid, toGregorian, obj
    <2> QED  BY <1>1, <2>1, <2>5, <2>6 DEF obj
<1>6. ASSUME NEW b, NEW hh, NEW mm, NEW ss, b = Object(y, m, d, hh, mm, ss), IsTime(hh, mm, ss)
      PROVE  fromNormalized(b, "date", t.o, zone) = DateTime(objToTS(b, t.o, zone)[1], zone)
    <2>1. ~hasInvalidTimeData(b)
        BY <1>6, ValidTime DEF Object
    <2>2. ~hasInvalidGregorianData(b)
        BY <1>6 DEF hasInvalidGregorianData, Object, IsDate
    <2> QED  BY <2>1, <2>2 DEF fromNormalized, higherOrderInvalid, toGregorian
<1>7. toKind(c, "date") = c
    BY DEF toKind
<1>8. fromObject(c, ts, zone) = t
    <2>1. kindOf(c) = "date"
        BY DEF kindOf, Object
    <2>2. completed(c, orderedUnitsOf["date"], c) = c
        <3>1. c = [u \in DOMAIN c |-> c[u]]
            BY DEF Object
        <3>2. \A i \in DOMAIN orderedUnitsOf["date"] : orderedUnitsOf["date"][i] \in DOMAIN c
            BY DEF Object, orderedUnitsOf
        <3> QED  BY <3>1, <3>2, Complete
    <2> QED  BY <1>1, <1>3, <1>6, <1>7, <2>1, <2>2
<1>9. fromObject(timeObject(c), ts, zone) = t
    <2>1. timeObject(c) = [hour |-> h, minute |-> mi, second |-> s]
        BY DEF timeObject, Object
    <2>2. kindOf(timeObject(c)) = "date"
        BY <2>1 DEF kindOf
    <2>3. completed(timeObject(c), orderedUnitsOf["date"], c) = c
        BY <2>1, CompleteTime
    <2> QED  BY <1>1, <1>3, <1>6, <1>7, <2>2, <2>3
<1>10. fromObject([month |-> m, day |-> d], ts, zone)
          = DateTime(objToTS(Object(y, m, d, 0, 0, 0), t.o, zone)[1], zone)
    <2>1. kindOf([month |-> m, day |-> d]) = "date"
        BY DEF kindOf
    <2>2. completed([month |-> m, day |-> d], orderedUnitsOf["date"], c) = Object(y, m, d, 0, 0, 0)
        BY CompleteDay
    <2>3. IsTime(0, 0, 0)
        BY DEF IsTime
    <2> QED  BY <1>3, <1>6, <1>7, <2>1, <2>2, <2>3
<1> QED  BY <1>4, <1>5, <1>8, <1>9, <1>10 DEF t

\* The starts of the day and of the year.
LEMMA UnitStarts ==
    ASSUME NEW y, NEW m, NEW d, NEW h, NEW mi, NEW s, IsDate(y, m, d), NEW t, t.isValid,
           t.c = Object(y, m, d, h, mi, s)
    PROVE  /\ startOf(t, "days") = DateTime(objToTS(Object(y, m, d, 0, 0, 0), t.o, t.zone)[1], t.zone)
           /\ startOf(t, "years") = DateTime(objToTS(Object(y, 1, 1, 0, 0, 0), t.o, t.zone)[1], t.zone)
<1>1. mixed(t.c, Midnight) = Object(y, m, d, 0, 0, 0)
    <2>1. kindOf(Midnight) = "date" /\ "day" \notin DOMAIN Midnight
        BY DEF kindOf, Midnight
    <2>2. Extends(t.c, Midnight) = Object(y, m, d, 0, 0, 0)
        BY DEF Extends, Midnight, Object
    <2>3. lastDayAtMost(Object(y, m, d, 0, 0, 0)) = Object(y, m, d, 0, 0, 0)
        <3>1. daysInMonth(y, m) \in Int
            BY LadderInt DEF IsDate
        <3>2. d < daysInMonth(y, m) \/ d = daysInMonth(y, m)
            BY <3>1 DEF IsDate
        <3>3. [Object(y, m, d, 0, 0, 0) EXCEPT !.day = d] = Object(y, m, d, 0, 0, 0)
            BY DEF Object
        <3>4. /\ Object(y, m, d, 0, 0, 0).day = d
              /\ daysInMonth(Object(y, m, d, 0, 0, 0).year, Object(y, m, d, 0, 0, 0).month) = daysInMonth(y, m)
            BY DEF Object
        <3> QED  BY <3>2, <3>3, <3>4 DEF lastDayAtMost
    <2> QED  BY <2>1, <2>2, <2>3 DEF mixed
<1>2. mixed(t.c, Extends([month |-> 1, day |-> 1], Midnight)) = Object(y, 1, 1, 0, 0, 0)
    <2>1. Extends([month |-> 1, day |-> 1], Midnight)
             = [month |-> 1, day |-> 1, hour |-> 0, minute |-> 0, second |-> 0]
        BY DEF Extends, Midnight
    <2> DEFINE values == [month |-> 1, day |-> 1, hour |-> 0, minute |-> 0, second |-> 0]
    <2>2. kindOf(values) = "date" /\ "day" \in DOMAIN values
        BY DEF kindOf
    <2>3. Extends(t.c, values) = Object(y, 1, 1, 0, 0, 0)
        BY DEF Extends, Object
    <2> HIDE DEF values
    <2>4. mixed(t.c, values) = Object(y, 1, 1, 0, 0, 0)
        BY <2>2, <2>3 DEF mixed, toKind, toGregorian
    <2> QED  BY <2>1, <2>4 DEF values
<1>3. startOf(t, "days") = set(t, Midnight)
    BY DEF startOf
<1>4. startOf(t, "years") = set(t, Extends([month |-> 1, day |-> 1], Midnight))
    BY DEF startOf
<1> QED  BY <1>1, <1>2, <1>3, <1>4 DEF set

\* local and utc, of a complete time and of a year.
LEMMA QuickRoundTrip ==
    ASSUME NEW y, NEW m, NEW d, NEW h, NEW mi, NEW s, IsDate(y, m, d), IsTime(h, mi, s), NEW c,
           c = Object(y, m, d, h, mi, s), NEW ts, NEW zone, Reads(c, ts, zone)
    PROVE  LET t == DateTime(ts, zone) IN
           /\ quickDT(c, ts, zone) = t
           /\ quickDT([year |-> y], ts, zone)
                = DateTime(objToTS(Object(y, 1, 1, 0, 0, 0), t.o, zone)[1], zone)
<1> DEFINE t == DateTime(ts, zone)
<1>1. /\ t.o = zoneOffset(zone, ts)
      /\ DateTime(objToTS(c, t.o, zone)[1], zone) = t
    BY ReadTime
<1> HIDE DEF t
<1>2. Extends([month |-> 1, day |-> 1], Midnight)
         = [month |-> 1, day |-> 1, hour |-> 0, minute |-> 0, second |-> 0]
    BY DEF Extends, Midnight
<1> DEFINE least == [month |-> 1, day |-> 1, hour |-> 0, minute |-> 0, second |-> 0]
<1>3. quickDT(c, ts, zone) = t
    <2>1. Extends(least, c) = c /\ "year" \in DOMAIN c
        BY DEF Extends, Object
    <2>2. ~hasInvalidTimeData(c)
        BY ValidTime DEF Object
    <2>3. ~hasInvalidGregorianData(c)
        BY DEF hasInvalidGregorianData, Object, IsDate
    <2> HIDE DEF least
    <2> QED  BY <1>1, <1>2, <2>1, <2>2, <2>3 DEF quickDT, least
<1>4. quickDT([year |-> y], ts, zone) = DateTime(objToTS(Object(y, 1, 1, 0, 0, 0), t.o, zone)[1], zone)
    <2> DEFINE first == Object(y, 1, 1, 0, 0, 0)
    <2>1. Extends(least, [year |-> y]) = first /\ "year" \in DOMAIN [year |-> y]
        BY DEF Extends, Object
    <2>2. ~hasInvalidTimeData(first)
        BY ValidTime DEF Object, IsTime
    <2>3. ~hasInvalidGregorianData(first)
        <3>1. y \in Int /\ 1 \in 1..12
            BY DEF IsDate
        <3>2. daysInMonth(y, 1) \in 28..31
            BY <3>1, MonthDays
        <3>3. 1 \in 1..daysInMonth(y, 1)
            BY <3>2
        <3> QED  BY <3>1, <3>3 DEF hasInvalidGregorianData, Object
    <2> HIDE DEF least, first
    <2>4. quickDT([year |-> y], ts, zone) = DateTime(objToTS(first, zoneOffset(zone, ts), zone)[1], zone)
        BY <1>2, <2>1, <2>2, <2>3 DEF quickDT, least
    <2> QED  BY <1>1, <2>4 DEF first
<1> QED  BY <1>3, <1>4 DEF t

\* The hours and minutes of a text are those of the offset, of either sign.
LEMMA OffsetRoundTrip ==
    ASSUME NEW o \in Int
    PROVE  LET abs == IF o < 0 THEN -o ELSE o
           IN  signedOffset(o < 0, abs \div 60, abs % 60) = o
<1>1. \A n \in Int : 60 * (n \div 60) + (n % 60) = n /\ n \div 60 \in Int /\ n % 60 \in Int
    OBVIOUS
<1>2. CASE o < 0
    BY <1>1, <1>2 DEF signedOffset
<1>3. CASE ~(o < 0)
    BY <1>1, <1>3 DEF signedOffset
<1> QED  BY <1>2, <1>3

\* An instant, read at any integer offset and put together at that offset.
LEMMA ReadsOwn ==
    ASSUME NEW zone, IsZone(zone), NEW ts \in Int
    PROVE  /\ Reads(tsToObj(ts, zoneOffset(zone, ts)), ts, zone)
           /\ IsObject(tsToObj(ts, zoneOffset(zone, ts)))
<1>1. zoneOffset(zone, ts) \in Int
    BY DEF IsZone
<1> QED  BY <1>1, ObjectOfTS DEF Reads

\* toISO and fromISO: the text names the offset, is read at that offset, and
\* then told in the zone that is asked for.
LEMMA IsoText ==
    ASSUME NEW y, NEW m, NEW d, NEW h, NEW mi, NEW s, IsDate(y, m, d), IsTime(h, mi, s), NEW c,
           c = Object(y, m, d, h, mi, s), NEW ts, NEW zone, Reads(c, ts, zone),
           NEW other, other.type # "invalid"
    PROVE  LET text == toISO(DateTime(ts, zone)) IN
           parseISODate(text)[1] = c /\ fromISO(text, other) = DateTime(ts, other)
<1> DEFINE t == DateTime(ts, zone)
           text == toISO(t)
<1>1. PICK o \in Int : o = zoneOffset(zone, ts)
    BY DEF Reads, IsZone
<1>2. t.isValid /\ t.o = o /\ t.c = c
    BY <1>1, ReadTime
<1> HIDE DEF t
<1>3. /\ text.time = [hour |-> h, minute |-> mi, second |-> s]
      /\ text.date = [year |-> y, month |-> m, day |-> d]
      /\ text.negative = (o < 0)
      /\ text.hours = (IF o < 0 THEN -o ELSE o) \div 60
      /\ text.minutes = (IF o < 0 THEN -o ELSE o) % 60
    <2>1. _toISODate(t) = [year |-> y, month |-> m, day |-> d]
        BY <1>2 DEF _toISODate, Object
    <2>2. _toISOTime(t) = [time |-> [hour |-> h, minute |-> mi, second |-> s], negative |-> o < 0,
                           hours |-> (IF o < 0 THEN -o ELSE o) \div 60,
                           minutes |-> (IF o < 0 THEN -o ELSE o) % 60]
        BY <1>2 DEF _toISOTime, timeObject, Object
    <2> QED  BY <2>1, <2>2 DEF toISO, Extends
<1> HIDE DEF text
<1>4. extractISOOffset(text) = FixedOffsetZone(o)
    BY <1>3, OffsetRoundTrip DEF extractISOOffset
<1>5. parseISODate(text) = <<c, FixedOffsetZone(o)>>
    BY <1>3, <1>4, ExtendsDate DEF parseISODate
<1> DEFINE fixed == FixedOffsetZone(o)
<1>6. /\ fixed.type # "invalid" /\ zoneOffset(fixed, 0) = o /\ zoneOffset(fixed, ts) = o
      /\ IsZone(fixed)
    BY DEF zoneOffset, FixedOffsetZone, IsZone
<1> HIDE DEF fixed
<1>7. kindOf(c) = "date"
    BY DEF kindOf, Object
<1>8. \A x : completed(c, orderedUnitsOf["date"], x) = c
    <2>1. c = [u \in DOMAIN c |-> c[u]]
        BY DEF Object
    <2>2. \A i \in DOMAIN orderedUnitsOf["date"] : orderedUnitsOf["date"][i] \in DOMAIN c
        BY DEF Object, orderedUnitsOf
    <2> QED  BY <2>1, <2>2, Complete
<1>9. fromObject(c, 0, fixed) = fromNormalized(c, "date", o, fixed)
    BY <1>6, <1>7, <1>8 DEF fromObject
<1>10. fromNormalized(c, "date", o, fixed) = DateTime(objToTS(c, o, fixed)[1], fixed)
    <2>1. ~hasInvalidTimeData(c)
        BY ValidTime DEF Object
    <2>2. ~hasInvalidGregorianData(c)
        BY DEF hasInvalidGregorianData, Object, IsDate
    <2> QED  BY <2>1, <2>2 DEF fromNormalized, higherOrderInvalid, toGregorian
<1>11. objToTS(c, o, fixed)[1] = ts
    <2>1. objToLocalTS(c) = ts + 60 * zoneOffset(fixed, ts) /\ ts \in Int
        BY <1>1, <1>6 DEF Reads
    <2> QED  BY <1>6, <2>1, SameInstant
<1>12. setZone(DateTime(ts, fixed), other) = DateTime(ts, other)
    <2>1. DateTime(ts, fixed).isValid /\ DateTime(ts, fixed).ts = ts
        BY <1>6 DEF DateTime
    <2> QED  BY <2>1 DEF setZone
<1>13. fromISO(text, other) = DateTime(ts, other)
    BY <1>5, <1>9, <1>10, <1>11, <1>12 DEF fromISO, parseDataToDateTime, fixed
<1>14. parseISODate(text)[1] = c
    BY <1>5
<1> QED  BY <1>13, <1>14 DEF text, t

\* A time read from its ISO text in its own zone.
LEMMA IsoRoundTrip ==
    ASSUME NEW y, NEW m, NEW d, NEW h, NEW mi, NEW s, IsDate(y, m, d), IsTime(h, mi, s), NEW c,
           c = Object(y, m, d, h, mi, s), NEW ts, NEW zone, Reads(c, ts, zone)
    PROVE  fromISO(toISO(DateTime(ts, zone)), zone) = DateTime(ts, zone)
<1>1. zone.type # "invalid"
    BY DEF Reads, IsZone
<1> QED  BY <1>1, IsoText

\* A time taken apart and put together again is the same instant, at every
\* instant and in every zone: gregorianToWeek, gregorianToOrdinal and their
\* inverses agree with Date.UTC also at the turn of a year and of an ISO year,
\* fixOffset returns to the instant whose offset it is given, and an ISO text
\* carries the offset it was written at.
THEOREM TimesRoundTripHold == Spec => []TimesRoundTrip
<1>1. TypeOK => TimesRoundTrip
    <2> SUFFICES ASSUME TypeOK, NEW zone \in AllZones
                 PROVE  LET t == DateTime(now, zone) IN
                        /\ objToTS(t.c, t.o, t.zone) = <<now, t.o>>
                        /\ set(t, gregorianToWeek(t.c)).ts = now
                        /\ set(t, [ordinal |-> gregorianToOrdinal(t.c).ordinal]).ts = now
                        /\ fromObject(gregorianToWeek(t.c), now, t.zone).ts = now
                        /\ fromObject(gregorianToOrdinal(t.c), now, t.zone).ts = now
                        /\ fromObject(timeObject(t.c), now, t.zone).ts = now
                        /\ fromObject([month |-> t.c.month, day |-> t.c.day], now, t.zone)
                             = startOf(t, "days")
                        /\ local(t.c, now, t.zone) = t /\ utc(tsToObj(now, 0), now).ts = now
                        /\ local([year |-> t.c.year], now, t.zone) = startOf(t, "years")
                        /\ fromISO(toISO(t), t.zone).ts = now
        BY DEF TimesRoundTrip, Times
    <2> DEFINE t == DateTime(now, zone)
               c == tsToObj(now, zoneOffset(zone, now))
    <2>1. now \in Int /\ IsZone(zone)
        BY NowInt, ZonesKnown
    <2>2. Reads(c, now, zone) /\ IsObject(c)
        BY <2>1, ReadsOwn
    <2> HIDE DEF c
    <2>3. PICK y, m, d, h, mi, s :
              c = Object(y, m, d, h, mi, s) /\ IsDate(y, m, d) /\ IsTime(h, mi, s)
        BY <2>2 DEF IsObject
    <2>4. /\ t.isValid /\ t.ts = now /\ t.zone = zone /\ t.c = c
          /\ objToTS(c, t.o, zone) = <<now, t.o>>
        BY <2>2, ReadTime
    <2>5. /\ set(t, gregorianToWeek(c)) = t
          /\ set(t, [ordinal |-> gregorianToOrdinal(c).ordinal]) = t
        BY <2>2, <2>3, SetRoundTrip
    <2>6. /\ fromObject(gregorianToWeek(c), now, zone) = t
          /\ fromObject(gregorianToOrdinal(c), now, zone) = t
          /\ fromObject(timeObject(c), now, zone) = t
          /\ fromObject([month |-> m, day |-> d], now, zone)
               = DateTime(objToTS(Object(y, m, d, 0, 0, 0), t.o, zone)[1], zone)
        BY <2>2, <2>3, ObjectRoundTrip
    <2>7. /\ quickDT(c, now, zone) = t
          /\ quickDT([year |-> y], now, zone)
               = DateTime(objToTS(Object(y, 1, 1, 0, 0, 0), t.o, zone)[1], zone)
        BY <2>2, <2>3, QuickRoundTrip
    <2>8. fromISO(toISO(t), zone) = t
        BY <2>2, <2>3, IsoRoundTrip
    <2> HIDE DEF t
    <2>9. /\ startOf(t, "days") = DateTime(objToTS(Object(y, m, d, 0, 0, 0), t.o, zone)[1], zone)
          /\ startOf(t, "years") = DateTime(objToTS(Object(y, 1, 1, 0, 0, 0), t.o, zone)[1], zone)
        BY <2>3, <2>4, UnitStarts
    <2>10. c.year = y /\ c.month = m /\ c.day = d
        BY <2>3 DEF Object
    <2>11. utc(tsToObj(now, 0), now).ts = now
        <3> DEFINE fixed == FixedOffsetZone(0)
                   b == tsToObj(now, 0)
        <3>1. IsZone(fixed) /\ zoneOffset(fixed, now) = 0
            BY DEF IsZone, zoneOffset, FixedOffsetZone
        <3> HIDE DEF fixed
        <3>2. Reads(b, now, fixed) /\ IsObject(b)
            <4>1. /\ Reads(tsToObj(now, zoneOffset(fixed, now)), now, fixed)
                  /\ IsObject(tsToObj(now, zoneOffset(fixed, now)))
                BY <2>1, <3>1, ReadsOwn
            <4> QED  BY <3>1, <4>1, Zenon
        <3> HIDE DEF b
        <3>3. PICK yy, mm, dd, hh, mn, ss :
                  b = Object(yy, mm, dd, hh, mn, ss) /\ IsDate(yy, mm, dd) /\ IsTime(hh, mn, ss)
            BY <3>2 DEF IsObject
        <3>4. /\ quickDT(b, now, fixed) = DateTime(now, fixed)
              /\ quickDT([year |-> yy], now, fixed)
                   = DateTime(objToTS(Object(yy, 1, 1, 0, 0, 0), DateTime(now, fixed).o, fixed)[1], fixed)
            BY <3>2, <3>3, QuickRoundTrip
        <3>5. DateTime(now, fixed).ts = now
            BY <3>2, ReadTime
        <3> QED  BY <3>4, <3>5 DEF utc, fixed, b
    <2>12. local(c, now, zone) = t /\ local([year |-> y], now, zone) = startOf(t, "years")
        BY <2>7, <2>9 DEF local
    <2> QED  BY <2>4, <2>5, <2>6, <2>8, <2>9, <2>10, <2>11, <2>12 DEF t
<1> QED  BY <1>1, PreviewTyped, PTL

-----------------------------------------------------------------------------
(* ISO weeks.                                                              *)

\* The Thursday of the n-th week of a year is its n-th Thursday.
LEMMA ThursdayYear ==
    ASSUME NEW z \in Int, NEW n \in Int, n \in 1..weeksInWeekYear(z),
           NEW y, NEW m, NEW d, IsDate(y, m, d),
           DateUTC(y, m, d) = WeekStart(z) + 7 * (n - 1) + 4
    PROVE  y = z /\ (computeOrdinal(y, m, d) - 1) \div 7 + 1 = n
<1>1. PICK dz, dx \in Int : dz = DaysToYear(z) /\ dx = DaysToYear(z + 1)
    BY YearLength
<1>2. PICK a, b \in 1..7 : a = dayOfWeek(z, 1, 4) /\ b = dayOfWeek(z + 1, 1, 4)
    <2>1. DateUTC(z, 1, 4) = dz + 3 /\ DateUTC(z + 1, 1, 4) = dx + 3
        BY <1>1, OrdinalDay
    <2>2. dayOfWeek(z, 1, 4) = ((dz + 3 + 5) % 7) + 1 /\ dayOfWeek(z + 1, 1, 4) = ((dx + 3 + 5) % 7) + 1
        BY <2>1 DEF dayOfWeek
    <2>3. \A x \in Int : ((x + 3 + 5) % 7) + 1 \in 1..7
        OBVIOUS
    <2> QED  BY <2>2, <2>3
<1>3. PICK k \in Int : k = weeksInWeekYear(z) /\ 1 <= n /\ n <= k
    BY DEF weeksInWeekYear
<1>4. dz + 3 - a + 7 * k = dx + 3 - b
    BY <1>1, <1>2, <1>3, WeeksOfYear DEF WeekStart
<1>5. PICK day \in Int : day = DateUTC(y, m, d) /\ day = dz + 7 * (n - 1) + (7 - a)
    BY <1>1, <1>2 DEF WeekStart
<1>6. dz <= day /\ day < dx
    BY <1>2, <1>3, <1>4, <1>5
<1>7. PICK dy, dw, l \in Int : /\ dy = DaysToYear(y) /\ dw = DaysToYear(y + 1) /\ l = Ladder(y)[m]
                               /\ y \in Int /\ d \in Int /\ day = dy + l + d - 1 /\ dy <= day /\ day < dw
    <2>1. y \in Int
        BY DEF IsDate
    <2>2. DaysToYear(y) \in Int /\ DaysToYear(y + 1) \in Int
        BY <2>1, YearLength
    <2>3. /\ DateUTC(y, m, d) = DaysToYear(y) + Ladder(y)[m] + d - 1
          /\ DateUTC(y, m, d) \in Int /\ d \in Int /\ Ladder(y)[m] \in Int
          /\ DaysToYear(y) <= DateUTC(y, m, d) /\ DateUTC(y, m, d) < DaysToYear(y + 1)
        BY DayInYear
    <2> QED  BY <1>5, <2>1, <2>2, <2>3
<1>8. y = z
    <2>1. y < z => dw <= dz
        BY <1>1, <1>7, YearsAscend
    <2>2. z < y => dx <= dy
        BY <1>1, <1>7, YearsAscend
    <2> QED  BY <1>6, <1>7, <2>1, <2>2
<1>9. computeOrdinal(y, m, d) - 1 = 7 * (n - 1) + (7 - a)
    BY <1>1, <1>2, <1>5, <1>7, <1>8 DEF computeOrdinal
<1>10. (7 * (n - 1) + (7 - a)) \div 7 = n - 1
    <2>1. PICK j, e \in Int : j = n - 1 /\ e = 7 - a /\ 0 <= e /\ e < 7
        BY <1>2
    <2>2. (7 * j + e) \div 7 = j
        BY <2>1
    <2> QED  BY <2>1, <2>2
<1> QED  BY <1>8, <1>9, <1>10

\* An ISO week belongs to the year its Thursday is in and counts the Thursdays,
\* at every instant and in every zone: weekOf decides it from the ordinal and
\* the weekday alone, weeksInWeekYear says how many weeks a year has, and the
\* two agree with the days of Date.UTC at every turn of a year.
THEOREM IsoWeeksHold == Spec => []IsoWeeks
<1>1. TypeOK => IsoWeeks
    <2> SUFFICES ASSUME TypeOK, NEW zone \in AllZones
                 PROVE  LET t == DateTime(now, zone)
                            w == gregorianToWeek(t.c)
                            thursday == UTCDate(DateUTC(t.c.year, t.c.month, t.c.day) + 4 - w.weekday)
                        IN  /\ w.weekYear = thursday.year
                            /\ w.weekNumber = (computeOrdinal(thursday.year, thursday.month,
                                                              thursday.day) - 1) \div 7 + 1
        BY DEF IsoWeeks, Times
    <2> DEFINE t == DateTime(now, zone)
    <2>1. now \in Int /\ IsZone(zone)
        BY NowInt, ZonesKnown
    <2>2. IsObject(tsToObj(now, zoneOffset(zone, now))) /\ t.c = tsToObj(now, zoneOffset(zone, now))
        BY <2>1, ReadsOwn DEF DateTime, IsZone
    <2> HIDE DEF t
    <2>3. PICK y, m, d, h, mi, s : t.c = Object(y, m, d, h, mi, s) /\ IsDate(y, m, d)
        BY <2>2 DEF IsObject
    <2>4. PICK z \in Int, n \in Int, w \in 1..7 :
              /\ n \in 1..weeksInWeekYear(z)
              /\ w = dayOfWeek(y, m, d)
              /\ DateUTC(y, m, d) = WeekStart(z) + 7 * (n - 1) + w
              /\ weekOf(y, computeOrdinal(y, m, d), w)
                   = [weekYear |-> z, weekNumber |-> n, weekday |-> w]
        BY <2>3, WeekOfDay
    <2>5. gregorianToWeek(t.c) = WeekObject(z, n, w, h, mi, s)
        <3>1. gregorianToWeek(t.c)
                 = Extends(weekOf(y, computeOrdinal(y, m, d), w), [hour |-> h, minute |-> mi, second |-> s])
            BY <2>3, <2>4 DEF gregorianToWeek, Object, timeObject
        <3>2. gregorianToWeek(t.c) = Extends([weekYear |-> z, weekNumber |-> n, weekday |-> w],
                                             [hour |-> h, minute |-> mi, second |-> s])
            BY <2>4, <3>1
        <3> QED  BY <3>2 DEF Extends, WeekObject
    <2>6. PICK start0 \in Int : start0 = WeekStart(z)
        BY WeeksOfYear
    <2>7. PICK day \in Int : day = DateUTC(y, m, d) + 4 - w /\ day = start0 + 7 * (n - 1) + 4
        BY <2>4, <2>6
    <2>8. PICK yy, mm, dd : /\ IsDate(yy, mm, dd) /\ DateUTC(yy, mm, dd) = day
                            /\ UTCDate(day) = [year |-> yy, month |-> mm, day |-> dd]
        BY DateOfDay
    <2>9. yy = z /\ (computeOrdinal(yy, mm, dd) - 1) \div 7 + 1 = n
        BY <2>4, <2>6, <2>7, <2>8, ThursdayYear
    <2>10. t.c.year = y /\ t.c.month = m /\ t.c.day = d
        BY <2>3 DEF Object
    <2> QED  BY <2>5, <2>7, <2>8, <2>9, <2>10 DEF t, WeekObject
<1> QED  BY <1>1, PreviewTyped, PTL

-----------------------------------------------------------------------------
(* Times at a fixed offset.                                                *)

\* The DateTime of a calendar object.
TimeAt(c, o) == DateTime(objToLocalTS(c) - 60 * o, FixedOffsetZone(o))

\* It is read as that object, and found from it.
LEMMA FixedTime ==
    ASSUME NEW o \in Int, NEW c, IsObject(c)
    PROVE  LET t == TimeAt(c, o) IN
           /\ t.isValid /\ t.ts = objToLocalTS(c) - 60 * o /\ t.ts \in Int
           /\ t.zone = FixedOffsetZone(o) /\ t.o = o /\ t.c = c
<1>1. objToLocalTS(c) \in Int /\ tsToObj(objToLocalTS(c) - 60 * o, o) = c
    BY TSOfObject
<1>2. \A ts : zoneOffset(FixedOffsetZone(o), ts) = o
    BY DEF zoneOffset, FixedOffsetZone
<1>3. FixedOffsetZone(o).type # "invalid"
    BY DEF FixedOffsetZone
<1> DEFINE ts == objToLocalTS(c) - 60 * o
<1>4. ts \in Int
    BY <1>1
<1>5. tsToObj(ts, o) = c
    BY <1>1
<1> HIDE DEF ts
<1>6. DateTime(ts, FixedOffsetZone(o))
         = [isValid |-> TRUE, ts |-> ts, zone |-> FixedOffsetZone(o), o |-> o, c |-> c]
    BY <1>2, <1>3, <1>5 DEF DateTime
<1> QED  BY <1>4, <1>6 DEF TimeAt, ts

\* set and plus take what they made to the timestamp at the same offset.
LEMMA FixedTS ==
    ASSUME NEW o \in Int, NEW b
    PROVE  objToTS(b, o, FixedOffsetZone(o))[1] = objToLocalTS(b) - 60 * o
BY DEF objToTS, fixOffset, zoneOffset, FixedOffsetZone

\* An object has its six fields.
LEMMA ObjectFields ==
    ASSUME NEW y, NEW m, NEW d, NEW h, NEW mi, NEW s
    PROVE  LET c == Object(y, m, d, h, mi, s) IN
           /\ c.year = y /\ c.month = m /\ c.day = d /\ c.hour = h /\ c.minute = mi /\ c.second = s
           /\ DOMAIN c = {"year", "month", "day", "hour", "minute", "second"}
BY DEF Object

\* set, of a time at a fixed offset.
LEMMA SetFixed ==
    ASSUME NEW o \in Int, NEW t, t.isValid, t.zone = FixedOffsetZone(o), t.o = o, NEW values
    PROVE  set(t, values) = TimeAt(mixed(t.c, values), o)
<1>1. set(t, values) = DateTime(objToTS(mixed(t.c, values), o, FixedOffsetZone(o))[1], FixedOffsetZone(o))
    BY DEF set
<1>2. objToTS(mixed(t.c, values), o, FixedOffsetZone(o))[1] = objToLocalTS(mixed(t.c, values)) - 60 * o
    BY FixedTS
<1> QED  BY <1>1, <1>2 DEF TimeAt

-----------------------------------------------------------------------------
(* The days of the week in a month.                                        *)

\* getWeekDay is the kind of the day.
LEMMA WeekDayOf ==
    ASSUME NEW y, NEW m, NEW d, NEW h, NEW mi, NEW s, NEW t, t.c = Object(y, m, d, h, mi, s)
    PROVE  getWeekDay(t) = KindOf(y, m, d)
<1>1. PICK w : w = dayOfWeek(y, m, d)
    OBVIOUS
<1>2. \A date : Extends(date, [weekday |-> w]).weekday = w
    BY DEF Extends
<1>3. \A date : "weekday" \in DOMAIN Extends(date, [weekday |-> w])
    BY DEF Extends
<1>4. \A a : "weekday" \in DOMAIN a => Extends(a, timeObject(t.c)).weekday = a.weekday
    BY DEF Extends, timeObject
<1>5. \E date : weekOf(y, computeOrdinal(y, m, d), w) = Extends(date, [weekday |-> w])
    BY DEF weekOf
<1>6. gregorianToWeek(t.c) = Extends(weekOf(y, computeOrdinal(y, m, d), w), timeObject(t.c))
    BY <1>1, ObjectFields DEF gregorianToWeek
<1>7. gregorianToWeek(t.c).weekday = w
    BY <1>2, <1>3, <1>4, <1>5, <1>6
<1> QED  BY <1>1, <1>7 DEF getWeekDay, weekday, KindOf

\* The kinds of days follow each other.
LEMMA KindsFollow ==
    ASSUME NEW y \in Int, NEW m \in 1..12
    PROVE  \E b \in Nat : \A d \in 1..daysInMonth(y, m) : KindOf(y, m, d) = (b + d) % 7
<1>1. PICK a \in Int : a = DaysToYear(y) + Ladder(y)[m] - 1
    <2>1. DaysToYear(y) \in Int /\ Ladder(y)[m] \in Int
        BY YearLength, LadderInt
    <2> QED  BY <2>1
<1>2. PICK b \in Nat : b = (a + 6) % 7
    OBVIOUS
<1>3. ASSUME NEW d \in 1..daysInMonth(y, m)
      PROVE  KindOf(y, m, d) = (b + d) % 7
    <2>1. IsDate(y, m, d) /\ d \in Int
        BY DayInYear DEF IsDate
    <2>2. DateUTC(y, m, d) = DaysToYear(y) + Ladder(y)[m] + d - 1
        BY <2>1, DayInYear
    <2>3. DateUTC(y, m, d) = a + d
        <3>1. DaysToYear(y) \in Int /\ Ladder(y)[m] \in Int
            BY YearLength, LadderInt
        <3> QED  BY <1>1, <2>1, <2>2, <3>1
    <2>4. KindOf(y, m, d) = (((a + d + 5) % 7) + 1) % 7
        BY <2>3 DEF KindOf, dayOfWeek
    <2>5. (((a + d + 5) % 7) + 1) % 7 = (a + d + 6) % 7
        BY <2>1
    <2>6. (a + d + 6) % 7 = (b + d) % 7
        BY <1>2, <2>1
    <2> QED  BY <2>4, <2>5, <2>6
<1> QED  BY <1>3

\* The nearest weekday to a Saturday or a Sunday, in a month of last days whose
\* kinds follow each other.
LEMMA NearestOf ==
    ASSUME NEW b \in Nat, NEW last \in 28..31, NEW n \in 1..last, NEW d \in 1..last,
           isMovedTo((b + n) % 7, n, last, d), (b + d) % 7 \in 1..5,
           NEW x \in 1..last, (b + x) % 7 \in 1..5
    PROVE  Dist(d, n) <= Dist(x, n)
<1>1. Dist(x, n) \in Nat /\ (x # n => Dist(x, n) >= 1)
    BY DEF Dist
<1>2. CASE d = n
    BY <1>1, <1>2 DEF Dist
<1>3. CASE (b + n) % 7 = 6 /\ n # 1 /\ d = n - 1
    <2>1. x # n
        BY <1>3
    <2> QED  BY <1>1, <1>3, <2>1 DEF Dist
<1>4. CASE (b + n) % 7 = 6 /\ n = 1 /\ d = 3
    <2>1. x # 1 /\ x # 2
        BY <1>4
    <2> QED  BY <1>4, <2>1 DEF Dist
<1>5. CASE (b + n) % 7 = 0 /\ n # last /\ d = n + 1
    <2>1. x # n
        BY <1>5
    <2> QED  BY <1>1, <1>5, <2>1 DEF Dist
<1>6. CASE (b + n) % 7 = 0 /\ n = last /\ d = last - 2
    <2>1. x # last /\ x # last - 1
        BY <1>6
    <2> QED  BY <1>6, <2>1 DEF Dist
<1> QED  BY <1>2, <1>3, <1>4, <1>5, <1>6 DEF isMovedTo

-----------------------------------------------------------------------------
(* Days of a kind.                                                         *)

\* The days up to d of the kind of d are its day and those a number of weeks
\* before: as many as the group of seven days it is in.
LEMMA DaysUpTo ==
    ASSUME NEW b \in Nat, NEW d \in 1..31
    PROVE  LET S == {x \in 1..d : (b + x) % 7 = (b + d) % 7}
           IN  IsFiniteSet(S) /\ Cardinality(S) = (d - 1) \div 7 + 1
<1> DEFINE S == {x \in 1..d : (b + x) % 7 = (b + d) % 7}
<1>1. PICK q \in 0..4, r \in 1..7 : d = 7 * q + r /\ (d - 1) \div 7 = q
    <2>1. (d - 1) \div 7 \in 0..4 /\ d - 7 * ((d - 1) \div 7) \in 1..7
        OBVIOUS
    <2> QED  BY <2>1
<1>2. S = {x \in {r, r + 7, r + 14, r + 21, r + 28} : x <= d}
    <2>1. ASSUME NEW x \in 1..d PROVE (b + x) % 7 = (b + d) % 7 <=> (d - x) % 7 = 0
        OBVIOUS
    <2>2. ASSUME NEW x \in 1..d, (d - x) % 7 = 0 PROVE x \in {r, r + 7, r + 14, r + 21, r + 28}
        BY <1>1, <2>2
    <2>3. ASSUME NEW x \in {r, r + 7, r + 14, r + 21, r + 28}, x <= d
          PROVE  x \in 1..d /\ (d - x) % 7 = 0
        BY <1>1, <2>3
    <2> DEFINE T == {x \in {r, r + 7, r + 14, r + 21, r + 28} : x <= d}
    <2>4. S \subseteq T
        <3> SUFFICES ASSUME NEW x \in S PROVE x \in {r, r + 7, r + 14, r + 21, r + 28} /\ x <= d
            OBVIOUS
        <3>1. x \in 1..d /\ (b + x) % 7 = (b + d) % 7
            OBVIOUS
        <3>2. x \in {r, r + 7, r + 14, r + 21, r + 28}
            BY <2>1, <2>2, <3>1
        <3> QED  BY <3>1, <3>2
    <2>5. T \subseteq S
        <3> SUFFICES ASSUME NEW x \in {r, r + 7, r + 14, r + 21, r + 28}, x <= d
                     PROVE  x \in 1..d /\ (b + x) % 7 = (b + d) % 7
            OBVIOUS
        <3>1. x \in 1..d /\ (d - x) % 7 = 0
            BY <2>3
        <3> QED  BY <2>1, <3>1
    <2> HIDE DEF S, T
    <2>6. S = T
        BY <2>4, <2>5, Zenon
    <2> QED  BY <2>6 DEF T
<1>3. IsFiniteSet({r}) /\ Cardinality({r}) = 1
    BY FS_Singleton
<1>4. IsFiniteSet({r, r + 7}) /\ Cardinality({r, r + 7}) = 2
    <2>1. {r, r + 7} = {r} \cup {r + 7} /\ r + 7 \notin {r}
        OBVIOUS
    <2>2. /\ IsFiniteSet({r} \cup {r + 7})
          /\ Cardinality({r} \cup {r + 7}) = IF r + 7 \in {r} THEN Cardinality({r}) ELSE Cardinality({r}) + 1
        BY <1>3, FS_AddElement
    <2> QED  BY <1>3, <2>1, <2>2
<1>5. IsFiniteSet({r, r + 7, r + 14}) /\ Cardinality({r, r + 7, r + 14}) = 3
    <2>1. {r, r + 7, r + 14} = {r, r + 7} \cup {r + 14} /\ r + 14 \notin {r, r + 7}
        OBVIOUS
    <2> QED  BY <1>4, <2>1, FS_AddElement
<1>6. IsFiniteSet({r, r + 7, r + 14, r + 21}) /\ Cardinality({r, r + 7, r + 14, r + 21}) = 4
    <2>1. /\ {r, r + 7, r + 14, r + 21} = {r, r + 7, r + 14} \cup {r + 21}
          /\ r + 21 \notin {r, r + 7, r + 14}
        OBVIOUS
    <2> QED  BY <1>5, <2>1, FS_AddElement
<1>7. /\ IsFiniteSet({r, r + 7, r + 14, r + 21, r + 28})
      /\ Cardinality({r, r + 7, r + 14, r + 21, r + 28}) = 5
    <2>1. /\ {r, r + 7, r + 14, r + 21, r + 28} = {r, r + 7, r + 14, r + 21} \cup {r + 28}
          /\ r + 28 \notin {r, r + 7, r + 14, r + 21}
        OBVIOUS
    <2> QED  BY <1>6, <2>1, FS_AddElement
<1> HIDE DEF S
<1>8. q = 0 => IsFiniteSet(S) /\ Cardinality(S) = q + 1
    <2> SUFFICES ASSUME q = 0 PROVE IsFiniteSet(S) /\ Cardinality(S) = 1
        OBVIOUS
    <2>1. S = {r}
        BY <1>1, <1>2
    <2> QED  BY <1>3, <2>1, Zenon
<1>9. q = 1 => IsFiniteSet(S) /\ Cardinality(S) = q + 1
    <2> SUFFICES ASSUME q = 1 PROVE IsFiniteSet(S) /\ Cardinality(S) = 2
        OBVIOUS
    <2>1. S = {r, r + 7}
        BY <1>1, <1>2
    <2> QED  BY <1>4, <2>1, Zenon
<1>10. q = 2 => IsFiniteSet(S) /\ Cardinality(S) = q + 1
    <2> SUFFICES ASSUME q = 2 PROVE IsFiniteSet(S) /\ Cardinality(S) = 3
        OBVIOUS
    <2>1. S = {r, r + 7, r + 14}
        BY <1>1, <1>2
    <2> QED  BY <1>5, <2>1, Zenon
<1>11. q = 3 => IsFiniteSet(S) /\ Cardinality(S) = q + 1
    <2> SUFFICES ASSUME q = 3 PROVE IsFiniteSet(S) /\ Cardinality(S) = 4
        OBVIOUS
    <2>1. S = {r, r + 7, r + 14, r + 21}
        BY <1>1, <1>2
    <2> QED  BY <1>6, <2>1, Zenon
<1>12. q = 4 => IsFiniteSet(S) /\ Cardinality(S) = q + 1
    <2> SUFFICES ASSUME q = 4 PROVE IsFiniteSet(S) /\ Cardinality(S) = 5
        OBVIOUS
    <2>1. S = {r, r + 7, r + 14, r + 21, r + 28}
        BY <1>1, <1>2
    <2> QED  BY <1>7, <2>1, Zenon
<1>13. IsFiniteSet(S) /\ Cardinality(S) = (d - 1) \div 7 + 1
    BY <1>1, <1>8, <1>9, <1>10, <1>11, <1>12
<1> QED  BY <1>13 DEF S

-----------------------------------------------------------------------------
(* The end of a month, and days before it.                                 *)

\* An instant at a fixed offset is the DateTime of its calendar object.
LEMMA FixedOf ==
    ASSUME NEW o \in Int, NEW ts \in Int
    PROVE  \E c : IsObject(c) /\ objToLocalTS(c) = ts + 60 * o
                  /\ DateTime(ts, FixedOffsetZone(o)) = TimeAt(c, o)
<1>1. PICK c : c = tsToObj(ts, o) /\ IsObject(c) /\ objToLocalTS(c) = ts + 60 * o
    BY ObjectOfTS
<1>2. objToLocalTS(c) - 60 * o = ts
    BY <1>1
<1> QED  BY <1>1, <1>2 DEF TimeAt

\* The numbers of a date.
LEMMA DateInts ==
    ASSUME NEW y, NEW m, NEW d, IsDate(y, m, d)
    PROVE  /\ y \in Int /\ m \in 1..12 /\ m \in Int /\ d \in Int /\ 1 <= d
           /\ daysInMonth(y, m) \in 28..31 /\ daysInMonth(y, m) \in Int /\ d <= daysInMonth(y, m)
<1>1. y \in Int /\ m \in 1..12 /\ d \in 1..daysInMonth(y, m)
    BY DEF IsDate
<1>2. daysInMonth(y, m) \in 28..31
    BY <1>1, MonthDays
<1> QED  BY <1>1, <1>2

\* plus, of days and seconds.
LEMMA PlusFixed ==
    ASSUME NEW o \in Int, NEW y, NEW m, NEW d, NEW h, NEW mi, NEW s,
           IsDate(y, m, d), IsTime(h, mi, s), NEW dur,
           \A u \in {"years", "quarters", "months", "weeks", "hours", "minutes"} : Get(dur, u) = 0,
           Get(dur, "days") \in Int, Get(dur, "seconds") \in Int
    PROVE  plus(TimeAt(Object(y, m, d, h, mi, s), o), dur)
             = DateTime(objToLocalTS(Object(y, m, d + Get(dur, "days"), h, mi, s)) - 60 * o
                          + Get(dur, "seconds"), FixedOffsetZone(o))
<1> DEFINE c == Object(y, m, d, h, mi, s)
           t == TimeAt(c, o)
           e == d + Get(dur, "days")
<1>1. IsObject(c)
    BY DEF IsObject
<1>2. t.isValid /\ t.zone = FixedOffsetZone(o) /\ t.o = o /\ t.c = c
    BY <1>1, FixedTime
<1> HIDE DEF t
<1>3. y \in Int /\ m \in Int /\ d \in Int /\ daysInMonth(y, m) \in Int /\ d <= daysInMonth(y, m)
    BY DateInts
<1>4. [t.c EXCEPT !.year = @ + Get(dur, "years"),
                  !.month = @ + Get(dur, "months") + 3 * Get(dur, "quarters")] = c
    <2>1. y + Get(dur, "years") = y /\ m + Get(dur, "months") + 3 * Get(dur, "quarters") = m
        BY <1>3
    <2>2. t.c.year = y /\ t.c.month = m
        BY <1>2 DEF Object
    <2>3. [c EXCEPT !.year = y] = c /\ [c EXCEPT !.month = m] = c
        BY DEF Object
    <2> HIDE DEF c
    <2> QED  BY <1>2, <2>1, <2>2, <2>3
<1>5. lastDayAtMost(c) = c
    <2>1. d < daysInMonth(y, m) \/ d = daysInMonth(y, m)
        BY <1>3
    <2>2. [c EXCEPT !.day = d] = c
        BY DEF Object
    <2> HIDE DEF c
    <2>3. c.year = y /\ c.month = m /\ c.day = d
        BY ObjectFields DEF c
    <2> QED  BY <2>1, <2>2, <2>3 DEF lastDayAtMost
<1>6. [c EXCEPT !.day = @ + Get(dur, "days") + 7 * Get(dur, "weeks")] = Object(y, m, e, h, mi, s)
    <2>1. d + Get(dur, "days") + 7 * Get(dur, "weeks") = e
        BY <1>3
    <2> QED  BY <2>1 DEF Object
<1>7. asSeconds(dur) = Get(dur, "seconds")
    BY DEF asSeconds
<1> HIDE DEF c, e
<1>8. adjustTime(t, dur) = objToTS(Object(y, m, e, h, mi, s), o, FixedOffsetZone(o))[1] + Get(dur, "seconds")
    BY <1>2, <1>4, <1>5, <1>6, <1>7 DEF adjustTime
<1>9. objToTS(Object(y, m, e, h, mi, s), o, FixedOffsetZone(o))[1]
         = objToLocalTS(Object(y, m, e, h, mi, s)) - 60 * o
    BY FixedTS
<1> QED  BY <1>2, <1>8, <1>9 DEF plus, t, c, e

\* A number of days before, in the month.
LEMMA DaysBefore ==
    ASSUME NEW o \in Int, NEW y, NEW m, NEW d, NEW h, NEW mi, NEW s,
           IsDate(y, m, d), IsTime(h, mi, s), NEW k \in Nat, k < d
    PROVE  /\ IsDate(y, m, d - k)
           /\ plus(TimeAt(Object(y, m, d, h, mi, s), o), [days |-> -k])
                = TimeAt(Object(y, m, d - k, h, mi, s), o)
<1> DEFINE dur == [days |-> -k]
<1>1. y \in Int /\ m \in 1..12 /\ d \in Int /\ daysInMonth(y, m) \in Int /\ d <= daysInMonth(y, m)
    BY DateInts
<1>2. IsDate(y, m, d - k)
    BY <1>1 DEF IsDate
<1>3. /\ Get(dur, "days") = -k
      /\ \A u \in {"years", "quarters", "months", "weeks", "hours", "minutes", "seconds"} : Get(dur, u) = 0
    BY DEF Get
<1>4. d + Get(dur, "days") = d - k /\ Get(dur, "days") \in Int
    BY <1>1, <1>3
<1> HIDE DEF dur
<1>5. plus(TimeAt(Object(y, m, d, h, mi, s), o), dur)
         = DateTime(objToLocalTS(Object(y, m, d - k, h, mi, s)) - 60 * o + 0, FixedOffsetZone(o))
    <2>1. plus(TimeAt(Object(y, m, d, h, mi, s), o), dur)
             = DateTime(objToLocalTS(Object(y, m, d + Get(dur, "days"), h, mi, s)) - 60 * o
                          + Get(dur, "seconds"), FixedOffsetZone(o))
        BY <1>3, <1>4, PlusFixed
    <2> QED  BY <1>3, <1>4, <2>1
<1>6. objToLocalTS(Object(y, m, d - k, h, mi, s)) \in Int
    BY <1>2, TSOfObject DEF IsObject
<1>7. objToLocalTS(Object(y, m, d - k, h, mi, s)) - 60 * o + 0
         = objToLocalTS(Object(y, m, d - k, h, mi, s)) - 60 * o
    BY <1>6
<1> QED  BY <1>2, <1>5, <1>7 DEF TimeAt, dur

\* A month ends the day before the next one starts.
LEMMA NextMonth ==
    ASSUME NEW y \in Int, NEW m \in 1..12, NEW z \in Int, NEW n \in 1..12, 12 * z + n = 12 * y + m + 1
    PROVE  /\ DateUTC(z, n, 1) \in Int /\ IsDate(z, n, 1) /\ IsDate(y, m, daysInMonth(y, m))
           /\ DateUTC(y, m, daysInMonth(y, m)) = DateUTC(z, n, 1) - 1
<1> DEFINE last == daysInMonth(y, m)
<1>1. last \in Int /\ IsDate(y, m, last) /\ IsDate(z, n, 1)
    <2>1. last \in 28..31 /\ daysInMonth(z, n) \in 28..31
        BY MonthDays
    <2> HIDE DEF last
    <2>2. last \in 1..last /\ 1 \in 1..daysInMonth(z, n)
        BY <2>1
    <2> QED  BY <2>1, <2>2 DEF IsDate, last
<1>2. /\ DateUTC(y, m, last) = DaysToYear(y) + Ladder(y)[m] + last - 1
      /\ DaysToYear(y) \in Int /\ Ladder(y)[m] \in Int
    BY <1>1, DayInYear
<1>3. /\ DateUTC(z, n, 1) = DaysToYear(z) + Ladder(z)[n] + 1 - 1
      /\ DateUTC(z, n, 1) \in Int /\ DaysToYear(z) \in Int /\ Ladder(z)[n] \in Int
    BY <1>1, DayInYear
<1>4. DaysToYear(y) + Ladder(y)[m] + last = DaysToYear(z) + Ladder(z)[n]
    <2>1. CASE m = 12
        <3>1. z = y + 1 /\ n = 1
            BY <2>1
        <3>2. last = 31
            BY <2>1, MonthDays
        <3>3. DaysToYear(z) = DaysToYear(y) + daysInYear(y) /\ daysInYear(y) \in Int
            BY <3>1, YearLength DEF daysInYear
        <3>4. Ladder(z)[n] = 0 /\ Ladder(y)[m] + 31 = daysInYear(y)
            BY <2>1, <3>1, LadderSteps
        <3> QED  BY <1>2, <1>3, <3>2, <3>3, <3>4
    <2>2. CASE m # 12
        <3>1. z = y /\ n = m + 1 /\ m \in 1..11
            BY <2>2
        <3>2. Ladder(z)[n] = Ladder(y)[m] + last
            BY <3>1, LadderSteps
        <3> HIDE DEF last
        <3> QED  BY <1>1, <1>2, <3>1, <3>2
    <2> QED  BY <2>1, <2>2
<1> HIDE DEF last
<1>5. DateUTC(y, m, last) = DateUTC(z, n, 1) - 1
    BY <1>1, <1>2, <1>3, <1>4
<1> QED  BY <1>1, <1>3, <1>5 DEF last

\* endOf, of a month.
LEMMA MonthEnds ==
    ASSUME NEW o \in Int, NEW y, NEW m, NEW d, NEW h, NEW mi, NEW s,
           IsDate(y, m, d), IsTime(h, mi, s)
    PROVE  endOf(TimeAt(Object(y, m, d, h, mi, s), o), "months")
             = TimeAt(Object(y, m, daysInMonth(y, m), 23, 59, 59), o)
<1> DEFINE c == Object(y, m, d, h, mi, s)
           t == TimeAt(c, o)
           u == plus(t, [months |-> 1])
<1>1. t.isValid /\ t.zone = FixedOffsetZone(o) /\ t.o = o /\ t.c = c
    BY FixedTime DEF IsObject
<1> HIDE DEF t
<1>2. PICK z, n, e : IsDate(z, n, e) /\ 12 * z + n = 12 * y + m + 1 /\ u.c = Object(z, n, e, h, mi, s)
    BY <1>1, PlusMonths
<1>3. u.isValid /\ u.zone = FixedOffsetZone(o) /\ u.o = o
    BY <1>1 DEF plus, DateTime, zoneOffset, FixedOffsetZone
<1>4. One("months") = [months |-> 1]
    BY DEF One
<1> HIDE DEF u
<1> DEFINE first == Object(z, n, 1, 0, 0, 0)
<1>5. startOf(u, "months") = TimeAt(first, o)
    <2> DEFINE values == Extends([day |-> 1], Midnight)
    <2>1. values = [day |-> 1, hour |-> 0, minute |-> 0, second |-> 0]
        BY DEF Extends, Midnight
    <2>2. kindOf(values) = "date" /\ "day" \in DOMAIN values
        BY <2>1 DEF kindOf
    <2>3. Extends(u.c, values) = first
        BY <1>2, <2>1 DEF Extends, Object
    <2> HIDE DEF values, first
    <2>4. mixed(u.c, values) = first
        BY <2>2, <2>3 DEF mixed, toKind, toGregorian
    <2>5. startOf(u, "months") = set(u, values)
        BY DEF startOf, values
    <2>6. set(u, values) = TimeAt(mixed(u.c, values), o)
        BY <1>3, SetFixed
    <2> QED  BY <2>4, <2>5, <2>6
<1>6. /\ DateUTC(z, n, 1) \in Int /\ IsDate(z, n, 1) /\ IsDate(y, m, daysInMonth(y, m))
      /\ DateUTC(y, m, daysInMonth(y, m)) = DateUTC(z, n, 1) - 1
    <2>1. y \in Int /\ m \in 1..12 /\ z \in Int /\ n \in 1..12
        BY <1>2, DateInts
    <2>2. 12 * z + n = 12 * y + m + 1
        BY <1>2
    <2> HIDE DEF first
    <2>3. DateUTC(z, n, 1) \in Int /\ IsDate(z, n, 1)
        BY <2>1, <2>2, NextMonth
    <2>4. IsDate(y, m, daysInMonth(y, m))
        BY <2>1, <2>2, NextMonth
    <2>5. DateUTC(y, m, daysInMonth(y, m)) = DateUTC(z, n, 1) - 1
        BY <2>1, <2>2, NextMonth
    <2> QED  BY <2>3, <2>4, <2>5
<1>7. IsTime(0, 0, 0) /\ IsTime(23, 59, 59)
    BY DEF IsTime
<1> DEFINE dur == negate(One("seconds"))
<1>8. /\ Get(dur, "seconds") = -1
      /\ \A x \in {"years", "quarters", "months", "weeks", "hours", "minutes", "days"} : Get(dur, x) = 0
    BY DEF Get, negate, One
<1> HIDE DEF dur
<1>9. plus(TimeAt(first, o), dur) = DateTime(objToLocalTS(Object(z, n, 1 + Get(dur, "days"), 0, 0, 0)) - 60 * o
                                               + Get(dur, "seconds"), FixedOffsetZone(o))
    BY <1>6, <1>7, <1>8, PlusFixed
<1>10. plus(TimeAt(first, o), dur) = DateTime(objToLocalTS(first) - 60 * o + (-1), FixedOffsetZone(o))
    BY <1>8, <1>9
<1>11. objToLocalTS(first) - 60 * o + (-1) = objToLocalTS(Object(y, m, daysInMonth(y, m), 23, 59, 59)) - 60 * o
    <2>1. objToLocalTS(first) = 86400 * DateUTC(z, n, 1)
        BY <1>6 DEF objToLocalTS, Object
    <2>2. objToLocalTS(Object(y, m, daysInMonth(y, m), 23, 59, 59))
             = 86400 * DateUTC(y, m, daysInMonth(y, m)) + 86399
        <3>1. DateUTC(y, m, daysInMonth(y, m)) \in Int
            BY <1>6
        <3> QED  BY <3>1 DEF objToLocalTS, Object
    <2> HIDE DEF first
    <2> QED  BY <1>6, <2>1, <2>2
<1>12. endOf(t, "months") = plus(TimeAt(first, o), dur)
    BY <1>4, <1>5 DEF endOf, minus, dur, u
<1> QED  BY <1>10, <1>11, <1>12 DEF TimeAt, t

\* The day d is of a kind and in the last seven of its month.
IsLastOf(y, m, kind, d) ==
    d \in Int /\ d <= daysInMonth(y, m) /\ daysInMonth(y, m) < d + 7 /\ KindOf(y, m, d) = kind

\* lastOfKind finds it.
LEMMA LastOfKind ==
    ASSUME NEW o \in Int, NEW y, NEW m, NEW last, last = daysInMonth(y, m), IsDate(y, m, last),
           NEW kind, kind \in 0..6
    PROVE  IsLastOf(y, m, kind, lastOfKind(TimeAt(Object(y, m, last, 23, 59, 59), o), kind))
<1> DEFINE end == TimeAt(Object(y, m, last, 23, 59, 59), o)
           back(k) == plus(end, [days |-> -k])
<1>1. y \in Int /\ m \in 1..12 /\ last \in 28..31
    BY DateInts
<1>2. IsTime(23, 59, 59)
    BY DEF IsTime
<1>3. ASSUME NEW k \in 0..6
      PROVE  back(k).c.day = last - k /\ getWeekDay(back(k)) = KindOf(y, m, last - k)
    <2>1. k \in Nat /\ k < last
        BY <1>1
    <2>2. IsDate(y, m, last - k) /\ back(k) = TimeAt(Object(y, m, last - k, 23, 59, 59), o)
        BY <1>2, <2>1, DaysBefore
    <2>3. IsObject(Object(y, m, last - k, 23, 59, 59))
        BY <1>2, <2>2 DEF IsObject
    <2>4. back(k).c = Object(y, m, last - k, 23, 59, 59)
        BY <2>2, <2>3, FixedTime
    <2> HIDE DEF back
    <2> QED  BY <2>4, WeekDayOf, ObjectFields
<1>4. PICK b \in Nat : \A x \in 1..last : KindOf(y, m, x) = (b + x) % 7
    BY <1>1, KindsFollow
<1>5. PICK k \in 0..6 : KindOf(y, m, last - k) = kind
    <2>1. PICK k \in 0..6 : (b + last - k) % 7 = kind
        <3>1. (b + last - kind) % 7 \in 0..6
            BY <1>1
        <3>2. (b + last - ((b + last - kind) % 7)) % 7 = kind
            BY <1>1
        <3> QED  BY <3>1, <3>2
    <2>2. last - k \in 1..last /\ b + (last - k) = b + last - k
        BY <1>1
    <2> QED  BY <1>4, <2>1, <2>2
<1> HIDE DEF back
<1> DEFINE found == CHOOSE t \in {back(x) : x \in 0..6} : getWeekDay(t) = kind
<1>6. found \in {back(x) : x \in 0..6} /\ getWeekDay(found) = kind
    BY <1>3, <1>5
<1>7. lastOfKind(end, kind) = found.c.day
    BY DEF lastOfKind, back
<1> HIDE DEF found
<1>8. PICK x \in 0..6 : found = back(x)
    BY <1>6
<1>9. lastOfKind(end, kind) = last - x /\ KindOf(y, m, last - x) = kind
    BY <1>3, <1>6, <1>7, <1>8
<1>10. IsLastOf(y, m, kind, last - x)
    BY <1>1, <1>9 DEF IsLastOf
<1> QED  BY <1>9, <1>10

\* The last day of a kind in the month of a time.
LEMMA LastDay ==
    ASSUME NEW o \in Int, NEW y, NEW m, NEW d, NEW h, NEW mi, NEW s,
           IsDate(y, m, d), IsTime(h, mi, s), NEW kind, kind \in 0..6,
           d = getLastDay(TimeAt(Object(y, m, d, h, mi, s), o), kind)
    PROVE  KindOf(y, m, d) = kind /\ d + 7 > daysInMonth(y, m)
<1> DEFINE last == daysInMonth(y, m)
<1>1. y \in Int /\ m \in 1..12 /\ last \in 28..31
    BY DateInts
<1>2. IsDate(y, m, last)
    BY <1>1 DEF IsDate
<1>3. d = lastOfKind(TimeAt(Object(y, m, last, 23, 59, 59), o), kind)
    BY MonthEnds DEF getLastDay
<1>4. last = daysInMonth(y, m)
    OBVIOUS
<1> HIDE DEF last
<1>5. IsLastOf(y, m, kind, d)
    BY <1>2, <1>3, <1>4, LastOfKind
<1>6. d + 7 > last
    BY <1>1, <1>4, <1>5 DEF IsLastOf
<1> QED  BY <1>4, <1>5, <1>6 DEF IsLastOf

\* isWeekday.
LEMMA WeekdayOf ==
    ASSUME NEW y, NEW m, NEW d, NEW h, NEW mi, NEW s, IsDate(y, m, d), NEW t,
           t.c = Object(y, m, d, h, mi, s)
    PROVE  isWeekday(t) <=> d \in Weekdays(y, m)
<1>1. d \in 1..daysInMonth(y, m)
    BY DEF IsDate
<1> QED  BY <1>1, WeekDayOf DEF isWeekday, Weekdays

\* The last weekday of a month.
LEMMA LastWeekDay ==
    ASSUME NEW o \in Int, NEW y, NEW m, NEW d, NEW h, NEW mi, NEW s,
           IsDate(y, m, d), IsTime(h, mi, s)
    PROVE  getLastWeekDay(TimeAt(Object(y, m, d, h, mi, s), o)) = Max(Weekdays(y, m))
<1> DEFINE last == daysInMonth(y, m)
           end == TimeAt(Object(y, m, last, 23, 59, 59), o)
<1>1. y \in Int /\ m \in 1..12 /\ last \in 28..31
    BY DateInts
<1>2. IsTime(23, 59, 59) /\ IsDate(y, m, last)
    <2>1. last \in 1..last
        BY <1>1
    <2> QED  BY <1>1, <2>1 DEF IsTime, IsDate
<1>3. end.c = Object(y, m, last, 23, 59, 59)
    BY <1>2, FixedTime DEF IsObject
<1>4. getLastWeekDay(TimeAt(Object(y, m, d, h, mi, s), o)) = weekdayUpTo(end)
    BY MonthEnds DEF getLastWeekDay
<1>5. /\ lastOfKind(end, 5) \in Int /\ lastOfKind(end, 5) <= last /\ last < lastOfKind(end, 5) + 7
      /\ KindOf(y, m, lastOfKind(end, 5)) = 5
    <2>1. 5 \in 0..6
        OBVIOUS
    <2>2. IsLastOf(y, m, 5, lastOfKind(end, 5))
        BY <1>2, <2>1, LastOfKind
    <2> QED  BY <2>2 DEF IsLastOf
<1>6. isWeekday(end) <=> last \in Weekdays(y, m)
    BY <1>2, <1>3, WeekdayOf
<1>7. end.c.day = last
    BY <1>3, ObjectFields
<1> DEFINE w == weekdayUpTo(end)
<1>8. w = IF last \in Weekdays(y, m) THEN last ELSE lastOfKind(end, 5)
    BY <1>6, <1>7 DEF weekdayUpTo
<1> HIDE DEF w, end
<1>9. PICK b \in Nat : \A x \in 1..last : KindOf(y, m, x) = (b + x) % 7
    BY <1>1, KindsFollow
<1>10. \A x : x \in Weekdays(y, m) <=> x \in 1..last /\ (b + x) % 7 \in 1..5
    BY <1>9 DEF Weekdays
<1> HIDE DEF last
<1>11. w \in Weekdays(y, m)
    <2>1. lastOfKind(end, 5) \in 1..last
        BY <1>1, <1>5
    <2>2. lastOfKind(end, 5) \in Weekdays(y, m)
        BY <1>5, <1>9, <1>10, <2>1
    <2> QED  BY <1>8, <2>2
<1>12. ASSUME NEW x \in Weekdays(y, m) PROVE w >= x
    <2>1. x \in 1..last /\ (b + x) % 7 \in 1..5
        BY <1>10
    <2>2. CASE last \in Weekdays(y, m)
        BY <1>1, <1>8, <2>1, <2>2
    <2>3. CASE last \notin Weekdays(y, m)
        <3>1. PICK f \in 1..last : f = lastOfKind(end, 5) /\ (b + f) % 7 = 5 /\ last < f + 7
            BY <1>1, <1>5, <1>9
        <3>2. last \in 1..last /\ (b + last) % 7 \notin 1..5
            BY <1>1, <1>10, <2>3
        <3>3. f >= x
            BY <1>1, <2>1, <3>1, <3>2
        <3> QED  BY <1>8, <2>3, <3>1, <3>3
    <2> QED  BY <2>2, <2>3
<1>13. Max(Weekdays(y, m)) = w
    <2>1. Weekdays(y, m) \subseteq Int
        BY <1>1, <1>10
    <2>2. ASSUME NEW x \in Weekdays(y, m), \A z \in Weekdays(y, m) : x >= z PROVE x = w
        BY <1>11, <1>12, <2>1, <2>2
    <2> QED  BY <1>11, <1>12, <2>2 DEF Max
<1> QED  BY <1>4, <1>13 DEF w, end, last

\* set, of another day.
LEMMA SetDay ==
    ASSUME NEW o \in Int, NEW y, NEW m, NEW d, NEW h, NEW mi, NEW s,
           IsDate(y, m, d), IsTime(h, mi, s), NEW e
    PROVE  set(TimeAt(Object(y, m, d, h, mi, s), o), [day |-> e]) = TimeAt(Object(y, m, e, h, mi, s), o)
<1> DEFINE t == TimeAt(Object(y, m, d, h, mi, s), o)
           values == [day |-> e]
<1>1. t.isValid /\ t.zone = FixedOffsetZone(o) /\ t.o = o /\ t.c = Object(y, m, d, h, mi, s)
    BY FixedTime DEF IsObject
<1>2. kindOf(values) = "date" /\ "day" \in DOMAIN values
    BY DEF kindOf
<1>3. Extends(Object(y, m, d, h, mi, s), values) = Object(y, m, e, h, mi, s)
    BY DEF Extends, Object
<1> HIDE DEF t, values
<1>4. mixed(t.c, values) = Object(y, m, e, h, mi, s)
    BY <1>1, <1>2, <1>3 DEF mixed, toKind, toGregorian
<1> QED  BY <1>1, <1>4, SetFixed DEF t, values

\* The weekday nearest to a day, or to the last day of a shorter month.
LEMMA NearestDay ==
    ASSUME NEW o \in Int, NEW y, NEW m, NEW d, NEW h, NEW mi, NEW s,
           IsDate(y, m, d), IsTime(h, mi, s), NEW n \in Nat \ {0},
           isNearestWeekDay(TimeAt(Object(y, m, d, h, mi, s), o), n)
    PROVE  NearestTo(y, m, d, n)
<1> DEFINE t == TimeAt(Object(y, m, d, h, mi, s), o)
           last == daysInMonth(y, m)
           target == IF last < n THEN last ELSE n
<1>1. y \in Int /\ m \in 1..12 /\ last \in 28..31 /\ last \in Int /\ d \in 1..last
    BY DateInts DEF IsDate
<1>2. t.c = Object(y, m, d, h, mi, s)
    BY FixedTime DEF IsObject
<1>3. t.c.year = y /\ t.c.month = m /\ t.c.day = d
    BY <1>2, ObjectFields
<1>4. target \in 1..last /\ target \in Nat
    BY <1>1
<1>5. IsDate(y, m, target)
    BY <1>1, <1>4 DEF IsDate
<1>6. setDayWithinMonth(t, n) = TimeAt(Object(y, m, target, h, mi, s), o)
    <2>1. setDayWithinMonth(t, n) = set(t, [day |-> target])
        BY <1>3 DEF setDayWithinMonth
    <2> HIDE DEF target
    <2> QED  BY <2>1, SetDay
<1>7. isWeekday(t) <=> d \in Weekdays(y, m)
    BY <1>2, WeekdayOf
<1> HIDE DEF target
<1> DEFINE dayTime == setDayWithinMonth(t, n)
<1>8. dayTime.c.day = target /\ getWeekDay(dayTime) = KindOf(y, m, target)
    <2>1. dayTime.c = Object(y, m, target, h, mi, s)
        BY <1>5, <1>6, FixedTime DEF IsObject
    <2> HIDE DEF dayTime
    <2> QED  BY <2>1, ObjectFields, WeekDayOf
<1>9. isWeekday(t) /\ isMovedTo(getWeekDay(dayTime), dayTime.c.day, daysInMonth(t.c.year, t.c.month), t.c.day)
    BY DEF isNearestWeekDay
<1> HIDE DEF dayTime, t
<1>10. d \in Weekdays(y, m) /\ isMovedTo(KindOf(y, m, target), target, last, d)
    BY <1>3, <1>7, <1>8, <1>9
<1>11. PICK b \in Nat : \A x \in 1..last : KindOf(y, m, x) = (b + x) % 7
    BY <1>1, KindsFollow
<1>12. \A x : x \in Weekdays(y, m) <=> x \in 1..last /\ (b + x) % 7 \in 1..5
    BY <1>11 DEF Weekdays
<1>13. isMovedTo((b + target) % 7, target, last, d)
    BY <1>4, <1>10, <1>11
<1> HIDE DEF last
<1>14. ASSUME NEW x \in Weekdays(y, m) PROVE Dist(d, target) <= Dist(x, target)
    BY <1>1, <1>4, <1>10, <1>12, <1>13, NearestOf
<1>15. target = IF n > last THEN last ELSE n
    BY <1>1 DEF target
<1> QED  BY <1>10, <1>14, <1>15 DEF NearestTo, last

\* The nth day of a kind.
LEMMA NthDay ==
    ASSUME NEW o \in Int, NEW y, NEW m, NEW d, NEW h, NEW mi, NEW s,
           IsDate(y, m, d), IsTime(h, mi, s), NEW nth,
           isNthDay(TimeAt(Object(y, m, d, h, mi, s), o), nth)
    PROVE  KindOf(y, m, d) = nth.day_of_week /\ (d - 1) \div 7 + 1 = nth.instance
<1> DEFINE t == TimeAt(Object(y, m, d, h, mi, s), o)
           kind == nth.day_of_week
           days == getDaysOfType(t, kind)
           upTo == {x \in days : x <= d}
           last == daysInMonth(y, m)
<1>1. y \in Int /\ m \in 1..12 /\ last \in 28..31 /\ d \in 1..last /\ d \in Int
    BY DateInts DEF IsDate
<1>2. t.c.day = d /\ t.c.month = m
    <2>1. t.c = Object(y, m, d, h, mi, s)
        BY FixedTime DEF IsObject
    <2> QED  BY <2>1, ObjectFields
<1>3. d \in days /\ Cardinality(upTo) = nth.instance
    BY <1>2 DEF isNthDay, isNthOf
<1>4. ASSUME NEW x \in 1..last
      PROVE  x \in days <=> x \in 1..30 /\ KindOf(y, m, x) = kind
    <2> DEFINE u == set(t, [day |-> x])
    <2>1. u = TimeAt(Object(y, m, x, h, mi, s), o)
        BY SetDay
    <2>2. u.c = Object(y, m, x, h, mi, s)
        <3>1. IsDate(y, m, x)
            BY <1>1 DEF IsDate
        <3> QED  BY <2>1, <3>1, FixedTime DEF IsObject
    <2> HIDE DEF u
    <2>3. u.c.month = m /\ getWeekDay(u) = KindOf(y, m, x)
        BY <2>2, ObjectFields, WeekDayOf
    <2> QED  BY <1>2, <2>3 DEF getDaysOfType, u
<1>5. days \subseteq 1..30
    BY DEF getDaysOfType
<1> HIDE DEF days, t
<1>6. PICK b \in Nat : \A x \in 1..last : KindOf(y, m, x) = (b + x) % 7
    BY <1>1, KindsFollow
<1>7. d \in 1..30 /\ KindOf(y, m, d) = kind /\ (b + d) % 7 = kind
    BY <1>1, <1>3, <1>4, <1>6
<1> DEFINE S == {x \in 1..d : (b + x) % 7 = (b + d) % 7}
<1> HIDE DEF last
<1>8. upTo \subseteq S
    <2> SUFFICES ASSUME NEW x \in days, x <= d PROVE x \in 1..d /\ (b + x) % 7 = (b + d) % 7
        OBVIOUS
    <2>1. x \in 1..d /\ x \in 1..last
        BY <1>1, <1>5
    <2> QED  BY <1>4, <1>6, <1>7, <2>1
<1>9. S \subseteq upTo
    <2> SUFFICES ASSUME NEW x \in 1..d, (b + x) % 7 = (b + d) % 7 PROVE x \in days /\ x <= d
        OBVIOUS
    <2>1. x \in 1..last /\ x \in 1..30 /\ x <= d
        BY <1>1, <1>7
    <2> QED  BY <1>4, <1>6, <1>7, <2>1
<1>10. Cardinality(S) = (d - 1) \div 7 + 1
    <2>1. d \in 1..31
        BY <1>7
    <2> QED  BY <2>1, DaysUpTo
<1> HIDE DEF S, upTo
<1>11. upTo = S
    BY <1>8, <1>9, Zenon
<1> QED  BY <1>3, <1>7, <1>10, <1>11

-----------------------------------------------------------------------------
(* The expressions match what they mean.                                   *)

\* What the parser leaves of an expression: ranges of numbers, last days that
\* are days of the week, and nearest weekdays to days, not to day 0.
Meaningful(e) ==
    /\ DOMAIN e = {FIELDS[i] : i \in DOMAIN FIELDS}
    /\ \A field \in DOMAIN e : \A r \in e[field].ranges : r.from \in Int /\ r.to \in Int
    /\ e.day_of_week.lastDays \subseteq 0..6
    /\ e.day_of_month.nearestWeekdays \subseteq Nat \ {0}

\* A field that matches a number allows it.
LEMMA FieldAllows ==
    ASSUME NEW f, \A r \in f.ranges : r.from \in Int /\ r.to \in Int,
           NEW field, NEW v \in Int, isFieldMatches(f, field, v)
    PROVE  \/ f.all \/ v \in f.values \/ (f.omit /\ v = 0)
           \/ \E r \in f.ranges : v \in r.from..r.to
<1>1. ASSUME NEW r \in f.ranges, isInRange(r.from, r.to, v) PROVE v \in r.from..r.to
    BY <1>1 DEF isInRange
<1> QED  BY <1>1 DEF isFieldMatches

\* The fields of the time of day, the month and the year.
LEMMA TimeAllows ==
    ASSUME NEW e, Meaningful(e), NEW c, IsObject(c),
           \A unit \in {"second", "minute", "hour", "month", "year"} : isFieldMatches(e[unit], unit, c[unit])
    PROVE  TimeFires(e, c)
<1>1. ASSUME NEW u \in {"year", "month", "hour", "minute", "second"}
      PROVE  \/ e[u].all \/ c[u] \in e[u].values \/ (e[u].omit /\ c[u] = 0)
             \/ \E r \in e[u].ranges : c[u] \in r.from..r.to
    <2>1. c[u] \in Int
        <3>1. PICK y, m, d, h, mi, s : c = Object(y, m, d, h, mi, s) /\ IsDate(y, m, d) /\ IsTime(h, mi, s)
            BY DEF IsObject
        <3>2. y \in Int /\ m \in Int
            BY <3>1, DateInts
        <3>3. h \in Int /\ mi \in Int /\ s \in Int
            BY <3>1 DEF IsTime
        <3> QED  BY <3>1, <3>2, <3>3, ObjectFields
    <2>2. u \in DOMAIN e
        <3>1. /\ 1 \in DOMAIN FIELDS /\ FIELDS[1] = "second" /\ 2 \in DOMAIN FIELDS /\ FIELDS[2] = "minute"
              /\ 3 \in DOMAIN FIELDS /\ FIELDS[3] = "hour" /\ 5 \in DOMAIN FIELDS /\ FIELDS[5] = "month"
              /\ 7 \in DOMAIN FIELDS /\ FIELDS[7] = "year"
            BY DEF FIELDS
        <3> QED  BY <3>1 DEF Meaningful
    <2>3. \A r \in e[u].ranges : r.from \in Int /\ r.to \in Int
        BY <2>2 DEF Meaningful
    <2>4. isFieldMatches(e[u], u, c[u])
        OBVIOUS
    <2> QED  BY <2>1, <2>3, <2>4, FieldAllows
<1> QED  BY <1>1 DEF TimeFires

\* The days of the month.
LEMMA DayAllows ==
    ASSUME NEW e, Meaningful(e), NEW o \in Int, NEW y, NEW m, NEW d, NEW h, NEW mi, NEW s,
           IsDate(y, m, d), IsTime(h, mi, s),
           isDayOfMonthMatches(e.day_of_month, TimeAt(Object(y, m, d, h, mi, s), o))
    PROVE  DayFires(e, y, m, d)
<1> DEFINE f == e.day_of_month
           t == TimeAt(Object(y, m, d, h, mi, s), o)
           last == daysInMonth(y, m)
<1>1. t.c.day = d
    <2>1. t.c = Object(y, m, d, h, mi, s)
        BY FixedTime DEF IsObject
    <2> QED  BY <2>1, ObjectFields
<1>2. f.lastWeekday /\ d = getLastWeekDay(t) => f.lastWeekday /\ d = Max(Weekdays(y, m))
    BY LastWeekDay
<1>3. lastDayOfMonth(t) = last
    <2>1. y \in Int /\ m \in 1..12 /\ last \in 1..last
        <3>1. y \in Int /\ m \in 1..12 /\ last \in 28..31
            BY DateInts
        <3> QED  BY <3>1
    <2>2. IsDate(y, m, last) /\ IsTime(23, 59, 59)
        BY <2>1 DEF IsDate, IsTime
    <2>3. TimeAt(Object(y, m, last, 23, 59, 59), o).c = Object(y, m, last, 23, 59, 59)
        BY <2>2, FixedTime DEF IsObject
    <2>4. endOf(t, "months") = TimeAt(Object(y, m, last, 23, 59, 59), o)
        BY MonthEnds
    <2> QED  BY <2>3, <2>4, ObjectFields DEF lastDayOfMonth
<1>4. ASSUME NEW n \in f.nearestWeekdays, isNearestWeekDay(t, n) PROVE NearestTo(y, m, d, n)
    <2>1. n \in Nat \ {0}
        BY DEF Meaningful
    <2> QED  BY <1>4, <2>1, NearestDay
<1>5. isFieldMatches(f, "day_of_month", d)
         => f.all \/ d \in f.values \/ (f.omit /\ d = 0) \/ \E r \in f.ranges : d \in r.from..r.to
    <2>1. "day_of_month" \in DOMAIN e
        <3>1. 4 \in DOMAIN FIELDS /\ FIELDS[4] = "day_of_month"
            BY DEF FIELDS
        <3> QED  BY <3>1 DEF Meaningful
    <2>2. \A r \in f.ranges : r.from \in Int /\ r.to \in Int
        BY <2>1 DEF Meaningful
    <2>3. d \in Int
        BY DateInts
    <2> HIDE DEF f
    <2> QED  BY <2>2, <2>3, FieldAllows
<1> HIDE DEF t
<1>6. isDayOfMonthMatches(f, t)
    BY DEF t
<1>7. /\ ~f.omit
      /\ \/ f.all \/ d \in f.values \/ \E r \in f.ranges : d \in r.from..r.to
         \/ f.lastDay /\ d = last
         \/ f.lastWeekday /\ d = Max(Weekdays(y, m))
         \/ \E n \in f.nearestWeekdays : NearestTo(y, m, d, n)
    <2> HIDE DEF f, last
    <2> QED  BY <1>1, <1>2, <1>3, <1>4, <1>5, <1>6 DEF isDayOfMonthMatches
<1> QED  BY <1>7 DEF DayFires

\* The days of the week.
LEMMA WeekAllows ==
    ASSUME NEW e, Meaningful(e), NEW o \in Int, NEW y, NEW m, NEW d, NEW h, NEW mi, NEW s,
           IsDate(y, m, d), IsTime(h, mi, s),
           isDayOfWeekMatches(e.day_of_week, TimeAt(Object(y, m, d, h, mi, s), o))
    PROVE  DayFires(e, y, m, d)
<1> DEFINE f == e.day_of_week
           t == TimeAt(Object(y, m, d, h, mi, s), o)
           last == daysInMonth(y, m)
           kind == KindOf(y, m, d)
<1>1. t.c.day = d /\ getWeekDay(t) = kind
    <2>1. t.c = Object(y, m, d, h, mi, s)
        BY FixedTime DEF IsObject
    <2> HIDE DEF t
    <2> QED  BY <2>1, ObjectFields, WeekDayOf
<1>2. y \in Int /\ m \in 1..12 /\ last \in 28..31 /\ d \in 1..last
    BY DateInts DEF IsDate
<1>3. kind \in Int
    <2>1. PICK b \in Nat : \A x \in 1..last : KindOf(y, m, x) = (b + x) % 7
        BY <1>2, KindsFollow
    <2> QED  BY <1>2, <2>1
<1>4. ASSUME NEW day \in f.lastDays, d = getLastDay(t, day) PROVE kind \in f.lastDays /\ d + 7 > last
    <2>1. day \in 0..6
        BY DEF Meaningful
    <2>2. d = getLastDay(t, day)
        BY <1>4
    <2> HIDE DEF t
    <2>3. KindOf(y, m, d) = day /\ d + 7 > last
        BY <2>1, <2>2, LastDay DEF t
    <2> QED  BY <2>3
<1>5. ASSUME NEW nth \in f.nthDays, isNthDay(t, nth)
      PROVE  kind = nth.day_of_week /\ (d - 1) \div 7 + 1 = nth.instance
    BY <1>5, NthDay
<1>6. isFieldMatches(f, "day_of_week", kind)
         => f.all \/ kind \in f.values \/ (f.omit /\ kind = 0) \/ \E r \in f.ranges : kind \in r.from..r.to
    <2>1. "day_of_week" \in DOMAIN e
        <3>1. 6 \in DOMAIN FIELDS /\ FIELDS[6] = "day_of_week"
            BY DEF FIELDS
        <3> QED  BY <3>1 DEF Meaningful
    <2>2. \A r \in f.ranges : r.from \in Int /\ r.to \in Int
        BY <2>1 DEF Meaningful
    <2> HIDE DEF f, kind
    <2> QED  BY <1>3, <2>2, FieldAllows
<1>7. isDayOfWeekMatches(f, t)
    OBVIOUS
<1> HIDE DEF t
<1>8. /\ ~f.omit
      /\ \/ f.all \/ kind \in f.values \/ \E r \in f.ranges : kind \in r.from..r.to
         \/ f.lastDay /\ kind = 6
         \/ kind \in f.lastDays /\ d + 7 > last
         \/ \E nth \in f.nthDays : kind = nth.day_of_week /\ (d - 1) \div 7 + 1 = nth.instance
    <2> HIDE DEF f, last, kind
    <2> QED  BY <1>1, <1>4, <1>5, <1>6, <1>7 DEF isDayOfWeekMatches
<1> QED  BY <1>8 DEF DayFires

\* An expression matches no time that it does not mean.
LEMMA MatchFires ==
    ASSUME NEW e, Meaningful(e), NEW o \in Int, NEW c, IsObject(c), isExprMatches(e, TimeAt(c, o))
    PROVE  Fires(e, c)
<1>1. PICK y, m, d, h, mi, s : c = Object(y, m, d, h, mi, s) /\ IsDate(y, m, d) /\ IsTime(h, mi, s)
    BY DEF IsObject
<1>2. TimeAt(c, o).c = c
    BY FixedTime
<1>3. /\ \A unit \in {"second", "minute", "hour", "month", "year"} : isFieldMatches(e[unit], unit, c[unit])
      /\ isDayOfMonthMatches(e.day_of_month, TimeAt(c, o)) \/ isDayOfWeekMatches(e.day_of_week, TimeAt(c, o))
    BY <1>2 DEF isExprMatches
<1>4. TimeFires(e, c)
    BY <1>3, TimeAllows
<1>5. DayFires(e, y, m, d)
    BY <1>1, <1>3, DayAllows, WeekAllows
<1> QED  BY <1>1, <1>4, <1>5, ObjectFields DEF Fires

-----------------------------------------------------------------------------
(* The numbers that the parser lets through.                               *)

Fields == {FIELDS[i] : i \in DOMAIN FIELDS}

\* The fields by name.
LEMMA FieldNames ==
    /\ Fields = {"second", "minute", "hour", "day_of_month", "month", "day_of_week", "year"}
    /\ DOMAIN FIELDS = 1..7 /\ \A i \in 1..7 : FIELDS[i] \in Fields
    /\ \A field \in Fields : Index(field) \in 1..7 /\ FIELDS[Index(field)] = field
<1>1. DOMAIN FIELDS = 1..7
    BY DEF FIELDS
<1>2. Fields = {"second", "minute", "hour", "day_of_month", "month", "day_of_week", "year"}
    <2>1. /\ FIELDS[1] = "second" /\ FIELDS[2] = "minute" /\ FIELDS[3] = "hour" /\ FIELDS[4] = "day_of_month"
          /\ FIELDS[5] = "month" /\ FIELDS[6] = "day_of_week" /\ FIELDS[7] = "year"
        BY DEF FIELDS
    <2>2. 1..7 = {1, 2, 3, 4, 5, 6, 7}
        OBVIOUS
    <2>3. Fields = {FIELDS[i] : i \in {1, 2, 3, 4, 5, 6, 7}}
        BY <1>1, <2>2 DEF Fields
    <2> QED  BY <2>1, <2>3
<1>3. \A i \in 1..7 : FIELDS[i] \in Fields
    BY <1>1 DEF Fields
<1>4. ASSUME NEW field \in Fields PROVE Index(field) \in 1..7 /\ FIELDS[Index(field)] = field
    <2>1. \E i \in DOMAIN FIELDS : FIELDS[i] = field
        BY DEF Fields
    <2> QED  BY <1>1, <2>1 DEF Index
<1> QED  BY <1>1, <1>2, <1>3, <1>4

\* A token that counts as a number is one.
LEMMA TokenNumber ==
    ASSUME NEW field, NEW token \in Token, isNumber(field, token)
    PROVE  parseNumber(field, token) \in Nat
<1> DEFINE alias == CASE field = "month" -> monthAlias
                      [] field = "day_of_week" -> weekAlias
                      [] OTHER -> [none |-> 0]
<1>1. \A x \in DOMAIN alias : alias[x] \in Nat
    BY DEF monthAlias, weekAlias
<1> HIDE DEF alias
<1>2. unalias(field, token)
         = IF "name" \in DOMAIN token
             THEN IF token.name \in DOMAIN alias THEN Num(alias[token.name]) ELSE token
             ELSE IF field = "day_of_week" /\ token.num = 7 THEN Num(0) ELSE token
    BY DEF unalias, alias
<1>3. \A n \in Nat : Num(n).num \in Nat
    BY DEF Num
<1>4. CASE token \in [num : Nat]
    <2>1. "name" \notin DOMAIN token /\ token.num \in Nat
        BY <1>4
    <2> QED  BY <1>2, <1>3, <2>1 DEF parseNumber
<1>5. CASE token \in [name : STRING]
    <2>1. "name" \in DOMAIN token /\ "num" \notin DOMAIN token
        BY <1>5
    <2>2. token.name \in DOMAIN alias
        BY <1>2, <2>1 DEF isNumber
    <2> QED  BY <1>1, <1>2, <1>3, <2>1, <2>2 DEF parseNumber
<1> QED  BY <1>4, <1>5 DEF Token

\* The least and the greatest number of every field.
LEMMA FieldBounds ==
    ASSUME NEW field \in Fields
    PROVE  ParserInfo[field].min \in Nat /\ ParserInfo[field].max \in Nat
BY FieldNames DEF ParserInfo

\* The numbers of a field are in its bounds.
Fitting(field, f) ==
    /\ DOMAIN f = DOMAIN Unparsed
    /\ \A v \in f.values : v \in Int /\ InField(field, v)
    /\ \A r \in f.ranges : /\ r.from \in Int /\ InField(field, r.from)
                           /\ r.to \in Int /\ InField(field, r.to)
    /\ \A s \in f.steps : /\ s.from \in Int /\ ParserInfo[field].min <= s.from
                          /\ s.to \in Int /\ s.to <= ParserInfo[field].max
    /\ f.nearestWeekdays \subseteq Nat

\* A value.
LEMMA ValueFits ==
    ASSUME NEW field \in Fields, NEW p \in Part, FormIn(field, p) = "value", validPart(field, p)
    PROVE  parseValue(field, p) \in Int /\ InField(field, parseValue(field, p))
<1>1. p.form \in {"value", "W", "xL"}
    BY DEF FormIn
<1>2. p.n \in Token
    BY <1>1 DEF Part
<1>3. validValue(field, p)
    BY DEF validPart
<1> DEFINE aliases == aliasesOf(field, p)
<1>4. isNumber(aliases, p.n) /\ InField(field, parseNumber(aliases, p.n))
    BY <1>3 DEF validValue, parseValue
<1>5. parseValue(field, p) = parseNumber(aliases, p.n)
    BY DEF parseValue
<1> HIDE DEF aliases
<1>6. parseNumber(aliases, p.n) \in Nat
    BY <1>2, <1>4, TokenNumber
<1> QED  BY <1>4, <1>5, <1>6

\* A range.
LEMMA RangeFits ==
    ASSUME NEW field \in Fields, NEW p \in Part, FormIn(field, p) = "range", validPart(field, p)
    PROVE  LET r == parseRange(field, p)
           IN  /\ r.from \in Int /\ InField(field, r.from)
               /\ r.to \in Int /\ InField(field, r.to)
<1>1. p.form = "range"
    BY DEF FormIn
<1>2. p.from \in Token /\ p.to \in Token
    BY <1>1 DEF Part
<1>3. validRange(field, p)
    BY DEF validPart
<1>4. parseNumber(field, p.from) \in Nat /\ parseNumber(field, p.to) \in Nat
    BY <1>2, <1>3, TokenNumber DEF validRange
<1>5. parseRange(field, p).from \in Int /\ parseRange(field, p).to \in Int
    BY <1>4 DEF parseRange
<1> QED  BY <1>3, <1>5 DEF validRange

\* A step.
LEMMA StepFits ==
    ASSUME NEW field \in Fields, NEW p \in Part, FormIn(field, p) = "step", validPart(field, p)
    PROVE  LET s == parseStepRange(field, p)
           IN  /\ s.from \in Int /\ ParserInfo[field].min <= s.from
               /\ s.to \in Int /\ s.to <= ParserInfo[field].max
<1>1. p.form = "step"
    BY DEF FormIn
<1>2. p.from \in Token /\ p.to \in Token
    BY <1>1 DEF Part
<1>3. validStep(field, p)
    BY DEF validPart
<1>4. ASSUME NEW n \in Nat PROVE Num(n) \in Token /\ isNumber(field, Num(n))
    BY DEF Token, Num, isNumber, unalias
<1>5. ASSUME NEW token \in Token, token = p.from \/ token = p.to, NEW n \in Nat
      PROVE  parseNumber(field, IF token = Open THEN Num(n) ELSE token) \in Nat
    <2>1. CASE token = Open
        BY <1>4, <2>1, TokenNumber
    <2>2. CASE token # Open
        <3>1. isNumber(field, token)
            BY <1>3, <1>5, <2>2 DEF validStep
        <3> QED  BY <2>2, <3>1, TokenNumber
    <2> QED  BY <2>1, <2>2
<1>6. parseStepRange(field, p).from \in Nat /\ parseStepRange(field, p).to \in Nat
    BY <1>2, <1>5, FieldBounds DEF parseStepRange
<1> QED  BY <1>3, <1>6 DEF validStep

\* A nearest weekday.
LEMMA NearestFits ==
    ASSUME NEW field \in Fields, NEW p \in Part, FormIn(field, p) = "W", validPart(field, p)
    PROVE  parseNumber(field, p.n) \in Nat
<1>1. p.form = "W"
    BY DEF FormIn
<1>2. p.n \in Token
    BY <1>1 DEF Part
<1>3. isNumber(field, p.n)
    BY DEF validPart
<1> QED  BY <1>2, <1>3, TokenNumber

\* A field with none of its parts fits.
LEMMA EmptyFits ==
    ASSUME NEW field, NEW f, DOMAIN f = DOMAIN Unparsed,
           f.values = {}, f.ranges = {}, f.steps = {}, f.nearestWeekdays = {}
    PROVE  Fitting(field, f)
BY DEF Fitting

\* parseField.
LEMMA FieldFits ==
    ASSUME NEW field \in Fields, NEW text \in FieldText, validField(field, text)
    PROVE  Fitting(field, parseField(field, text))
<1> DEFINE f == parseField(field, text)
<1>1. CASE text.form = "*"
    <2>1. f = [Unparsed EXCEPT !.all = TRUE]
        BY <1>1 DEF parseField
    <2> HIDE DEF f
    <2>2. /\ DOMAIN f = DOMAIN Unparsed
          /\ f.values = {} /\ f.ranges = {} /\ f.steps = {} /\ f.nearestWeekdays = {}
        BY <2>1 DEF Unparsed
    <2> QED  BY <2>2, EmptyFits DEF f
<1>2. CASE text.form = "?"
    <2>1. f = [Unparsed EXCEPT !.omit = TRUE]
        BY <1>2 DEF parseField
    <2> HIDE DEF f
    <2>2. /\ DOMAIN f = DOMAIN Unparsed
          /\ f.values = {} /\ f.ranges = {} /\ f.steps = {} /\ f.nearestWeekdays = {}
        BY <2>1 DEF Unparsed
    <2> QED  BY <2>2, EmptyFits DEF f
<1>3. CASE text.form = "parts"
    <2> DEFINE of(form) == {p \in text.parts : FormIn(field, p) = form}
               values == {parseValue(field, p) : p \in of("value")}
               ranges == {parseRange(field, p) : p \in of("range")}
               steps == {parseStepRange(field, p) : p \in of("step")}
               nearest == {parseNumber(field, p.n) : p \in of("W")}
    <2>1. f = [Unparsed EXCEPT !.lastDay         = of("L") # {},
                               !.lastWeekday     = of("LW") # {},
                               !.values          = values,
                               !.ranges          = ranges,
                               !.steps           = steps,
                               !.nthDays         = {parseNth(p) : p \in of("nth")},
                               !.nearestWeekdays = nearest,
                               !.lastDays        = {parseNumber(field, p.n) : p \in of("xL")}]
        BY <1>3 DEF parseField
    <2>2. \A p \in text.parts : p \in Part /\ validPart(field, p)
        <3>1. text.parts \in SUBSET Part
            BY <1>3 DEF FieldText
        <3>2. \A p \in text.parts : validPart(field, p)
            BY <1>3 DEF validField
        <3> QED  BY <3>1, <3>2
    <2>3. \A v \in values : v \in Int /\ InField(field, v)
        BY <2>2, ValueFits
    <2>4. \A r \in ranges : r.from \in Int /\ InField(field, r.from) /\ r.to \in Int /\ InField(field, r.to)
        BY <2>2, RangeFits
    <2>5. \A s \in steps : /\ s.from \in Int /\ ParserInfo[field].min <= s.from
                          /\ s.to \in Int /\ s.to <= ParserInfo[field].max
        BY <2>2, StepFits
    <2>6. nearest \subseteq Nat
        BY <2>2, NearestFits
    <2> HIDE DEF values, ranges, steps, nearest, f
    <2>7. /\ DOMAIN f = DOMAIN Unparsed
          /\ f.values = values /\ f.ranges = ranges /\ f.steps = steps /\ f.nearestWeekdays = nearest
        BY <2>1 DEF Unparsed
    <2> QED  BY <2>3, <2>4, <2>5, <2>6, <2>7 DEF Fitting, f
<1>4. text.form \in {"*", "?", "parts"}
    BY DEF FieldText
<1> QED  BY <1>1, <1>2, <1>3, <1>4

\* A sequence with an element put in front or after it.
LEMMA LongerSeq ==
    ASSUME NEW S, NEW s \in Seq(S), NEW x \in S
    PROVE  /\ Append(s, x) \in Seq(S) /\ Len(Append(s, x)) = Len(s) + 1
           /\ <<x>> \o s \in Seq(S) /\ Len(<<x>> \o s) = Len(s) + 1
           /\ Len(s) \in Nat /\ \A i \in 1..Len(s) : s[i] \in S
<1>1. <<x>> \in Seq(S) /\ Len(<<x>>) = 1
    OBVIOUS
<1>2. <<x>> \o s \in Seq(S) /\ Len(<<x>> \o s) = Len(<<x>>) + Len(s)
    BY <1>1
<1>3. Len(s) \in Nat /\ \A i \in 1..Len(s) : s[i] \in S
    OBVIOUS
<1>4. Append(s, x) \in Seq(S) /\ Len(Append(s, x)) = Len(s) + 1
    OBVIOUS
<1> QED  BY <1>1, <1>2, <1>3, <1>4

\* fieldParts makes seven fields of a valid expression.
LEMMA FieldsOf ==
    ASSUME NEW e \in ExprText, validExpr(e)
    PROVE  /\ fieldParts(e) \in Seq(FieldText) /\ Len(fieldParts(e)) = 7
           /\ \A i \in 1..7 : fieldParts(e)[i] \in FieldText /\ validField(FIELDS[i], fieldParts(e)[i])
<1>0. PICK fs : fs = e.fields
    OBVIOUS
<1> DEFINE zero == Parts({Value(Num(0))})
           s == IF hasSeconds(e) THEN fs ELSE <<zero>> \o fs
           w == IF Len(s) = 5 THEN Append(s, Q) ELSE s
<1>1. zero \in FieldText /\ Q \in FieldText /\ Star \in FieldText
    <2>1. Num(0) \in Token
        BY DEF Num, Token
    <2>2. Value(Num(0)) \in Part
        BY <2>1 DEF Value, Part
    <2>3. {Value(Num(0))} \in SUBSET Part
        BY <2>2
    <2>4. zero \in FieldText
        BY <2>3 DEF Parts, FieldText
    <2> QED  BY <2>4 DEF Q, Star, FieldText
<1>2. fs \in Seq(FieldText)
    BY <1>0 DEF ExprText
<1>3. /\ hasSeconds(e) => Len(fs) \in 5..7
      /\ ~hasSeconds(e) => Len(fs) \in 4..6
    BY <1>0 DEF validExpr
<1> HIDE DEF zero
<1>4. s \in Seq(FieldText) /\ Len(s) \in 5..7
    <2>1. CASE hasSeconds(e)
        BY <1>2, <1>3, <2>1
    <2>2. CASE ~hasSeconds(e)
        <3>1. <<zero>> \o fs \in Seq(FieldText) /\ Len(<<zero>> \o fs) = Len(fs) + 1
            BY <1>1, <1>2, LongerSeq
        <3>2. Len(fs) + 1 \in 5..7
            <4>1. \A n : n \in 4..6 => n + 1 \in 5..7
                OBVIOUS
            <4> QED  BY <1>3, <2>2, <4>1, Zenon
        <3>3. s = <<zero>> \o fs
            BY <2>2
        <3> HIDE DEF s
        <3> QED  BY <3>1, <3>2, <3>3
    <2> QED  BY <2>1, <2>2
<1>5. fieldParts(e) = IF Len(w) = 6 THEN Append(w, Star) ELSE w
    BY <1>0 DEF fieldParts, zero
<1> HIDE DEF s
<1>6. w \in Seq(FieldText) /\ Len(w) \in 6..7
    <2>1. Append(s, Q) \in Seq(FieldText) /\ Len(Append(s, Q)) = Len(s) + 1
        BY <1>1, <1>4, LongerSeq
    <2>2. CASE Len(s) = 5
        BY <2>1, <2>2
    <2>3. CASE Len(s) # 5
        BY <1>4, <2>3
    <2> QED  BY <2>2, <2>3
<1> HIDE DEF w
<1>7. fieldParts(e) \in Seq(FieldText) /\ Len(fieldParts(e)) = 7
    <2>1. Append(w, Star) \in Seq(FieldText) /\ Len(Append(w, Star)) = Len(w) + 1
        BY <1>1, <1>6, LongerSeq
    <2>2. CASE Len(w) = 6
        BY <1>5, <2>1, <2>2
    <2>3. CASE Len(w) # 6
        BY <1>5, <1>6, <2>3
    <2> QED  BY <2>2, <2>3
<1>8. \A i \in 1..7 : fieldParts(e)[i] \in FieldText
    <2>1. \A i \in 1..Len(fieldParts(e)) : fieldParts(e)[i] \in FieldText
        BY <1>1, <1>7, LongerSeq
    <2> QED  BY <1>7, <2>1
<1>9. \A i \in 1..7 : validField(FIELDS[i], fieldParts(e)[i])
    <2>1. \A i \in DOMAIN FIELDS : validField(FIELDS[i], fieldParts(e)[i])
        BY DEF validExpr
    <2> QED  BY <2>1, FieldNames
<1> QED  BY <1>7, <1>8, <1>9

\* parseExpr.
LEMMA ExprFits ==
    ASSUME NEW e \in ExprText, validExpr(e)
    PROVE  /\ DOMAIN parseExpr(e) = Fields
           /\ \A field \in Fields : Fitting(field, parseExpr(e)[field])
<1>1. /\ DOMAIN parseExpr(e) = Fields
      /\ \A field \in Fields :
            parseExpr(e)[field] = IF field = "second" /\ ~hasSeconds(e) THEN [Unparsed EXCEPT !.omit = TRUE]
                                  ELSE parseField(field, fieldParts(e)[Index(field)])
    BY DEF parseExpr, Fields
<1>2. ASSUME NEW field \in Fields PROVE Fitting(field, parseExpr(e)[field])
    <2>1. CASE field = "second" /\ ~hasSeconds(e)
        <3> DEFINE f == parseExpr(e)[field]
        <3>1. f = [Unparsed EXCEPT !.omit = TRUE]
            BY <1>1, <2>1
        <3> HIDE DEF f
        <3>2. /\ DOMAIN f = DOMAIN Unparsed
              /\ f.values = {} /\ f.ranges = {} /\ f.steps = {} /\ f.nearestWeekdays = {}
            BY <3>1 DEF Unparsed
        <3> QED  BY <3>2, EmptyFits DEF f
    <2>2. CASE ~(field = "second" /\ ~hasSeconds(e))
        <3>1. PICK i \in 1..7 : i = Index(field) /\ FIELDS[i] = field
            BY FieldNames
        <3>2. fieldParts(e)[i] \in FieldText /\ validField(field, fieldParts(e)[i])
            BY <3>1, FieldsOf
        <3>3. parseExpr(e)[field] = parseField(field, fieldParts(e)[i])
            BY <1>1, <2>2, <3>1
        <3>4. PICK text : text = fieldParts(e)[i]
            OBVIOUS
        <3> QED  BY <3>2, <3>3, <3>4, FieldFits
    <2> QED  BY <2>1, <2>2
<1> QED  BY <1>1, <1>2

\* What simplifyField leaves of a field: no steps, but the values they stand for.
LEMMA SimplifyFits ==
    ASSUME NEW field \in Fields, NEW f, Fitting(field, f)
    PROVE  LET g == simplifyField(f) IN
           /\ DOMAIN g = DOMAIN Unparsed
           /\ \A v \in g.values : v \in Int /\ InField(field, v)
           /\ \A u \in DOMAIN Unparsed \ {"values", "steps"} : g[u] = f[u]
<1> DEFINE g == simplifyField(f)
           stepped == UNION {getValues(s.from, s.to, s.step) : s \in f.steps}
<1>1. g = [f EXCEPT !.values = @ \cup stepped, !.steps = {}]
    BY DEF simplifyField
<1>2. ASSUME NEW v \in stepped PROVE v \in Int /\ InField(field, v)
    <2>1. PICK s \in f.steps : v \in getValues(s.from, s.to, s.step)
        OBVIOUS
    <2>2. s.from \in Int /\ s.to \in Int /\ ParserInfo[field].min <= s.from /\ s.to <= ParserInfo[field].max
        BY DEF Fitting
    <2>3. v \in Int /\ s.from <= v /\ v <= s.to
        BY <2>1, <2>2 DEF getValues
    <2>4. ParserInfo[field].min \in Int /\ ParserInfo[field].max \in Int
        BY FieldBounds
    <2> QED  BY <2>2, <2>3, <2>4 DEF InField
<1> HIDE DEF stepped, g
<1>3. /\ DOMAIN f = DOMAIN Unparsed /\ "values" \in DOMAIN Unparsed /\ "steps" \in DOMAIN Unparsed
      /\ \A v \in f.values : v \in Int /\ InField(field, v)
    BY DEF Fitting, Unparsed
<1>4. /\ DOMAIN g = DOMAIN Unparsed
      /\ g.values = f.values \cup stepped
      /\ \A u \in DOMAIN Unparsed \ {"values", "steps"} : g[u] = f[u]
    BY <1>1, <1>3
<1>5. \A v \in g.values : v \in Int /\ InField(field, v)
    BY <1>2, <1>3, <1>4
<1> QED  BY <1>4, <1>5 DEF g

\* The simplified expressions of a text, field by field.
Parsed(text) == simplifyExprs(parse(text))

\* A field of an expression that the loops run over.
Simple(field, g) ==
    /\ \A v \in g.values : v \in Int /\ InField(field, v)
    /\ \A r \in g.ranges : /\ r.from \in Int /\ InField(field, r.from)
                           /\ r.to \in Int /\ InField(field, r.to)
    /\ g.nearestWeekdays \subseteq Nat
    /\ g.lastDays \subseteq 0..6

\* No text asks for the weekday nearest to day 0.
NoDayZero ==
    \A text \in Texts : valid(text) =>
        \A e \in parse(text) : 0 \notin e.day_of_month.nearestWeekdays

LEMMA ParsedFields ==
    ASSUME NEW text \in Texts, valid(text), NEW e \in Parsed(text)
    PROVE  /\ DOMAIN e = Fields
           /\ \A field \in Fields : Simple(field, e[field])
           /\ NoDayZero => 0 \notin e.day_of_month.nearestWeekdays
<1>1. PICK e0 \in parse(text) : e = [field \in DOMAIN e0 |-> simplifyField(e0[field])]
    BY DEF Parsed, simplifyExprs
<1>2. PICK x \in text : e0 = parseExpr(x)
    BY DEF parse
<1>3. x \in ExprText /\ validExpr(x)
    <2>1. text \subseteq ExprText
        BY PreviewAssumption, Zenon
    <2> QED  BY <2>1 DEF valid
<1>4. DOMAIN e0 = Fields /\ \A field \in Fields : Fitting(field, e0[field])
    BY <1>2, <1>3, ExprFits
<1>5. \A field \in Fields : e0[field].lastDays \subseteq 0..6
    <2>1. Ends(parse(text))
        BY PreviewAssumption, Zenon
    <2> QED  BY <1>4, <2>1 DEF Ends
<1>6. DOMAIN e = Fields /\ \A field \in Fields : e[field] = simplifyField(e0[field])
    BY <1>1, <1>4
<1>7. {"ranges", "nearestWeekdays", "lastDays"} \subseteq DOMAIN Unparsed \ {"values", "steps"}
    BY DEF Unparsed
<1>8. ASSUME NEW field \in Fields
      PROVE  Simple(field, e[field]) /\ e[field].nearestWeekdays = e0[field].nearestWeekdays
    <2> DEFINE f == e0[field]
               g == e[field]
    <2>1. Fitting(field, f)
        BY <1>4
    <2>2. g = simplifyField(f)
        BY <1>6
    <2>3. f.lastDays \subseteq 0..6
        BY <1>5
    <2> HIDE DEF f, g
    <2>4. /\ \A v \in g.values : v \in Int /\ InField(field, v)
          /\ \A u \in DOMAIN Unparsed \ {"values", "steps"} : g[u] = f[u]
        BY <2>1, <2>2, SimplifyFits
    <2>5. g.ranges = f.ranges /\ g.nearestWeekdays = f.nearestWeekdays /\ g.lastDays = f.lastDays
        BY <1>7, <2>4
    <2>6. Simple(field, g)
        BY <2>1, <2>3, <2>4, <2>5 DEF Simple, Fitting
    <2> QED  BY <2>5, <2>6 DEF f, g
<1>9. NoDayZero => 0 \notin e.day_of_month.nearestWeekdays
    <2>1. "day_of_month" \in Fields
        BY FieldNames
    <2> QED  BY <1>8, <2>1 DEF NoDayZero
<1> QED  BY <1>6, <1>8, <1>9

\* They mean something.
LEMMA ParsedMeaningful ==
    ASSUME NoDayZero, NEW text \in Texts, valid(text), NEW e \in Parsed(text)
    PROVE  Meaningful(e)
<1>1. DOMAIN e = Fields /\ \A field \in Fields : Simple(field, e[field])
    BY ParsedFields
<1>2. 0 \notin e.day_of_month.nearestWeekdays
    BY ParsedFields
<1>3. "day_of_month" \in Fields /\ "day_of_week" \in Fields
    BY FieldNames
<1> QED  BY <1>1, <1>2, <1>3 DEF Meaningful, Simple, Fields

\* The numbers of every unit.
Bound == [year |-> Int, month |-> 1..12, day |-> 1..31, hour |-> 0..23, minute |-> 0..59, second |-> 0..59]

\* The field of a unit other than the day.
LEMMA ExpandFits ==
    ASSUME NEW text \in Texts, valid(text), NEW e \in Parsed(text), NEW year \in Int,
           NEW field \in Fields, field # "day_of_week",
           NEW v \in expandField(e, field, year)
    PROVE  v \in Int /\ (field # "year" => InField(field, v))
<1> DEFINE f == e[field]
           info == MatcherInfo[field]
           least == IF field = "year" THEN year ELSE info.min
<1>1. Simple(field, f)
    BY ParsedFields
<1>2. info.min \in Int /\ info.max \in Int /\ (field # "year" => info = ParserInfo[field])
    <2>1. DOMAIN ParserInfo = Fields
        BY FieldNames DEF ParserInfo
    <2>2. field # "year" => info = ParserInfo[field]
        BY <2>1 DEF MatcherInfo
    <2>3. ParserInfo["year"].min \in Int /\ DOMAIN ParserInfo["year"] = {"min", "max"}
        BY DEF ParserInfo
    <2>4. MatcherInfo["year"].min \in Int /\ MatcherInfo["year"].max = 2099
        <3>1. "year" \in Fields
            BY FieldNames
        <3>2. MatcherInfo["year"] = [ParserInfo["year"] EXCEPT !.max = 2099]
            BY <2>1, <3>1 DEF MatcherInfo
        <3> QED  BY <2>3, <3>2
    <2> QED  BY <2>2, <2>4, FieldBounds
<1>3. \/ field = "second" /\ v = 0
      \/ v \in f.values
      \/ v \in least..info.max
      \/ v \in UNION {r.from..r.to : r \in f.ranges}
    BY DEF expandField
<1> HIDE DEF f
<1>4. CASE field = "second" /\ v = 0
    BY <1>4 DEF InField, ParserInfo
<1>5. CASE v \in f.values
    BY <1>1, <1>5 DEF Simple
<1> HIDE DEF info
<1>6. CASE v \in least..info.max
    BY <1>2, <1>6 DEF InField
<1>7. CASE v \in UNION {r.from..r.to : r \in f.ranges}
    <2>1. PICK r \in f.ranges : v \in r.from..r.to
        BY <1>7
    <2>2. /\ r.from \in Int /\ ParserInfo[field].min <= r.from
          /\ r.to \in Int /\ r.to <= ParserInfo[field].max
        BY <1>1 DEF Simple, InField
    <2>3. v \in Int /\ r.from <= v /\ v <= r.to
        BY <2>1, <2>2
    <2>4. ParserInfo[field].min \in Int /\ ParserInfo[field].max \in Int
        BY FieldBounds
    <2> QED  BY <2>2, <2>3, <2>4 DEF InField
<1> QED  BY <1>3, <1>4, <1>5, <1>6, <1>7

\* The units by name.
LEMMA UnitNames ==
    /\ {Units[i] : i \in DOMAIN Units} = {"year", "month", "day", "hour", "minute", "second"}
    /\ DOMAIN Units = 1..6
    /\ Units[1] = "year" /\ Units[2] = "month" /\ Units[3] = "day"
    /\ Units[4] = "hour" /\ Units[5] = "minute" /\ Units[6] = "second"
<1>1. /\ DOMAIN Units = 1..6
      /\ Units[1] = "year" /\ Units[2] = "month" /\ Units[3] = "day"
      /\ Units[4] = "hour" /\ Units[5] = "minute" /\ Units[6] = "second"
    BY DEF Units
<1>2. 1..6 = {1, 2, 3, 4, 5, 6}
    OBVIOUS
<1>3. {Units[i] : i \in {1, 2, 3, 4, 5, 6}} = {"year", "month", "day", "hour", "minute", "second"}
    BY <1>1
<1> QED  BY <1>1, <1>2, <1>3

\* The loops run over numbers of their units.
LEMMA MergedBounds ==
    ASSUME NEW text, text \in Texts, valid(text), NEW year, year \in Int, NEW u, u \in DOMAIN Bound
    PROVE  mergeExprs(Parsed(text), year)[u] \subseteq Bound[u]
<1> DEFINE merge == mergeExprs(Parsed(text), year)
           of(field) == expandFields(Parsed(text), field, year)
<1>1. /\ \A x \in {"year", "month", "hour", "minute", "second"} : merge[x] = of(x)
      /\ merge["day"] = of("day_of_month") \cup of("day_of_week")
    <2>1. {Units[i] : i \in DOMAIN Units} = {"year", "month", "day", "hour", "minute", "second"}
        BY UnitNames
    <2>2. merge = [x \in {Units[i] : i \in DOMAIN Units} |->
                      IF x = "day" THEN of("day_of_month") \cup of("day_of_week") ELSE of(x)]
        BY DEF mergeExprs
    <2> HIDE DEF merge, of
    <2> QED  BY <2>1, <2>2
<1>2. ASSUME NEW field \in Fields, field # "day_of_week", NEW v \in of(field)
      PROVE  v \in Int /\ (field # "year" => InField(field, v))
    <2>1. PICK e \in Parsed(text) : v \in expandField(e, field, year)
        BY DEF expandFields
    <2> QED  BY <1>2, <2>1, ExpandFits
<1>3. of("day_of_week") \subseteq 1..31
    <2>1. ASSUME NEW e \in Parsed(text) PROVE expandField(e, "day_of_week", year) \subseteq 1..31
        BY DEF expandField
    <2> QED  BY <2>1 DEF expandFields
<1> HIDE DEF of, merge
<1>4. of("year") \subseteq Int
    BY <1>2, FieldNames
<1>5. ASSUME NEW field \in Fields, field # "day_of_week", field # "year"
      PROVE  of(field) \subseteq ParserInfo[field].min..ParserInfo[field].max
    <2>1. ASSUME NEW v \in of(field) PROVE v \in Int /\ InField(field, v)
        BY <1>2, <1>5
    <2>2. ParserInfo[field].min \in Int /\ ParserInfo[field].max \in Int
        BY FieldBounds
    <2> QED  BY <2>1, <2>2 DEF InField
<1>6. /\ of("month") \subseteq 1..12 /\ of("day_of_month") \subseteq 1..31 /\ of("hour") \subseteq 0..23
      /\ of("minute") \subseteq 0..59 /\ of("second") \subseteq 0..59
    <2>1. /\ of("month") \subseteq ParserInfo["month"].min..ParserInfo["month"].max
          /\ of("day_of_month") \subseteq ParserInfo["day_of_month"].min..ParserInfo["day_of_month"].max
          /\ of("hour") \subseteq ParserInfo["hour"].min..ParserInfo["hour"].max
          /\ of("minute") \subseteq ParserInfo["minute"].min..ParserInfo["minute"].max
          /\ of("second") \subseteq ParserInfo["second"].min..ParserInfo["second"].max
        BY <1>5, FieldNames
    <2> QED  BY <2>1 DEF ParserInfo
<1>7. u \in {"year", "month", "day", "hour", "minute", "second"}
    BY DEF Bound
<1>8. merge[u] \subseteq Bound[u]
    <2>1. CASE u = "day"
        BY <1>1, <1>3, <1>6, <2>1 DEF Bound
    <2>2. CASE u # "day"
        BY <1>1, <1>4, <1>6, <1>7, <2>2 DEF Bound
    <2> QED  BY <2>1, <2>2
<1> QED  BY <1>8 DEF merge

-----------------------------------------------------------------------------
(* The times that the series goes through.                                 *)

\* The ISO text of a time at a fixed offset: its object, and its instant.
LEMMA IsoAt ==
    ASSUME NEW o \in Int, NEW c, IsObject(c), NEW zone, zone.type # "invalid"
    PROVE  LET text == toISO(TimeAt(c, o)) IN
           /\ parseISODate(text)[1] = c
           /\ fromISO(text, zone) = DateTime(objToLocalTS(c) - 60 * o, zone)
<1>1. PICK y, m, d, h, mi, s : c = Object(y, m, d, h, mi, s) /\ IsDate(y, m, d) /\ IsTime(h, mi, s)
    BY DEF IsObject
<1> DEFINE ts == objToLocalTS(c) - 60 * o
           fixed == FixedOffsetZone(o)
<1>2. objToLocalTS(c) \in Int
    BY TSOfObject
<1>3. IsZone(fixed) /\ zoneOffset(fixed, ts) = o
    BY DEF IsZone, FixedOffsetZone, zoneOffset
<1>4. ts \in Int /\ objToLocalTS(c) = ts + 60 * o
    BY <1>2
<1> HIDE DEF fixed
<1>5. tsToObj(ts, o) = c
    BY TSOfObject
<1> HIDE DEF ts
<1>6. Reads(c, ts, fixed)
    BY <1>3, <1>4, <1>5 DEF Reads
<1>7. /\ parseISODate(toISO(DateTime(ts, fixed)))[1] = c
      /\ fromISO(toISO(DateTime(ts, fixed)), zone) = DateTime(ts, zone)
    BY <1>1, <1>6, IsoText
<1> QED  BY <1>7 DEF TimeAt, ts, fixed

\* So its instant.
LEMMA InstantAt ==
    ASSUME NEW o \in Int, NEW c, IsObject(c)
    PROVE  Instant(toISO(TimeAt(c, o))) = objToLocalTS(c) - 60 * o
<1>1. FixedOffsetZone(0).type # "invalid"
    BY DEF FixedOffsetZone
<1>2. fromISO(toISO(TimeAt(c, o)), FixedOffsetZone(0)) = DateTime(objToLocalTS(c) - 60 * o, FixedOffsetZone(0))
    BY <1>1, IsoAt
<1>3. \A ts : DateTime(ts, FixedOffsetZone(0)).ts = ts
    BY <1>1 DEF DateTime
<1> QED  BY <1>2, <1>3 DEF Instant

\* The start of the series, in the zone of the browser's offset.
LEMMA StartAt ==
    ASSUME TypeOK, start.isValid
    PROVE  /\ offset \in Int
           /\ \E c : IsObject(c) /\ start = TimeAt(c, offset) /\ objToLocalTS(c) - 60 * offset = now
<1>1. offset \in Int /\ now \in Int
    <2>1. offset \in Int
        BY ClockAssumption DEF TypeOK
    <2>2. now \in Int
        BY NowInt
    <2> QED  BY <2>1, <2>2
<1>2. PICK c0 : IsObject(c0) /\ objToLocalTS(c0) = now + 60 * 0
                /\ DateTime(now, FixedOffsetZone(0)) = TimeAt(c0, 0)
    <2>1. PICK ts \in Int, zero \in Int : ts = now /\ zero = 0
        BY <1>1
    <2>2. \E c : IsObject(c) /\ objToLocalTS(c) = ts + 60 * zero
                 /\ DateTime(ts, FixedOffsetZone(zero)) = TimeAt(c, zero)
        BY FixedOf
    <2> QED  BY <2>1, <2>2
<1>3. objToLocalTS(c0) - 60 * 0 = now
    BY <1>1, <1>2
<1> DEFINE zone == normalizeZone(offset)
<1>4. CASE zone.type = "invalid"
    <2>1. start = InvalidDateTime
        BY <1>4 DEF start, fromISO, parseDataToDateTime, setZone
    <2> QED  BY <2>1 DEF InvalidDateTime
<1>5. CASE zone.type # "invalid"
    <2>1. parseSpecifier(offset) # {} /\ zone = CHOOSE x \in parseSpecifier(offset) : TRUE
        BY <1>5 DEF normalizeZone, InvalidZone
    <2>2. parseSpecifier(offset) = {FixedOffsetZone(offset)}
        <3>1. offset >= 0 /\ offset % 60 = 0
            BY <2>1 DEF parseSpecifier
        <3>2. 60 * (offset \div 60) + 0 = offset
            BY <1>1, <3>1
        <3> QED  BY <3>1, <3>2 DEF parseSpecifier, signedOffset
    <2>3. zone = FixedOffsetZone(offset)
        BY <2>1, <2>2
    <2> HIDE DEF zone
    <2>4. fromISO(toISO(TimeAt(c0, 0)), zone) = DateTime(objToLocalTS(c0) - 60 * 0, zone)
        BY <1>2, <1>5, IsoAt
    <2>5. start = DateTime(now, FixedOffsetZone(offset))
        BY <1>2, <1>3, <2>3, <2>4 DEF start, zone
    <2>6. PICK c : IsObject(c) /\ objToLocalTS(c) = now + 60 * offset
                   /\ DateTime(now, FixedOffsetZone(offset)) = TimeAt(c, offset)
        <3>1. PICK ts \in Int, o \in Int : ts = now /\ o = offset
            BY <1>1
        <3>2. \E c : IsObject(c) /\ objToLocalTS(c) = ts + 60 * o
                     /\ DateTime(ts, FixedOffsetZone(o)) = TimeAt(c, o)
            BY FixedOf
        <3> QED  BY <3>1, <3>2
    <2>7. objToLocalTS(c) - 60 * offset = now
        BY <1>1, <2>6
    <2> QED  BY <1>1, <2>5, <2>6, <2>7
<1> QED  BY <1>4, <1>5

\* A day that is in no month of that length becomes the last one.
Clamped(y, m, d, h, mi, s) ==
    \E e : IsDate(y, m, e) /\ lastDayAtMost(Object(y, m, d, h, mi, s)) = Object(y, m, e, h, mi, s)

\* lastDayAtMost keeps the month.
LEMMA LastDayOf ==
    ASSUME NEW y, y \in Int, NEW m, m \in 1..12, NEW d, d \in 1..31, NEW h, NEW mi, NEW s
    PROVE  Clamped(y, m, d, h, mi, s)
<1> DEFINE last == daysInMonth(y, m)
           c == Object(y, m, d, h, mi, s)
<1>1. last \in 28..31
    BY MonthDays
<1>2. c.year = y /\ c.month = m /\ c.day = d
    BY ObjectFields
<1>3. [c EXCEPT !.day = last] = Object(y, m, last, h, mi, s)
    BY DEF Object
<1>4. IsDate(y, m, last) /\ (d < last => IsDate(y, m, d))
    BY <1>1 DEF IsDate
<1> HIDE DEF last, c
<1>5. CASE d < last
    <2>1. lastDayAtMost(c) = c
        BY <1>2, <1>5 DEF lastDayAtMost, last
    <2>2. lastDayAtMost(Object(y, m, d, h, mi, s)) = Object(y, m, d, h, mi, s)
        BY <2>1 DEF c
    <2> QED  BY <1>4, <1>5, <2>2 DEF Clamped
<1>6. CASE ~(d < last)
    <2>1. lastDayAtMost(c) = Object(y, m, last, h, mi, s)
        BY <1>2, <1>3, <1>6 DEF lastDayAtMost, last
    <2>2. lastDayAtMost(Object(y, m, d, h, mi, s)) = Object(y, m, last, h, mi, s)
        BY <2>1 DEF c
    <2> QED  BY <1>4, <2>2 DEF Clamped
<1> QED  BY <1>5, <1>6

\* set, of one unit.
LEMMA SetOne ==
    ASSUME NEW o \in Int, NEW c, IsObject(c),
           NEW u, u \in {"year", "month", "day", "hour", "minute", "second"},
           NEW values, DOMAIN values = {u}
    PROVE  LET b == Extends(c, values) IN
           set(TimeAt(c, o), values) = TimeAt(IF u = "day" THEN b ELSE lastDayAtMost(b), o)
<1> DEFINE t == TimeAt(c, o)
<1>1. t.isValid /\ t.zone = FixedOffsetZone(o) /\ t.o = o /\ t.c = c
    BY FixedTime
<1>2. DOMAIN values = {u}
    OBVIOUS
<1> HIDE DEF t
<1>3. kindOf(values) = "date"
    BY <1>2 DEF kindOf
<1>4. toKind(c, "date") = c /\ \A b : toGregorian(b, "date") = b
    BY DEF toKind, toGregorian
<1>5. mixed(c, values) = IF u = "day" THEN Extends(c, values) ELSE lastDayAtMost(Extends(c, values))
    BY <1>2, <1>3, <1>4 DEF mixed
<1>6. set(t, values) = TimeAt(mixed(t.c, values), o)
    BY <1>1, SetFixed
<1> QED  BY <1>1, <1>5, <1>6 DEF t

\* An object has the units of the loops outside level l in common with another.
Outside(b, c, l) == \A i \in 1..(l - 1) : b[Units[i]] = c[Units[i]]

\* A turn of the loop at level l sets its unit, and leaves those outside alone.
Sets(c, o, l, v) ==
    \E b : /\ IsObject(b) /\ b[Units[l]] = v /\ Outside(b, c, l)
           /\ set(TimeAt(c, o), [u \in {Units[l]} |-> v]) = TimeAt(b, o)

\* setTime with one unit.
LEMMA TurnAt ==
    ASSUME NEW o, o \in Int, NEW c, IsObject(c), NEW l, l \in 1..6, NEW v, v \in Bound[Units[l]],
           l = 3 => v <= daysInMonth(c.year, c.month)
    PROVE  Sets(c, o, l, v)
<1>1. PICK y, m, d, h, mi, s : c = Object(y, m, d, h, mi, s) /\ IsDate(y, m, d) /\ IsTime(h, mi, s)
    BY DEF IsObject
<1>2. /\ y \in Int /\ m \in 1..12 /\ d \in 1..31
      /\ h \in 0..23 /\ mi \in 0..59 /\ s \in 0..59
    <2>1. y \in Int /\ m \in 1..12
        BY <1>1 DEF IsDate
    <2>2. d \in Int /\ 1 <= d /\ daysInMonth(y, m) \in 28..31 /\ d <= daysInMonth(y, m)
        BY <1>1, DateInts
    <2> QED  BY <1>1, <2>1, <2>2 DEF IsTime
<1> DEFINE to(u) == set(TimeAt(c, o), [x \in {u} |-> v])
<1>0. /\ to("year") = TimeAt(lastDayAtMost(Object(v, m, d, h, mi, s)), o)
      /\ to("month") = TimeAt(lastDayAtMost(Object(y, v, d, h, mi, s)), o)
      /\ to("day") = TimeAt(Object(y, m, v, h, mi, s), o)
      /\ to("hour") = TimeAt(lastDayAtMost(Object(y, m, d, v, mi, s)), o)
      /\ to("minute") = TimeAt(lastDayAtMost(Object(y, m, d, h, v, s)), o)
      /\ to("second") = TimeAt(lastDayAtMost(Object(y, m, d, h, mi, v)), o)
    <2> DEFINE put(u) == Extends(c, [x \in {u} |-> v])
    <2>1. ASSUME NEW u \in {"year", "month", "day", "hour", "minute", "second"}
          PROVE  to(u) = TimeAt(IF u = "day" THEN put(u) ELSE lastDayAtMost(put(u)), o)
        <3>1. PICK values : values = [x \in {u} |-> v]
            OBVIOUS
        <3>2. DOMAIN values = {u}
            BY <3>1
        <3>3. set(TimeAt(c, o), values)
                = TimeAt(IF u = "day" THEN Extends(c, values) ELSE lastDayAtMost(Extends(c, values)), o)
            BY <3>2, SetOne
        <3> QED  BY <3>1, <3>3
    <2>2. put("year") = Object(v, m, d, h, mi, s)
        BY <1>1 DEF Extends, Object
    <2>3. put("month") = Object(y, v, d, h, mi, s)
        BY <1>1 DEF Extends, Object
    <2>4. put("day") = Object(y, m, v, h, mi, s)
        BY <1>1 DEF Extends, Object
    <2>5. put("hour") = Object(y, m, d, v, mi, s)
        BY <1>1 DEF Extends, Object
    <2>6. put("minute") = Object(y, m, d, h, v, s)
        BY <1>1 DEF Extends, Object
    <2>7. put("second") = Object(y, m, d, h, mi, v)
        BY <1>1 DEF Extends, Object
    <2> HIDE DEF to, put
    <2> QED  BY <2>1, <2>2, <2>3, <2>4, <2>5, <2>6, <2>7
<1> HIDE DEF to
<1>3. ASSUME l = 1
      PROVE  \E b : IsObject(b) /\ b[Units[l]] = v /\ Outside(b, c, l) /\ to(Units[l]) = TimeAt(b, o)
    <2>1. v \in Int /\ Units[l] = "year"
        BY <1>3, UnitNames DEF Bound
    <2>2. PICK e : IsDate(v, m, e) /\ lastDayAtMost(Object(v, m, d, h, mi, s)) = Object(v, m, e, h, mi, s)
        <3>1. Clamped(v, m, d, h, mi, s)
            BY <1>2, <2>1, LastDayOf
        <3> QED  BY <3>1 DEF Clamped
    <2>3. to("year") = TimeAt(Object(v, m, e, h, mi, s), o)
        BY <1>0, <2>2
    <2>4. Outside(Object(v, m, e, h, mi, s), c, l)
        BY <1>3 DEF Outside
    <2>5. IsObject(Object(v, m, e, h, mi, s)) /\ Object(v, m, e, h, mi, s).year = v
        BY <1>1, <2>2, ObjectFields DEF IsObject
    <2> HIDE DEF to
    <2> QED  BY <2>1, <2>3, <2>4, <2>5
<1>4. ASSUME l = 2
      PROVE  \E b : IsObject(b) /\ b[Units[l]] = v /\ Outside(b, c, l) /\ to(Units[l]) = TimeAt(b, o)
    <2>1. v \in 1..12 /\ Units[l] = "month"
        BY <1>4, UnitNames DEF Bound
    <2>2. PICK e : IsDate(y, v, e) /\ lastDayAtMost(Object(y, v, d, h, mi, s)) = Object(y, v, e, h, mi, s)
        <3>1. Clamped(y, v, d, h, mi, s)
            BY <1>2, <2>1, LastDayOf
        <3> QED  BY <3>1 DEF Clamped
    <2> DEFINE b == Object(y, v, e, h, mi, s)
    <2>3. to("month") = TimeAt(b, o)
        BY <1>0, <2>2
    <2>4. IsObject(b) /\ b.month = v /\ b.year = c.year
        BY <1>1, <2>2, ObjectFields DEF IsObject
    <2> HIDE DEF to, b
    <2>5. Outside(b, c, l)
        BY <1>4, <2>4, UnitNames DEF Outside
    <2> QED  BY <2>1, <2>3, <2>4, <2>5
<1>5. ASSUME l = 3
      PROVE  \E b : IsObject(b) /\ b[Units[l]] = v /\ Outside(b, c, l) /\ to(Units[l]) = TimeAt(b, o)
    <2>1. v \in 1..31 /\ Units[l] = "day"
        BY <1>5, UnitNames DEF Bound
    <2>2. IsDate(y, m, v)
        <3>1. c.year = y /\ c.month = m
            BY <1>1, ObjectFields
        <3>2. v \in Int /\ 1 <= v /\ v <= daysInMonth(y, m) /\ daysInMonth(y, m) \in Int
            BY <1>2, <1>5, <2>1, <3>1, MonthDays
        <3> QED  BY <1>2, <3>2 DEF IsDate
    <2> DEFINE b == Object(y, m, v, h, mi, s)
    <2>3. to("day") = TimeAt(b, o)
        BY <1>0
    <2>4. IsObject(b) /\ b.day = v /\ b.month = c.month /\ b.year = c.year
        BY <1>1, <2>2, ObjectFields DEF IsObject
    <2> HIDE DEF to, b
    <2>5. Outside(b, c, l)
        <3>1. 1..(l - 1) = {1, 2}
            BY <1>5
        <3> QED  BY <2>4, <3>1, UnitNames DEF Outside
    <2> QED  BY <2>1, <2>3, <2>4, <2>5
\* The time of day does not clamp the day.
<1>6. ASSUME NEW a, NEW n, NEW k, IsTime(a, n, k)
      PROVE  lastDayAtMost(Object(y, m, d, a, n, k)) = Object(y, m, d, a, n, k)
    <2> DEFINE b == Object(y, m, d, a, n, k)
    <2>1. b.year = y /\ b.month = m /\ b.day = d
        BY ObjectFields
    <2>2. [b EXCEPT !.day = d] = b
        BY DEF Object
    <2>3. d < daysInMonth(y, m) \/ d = daysInMonth(y, m)
        BY <1>1, DateInts
    <2> HIDE DEF b
    <2> QED  BY <2>1, <2>2, <2>3 DEF lastDayAtMost, b
<1>7. ASSUME l = 4
      PROVE  \E b : IsObject(b) /\ b[Units[l]] = v /\ Outside(b, c, l) /\ to(Units[l]) = TimeAt(b, o)
    <2>1. v \in 0..23 /\ Units[l] = "hour"
        BY <1>7, UnitNames DEF Bound
    <2>2. IsTime(v, mi, s)
        BY <1>1, <2>1 DEF IsTime
    <2> DEFINE b == Object(y, m, d, v, mi, s)
    <2>3. to("hour") = TimeAt(b, o)
        BY <1>0, <1>6, <2>2
    <2>4. IsObject(b) /\ b.hour = v /\ b.day = c.day /\ b.month = c.month /\ b.year = c.year
        BY <1>1, <2>2, ObjectFields DEF IsObject
    <2> HIDE DEF to, b
    <2>5. Outside(b, c, l)
        <3>1. 1..(l - 1) = {1, 2, 3}
            BY <1>7
        <3> QED  BY <2>4, <3>1, UnitNames DEF Outside
    <2> QED  BY <2>1, <2>3, <2>4, <2>5
<1>8. ASSUME l = 5
      PROVE  \E b : IsObject(b) /\ b[Units[l]] = v /\ Outside(b, c, l) /\ to(Units[l]) = TimeAt(b, o)
    <2>1. v \in 0..59 /\ Units[l] = "minute"
        BY <1>8, UnitNames DEF Bound
    <2>2. IsTime(h, v, s)
        BY <1>1, <2>1 DEF IsTime
    <2> DEFINE b == Object(y, m, d, h, v, s)
    <2>3. to("minute") = TimeAt(b, o)
        BY <1>0, <1>6, <2>2
    <2>4. /\ IsObject(b) /\ b.minute = v /\ b.hour = c.hour /\ b.day = c.day
          /\ b.month = c.month /\ b.year = c.year
        BY <1>1, <2>2, ObjectFields DEF IsObject
    <2> HIDE DEF to, b
    <2>5. Outside(b, c, l)
        <3>1. 1..(l - 1) = {1, 2, 3, 4}
            BY <1>8
        <3> QED  BY <2>4, <3>1, UnitNames DEF Outside
    <2> QED  BY <2>1, <2>3, <2>4, <2>5
<1>9. ASSUME l = 6
      PROVE  \E b : IsObject(b) /\ b[Units[l]] = v /\ Outside(b, c, l) /\ to(Units[l]) = TimeAt(b, o)
    <2>1. v \in 0..59 /\ Units[l] = "second"
        BY <1>9, UnitNames DEF Bound
    <2>2. IsTime(h, mi, v)
        BY <1>1, <2>1 DEF IsTime
    <2> DEFINE b == Object(y, m, d, h, mi, v)
    <2>3. to("second") = TimeAt(b, o)
        BY <1>0, <1>6, <2>2
    <2>4. /\ IsObject(b) /\ b.second = v /\ b.minute = c.minute /\ b.hour = c.hour
          /\ b.day = c.day /\ b.month = c.month /\ b.year = c.year
        BY <1>1, <2>2, ObjectFields DEF IsObject
    <2> HIDE DEF to, b
    <2>5. Outside(b, c, l)
        <3>1. 1..(l - 1) = {1, 2, 3, 4, 5}
            BY <1>9
        <3> QED  BY <2>4, <3>1, UnitNames DEF Outside
    <2> QED  BY <2>1, <2>3, <2>4, <2>5
<1>10. l = 1 \/ l = 2 \/ l = 3 \/ l = 4 \/ l = 5 \/ l = 6
    OBVIOUS
<1> HIDE DEF to
<1>11. \E b : IsObject(b) /\ b[Units[l]] = v /\ Outside(b, c, l) /\ to(Units[l]) = TimeAt(b, o)
    BY <1>3, <1>4, <1>5, <1>7, <1>8, <1>9, <1>10
<1> QED  BY <1>11 DEF to, Sets

\* The least of the numbers above n.
LEMMA LeastOf ==
    ASSUME NEW n \in Int, NEW T, T \subseteq Int, \A v \in T : v > n, T # {}
    PROVE  Min(T) \in T /\ \A v \in T : Min(T) <= v
<1> DEFINE R == OpToRel(<, Nat)
           U == {k \in Nat : k + n \in T}
<1>1. \A j, k \in Nat : <<j, k>> \in R <=> j < k
    BY DEF OpToRel
<1>2. IsWellFoundedOn(R, Nat)
    BY NatLessThanWellFounded
<1>3. U \subseteq Nat /\ \A v \in T : v - n \in U
    <2>1. ASSUME NEW v \in T PROVE v - n \in Nat /\ v - n + n = v
        <3>1. v \in Int /\ v > n
            OBVIOUS
        <3> QED  BY <3>1
    <2> QED  BY <2>1
<1>4. \A k \in U : k + n \in T
    OBVIOUS
<1> HIDE DEF R, U
<1>5. U # {}
    BY <1>3
<1>6. PICK k \in U : \A j \in U : ~ <<j, k>> \in R
    BY <1>2, <1>3, <1>5, WFMin
<1>7. k + n \in T /\ \A v \in T : k + n <= v
    <2>1. k \in Nat /\ k + n \in T
        BY <1>3, <1>4
    <2>2. ASSUME NEW v \in T PROVE k + n <= v
        <3>1. v \in Int /\ v - n \in U /\ v - n \in Nat
            BY <1>3
        <3>2. ~(v - n < k)
            BY <1>1, <1>6, <2>1, <3>1
        <3> QED  BY <2>1, <3>1, <3>2
    <2> QED  BY <2>1, <2>2
<1> QED  BY <1>7 DEF Min

\* A later date is a later day.
LEMMA DatesAscend ==
    ASSUME NEW y, NEW m, NEW d, IsDate(y, m, d), NEW z, NEW k, NEW e, IsDate(z, k, e),
           y < z \/ (y = z /\ m < k) \/ (y = z /\ m = k /\ d < e)
    PROVE  DateUTC(y, m, d) < DateUTC(z, k, e)
<1>1. /\ y \in Int /\ m \in 1..12 /\ d \in Int /\ daysInMonth(y, m) \in Int /\ d <= daysInMonth(y, m)
      /\ z \in Int /\ k \in 1..12 /\ e \in Int /\ 1 <= e
    BY DateInts
<1>2. /\ DateUTC(y, m, d) = DaysToYear(y) + Ladder(y)[m] + d - 1
      /\ DateUTC(y, m, d) \in Int /\ DaysToYear(y) \in Int /\ Ladder(y)[m] \in Int
      /\ DateUTC(y, m, d) < DaysToYear(y + 1)
    BY DayInYear
<1>3. /\ DateUTC(z, k, e) = DaysToYear(z) + Ladder(z)[k] + e - 1
      /\ DateUTC(z, k, e) \in Int /\ Ladder(z)[k] \in Int
      /\ DaysToYear(z) \in Int /\ DaysToYear(z) <= DateUTC(z, k, e)
    BY DayInYear
<1>4. CASE y < z
    <2>1. DaysToYear(y + 1) <= DaysToYear(z)
        BY <1>1, <1>4, YearsAscend
    <2>2. DaysToYear(y + 1) \in Int
        BY <1>1, YearLength
    <2> QED  BY <1>2, <1>3, <2>1, <2>2
<1>5. CASE y = z /\ m < k
    <2>1. Ladder(y)[m] + daysInMonth(y, m) <= Ladder(y)[k]
        BY <1>1, <1>5, MonthsAscend
    <2> QED  BY <1>1, <1>2, <1>3, <1>5, <2>1
<1>6. CASE y = z /\ m = k /\ d < e
    BY <1>1, <1>2, <1>3, <1>6
<1> QED  BY <1>4, <1>5, <1>6

\* An object that is later in a unit, and in no larger one, stands for a later time.
LEMMA ObjectsAscend ==
    ASSUME NEW a, IsObject(a), NEW b, IsObject(b), NEW l, l \in 1..6, Outside(a, b, l),
           a[Units[l]] < b[Units[l]]
    PROVE  objToLocalTS(a) < objToLocalTS(b)
<1>1. PICK y, m, d, h, mi, s : a = Object(y, m, d, h, mi, s) /\ IsDate(y, m, d) /\ IsTime(h, mi, s)
    BY DEF IsObject
<1>2. PICK z, k, e, g, n, t : b = Object(z, k, e, g, n, t) /\ IsDate(z, k, e) /\ IsTime(g, n, t)
    BY DEF IsObject
<1>3. /\ a.year = y /\ a.month = m /\ a.day = d /\ a.hour = h /\ a.minute = mi /\ a.second = s
      /\ b.year = z /\ b.month = k /\ b.day = e /\ b.hour = g /\ b.minute = n /\ b.second = t
    BY <1>1, <1>2, ObjectFields
<1>4. PICK p, q \in Int : p = DateUTC(y, m, d) /\ q = DateUTC(z, k, e)
    BY <1>1, <1>2, DayInYear
<1>5. /\ objToLocalTS(a) = 86400 * p + 3600 * h + 60 * mi + s
      /\ objToLocalTS(b) = 86400 * q + 3600 * g + 60 * n + t
    BY <1>3, <1>4 DEF objToLocalTS
<1>6. /\ h \in 0..23 /\ mi \in 0..59 /\ s \in 0..59
      /\ g \in 0..23 /\ n \in 0..59 /\ t \in 0..59
    BY <1>1, <1>2 DEF IsTime
<1>7. CASE l \in 1..3
    <2>1. y < z \/ (y = z /\ m < k) \/ (y = z /\ m = k /\ d < e)
        <3>1. CASE l = 1
            BY <1>3, <3>1, UnitNames
        <3>2. CASE l = 2
            BY <1>3, <3>2, UnitNames DEF Outside
        <3>3. CASE l = 3
            <4>1. 1 \in 1..(l - 1) /\ 2 \in 1..(l - 1)
                BY <3>3
            <4>2. a[Units[1]] = b[Units[1]] /\ a[Units[2]] = b[Units[2]]
                BY <4>1 DEF Outside
            <4> QED  BY <1>3, <3>3, <4>2, UnitNames
        <3> QED  BY <1>7, <3>1, <3>2, <3>3
    <2>2. p < q
        BY <1>1, <1>2, <1>4, <2>1, DatesAscend
    <2> QED  BY <1>5, <1>6, <2>2
<1>8. CASE l \in 4..6
    <2>1. 1 \in 1..(l - 1) /\ 2 \in 1..(l - 1) /\ 3 \in 1..(l - 1)
        BY <1>8
    <2>2. a[Units[1]] = b[Units[1]] /\ a[Units[2]] = b[Units[2]] /\ a[Units[3]] = b[Units[3]]
        BY <2>1 DEF Outside
    <2>3. p = q
        BY <1>3, <1>4, <2>2, UnitNames
    <2>4. h < g \/ (h = g /\ mi < n) \/ (h = g /\ mi = n /\ s < t)
        <3>1. CASE l = 4
            BY <1>3, <3>1, UnitNames
        <3>2. CASE l = 5
            <4>1. 4 \in 1..(l - 1)
                BY <3>2
            <4>2. a[Units[4]] = b[Units[4]]
                BY <4>1 DEF Outside
            <4> QED  BY <1>3, <3>2, <4>2, UnitNames
        <3>3. CASE l = 6
            <4>1. 4 \in 1..(l - 1) /\ 5 \in 1..(l - 1)
                BY <3>3
            <4>2. a[Units[4]] = b[Units[4]] /\ a[Units[5]] = b[Units[5]]
                BY <4>1 DEF Outside
            <4> QED  BY <1>3, <3>3, <4>2, UnitNames
        <3> QED  BY <1>8, <3>1, <3>2, <3>3
    <2> QED  BY <1>5, <1>6, <2>3, <2>4
<1> QED  BY <1>7, <1>8

-----------------------------------------------------------------------------
(* The matches of the series.                                              *)

\* The units of an object are numbers.
LEMMA ObjectInts ==
    ASSUME NEW c, IsObject(c)
    PROVE  \A l \in 1..6 : c[Units[l]] \in Int
<1>1. PICK y, m, d, h, mi, s : c = Object(y, m, d, h, mi, s) /\ IsDate(y, m, d) /\ IsTime(h, mi, s)
    BY DEF IsObject
<1>2. y \in Int /\ m \in Int /\ d \in Int /\ h \in Int /\ mi \in Int /\ s \in Int
    <2>1. y \in Int /\ m \in Int /\ d \in Int
        BY <1>1, DateInts
    <2>2. h \in Int /\ mi \in Int /\ s \in Int
        BY <1>1 DEF IsTime
    <2> QED  BY <2>1, <2>2
<1>3. /\ c.year \in Int /\ c.month \in Int /\ c.day \in Int
      /\ c.hour \in Int /\ c.minute \in Int /\ c.second \in Int
    BY <1>1, <1>2, ObjectFields
<1>4. 1..6 = {1, 2, 3, 4, 5, 6}
    OBVIOUS
<1> QED  BY <1>3, <1>4, UnitNames

\* What MatchesSound says of a list of matches.
SoundTimes(times) ==
    \A i \in DOMAIN times :
        /\ \E e \in exprs : Fires(e, parseISODate(times[i])[1])
        /\ Instant(times[i]) >= now
        /\ i > 1 => Instant(times[i - 1]) < Instant(times[i])

\* What Append does to the entries of a list.
LEMMA ListEntries ==
    ASSUME NEW l, IsList(l), NEW x
    PROVE  /\ Len(l) \in Nat /\ DOMAIN l = 1..Len(l) /\ (l # <<>> => Len(l) >= 1)
           /\ DOMAIN Append(l, x) = 1..(Len(l) + 1)
           /\ \A i \in 1..Len(l) : Append(l, x)[i] = l[i]
           /\ Append(l, x)[Len(l) + 1] = x /\ Append(l, x) # <<>>
           /\ IsList(Append(l, x)) /\ Len(Append(l, x)) = Len(l) + 1
<1>1. PICK S : l \in Seq(S)
    BY DEF IsList
<1>2. l \in Seq(S \cup {x}) /\ x \in S \cup {x}
    BY <1>1
<1>3. Append(l, x) \in Seq(S \cup {x}) /\ Len(Append(l, x)) = Len(l) + 1 /\ Len(l) \in Nat
    BY <1>2
<1>4. DOMAIN l = 1..Len(l) /\ DOMAIN Append(l, x) = 1..(Len(l) + 1)
    BY <1>2, <1>3
<1>5. (\A i \in 1..Len(l) : Append(l, x)[i] = l[i]) /\ Append(l, x)[Len(l) + 1] = x
    BY <1>2
<1>6. l # <<>> => Len(l) >= 1
    BY <1>2
<1>7. Append(l, x) # <<>>
    BY <1>2, <1>3
<1> QED  BY <1>3, <1>4, <1>5, <1>6, <1>7 DEF IsList

\* A match that is meant, is not before now and is later than the last one.
LEMMA LaterMatch ==
    ASSUME IsList(nextTimes), SoundTimes(nextTimes), NEW x,
           \E e \in exprs : Fires(e, parseISODate(x)[1]), Instant(x) >= now,
           nextTimes # <<>> => Instant(nextTimes[Len(nextTimes)]) < Instant(x)
    PROVE  SoundTimes(Append(nextTimes, x))
<1> DEFINE times == Append(nextTimes, x)
           n == Len(nextTimes)
<1>1. /\ n \in Nat /\ DOMAIN nextTimes = 1..n /\ (nextTimes # <<>> => n >= 1)
      /\ DOMAIN times = 1..(n + 1)
      /\ \A i \in 1..n : times[i] = nextTimes[i]
      /\ times[n + 1] = x
    BY ListEntries
<1>2. nextTimes = <<>> => n = 0
    OBVIOUS
<1> HIDE DEF times
<1> SUFFICES ASSUME NEW i \in DOMAIN times
             PROVE  /\ \E e \in exprs : Fires(e, parseISODate(times[i])[1])
                    /\ Instant(times[i]) >= now
                    /\ i > 1 => Instant(times[i - 1]) < Instant(times[i])
    BY DEF SoundTimes, times
<1>3. CASE i \in 1..n
    <2>1. i > 1 => i - 1 \in 1..n
        BY <1>1, <1>3
    <2> QED  BY <1>1, <1>3, <2>1 DEF SoundTimes
<1>4. CASE i = n + 1
    <2>1. i > 1 => nextTimes # <<>> /\ i - 1 = n /\ n \in 1..n
        BY <1>1, <1>2, <1>4
    <2>2. i > 1 => times[i - 1] = nextTimes[n]
        BY <1>1, <2>1
    <2> QED  BY <1>1, <1>4, <2>1, <2>2
<1> QED  BY <1>1, <1>3, <1>4

\* The time is that of the loop variables, from the largest unit to the loop
\* that is running; smaller units may be left from turns before.
Reached(c) ==
    /\ IsObject(c) /\ newTime = TimeAt(c, offset)
    /\ \A l \in 1..(level - 1) : c[Units[l]] = loop[l]

\* The loops have passed an object: the loop of its first unit that differs from
\* the loop variables is beyond it.
Passed(b) ==
    \E l \in 1..level : /\ \A i \in 1..(l - 1) : b[Units[i]] = loop[i]
                        /\ b[Units[l]] <= loop[l]
                        /\ l < level => b[Units[l]] < loop[l]

\* The loops run over the fields of a text of the table, from now on.
Looping ==
    /\ loop \in [1..6 -> Int]
    /\ startTime.ts = now
    /\ \E text \in Texts : \E year \in Int :
           valid(text) /\ exprs = Parsed(text) /\ merged = mergeExprs(exprs, year)
    /\ \E c : Reached(c)

\* The loops have passed the last match.
LastPassed ==
    nextTimes # <<>> =>
        \E b : IsObject(b) /\ nextTimes[Len(nextTimes)] = toISO(TimeAt(b, offset)) /\ Passed(b)

SoundInv ==
    /\ IsList(nextTimes)
    /\ pc = "idle" => nextTimes = <<>>
    /\ SoundTimes(nextTimes)
    /\ pc = "series" => Looping /\ LastPassed

\* The object of the time after a turn, with v in the loop variable.
Turned(b, v) ==
    /\ IsObject(b) /\ turnTime = TimeAt(b, offset)
    /\ v \in merged[Units[level]] /\ v \in Int /\ v > loop[level] /\ b[Units[level]] = v
    /\ \A x \in Turns(level) : v <= x
    /\ \A l \in 1..(level - 1) : b[Units[l]] = loop[l]

\* While turns are left the next one is such a turn.
LEMMA TurnFound ==
    ASSUME TypeOK, Looping, Turns(level) # {}
    PROVE  \E b : Turned(b, Min(Turns(level)))
<1>1. offset \in Int /\ level \in 1..6
    BY ClockAssumption DEF TypeOK
<1>2. PICK text \in Texts, year \in Int :
          valid(text) /\ exprs = Parsed(text) /\ merged = mergeExprs(exprs, year)
    BY DEF Looping
<1>3. PICK c : Reached(c)
    BY DEF Looping
<1>4. IsObject(c) /\ newTime = TimeAt(c, offset) /\ \A l \in 1..(level - 1) : c[Units[l]] = loop[l]
    BY <1>3 DEF Reached
<1>5. newTime.c = c
    BY <1>1, <1>4, FixedTime
<1>6. merged[Units[level]] \subseteq Bound[Units[level]]
    <2>1. DOMAIN Bound = {"year", "month", "day", "hour", "minute", "second"}
        BY DEF Bound
    <2>2. Units[level] \in DOMAIN Bound
        BY <1>1, <2>1, UnitNames
    <2>3. PICK u : u = Units[level]
        OBVIOUS
    <2>4. mergeExprs(Parsed(text), year)[u] \subseteq Bound[u]
        BY <1>2, <2>2, <2>3, MergedBounds
    <2> QED  BY <1>2, <2>3, <2>4
<1>7. Bound[Units[level]] \subseteq Int
    <2>1. Units[level] \in {"year", "month", "day", "hour", "minute", "second"}
        BY <1>1, UnitNames
    <2> QED  BY <2>1 DEF Bound
<1> DEFINE v == Min(Turns(level))
<1>8. v \in Turns(level) /\ \A x \in Turns(level) : v <= x
    <2>1. Turns(level) \subseteq Int /\ \A x \in Turns(level) : x > loop[level]
        BY <1>6, <1>7 DEF Turns
    <2>2. loop[level] \in Int
        BY <1>1 DEF Looping
    <2>3. PICK n \in Int : n = loop[level]
        BY <2>2
    <2>4. PICK T : T = Turns(level)
        OBVIOUS
    <2>5. Min(T) \in T /\ \A x \in T : Min(T) <= x
        BY <2>1, <2>3, <2>4, LeastOf
    <2> QED  BY <2>4, <2>5
<1> HIDE DEF v
<1>9. /\ v \in merged[Units[level]] /\ v \in Bound[Units[level]] /\ v \in Int
      /\ v > loop[level] /\ ~Skipped(level, v)
    BY <1>6, <1>7, <1>8 DEF Turns
<1>10. level = 3 => v <= daysInMonth(c.year, c.month)
    <2> SUFFICES ASSUME level = 3 PROVE v <= daysInMonth(c.year, c.month)
        OBVIOUS
    <2>1. ~(v > daysInMonth(newTime.c.year, newTime.c.month))
        BY <1>9 DEF Skipped
    <2>2. daysInMonth(c.year, c.month) \in Int
        <3>1. PICK y, m, d, h, mi, s : c = Object(y, m, d, h, mi, s) /\ IsDate(y, m, d)
            BY <1>4 DEF IsObject
        <3> QED  BY <3>1, DateInts, ObjectFields
    <2> QED  BY <1>5, <1>9, <2>1, <2>2
<1>11. PICK b : /\ IsObject(b) /\ b[Units[level]] = v /\ Outside(b, c, level)
                /\ set(TimeAt(c, offset), [u \in {Units[level]} |-> v]) = TimeAt(b, offset)
    <2>1. Sets(c, offset, level, v)
        BY <1>1, <1>4, <1>9, <1>10, TurnAt
    <2> QED  BY <2>1 DEF Sets
<1>12. turnTime = TimeAt(b, offset)
    BY <1>4, <1>11 DEF turnTime, v
<1>13. \A l \in 1..(level - 1) : b[Units[l]] = loop[l]
    BY <1>4, <1>11 DEF Outside
<1>14. Turned(b, v)
    BY <1>8, <1>9, <1>11, <1>12, <1>13 DEF Turned
<1> QED  BY <1>14 DEF v

\* A turn of the innermost loop is later than the last match, and what it
\* matches is meant.
LEMMA MatchAdded ==
    ASSUME NoDayZero, TypeOK, IsList(nextTimes), SoundTimes(nextTimes), Looping, LastPassed,
           level = 6, NEW b, NEW v, Turned(b, v), isExprsMatches(exprs, TimeAt(b, offset)),
           ~(TimeAt(b, offset).ts < startTime.ts)
    PROVE  SoundTimes(Append(nextTimes, toISO(TimeAt(b, offset))))
<1> DEFINE x == toISO(TimeAt(b, offset))
<1>1. offset \in Int
    BY ClockAssumption DEF TypeOK
<1>2. /\ IsObject(b) /\ b[Units[6]] = v /\ v \in Int /\ v > loop[6]
      /\ \A l \in 1..5 : b[Units[l]] = loop[l]
    <2>1. 1..(level - 1) = 1..5
        OBVIOUS
    <2> QED  BY <2>1 DEF Turned
<1>3. parseISODate(x)[1] = b /\ Instant(x) = objToLocalTS(b) - 60 * offset
    <2>1. FixedOffsetZone(0).type # "invalid"
        BY DEF FixedOffsetZone
    <2>2. parseISODate(x)[1] = b
        BY <1>1, <1>2, <2>1, IsoAt
    <2> QED  BY <1>1, <1>2, <2>2, InstantAt
<1>4. PICK e \in exprs : isExprMatches(e, TimeAt(b, offset))
    BY DEF isExprsMatches
<1>5. Fires(e, b)
    <2>1. PICK text \in Texts : valid(text) /\ exprs = Parsed(text)
        BY DEF Looping
    <2>2. Meaningful(e)
        BY <2>1, ParsedMeaningful
    <2> QED  BY <1>1, <1>2, <1>4, <2>2, MatchFires
<1>6. Instant(x) >= now
    <2>1. TimeAt(b, offset).ts = objToLocalTS(b) - 60 * offset
        BY <1>1, <1>2, FixedTime
    <2>2. objToLocalTS(b) \in Int
        BY <1>1, <1>2, TSOfObject
    <2>3. now \in Int
        BY NowInt
    <2>4. ~(Instant(x) < now)
        BY <1>3, <2>1 DEF Looping
    <2>5. Instant(x) \in Int
        BY <1>1, <1>3, <2>2
    <2> HIDE DEF x
    <2> QED  BY <2>3, <2>4, <2>5
<1>7. ASSUME nextTimes # <<>>
      PROVE  Instant(nextTimes[Len(nextTimes)]) < Instant(x)
    <2>1. PICK a : IsObject(a) /\ nextTimes[Len(nextTimes)] = toISO(TimeAt(a, offset)) /\ Passed(a)
        BY <1>7 DEF LastPassed
    <2>2. PICK l \in 1..6 : /\ \A i \in 1..(l - 1) : a[Units[i]] = loop[i]
                            /\ a[Units[l]] <= loop[l] /\ (l < 6 => a[Units[l]] < loop[l])
        BY <2>1 DEF Passed
    <2>3. Outside(a, b, l)
        <3>1. \A i \in 1..(l - 1) : i \in 1..5
            OBVIOUS
        <3> QED  BY <1>2, <2>2, <3>1 DEF Outside
    <2>4. a[Units[l]] < b[Units[l]]
        <3>1. a[Units[l]] \in Int /\ loop[l] \in Int
            BY <2>1, ObjectInts DEF Looping
        <3>2. CASE l = 6
            BY <1>2, <2>2, <3>1, <3>2
        <3>3. CASE l # 6
            <4>1. l \in 1..5 /\ l < 6
                BY <3>3
            <4> QED  BY <1>2, <2>2, <4>1
        <3> QED  BY <3>2, <3>3
    <2>5. objToLocalTS(a) < objToLocalTS(b)
        BY <1>2, <2>1, <2>3, <2>4, ObjectsAscend
    <2>6. Instant(nextTimes[Len(nextTimes)]) = objToLocalTS(a) - 60 * offset
        BY <1>1, <2>1, InstantAt
    <2>7. objToLocalTS(a) \in Int /\ objToLocalTS(b) \in Int
        BY <1>1, <1>2, <2>1, TSOfObject
    <2> HIDE DEF x
    <2> QED  BY <1>1, <1>3, <2>5, <2>6, <2>7
<1> HIDE DEF x
<1>8. SoundTimes(Append(nextTimes, x))
    BY <1>3, <1>4, <1>5, <1>6, <1>7, LaterMatch
<1> QED  BY <1>8 DEF x

\* What the matches are judged by does not change while there are any.
LEMMA SoundKept ==
    ASSUME SoundTimes(nextTimes), UNCHANGED <<exprs, tick, nextTimes>>
    PROVE  SoundTimes(nextTimes)'
<1>1. now' = now
    BY DEF now
<1> QED  BY <1>1 DEF SoundTimes, Instant

\* A loop inside begins: the last match is behind the turn of the one outside.
LEMMA TurnSound ==
    ASSUME TypeOK, SoundInv, turn
    PROVE  SoundInv'
<1> DEFINE v == Min(Turns(level))
<1>1. /\ pc = "series" /\ level \in 1..6 /\ level < 6 /\ Turns(level) # {}
      /\ loop' = [l \in 1..6 |-> IF l = level THEN v ELSE IF l > level THEN -1 ELSE loop[l]]
      /\ newTime' = turnTime /\ level' = level + 1
      /\ UNCHANGED <<tick, offset, startTime, exprs, merged, pc, loopCount, nextTimes, cell>>
    BY DEF turn, TypeOK, consts
<1>2. Looping /\ LastPassed
    BY <1>1 DEF SoundInv
<1>3. PICK b : Turned(b, v)
    BY <1>1, <1>2, TurnFound
<1> HIDE DEF v
<1>4. /\ IsObject(b) /\ turnTime = TimeAt(b, offset)
      /\ v \in Int /\ v > loop[level] /\ b[Units[level]] = v
      /\ \A l \in 1..(level - 1) : b[Units[l]] = loop[l]
    BY <1>3 DEF Turned
<1>5. /\ loop \in [1..6 -> Int] /\ loop' \in [1..6 -> Int] /\ loop'[level] = v
      /\ \A l \in 1..(level - 1) : loop'[l] = loop[l]
    <2>1. loop \in [1..6 -> Int]
        BY <1>2 DEF Looping
    <2>2. -1 \in Int
        OBVIOUS
    <2>3. ASSUME NEW l \in 1..(level - 1) PROVE l \in 1..6 /\ l # level /\ ~(l > level)
        BY <1>1
    <2> QED  BY <1>1, <1>4, <2>1, <2>2, <2>3
<1>6. \A l \in 1..(level' - 1) : l \in 1..(level - 1) \/ l = level
    BY <1>1
<1>7. Reached(b)'
    BY <1>1, <1>4, <1>5, <1>6 DEF Reached
<1>8. Looping'
    <2>1. now' = now
        BY <1>1 DEF now
    <2>2. /\ startTime' = startTime
          /\ startTime.ts = now
          /\ \E text \in Texts : \E year \in Int :
                 valid(text) /\ exprs = Parsed(text) /\ merged = mergeExprs(exprs, year)
        BY <1>1, <1>2 DEF Looping
    <2>3. \E c : Reached(c)'
        BY <1>7
    <2> QED  BY <1>1, <1>5, <2>1, <2>2, <2>3 DEF Looping
<1>9. ASSUME NEW a, IsObject(a), Passed(a) PROVE Passed(a)'
    <2>1. PICK l \in 1..level : /\ \A i \in 1..(l - 1) : a[Units[i]] = loop[i]
                                /\ a[Units[l]] <= loop[l] /\ (l < level => a[Units[l]] < loop[l])
        BY <1>9 DEF Passed
    <2>2. l \in 1..level' /\ l < level' /\ l \in 1..6
        BY <1>1
    <2>3. \A i \in 1..(l - 1) : a[Units[i]] = loop'[i]
        <3>1. \A i \in 1..(l - 1) : i \in 1..(level - 1)
            BY <1>1
        <3> QED  BY <1>5, <2>1, <3>1
    <2>4. a[Units[l]] \in Int /\ loop[l] \in Int
        BY <1>5, <1>9, <2>2, ObjectInts
    <2>5. a[Units[l]] <= loop'[l] /\ a[Units[l]] < loop'[l]
        <3>1. CASE l = level
            BY <1>4, <1>5, <2>1, <2>4, <3>1
        <3>2. CASE l # level
            <4>1. l \in 1..(level - 1) /\ l < level
                BY <1>1, <3>2
            <4> QED  BY <1>5, <2>1, <2>4, <4>1
        <3> QED  BY <3>1, <3>2
    <2> QED  BY <2>2, <2>3, <2>5 DEF Passed
<1>10. LastPassed'
    BY <1>1, <1>2, <1>9 DEF LastPassed
<1>11. SoundTimes(nextTimes)'
    BY <1>1, SoundKept DEF SoundInv
<1> QED  BY <1>1, <1>8, <1>10, <1>11 DEF SoundInv

\* A loop ends: the turn of the one outside has been passed, but not left.
LEMMA LeaveSound ==
    ASSUME TypeOK, SoundInv, leave
    PROVE  SoundInv'
<1>1. /\ pc = "series" /\ level \in 1..6
      /\ UNCHANGED <<tick, offset, startTime, exprs, merged, loop, newTime, nextTimes>>
    BY DEF leave, TypeOK, consts
<1>2. Looping /\ LastPassed
    BY <1>1 DEF SoundInv
<1>3. SoundTimes(nextTimes)'
    BY <1>1, SoundKept DEF SoundInv
<1>4. CASE level = 1
    <2>1. pc' = "shown"
        BY <1>4 DEF leave, show
    <2> QED  BY <1>1, <1>3, <2>1 DEF SoundInv
<1>5. CASE level # 1
    <2>1. level' = level - 1 /\ pc' = pc
        BY <1>5 DEF leave
    <2>2. ASSUME NEW c, Reached(c) PROVE Reached(c)'
        <3>1. \A l \in 1..(level' - 1) : l \in 1..(level - 1)
            BY <1>1, <2>1
        <3> QED  BY <1>1, <2>2, <3>1 DEF Reached
    <2>3. Looping'
        <3>1. now' = now
            BY <1>1 DEF now
        <3>2. PICK c : Reached(c)'
            BY <1>2, <2>2 DEF Looping
        <3> QED  BY <1>1, <1>2, <3>1, <3>2 DEF Looping
    <2>4. ASSUME NEW a, IsObject(a), Passed(a) PROVE Passed(a)'
        <3>1. PICK l \in 1..level : /\ \A i \in 1..(l - 1) : a[Units[i]] = loop[i]
                                    /\ a[Units[l]] <= loop[l] /\ (l < level => a[Units[l]] < loop[l])
            BY <2>4 DEF Passed
        <3>2. CASE l # level
            <4>1. l \in 1..level' /\ l < level
                BY <1>1, <2>1, <3>2
            <4> QED  BY <1>1, <3>1, <4>1 DEF Passed
        <3>3. CASE l = level
            <4>1. level' \in 1..(l - 1) /\ level' \in 1..level' /\ level' \in 1..6
                BY <1>1, <1>5, <2>1, <3>3
            <4>2. a[Units[level']] = loop[level'] /\ loop[level'] \in Int
                BY <1>2, <3>1, <4>1 DEF Looping
            <4>3. a[Units[level']] <= loop'[level'] /\ ~(level' < level')
                BY <1>1, <4>1, <4>2
            <4>4. \A i \in 1..(level' - 1) : a[Units[i]] = loop'[i]
                <5>1. \A i \in 1..(level' - 1) : i \in 1..(l - 1)
                    BY <1>1, <2>1, <3>3
                <5> QED  BY <1>1, <3>1, <5>1
            <4> QED  BY <4>1, <4>3, <4>4 DEF Passed
        <3> QED  BY <3>2, <3>3
    <2>5. LastPassed'
        BY <1>1, <1>2, <2>4 DEF LastPassed
    <2> QED  BY <1>1, <1>3, <2>1, <2>3, <2>5 DEF SoundInv
<1> QED  BY <1>4, <1>5

\* A turn of the innermost loop, with or without a match.
LEMMA YieldSound ==
    ASSUME NoDayZero, TypeOK, SoundInv, yield
    PROVE  SoundInv'
<1> DEFINE v == Min(Turns(6))
           time == turnTime
           x == toISO(time)
           times == IF isExprsMatches(exprs, time) THEN Append(nextTimes, x) ELSE nextTimes
<1>1. /\ pc = "series" /\ level = 6 /\ Turns(6) # {}
      /\ loop' = [loop EXCEPT ![6] = v]
      /\ yieldAt(time)
      /\ UNCHANGED <<tick, offset, startTime, exprs, merged, level>>
    BY DEF yield, consts
<1>2. Looping /\ LastPassed
    BY <1>1 DEF SoundInv
<1>3. PICK b : Turned(b, v)
    <2>1. Turns(level) # {}
        BY <1>1
    <2>2. \E b : Turned(b, Min(Turns(level)))
        BY <1>2, <2>1, TurnFound
    <2> QED  BY <1>1, <2>2
<1> HIDE DEF v
<1>4. /\ IsObject(b) /\ turnTime = TimeAt(b, offset)
      /\ v \in Int /\ v > loop[6] /\ b[Units[6]] = v
      /\ \A l \in 1..5 : b[Units[l]] = loop[l]
    <2>1. 1..(level - 1) = 1..5
        BY <1>1
    <2> QED  BY <1>1, <1>3, <2>1 DEF Turned
<1>5. /\ newTime' = time
      /\ \/ UNCHANGED <<pc, loopCount, nextTimes, cell>>
         \/ ~(time.ts < startTime.ts) /\ collect(times)
    BY <1>1 DEF yieldAt
<1>6. /\ loop \in [1..6 -> Int] /\ loop' \in [1..6 -> Int] /\ loop'[6] = v
      /\ \A l \in 1..5 : loop'[l] = loop[l]
    <2>1. loop \in [1..6 -> Int]
        BY <1>2 DEF Looping
    <2> QED  BY <1>1, <1>4, <2>1
<1>7. Looping'
    <2>1. Reached(b)'
        <3>1. \A l \in 1..(level' - 1) : l \in 1..5
            BY <1>1
        <3> QED  BY <1>1, <1>4, <1>5, <1>6, <3>1 DEF Reached
    <2>2. now' = now
        BY <1>1 DEF now
    <2>3. /\ startTime.ts = now
          /\ \E text \in Texts : \E year \in Int :
                 valid(text) /\ exprs = Parsed(text) /\ merged = mergeExprs(exprs, year)
        BY <1>2 DEF Looping
    <2> QED  BY <1>1, <1>6, <2>1, <2>2, <2>3 DEF Looping
<1>8. ASSUME NEW a, IsObject(a), Passed(a) PROVE Passed(a)'
    <2>1. PICK l \in 1..6 : /\ \A i \in 1..(l - 1) : a[Units[i]] = loop[i]
                            /\ a[Units[l]] <= loop[l] /\ (l < 6 => a[Units[l]] < loop[l])
        BY <1>1, <1>8 DEF Passed
    <2>2. \A i \in 1..(l - 1) : a[Units[i]] = loop'[i]
        <3>1. \A i \in 1..(l - 1) : i \in 1..5
            OBVIOUS
        <3> QED  BY <1>6, <2>1, <3>1
    <2>3. a[Units[l]] \in Int /\ loop[l] \in Int
        BY <1>6, <1>8, ObjectInts
    <2>4. a[Units[l]] <= loop'[l] /\ (l < 6 => a[Units[l]] < loop'[l])
        <3>1. CASE l = 6
            BY <1>4, <1>6, <2>1, <2>3, <3>1
        <3>2. CASE l # 6
            <4>1. l \in 1..5
                BY <3>2
            <4> QED  BY <1>6, <2>1, <4>1
        <3> QED  BY <3>1, <3>2
    <2> QED  BY <1>1, <2>2, <2>4 DEF Passed
\* The time of this turn has been passed as well.
<1>9. Passed(b)'
    <2>1. \A i \in 1..(6 - 1) : b[Units[i]] = loop'[i]
        <3>1. \A i \in 1..(6 - 1) : i \in 1..5
            OBVIOUS
        <3> QED  BY <1>4, <1>6, <3>1
    <2>2. b[Units[6]] <= loop'[6] /\ 6 \in 1..6 /\ ~(6 < 6)
        BY <1>4, <1>6
    <2> QED  BY <1>1, <2>1, <2>2 DEF Passed
<1>10. IsList(nextTimes) /\ SoundTimes(nextTimes)
    BY DEF SoundInv
<1>11. CASE UNCHANGED <<pc, loopCount, nextTimes, cell>>
    <2>1. LastPassed'
        BY <1>1, <1>2, <1>8, <1>11 DEF LastPassed
    <2>2. SoundTimes(nextTimes)'
        BY <1>1, <1>10, <1>11, SoundKept
    <2> QED  BY <1>1, <1>7, <1>10, <1>11, <2>1, <2>2 DEF SoundInv
<1>12. CASE ~(time.ts < startTime.ts) /\ collect(times)
    <2>1. nextTimes' = times /\ (pc' = "shown" \/ pc' = pc)
        BY <1>12 DEF collect, show
    <2>2. CASE isExprsMatches(exprs, time)
        <3>1. times = Append(nextTimes, x)
            BY <2>2
        <3>2. SoundTimes(Append(nextTimes, toISO(TimeAt(b, offset))))
            <4>1. isExprsMatches(exprs, TimeAt(b, offset)) /\ ~(TimeAt(b, offset).ts < startTime.ts)
                BY <1>4, <1>12, <2>2
            <4> QED  BY <1>1, <1>2, <1>3, <1>10, <4>1, MatchAdded
        <3> DEFINE y == toISO(TimeAt(b, offset))
        <3>3. nextTimes' = Append(nextTimes, y) /\ x = y
            BY <1>4, <2>1, <3>1
        <3> HIDE DEF x, times, y, time
        <3>4. /\ IsList(Append(nextTimes, y)) /\ Len(nextTimes) \in Nat
              /\ Len(Append(nextTimes, y)) = Len(nextTimes) + 1
              /\ Append(nextTimes, y)[Len(nextTimes) + 1] = y
            BY <1>10, ListEntries
        <3>5. IsList(nextTimes') /\ nextTimes'[Len(nextTimes')] = y
            BY <3>3, <3>4
        <3>6. SoundTimes(nextTimes)'
            <4>1. now' = now /\ exprs' = exprs
                BY <1>1 DEF now
            <4>2. SoundTimes(Append(nextTimes, y))
                BY <3>2 DEF y
            <4>3. PICK list : list = Append(nextTimes, y)
                OBVIOUS
            <4>4. \A i \in DOMAIN list : /\ \E e \in exprs : Fires(e, parseISODate(list[i])[1])
                                         /\ Instant(list[i]) >= now
                                         /\ i > 1 => Instant(list[i - 1]) < Instant(list[i])
                BY <4>2, <4>3 DEF SoundTimes
            <4>5. nextTimes' = list
                BY <3>3, <4>3
            <4> HIDE DEF y
            <4> QED  BY <4>1, <4>4, <4>5 DEF SoundTimes, Instant
        <3>7. LastPassed'
            <4>1. y = toISO(TimeAt(b, offset'))
                BY <1>1 DEF y
            <4> QED  BY <1>4, <1>9, <3>5, <4>1 DEF LastPassed
        <3> QED  BY <1>1, <1>7, <2>1, <3>5, <3>6, <3>7 DEF SoundInv
    <2>3. CASE ~isExprsMatches(exprs, time)
        <3>1. nextTimes' = nextTimes
            BY <2>1, <2>3
        <3>2. LastPassed'
            BY <1>1, <1>2, <1>8, <3>1 DEF LastPassed
        <3>3. SoundTimes(nextTimes)'
            BY <1>1, <1>10, <3>1, SoundKept
        <3> QED  BY <1>1, <1>7, <1>10, <2>1, <3>1, <3>2, <3>3 DEF SoundInv
    <2> QED  BY <2>2, <2>3
<1> QED  BY <1>5, <1>11, <1>12

\* No matches yet: nothing to say.
LEMMA NoMatches ==
    /\ IsList(<<>>)
    /\ DOMAIN <<>> = {}
<1>1. IsList(<<>>)
    BY ListFacts
<1> QED  BY <1>1

\* The series starts at now, or does not start.
LEMMA FormatterSound ==
    ASSUME TypeOK, SoundInv, NEW text \in Texts, formatter(text)
    PROVE  SoundInv'
<1>1. nextTimes' = <<>> /\ UNCHANGED <<tick, offset>> /\ startTime' = start /\ newTime' = start
    BY DEF formatter, formatterAt
<1>2. IsList(nextTimes') /\ SoundTimes(nextTimes)'
    <2>1. IsList(nextTimes') /\ DOMAIN nextTimes' = {}
        BY <1>1, NoMatches
    <2> QED  BY <2>1 DEF SoundTimes
<1>3. LastPassed'
    BY <1>1 DEF LastPassed
<1>4. CASE valid(text) /\ start.isValid
    <2>1. /\ exprs' = Parsed(text) /\ merged' = mergeExprs(exprs', start.c.year)
          /\ loop' = Fresh /\ level' = 1
        BY <1>4 DEF formatter, formatterAt, begin, Parsed
    <2>2. offset \in Int
        BY <1>4, StartAt
    <2>3. PICK c : IsObject(c) /\ start = TimeAt(c, offset) /\ objToLocalTS(c) - 60 * offset = now
        BY <1>4, StartAt
    <2>4. start.ts = now /\ start.c = c
        BY <2>2, <2>3, FixedTime
    <2>5. start.c.year \in Int
        <3>1. c[Units[1]] \in Int
            BY <2>3, ObjectInts
        <3> QED  BY <2>4, <3>1, UnitNames
    <2>6. now' = now
        BY <1>1 DEF now
    <2>7. loop' \in [1..6 -> Int]
        <3>1. -1 \in Int
            OBVIOUS
        <3> QED  BY <2>1, <3>1 DEF Fresh
    <2>8. Reached(c)'
        <3>1. 1..(level' - 1) = {}
            BY <2>1
        <3> QED  BY <1>1, <2>3, <3>1 DEF Reached
    <2>9. Looping'
        BY <1>1, <1>4, <2>1, <2>4, <2>5, <2>6, <2>7, <2>8 DEF Looping
    <2> QED  BY <1>1, <1>2, <1>3, <2>9 DEF SoundInv
<1>5. CASE ~(valid(text) /\ start.isValid)
    <2>1. pc' = "shown"
        BY <1>5 DEF formatter, formatterAt, begin, blank
    <2> QED  BY <1>1, <1>2, <2>1 DEF SoundInv
<1> QED  BY <1>4, <1>5

\* The matches stay sound, whatever the loops do.
LEMMA SeriesSound == NoDayZero => (Spec => []SoundInv)
<1> SUFFICES ASSUME NoDayZero PROVE Spec => []SoundInv
    OBVIOUS
<1>1. Init => SoundInv
    <2>1. Init => pc = "idle" /\ nextTimes = <<>>
        BY DEF Init
    <2> QED  BY <2>1, NoMatches DEF SoundInv, SoundTimes
<1>2. TypeOK /\ SoundInv /\ [Next]_vars => SoundInv'
    <2> SUFFICES ASSUME TypeOK, SoundInv, [Next]_vars PROVE SoundInv'
        OBVIOUS
    <2>1. CASE advance
        <3>1. pc = "idle" /\ pc' = "idle" /\ nextTimes' = <<>>
            BY <2>1 DEF advance, series, SoundInv
        <3> QED  BY <3>1, NoMatches DEF SoundInv, SoundTimes
    <2>2. CASE turn
        BY <2>2, TurnSound
    <2>3. CASE leave
        BY <2>3, LeaveSound
    <2>4. CASE yield
        BY <2>4, YieldSound
    <2>5. CASE done
        <3>1. pc' = "idle" /\ nextTimes' = <<>>
            BY <2>5 DEF done
        <3> QED  BY <3>1, NoMatches DEF SoundInv, SoundTimes
    <2>6. ASSUME NEW text \in Texts, formatter(text) PROVE SoundInv'
        BY <2>6, FormatterSound
    <2>7. CASE UNCHANGED vars
        <3>1. UNCHANGED <<tick, offset, pc, startTime, exprs, merged, loop, level, newTime, loopCount,
                          nextTimes, cell>>
            BY <2>7 DEF vars, consts, series
        <3>2. now' = now
            BY <3>1 DEF now
        <3>3. SoundTimes(nextTimes)'
            BY <3>1, SoundKept DEF SoundInv
        <3>4. Looping => Looping'
            BY <3>1, <3>2 DEF Looping, Reached
        <3>5. LastPassed => LastPassed'
            BY <3>1 DEF LastPassed, Passed
        <3> QED  BY <3>1, <3>3, <3>4, <3>5 DEF SoundInv
    <2> QED  BY <2>1, <2>2, <2>3, <2>4, <2>5, <2>6, <2>7 DEF Next
<1> QED  BY <1>1, <1>2, PreviewTyped, PTL DEF Spec

\* Every time getFutureMatches returns is one the cron means, not before now and
\* later than the one before, although setTime clamps the dates on the way: for
\* every text that the parser accepts, every clock and offset, and every bound on
\* the matches and the loops.  A text that asks for the weekday nearest to day 0,
\* which the parser lets through and which names no day, is left out.
THEOREM MatchesSoundHold == NoDayZero => (Spec => []MatchesSound)
<1> SUFFICES ASSUME NoDayZero PROVE Spec => []MatchesSound
    OBVIOUS
<1>1. SoundInv => MatchesSound
    BY DEF SoundInv, SoundTimes, MatchesSound
<1> QED  BY <1>1, SeriesSound, PTL

-----------------------------------------------------------------------------
(* What else the parser leaves of a field: the half that says what is       *)
(* matched, where MatchFires says what is not.                             *)

\* A field that is omitted has no numbers; a year has no days.
Told(field, f) ==
    /\ f.omit => /\ ~f.all /\ f.values = {} /\ f.ranges = {} /\ f.steps = {}
                 /\ field \in {"second", "day_of_month", "day_of_week"}
    /\ field = "year" => /\ ~f.lastDay /\ ~f.lastWeekday
                         /\ f.lastDays = {} /\ f.nearestWeekdays = {} /\ f.nthDays = {}

\* A year has values, ranges and steps.
LEMMA YearForms ==
    ASSUME NEW p \in Part, validPart("year", p)
    PROVE  FormIn("year", p) \in {"value", "range", "step"}
<1>1. p.form \in {"value", "W", "xL", "range", "step", "nth", "L", "LW"}
    BY DEF Part
<1>2. CASE p.form \in {"W", "xL"}
    BY <1>2 DEF FormIn
<1>3. CASE p.form \in {"value", "range", "step"}
    BY <1>3 DEF FormIn
<1>4. CASE p.form \in {"nth", "L", "LW"}
    BY <1>4 DEF FormIn, validPart, validNth
<1> QED  BY <1>1, <1>2, <1>3, <1>4

\* parseField.
LEMMA FieldTold ==
    ASSUME NEW field \in Fields, NEW text \in FieldText, validField(field, text)
    PROVE  Told(field, parseField(field, text))
<1> DEFINE f == parseField(field, text)
<1>1. CASE text.form = "*"
    <2>1. f = [Unparsed EXCEPT !.all = TRUE]
        BY <1>1 DEF parseField
    <2> HIDE DEF f
    <2>2. /\ ~f.omit /\ ~f.lastDay /\ ~f.lastWeekday /\ f.lastDays = {} /\ f.nearestWeekdays = {}
          /\ f.nthDays = {} /\ f.values = {} /\ f.steps = {}
        BY <2>1 DEF Unparsed
    <2> QED  BY <2>2 DEF Told, f
<1>2. CASE text.form = "?"
    <2>1. f = [Unparsed EXCEPT !.omit = TRUE]
        BY <1>2 DEF parseField
    <2>2. field \in {"day_of_week", "day_of_month"}
        BY <1>2 DEF validField
    <2> HIDE DEF f
    <2>3. ~f.all /\ f.values = {} /\ f.ranges = {} /\ f.steps = {}
        BY <2>1 DEF Unparsed
    <2> QED  BY <2>2, <2>3 DEF Told, f
<1>3. CASE text.form = "parts"
    <2> DEFINE of(form) == {p \in text.parts : FormIn(field, p) = form}
               values == {parseValue(field, p) : p \in of("value")}
               ranges == {parseRange(field, p) : p \in of("range")}
               steps == {parseStepRange(field, p) : p \in of("step")}
               nth == {parseNth(p) : p \in of("nth")}
               nearest == {parseNumber(field, p.n) : p \in of("W")}
               lasts == {parseNumber(field, p.n) : p \in of("xL")}
    <2>1. f = [Unparsed EXCEPT !.lastDay         = of("L") # {},
                               !.lastWeekday     = of("LW") # {},
                               !.values          = values,
                               !.ranges          = ranges,
                               !.steps           = steps,
                               !.nthDays         = nth,
                               !.nearestWeekdays = nearest,
                               !.lastDays        = lasts]
        BY <1>3 DEF parseField
    <2>2. \A p \in text.parts : p \in Part /\ validPart(field, p)
        <3>1. text.parts \in SUBSET Part
            BY <1>3 DEF FieldText
        <3>2. \A p \in text.parts : validPart(field, p)
            BY <1>3 DEF validField
        <3> QED  BY <3>1, <3>2
    <2>3. ASSUME field = "year"
          PROVE  of("L") = {} /\ of("LW") = {} /\ nth = {} /\ nearest = {} /\ lasts = {}
        <3>1. \A p \in text.parts : FormIn(field, p) \in {"value", "range", "step"}
            BY <2>2, <2>3, YearForms
        <3> QED  BY <3>1
    <2> DEFINE last == of("L") # {}
               weekday0 == of("LW") # {}
    <2>5. field = "year" => last = FALSE /\ weekday0 = FALSE /\ nth = {} /\ nearest = {} /\ lasts = {}
        BY <2>3
    <2> HIDE DEF values, ranges, steps, nearest, nth, lasts, f, last, weekday0
    <2>6. /\ f.omit = FALSE /\ f.lastDay = last /\ f.lastWeekday = weekday0
          /\ f.values = values /\ f.steps = steps
          /\ f.nthDays = nth /\ f.nearestWeekdays = nearest /\ f.lastDays = lasts
        BY <2>1 DEF Unparsed, last, weekday0
    <2> QED  BY <2>5, <2>6 DEF Told, f
<1>4. text.form \in {"*", "?", "parts"}
    BY DEF FieldText
<1> QED  BY <1>1, <1>2, <1>3, <1>4

\* parseExpr.
LEMMA ExprTold ==
    ASSUME NEW e \in ExprText, validExpr(e), NEW field \in Fields
    PROVE  Told(field, parseExpr(e)[field])
<1>1. parseExpr(e)[field] = IF field = "second" /\ ~hasSeconds(e) THEN [Unparsed EXCEPT !.omit = TRUE]
                            ELSE parseField(field, fieldParts(e)[Index(field)])
    BY DEF parseExpr, Fields
<1>2. CASE field = "second" /\ ~hasSeconds(e)
    <2> DEFINE f == parseExpr(e)[field]
    <2>1. f = [Unparsed EXCEPT !.omit = TRUE]
        BY <1>1, <1>2
    <2> HIDE DEF f
    <2>2. ~f.all /\ f.values = {} /\ f.ranges = {} /\ f.steps = {}
        BY <2>1 DEF Unparsed
    <2> QED  BY <1>2, <2>2 DEF Told, f
<1>3. CASE ~(field = "second" /\ ~hasSeconds(e))
    <2>1. PICK i \in 1..7 : i = Index(field) /\ FIELDS[i] = field
        BY FieldNames
    <2>2. fieldParts(e)[i] \in FieldText /\ validField(field, fieldParts(e)[i])
        BY <2>1, FieldsOf
    <2>3. parseExpr(e)[field] = parseField(field, fieldParts(e)[i])
        BY <1>1, <1>3, <2>1
    <2>4. PICK text : text = fieldParts(e)[i]
        OBVIOUS
    <2> QED  BY <2>2, <2>3, <2>4, FieldTold
<1> QED  BY <1>2, <1>3

\* The steps are made values.
LEMMA SimplifyTold ==
    ASSUME NEW field \in Fields, NEW f, Fitting(field, f), Told(field, f)
    PROVE  Told(field, simplifyField(f))
<1> DEFINE g == simplifyField(f)
           stepped == UNION {getValues(s.from, s.to, s.step) : s \in f.steps}
<1>1. g = [f EXCEPT !.values = @ \cup stepped, !.steps = {}]
    BY DEF simplifyField
<1>2. f.steps = {} => stepped = {}
    OBVIOUS
<1> HIDE DEF stepped, g
<1>4. DOMAIN f = DOMAIN Unparsed
    BY DEF Fitting
<1>5. /\ g.values = f.values \cup stepped /\ g.steps = {} /\ g.omit = f.omit /\ g.all = f.all
      /\ g.ranges = f.ranges
      /\ g.lastDay = f.lastDay /\ g.lastWeekday = f.lastWeekday /\ g.lastDays = f.lastDays
      /\ g.nearestWeekdays = f.nearestWeekdays /\ g.nthDays = f.nthDays
    BY <1>1, <1>4 DEF Unparsed
<1> QED  BY <1>2, <1>5 DEF Told, g

\* The expressions that the loops run over.
LEMMA ParsedTold ==
    ASSUME NEW text \in Texts, valid(text), NEW e \in Parsed(text), NEW field \in Fields
    PROVE  Told(field, e[field])
<1>1. PICK e0 \in parse(text) : e = [x \in DOMAIN e0 |-> simplifyField(e0[x])]
    BY DEF Parsed, simplifyExprs
<1>2. PICK x \in text : e0 = parseExpr(x)
    BY DEF parse
<1>3. x \in ExprText /\ validExpr(x)
    <2>1. text \subseteq ExprText
        BY PreviewAssumption, Zenon
    <2> QED  BY <2>1 DEF valid
<1>4. DOMAIN e0 = Fields /\ Fitting(field, e0[field]) /\ Told(field, e0[field])
    BY <1>2, <1>3, ExprFits, ExprTold
<1>5. e[field] = simplifyField(e0[field])
    BY <1>1, <1>4
<1> DEFINE f == e0[field]
<1>6. Fitting(field, f) /\ Told(field, f)
    BY <1>4
<1> HIDE DEF f
<1>7. Told(field, simplifyField(f))
    BY <1>6, SimplifyTold
<1> QED  BY <1>5, <1>7 DEF f

\* A number that a field allows matches it.
LEMMA FieldMatched ==
    ASSUME NEW field, NEW f, Told(field, f), \A r \in f.ranges : r.from \in Int /\ r.to \in Int,
           NEW v \in Int,
           \/ f.all \/ v \in f.values \/ (f.omit /\ v = 0 /\ field = "second")
           \/ \E r \in f.ranges : v \in r.from..r.to
    PROVE  isFieldMatches(f, field, v)
<1>1. ASSUME NEW r \in f.ranges, v \in r.from..r.to PROVE isInRange(r.from, r.to, v)
    BY <1>1 DEF isInRange
<1>2. v \in f.values => ~f.omit
    BY DEF Told
<1>3. \A r \in f.ranges : ~f.omit
    BY DEF Told
<1> QED  BY <1>1, <1>2, <1>3 DEF isFieldMatches

\* The nearest weekday is the one that isNearestWeekDay moves to.
LEMMA NearestMoves ==
    ASSUME NEW b \in Nat, NEW last \in 28..31, NEW n \in 1..last, NEW d \in 1..last,
           (b + d) % 7 \in 1..5,
           \A x \in 1..last : (b + x) % 7 \in 1..5 => Dist(d, n) <= Dist(x, n)
    PROVE  isMovedTo((b + n) % 7, n, last, d)
<1>1. (b + n) % 7 \in 0..6
    OBVIOUS
<1>2. Dist(n, n) = 0 /\ Dist(n - 1, n) = 1 /\ Dist(n + 1, n) = 1 /\ Dist(n + 2, n) = 2 /\ Dist(n - 2, n) = 2
    BY DEF Dist
<1>3. \A k \in Nat : Dist(d, n) <= k => n - k <= d /\ d <= n + k
    BY DEF Dist
<1>4. CASE (b + n) % 7 \in 1..5
    <2>1. Dist(d, n) <= 0
        BY <1>2, <1>4
    <2>2. n - 0 <= d /\ d <= n + 0
        BY <1>3, <2>1
    <2> QED  BY <2>2 DEF isMovedTo
<1>5. CASE (b + n) % 7 = 6 /\ n # 1
    <2>1. n - 1 \in 1..last /\ (b + (n - 1)) % 7 = 5
        BY <1>5
    <2>2. n - 1 <= d /\ d <= n + 1
        BY <1>2, <1>3, <2>1
    <2>3. d # n /\ d # n + 1
        BY <1>5
    <2> QED  BY <1>5, <2>2, <2>3 DEF isMovedTo
<1>6. CASE (b + n) % 7 = 6 /\ n = 1
    <2>1. n + 2 \in 1..last /\ (b + (n + 2)) % 7 = 1
        BY <1>6
    <2>2. d <= n + 2
        BY <1>2, <1>3, <2>1
    <2>3. d # n /\ d # n + 1
        BY <1>6
    <2> QED  BY <1>6, <2>2, <2>3 DEF isMovedTo
<1>7. CASE (b + n) % 7 = 0 /\ n # last
    <2>1. n + 1 \in 1..last /\ (b + (n + 1)) % 7 = 1
        BY <1>7
    <2>2. n - 1 <= d /\ d <= n + 1
        BY <1>2, <1>3, <2>1
    <2>3. d # n /\ d # n - 1
        BY <1>7
    <2> QED  BY <1>7, <2>2, <2>3 DEF isMovedTo
<1>8. CASE (b + n) % 7 = 0 /\ n = last
    <2>1. n - 2 \in 1..last /\ (b + (n - 2)) % 7 = 5
        BY <1>8
    <2>2. n - 2 <= d
        BY <1>2, <1>3, <2>1
    <2>3. d # n /\ d # n - 1
        BY <1>8
    <2> QED  BY <1>8, <2>2, <2>3 DEF isMovedTo
<1> QED  BY <1>1, <1>4, <1>5, <1>6, <1>7, <1>8

\* So isNearestWeekDay finds it.
LEMMA NearestFound ==
    ASSUME NEW o \in Int, NEW y, NEW m, NEW d, NEW h, NEW mi, NEW s,
           IsDate(y, m, d), IsTime(h, mi, s), NEW n \in Nat \ {0}, NearestTo(y, m, d, n)
    PROVE  isNearestWeekDay(TimeAt(Object(y, m, d, h, mi, s), o), n)
<1> DEFINE t == TimeAt(Object(y, m, d, h, mi, s), o)
           last == daysInMonth(y, m)
           target == IF last < n THEN last ELSE n
<1>1. y \in Int /\ m \in 1..12 /\ last \in 28..31 /\ last \in Int /\ d \in 1..last
    BY DateInts DEF IsDate
<1>2. t.c = Object(y, m, d, h, mi, s)
    BY FixedTime DEF IsObject
<1>3. t.c.year = y /\ t.c.month = m /\ t.c.day = d
    BY <1>2, ObjectFields
<1>4. target \in 1..last /\ target \in Nat
    BY <1>1
<1>5. IsDate(y, m, target)
    BY <1>1, <1>4 DEF IsDate
<1>6. setDayWithinMonth(t, n) = TimeAt(Object(y, m, target, h, mi, s), o)
    <2>1. setDayWithinMonth(t, n) = set(t, [day |-> target])
        BY <1>3 DEF setDayWithinMonth
    <2> HIDE DEF target
    <2> QED  BY <2>1, SetDay
<1>7. isWeekday(t) <=> d \in Weekdays(y, m)
    BY <1>2, WeekdayOf
<1>8. target = IF n > last THEN last ELSE n
    BY <1>1
<1> HIDE DEF target
<1>9. d \in Weekdays(y, m) /\ \A x \in Weekdays(y, m) : Dist(d, target) <= Dist(x, target)
    BY <1>8 DEF NearestTo
<1> DEFINE dayTime == setDayWithinMonth(t, n)
<1>10. dayTime.c.day = target /\ getWeekDay(dayTime) = KindOf(y, m, target)
    <2>1. dayTime.c = Object(y, m, target, h, mi, s)
        BY <1>5, <1>6, FixedTime DEF IsObject
    <2> HIDE DEF dayTime
    <2> QED  BY <2>1, ObjectFields, WeekDayOf
<1>11. PICK b \in Nat : \A x \in 1..last : KindOf(y, m, x) = (b + x) % 7
    BY <1>1, KindsFollow
<1>12. \A x : x \in Weekdays(y, m) <=> x \in 1..last /\ (b + x) % 7 \in 1..5
    BY <1>11 DEF Weekdays
<1>13. isMovedTo(KindOf(y, m, target), target, last, d)
    <2>1. (b + d) % 7 \in 1..5 /\ \A x \in 1..last : (b + x) % 7 \in 1..5 => Dist(d, target) <= Dist(x, target)
        BY <1>9, <1>12
    <2> HIDE DEF last
    <2>2. isMovedTo((b + target) % 7, target, last, d)
        BY <1>1, <1>4, <2>1, NearestMoves
    <2> QED  BY <1>4, <1>11, <2>2
<1> HIDE DEF dayTime, t
<1>14. isMovedTo(getWeekDay(dayTime), dayTime.c.day, daysInMonth(t.c.year, t.c.month), t.c.day)
    BY <1>3, <1>10, <1>13
<1> QED  BY <1>7, <1>9, <1>14 DEF isNearestWeekDay, dayTime, t

\* getDaysOfType, with the number of the days of a kind up to one of them.
DaysFound(days, y, m, kind, d) ==
    /\ days \subseteq 1..30
    /\ \A x \in 1..28 : x \in days <=> KindOf(y, m, x) = kind
    /\ d \in 1..28 /\ KindOf(y, m, d) = kind =>
           Cardinality({x \in days : x <= d}) = (d - 1) \div 7 + 1

\* getDaysOfType finds them.
LEMMA DaysOfType ==
    ASSUME NEW o \in Int, NEW y, NEW m, NEW d, NEW h, NEW mi, NEW s,
           IsDate(y, m, d), IsTime(h, mi, s), NEW kind, NEW a \in 1..28
    PROVE  DaysFound(getDaysOfType(TimeAt(Object(y, m, d, h, mi, s), o), kind), y, m, kind, a)
<1> DEFINE t == TimeAt(Object(y, m, d, h, mi, s), o)
           days == getDaysOfType(t, kind)
           upTo == {x \in days : x <= a}
           last == daysInMonth(y, m)
<1>1. y \in Int /\ m \in 1..12 /\ last \in 28..31
    BY DateInts
<1>2. t.c.month = m
    <2>1. t.c = Object(y, m, d, h, mi, s)
        BY FixedTime DEF IsObject
    <2> QED  BY <2>1, ObjectFields
<1>3. ASSUME NEW x \in 1..28
      PROVE  x \in days <=> KindOf(y, m, x) = kind
    <2> DEFINE u == set(t, [day |-> x])
    <2>1. u = TimeAt(Object(y, m, x, h, mi, s), o)
        BY SetDay
    <2>2. u.c = Object(y, m, x, h, mi, s)
        <3>1. IsDate(y, m, x)
            BY <1>1 DEF IsDate
        <3> QED  BY <2>1, <3>1, FixedTime DEF IsObject
    <2> HIDE DEF u
    <2>3. u.c.month = m /\ getWeekDay(u) = KindOf(y, m, x)
        BY <2>2, ObjectFields, WeekDayOf
    <2>4. x \in 1..30
        OBVIOUS
    <2> QED  BY <1>2, <2>3, <2>4 DEF getDaysOfType, u
<1>4. days \subseteq 1..30
    BY DEF getDaysOfType
<1> HIDE DEF days, t
<1>5. PICK b \in Nat : \A x \in 1..last : KindOf(y, m, x) = (b + x) % 7
    BY <1>1, KindsFollow
<1>6. \A x \in 1..28 : KindOf(y, m, x) = (b + x) % 7
    <2>1. \A x \in 1..28 : x \in 1..last
        BY <1>1
    <2> QED  BY <1>5, <2>1
<1> DEFINE S == {x \in 1..a : (b + x) % 7 = (b + a) % 7}
<1>7. ASSUME KindOf(y, m, a) = kind
      PROVE  Cardinality(upTo) = (a - 1) \div 7 + 1
    <2>1. \A x : x \in 1..a => x \in 1..28 /\ x <= a
        OBVIOUS
    <2>2. upTo \subseteq S
        <3> SUFFICES ASSUME NEW x \in days, x <= a PROVE x \in 1..a /\ (b + x) % 7 = (b + a) % 7
            OBVIOUS
        <3>1. x \in 1..a
            BY <1>4
        <3> QED  BY <1>3, <1>6, <1>7, <2>1, <3>1
    <2>3. S \subseteq upTo
        <3> SUFFICES ASSUME NEW x \in 1..a, (b + x) % 7 = (b + a) % 7 PROVE x \in days /\ x <= a
            OBVIOUS
        <3> QED  BY <1>3, <1>6, <1>7, <2>1
    <2>4. Cardinality(S) = (a - 1) \div 7 + 1
        <3>1. a \in 1..31
            OBVIOUS
        <3> QED  BY <3>1, DaysUpTo
    <2> HIDE DEF S, upTo
    <2>5. upTo = S
        BY <2>2, <2>3, Zenon
    <2> QED  BY <2>4, <2>5
<1> HIDE DEF upTo
<1>8. DaysFound(days, y, m, kind, a)
    BY <1>3, <1>4, <1>7 DEF DaysFound, upTo
<1> QED  BY <1>8 DEF days, t

\* The first three days of a kind are found: there are more than three.
LEMMA NthFound ==
    ASSUME NEW o \in Int, NEW y, NEW m, NEW d, NEW h, NEW mi, NEW s,
           IsDate(y, m, d), IsTime(h, mi, s), NEW nth, nth.instance <= 3,
           KindOf(y, m, d) = nth.day_of_week, (d - 1) \div 7 + 1 = nth.instance
    PROVE  isNthDay(TimeAt(Object(y, m, d, h, mi, s), o), nth)
<1> DEFINE t == TimeAt(Object(y, m, d, h, mi, s), o)
           kind == nth.day_of_week
           days == getDaysOfType(t, kind)
           fourth == d - 7 * ((d - 1) \div 7) + 21
<1>1. y \in Int /\ m \in 1..12 /\ d \in 1..31 /\ daysInMonth(y, m) \in 28..31
    BY DateInts
<1>2. t.c.day = d
    <2>1. t.c = Object(y, m, d, h, mi, s)
        BY FixedTime DEF IsObject
    <2> QED  BY <2>1, ObjectFields
<1>3. d \in 1..28 /\ nth.instance \in 1..3
    <2>1. (d - 1) \div 7 <= 2
        BY <1>1
    <2> QED  BY <1>1, <2>1
<1>4. fourth \in 22..28 /\ fourth \in 1..28 /\ (fourth - 1) \div 7 + 1 = 4
    <2>1. d - 7 * ((d - 1) \div 7) \in 1..7
        BY <1>1
    <2> QED  BY <2>1
<1>5. KindOf(y, m, fourth) = kind
    <2>1. PICK b \in Nat : \A x \in 1..daysInMonth(y, m) : KindOf(y, m, x) = (b + x) % 7
        BY <1>1, KindsFollow
    <2>2. d \in 1..daysInMonth(y, m) /\ fourth \in 1..daysInMonth(y, m)
        BY <1>1, <1>3, <1>4
    <2>3. PICK q \in 0..2 : q = (d - 1) \div 7
        BY <1>1, <1>3
    <2>4. (b + (d - 7 * q + 21)) % 7 = (b + d) % 7
        BY <1>1, <2>3
    <2> QED  BY <2>1, <2>2, <2>3, <2>4
<1> HIDE DEF fourth
<1>6. DaysFound(days, y, m, kind, d)
    BY <1>3, DaysOfType
<1>7. DaysFound(days, y, m, kind, fourth)
    BY <1>4, DaysOfType
<1> HIDE DEF days, t
<1>8. Cardinality({x \in days : x <= d}) = nth.instance /\ d \in days
    BY <1>3, <1>6 DEF DaysFound
<1>9. Cardinality(days) > nth.instance
    <2>1. days \subseteq 1..30
        BY <1>6 DEF DaysFound
    <2>2. IsFiniteSet(days)
        <3>1. IsFiniteSet(1..30)
            <4>1. PICK a \in Int, z \in Int : a = 1 /\ z = 30
                OBVIOUS
            <4>2. IsFiniteSet(a..z)
                BY FS_Interval
            <4> QED  BY <4>1, <4>2
        <3>2. PICK D : D = 1..30
            OBVIOUS
        <3>3. IsFiniteSet(D) /\ days \in SUBSET D
            BY <2>1, <3>1, <3>2
        <3> QED  BY <3>3, FS_Subset
    <2> DEFINE upTo == {x \in days : x <= fourth}
    <2>3. Cardinality(upTo) = 4
        BY <1>4, <1>5, <1>7 DEF DaysFound
    <2>4. upTo \subseteq days
        OBVIOUS
    <2> HIDE DEF upTo
    <2>5. Cardinality(upTo) <= Cardinality(days) /\ Cardinality(days) \in Nat
        BY <2>2, <2>4, FS_Subset, FS_CardinalityType
    <2> QED  BY <1>3, <2>3, <2>5
<1> QED  BY <1>2, <1>8, <1>9 DEF isNthDay, isNthOf, days, t

\* The last day of a kind is found.
LEMMA LastFound ==
    ASSUME NEW o \in Int, NEW y, NEW m, NEW d, NEW h, NEW mi, NEW s,
           IsDate(y, m, d), IsTime(h, mi, s), NEW kind, kind \in 0..6,
           KindOf(y, m, d) = kind, d + 7 > daysInMonth(y, m)
    PROVE  d = getLastDay(TimeAt(Object(y, m, d, h, mi, s), o), kind)
<1> DEFINE last == daysInMonth(y, m)
           t == TimeAt(Object(y, m, d, h, mi, s), o)
<1>1. y \in Int /\ m \in 1..12 /\ last \in 28..31 /\ d \in 1..last
    BY DateInts DEF IsDate
<1>2. IsDate(y, m, last)
    BY <1>1 DEF IsDate
<1>3. getLastDay(t, kind) = lastOfKind(TimeAt(Object(y, m, last, 23, 59, 59), o), kind)
    BY MonthEnds DEF getLastDay
<1>4. last = daysInMonth(y, m)
    OBVIOUS
<1> HIDE DEF last, t
<1>5. IsLastOf(y, m, kind, getLastDay(t, kind))
    <2>1. IsLastOf(y, m, kind, lastOfKind(TimeAt(Object(y, m, last, 23, 59, 59), o), kind))
        BY <1>2, <1>4, LastOfKind
    <2> QED  BY <1>3, <2>1
<1>6. PICK e \in Int : e = getLastDay(t, kind) /\ e <= last /\ last < e + 7 /\ KindOf(y, m, e) = kind
    BY <1>4, <1>5 DEF IsLastOf
<1>7. PICK b \in Nat : \A x \in 1..last : KindOf(y, m, x) = (b + x) % 7
    BY <1>1, <1>4, KindsFollow
<1>8. (b + d) % 7 = (b + e) % 7
    <2>1. e \in 1..last
        BY <1>1, <1>6
    <2> QED  BY <1>1, <1>6, <1>7, <2>1
<1>9. d + 7 > last
    BY <1>4
<1>10. d = e
    BY <1>1, <1>6, <1>8, <1>9
<1> QED  BY <1>6, <1>10 DEF t

\* Every day that is meant is one that is looked for: nth days are there four
\* times and more, and Sunday is day 0: no range goes on to day 7, and no value is 7,
\* which only a letter behind it ("7W") keeps from being read as 0.
Sought(e) ==
    /\ \A nth \in e.day_of_week.nthDays : nth.instance <= 3
    /\ \A r \in e.day_of_week.ranges : r.to # 7
    /\ 7 \notin e.day_of_week.values

\* A day of the month that is meant is found, as a day of the month or of the week.
LEMMA DayMatched ==
    ASSUME NEW e, Meaningful(e), Sought(e), \A field \in Fields : Simple(field, e[field]) /\ Told(field, e[field]),
           NEW o \in Int, NEW y, NEW m, NEW d, NEW h, NEW mi, NEW s,
           IsDate(y, m, d), IsTime(h, mi, s), DayFires(e, y, m, d)
    PROVE  LET t == TimeAt(Object(y, m, d, h, mi, s), o)
           IN  isDayOfMonthMatches(e.day_of_month, t) \/ isDayOfWeekMatches(e.day_of_week, t)
<1> DEFINE t == TimeAt(Object(y, m, d, h, mi, s), o)
           last == daysInMonth(y, m)
           kind == KindOf(y, m, d)
           dom == e.day_of_month
           dow == e.day_of_week
<1>1. y \in Int /\ m \in 1..12 /\ last \in 28..31 /\ d \in 1..last /\ d \in Int
    BY DateInts DEF IsDate
<1>2. t.c.day = d /\ getWeekDay(t) = kind
    <2>1. t.c = Object(y, m, d, h, mi, s)
        BY FixedTime DEF IsObject
    <2> HIDE DEF t
    <2> QED  BY <2>1, ObjectFields, WeekDayOf
<1>3. getLastWeekDay(t) = Max(Weekdays(y, m))
    BY LastWeekDay
<1>4. lastDayOfMonth(t) = last
    <2>1. IsDate(y, m, last) /\ IsTime(23, 59, 59)
        <3>1. last \in 1..last
            BY <1>1
        <3> QED  BY <1>1, <3>1 DEF IsDate, IsTime
    <2>2. TimeAt(Object(y, m, last, 23, 59, 59), o).c = Object(y, m, last, 23, 59, 59)
        BY <2>1, FixedTime DEF IsObject
    <2>3. endOf(t, "months") = TimeAt(Object(y, m, last, 23, 59, 59), o)
        BY MonthEnds
    <2> QED  BY <2>2, <2>3, ObjectFields DEF lastDayOfMonth
<1>5. kind \in 0..6
    <2>1. PICK b \in Nat : \A x \in 1..last : KindOf(y, m, x) = (b + x) % 7
        BY <1>1, KindsFollow
    <2>2. kind = (b + d) % 7
        BY <1>1, <2>1
    <2>3. (b + d) % 7 \in 0..6
        BY <1>1
    <2> HIDE DEF kind
    <2> QED  BY <2>2, <2>3
<1>6. "day_of_month" \in Fields /\ "day_of_week" \in Fields
    BY FieldNames
<1>7. Told("day_of_month", dom) /\ \A r \in dom.ranges : r.from \in Int /\ r.to \in Int
    BY <1>6 DEF Simple
<1>8. /\ Told("day_of_week", dow)
      /\ \A r \in dow.ranges : r.from \in Int /\ r.to \in Int /\ r.to < 7
    <2>1. ParserInfo["day_of_week"].max = 7
        BY DEF ParserInfo
    <2> QED  BY <1>6, <2>1 DEF Simple, InField, Sought
<1>9. ASSUME NEW n \in dom.nearestWeekdays, NearestTo(y, m, d, n) PROVE isNearestWeekDay(t, n)
    <2>1. n \in Nat \ {0}
        BY DEF Meaningful
    <2> QED  BY <1>9, <2>1, NearestFound
<1>10. ASSUME kind \in dow.lastDays, d + 7 > last PROVE d = getLastDay(t, kind)
    BY <1>5, <1>10, LastFound
<1>11. ASSUME NEW nth \in dow.nthDays, kind = nth.day_of_week, (d - 1) \div 7 + 1 = nth.instance
       PROVE  isNthDay(t, nth)
    <2>1. nth.instance <= 3
        BY DEF Sought
    <2> QED  BY <1>11, <2>1, NthFound
<1> DEFINE in(f, v) == f.all \/ v \in f.values \/ \E r \in f.ranges : v \in r.from..r.to
<1>12. in(dom, d) => isFieldMatches(dom, "day_of_month", d)
    <2> HIDE DEF dom
    <2> QED  BY <1>1, <1>7, FieldMatched
<1>13. in(dow, kind) => isFieldMatches(dow, "day_of_week", kind)
    <2> HIDE DEF dow, kind
    <2>1. kind \in Int
        BY <1>5
    <2> QED  BY <1>8, <2>1, FieldMatched
<1>14. in(dow, 7) => dow.all
    <2>1. 7 \notin dow.values
        BY DEF Sought
    <2>2. \A r \in dow.ranges : 7 \notin r.from..r.to
        BY <1>8
    <2> QED  BY <2>1, <2>2
<1>15. \/ /\ ~dom.omit
          /\ \/ in(dom, d)
             \/ dom.lastDay /\ d = last
             \/ dom.lastWeekday /\ d = Max(Weekdays(y, m))
             \/ \E n \in dom.nearestWeekdays : NearestTo(y, m, d, n)
       \/ /\ ~dow.omit
          /\ \/ in(dow, kind) \/ (kind = 0 /\ in(dow, 7))
             \/ dow.lastDay /\ kind = 6
             \/ kind \in dow.lastDays /\ d + 7 > last
             \/ \E nth \in dow.nthDays : kind = nth.day_of_week /\ (d - 1) \div 7 + 1 = nth.instance
    BY DEF DayFires
<1>16. dow.all => in(dow, kind)
    OBVIOUS
<1> HIDE DEF in, t, last, kind, dom, dow
<1>17. isDayOfMonthMatches(dom, t) \/ isDayOfWeekMatches(dow, t)
    BY <1>2, <1>3, <1>4, <1>9, <1>10, <1>11, <1>12, <1>13, <1>14, <1>15, <1>16
       DEF isDayOfMonthMatches, isDayOfWeekMatches
<1> QED  BY <1>17 DEF t, dom, dow

\* An expression matches every time that it means, but for days that are not looked for.
LEMMA FiresMatch ==
    ASSUME NEW e, Meaningful(e), Sought(e), \A field \in Fields : Simple(field, e[field]) /\ Told(field, e[field]),
           NEW o \in Int, NEW c, IsObject(c), Fires(e, c)
    PROVE  isExprMatches(e, TimeAt(c, o))
<1>1. PICK y, m, d, h, mi, s : c = Object(y, m, d, h, mi, s) /\ IsDate(y, m, d) /\ IsTime(h, mi, s)
    BY DEF IsObject
<1>2. TimeAt(c, o).c = c
    BY FixedTime
<1>3. TimeFires(e, c) /\ DayFires(e, y, m, d)
    BY <1>1, ObjectFields DEF Fires
<1>4. ASSUME NEW u \in {"second", "minute", "hour", "month", "year"}
      PROVE  isFieldMatches(e[u], u, c[u])
    <2>1. u \in Fields
        BY FieldNames
    <2>2. Told(u, e[u]) /\ \A r \in e[u].ranges : r.from \in Int /\ r.to \in Int
        BY <2>1 DEF Simple
    <2>3. \/ e[u].all \/ c[u] \in e[u].values \/ (e[u].omit /\ c[u] = 0)
          \/ \E r \in e[u].ranges : c[u] \in r.from..r.to
        BY <1>3 DEF TimeFires
    <2>4. e[u].omit => u = "second"
        BY <2>2 DEF Told
    <2>5. c[u] \in Int
        <3>1. PICK l \in 1..6 : Units[l] = u
            BY UnitNames
        <3> QED  BY <3>1, ObjectInts
    <2> QED  BY <2>2, <2>3, <2>4, <2>5, FieldMatched
<1>5. isDayOfMonthMatches(e.day_of_month, TimeAt(c, o)) \/ isDayOfWeekMatches(e.day_of_week, TimeAt(c, o))
    BY <1>1, <1>3, DayMatched
<1> QED  BY <1>2, <1>4, <1>5 DEF isExprMatches

-----------------------------------------------------------------------------
(* The loops run over every number that is meant.                          *)

\* A number of a field that is no day and no year.
LEMMA NumberMerged ==
    ASSUME NEW e, NEW field \in {"month", "hour", "minute", "second"}, Told(field, e[field]), NEW year,
           NEW v \in Int, InField(field, v),
           \/ e[field].all \/ v \in e[field].values \/ (e[field].omit /\ v = 0)
           \/ \E r \in e[field].ranges : v \in r.from..r.to
    PROVE  v \in expandField(e, field, year)
<1> DEFINE f == e[field]
           info == MatcherInfo[field]
           all == \/ f.all \/ f.lastDay \/ f.lastWeekday \/ f.lastDays # {}
                  \/ f.nearestWeekdays # {} \/ f.nthDays # {}
<1>1. v \in info.min..info.max
    <2>1. DOMAIN ParserInfo = Fields /\ field \in Fields
        BY FieldNames DEF ParserInfo
    <2>2. info = ParserInfo[field]
        BY <2>1 DEF MatcherInfo
    <2>3. info.min \in Int /\ info.max \in Int
        BY <2>1, <2>2, FieldBounds
    <2> HIDE DEF info
    <2> QED  BY <2>2, <2>3 DEF InField
<1>2. expandField(e, field, year) = IF f.omit THEN (IF field = "second" THEN {0} ELSE {})
                                    ELSE IF all THEN f.values \cup info.min..info.max
                                    ELSE f.values \cup UNION {r.from..r.to : r \in f.ranges}
    BY DEF expandField
<1>3. f.omit => field = "second" /\ ~f.all /\ f.values = {} /\ f.ranges = {}
    BY DEF Told
<1>4. f.all => all
    OBVIOUS
<1>5. f.all \/ v \in f.values \/ (f.omit /\ v = 0) \/ \E r \in f.ranges : v \in r.from..r.to
    OBVIOUS
<1> HIDE DEF f, info, all
<1>6. CASE f.omit
    BY <1>2, <1>3, <1>5, <1>6
<1>7. CASE ~f.omit /\ all
    <2>1. v \in info.min..info.max
        BY <1>1
    <2> QED  BY <1>2, <1>7, <2>1
<1>8. CASE ~f.omit /\ ~all
    BY <1>2, <1>4, <1>5, <1>8
<1> QED  BY <1>6, <1>7, <1>8

\* A year; the loop over all years ends in 2099.
LEMMA YearMerged ==
    ASSUME NEW e, Told("year", e["year"]), NEW year \in Int, NEW v \in Int,
           \/ e["year"].all \/ v \in e["year"].values
           \/ \E r \in e["year"].ranges : v \in r.from..r.to,
           e["year"].all => year <= v /\ v <= 2099
    PROVE  v \in expandField(e, "year", year)
<1> DEFINE f == e["year"]
           info == MatcherInfo["year"]
<1>1. info.max = 2099
    <2>1. DOMAIN ParserInfo = Fields /\ "year" \in Fields
        BY FieldNames DEF ParserInfo
    <2>2. info = [ParserInfo["year"] EXCEPT !.max = 2099]
        BY <2>1 DEF MatcherInfo
    <2>3. "max" \in DOMAIN ParserInfo["year"]
        BY DEF ParserInfo
    <2> QED  BY <2>2, <2>3
<1>2. ~f.omit /\ ~f.lastDay /\ ~f.lastWeekday /\ f.lastDays = {} /\ f.nearestWeekdays = {} /\ f.nthDays = {}
    BY DEF Told
<1>3. expandField(e, "year", year) = IF f.all THEN f.values \cup year..info.max
                                     ELSE f.values \cup UNION {r.from..r.to : r \in f.ranges}
    <2> HIDE DEF info
    <2> QED  BY <1>2 DEF expandField, info
<1> HIDE DEF info, f
<1>4. f.all => v \in year..info.max
    <2>1. f.all => year <= v /\ v <= 2099
        BY DEF f
    <2> QED  BY <1>1, <2>1
<1>5. f.all \/ v \in f.values \/ \E r \in f.ranges : v \in r.from..r.to
    BY DEF f
<1> QED  BY <1>3, <1>4, <1>5

\* A day: the loop over the days has those of the month, or all of them.
LEMMA DayMerged ==
    ASSUME NEW e, NEW y, NEW m, NEW d, IsDate(y, m, d), DayFires(e, y, m, d), NEW year
    PROVE  d \in expandField(e, "day_of_month", year) \cup expandField(e, "day_of_week", year)
<1> DEFINE f == e.day_of_month
           info == MatcherInfo["day_of_month"]
           all == \/ f.all \/ f.lastDay \/ f.lastWeekday \/ f.lastDays # {}
                  \/ f.nearestWeekdays # {} \/ f.nthDays # {}
<1>1. d \in 1..31 /\ d \in Int
    <2>1. d \in Int /\ 1 <= d /\ d <= daysInMonth(y, m) /\ daysInMonth(y, m) \in 28..31
        BY DateInts
    <2> QED  BY <2>1
<1>2. info.min = 1 /\ info.max = 31
    <2>1. DOMAIN ParserInfo = Fields /\ "day_of_month" \in Fields
        BY FieldNames DEF ParserInfo
    <2>2. info = ParserInfo["day_of_month"]
        BY <2>1 DEF MatcherInfo
    <2> QED  BY <2>2 DEF ParserInfo
<1>3. expandField(e, "day_of_month", year) = IF f.omit THEN {}
                                             ELSE IF all THEN f.values \cup info.min..info.max
                                             ELSE f.values \cup UNION {r.from..r.to : r \in f.ranges}
    BY DEF expandField
<1>4. ~e.day_of_week.omit => expandField(e, "day_of_week", year) = 1..31
    BY DEF expandField
<1>5. CASE ~e.day_of_week.omit
    BY <1>1, <1>4, <1>5
<1>6. CASE ~f.omit /\ all
    <2>1. d \in info.min..info.max
        BY <1>1, <1>2
    <2> HIDE DEF info, all, f
    <2> QED  BY <1>3, <1>6, <2>1
<1>7. CASE e.day_of_week.omit /\ ~f.omit /\ ~all
    <2>1. d \in f.values \/ \E r \in f.ranges : d \in r.from..r.to
        BY <1>7 DEF DayFires
    <2> HIDE DEF info, all, f
    <2> QED  BY <1>3, <1>7, <2>1
<1>8. ~f.omit \/ ~e.day_of_week.omit
    BY DEF DayFires
<1> QED  BY <1>5, <1>6, <1>7, <1>8

\* So all units of a time that is meant are merged.
LEMMA FiresMerged ==
    ASSUME NEW text \in Texts, valid(text), NEW e \in Parsed(text), NEW year \in Int,
           NEW c, IsObject(c), Fires(e, c), e.year.all => year <= c.year /\ c.year <= 2099
    PROVE  \A l \in 1..6 : c[Units[l]] \in mergeExprs(Parsed(text), year)[Units[l]]
<1> DEFINE merge == mergeExprs(Parsed(text), year)
           of(field) == expandFields(Parsed(text), field, year)
<1>1. /\ \A x \in {"year", "month", "hour", "minute", "second"} : merge[x] = of(x)
      /\ merge["day"] = of("day_of_month") \cup of("day_of_week")
    <2>1. {Units[i] : i \in DOMAIN Units} = {"year", "month", "day", "hour", "minute", "second"}
        BY UnitNames
    <2>2. merge = [x \in {Units[i] : i \in DOMAIN Units} |->
                      IF x = "day" THEN of("day_of_month") \cup of("day_of_week") ELSE of(x)]
        BY DEF mergeExprs
    <2> HIDE DEF merge, of
    <2> QED  BY <2>1, <2>2
<1>2. \A field : expandField(e, field, year) \subseteq of(field)
    BY DEF expandFields
<1> HIDE DEF merge, of
<1>3. PICK y, m, d, h, mi, s : c = Object(y, m, d, h, mi, s) /\ IsDate(y, m, d) /\ IsTime(h, mi, s)
    BY DEF IsObject
<1>4. /\ c.year = y /\ c.month = m /\ c.day = d /\ c.hour = h /\ c.minute = mi /\ c.second = s
    BY <1>3, ObjectFields
<1>5. TimeFires(e, c) /\ DayFires(e, y, m, d)
    BY <1>4 DEF Fires
<1>6. \A field \in Fields : Told(field, e[field])
    BY ParsedTold
<1>7. ASSUME NEW u \in {"month", "hour", "minute", "second"} PROVE c[u] \in merge[u]
    <2>1. u \in Fields
        BY FieldNames
    <2>2. c[u] \in Int /\ InField(u, c[u])
        <3>1. m \in 1..12 /\ h \in 0..23 /\ mi \in 0..59 /\ s \in 0..59
            BY <1>3 DEF IsDate, IsTime
        <3> QED  BY <1>4, <3>1 DEF InField, ParserInfo
    <2>3. \/ e[u].all \/ c[u] \in e[u].values \/ (e[u].omit /\ c[u] = 0)
          \/ \E r \in e[u].ranges : c[u] \in r.from..r.to
        BY <1>5 DEF TimeFires
    <2>4. c[u] \in expandField(e, u, year)
        BY <1>6, <2>1, <2>2, <2>3, NumberMerged
    <2> QED  BY <1>1, <1>2, <2>4
<1>8. c["year"] \in merge["year"]
    <2>1. "year" \in Fields
        BY FieldNames
    <2>2. PICK v \in Int : v = c["year"]
        BY <1>3, <1>4, DateInts
    <2>3. \/ e["year"].all \/ v \in e["year"].values \/ (e["year"].omit /\ v = 0)
          \/ \E r \in e["year"].ranges : v \in r.from..r.to
        BY <1>5, <2>2 DEF TimeFires
    <2>4. ~e["year"].omit /\ Told("year", e["year"])
        BY <1>6, <2>1 DEF Told
    <2>5. v \in expandField(e, "year", year)
        BY <2>2, <2>3, <2>4, YearMerged
    <2> QED  BY <1>1, <1>2, <2>2, <2>5
<1>9. c["day"] \in merge["day"]
    <2>1. d \in expandField(e, "day_of_month", year) \cup expandField(e, "day_of_week", year)
        BY <1>3, <1>5, DayMerged
    <2> QED  BY <1>1, <1>2, <1>4, <2>1
<1>10. 1..6 = {1, 2, 3, 4, 5, 6}
    OBVIOUS
<1>11. \A l \in 1..6 : c[Units[l]] \in merge[Units[l]]
    BY <1>7, <1>8, <1>9, <1>10, UnitNames
<1> QED  BY <1>11 DEF merge

-----------------------------------------------------------------------------
(* No match is missing.                                                    *)

\* Every day that the crons mean is one that is looked for.
DaysSought == \A text \in Texts : valid(text) => \A e \in Parsed(text) : Sought(e)

\* A cron for every year has no years that the loop over all of them does not reach.
YearsReached ==
    \A text \in Texts : \A e, x \in Parsed(text) :
        valid(text) /\ e.year.all =>
            (\A v \in x.year.values : v <= 2099) /\ (\A r \in x.year.ranges : r.to <= 2099)

\* The clock shows a year that the loop reaches.
ClockYears == \A t \in 0..MaxTicks : \A o \in Offsets : tsToObj(Begin + Stride * t, o).year \in 0..2099

\* The years of the loops: natural numbers, and none beyond 2099 where every year is meant.
LEMMA YearsMerged ==
    ASSUME NEW text \in Texts, valid(text), NEW year \in Int, year >= 0
    PROVE  /\ mergeExprs(Parsed(text), year)["year"] \subseteq Nat
           /\ YearsReached /\ (\E e \in Parsed(text) : e.year.all) =>
                  \A v \in mergeExprs(Parsed(text), year)["year"] : v <= 2099
<1> DEFINE of(field) == expandFields(Parsed(text), field, year)
<1>1. mergeExprs(Parsed(text), year)["year"] = of("year")
    <2>1. {Units[i] : i \in DOMAIN Units} = {"year", "month", "day", "hour", "minute", "second"}
        BY UnitNames
    <2>2. mergeExprs(Parsed(text), year) = [x \in {Units[i] : i \in DOMAIN Units} |->
                      IF x = "day" THEN of("day_of_month") \cup of("day_of_week") ELSE of(x)]
        BY DEF mergeExprs
    <2> HIDE DEF of
    <2>3. "year" # "day"
        OBVIOUS
    <2> QED  BY <2>1, <2>2, <2>3
<1>2. "year" \in Fields /\ ParserInfo["year"].min = 1970 /\ MatcherInfo["year"].max = 2099
    <2>1. DOMAIN ParserInfo = Fields /\ "year" \in Fields
        BY FieldNames DEF ParserInfo
    <2>2. MatcherInfo["year"] = [ParserInfo["year"] EXCEPT !.max = 2099]
        BY <2>1 DEF MatcherInfo
    <2>3. DOMAIN ParserInfo["year"] = {"min", "max"} /\ ParserInfo["year"].min = 1970
        BY DEF ParserInfo
    <2> QED  BY <2>1, <2>2, <2>3
<1>3. ASSUME NEW e \in Parsed(text), NEW v \in expandField(e, "year", year)
      PROVE  /\ v \in Nat
             /\ YearsReached /\ (\E x \in Parsed(text) : x.year.all) => v <= 2099
    <2> DEFINE f == e["year"]
               max == MatcherInfo["year"].max
    <2>1. \/ v \in f.values \/ v \in year..max \/ v \in UNION {r.from..r.to : r \in f.ranges}
        BY DEF expandField
    <2>2. /\ \A n \in f.values : n \in Int /\ 1970 <= n
          /\ \A r \in f.ranges : r.from \in Int /\ 1970 <= r.from /\ r.to \in Int
        <3>1. Simple("year", e["year"])
            BY <1>2, ParsedFields
        <3> QED  BY <1>2, <3>1 DEF Simple, InField
    <2>3. YearsReached /\ (\E x \in Parsed(text) : x.year.all) =>
              (\A n \in f.values : n <= 2099) /\ (\A r \in f.ranges : r.to <= 2099)
        BY DEF YearsReached
    <2>4. CASE v \in f.values
        BY <2>2, <2>3, <2>4
    <2>5. CASE v \in year..max
        <3>1. max = 2099
            BY <1>2
        <3> HIDE DEF max
        <3> QED  BY <2>5, <3>1
    <2> HIDE DEF f
    <2>6. CASE v \in UNION {r.from..r.to : r \in f.ranges}
        <3>1. PICK r \in f.ranges : v \in r.from..r.to
            BY <2>6
        <3>2. r.from \in Int /\ 1970 <= r.from /\ r.to \in Int
            BY <2>2
        <3>3. v \in Nat /\ v <= r.to
            BY <3>1, <3>2
        <3> QED  BY <2>3, <3>2, <3>3
    <2> QED  BY <2>1, <2>4, <2>5, <2>6
<1>4. \A v \in of("year") : \E e \in Parsed(text) : v \in expandField(e, "year", year)
    BY DEF expandFields
<1> HIDE DEF of
<1> QED  BY <1>1, <1>3, <1>4

\* The numbers of the loops are not below 0.
LEMMA MergedNat ==
    ASSUME NEW text \in Texts, valid(text), NEW year \in Int, year >= 0, NEW l, l \in 1..6
    PROVE  mergeExprs(Parsed(text), year)[Units[l]] \subseteq Nat
<1>1. PICK u : u = Units[l]
    OBVIOUS
<1>2. u \in {"year", "month", "day", "hour", "minute", "second"}
    BY <1>1, UnitNames
<1>3. CASE u = "year"
    BY <1>1, <1>3, YearsMerged
<1>4. CASE u # "year"
    <2>1. u \in DOMAIN Bound /\ Bound[u] \subseteq Nat
        BY <1>2, <1>4 DEF Bound
    <2>2. mergeExprs(Parsed(text), year)[u] \subseteq Bound[u]
        BY <2>1, MergedBounds
    <2> QED  BY <1>1, <2>1, <2>2
<1> QED  BY <1>3, <1>4

\* The years of the loops: the first, which the clock gave, and the one they have come to.
YearsKnown ==
    /\ startTime.c.year \in 0..2099
    /\ newTime.c.year = startTime.c.year \/ newTime.c.year \in merged["year"]

\* What the loops run over: the fields of an accepted text.
FieldsKnown ==
    \E text \in Texts : /\ valid(text) /\ exprs = Parsed(text)
                        /\ merged = mergeExprs(exprs, startTime.c.year)

\* The loops run, or have run, over the fields of a text from the start on.
Started ==
    /\ FieldsKnown /\ YearsKnown
    /\ \E s : IsObject(s) /\ startTime = TimeAt(s, offset)
    /\ \E c : IsObject(c) /\ newTime = TimeAt(c, offset)

\* A time that the loops have to come to.
Candidate(c) ==
    /\ IsObject(c) /\ \A l \in 1..6 : c[Units[l]] \in merged[Units[l]]
    /\ objToLocalTS(startTime.c) <= objToLocalTS(c)
    /\ isExprsMatches(exprs, TimeAt(c, offset))

\* No candidate that the loops have passed is missing, and when the cell is
\* shown none up to the time they have come to.
NoneMissing == \A c : Candidate(c) /\ Passed(c) => c \in Returned
NoneMissingUpTo == \A c : Candidate(c) /\ objToLocalTS(c) <= objToLocalTS(newTime.c) => c \in Returned

Over == pc = "shown" /\ cell \in {"never", "time"} /\ startTime.isValid

CompleteInv ==
    /\ pc = "series" \/ Over => Started
    /\ pc = "series" => NoneMissing
    /\ Over => NoneMissingUpTo

\* The numbers of a candidate.
LEMMA CandidateInts ==
    ASSUME Started, NEW c, Candidate(c)
    PROVE  \A l \in 1..6 : c[Units[l]] \in Nat
<1>1. PICK text \in Texts : valid(text) /\ merged = mergeExprs(Parsed(text), startTime.c.year)
    BY DEF Started, FieldsKnown
<1>2. PICK year : year = startTime.c.year
    OBVIOUS
<1>3. year \in Int /\ year >= 0
    <2>1. YearsKnown
        BY DEF Started
    <2>2. year \in 0..2099
        BY <1>2, <2>1 DEF YearsKnown
    <2> QED  BY <2>2
<1>4. ASSUME NEW l \in 1..6 PROVE c[Units[l]] \in Nat
    <2>1. c[Units[l]] \in merged[Units[l]]
        BY DEF Candidate
    <2>2. mergeExprs(Parsed(text), year)[Units[l]] \subseteq Nat
        BY <1>1, <1>3, MergedNat
    <2> QED  BY <1>1, <1>2, <2>1, <2>2
<1> QED  BY <1>4

\* Two times are the same, or differ first in some unit.
LEMMA FirstDifference ==
    ASSUME NEW a, IsObject(a), NEW b, IsObject(b)
    PROVE  a = b \/ \E l \in 1..6 : Outside(a, b, l) /\ a[Units[l]] # b[Units[l]]
<1>1. PICK y, m, d, h, mi, s : a = Object(y, m, d, h, mi, s)
    BY DEF IsObject
<1>2. PICK z, k, e, g, n, t : b = Object(z, k, e, g, n, t)
    BY DEF IsObject
<1>3. /\ a[Units[1]] = y /\ a[Units[2]] = m /\ a[Units[3]] = d
      /\ a[Units[4]] = h /\ a[Units[5]] = mi /\ a[Units[6]] = s
      /\ b[Units[1]] = z /\ b[Units[2]] = k /\ b[Units[3]] = e
      /\ b[Units[4]] = g /\ b[Units[5]] = n /\ b[Units[6]] = t
    BY <1>1, <1>2, ObjectFields, UnitNames
<1> DEFINE differ(l) == a[Units[l]] # b[Units[l]]
<1>4. CASE ~differ(1) /\ ~differ(2) /\ ~differ(3) /\ ~differ(4) /\ ~differ(5) /\ ~differ(6)
    BY <1>1, <1>2, <1>3, <1>4
<1> HIDE DEF differ
<1>5. ASSUME NEW l \in 1..6, differ(l), \A i \in 1..(l - 1) : ~differ(i)
      PROVE  \E j \in 1..6 : Outside(a, b, j) /\ a[Units[j]] # b[Units[j]]
    BY <1>5 DEF Outside, differ
<1>6. CASE differ(1)
    <2>1. \A i \in 1..(1 - 1) : ~differ(i)
        OBVIOUS
    <2> QED  BY <1>5, <1>6, <2>1
<1>7. CASE ~differ(1) /\ differ(2)
    <2>1. \A i \in 1..(2 - 1) : i = 1
        OBVIOUS
    <2> QED  BY <1>5, <1>7, <2>1
<1>8. CASE ~differ(1) /\ ~differ(2) /\ differ(3)
    <2>1. \A i \in 1..(3 - 1) : i = 1 \/ i = 2
        OBVIOUS
    <2> QED  BY <1>5, <1>8, <2>1
<1>9. CASE ~differ(1) /\ ~differ(2) /\ ~differ(3) /\ differ(4)
    <2>1. \A i \in 1..(4 - 1) : i = 1 \/ i = 2 \/ i = 3
        OBVIOUS
    <2> QED  BY <1>5, <1>9, <2>1
<1>10. CASE ~differ(1) /\ ~differ(2) /\ ~differ(3) /\ ~differ(4) /\ differ(5)
    <2>1. \A i \in 1..(5 - 1) : i = 1 \/ i = 2 \/ i = 3 \/ i = 4
        OBVIOUS
    <2> QED  BY <1>5, <1>10, <2>1
<1>11. CASE ~differ(1) /\ ~differ(2) /\ ~differ(3) /\ ~differ(4) /\ ~differ(5) /\ differ(6)
    <2>1. \A i \in 1..(6 - 1) : i = 1 \/ i = 2 \/ i = 3 \/ i = 4 \/ i = 5
        OBVIOUS
    <2> QED  BY <1>5, <1>11, <2>1
<1> QED  BY <1>4, <1>6, <1>7, <1>8, <1>9, <1>10, <1>11

\* An object that is not later than another is not later in the first unit they differ in.
LEMMA NotLater ==
    ASSUME NEW a, IsObject(a), NEW b, IsObject(b), objToLocalTS(a) <= objToLocalTS(b),
           NEW l, l \in 1..6, Outside(a, b, l)
    PROVE  a[Units[l]] <= b[Units[l]]
<1>1. a[Units[l]] \in Int /\ b[Units[l]] \in Int
    BY ObjectInts
<1>2. objToLocalTS(a) \in Int /\ objToLocalTS(b) \in Int
    <2>1. PICK o \in Int : o = 0
        OBVIOUS
    <2> QED  BY TSOfObject, <2>1
<1>3. Outside(b, a, l)
    BY DEF Outside
<1>4. ~(b[Units[l]] < a[Units[l]])
    BY <1>2, <1>3, ObjectsAscend
<1> QED  BY <1>1, <1>4

\* A candidate of the outer loops' turns is not skipped.
LEMMA NotSkipped ==
    ASSUME TypeOK, Looping, Started, NEW c, Candidate(c),
           \A i \in 1..(level - 1) : c[Units[i]] = loop[i]
    PROVE  ~Skipped(level, c[Units[level]])
<1>1. offset \in Int /\ level \in 1..6
    BY ClockAssumption DEF TypeOK
<1>2. PICK s : IsObject(s) /\ startTime = TimeAt(s, offset)
    BY DEF Started
<1>3. startTime.c = s
    BY <1>1, <1>2, FixedTime
<1>4. IsObject(c) /\ objToLocalTS(s) <= objToLocalTS(c)
    BY <1>3 DEF Candidate
<1>5. ASSUME NEW l \in 1..6, \A i \in 1..(l - 1) : c[Units[i]] = s[Units[i]]
      PROVE  ~(c[Units[l]] < s[Units[l]])
    <2>1. Outside(s, c, l)
        BY <1>5 DEF Outside
    <2>2. s[Units[l]] <= c[Units[l]]
        BY <1>2, <1>4, <2>1, NotLater
    <2>3. s[Units[l]] \in Int /\ c[Units[l]] \in Int
        BY <1>2, <1>4, ObjectInts
    <2> QED  BY <2>2, <2>3
<1>6. /\ s[Units[1]] = s.year /\ s[Units[2]] = s.month /\ s[Units[3]] = s.day /\ s[Units[4]] = s.hour
      /\ c[Units[1]] = c.year /\ c[Units[2]] = c.month /\ c[Units[3]] = c.day /\ c[Units[4]] = c.hour
    BY UnitNames
<1> SUFFICES ASSUME Skipped(level, c[Units[level]]) PROVE FALSE
    OBVIOUS
<1>7. CASE level = 1
    <2>1. c[Units[1]] < s.year
        BY <1>3, <1>7 DEF Skipped
    <2>2. \A i \in 1..(1 - 1) : c[Units[i]] = s[Units[i]]
        OBVIOUS
    <2> QED  BY <1>5, <1>6, <2>1, <2>2
<1>8. CASE level = 2
    <2>1. loop[1] = s.year /\ c[Units[2]] < s.month
        BY <1>3, <1>8 DEF Skipped
    <2>2. c[Units[1]] = loop[1]
        BY <1>8
    <2>3. \A i \in 1..(2 - 1) : c[Units[i]] = s[Units[i]]
        <3>1. \A i \in 1..(2 - 1) : i = 1
            OBVIOUS
        <3> QED  BY <1>6, <2>1, <2>2, <3>1
    <2> QED  BY <1>5, <1>6, <2>1, <2>3
<1>9. CASE level = 3 /\ loop[1] = s.year /\ loop[2] = s.month /\ c[Units[3]] < s.day
    <2>1. c[Units[1]] = loop[1] /\ c[Units[2]] = loop[2]
        BY <1>9
    <2>2. \A i \in 1..(3 - 1) : c[Units[i]] = s[Units[i]]
        <3>1. \A i \in 1..(3 - 1) : i = 1 \/ i = 2
            OBVIOUS
        <3> QED  BY <1>6, <1>9, <2>1, <3>1
    <2> QED  BY <1>5, <1>6, <1>9, <2>2
<1>10. CASE level = 3 /\ c[Units[3]] > daysInMonth(newTime.c.year, newTime.c.month)
    <2>1. PICK r : Reached(r)
        BY DEF Looping
    <2>2. newTime.c = r /\ r[Units[1]] = loop[1] /\ r[Units[2]] = loop[2]
        <3>1. IsObject(r) /\ newTime = TimeAt(r, offset) /\ \A l \in 1..(level - 1) : r[Units[l]] = loop[l]
            BY <2>1 DEF Reached
        <3>2. 1 \in 1..(level - 1) /\ 2 \in 1..(level - 1)
            BY <1>10
        <3>3. newTime.c = r
            BY <1>1, <3>1, FixedTime
        <3> QED  BY <3>1, <3>2, <3>3
    <2>3. c[Units[1]] = loop[1] /\ c[Units[2]] = loop[2]
        BY <1>10
    <2>4. newTime.c.year = c.year /\ newTime.c.month = c.month
        BY <2>2, <2>3, UnitNames
    <2>5. PICK y, m, d, h, mi, x : c = Object(y, m, d, h, mi, x) /\ IsDate(y, m, d)
        BY <1>4 DEF IsObject
    <2>6. c.year = y /\ c.month = m /\ c.day = d
        BY <2>5, ObjectFields
    <2>7. d \in Int /\ daysInMonth(y, m) \in Int /\ d <= daysInMonth(y, m)
        BY <2>5, DateInts
    <2>8. d > daysInMonth(y, m)
        BY <1>6, <1>10, <2>4, <2>6
    <2> QED  BY <2>7, <2>8
<1>11. CASE level = 4
    <2>1. loop[1] = s.year /\ loop[2] = s.month /\ loop[3] = s.day /\ c[Units[4]] < s.hour
        BY <1>3, <1>11 DEF Skipped
    <2>2. c[Units[1]] = loop[1] /\ c[Units[2]] = loop[2] /\ c[Units[3]] = loop[3]
        BY <1>11
    <2>3. \A i \in 1..(4 - 1) : c[Units[i]] = s[Units[i]]
        <3>1. \A i \in 1..(4 - 1) : i = 1 \/ i = 2 \/ i = 3
            OBVIOUS
        <3> QED  BY <1>6, <2>1, <2>2, <3>1
    <2> QED  BY <1>5, <1>6, <2>1, <2>3
<1>12. \/ level = 1 \/ level = 2 \/ level = 4
       \/ level = 3 /\ loop[1] = s.year /\ loop[2] = s.month /\ c[Units[3]] < s.day
       \/ level = 3 /\ c[Units[3]] > daysInMonth(newTime.c.year, newTime.c.month)
    BY <1>3 DEF Skipped
<1> QED  BY <1>7, <1>8, <1>9, <1>10, <1>11, <1>12

\* So the loop that is running has its number among the turns that are left.
LEMMA CandidateTurn ==
    ASSUME TypeOK, Looping, Started, NEW c, Candidate(c),
           \A i \in 1..(level - 1) : c[Units[i]] = loop[i], ~(c[Units[level]] <= loop[level])
    PROVE  c[Units[level]] \in Turns(level)
<1>1. level \in 1..6
    BY DEF TypeOK
<1>2. c[Units[level]] \in merged[Units[level]]
    BY <1>1 DEF Candidate
<1>3. c[Units[level]] > loop[level]
    <2>1. c[Units[level]] \in Int
        BY <1>1, ObjectInts DEF Candidate
    <2>2. loop[level] \in Int
        BY <1>1 DEF Looping
    <2> QED  BY <2>1, <2>2
<1>4. ~Skipped(level, c[Units[level]])
    BY NotSkipped
<1> QED  BY <1>2, <1>3, <1>4 DEF Turns

\* What a candidate is judged by does not change while the loops run.
LEMMA CandidateKept ==
    ASSUME UNCHANGED <<offset, startTime, exprs, merged>>, NEW c
    PROVE  Candidate(c)' <=> Candidate(c)
BY DEF Candidate

\* The loops that have been started stay so.
LEMMA StartedKept ==
    ASSUME Started, UNCHANGED <<offset, startTime, exprs, merged>>,
           NEW b, IsObject(b), offset \in Int, newTime' = TimeAt(b, offset),
           b.year = newTime.c.year \/ b.year \in merged["year"]
    PROVE  Started'
<1>1. newTime'.c = b
    BY FixedTime
<1>2. \E c : IsObject(c) /\ newTime' = TimeAt(c, offset')
    OBVIOUS
<1>3. \E s : IsObject(s) /\ startTime' = TimeAt(s, offset')
    BY DEF Started
<1>4. YearsKnown /\ FieldsKnown
    BY DEF Started
<1>5. YearsKnown'
    BY <1>1, <1>4 DEF YearsKnown
<1>6. FieldsKnown'
    BY <1>4 DEF FieldsKnown
<1> QED  BY <1>2, <1>3, <1>5, <1>6 DEF Started

\* The year of a turn: the one of the outermost loop.
LEMMA TurnedYear ==
    ASSUME TypeOK, Looping, NEW b, NEW v, Turned(b, v)
    PROVE  b.year = newTime.c.year \/ b.year \in merged["year"]
<1>1. offset \in Int /\ level \in 1..6
    BY ClockAssumption DEF TypeOK
<1>2. CASE level = 1
    BY <1>2, UnitNames DEF Turned
<1>3. CASE level # 1
    <2>1. 1 \in 1..(level - 1)
        BY <1>1, <1>3
    <2>2. PICK c : Reached(c)
        BY DEF Looping
    <2>3. b[Units[1]] = loop[1] /\ c[Units[1]] = loop[1] /\ IsObject(c) /\ newTime = TimeAt(c, offset)
        BY <2>1, <2>2 DEF Turned, Reached
    <2>4. newTime.c = c
        BY <1>1, <2>3, FixedTime
    <2> QED  BY <2>3, <2>4, UnitNames
<1> QED  BY <1>2, <1>3

\* A loop inside begins: between its turn and the one before there is no candidate.
LEMMA TurnComplete ==
    ASSUME TypeOK, SoundInv, CompleteInv, turn
    PROVE  CompleteInv'
<1> DEFINE v == Min(Turns(level))
<1>1. /\ pc = "series" /\ level \in 1..6 /\ level < 6 /\ Turns(level) # {}
      /\ loop' = [l \in 1..6 |-> IF l = level THEN v ELSE IF l > level THEN -1 ELSE loop[l]]
      /\ newTime' = turnTime /\ level' = level + 1
      /\ UNCHANGED <<tick, offset, startTime, exprs, merged, pc, loopCount, nextTimes, cell>>
    BY DEF turn, TypeOK, consts
<1>2. Looping /\ Started /\ NoneMissing /\ offset \in Int
    BY <1>1, ClockAssumption DEF SoundInv, CompleteInv, TypeOK
<1>3. PICK b : Turned(b, v)
    BY <1>1, <1>2, TurnFound
<1> HIDE DEF v
<1>4. IsObject(b) /\ turnTime = TimeAt(b, offset) /\ v \in Int /\ \A x \in Turns(level) : v <= x
    BY <1>3 DEF Turned
<1>5. Started'
    <2>1. b.year = newTime.c.year \/ b.year \in merged["year"]
        BY <1>2, <1>3, TurnedYear
    <2> QED  BY <1>1, <1>2, <1>4, <2>1, StartedKept
<1>6. ASSUME NEW c, Candidate(c), Passed(c)' PROVE Passed(c)
    <2>1. PICK l \in 1..level' : /\ \A i \in 1..(l - 1) : c[Units[i]] = loop'[i]
                                 /\ c[Units[l]] <= loop'[l] /\ (l < level' => c[Units[l]] < loop'[l])
        BY <1>6 DEF Passed
    <2>2. l \in 1..6 /\ (l = level + 1 \/ l = level \/ l \in 1..(level - 1))
        BY <1>1
    <2>3. c[Units[l]] \in Nat
        BY <1>2, <1>6, <2>2, CandidateInts
    <2>4. ASSUME NEW i \in 1..(level - 1) PROVE loop'[i] = loop[i] /\ i \in 1..6
        BY <1>1
    <2>5. CASE l = level + 1
        <3>1. loop'[l] = -1
            BY <1>1, <2>2, <2>5
        <3> QED  BY <2>1, <2>3, <3>1
    <2>6. CASE l = level
        <3>1. \A i \in 1..(level - 1) : c[Units[i]] = loop[i]
            BY <2>1, <2>4, <2>6
        <3>2. loop'[level] = v /\ c[Units[level]] < v
            BY <1>1, <2>1, <2>6
        <3>3. c[Units[level]] \notin Turns(level)
            BY <1>4, <2>3, <2>6, <3>2
        <3>4. c[Units[level]] <= loop[level]
            BY <1>2, <1>6, <3>1, <3>3, CandidateTurn
        <3>5. level \in 1..level /\ ~(level < level)
            BY <1>1
        <3> QED  BY <3>1, <3>4, <3>5 DEF Passed
    <2>7. CASE l \in 1..(level - 1)
        <3>1. \A i \in 1..(l - 1) : i \in 1..(level - 1)
            BY <1>1, <2>7
        <3>2. \A i \in 1..(l - 1) : c[Units[i]] = loop[i]
            BY <2>1, <2>4, <3>1
        <3>3. l < level' /\ l \in 1..level
            BY <1>1, <2>7
        <3>4. c[Units[l]] <= loop[l] /\ c[Units[l]] < loop[l]
            BY <2>1, <2>4, <2>7, <3>3
        <3> QED  BY <3>2, <3>3, <3>4 DEF Passed
    <2> QED  BY <2>2, <2>5, <2>6, <2>7
<1>7. NoneMissing'
    <2>1. Returned' = Returned
        BY <1>1 DEF Returned
    <2>2. \A c : Candidate(c)' <=> Candidate(c)
        BY <1>1, CandidateKept
    <2> QED  BY <1>2, <1>6, <2>1, <2>2 DEF NoneMissing
<1> QED  BY <1>1, <1>5, <1>7 DEF CompleteInv, Over

\* A loop ends: no candidate is left in its turn of the one outside.
LEMMA LeaveComplete ==
    ASSUME TypeOK, SoundInv, CompleteInv, leave
    PROVE  CompleteInv'
<1>1. /\ pc = "series" /\ level \in 1..6 /\ Turns(level) = {}
      /\ UNCHANGED <<tick, offset, startTime, exprs, merged, loop, newTime, nextTimes>>
    BY DEF leave, TypeOK, consts
<1>2. Looping /\ Started /\ NoneMissing /\ offset \in Int
    BY <1>1, ClockAssumption DEF SoundInv, CompleteInv, TypeOK
<1>3. Started'
    <2>1. PICK c : IsObject(c) /\ newTime = TimeAt(c, offset)
        BY <1>2 DEF Started
    <2>2. newTime.c = c
        BY <1>2, <2>1, FixedTime
    <2> QED  BY <1>1, <1>2, <2>1, <2>2, StartedKept
<1>4. Returned' = Returned /\ \A c : Candidate(c)' <=> Candidate(c)
    BY <1>1, CandidateKept DEF Returned
<1>5. ASSUME NEW c, Candidate(c), \A i \in 1..(level - 1) : c[Units[i]] = loop[i] PROVE Passed(c)
    <2>1. c[Units[level]] <= loop[level]
        BY <1>1, <1>2, <1>5, CandidateTurn
    <2>2. level \in 1..level /\ ~(level < level)
        BY <1>1
    <2> QED  BY <1>5, <2>1, <2>2 DEF Passed
<1>6. CASE level = 1
    <2>1. pc' = "shown"
        BY <1>6 DEF leave, show
    <2>2. \A i \in 1..(level - 1) : FALSE
        BY <1>6
    <2>3. \A c : Candidate(c) => c \in Returned
        BY <1>2, <1>5, <2>2 DEF NoneMissing
    <2>4. NoneMissingUpTo'
        BY <1>4, <2>3 DEF NoneMissingUpTo
    <2> QED  BY <1>3, <2>1, <2>4 DEF CompleteInv
<1>7. CASE level # 1
    <2>1. level' = level - 1 /\ pc' = pc
        BY <1>7 DEF leave
    <2>2. ASSUME NEW c, Candidate(c), Passed(c)' PROVE Passed(c)
        <3>1. PICK l \in 1..level' : /\ \A i \in 1..(l - 1) : c[Units[i]] = loop[i]
                                     /\ c[Units[l]] <= loop[l] /\ (l < level' => c[Units[l]] < loop[l])
            BY <1>1, <2>2 DEF Passed
        <3>2. l \in 1..level /\ l < level /\ l \in 1..6
            BY <1>1, <2>1
        <3>3. CASE c[Units[l]] < loop[l]
            BY <3>1, <3>2, <3>3 DEF Passed
        <3>4. CASE ~(c[Units[l]] < loop[l])
            <4>1. l = level - 1
                BY <1>1, <2>1, <3>1, <3>4
            <4>2. c[Units[l]] \in Int /\ loop[l] \in Int
                BY <1>2, <2>2, <3>2, ObjectInts DEF Candidate, Looping
            <4>3. c[Units[l]] = loop[l]
                BY <3>1, <3>4, <4>2
            <4>4. \A i \in 1..(level - 1) : c[Units[i]] = loop[i]
                <5>1. \A i \in 1..(level - 1) : i = l \/ i \in 1..(l - 1)
                    BY <1>1, <4>1
                <5> QED  BY <3>1, <4>3, <5>1
            <4> QED  BY <1>5, <2>2, <4>4
        <3> QED  BY <3>3, <3>4
    <2>3. NoneMissing'
        BY <1>2, <1>4, <2>2 DEF NoneMissing
    <2> QED  BY <1>1, <1>3, <2>1, <2>3 DEF CompleteInv, Over
<1> QED  BY <1>6, <1>7

\* An object before another is before it in the first unit they differ in.
LEMMA BeforeLast ==
    ASSUME NEW a, IsObject(a), NEW b, IsObject(b), objToLocalTS(a) <= objToLocalTS(b), a # b
    PROVE  \E l \in 1..6 : Outside(a, b, l) /\ a[Units[l]] < b[Units[l]]
<1>1. PICK l \in 1..6 : Outside(a, b, l) /\ a[Units[l]] # b[Units[l]]
    BY FirstDifference
<1>2. a[Units[l]] <= b[Units[l]]
    BY <1>1, NotLater
<1>3. a[Units[l]] \in Int /\ b[Units[l]] \in Int
    BY ObjectInts
<1> QED  BY <1>1, <1>2, <1>3

\* What Append adds to the times that are returned.
LEMMA ReturnedAppended ==
    ASSUME IsList(nextTimes), NEW x, nextTimes' = Append(nextTimes, x)
    PROVE  Returned' = Returned \cup {parseISODate(x)[1]}
<1> DEFINE n == Len(nextTimes)
<1>1. /\ n \in Nat /\ DOMAIN nextTimes = 1..n
      /\ DOMAIN Append(nextTimes, x) = 1..(n + 1)
      /\ \A i \in 1..n : Append(nextTimes, x)[i] = nextTimes[i]
      /\ Append(nextTimes, x)[n + 1] = x
    BY ListEntries
<1> HIDE DEF n
<1>2. /\ DOMAIN nextTimes' = 1..(n + 1)
      /\ \A i \in 1..n : nextTimes'[i] = nextTimes[i]
      /\ nextTimes'[n + 1] = x
    BY <1>1
<1>3. 1..(n + 1) = (1..n) \cup {n + 1}
    BY <1>1
<1>4. Returned = {parseISODate(nextTimes[i])[1] : i \in 1..n}
    BY <1>1 DEF Returned
<1>5. Returned' = {parseISODate(nextTimes'[i])[1] : i \in 1..(n + 1)}
    BY <1>2 DEF Returned
<1>6. ASSUME NEW i \in 1..n PROVE parseISODate(nextTimes'[i])[1] = parseISODate(nextTimes[i])[1]
    BY <1>2
<1> QED  BY <1>2, <1>3, <1>4, <1>5, <1>6

\* A turn of the innermost loop, with or without a match.
LEMMA YieldComplete ==
    ASSUME NoDayZero, TypeOK, SoundInv, CompleteInv, yield
    PROVE  CompleteInv'
<1> DEFINE v == Min(Turns(6))
           time == turnTime
           x == toISO(time)
           times == IF isExprsMatches(exprs, time) THEN Append(nextTimes, x) ELSE nextTimes
<1>1. /\ pc = "series" /\ level = 6 /\ Turns(6) # {}
      /\ loop' = [loop EXCEPT ![6] = v]
      /\ yieldAt(time)
      /\ UNCHANGED <<tick, offset, startTime, exprs, merged, level>>
    BY DEF yield, consts
<1>2. Looping /\ Started /\ NoneMissing /\ offset \in Int /\ IsList(nextTimes)
    BY <1>1, ClockAssumption DEF SoundInv, CompleteInv, TypeOK
<1>3. PICK b : Turned(b, v)
    <2>1. Turns(level) # {}
        BY <1>1
    <2>2. \E b : Turned(b, Min(Turns(level)))
        BY <1>2, <2>1, TurnFound
    <2> QED  BY <1>1, <2>2
<1> HIDE DEF v
<1>4. /\ IsObject(b) /\ turnTime = TimeAt(b, offset)
      /\ v \in Int /\ v > loop[6] /\ b[Units[6]] = v
      /\ \A i \in Turns(6) : v <= i
      /\ \A l \in 1..5 : b[Units[l]] = loop[l]
    <2>1. 1..(level - 1) = 1..5
        BY <1>1
    <2> QED  BY <1>1, <1>3, <2>1 DEF Turned
<1>5. /\ newTime' = time
      /\ \/ UNCHANGED <<pc, loopCount, nextTimes, cell>>
         \/ ~(time.ts < startTime.ts) /\ collect(times)
    BY <1>1 DEF yieldAt
<1>6. /\ loop \in [1..6 -> Int] /\ loop'[6] = v
      /\ \A l \in 1..5 : loop'[l] = loop[l]
    <2>1. loop \in [1..6 -> Int]
        BY <1>2 DEF Looping
    <2> QED  BY <1>1, <1>4, <2>1
<1>7. Started'
    <2>1. b.year = newTime.c.year \/ b.year \in merged["year"]
        BY <1>2, <1>3, TurnedYear
    <2> QED  BY <1>1, <1>2, <1>4, <1>5, <2>1, StartedKept
\* What the loop passes is the time of this turn, or has been passed before.
<1>8. ASSUME NEW c, Candidate(c), Passed(c)' PROVE Passed(c) \/ c = b
    <2>1. PICK l \in 1..6 : /\ \A i \in 1..(l - 1) : c[Units[i]] = loop'[i]
                            /\ c[Units[l]] <= loop'[l] /\ (l < 6 => c[Units[l]] < loop'[l])
        BY <1>1, <1>8 DEF Passed
    <2>2. \A i \in 1..(l - 1) : i \in 1..5 /\ c[Units[i]] = loop[i]
        <3>1. \A i \in 1..(l - 1) : i \in 1..5
            OBVIOUS
        <3> QED  BY <1>6, <2>1, <3>1
    <2>3. IsObject(c) /\ c[Units[l]] \in Int /\ loop[l] \in Int
        BY <1>6, <1>8, ObjectInts DEF Candidate
    <2>4. CASE l # 6
        <3>1. l \in 1..5 /\ l < 6
            BY <2>4
        <3>2. c[Units[l]] <= loop[l] /\ c[Units[l]] < loop[l]
            BY <1>6, <2>1, <3>1
        <3> QED  BY <1>1, <2>2, <3>2 DEF Passed
    <2>5. CASE l = 6 /\ c[Units[6]] <= loop[6]
        <3>1. 6 \in 1..6 /\ ~(6 < 6)
            OBVIOUS
        <3> QED  BY <1>1, <2>2, <2>5, <3>1 DEF Passed
    <2>6. CASE l = 6 /\ ~(c[Units[6]] <= loop[6])
        <3>1. \A i \in 1..(level - 1) : c[Units[i]] = loop[i]
            BY <1>1, <2>2, <2>6
        <3>2. c[Units[level]] \in Turns(level)
            BY <1>1, <1>2, <1>8, <2>6, <3>1, CandidateTurn
        <3>3. v <= c[Units[6]] /\ c[Units[6]] <= v
            BY <1>1, <1>4, <1>6, <2>1, <2>6, <3>2
        <3>4. c[Units[6]] = b[Units[6]]
            BY <1>4, <2>3, <2>6, <3>3
        <3>5. \A i \in 1..5 : c[Units[i]] = b[Units[i]]
            BY <1>4, <2>2, <2>6
        <3>6. \A i \in 1..6 : c[Units[i]] = b[Units[i]]
            <4>1. \A i \in 1..6 : i = 6 \/ i \in 1..5
                OBVIOUS
            <4> QED  BY <3>4, <3>5, <4>1
        <3> QED  BY <1>4, <2>3, <3>6, FirstDifference
    <2> QED  BY <2>4, <2>5, <2>6
<1>9. \A c : Candidate(c)' <=> Candidate(c)
    BY <1>1, CandidateKept
\* The time of this turn is returned if it is a candidate.
<1>10. Returned \subseteq Returned' /\ (Candidate(b) => b \in Returned')
    <2>1. CASE UNCHANGED <<pc, loopCount, nextTimes, cell>> /\ time.ts < startTime.ts
        <3>1. PICK s : IsObject(s) /\ startTime = TimeAt(s, offset)
            BY <1>2 DEF Started
        <3>2. startTime.c = s /\ startTime.ts = objToLocalTS(s) - 60 * offset
            BY <1>2, <3>1, FixedTime
        <3>3. time.ts = objToLocalTS(b) - 60 * offset
            BY <1>2, <1>4, FixedTime
        <3>4. objToLocalTS(b) \in Int /\ objToLocalTS(s) \in Int
            <4>1. PICK o \in Int : o = 0
                OBVIOUS
            <4> QED  BY <1>4, <3>1, <4>1, TSOfObject
        <3>5. ~(objToLocalTS(s) <= objToLocalTS(b))
            <4>1. objToLocalTS(b) - 60 * offset < objToLocalTS(s) - 60 * offset
                BY <2>1, <3>2, <3>3
            <4> QED  BY <1>2, <3>4, <4>1
        <3>6. ~Candidate(b)
            BY <3>2, <3>5 DEF Candidate
        <3> QED  BY <2>1, <3>6 DEF Returned
    <2>2. CASE collect(times)
        <3>1. nextTimes' = times
            BY <2>2 DEF collect
        <3>2. CASE isExprsMatches(exprs, time)
            <4> DEFINE y == toISO(TimeAt(b, offset))
            <4>1. nextTimes' = Append(nextTimes, y)
                BY <1>4, <3>1, <3>2
            <4>2. parseISODate(y)[1] = b
                <5>1. FixedOffsetZone(0).type # "invalid"
                    BY DEF FixedOffsetZone
                <5> QED  BY <1>2, <1>4, <5>1, IsoAt
            <4> HIDE DEF y
            <4>3. Returned' = Returned \cup {parseISODate(y)[1]}
                BY <1>2, <4>1, ReturnedAppended
            <4> QED  BY <4>2, <4>3
        <3>3. CASE ~isExprsMatches(exprs, time)
            <4>1. nextTimes' = nextTimes
                BY <3>1, <3>3
            <4>2. ~Candidate(b)
                BY <1>4, <3>3 DEF Candidate
            <4> QED  BY <4>1, <4>2 DEF Returned
        <3> QED  BY <3>2, <3>3
    <2> QED  BY <1>1, <2>1, <2>2 DEF yieldAt
<1>11. NoneMissing'
    BY <1>2, <1>8, <1>9, <1>10 DEF NoneMissing
<1>12. pc' = "shown" => NoneMissingUpTo'
    <2>1. newTime'.c = b
        BY <1>2, <1>4, <1>5, FixedTime
    <2>2. \A l \in 1..6 : b[Units[l]] = loop'[l]
        <3>1. \A l \in 1..6 : l = 6 \/ l \in 1..5
            OBVIOUS
        <3> QED  BY <1>4, <1>6, <3>1
    <2>3. ASSUME NEW c, IsObject(c), objToLocalTS(c) <= objToLocalTS(b) PROVE Passed(c)'
        <3>1. CASE c = b
            <4>1. 6 \in 1..6 /\ ~(6 < 6) /\ \A i \in 1..(6 - 1) : i \in 1..6
                OBVIOUS
            <4>2. c[Units[6]] <= loop'[6] /\ \A i \in 1..(6 - 1) : c[Units[i]] = loop'[i]
                BY <1>4, <1>6, <2>2, <3>1, <4>1
            <4> QED  BY <1>1, <4>1, <4>2 DEF Passed
        <3>2. CASE c # b
            <4>1. PICK l \in 1..6 : Outside(c, b, l) /\ c[Units[l]] < b[Units[l]]
                BY <1>4, <2>3, <3>2, BeforeLast
            <4>2. \A i \in 1..(l - 1) : c[Units[i]] = loop'[i]
                <5>1. \A i \in 1..(l - 1) : i \in 1..6 /\ c[Units[i]] = b[Units[i]]
                    BY <4>1 DEF Outside
                <5> QED  BY <2>2, <5>1
            <4>3. c[Units[l]] < loop'[l] /\ c[Units[l]] <= loop'[l]
                <5>1. c[Units[l]] \in Int /\ b[Units[l]] \in Int
                    BY <1>4, <2>3, ObjectInts
                <5> QED  BY <2>2, <4>1, <5>1
            <4> QED  BY <1>1, <4>2, <4>3 DEF Passed
        <3> QED  BY <3>1, <3>2
    <2>4. \A c : Candidate(c)' => IsObject(c)
        BY <1>9 DEF Candidate
    <2> QED  BY <1>11, <2>1, <2>3, <2>4 DEF NoneMissing, NoneMissingUpTo
<1> QED  BY <1>7, <1>11, <1>12 DEF CompleteInv, Over

\* The year that the clock shows.
LEMMA YearShown ==
    ASSUME ClockYears, tick \in 0..MaxTicks, offset \in Offsets
    PROVE  tsToObj(now, offset).year \in 0..2099
<1>1. PICK t \in 0..MaxTicks : t = tick
    OBVIOUS
<1>2. tsToObj(Begin + Stride * t, offset).year \in 0..2099
    BY DEF ClockYears
<1>3. now = Begin + Stride * t
    BY <1>1 DEF now
<1> QED  BY <1>2, <1>3

\* A year of the loops is a number.
LEMMA YearIsInt ==
    ASSUME NEW x, x \in 0..2099
    PROVE  x \in Int /\ x >= 0 /\ x <= 2099
OBVIOUS

\* The series starts with nothing passed, or does not start.
LEMMA FormatterComplete ==
    ASSUME ClockYears, TypeOK, NEW text \in Texts, formatter(text)
    PROVE  CompleteInv'
<1>1. UNCHANGED <<tick, offset>> /\ startTime' = start /\ newTime' = start
    BY DEF formatter, formatterAt
<1>2. CASE valid(text) /\ start.isValid
    <2>1. /\ exprs' = Parsed(text) /\ merged' = mergeExprs(exprs', start.c.year)
          /\ loop' = Fresh /\ level' = 1 /\ pc' = "series"
        BY <1>2 DEF formatter, formatterAt, begin, Parsed
    <2>2. offset \in Int
        BY <1>2, StartAt
    <2>3. PICK c : IsObject(c) /\ start = TimeAt(c, offset) /\ objToLocalTS(c) - 60 * offset = now
        BY <1>2, StartAt
    <2>4. start.c = c
        BY <2>2, <2>3, FixedTime
    <2>5. c.year \in 0..2099
        <3>1. tsToObj(now, offset) = c
            BY <2>2, <2>3, TSOfObject
        <3>2. tick \in 0..MaxTicks /\ offset \in Offsets
            BY DEF TypeOK
        <3>3. tsToObj(now, offset).year \in 0..2099
            BY <3>2, YearShown
        <3> QED  BY <3>1, <3>3
    <2>6. PICK year : year = c.year /\ year \in Int /\ year >= 0
        <3>1. PICK n : n = c.year
            OBVIOUS
        <3>2. n \in 0..2099
            BY <2>5, <3>1
        <3>3. n \in Int /\ n >= 0
            BY <3>2, YearIsInt
        <3> QED  BY <3>1, <3>3
    <2>7. Started'
        <3>1. YearsKnown'
            BY <1>1, <2>4, <2>5 DEF YearsKnown
        <3>2. FieldsKnown'
            BY <1>1, <1>2, <2>1 DEF FieldsKnown
        <3>3. \E s : IsObject(s) /\ start = TimeAt(s, offset')
            BY <1>1, <2>3
        <3> QED  BY <1>1, <3>1, <3>2, <3>3 DEF Started
    <2>8. ASSUME NEW a, Candidate(a)' PROVE ~Passed(a)'
        <3>1. a[Units[1]] \in merged'[Units[1]]
            BY <2>8 DEF Candidate
        <3>2. merged' = mergeExprs(Parsed(text), year)
            BY <2>1, <2>4, <2>6
        <3>3. mergeExprs(Parsed(text), year)["year"] \subseteq Nat
            BY <1>2, <2>6, YearsMerged
        <3>4. a[Units[1]] \in Nat
            BY <3>1, <3>2, <3>3, UnitNames
        <3>5. loop'[1] = -1
            BY <2>1 DEF Fresh
        <3>6. \A l \in 1..level' : l = 1
            BY <2>1
        <3> QED  BY <3>4, <3>5, <3>6 DEF Passed
    <2>9. NoneMissing'
        BY <2>8 DEF NoneMissing
    <2> QED  BY <2>1, <2>7, <2>9 DEF CompleteInv, Over
<1>3. CASE ~(valid(text) /\ start.isValid)
    <2>1. pc' = "shown" /\ cell' = IF valid(text) THEN "never" ELSE "invalid"
        BY <1>3 DEF formatter, formatterAt, begin, blank
    <2>2. ~Over'
        BY <1>1, <1>3, <2>1 DEF Over
    <2> QED  BY <2>1, <2>2 DEF CompleteInv
<1> QED  BY <1>2, <1>3

\* A time that is meant is a calendar object.
LEMMA MeantObject ==
    ASSUME Started, NEW day \in Int, NEW c \in FiresOn(day)
    PROVE  IsObject(c) /\ \E e \in exprs : Fires(e, c)
<1>1. PICK text \in Texts : valid(text) /\ exprs = Parsed(text) /\ merged = mergeExprs(exprs, startTime.c.year)
    BY DEF Started, FieldsKnown
<1>2. PICK year : year = startTime.c.year
    OBVIOUS
<1>3. year \in Int
    <2>1. YearsKnown
        BY DEF Started
    <2>2. year \in 0..2099
        BY <1>2, <2>1 DEF YearsKnown
    <2> QED  BY <2>2
<1>4. PICK y, m, d : IsDate(y, m, d) /\ UTCDate(day) = [year |-> y, month |-> m, day |-> d]
    BY DateOfDay
<1>5. PICK h \in merged.hour, mi \in merged.minute, s \in merged.second :
          c = Extends(UTCDate(day), [hour |-> h, minute |-> mi, second |-> s])
    BY DEF FiresOn
<1>6. /\ mergeExprs(Parsed(text), year)["hour"] \subseteq 0..23
      /\ mergeExprs(Parsed(text), year)["minute"] \subseteq 0..59
      /\ mergeExprs(Parsed(text), year)["second"] \subseteq 0..59
    <2>1. "hour" \in DOMAIN Bound /\ "minute" \in DOMAIN Bound /\ "second" \in DOMAIN Bound
        BY DEF Bound
    <2>2. Bound["hour"] = 0..23 /\ Bound["minute"] = 0..59 /\ Bound["second"] = 0..59
        BY DEF Bound
    <2>3. \A u \in DOMAIN Bound : mergeExprs(Parsed(text), year)[u] \subseteq Bound[u]
        BY <1>1, <1>3, MergedBounds
    <2> QED  BY <2>1, <2>2, <2>3
<1>7. merged = mergeExprs(Parsed(text), year)
    BY <1>1, <1>2
<1>8. IsTime(h, mi, s)
    BY <1>6, <1>7 DEF IsTime
<1>9. c = Object(y, m, d, h, mi, s)
    BY <1>4, <1>5, ExtendsDate
<1>10. \E e \in exprs : Fires(e, c)
    BY DEF FiresOn
<1> QED  BY <1>4, <1>8, <1>9, <1>10 DEF IsObject

\* A time that is meant, from the start on and not after the time that the loops have
\* come to, is one that they have to come to.
LEMMA MeantCandidate ==
    ASSUME NoDayZero, DaysSought, YearsReached, offset \in Int, Started,
           NEW c, IsObject(c), NEW e \in exprs, Fires(e, c),
           objToLocalTS(startTime.c) <= objToLocalTS(c), objToLocalTS(c) <= objToLocalTS(newTime.c)
    PROVE  Candidate(c)
<1>1. PICK text \in Texts : valid(text) /\ exprs = Parsed(text) /\ merged = mergeExprs(exprs, startTime.c.year)
    BY DEF Started, FieldsKnown
<1>2. PICK s : IsObject(s) /\ startTime = TimeAt(s, offset)
    BY DEF Started
<1>3. PICK n : IsObject(n) /\ newTime = TimeAt(n, offset)
    BY DEF Started
<1>4. startTime.c = s /\ newTime.c = n
    BY <1>2, <1>3, FixedTime
<1>5. s.year <= c.year /\ c.year <= n.year
    <2>1. \A i \in 1..(1 - 1) : FALSE
        OBVIOUS
    <2>2. Outside(s, c, 1) /\ Outside(c, n, 1) /\ 1 \in 1..6
        BY <2>1 DEF Outside
    <2>3. s[Units[1]] <= c[Units[1]]
        BY <1>2, <1>4, <2>2, NotLater
    <2>4. c[Units[1]] <= n[Units[1]]
        BY <1>3, <1>4, <2>2, NotLater
    <2> QED  BY <2>3, <2>4, UnitNames
<1>6. c.year \in Int /\ n.year \in Int /\ s.year \in Int
    <2>1. c[Units[1]] \in Int /\ n[Units[1]] \in Int /\ s[Units[1]] \in Int
        BY <1>2, <1>3, ObjectInts
    <2> QED  BY <2>1, UnitNames
<1>7. /\ s.year \in 0..2099
      /\ n.year = s.year \/ n.year \in merged["year"]
    <2>1. YearsKnown
        BY DEF Started
    <2> QED  BY <1>4, <2>1 DEF YearsKnown
<1>8. PICK year : year = s.year /\ year \in Int /\ year >= 0 /\ year <= 2099
    <2>1. PICK x : x = s.year
        OBVIOUS
    <2>2. x \in 0..2099
        BY <1>7, <2>1
    <2>3. x \in Int /\ x >= 0 /\ x <= 2099
        BY <2>2, YearIsInt
    <2> QED  BY <2>1, <2>3
<1>9. merged = mergeExprs(Parsed(text), year)
    BY <1>1, <1>4, <1>8
<1>10. e \in Parsed(text)
    BY <1>1
<1>11. e.year.all => year <= c.year /\ c.year <= 2099
    <2> SUFFICES ASSUME e.year.all PROVE year <= c.year /\ c.year <= 2099
        OBVIOUS
    <2>1. \A v \in mergeExprs(Parsed(text), year)["year"] : v <= 2099
        BY <1>1, <1>8, <1>10, YearsMerged
    <2>2. n.year <= 2099
        BY <1>7, <1>8, <1>9, <2>1
    <2> QED  BY <1>5, <1>6, <1>8, <2>2
<1>12. \A l \in 1..6 : c[Units[l]] \in mergeExprs(Parsed(text), year)[Units[l]]
    BY <1>1, <1>8, <1>10, <1>11, FiresMerged
<1>13. Meaningful(e) /\ Sought(e) /\ \A field \in Fields : Simple(field, e[field]) /\ Told(field, e[field])
    <2>1. Meaningful(e)
        BY <1>1, <1>10, ParsedMeaningful
    <2>2. Sought(e)
        BY <1>1, <1>10 DEF DaysSought
    <2>3. \A field \in Fields : Simple(field, e[field])
        BY <1>1, <1>10, ParsedFields
    <2>4. \A field \in Fields : Told(field, e[field])
        BY <1>1, <1>10, ParsedTold
    <2> QED  BY <2>1, <2>2, <2>3, <2>4
<1>14. isExprMatches(e, TimeAt(c, offset))
    BY <1>13, FiresMatch
<1>15. isExprsMatches(exprs, TimeAt(c, offset))
    BY <1>14 DEF isExprsMatches
<1> QED  BY <1>9, <1>12, <1>15 DEF Candidate

\* So none that is meant is missing when the cell is shown.
LEMMA InvComplete ==
    ASSUME NoDayZero, DaysSought, YearsReached, TypeOK, CompleteInv
    PROVE  MatchesComplete
<1> SUFFICES ASSUME Over,
                    NEW day \in DateUTC(startTime.c.year, startTime.c.month, startTime.c.day)
                                ..DateUTC(newTime.c.year, newTime.c.month, newTime.c.day),
                    NEW c \in FiresOn(day),
                    objToLocalTS(c) \in objToLocalTS(startTime.c)..objToLocalTS(newTime.c)
             PROVE  c \in Returned
    BY DEF MatchesComplete, Over
<1>1. Started /\ NoneMissingUpTo /\ offset \in Int
    BY ClockAssumption DEF CompleteInv, TypeOK
<1>2. day \in Int
    OBVIOUS
<1>3. IsObject(c) /\ \E e \in exprs : Fires(e, c)
    BY <1>1, <1>2, MeantObject
<1>4. objToLocalTS(startTime.c) <= objToLocalTS(c) /\ objToLocalTS(c) <= objToLocalTS(newTime.c)
    <2>1. PICK s : IsObject(s) /\ startTime = TimeAt(s, offset)
        BY <1>1 DEF Started
    <2>2. PICK n : IsObject(n) /\ newTime = TimeAt(n, offset)
        BY <1>1 DEF Started
    <2>3. startTime.c = s /\ newTime.c = n
        BY <1>1, <2>1, <2>2, FixedTime
    <2>4. objToLocalTS(s) \in Int /\ objToLocalTS(n) \in Int
        BY <1>1, <2>1, <2>2, TSOfObject
    <2> QED  BY <2>3, <2>4
<1>5. Candidate(c)
    BY <1>1, <1>3, <1>4, MeantCandidate
<1> QED  BY <1>1, <1>4, <1>5 DEF NoneMissingUpTo

\* When the cell is shown, no time that the cron means lies between now and the time
\* the loops have come to and is missing: for every text that the parser accepts,
\* every offset, every clock, and every bound on the matches and the loops.  The
\* clock shows a year that the loop over the years reaches, 2099 at the latest, a cron
\* for every year is given no year after it, and the texts ask for nothing that the
\* matcher does not look for: the weekday nearest to day 0, the fourth and fifth of
\* a kind, and Sunday as day 7, at the end of a range or with a letter behind it.
THEOREM MatchesCompleteHold ==
    NoDayZero /\ DaysSought /\ YearsReached /\ ClockYears => (Spec => []MatchesComplete)
<1> SUFFICES ASSUME NoDayZero, DaysSought, YearsReached, ClockYears
             PROVE  Spec => []MatchesComplete
    OBVIOUS
<1>1. Init => CompleteInv
    BY DEF Init, CompleteInv, Over
<1>2. TypeOK /\ SoundInv /\ CompleteInv /\ [Next]_vars => CompleteInv'
    <2> SUFFICES ASSUME TypeOK, SoundInv, CompleteInv, [Next]_vars PROVE CompleteInv'
        OBVIOUS
    <2>1. CASE advance \/ done
        <3>1. pc' = "idle"
            BY <2>1 DEF advance, done
        <3> QED  BY <3>1 DEF CompleteInv, Over
    <2>2. CASE turn
        BY <2>2, TurnComplete
    <2>3. CASE leave
        BY <2>3, LeaveComplete
    <2>4. CASE yield
        BY <2>4, YieldComplete
    <2>5. ASSUME NEW text \in Texts, formatter(text) PROVE CompleteInv'
        BY <2>5, FormatterComplete
    <2>6. CASE UNCHANGED vars
        <3>1. UNCHANGED <<tick, offset, pc, startTime, exprs, merged, loop, level, newTime, loopCount,
                          nextTimes, cell>>
            BY <2>6 DEF vars, consts, series
        <3>2. Started => Started'
            <4>1. FieldsKnown => FieldsKnown'
                BY <3>1 DEF FieldsKnown
            <4>2. YearsKnown => YearsKnown'
                BY <3>1 DEF YearsKnown
            <4> QED  BY <3>1, <4>1, <4>2 DEF Started
        <3>3. \A c : (Candidate(c)' <=> Candidate(c)) /\ (Passed(c)' <=> Passed(c))
            BY <3>1, CandidateKept DEF Passed
        <3>4. Returned' = Returned
            BY <3>1 DEF Returned
        <3> QED  BY <3>1, <3>2, <3>3, <3>4 DEF CompleteInv, NoneMissing, NoneMissingUpTo, Over
    <2> QED  BY <2>1, <2>2, <2>3, <2>4, <2>5, <2>6 DEF Next
<1>3. TypeOK /\ CompleteInv => MatchesComplete
    BY InvComplete
<1> QED  BY <1>1, <1>2, <1>3, PreviewTyped, SeriesSound, PTL DEF Spec
=============================================================================
