----------------------------- MODULE MCPreview -----------------------------
(* Crons whose days are hard to find, at loads around the ends of months,  *)
(* of a leap year and of its February.                                     *)
EXTENDS Spans

At(n) == Parts({Value(Num(n))})
Days(ps) == Parts(ps)

\* A cron that fires at noon on some days.
Noon(dom, month, dow) == {Expr(<<At(0), At(0), At(12), dom, month, dow>>)}

MCTexts == {
    Noon(At(31), Star, Q),                                     \* months that have a 31st
    Noon(At(29), At(2), Q),                                    \* leap days
    Noon(Parts({Last}), Star, Q),                              \* last day
    Noon(Parts({LastWeekday}), Star, Q),                       \* last weekday
    Noon(Parts({Nearest(Num(1))}), Star, Q),                   \* weekday nearest to the first
    Noon(Parts({Nearest(Num(31))}), Star, Q),                  \* and to the end
    Noon(Parts({Nearest(Num(15)), Value(Num(30))}), Star, Q),
    Noon(Q, Star, Parts({Value(Name("mon"))})),
    Noon(Q, Star, Parts({Between(Name("fri"), Name("sat"))})),
    Noon(Q, Star, Parts({LastOf(Num(5))})),                    \* last Friday
    Noon(Q, Star, Parts({Nth(Num(1), Num(3))})),               \* third Monday
    Noon(Q, Star, Parts({Last, Value(Num(7))})),               \* Saturdays and Sundays
    Noon(At(13), Star, At(5)),                                 \* the 13th or a Friday
    Noon(Parts({LastOf(Num(5))}), Star, Q),                    \* reads as day 5
    Noon(Q, Star, Parts({Nearest(Num(3))})),                   \* reads as Wednesday
    {Expr(<<At(30), Parts({Every(Num(50), Open, Num(5))}),
            Parts({Between(Num(22), Num(23))}), Star, Star>>)}, \* five fields
    {Expr(<<At(0), At(0), At(0), At(1), Parts({Value(Name("jan"))}), Q, At(2025)>>)},
    {Expr(<<At(0), At(0), At(0), At(1), At(1), Q, At(2023)>>)},  \* a year gone by
    {Predefined("@monthly")}, {Predefined("@weekly")},
    Noon(At(1), At(3), Q) \cup Noon(At(29), At(2), Q),
    Noon(At(32), Star, Q), Noon(At(1), Parts({Last}), Q),      \* rejected
    {Expr(<<At(0), At(0), At(12), Q>>)},
    Noon(Q, Star, Parts({Nearest(Name("mon"))})),              \* "monW" is no name
    Noon(Q, Star, Parts({Between(Num(5), Num(3))})) }

\* Nth days that parseNth accepts.
NthTexts == {Noon(Q, Star, Parts({Nth(Num(d), Num(n))})) : d \in {3, 5}, n \in 1..5}

MCBegin == objToLocalTS([year |-> 2023, month |-> 10, day |-> 28,
                         hour |-> 22, minute |-> 30, second |-> 0])
Clock(t) == MCBegin + Stride * t

\* Zones with summer time, whose changes the clock passes at half an hour: it
\* meets both readings of the repeated hour, and the hole.
MCZones == {IANAZone(60, 120, Clock(40) + shift, Clock(400) + shift) : shift \in {-1800, 1800}}
           \cup {IANAZone(-210, -150, Clock(41) + 1800, Clock(401) + 1800)}

\* An hour, days around a month, and years with and without a leap day.
MCGaps == {0, 3600, 86400 * 28, 86400 * 30, 86400 * 31, 86400 * 365, 86400 * 366, 86400 * 500}

MCOffsets == {0, 480, -300}
MCLoads == {1, 28, 62, 92, 121, 122}
=============================================================================
