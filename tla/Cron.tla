-------------------------------- MODULE Cron --------------------------------
(***************************************************************************)
(* Cron expressions as the user interface reads them: cronjs-parser and    *)
(* the matching half of cronjs-matcher (src/ui/js/bundle.js).              *)
(*                                                                         *)
(* A text is a set of expressions (separated by "|"), an expression a      *)
(* predefined name or a sequence of fields, a field "*", "?" or a set of   *)
(* parts (separated by ","), a part its form with the tokens in it.  A     *)
(* token is a number, [num |-> n], or a name, [name |-> s].  Arrays whose  *)
(* order the code does not use are sets; steps that are 0, and last days   *)
(* that are no days of the week, are outside the model: the loops of       *)
(* getValues and getLastDay do not end on them (Ends).                     *)
(***************************************************************************)
EXTENDS Calendar, FiniteSets, TLC

-----------------------------------------------------------------------------
(* The parser.                                                             *)

FIELDS == <<"second", "minute", "hour", "day_of_month", "month", "day_of_week", "year">>

ParserInfo == [second       |-> [min |-> 0, max |-> 59],
               minute       |-> [min |-> 0, max |-> 59],
               hour         |-> [min |-> 0, max |-> 23],
               day_of_month |-> [min |-> 1, max |-> 31],
               month        |-> [min |-> 1, max |-> 12],
               day_of_week  |-> [min |-> 0, max |-> 7],
               year         |-> [min |-> 1970, max |-> 3000]]

monthAlias == [jan |-> 1, feb |-> 2, mar |-> 3, apr |-> 4, may |-> 5, jun |-> 6,
               jul |-> 7, aug |-> 8, sep |-> 9, oct |-> 10, nov |-> 11, dec |-> 12]
weekAlias  == [sun |-> 0, mon |-> 1, tue |-> 2, wed |-> 3, thu |-> 4, fri |-> 5, sat |-> 6]

Num(n) == [num |-> n]
Name(s) == [name |-> s]

\* Names of months and days, and 7, which is Sunday too.
unalias(field, token) ==
    LET alias == CASE field = "month" -> monthAlias
                   [] field = "day_of_week" -> weekAlias
                   [] OTHER -> [none |-> 0]
    IN  IF "name" \in DOMAIN token
          THEN IF token.name \in DOMAIN alias THEN Num(alias[token.name]) ELSE token
          ELSE IF field = "day_of_week" /\ token.num = 7 THEN Num(0) ELSE token

\* parseNumber throws on what is not a number.
isNumber(field, token) == "num" \in DOMAIN unalias(field, token)
parseNumber(field, token) == unalias(field, token).num

InField(field, n) == ParserInfo[field].min <= n /\ n <= ParserInfo[field].max

\* Parts.
Value(t) == [form |-> "value", n |-> t]
Between(a, b) == [form |-> "range", from |-> a, to |-> b]
Every(a, b, s) == [form |-> "step", from |-> a, to |-> b, step |-> s]
Nth(d, i) == [form |-> "nth", day |-> d, instance |-> i]
Nearest(t) == [form |-> "W", n |-> t]
LastOf(t) == [form |-> "xL", n |-> t]
Last == [form |-> "L"]
LastWeekday == [form |-> "LW"]

\* "*" as the start of a step, and a step without an end.
Open == Name("*")
Star == [form |-> "*"]
Q == [form |-> "?"]
Parts(ps) == [form |-> "parts", parts |-> ps]

\* A letter behind a value hides it from unalias: "7W" in the day of week stays 7.
aliasesOf(field, p) == IF p.form = "value" THEN field ELSE "none"
parseValue(field, p) == parseNumber(aliasesOf(field, p), p.n)
validValue(field, p) == /\ isNumber(aliasesOf(field, p), p.n)
                        /\ InField(field, parseValue(field, p))

\* "For day of week, sun will act as 0 or 7 depending on if it is in from or to".
parseRange(field, p) ==
    LET to == parseNumber(field, p.to)
    IN  [from |-> parseNumber(field, p.from),
         to   |-> IF field = "day_of_week" /\ to = 0 THEN 7 ELSE to]

validRange(field, p) ==
    /\ isNumber(field, p.from) /\ isNumber(field, p.to)
    /\ LET r == parseRange(field, p)
       IN  r.from < r.to /\ InField(field, r.from) /\ InField(field, r.to)

\* The ends are unaliased as well: a step over the days of the week without an
\* end goes to 7, that is to 0.
parseStepRange(field, p) ==
    LET info == ParserInfo[field]
    IN  [from |-> parseNumber(field, IF p.from = Open THEN Num(info.min) ELSE p.from),
         to   |-> parseNumber(field, IF p.to = Open THEN Num(info.max) ELSE p.to),
         step |-> parseNumber(field, p.step)]

validStep(field, p) ==
    /\ \A t \in {p.from, p.to, p.step} \ {Open} : isNumber(field, t)
    /\ LET s == parseStepRange(field, p)
       IN  /\ s.from >= ParserInfo[field].min
           /\ s.to <= ParserInfo[field].max
           /\ s.step <= ParserInfo[field].max

parseNth(p) == [day_of_week |-> parseNumber("day_of_week", p.day), instance |-> p.instance.num]

validNth(field, p) ==
    /\ field = "day_of_week"
    /\ isNumber(field, p.day) /\ isNumber("none", p.instance)
    /\ p.instance.num \in 1..5

\* "W" counts in the day of month only, a trailing "L" in the day of week only:
\* elsewhere the part is a value, and parseInt drops the letter.
FormIn(field, p) ==
    IF \/ p.form = "W" /\ field # "day_of_month"
       \/ p.form = "xL" /\ field # "day_of_week"
      THEN "value" ELSE p.form

\* The part does not make parseField throw.
validPart(field, p) ==
    LET form == FormIn(field, p)
    IN  CASE form = "value" -> validValue(field, p)
          [] form = "range" -> validRange(field, p)
          [] form = "step"  -> validStep(field, p)
          [] form = "nth"   -> validNth(field, p)
          [] form = "L"     -> field \in {"day_of_week", "day_of_month"}
          [] form = "LW"    -> field = "day_of_month"
          [] form \in {"W", "xL"} -> isNumber(field, p.n)

validField(field, text) ==
    CASE text.form = "*" -> TRUE
      [] text.form = "?" -> field \in {"day_of_week", "day_of_month"}
      [] text.form = "parts" -> \A p \in text.parts : validPart(field, p)

Unparsed == [all |-> FALSE, omit |-> FALSE, lastDay |-> FALSE, lastWeekday |-> FALSE,
             values |-> {}, ranges |-> {}, steps |-> {}, nthDays |-> {},
             nearestWeekdays |-> {}, lastDays |-> {}]

parseField(field, text) ==
    CASE text.form = "*" -> [Unparsed EXCEPT !.all = TRUE]
      [] text.form = "?" -> [Unparsed EXCEPT !.omit = TRUE]
      [] text.form = "parts" ->
           LET of(form) == {p \in text.parts : FormIn(field, p) = form}
           IN  [Unparsed EXCEPT
                  !.lastDay         = of("L") # {},
                  !.lastWeekday     = of("LW") # {},
                  !.values          = {parseValue(field, p) : p \in of("value")},
                  !.ranges          = {parseRange(field, p) : p \in of("range")},
                  !.steps           = {parseStepRange(field, p) : p \in of("step")},
                  !.nthDays         = {parseNth(p) : p \in of("nth")},
                  !.nearestWeekdays = {parseNumber(field, p.n) : p \in of("W")},
                  !.lastDays        = {parseNumber(field, p.n) : p \in of("xL")}]

\* The predefined expressions have no seconds.
PREDEFINED_EXPRS ==
    LET at(n) == Parts({Value(Num(n))})
    IN  ("@yearly"  :> <<at(0), at(0), at(1), at(1), Q>>) @@
        ("@monthly" :> <<at(0), at(0), at(1), Star, Q>>) @@
        ("@weekly"  :> <<at(0), at(0), Q, Star, at(0)>>) @@
        ("@daily"   :> <<at(0), at(0), Star, Star, Q>>) @@
        ("@hourly"  :> <<at(0), Star, Star, Star, Q>>)

\* The well-formed texts.
Token == [num : Nat] \cup [name : STRING]
Part == [form : {"value", "W", "xL"}, n : Token]
        \cup [form : {"range"}, from : Token, to : Token]
        \cup [form : {"step"}, from : Token, to : Token, step : Token]
        \cup [form : {"nth"}, day : Token, instance : Token]
        \cup [form : {"L", "LW"}]
FieldText == [form : {"*", "?"}] \cup [form : {"parts"}, parts : SUBSET Part]
ExprText == [name : STRING, fields : Seq(FieldText)]

Expr(fields) == [name |-> "", fields |-> fields]
Predefined(name) == [name |-> name, fields |-> PREDEFINED_EXPRS[name]]

hasSeconds(e) == e.name = ""

\* Seconds in front, "?" for a missing day of week, "*" for a missing year.
fieldParts(e) ==
    LET s == IF hasSeconds(e) THEN e.fields ELSE <<Parts({Value(Num(0))})>> \o e.fields
        w == IF Len(s) = 5 THEN Append(s, Q) ELSE s
    IN  IF Len(w) = 6 THEN Append(w, Star) ELSE w

\* With the interface's option hasSeconds.
validExpr(e) ==
    /\ Len(e.fields) \in IF hasSeconds(e) THEN 5..7 ELSE 4..6
    /\ \A i \in DOMAIN FIELDS : validField(FIELDS[i], fieldParts(e)[i])

Index(field) == CHOOSE i \in DOMAIN FIELDS : FIELDS[i] = field

parseExpr(e) ==
    [field \in {FIELDS[i] : i \in DOMAIN FIELDS} |->
        IF field = "second" /\ ~hasSeconds(e) THEN [Unparsed EXCEPT !.omit = TRUE]
        ELSE parseField(field, fieldParts(e)[Index(field)])]

\* parse throws unless every expression of the text is valid.
valid(text) == text # {} /\ \A e \in text : validExpr(e)
parse(text) == {parseExpr(e) : e \in text}

-----------------------------------------------------------------------------
(* The times an expression can match.                                      *)

MatcherInfo == [ParserInfo EXCEPT !.day_of_week.max = 6, !.year.max = 2099]

getValues(from, to, step) == {i \in from..to : (i - from) % step = 0}

\* Every loop over the parsed expressions ends.
Ends(exprs) ==
    \A e \in exprs : \A field \in DOMAIN e :
        /\ \A s \in e[field].steps : s.step > 0
        /\ e[field].lastDays \subseteq 0..6

simplifyField(f) ==
    [f EXCEPT !.values = @ \cup UNION {getValues(s.from, s.to, s.step) : s \in f.steps},
              !.steps = {}]

simplifyExprs(exprs) == {[field \in DOMAIN e |-> simplifyField(e[field])] : e \in exprs}

\* A day of the week stands for every day of the month.
expandField(e, field, startYear) ==
    LET f    == e[field]
        info == MatcherInfo[field]
        all  == \/ f.all \/ f.lastDay \/ f.lastWeekday \/ f.lastDays # {}
                \/ f.nearestWeekdays # {} \/ f.nthDays # {}
    IN  IF f.omit THEN (IF field = "second" THEN {0} ELSE {})
        ELSE IF field = "day_of_week" THEN 1..31
        ELSE IF all
          THEN f.values \cup (IF field = "year" THEN startYear ELSE info.min)..info.max
        ELSE f.values \cup UNION {r.from..r.to : r \in f.ranges}

expandFields(exprs, field, startYear) == UNION {expandField(e, field, startYear) : e \in exprs}

Units == <<"year", "month", "day", "hour", "minute", "second">>

\* The values the series loops over, for every unit.
mergeExprs(exprs, startYear) ==
    LET of(field) == expandFields(exprs, field, startYear)
    IN  [unit \in {Units[i] : i \in DOMAIN Units} |->
            IF unit = "day" THEN of("day_of_month") \cup of("day_of_week") ELSE of(unit)]

-----------------------------------------------------------------------------
(* Does an expression match a time?                                        *)

getWeekDay(time) == weekday(time) % 7

isWeekday(time) == getWeekDay(time) \in 1..5

lastDayOfMonth(time) == endOf(time, "months").c.day

\* The last day of a kind: back from the end of the month, a day at a time.
lastOfKind(end, day) ==
    (CHOOSE t \in {plus(end, [days |-> -k]) : k \in 0..6} : getWeekDay(t) = day).c.day

getLastDay(time, day) == lastOfKind(endOf(time, "months"), day)

\* The end of the month, or the Friday before it.
weekdayUpTo(end) == IF isWeekday(end) THEN end.c.day ELSE lastOfKind(end, 5)

\* Mutated: the last day of the month, whatever it is.
getLastWeekDay_AnyDay(time) == lastDayOfMonth(time)

getLastWeekDay(time) == weekdayUpTo(endOf(time, "months"))

\* The loop ends before day 31.
getDaysOfType(time, day) ==
    {i \in 1..30 : LET t == set(time, [day |-> i])
                   IN  t.c.month = time.c.month /\ getWeekDay(t) = day}

setDayWithinMonth(time, day) ==
    LET last == daysInMonth(time.c.year, time.c.month)
    IN  set(time, [day |-> IF last < day THEN last ELSE day])

\* A Saturday moves to the Friday, or to Monday the third; a Sunday to the
\* Monday, or two days back from the end of the month.
isMovedTo(kind, d, last, day) ==
    \/ day = d
    \/ kind = 6 /\ day = IF d = 1 THEN 3 ELSE d - 1
    \/ kind = 0 /\ day = IF d = last THEN last - 2 ELSE d + 1

isNearestWeekDay(time, day) ==
    LET dayTime == setDayWithinMonth(time, day)
    IN  /\ isWeekday(time)
        /\ isMovedTo(getWeekDay(dayTime), dayTime.c.day, daysInMonth(time.c.year, time.c.month),
                     time.c.day)

isInRange(from, to, v) == from <= v /\ v <= to

\* An omitted second is second 0.
isFieldMatches(f, field, v) ==
    \/ f.all
    \/ /\ f.omit
       /\ field = "second" /\ v = 0
    \/ /\ ~f.omit
       /\ \/ v \in f.values
          \/ \E r \in f.ranges : isInRange(r.from, r.to, v)

isDayOfMonthMatches(f, time) ==
    /\ ~f.omit
    /\ \/ f.lastWeekday /\ time.c.day = getLastWeekDay(time)
       \/ f.lastDay /\ time.c.day = lastDayOfMonth(time)
       \/ \E day \in f.nearestWeekdays : isNearestWeekDay(time, day)
       \/ isFieldMatches(f, "day_of_month", time.c.day)

\* The nth day of a kind is looked for where there are more than n of them.
isNthOf(days, n, day) ==
    /\ Cardinality(days) > n
    /\ day \in days
    /\ Cardinality({d \in days : d <= day}) = n

isNthDay(time, nth) == isNthOf(getDaysOfType(time, nth.day_of_week), nth.instance, time.c.day)

isDayOfWeekMatches(f, time) ==
    /\ ~f.omit
    /\ \/ f.lastDay /\ getWeekDay(time) = 6
       \/ \E day \in f.lastDays : time.c.day = getLastDay(time, day)
       \/ \E nth \in f.nthDays : isNthDay(time, nth)
       \/ isFieldMatches(f, "day_of_week", getWeekDay(time))

isExprMatches(e, time) ==
    /\ \A unit \in {"second", "minute", "hour", "month", "year"} :
           isFieldMatches(e[unit], unit, time.c[unit])
    /\ isDayOfMonthMatches(e.day_of_month, time) \/ isDayOfWeekMatches(e.day_of_week, time)

isExprsMatches(exprs, time) == \E e \in exprs : isExprMatches(e, time)
=============================================================================
