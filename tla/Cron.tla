-------------------------------- MODULE Cron --------------------------------
(***************************************************************************)
(* cron(spec, fn): cron.go and builtinCron.  Days are real ones, from      *)
(* Sunday, 1 January 2023; a day has Hours hours of Minutes minutes.       *)
(* Whoever runs fn is busy for as long as it takes, and looks for the next *)
(* firing from then on.                                                    *)
(***************************************************************************)
EXTENDS Integers, Sequences, FiniteSets, FiniteSetsExt

CONSTANTS Hours, Minutes,
          Rules,      \* specs: [minute, hour, dom, month, dow], each a sequence of items
          Starts,     \* the times cron may be called at
          Durations,  \* of one run of fn, in minutes
          SearchDays, \* days that Next searches: 4 * 365 in the code
          MaxFirings

\* An item of a field is [low, high, step].
Items == [low : Int, high : Int, step : Int]
ASSUME CronAssumption ==
    /\ {Hours, Minutes} \subseteq Nat \ {0} /\ SearchDays \in Nat
    /\ Starts \subseteq Nat /\ Durations \subseteq Nat
    /\ \A r \in Rules : DOMAIN r = 1 .. 5 /\ \A f \in 1 .. 5 : r[f] \in Seq(Items)

VARIABLES rule, time,
          schedule,  \* what ParseCron made of the rule
          cronStep,  \* "look", "sleep", "run", "over"
          due,       \* the firing the goroutine sleeps for
          firings    \* history: [at, from], from: when the search for it began

cronVars == <<rule, time, schedule, cronStep, due, firings>>

DayLength == Hours * Minutes

-----------------------------------------------------------------------------
(* The calendar: package time, as far as it is used. *)

DaysBefore(year) == 365 * (year - 2023) + (year - 2021) \div 4
IsLeap(year) == year % 4 = 0
MonthStarts == <<0, 31, 59, 90, 120, 151, 181, 212, 243, 273, 304, 334>>
Start(year, month) == MonthStarts[month] + (IF month > 2 /\ IsLeap(year) THEN 1 ELSE 0)

DateOf(day) ==
    LET year == CHOOSE y \in 2023 .. 2040 : DaysBefore(y) <= day /\ day < DaysBefore(y + 1)
        inYear == day - DaysBefore(year)
        month == Max({m \in 1 .. 12 : Start(year, m) <= inYear})
    IN  [month |-> month, dom |-> inYear - Start(year, month) + 1, dow |-> day % 7]

LastDay == DaysBefore(2036)
Calendar == [day \in 0 .. LastDay |-> DateOf(day)]

-----------------------------------------------------------------------------
(* ParseCron, Match, Next *)

\* A range with a step; * is the whole range of the field.
Item(low, high, step) == [low |-> low, high |-> high, step |-> step]
Star == Item(-1, -1, 1)

FieldRange == <<0 .. Minutes - 1, 0 .. Hours - 1, 1 .. 31, 1 .. 12, 0 .. 6>>
Low(field, item)  == IF item.low = -1 THEN Min(FieldRange[field]) ELSE item.low
High(field, item) == IF item.low = -1 THEN Max(FieldRange[field]) ELSE item.high

ValidItem(field, item) ==
    /\ item.step >= 1 /\ Low(field, item) <= High(field, item)
    /\ {Low(field, item), High(field, item)} \subseteq FieldRange[field]

\* parseCronField: the bits of a list of items.
Bits(field, items) ==
    UNION { {v \in Low(field, items[k]) .. High(field, items[k]) : (v - Low(field, items[k])) % items[k].step = 0}
            : k \in DOMAIN items }

NoSchedule == [bits |-> <<>>, domStar |-> FALSE, dowStar |-> FALSE]
ParseCron(spec) ==
    IF \A f \in 1 .. 5 : \A k \in DOMAIN spec[f] : ValidItem(f, spec[f][k])
    THEN [bits |-> [f \in 1 .. 5 |-> Bits(f, spec[f])], domStar |-> spec[3] = <<Star>>, dowStar |-> spec[5] = <<Star>>]
    ELSE NoSchedule

\* Mutant: both must match.
DayMatchesBoth(s, date) ==
    date.month \in s.bits[4] /\ date.dom \in s.bits[3] /\ date.dow \in s.bits[5]

\* Two restricted day fields match if either does.
DayMatches(s, date) ==
    LET dom == date.dom \in s.bits[3]
        dow == date.dow \in s.bits[5]
    IN  /\ date.month \in s.bits[4]
        /\ CASE s.domStar /\ s.dowStar -> TRUE
             [] s.domStar /\ ~s.dowStar -> dow
             [] ~s.domStar /\ s.dowStar -> dom
             [] ~s.domStar /\ ~s.dowStar -> dom \/ dow

MatchesAt(s, t) ==
    /\ t % Minutes \in s.bits[1]
    /\ (t % DayLength) \div Minutes \in s.bits[2]
    /\ DayMatches(s, Calendar[t \div DayLength])

Never == -1
FiresIn(s, first, last) == \E t \in first .. last : MatchesAt(s, t)

\* The search starts at the next full minute.
NextFiring(s, from) ==
    LET last == from + SearchDays * DayLength
    IN  IF FiresIn(s, from + 1, last)
        THEN CHOOSE t \in from + 1 .. last : MatchesAt(s, t) /\ \A u \in from + 1 .. t - 1 : ~MatchesAt(s, u)
        ELSE Never

-----------------------------------------------------------------------------
(* The goroutine of cron *)

CronInit ==
    /\ rule \in Rules /\ time \in Starts
    /\ schedule = ParseCron(rule)
    /\ cronStep = IF schedule = NoSchedule THEN "over" ELSE "look"
    /\ due = Never /\ firings = <<>>

Look ==
    /\ cronStep = "look" /\ Len(firings) < MaxFirings
    /\ due' = NextFiring(schedule, time)
    /\ cronStep' = IF due' = Never THEN "over" ELSE "sleep"
    /\ UNCHANGED <<rule, time, schedule, firings>>

Fire ==
    /\ cronStep = "sleep"
    /\ time' = due
    /\ firings' = Append(firings, [at |-> due, from |-> time])
    /\ cronStep' = "run"
    /\ UNCHANGED <<rule, schedule, due>>

\* An error of fn is logged, and the schedule goes on.
FnEnds(duration) ==
    /\ cronStep = "run"
    /\ time' = time + duration
    /\ cronStep' = "look"
    /\ UNCHANGED <<rule, schedule, due, firings>>

\* The stop function, while the goroutine sleeps or looks.
StopCron ==
    /\ cronStep \in {"look", "sleep"}
    /\ cronStep' = "over"
    /\ UNCHANGED <<rule, time, schedule, due, firings>>

CronNext == Look \/ Fire \/ StopCron \/ \E d \in Durations : FnEnds(d)

CronSpec == CronInit /\ [][CronNext]_cronVars

-----------------------------------------------------------------------------
(* Properties *)

\* When a rule as it is written fires: each field holds a value of one of its items,
\* and a day is named by the day of the month or by that of the week if both are
\* restricted (cron.go: "Day-of-month and day-of-week combine with OR when both are
\* restricted, matching cron's documented behavior").
Named(field, v) ==
    /\ v \in FieldRange[field]
    /\ \E k \in DOMAIN rule[field] :
          LET item == rule[field][k]
          IN  IF item.low = -1 THEN \E n \in 0 .. v : v = Min(FieldRange[field]) + n * item.step
              ELSE \E n \in 0 .. v : v = item.low + n * item.step /\ v <= item.high
Wanted(t) ==
    LET date == Calendar[t \div DayLength]
        free(field) == rule[field] = <<Star>>
    IN  /\ Named(1, t % Minutes) /\ Named(2, (t % DayLength) \div Minutes) /\ Named(4, date.month)
        /\ \/ free(3) /\ free(5)
           \/ ~free(3) /\ Named(3, date.dom)
           \/ ~free(5) /\ Named(5, date.dow)

\* Every firing is a minute that the rule names, later than the one before, and no such
\* minute passes while nothing runs: only those in which fn still runs are lost.
OnTime ==
    \A k \in DOMAIN firings :
       /\ Wanted(firings[k].at)
       /\ \A t \in firings[k].from + 1 .. firings[k].at - 1 : ~Wanted(t)
       /\ k > 1 => firings[k - 1].at < firings[k].at

\* A valid rule that is given up names no minute of the days that were searched.
GivesUp ==
    cronStep = "over" /\ schedule # NoSchedule /\ due = Never /\ firings # <<>> =>
       \A t \in time + 1 .. time + SearchDays * DayLength : ~Wanted(t)

CronOnTime == OnTime /\ GivesUp
=============================================================================
