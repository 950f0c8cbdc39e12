------------------------------ MODULE Calendar ------------------------------
(***************************************************************************)
(* Civil dates and what is resolved against them: the arithmetic of        *)
(* iso-date.ts, the periods of period.ts, the dated references of dated.ts *)
(* and the French working calendar of working-calendar.ts.                 *)
(*                                                                         *)
(* A date is the record partsOf reads from its text.  \div and % are floor *)
(* division and its remainder, as Math.floor(a / b) is; the one % of the   *)
(* source has no negative operand.                                         *)
(***************************************************************************)
EXTENDS Integers, Sequences, FiniteSets, SequencesExt

CONSTANT None     \* null: an open end, an absent value

Date(year, month, day) == [ year |-> year, month |-> month, day |-> day ]

CivilDates == [ year : Nat, month : 1 .. 12, day : 1 .. 31 ]

IsLeapYear(year) == (year % 4 = 0 /\ year % 100 # 0) \/ year % 400 = 0

DaysInMonth(year, month) ==
    IF month = 2 /\ IsLeapYear(year) THEN 29
    ELSE << 31, 28, 31, 30, 31, 30, 31, 31, 30, 31, 30, 31 >>[month]

\* isoDate: the days that exist.
Exists(date) ==
    /\ date.year \in Nat /\ date.year <= 9999
    /\ date.month \in 1 .. 12
    /\ date.day \in 1 .. DaysInMonth(date.year, date.month)

\* The order of the texts: the digits of one read as a number.
Digits(date) == (date.year * 100 + date.month) * 100 + date.day

NotAfter(one, two) == Digits(one) <= Digits(two)

\* A set in the order of a number that no two of its members share.
InOrder(set, Number(_)) ==
    [ n \in 1 .. Cardinality(set) |->
        CHOOSE x \in set : Cardinality({ y \in set : Number(y) < Number(x) }) = n - 1 ]

-----------------------------------------------------------------------------
(* Weekdays (ISO-8601: 1 is Monday, 7 is Sunday) and day numbers.          *)

DayOfWeek(date) ==
    LET y == IF date.month < 3 THEN date.year - 1 ELSE date.year
        sundayFirst == (y + y \div 4 - y \div 100 + y \div 400
                        + << 0, 3, 2, 5, 0, 3, 5, 1, 4, 6, 2, 4 >>[date.month] + date.day) % 7
    IN IF sundayFirst = 0 THEN 7 ELSE sundayFirst

DaysPerEra == 146097

\* Days since 1 January 1970, on years that start in March.
ToDayNumber(date) ==
    LET shiftedYear == IF date.month <= 2 THEN date.year - 1 ELSE date.year
        era         == shiftedYear \div 400
        yearOfEra   == shiftedYear - era * 400
        marchFirst  == date.month + (IF date.month > 2 THEN -3 ELSE 9)
        dayOfYear   == (153 * marchFirst + 2) \div 5 + date.day - 1
    IN era * DaysPerEra
       + yearOfEra * 365 + yearOfEra \div 4 - yearOfEra \div 100 + dayOfYear
       - 719468

FromDayNumber(days) ==
    LET shifted    == days + 719468
        era        == shifted \div DaysPerEra
        dayOfEra   == shifted - era * DaysPerEra
        yearOfEra  == (dayOfEra - dayOfEra \div 1460 + dayOfEra \div 36524
                       - dayOfEra \div (DaysPerEra - 1)) \div 365
        dayOfYear  == dayOfEra - (365 * yearOfEra + yearOfEra \div 4 - yearOfEra \div 100)
        marchFirst == (5 * dayOfYear + 2) \div 153
        month      == marchFirst + (IF marchFirst < 10 THEN 3 ELSE -9)
    IN Date(yearOfEra + era * 400 + (IF month <= 2 THEN 1 ELSE 0),
            month,
            dayOfYear - (153 * marchFirst + 2) \div 5 + 1)

AddDays(date, count) == FromDayNumber(ToDayNumber(date) + count)

EndOfMonth(date) == [ date EXCEPT !.day = DaysInMonth(date.year, date.month) ]

-----------------------------------------------------------------------------
(* Periods: the month a Cra or an invoice covers.                          *)

IsPeriod(period) == period.year \in 2000 .. 2999 /\ period.month \in 1 .. 12

PeriodOf(date) == [ year |-> date.year, month |-> date.month ]

DaysOf(period) ==
    [ n \in 1 .. DaysInMonth(period.year, period.month) |-> Date(period.year, period.month, n) ]

LastDayOf(period) ==
    Date(period.year, period.month, DaysInMonth(period.year, period.month))

-----------------------------------------------------------------------------
(* Dated references.  An entry holds from `from` to `to`, both included,   *)
(* and for ever when `to` is None.                                         *)

\* The sort is stable: of two entries that start together, the first given comes first.
Comes(entries, m, n) ==
    \/ Digits(entries[m].from) < Digits(entries[n].from)
    \/ Digits(entries[m].from) = Digits(entries[n].from) /\ m < n

\* n is the next one after m.
IsNext(entries, m, n) ==
    /\ Comes(entries, m, n)
    /\ \A k \in DOMAIN entries : ~ (Comes(entries, m, k) /\ Comes(entries, k, n))

Holds(entry, date) ==
    NotAfter(entry.from, date) /\ (entry.to # None => NotAfter(date, entry.to))

\* What timeline() lets through: it compares each entry with the next one only.
IsTimeline_LooseEnds(entries) ==
    /\ \A n \in DOMAIN entries :
         entries[n].to # None => NotAfter(entries[n].from, entries[n].to)
    /\ \A m, n \in DOMAIN entries : IsNext(entries, m, n) /\ entries[m].to # None =>
         NotAfter(entries[m].to, entries[n].from)

IsTimeline(entries) ==
    /\ \A n \in DOMAIN entries :
         entries[n].to # None => NotAfter(entries[n].from, entries[n].to)
    /\ \A m, n \in DOMAIN entries : IsNext(entries, m, n) =>
         entries[m].to # None /\ ~ NotAfter(entries[n].from, entries[m].to)

\* at: the first entry in force, or None.
At(entries, date) ==
    LET inForce == { n \in DOMAIN entries : Holds(entries[n], date) }
        first   == CHOOSE n \in inForce : \A k \in inForce : ~ Comes(entries, k, n)
    IN IF inForce = {} THEN None ELSE entries[first].value

-----------------------------------------------------------------------------
(* The working calendar.                                                   *)

\* PUBLIC_HOLIDAYS: the dates of each year that are the same every year,
FixedHolidays == { << 1, 1 >>, << 5, 1 >>, << 5, 8 >>, << 7, 14 >>,
                   << 8, 15 >>, << 11, 1 >>, << 11, 11 >>, << 12, 25 >> }

\* and those that are not: Easter Monday, Ascension and Whit Monday, as written there.
MovableHolidays_Mistyped ==
    [ y \in {2027} |-> { << 3, 29 >>, << 5, 8 >>, << 5, 17 >> } ]
    @@ [ y \in 2016 .. 2026 |-> {} ]

MovableHolidays ==
    LET rows == << { << 3, 28 >>, << 5,  5 >>, << 5, 16 >> },
                   { << 4, 17 >>, << 5, 25 >>, << 6,  5 >> },
                   { << 4,  2 >>, << 5, 10 >>, << 5, 21 >> },
                   { << 4, 22 >>, << 5, 30 >>, << 6, 10 >> },
                   { << 4, 13 >>, << 5, 21 >>, << 6,  1 >> },
                   { << 4,  5 >>, << 5, 13 >>, << 5, 24 >> },
                   { << 4, 18 >>, << 5, 26 >>, << 6,  6 >> },
                   { << 4, 10 >>, << 5, 18 >>, << 5, 29 >> },
                   { << 4,  1 >>, << 5,  9 >>, << 5, 20 >> },
                   { << 4, 21 >>, << 5, 29 >>, << 6,  9 >> },
                   { << 4,  6 >>, << 5, 14 >>, << 5, 25 >> },
                   { << 3, 29 >>, << 5,  6 >>, << 5, 17 >> } >>
    IN [ year \in 2016 .. 2027 |-> rows[year - 2015] ]

\* assertKnown refuses every other year.
KnownYears == DOMAIN MovableHolidays

IsWeekend(date) == DayOfWeek(date) \in {6, 7}

IsPublicHoliday(date) ==
    << date.month, date.day >> \in FixedHolidays \cup MovableHolidays[date.year]

NonWorkableDays == {"weekend", "publicHoliday"}

NonWorkableReason(date) ==
    IF IsWeekend(date) THEN "weekend"
    ELSE IF IsPublicHoliday(date) THEN "publicHoliday"
    ELSE None

WorkableDaysOf(period) ==
    LET days   == DaysOf(period)
        places == InOrder({ n \in DOMAIN days : NonWorkableReason(days[n]) = None }, LAMBDA n : n)
    IN [ k \in DOMAIN places |-> days[places[k]] ]

=============================================================================
