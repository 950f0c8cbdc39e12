-------------------------- MODULE AssignmentPolicy --------------------------
(***************************************************************************)
(* The rules an assignment passes before the database is asked anything    *)
(* (assignment-policy.ts), and the per-day rules a recorded day is checked *)
(* against at submission (reference.ts).  A date is its day number; Forever*)
(* stands for the infinity of an interval whose end is NULL.               *)
(***************************************************************************)
EXTENDS Naturals, FiniteSets, FiniteSetsExt

CONSTANTS LastDay,   \* the dates are 1 .. LastDay
          None       \* NULL: an open end, or no departure

ASSUME DatesAssumption == LastDay \in Nat \ {0} /\ None \notin Nat

Dates   == 1 .. LastDay
Forever == LastDay + 1

Intervals == [ from : Dates, to : Dates \cup {None} ]

EndOf(interval) == IF interval.to = None THEN Forever ELSE interval.to

\* assignmentIntervalOrder.
Ordered(interval) == interval.from <= EndOf(interval)

Covers(interval, day) == interval.from <= day /\ day <= EndOf(interval)

\* fullyCovers: a sweep over the periods in the order they start, which stops at the
\* first gap.  Those that start on one day are swept together: their order says nothing.
EndsFrom(periods, day) == { EndOf(p) : p \in { q \in periods : q.from = day } }

\* coveredThrough after the periods that start by each day.
CoveredThrough(periods, from) ==
    LET through[day \in 0 .. LastDay] ==
            IF day = 0 THEN from - 1
            ELSE IF day > through[day - 1] + 1 THEN through[day - 1]
            ELSE Max({ through[day - 1] } \cup EndsFrom(periods, day))
    IN through

FullyCovers_AnyGap(periods, interval) ==
    \E period \in periods : EndOf(period) >= EndOf(interval)

FullyCovers(periods, interval) ==
    CoveredThrough(periods, interval.from)[LastDay] >= EndOf(interval)

HeldOf(held, consultant, habilitation) ==
    { [ from |-> h.from, to |-> h.to ]
      : h \in { g \in held : g.consultant = consultant /\ g.habilitation = habilitation } }

\* assignmentPolicy: order, departure, the dates of the mission, habilitations.
BeforeDeparture(interval, departure) ==
    departure # None => interval.from < departure /\ EndOf(interval) < departure

WithinMission(interval, runs) ==
    runs.from <= interval.from /\ EndOf(interval) <= EndOf(runs)

Allows(interval, departure, runs, required, held, consultant) ==
    /\ Ordered(interval)
    /\ BeforeDeparture(interval, departure)
    /\ WithinMission(interval, runs)
    /\ \A habilitation \in required :
         FullyCovers(HeldOf(held, consultant, habilitation), interval)

\* What the submission checks ask of one day: the mission runs on it and no
\* habilitation is missing.
DayAllowed(day, runs, required, held, consultant) ==
    /\ Covers(runs, day)
    /\ \A habilitation \in required :
         \E period \in HeldOf(held, consultant, habilitation) : Covers(period, day)

=============================================================================
