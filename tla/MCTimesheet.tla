---------------------------- MODULE MCTimesheet -----------------------------
(***************************************************************************)
(* Small instances of Timesheet for TLC: one working day and one holiday   *)
(* stand for the days of a month, one mission that is billed and one that  *)
(* is declined for the verdicts of drafting.                               *)
(***************************************************************************)
EXTENDS Timesheet, TLC

CONSTANTS c1, c2, m1, s1, monday, sunday, regie, forfait, acme, unpriced,
          alice, bob, carol, dave

OwnedByAlice    == [ m \in Months |-> alice ]
ManagedByBob    == [ m \in Months |-> bob ]
AllReadable     == People \X Months
\* Bob manages the month, Carol others of the office, Dave those of another office.
OfficeScoped    == AllReadable \ ({dave} \X Months)
OneSlot         == [ m \in Months |-> s1 ]
WholeMonth      == [ m \in Months |-> Days ]
Verdicts        == (regie :> acme) @@ (forfait :> unpriced)

On(day, mission, quarterDays) ==
    [ day |-> day, quarterDays |-> quarterDays, mission |-> mission,
      dayType |-> IF mission = None THEN "absence" ELSE "worked" ]

\* A whole month on one mission; one split between both, with a triplet sent twice
\* and a holiday worked; one that is not complete; none at all.
Plain   == << On(monday, regie, 4) >>
Mixed   == << On(monday, regie, 1), On(monday, forfait, 2), On(monday, regie, 1),
              On(sunday, forfait, 4) >>
Partial == << On(monday, regie, 3), On(sunday, None, 2) >>
\* Duplicates that sum past a day, and a day shared past its four quarters.
TooLong == << On(monday, regie, 3), On(monday, regie, 3) >>
TooMany == << On(monday, regie, 4), On(monday, None, 1) >>

AllPostings  == { Plain, Mixed, Partial, TooLong, TooMany, << >> }

Everywhere  == {alice} \X Missions \X Days
RegieOnly   == {alice} \X {regie} \X Days
AllRosters  == { Everywhere, RegieOnly }

=============================================================================
