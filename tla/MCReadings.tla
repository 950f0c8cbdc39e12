----------------------------- MODULE MCReadings -----------------------------
(***************************************************************************)
(* A small instance of Readings for TLC: Alice's month of MCFirm with a    *)
(* second mission that no rate prices, her manager Bob, Eve, a consultant, *)
(* and Carol of billing in the same office, and Dan, a manager of another. *)
(***************************************************************************)
EXTENDS Readings, MCFirm

CONSTANTS tma, carol, dan, eve, paris, lyon

Roles ==
    alice :> "consultant" @@ eve :> "consultant" @@ bob :> "manager" @@ dan :> "manager"
    @@ carol :> "billing"

Offices == alice :> paris @@ bob :> paris @@ eve :> paris @@ carol :> paris @@ dan :> lyon

InPeriodOne == [ m \in Months |-> 1 ]

Verdicts == audit :> acme @@ tma :> unpriced

HalfOn(mission) == [ day |-> 1, dayType |-> "worked", mission |-> mission, quarterDays |-> 2 ]

\* The workable day on one mission, or on both.
TwoPostings == { << On(1) >>, << HalfOn(audit), HalfOn(tma) >> }

From1(mission) == [ consultant |-> alice, mission |-> mission, from |-> 1, to |-> None ]
ThreeBodies == { From1(audit), Body(2, 2), From1(tma) }

=============================================================================
