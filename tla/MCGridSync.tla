----------------------------- MODULE MCGridSync -----------------------------
(***************************************************************************)
(* A small instance of GridSync for TLC: a month of two working days and a *)
(* day off, in two weeks, with two missions on offer and one that no       *)
(* longer is.                                                              *)
(***************************************************************************)
EXTENDS GridSync

CONSTANTS m1, m2, ended, d1, d2, off

TwoOffered == << m1, m2 >>
Assigned   == (m1 :> {d1, d2, off}) @@ (m2 :> {d2})
TwoWeeks   == { {d1}, {d2, off} }

Line(day, mission, quarterDays) ==
    [ day |-> day, mission |-> mission, quarterDays |-> quarterDays ]

\* A month begun, with a day on the mission that has ended, and what another tab saved.
Begun     == { Line(d1, ended, 4) }
AnotherTab == { { Line(d1, m1, 4), Line(d2, None, 4) } }

=============================================================================
