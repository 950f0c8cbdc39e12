------------------------------- MODULE MCFirm -------------------------------
(***************************************************************************)
(* Small instances of Firm for TLC: Alice's month of two days, the first   *)
(* of them workable, and one mission she is assigned to and taken off.     *)
(***************************************************************************)
EXTENDS Firm, TLC

CONSTANTS c1, c2, june, alice, bob, audit, acme, unpriced, passi, a1, a2, s1

OwnedByAlice  == [ m \in Months |-> alice ]
ManagedByBob  == [ m \in Months |-> bob ]
AllReadable   == People \X Months
OneMonthSlot  == [ m \in Months |-> s1 ]
WholeMonth    == [ m \in Months |-> Days ]
Billed        == [ m \in Missions |-> acme ]

On(day) == [ day |-> day, dayType |-> "worked", mission |-> audit, quarterDays |-> 4 ]

\* The working day alone, both days, the holiday alone (which cannot be submitted).
JunePostings  == { << On(1) >>, << On(1), On(2) >>, << On(2) >> }

Nobody       == [ c \in Consultants |-> None ]
Unending     == [ m \in Missions |-> [ from |-> 1, to |-> None ] ]
Unrestricted == [ m \in Missions |-> {} ]

Body(from, to) == [ consultant |-> alice, mission |-> audit, from |-> from, to |-> to ]
AllBodies  == { Body(1, 1), Body(2, 2), Body(1, None) }
OnePairSlot == [ pair \in Consultants \X Missions |-> s1 ]

=============================================================================
