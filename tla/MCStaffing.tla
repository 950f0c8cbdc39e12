----------------------------- MODULE MCStaffing -----------------------------
(***************************************************************************)
(* Small instances of Staffing for TLC.                                    *)
(***************************************************************************)
EXTENDS Staffing, TLC

CONSTANTS c1, c2, a1, a2, alice, zoe, yan, max, audit, pentest, passi, s1

\* Yan leaves on the third day.
Departures == [ c \in Consultants |-> IF c = yan THEN 3 ELSE None ]

\* The audit has no end and requires nothing; the pentest ends the day before the last
\* and requires a clearance.
Running == [ m \in Missions |-> IF m = audit THEN [ from |-> 1, to |-> None ]
                                             ELSE [ from |-> 1, to |-> LastDay - 1 ] ]
Requirements == [ m \in Missions |-> IF m = pentest THEN {passi} ELSE {} ]

Clearance(consultant, from, to) ==
    [ consultant |-> consultant, habilitation |-> passi, from |-> from, to |-> to ]

\* Alice renewed in time, Zoe let a day pass; Max is of another office.
Certificates == { Clearance(alice, 1, 1), Clearance(alice, 2, None),
                  Clearance(zoe, 1, 1), Clearance(zoe, 3, None), Clearance(yan, 1, None) }

On(consultant, mission, from, to) ==
    [ consultant |-> consultant, mission |-> mission, from |-> from, to |-> to ]

AliceOn(mission, from, to) == On(alice, mission, from, to)

\* Alice is moved about; for Zoe every interval on the pentest is tried, for Yan those
\* around the departure; Max is refused.
SomeBodies ==
    { AliceOn(audit, 1, 1), AliceOn(audit, 2, None), AliceOn(audit, 1, 2),
      AliceOn(audit, 3, 1), AliceOn(pentest, 1, 2), AliceOn(pentest, 3, None) }
    \cup { On(zoe, pentest, from, to) : from \in Dates, to \in Dates \cup {None} }
    \cup { On(yan, audit, 1, 2), On(yan, pentest, 2, 3), On(yan, audit, 3, None) }
    \cup { On(max, audit, 1, 1) }

SomeRecorded == { {}, { [ consultant |-> alice, mission |-> audit, day |-> 2 ] } }

OneSlot == [ pair \in Consultants \X Missions |-> s1 ]

Symmetric == Permutations(Connections)

=============================================================================
