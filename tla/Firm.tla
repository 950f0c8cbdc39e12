-------------------------------- MODULE Firm --------------------------------
(***************************************************************************)
(* Timesheet and Staffing over one database and one pool of connections: a *)
(* month is submitted against the assignments Staffing writes, an edit of  *)
(* an assignment is checked against the days Timesheet writes, and the two *)
(* take different locks.                                                   *)
(***************************************************************************)
EXTENDS Naturals, FiniteSets

CONSTANTS
    Connections, Months, People, Owner, ManagerOf, Readable, MonthSlots, MonthSlot,
    Days, DaysOf, Workable, Missions, Clients, Reasons, Verdict, Postings,
    LastDay, Ids, Consultants, Office, Habilitations, Departure, Runs, Required, Held,
    Bodies, PairSlots, PairSlot, None

ASSUME PeopleAssumption ==
    /\ Owner \in [ Months -> People \cap Consultants ]
    /\ ManagerOf \in [ Months -> People \cup {None} ]
    /\ Readable \subseteq People \X Months
ASSUME CalendarAssumption ==
    /\ Days \subseteq 1 .. LastDay /\ LastDay \in Nat \ {0}
    /\ DaysOf \in [ Months -> SUBSET Days ] /\ Workable \subseteq Days
    /\ \A m \in Months : DaysOf[m] \cap Workable # {}
ASSUME SlotsAssumption ==
    /\ MonthSlot \in [ Months -> MonthSlots ]
    /\ PairSlot \in [ Consultants \X Missions -> PairSlots ]
ASSUME VerdictAssumption ==
    Verdict \in [ Missions -> Clients \cup Reasons ] /\ Clients \cap Reasons = {}
ASSUME PostingsAssumption ==
    \A entries \in Postings :
        /\ IsFiniteSet(DOMAIN entries)
        /\ \A n \in DOMAIN entries : /\ entries[n].dayType \in {"worked", "absence"}
                                     /\ entries[n].mission \in Missions \cup {None}

VARIABLES
    cras, invoices, declined, journal, monthLock, rowLock, pc, command, seen, answers,
    assignments, pairLock, stage, request

timesheet == << cras, invoices, declined, journal, monthLock, rowLock, pc, command, seen,
                answers >>
staffing  == << assignments, pairLock, stage, request >>
vars      == << timesheet, staffing >>

\* What reference.timesheet() reads of public.assignments and public.missions.
AssignedDays ==
    UNION { { << assignments[id].consultant, assignments[id].mission, day >>
              : day \in { d \in Days : /\ assignments[id].from <= d
                                       /\ assignments[id].to # None => d <= assignments[id].to } }
            : id \in { i \in Ids : assignments[i] # None } }

\* What the recorded-days check reads of timesheet.cra_lines, whatever the status.
RecordedDays ==
    UNION { { [ consultant |-> Owner[m], mission |-> line.mission, day |-> line.day ]
              : line \in { l \in cras[m].lines : l.mission # None } } : m \in Months }

\* The days there may be: of an owner, on a mission.
MissionDays == [ consultant : Consultants, mission : Missions, day : 1 .. LastDay ]

S == INSTANCE Staffing WITH
       recorded <- RecordedDays, Recordings <- SUBSET MissionDays, Slots <- PairSlots

ASSUME StaffingAssumption ==
    /\ Office \subseteq Consultants
    /\ Departure \in [ Consultants -> S!Dates \cup {None} ]
    /\ Runs \in [ Missions -> S!Intervals ] /\ Required \in [ Missions -> SUBSET Habilitations ]
    /\ Held \subseteq [ consultant : Consultants, habilitation : Habilitations,
                        from : S!Dates, to : S!Dates \cup {None} ]
    /\ Bodies \subseteq S!Rows
ASSUME NobodyAssumption ==
    None \notin Nat \cup Connections \cup People \cup Missions \cup Ids \cup S!Rows \cup S!Requests

QualifiedDays ==
    { posting \in Consultants \X Missions \X Days :
        S!DayAllowed(posting[3], Runs[posting[2]], Required[posting[2]], Held, posting[1]) }

T == INSTANCE Timesheet WITH
       assigned <- AssignedDays, Rosters <- SUBSET (Consultants \X Missions \X Days),
       Qualified <- QualifiedDays, Slots <- MonthSlots

-----------------------------------------------------------------------------
Init ==
    /\ cras = [ m \in Months |-> T!Absent ]
    /\ invoices = {}
    /\ declined = {}
    /\ journal = [ m \in Months |-> 0 ]
    /\ monthLock = [ s \in MonthSlots |-> None ]
    /\ rowLock = [ m \in Months |-> None ]
    /\ pc = [ c \in Connections |-> "idle" ]
    /\ command = [ c \in Connections |-> None ]
    /\ seen = [ c \in Connections |-> T!Absent ]
    /\ answers = {}
    /\ S!SInit

\* A connection serves one request at a time, of either kind.
OnMonth(c) ==
    /\ stage[c] = "idle"
    /\ UNCHANGED staffing
    /\ T!Step(c)

OnAssignment(c) ==
    /\ pc[c] = "idle"
    /\ UNCHANGED timesheet
    /\ S!StaffingStep(c)

Next == \E c \in Connections : OnMonth(c) \/ OnAssignment(c)

Spec == Init /\ [][Next]_vars

-----------------------------------------------------------------------------
(* The inductive invariant of the proofs (ReadingsProofs): each chain keeps *)
(* its own while the other runs.                                           *)

FirmInv == T!TInv /\ S!SInv /\ S!NoOverlap

-----------------------------------------------------------------------------
(* Properties.                                                             *)

\* A day recorded on a mission in a month that left its owner's hands is covered by an
\* assignment of that consultant on that mission (ADR-0106: a recorded day is exactly as
\* protected whether its Cra is draft, submitted, or validated).
SubmittedCovered ==
    \A m \in Months : cras[m].status \in {"submitted", "validated"} =>
        \A line \in cras[m].lines : line.mission # None =>
            << Owner[m], line.mission, line.day >> \in AssignedDays

\* An edit refused for its recorded days would have taken from one of them the only
\* assignment that covers it (the comment above the query of updateAssignment).
RefusesOnlyLosses ==
    \A c \in Connections : stage[c] = "recorded" /\ S!Uncovers(c) =>
        \E line \in RecordedDays :
            /\ << line.consultant, line.mission >> = S!Pair(S!Row(c))
            /\ S!Covers(assignments[request[c].id], line.day)
            /\ ~ S!Covers(S!Row(c), line.day)

=============================================================================
