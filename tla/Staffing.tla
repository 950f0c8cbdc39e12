------------------------------ MODULE Staffing ------------------------------
(***************************************************************************)
(* The writes of public.assignments (assignment-admin.ts): a manager       *)
(* creates an assignment or moves one, under an advisory lock on the       *)
(* (consultant, mission) pair.  The days the Cras record are read, never   *)
(* written; Firm composes this module with Timesheet, which writes them.   *)
(***************************************************************************)
EXTENDS AssignmentPolicy

CONSTANTS
    Connections,   \* clients of the pool; each runs one transaction at a time
    Ids,           \* the rows public.assignments may get
    Consultants,   \* the consultants of the firm
    Office,        \* those of the acting manager's office
    Missions,      \* the missions there are
    Habilitations, \* the habilitations there are
    Departure,     \* departure date of each consultant, or None
    Runs,          \* start and end of each mission
    Required,      \* habilitations each mission requires
    Held,          \* habilitations held, with their consultant and validity
    Bodies,        \* the rows a request may ask for
    Recordings,    \* the mission days the Cras may hold
    Slots,         \* values of hashtext(consultant:mission)
    PairSlot       \* the hash itself, which may collide

ASSUME OfficeAssumption  == Office \subseteq Consultants
ASSUME DepartAssumption  == Departure \in [ Consultants -> Dates \cup {None} ]
ASSUME MissionAssumption == /\ Runs \in [ Missions -> Intervals ]
                            /\ Required \in [ Missions -> SUBSET Habilitations ]
ASSUME HeldAssumption    ==
    Held \subseteq [ consultant : Consultants, habilitation : Habilitations,
                     from : Dates, to : Dates \cup {None} ]
ASSUME BodiesAssumption  ==
    Bodies \subseteq [ consultant : Consultants, mission : Missions,
                       from : Dates, to : Dates \cup {None} ]
ASSUME SlotsAssumption   == PairSlot \in [ Consultants \X Missions -> Slots ]

VARIABLES
    assignments,  \* public.assignments, as committed: a row for each id, or None
    recorded,     \* the mission days of timesheet.cra_lines, as committed
    pairLock,     \* holder of the advisory transaction lock of a slot
    stage,        \* the next statement of each connection's transaction
    request       \* the request each connection is serving

staffing == << assignments, pairLock, stage, request >>
svars    == << staffing, recorded >>

Rows == [ consultant : Consultants, mission : Missions,
          from : Dates, to : Dates \cup {None} ]

RecordedDays == [ consultant : Consultants, mission : Missions, day : Dates ]

ASSUME RecordingsAssumption == Recordings \subseteq SUBSET RecordedDays

\* POST /assignments, and PUT /assignments/:id, whose body repeats the pair.
Requests == [ id : Ids \cup {None}, row : Bodies ]

ASSUME NobodyAssumption == None \notin Connections \cup Ids \cup Rows \cup Requests

Stages == { "idle", "lookup", "lock", "check", "recorded", "commit" }

Row(c)  == request[c].row
Pair(row) == << row.consultant, row.mission >>
PairSlotOf(c) == PairSlot[Pair(Row(c))]

Ids_With(pair) == { id \in Ids : assignments[id] # None /\ Pair(assignments[id]) = pair }

Overlap(one, two) == one.from <= EndOf(two) /\ two.from <= EndOf(one)

\* isAssigned.
Assigned(consultant, mission, day) ==
    \E id \in Ids_With(<< consultant, mission >>) : Covers(assignments[id], day)

-----------------------------------------------------------------------------
SInit ==
    /\ assignments = [ id \in Ids |-> None ]
    /\ pairLock = [ s \in Slots |-> None ]
    /\ stage = [ c \in Connections |-> "idle" ]
    /\ request = [ c \in Connections |-> None ]

Proceed(c, step) == stage' = [ stage EXCEPT ![c] = step ]

Finish(c) ==
    /\ stage' = [ stage EXCEPT ![c] = "idle" ]
    /\ request' = [ request EXCEPT ![c] = None ]
    /\ pairLock' = [ s \in Slots |-> IF pairLock[s] = c THEN None ELSE pairLock[s] ]

\* Answered without a write: ROLLBACK, or COMMIT of nothing.
Refuse(c) == Finish(c) /\ UNCHANGED << assignments, recorded >>

Request(c, req) ==
    /\ stage[c] = "idle"
    /\ request' = [ request EXCEPT ![c] = req ]
    /\ Proceed(c, IF req.id = None THEN "lock" ELSE "lookup")
    /\ UNCHANGED << assignments, recorded, pairLock >>

\* updateAssignment reads the row first, outside the lock: the pair it is keyed on
\* never changes.
Editable(c) ==
    LET row == assignments[request[c].id]
    IN row # None /\ row.consultant \in Office /\ Pair(row) = Pair(Row(c))

FindAssignment(c) ==
    /\ stage[c] = "lookup"
    /\ Editable(c)
    /\ Proceed(c, "lock")
    /\ UNCHANGED << assignments, recorded, pairLock, request >>

RefuseLookup(c) ==
    /\ stage[c] = "lookup"
    /\ ~ Editable(c)
    /\ Refuse(c)

PairFree_Unlocked(c) == TRUE
PairFree(c) == pairLock[PairSlotOf(c)] = None

LockPair(c) ==
    /\ stage[c] = "lock"
    /\ Ordered(Row(c))
    /\ PairFree(c)
    /\ pairLock' = [ pairLock EXCEPT ![PairSlotOf(c)] = c ]
    /\ Proceed(c, "check")
    /\ UNCHANGED << assignments, recorded, request >>

RefuseRange(c) ==
    /\ stage[c] = "lock"
    /\ ~ Ordered(Row(c))
    /\ Refuse(c)

Permitted(row) ==
    /\ row.consultant \in Office
    /\ Allows(row, Departure[row.consultant], Runs[row.mission],
              Required[row.mission], Held, row.consultant)

\* Forgetting the assignments that start before the requested range.
Overlaps_Started(c) ==
    \E id \in Ids_With(Pair(Row(c))) \ {request[c].id} :
        Overlap(assignments[id], Row(c)) /\ Row(c).from <= assignments[id].from

Overlaps(c) ==
    \E id \in Ids_With(Pair(Row(c))) \ {request[c].id} : Overlap(assignments[id], Row(c))

ValidateAssignment(c) ==
    /\ stage[c] = "check"
    /\ Permitted(Row(c))
    /\ ~ Overlaps(c)
    /\ Proceed(c, IF request[c].id = None THEN "commit" ELSE "recorded")
    /\ UNCHANGED << assignments, recorded, pairLock, request >>

RefuseAssignment(c) ==
    /\ stage[c] = "check"
    /\ ~ (Permitted(Row(c)) /\ ~ Overlaps(c))
    /\ Refuse(c)

Uncovers(c) ==
    \E line \in recorded :
        /\ << line.consultant, line.mission >> = Pair(Row(c))
        /\ ~ Covers(Row(c), line.day)
        /\ \A id \in Ids_With(Pair(Row(c))) \ {request[c].id} :
             ~ Covers(assignments[id], line.day)

CheckRecordedDays(c) ==
    /\ stage[c] = "recorded"
    /\ ~ Uncovers(c)
    /\ Proceed(c, "commit")
    /\ UNCHANGED << assignments, recorded, pairLock, request >>

RefuseRecordedDays(c) ==
    /\ stage[c] = "recorded"
    /\ Uncovers(c)
    /\ Refuse(c)

\* The INSERT under a fresh uuid, or the UPDATE of the two dates, becomes visible.
Insert(c) ==
    /\ stage[c] = "commit"
    /\ request[c].id = None
    /\ \E id \in Ids : /\ assignments[id] = None
                       /\ assignments' = [ assignments EXCEPT ![id] = Row(c) ]
    /\ Finish(c)
    /\ UNCHANGED recorded

Update(c) ==
    /\ stage[c] = "commit"
    /\ request[c].id # None
    /\ assignments' = [ assignments EXCEPT ![request[c].id] =
                          [ @ EXCEPT !.from = Row(c).from, !.to = Row(c).to ] ]
    /\ Finish(c)
    /\ UNCHANGED recorded

\* A failed statement, a lost connection or a process that dies.
Abort(c) ==
    /\ stage[c] # "idle"
    /\ Refuse(c)

StaffingStep(c) ==
    \/ \E req \in Requests : Request(c, req)
    \/ FindAssignment(c) \/ RefuseLookup(c)
    \/ LockPair(c) \/ RefuseRange(c)
    \/ ValidateAssignment(c) \/ RefuseAssignment(c)
    \/ CheckRecordedDays(c) \/ RefuseRecordedDays(c)
    \/ Insert(c) \/ Update(c) \/ Abort(c)

\* The environment: Cras are saved, with any days at all while they are drafts.
Record ==
    /\ recorded' \in Recordings
    /\ UNCHANGED staffing

SNext == Record \/ \E c \in Connections : StaffingStep(c)

\* On its own, Staffing starts before any day is recorded.
SInitAlone == SInit /\ recorded = {}

SSpec == SInitAlone /\ [][SNext]_svars

-----------------------------------------------------------------------------
(* Properties.                                                             *)

\* Types.
STypeOK ==
    /\ assignments \in [ Ids -> Rows \cup {None} ]
    /\ recorded \subseteq RecordedDays
    /\ pairLock \in [ Slots -> Connections \cup {None} ]
    /\ stage \in [ Connections -> Stages ]
    /\ request \in [ Connections -> Requests \cup {None} ]

\* No two assignments of a consultant on a mission overlap, however the requests that
\* wrote them interleaved (ADR-0106).
NoOverlap ==
    \A one, two \in Ids :
        /\ one # two
        /\ assignments[one] # None /\ assignments[two] # None
        /\ Pair(assignments[one]) = Pair(assignments[two])
        => ~ Overlap(assignments[one], assignments[two])

\* The invariant the others rest on: a transaction past its lock is the only one on its
\* pair, so what its checks read of the table is still so when it writes.
Locked(c)  == stage[c] \in { "check", "recorded", "commit" }
Checked(c) == stage[c] \in { "recorded", "commit" }

RequestsServed ==
    \A c \in Connections :
        /\ stage[c] = "idle" <=> request[c] = None
        /\ stage[c] \in { "lookup", "recorded" } => request[c].id # None

PairLocksAgree ==
    /\ \A c \in Connections : Locked(c) => pairLock[PairSlotOf(c)] = c
    /\ \A s \in Slots : \A c \in Connections :
         pairLock[s] = c => Locked(c) /\ s = PairSlotOf(c)

EditsFound ==
    \A c \in Connections :
        stage[c] \notin { "idle", "lookup" } /\ request[c].id # None =>
            /\ assignments[request[c].id] # None
            /\ Pair(assignments[request[c].id]) = Pair(Row(c))

ChecksHold ==
    \A c \in Connections : Checked(c) => Permitted(Row(c)) /\ ~ Overlaps(c)

RowsPermitted ==
    \A id \in Ids : assignments[id] # None => Permitted(assignments[id])

SInv == /\ STypeOK /\ RequestsServed /\ PairLocksAgree /\ EditsFound /\ ChecksHold
        /\ RowsPermitted

\* The policy, sweep over validities included, accepts exactly the intervals of which each
\* day passes the submission checks and precedes any departure; an open end counts as a day.
PolicyIsExact ==
    \A c \in Connections : stage[c] = "check" =>
        LET row == Row(c) IN
        Permitted(row) <=>
            /\ row.consultant \in Office
            /\ \A day \in row.from .. EndOf(row) :
                 /\ DayAllowed(day, Runs[row.mission], Required[row.mission], Held, row.consultant)
                 /\ Departure[row.consultant] # None => day < Departure[row.consultant]

\* Staffing promises what submission asks: a day an assignment covers, after any edit, is a
\* day the mission runs on with every habilitation it requires, before any departure.
AssignedDaysSubmittable ==
    \A id \in Ids : assignments[id] # None =>
        LET row == assignments[id] IN
        \A day \in { d \in Dates : Covers(row, d) } :
            /\ DayAllowed(day, Runs[row.mission], Required[row.mission], Held, row.consultant)
            /\ Departure[row.consultant] # None => day < Departure[row.consultant]

=============================================================================
