--------------------------- MODULE ReadingsProofs ---------------------------
(***************************************************************************)
(* Theorems about Firm and Readings, for any number of months, personas,   *)
(* assignments and connections, and any number of commits between two      *)
(* statements of a request.                                                *)
(***************************************************************************)
EXTENDS Readings, FiniteSetTheorems, TLAPS

\* What is proved of a month and of the assignments alone.
P == INSTANCE TimesheetProofs WITH
       assigned <- AssignedDays, Rosters <- SUBSET (Consultants \X Missions \X Days),
       Qualified <- QualifiedDays, Slots <- MonthSlots

Q == INSTANCE StaffingProofs WITH
       recorded <- RecordedDays, Recordings <- SUBSET MissionDays, Slots <- PairSlots

(***************************************************************************)
(* P and Q are instances of the modules that T and S are instances of.     *)
(***************************************************************************)

LEMMA SameStep == ASSUME NEW c PROVE T!Step(c) <=> P!Step(c)
  BY DEF T!MapThenSumSet, P!MapThenSumSet, T!MapThenFoldSet, P!MapThenFoldSet,
         T!QuarterDaysPerDay, P!QuarterDaysPerDay, T!db, P!db, T!locks, P!locks, T!local,
         P!local, T!QuarterDays, P!QuarterDays, T!QuarterDaysOn, P!QuarterDaysOn, T!Triplet,
         P!Triplet, T!SumOf, P!SumOf, T!LinesOf, P!LinesOf, T!Recordable, P!Recordable,
         T!Submittable, P!Submittable, T!FlagsOf, P!FlagsOf, T!Worked, P!Worked,
         T!QuarterDaysFor, P!QuarterDaysFor, T!DraftsFrom, P!DraftsFrom, T!DeclinesFrom,
         P!DeclinesFrom, T!Absent, P!Absent, T!Coherent, P!Coherent, T!Recordings, P!Recordings,
         T!Validations, P!Validations, T!Refusals, P!Refusals, T!Commands, P!Commands, T!Month,
         P!Month, T!Slot, P!Slot, T!Actor, P!Actor, T!Posted, P!Posted, T!Recorded, P!Recorded,
         T!Submitted, P!Submitted, T!Result, P!Result, T!DraftedFrom, P!DraftedFrom,
         T!DeclinedFrom, P!DeclinedFrom, T!Answer, P!Answer, T!Goto, P!Goto, T!Release,
         P!Release, T!End, P!End, T!EndUnwritten, P!EndUnwritten, T!MonthFree, P!MonthFree,
         T!RowFree, P!RowFree, T!Begin, P!Begin, T!LockMonth, P!LockMonth, T!FindNoRow,
         P!FindNoRow, T!LockRow, P!LockRow, T!RefuseScope, P!RefuseScope, T!Deciding, P!Deciding,
         T!Editable, P!Editable, T!MayRecord, P!MayRecord, T!RecordMonth, P!RecordMonth,
         T!RefuseEntries, P!RefuseEntries, T!MaySubmit, P!MaySubmit, T!Submit, P!Submit,
         T!RefuseSubmission, P!RefuseSubmission, T!AnswerNotFound, P!AnswerNotFound,
         T!AnswerReplayed, P!AnswerReplayed, T!MayDecide, P!MayDecide, T!Validate, P!Validate,
         T!RefuseValidation, P!RefuseValidation, T!Drafts, P!Drafts, T!Declines, P!Declines,
         T!SamePair, P!SamePair, T!AwaitsDraft, P!AwaitsDraft, T!ViolatesDraft, P!ViolatesDraft,
         T!SaveDrafts, P!SaveDrafts, T!PersistEvent, P!PersistEvent, T!RefuseCra, P!RefuseCra,
         T!RefuseRefusal, P!RefuseRefusal, T!Opens, P!Opens, T!AwaitsMonth, P!AwaitsMonth,
         T!ViolatesMonth, P!ViolatesMonth, T!Save, P!Save, T!Validates, P!Validates, T!Written,
         P!Written, T!Commit, P!Commit, T!CommitUnacknowledged, P!CommitUnacknowledged,
         T!Rollback, P!Rollback, T!Lock, P!Lock, T!Decide, P!Decide, T!Step, P!Step

LEMMA SameInv == T!TInv <=> P!TInv
  BY DEF T!MapThenSumSet, P!MapThenSumSet, T!MapThenFoldSet, P!MapThenFoldSet,
         T!QuarterDaysPerDay, P!QuarterDaysPerDay, T!QuarterDays, P!QuarterDays, T!QuarterDaysOn,
         P!QuarterDaysOn, T!Triplet, P!Triplet, T!SumOf, P!SumOf, T!LinesOf, P!LinesOf,
         T!Recordable, P!Recordable, T!FlagsOf, P!FlagsOf, T!Worked, P!Worked, T!QuarterDaysFor,
         P!QuarterDaysFor, T!DraftsFrom, P!DraftsFrom, T!DeclinesFrom, P!DeclinesFrom,
         T!Statuses, P!Statuses, T!Lines, P!Lines, T!Rows, P!Rows, T!Absent, P!Absent,
         T!Coherent, P!Coherent, T!Recordings, P!Recordings, T!Validations, P!Validations,
         T!Refusals, P!Refusals, T!Commands, P!Commands, T!Steps, P!Steps, T!Month, P!Month,
         T!Slot, P!Slot, T!Posted, P!Posted, T!DraftedFrom, P!DraftedFrom, T!DeclinedFrom,
         P!DeclinedFrom, T!Editable, P!Editable, T!MayRecord, P!MayRecord, T!MayDecide,
         P!MayDecide, T!TypeOK, P!TypeOK, T!Complete, P!Complete, T!SubmittedComplete,
         P!SubmittedComplete, T!DecidedByTheManager, P!DecidedByTheManager, T!AnswersHold,
         P!AnswersHold, T!Locked, P!Locked, T!StagesAgree, P!StagesAgree, T!LocksAgree,
         P!LocksAgree, T!ReadsAgree, P!ReadsAgree, T!ChecksHold, P!ChecksHold, T!DocumentsAgree,
         P!DocumentsAgree, T!RowsCoherent, P!RowsCoherent, T!TInv, P!TInv

LEMMA SameConserved == T!Conserved <=> P!Conserved
  BY DEF T!MapThenSumSet, P!MapThenSumSet, T!MapThenFoldSet, P!MapThenFoldSet, T!QuarterDays,
         P!QuarterDays, T!QuarterDaysFor, P!QuarterDaysFor, T!DraftedFrom, P!DraftedFrom,
         T!DeclinedFrom, P!DeclinedFrom, T!Invoiced, P!Invoiced, T!Turned, P!Turned, T!Conserved,
         P!Conserved

LEMMA SameStaffing == ASSUME NEW c PROVE S!StaffingStep(c) <=> Q!StaffingStep(c)
  BY DEF S!Max, Q!Max, S!Forever, Q!Forever, S!EndOf, Q!EndOf, S!Ordered, Q!Ordered, S!Covers,
         Q!Covers, S!EndsFrom, Q!EndsFrom, S!CoveredThrough, Q!CoveredThrough, S!FullyCovers,
         Q!FullyCovers, S!HeldOf, Q!HeldOf, S!BeforeDeparture, Q!BeforeDeparture,
         S!WithinMission, Q!WithinMission, S!Allows, Q!Allows, S!Requests, Q!Requests, S!Row,
         Q!Row, S!Pair, Q!Pair, S!PairSlotOf, Q!PairSlotOf, S!Ids_With, Q!Ids_With, S!Overlap,
         Q!Overlap, S!Proceed, Q!Proceed, S!Finish, Q!Finish, S!Refuse, Q!Refuse, S!Request,
         Q!Request, S!Editable, Q!Editable, S!FindAssignment, Q!FindAssignment, S!RefuseLookup,
         Q!RefuseLookup, S!PairFree, Q!PairFree, S!LockPair, Q!LockPair, S!RefuseRange,
         Q!RefuseRange, S!Permitted, Q!Permitted, S!Overlaps, Q!Overlaps, S!ValidateAssignment,
         Q!ValidateAssignment, S!RefuseAssignment, Q!RefuseAssignment, S!Uncovers, Q!Uncovers,
         S!CheckRecordedDays, Q!CheckRecordedDays, S!RefuseRecordedDays, Q!RefuseRecordedDays,
         S!Insert, Q!Insert, S!Update, Q!Update, S!Abort, Q!Abort, S!StaffingStep,
         Q!StaffingStep

LEMMA SameStaffed == (S!SInv <=> Q!SInv) /\ (S!NoOverlap <=> Q!NoOverlap)
  BY DEF S!Max, Q!Max, S!Dates, Q!Dates, S!Forever, Q!Forever, S!EndOf, Q!EndOf, S!Ordered,
         Q!Ordered, S!EndsFrom, Q!EndsFrom, S!CoveredThrough, Q!CoveredThrough, S!FullyCovers,
         Q!FullyCovers, S!HeldOf, Q!HeldOf, S!BeforeDeparture, Q!BeforeDeparture,
         S!WithinMission, Q!WithinMission, S!Allows, Q!Allows, S!Rows, Q!Rows, S!RecordedDays,
         Q!RecordedDays, S!Requests, Q!Requests, S!Stages, Q!Stages, S!Row, Q!Row, S!Pair,
         Q!Pair, S!PairSlotOf, Q!PairSlotOf, S!Ids_With, Q!Ids_With, S!Overlap, Q!Overlap,
         S!Permitted, Q!Permitted, S!Overlaps, Q!Overlaps, S!STypeOK, Q!STypeOK, S!NoOverlap,
         Q!NoOverlap, S!Locked, Q!Locked, S!Checked, Q!Checked, S!RequestsServed,
         Q!RequestsServed, S!PairLocksAgree, Q!PairLocksAgree, S!EditsFound, Q!EditsFound,
         S!ChecksHold, Q!ChecksHold, S!RowsPermitted, Q!RowsPermitted, S!SInv, Q!SInv

\* The constants are what both modules assume of them.
LEMMA Assumed ==
    /\ None \notin Connections \cup People \cup Missions
    /\ \A entries \in Postings :
         /\ P!IsFiniteSet(DOMAIN entries)
         /\ \A n \in DOMAIN entries : /\ entries[n].dayType \in {"worked", "absence"}
                                      /\ entries[n].mission \in Missions \cup {None}
    /\ Verdict \in [ Missions -> Clients \cup Reasons ] /\ Clients \cap Reasons = {}
    /\ DaysOf \in [ Months -> SUBSET Days ] /\ Workable \subseteq Days
    /\ \A m \in Months : DaysOf[m] \cap Workable # {}
    /\ MonthSlot \in [ Months -> MonthSlots ]
    /\ Readable \subseteq People \X Months
    /\ ManagerOf \in [ Months -> People \cup {None} ]
    /\ Owner \in [ Months -> People ]
<1>1. ASSUME NEW entries PROVE P!IsFiniteSet(DOMAIN entries) <=> IsFiniteSet(DOMAIN entries)
  BY DEF P!IsFiniteSet, IsFiniteSet
<1> QED
  BY <1>1, NobodyAssumption, PostingsAssumption, VerdictAssumption, CalendarAssumption,
     SlotsAssumption, PeopleAssumption

LEMMA StaffingAssumed ==
    /\ None \notin Connections \cup Ids \cup Q!Rows \cup Q!Requests
    /\ SUBSET MissionDays \subseteq SUBSET Q!RecordedDays
    /\ PairSlot \in [ Consultants \X Missions -> PairSlots ]
    /\ Bodies \subseteq [ consultant : Consultants, mission : Missions,
                          from : Q!Dates, to : Q!Dates \cup {None} ]
    /\ Held \subseteq [ consultant : Consultants, habilitation : Habilitations,
                        from : Q!Dates, to : Q!Dates \cup {None} ]
    /\ Runs \in [ Missions -> Q!Intervals ] /\ Required \in [ Missions -> SUBSET Habilitations ]
    /\ Departure \in [ Consultants -> Q!Dates \cup {None} ]
    /\ Office \subseteq Consultants
    /\ LastDay \in Nat \ {0} /\ None \notin Nat
<1>1. Q!Dates = S!Dates /\ Q!Intervals = S!Intervals /\ Q!Rows = S!Rows /\ Q!Requests = S!Requests
  BY DEF Q!Dates, S!Dates, Q!Intervals, S!Intervals, Q!Rows, S!Rows, Q!Requests, S!Requests
<1>2. Q!RecordedDays = MissionDays
  BY DEF Q!RecordedDays, MissionDays, Q!Dates
<1>3. S!Rows = [ consultant : Consultants, mission : Missions,
                 from : S!Dates, to : S!Dates \cup {None} ]
  BY DEF S!Rows
<1> QED
  BY <1>1, <1>2, <1>3, NobodyAssumption, SlotsAssumption, StaffingAssumption, CalendarAssumption

\* What each chain reads of the other's tables has the type it expects.
LEMMA RecordedType == ASSUME P!TInv PROVE RecordedDays \in SUBSET MissionDays
<1>1. \A m \in Months : \A line \in cras[m].lines :
        /\ line.mission \in Missions \cup {None} /\ line.day \in 1 .. LastDay
        /\ Owner[m] \in Consultants
  <2>1. \A m \in Months : cras[m].lines \in SUBSET P!Lines
    BY DEF P!TInv, P!TypeOK, P!Rows
  <2>2. \A m \in Months : Owner[m] \in Consultants
    BY PeopleAssumption
  <2> QED
    BY <2>1, <2>2, CalendarAssumption DEF P!Lines
<1> QED
  BY <1>1 DEF RecordedDays, MissionDays

LEMMA AssignedType ==
    ASSUME Q!SInv PROVE AssignedDays \in SUBSET (Consultants \X Missions \X Days)
<1>1. \A id \in Ids : assignments[id] # None =>
        assignments[id].consultant \in Consultants /\ assignments[id].mission \in Missions
  BY DEF Q!SInv, Q!STypeOK, Q!Rows
<1> QED
  BY <1>1 DEF AssignedDays

(***************************************************************************)
(* The composition.                                                        *)
(***************************************************************************)

LEMMA FirmInit == Init => FirmInv
<1> SUFFICES ASSUME Init PROVE FirmInv
  OBVIOUS
<1>1. AssignedDays = {} /\ RecordedDays = {}
  BY DEF Init, S!SInit, AssignedDays, RecordedDays, T!Absent
<1>2. P!Init
  BY <1>1 DEF Init, P!Init, P!Absent, T!Absent
<1>3. Q!SInitAlone
  BY <1>1 DEF Init, S!SInit, Q!SInitAlone, Q!SInit
<1>4. P!TInv
  BY <1>2, Assumed, P!InitInvariant
<1>5. Q!SInv /\ Q!NoOverlap
  BY <1>3, StaffingAssumed, Q!InitInvariant
<1> QED
  BY <1>4, <1>5, SameInv, SameStaffed DEF FirmInv

LEMMA FirmNext == FirmInv /\ [Next]_vars => FirmInv'
<1> SUFFICES ASSUME FirmInv, [Next]_vars PROVE FirmInv'
  OBVIOUS
<1>1. P!TInv /\ Q!SInv /\ Q!NoOverlap
  BY SameInv, SameStaffed DEF FirmInv
<1>2. (T!TInv <=> P!TInv)' /\ (S!SInv <=> Q!SInv)' /\ (S!NoOverlap <=> Q!NoOverlap)'
  BY SameInv, SameStaffed, PTL
<1>3. (P!TInv => RecordedDays \in SUBSET MissionDays)'
      /\ (Q!SInv => AssignedDays \in SUBSET (Consultants \X Missions \X Days))'
  BY RecordedType, AssignedType, PTL
<1>4. ASSUME NEW c \in Connections, OnMonth(c) PROVE P!TInv' /\ Q!SInv' /\ Q!NoOverlap'
  <2>1. AssignedDays' = AssignedDays
    BY <1>4 DEF OnMonth, staffing, AssignedDays
  <2>2. P!Next
    BY <1>4, SameStep DEF OnMonth, P!Next
  <2>3. P!TInv'
    BY <1>1, <2>2, Assumed, P!NextInvariant
  <2>4. Q!SNext
    BY <1>3, <1>4, <2>3 DEF OnMonth, staffing, Q!SNext, Q!Record, Q!staffing
  <2> QED
    BY <1>1, <2>3, <2>4, StaffingAssumed, Q!NextInvariant
<1>5. ASSUME NEW c \in Connections, OnAssignment(c) PROVE P!TInv' /\ Q!SInv' /\ Q!NoOverlap'
  <2>1. Q!SNext
    BY <1>5, SameStaffing DEF OnAssignment, Q!SNext
  <2>2. Q!SInv' /\ Q!NoOverlap'
    BY <1>1, <2>1, StaffingAssumed, Q!NextInvariant
  <2>3. P!Next
    BY <1>3, <1>5, <2>2 DEF OnAssignment, timesheet, P!Next, P!Restaff, P!transaction, P!db,
                            P!locks, P!local
  <2> QED
    BY <1>1, <2>2, <2>3, Assumed, P!NextInvariant
<1>6. ASSUME UNCHANGED vars PROVE P!TInv' /\ Q!SInv' /\ Q!NoOverlap'
  <2>1. AssignedDays' = AssignedDays /\ RecordedDays' = RecordedDays
    BY <1>6 DEF vars, timesheet, staffing, AssignedDays, RecordedDays
  <2>2. UNCHANGED P!vars /\ UNCHANGED Q!svars
    BY <1>6, <2>1
    DEF vars, timesheet, staffing, P!vars, P!transaction, P!db, P!locks, P!local,
        Q!svars, Q!staffing
  <2>3. P!TInv'
    BY <1>1, <2>2, Assumed, P!NextInvariant
  <2>4. [Q!SNext]_Q!svars
    BY <2>2
  <2>5. Q!SInv' /\ Q!NoOverlap'
    BY <1>1, <2>4, StaffingAssumed, Q!NextInvariant
  <2> QED
    BY <2>3, <2>5
<1> QED
  BY <1>2, <1>4, <1>5, <1>6 DEF Next, FirmInv

\* The chains that write a month and those that write the assignments run over one database
\* and one pool, and each keeps its invariant whatever the other does: the locks and the
\* checks of the one are enough although the other changes what they read.
THEOREM ChainsCompose == Spec => []FirmInv
<1> QED
  BY FirmInit, FirmNext, PTL DEF Spec

-----------------------------------------------------------------------------
(***************************************************************************)
(* A request, statement by statement.                                      *)
(***************************************************************************)

\* The scripts, written out.
LEMMA Scripts ==
    /\ Kinds = { "grid", "detail", "craPrint", "economics", "craList", "preFacturier",
                 "consultantDashboard", "managerDashboard", "billingDashboard", "invoiceList",
                 "invoiceDetail", "invoicePage", "history" }
    /\ \A kind \in { "detail", "craPrint", "economics" } : Script[kind] = Month
    /\ Script.grid = Grid
    /\ Script.craList = CraList
    /\ Script.preFacturier = PreFacturier
    /\ Script.consultantDashboard = ConsultantDashboard
    /\ Script.managerDashboard = ManagerDashboard
    /\ Script.billingDashboard = BillingDashboard
    /\ Script.invoiceList = InvoiceList
    /\ Script.invoiceDetail = InvoiceDetail
    /\ Script.history = History
    /\ Script.invoicePage = << "invoice" >>
  BY DEF Script, Kinds

\* The statements of each, in order.
Lists(script, names) ==
    DOMAIN script = DOMAIN names /\ \A n \in DOMAIN names : script[n] = names[n]

LEMMA Statements ==
    /\ Lists(Grid, << "row", "lines", "flags", "assignable" >>)
    /\ Lists(CraList, << "list", "total" >>)
    /\ Lists(PreFacturier, << "periods", "cras", "declined", "projection" >>)
    /\ Lists(ConsultantDashboard, << "row", "lines", "flags", "periods", "refused", "activity" >>)
    /\ Lists(ManagerDashboard, << "periods", "cras", "declined", "projection",
                             "offered", "pending", "late", "awaiting", "activity", "staffing" >>)
    /\ Lists(BillingDashboard, << "drafts", "issued", "sum", "invoicePeriods",
                                  "oldest", "recent", "sources" >>)
    /\ Lists(InvoiceList, << "page", "total", "all", "drafts", "issued", "cancelled", "sources" >>)
    /\ Lists(InvoiceDetail, << "invoice", "row", "lines", "flags" >>)
    /\ Lists(History, << "byStatus", "periods", "sums" >>)
    /\ Lists(Month, << "row", "lines", "flags" >>)
<1>1. Lists(Grid, << "row", "lines", "flags", "assignable" >>)
  BY DEF Lists, Grid, Month
<1>2. Lists(CraList, << "list", "total" >>)
  BY DEF Lists, CraList
<1>3. Lists(PreFacturier, << "periods", "cras", "declined", "projection" >>)
  BY DEF Lists, PreFacturier
<1>4. Lists(ConsultantDashboard, << "row", "lines", "flags", "periods", "refused", "activity" >>)
  BY DEF Lists, ConsultantDashboard, Month
<1>5. Lists(ManagerDashboard, << "periods", "cras", "declined", "projection",
                             "offered", "pending", "late", "awaiting", "activity", "staffing" >>)
  BY DEF Lists, ManagerDashboard, PreFacturier
<1>6. Lists(BillingDashboard, << "drafts", "issued", "sum", "invoicePeriods",
                                 "oldest", "recent", "sources" >>)
  BY DEF Lists, BillingDashboard
<1>7. Lists(InvoiceList, << "page", "total", "all", "drafts", "issued", "cancelled", "sources" >>)
  BY DEF Lists, InvoiceList, StatusCounts
<1>8. Lists(InvoiceDetail, << "invoice", "row", "lines", "flags" >>)
  BY DEF Lists, InvoiceDetail, Month
<1>9. Lists(History, << "byStatus", "periods", "sums" >>)
  BY DEF Lists, History
<1>10. Lists(Month, << "row", "lines", "flags" >>)
  BY DEF Lists, Month
<1> QED
  BY <1>1, <1>2, <1>3, <1>4, <1>5, <1>6, <1>7, <1>8, <1>9, <1>10

\* A script has at least one statement, and runs none twice.
LEMMA ScriptShape ==
    ASSUME NEW kind \in Kinds
    PROVE  /\ \E size \in Nat \ {0} : DOMAIN Script[kind] = 1 .. size
           /\ \A n, k \in DOMAIN Script[kind] : Script[kind][n] = Script[kind][k] => n = k
<1> DEFINE Shaped(script) ==
             /\ \E size \in Nat \ {0} : DOMAIN script = 1 .. size
             /\ \A n, k \in DOMAIN script : script[n] = script[k] => n = k
<1>1. Shaped(Grid) /\ Shaped(Month) /\ Shaped(CraList)
  BY Statements DEF Lists
<1>2. Shaped(PreFacturier) /\ Shaped(ConsultantDashboard)
  BY Statements DEF Lists
<1>3. Shaped(ManagerDashboard)
  BY Statements DEF Lists
<1>4. Shaped(BillingDashboard) /\ Shaped(InvoiceList)
  BY Statements DEF Lists
<1>5. Shaped(InvoiceDetail) /\ Shaped(<< "invoice" >>) /\ Shaped(History)
  BY Statements DEF Lists
<1> HIDE DEF Shaped
<1>6. Shaped(Script[kind])
  BY <1>1, <1>2, <1>3, <1>4, <1>5, Scripts
<1> QED
  BY <1>6 DEF Shaped

LEMMA RequestKinds ==
    ASSUME NEW q \in Requests
    PROVE  /\ q.kind \in Kinds /\ q.by \in Readers /\ q.month \in Months
           /\ q.client \in Clients \cup {None}
           /\ RoleOf[q.by] \in Carriers[q.kind]
           /\ (q.kind \in {"invoiceDetail", "invoicePage"}) = (q.client # None)
  BY DEF Requests

\* The next statement is the first that is left.
LEMMA Least ==
    ASSUME NEW q \in Requests, NEW got, Left(q, got) # {}
    PROVE  /\ Min(Left(q, got)) \in Left(q, got)
           /\ Min(Left(q, got)) \in Nat
           /\ \A k \in 1 .. Min(Left(q, got)) - 1 :
                k \in DOMAIN Script[q.kind] /\ ~ Wanted(q, got, Script[q.kind][k])
<1> DEFINE left == Left(q, got)
<1>1. PICK size \in Nat : DOMAIN Script[q.kind] = 1 .. size
  BY ScriptShape, RequestKinds
<1>2. left \in SUBSET (1 .. size)
  BY <1>1 DEF Left
<1>3. PICK n \in left : \A m \in left : n <= m
  BY <1>2, Assumed, P!LeastNat
<1>4. Min(left) \in left /\ \A m \in left : Min(left) <= m
  BY <1>3 DEF Min
<1>5. ASSUME NEW k \in 1 .. Min(left) - 1
      PROVE  k \in DOMAIN Script[q.kind] /\ ~ Wanted(q, got, Script[q.kind][k])
  <2>1. Min(left) \in 1 .. size
    BY <1>2, <1>4
  <2>2. k \in 1 .. size /\ ~ (Min(left) <= k)
    BY <2>1
  <2>3. k \notin left
    BY <1>4, <2>2
  <2> QED
    BY <1>1, <2>2, <2>3 DEF Left
<1> QED
  BY <1>2, <1>4, <1>5

(***************************************************************************)
(* The steps of Readings, for what they leave of the request and of the    *)
(* tables.                                                                 *)
(***************************************************************************)

Keeps ==
    /\ (reading' # NoRequest) = (reading # NoRequest)
    /\ reading # NoRequest =>
         /\ reading'.request = reading.request /\ reading'.got = reading.got
         /\ reading'.outcome = reading.outcome
         /\ DOMAIN reading' = DOMAIN reading

Asks(q) ==
    /\ reading = NoRequest /\ reading' # NoRequest
    /\ reading'.request = q /\ reading'.got = << >> /\ reading'.outcome = "open"
    /\ DOMAIN reading' = {"request", "got", "outcome", "changes"}

RunsNext ==
    /\ Open /\ reading' # NoRequest
    /\ ~ NotFound(reading.request, Got, NextStatement)
    /\ ~ OutOfScope(reading.request, NextStatement)
    /\ reading'.request = reading.request
    /\ reading'.got = Reads(NextStatement)
    /\ reading'.outcome
         = IF Left(reading.request, Reads(NextStatement)) = {} THEN "answered" ELSE "open"
    /\ DOMAIN reading' = DOMAIN reading

Fails ==
    /\ reading # NoRequest /\ reading' # NoRequest
    /\ reading'.request = reading.request /\ reading'.got = reading.got
    /\ reading'.outcome \in {"notFound", "outOfScope"}
    /\ DOMAIN reading' = DOMAIN reading

LEMMA ReadKinds ==
    ASSUME RequestOK, [ReadNext]_<< vars, readVars >>
    PROVE  \/ Keeps /\ [Next]_vars /\ issued' = issued
           \/ /\ Keeps /\ UNCHANGED vars
              /\ \E draft \in invoices \ issued : issued' = issued \cup {draft}
           \/ /\ UNCHANGED << vars, issued >>
              /\ \/ \E q \in Requests : Asks(q)
                 \/ RunsNext \/ Fails \/ reading' = NoRequest
<1>1. CASE Write
  BY <1>1 DEF Write, Interfering, Keeps, Open, NoRequest, RequestOK
<1>2. CASE IssueElsewhere
  BY <1>2 DEF IssueElsewhere, Interfering, Keeps, Open, NoRequest, RequestOK
<1>3. ASSUME NEW q \in Requests, Ask(q) PROVE UNCHANGED << vars, issued >> /\ Asks(q)
  BY <1>3 DEF Ask, Asks, NoRequest
<1>4. CASE Query
  BY <1>4 DEF Query, RunsNext, Open, NoRequest, RequestOK, Got
<1>5. CASE Refuse
  BY <1>5 DEF Refuse, Fails, Open, NoRequest, RequestOK
<1>6. CASE Leave
  BY <1>6 DEF Leave
<1>7. CASE UNCHANGED << vars, readVars >>
  BY <1>7 DEF readVars, Keeps
<1> QED
  BY <1>1, <1>2, <1>3, <1>4, <1>5, <1>6, <1>7 DEF ReadNext

\* What the next statement adds to the results.
LEMMA Reading ==
    ASSUME RequestOK, RunsNext
    PROVE  /\ reading.request \in Requests
           /\ NextStatement \notin DOMAIN Got
           /\ Wanted(reading.request, Got, NextStatement)
           /\ DOMAIN Got' = DOMAIN Got \cup {NextStatement}
           /\ Got'[NextStatement] = Result(reading.request, Got, NextStatement)
           /\ \A name \in DOMAIN Got : Got'[name] = Got[name]
           /\ \E n \in DOMAIN Script[reading.request.kind] :
                /\ NextStatement = Script[reading.request.kind][n]
                /\ n \in Nat
                /\ \A k \in 1 .. n - 1 :
                     /\ k \in DOMAIN Script[reading.request.kind]
                     /\ ~ Wanted(reading.request, Got, Script[reading.request.kind][k])
<1> DEFINE q == reading.request
           n == Min(Left(q, Got))
<1>1. q \in Requests /\ Left(q, Got) # {}
  BY DEF RequestOK, RunsNext, Open
<1>2. n \in Left(q, Got) /\ n \in Nat
      /\ \A k \in 1 .. n - 1 : k \in DOMAIN Script[q.kind] /\ ~ Wanted(q, Got, Script[q.kind][k])
  BY <1>1, Least
<1>3. NextStatement = Script[q.kind][n]
  BY DEF NextStatement, Got
<1>4. n \in DOMAIN Script[q.kind] /\ Wanted(q, Got, NextStatement)
  BY <1>2, <1>3 DEF Left
<1>5. NextStatement \notin DOMAIN Got
  BY <1>4 DEF Wanted
<1>6. Got' = [ read \in DOMAIN Got \cup {NextStatement} |->
                 IF read = NextStatement THEN Result(q, Got, NextStatement) ELSE Got[read] ]
  BY DEF RunsNext, Reads, Got
<1> QED
  BY <1>1, <1>2, <1>3, <1>4, <1>5, <1>6

\* What a statement does not want it never wants again.
LEMMA WantsLess ==
    ASSUME NEW q, NEW got, NEW more, NEW name,
           DOMAIN got \subseteq DOMAIN more, \A read \in DOMAIN got : more[read] = got[read],
           ~ Wanted(q, got, name)
    PROVE  ~ Wanted(q, more, name)
  BY DEF Wanted

LEMMA NextRequest ==
    ASSUME RequestOK, [ReadNext]_<< vars, readVars >>
    PROVE  RequestOK'
<1>1. CASE Keeps
  BY <1>1 DEF Keeps, RequestOK, Got
<1>2. CASE Fails
  BY <1>2 DEF Fails, RequestOK, Got
<1>3. ASSUME NEW q \in Requests, Asks(q) PROVE RequestOK'
  <2>1. Left(q, << >>) # {}
    <3>1. 1 \in DOMAIN Script[q.kind]
      BY ScriptShape, RequestKinds
    <3> QED
      BY <3>1 DEF Left, Wanted
  <2> QED
    BY <1>3, <2>1 DEF Asks, RequestOK, Got, InOrder
<1>4. CASE RunsNext
  <2> DEFINE q == reading.request
             script == Script[q.kind]
  <2>1. PICK n \in DOMAIN script :
          /\ NextStatement = script[n] /\ n \in Nat
          /\ \A k \in 1 .. n - 1 : k \in DOMAIN script /\ ~ Wanted(q, Got, script[k])
    BY <1>4, Reading
  <2>2. /\ q \in Requests /\ reading # NoRequest
        /\ DOMAIN Got' = DOMAIN Got \cup {NextStatement}
        /\ \A name \in DOMAIN Got : Got'[name] = Got[name]
    BY <1>4, Reading DEF RunsNext, Open
  <2>3. reading'.request = q /\ DOMAIN reading' = DOMAIN reading
    BY <1>4 DEF RunsNext
  <2>4. \A i, j \in DOMAIN script : script[i] = script[j] => i = j
    BY <2>2, RequestKinds, ScriptShape
  <2>5. ASSUME NEW i \in DOMAIN script, script[i] \in DOMAIN Got', NEW k \in 1 .. i - 1
        PROVE  ~ Wanted(q, Got', script[k])
    <3>1. ~ Wanted(q, Got, script[k])
      <4>1. CASE script[i] \in DOMAIN Got
        BY <2>2, <2>5, <4>1 DEF RequestOK, InOrder
      <4>2. CASE script[i] = NextStatement
        BY <2>1, <2>4, <2>5, <4>2
      <4> QED
        BY <2>2, <2>5, <4>1, <4>2
    <3> QED
      BY <2>2, <3>1, WantsLess
  <2>6. InOrder(q, Got')
    BY <2>5 DEF InOrder
  <2>7. DOMAIN Got' \subseteq { script[i] : i \in DOMAIN script }
    BY <2>1, <2>2 DEF RequestOK
  <2>8. reading'.outcome = IF Left(q, Got') = {} THEN "answered" ELSE "open"
    BY <1>4 DEF RunsNext, Got
  <2> QED
    BY <2>2, <2>3, <2>6, <2>7, <2>8 DEF RequestOK
<1>5. CASE reading' = NoRequest
  BY <1>5 DEF RequestOK
<1> QED
  BY <1>1, <1>2, <1>3, <1>4, <1>5, ReadKinds

(***************************************************************************)
(* What a persona is shown, their own address would show.                  *)
(***************************************************************************)

LEMMA ReachOfCra ==
    ASSUME NEW actor, NEW m \in CrasOfOffice(actor)
    PROVE  m \in Months /\ cras[m].status # "absent" /\ MayRead(actor, "cra", Owner[m])
  BY DEF CrasOfOffice, MayRead

LEMMA ReachOfInvoice ==
    ASSUME NEW actor \in Readers, NEW draft \in InvoicesOfOffice(actor)
    PROVE  draft \in invoices /\ MayRead(actor, "invoice", Owner[draft.month])
  BY ReadersAssumption DEF InvoicesOfOffice, MayRead, readScope, READ_SCOPE

LEMMA ListedCra ==
    ASSUME NEW actor, NEW months \in SUBSET CrasOfOffice(actor), NEW item \in CraItems(months)
    PROVE  item.month \in months /\ MayRead(actor, "cra", Owner[item.month])
  BY ReachOfCra DEF CraItems, toCraListItem

LEMMA ListedInvoice ==
    ASSUME NEW actor \in Readers, NEW drafts \in SUBSET InvoicesOfOffice(actor),
           NEW item \in Projections(drafts)
    PROVE  MayRead(actor, "invoice", Owner[item.month])
  BY ReachOfInvoice DEF Projections, toProjection

LEMMA ResultReach ==
    ASSUME NEW q \in Requests, NEW got, NEW name, NEW item \in Result(q, got, name)
    PROVE  /\ name \in {"list", "cras", "activity", "awaiting", "sources"} =>
                MayRead(q.by, "cra", Owner[item.month])
           /\ name \in {"projection", "page", "oldest", "recent", "declined"} =>
                MayRead(q.by, "invoice", Owner[item.month])
<1> DEFINE actor == q.by
           shown == Result(q, got, name)
           months == { other.month
                       : other \in IF q.kind = "invoiceList" THEN got.page ELSE got.oldest }
<1>1. actor \in Readers
  BY RequestKinds
<1>2. CASE name \in {"list", "cras", "activity", "awaiting", "sources"}
  <2>1. ASSUME NEW statuses PROVE list(actor, statuses) \subseteq CraItems(CrasOfOffice(actor))
    BY DEF list, CraItems
  <2>2. CASE name = "list"
    <3>1. item \in CraItems(CrasOfOffice(actor))
      BY <2>1, <2>2 DEF Result, Page
    <3> QED
      BY <1>2, <2>2, <3>1, ListedCra
  <2>3. CASE name = "cras"
    <3>1. item \in CraItems(CrasOfOffice(actor))
      BY <2>3 DEF Result, listPeriod, CraItems
    <3> QED
      BY <1>2, <2>3, <3>1, ListedCra
  <2>4. CASE name = "activity"
    <3>1. item \in CraItems(CrasOfOffice(actor))
      BY <2>4 DEF Result, recentActivity, Page
    <3> QED
      BY <1>2, <2>4, <3>1, ListedCra
  <2>5. CASE name = "awaiting"
    <3>1. item \in CraItems(CrasOfOffice(actor))
      BY <2>1, <2>5 DEF Result, awaitingDecision
    <3> QED
      BY <1>2, <2>5, <3>1, ListedCra
  <2>6. CASE name = "sources"
    <3>1. item \in CraItems(CrasOfOffice(actor) \cap months)
      BY <2>6 DEF Result, findListItemsByIds
    <3> QED
      BY <1>2, <2>6, <3>1, ListedCra
  <2> QED
    BY <1>2, <2>2, <2>3, <2>4, <2>5, <2>6
<1>3. CASE name \in {"projection", "page", "oldest", "recent", "declined"}
  <2>1. ASSUME NEW statuses PROVE WithStatus(actor, statuses) \subseteq InvoicesOfOffice(actor)
    BY DEF WithStatus
  <2>2. CASE name = "projection"
    <3>1. item \in Projections({ draft \in InvoicesOfOffice(actor) :
                                   PeriodOf[draft.month] = PeriodOf[q.month] })
      BY <2>2 DEF Result, listPeriodProjection
    <3> QED
      BY <1>1, <1>3, <2>2, <3>1, ListedInvoice
  <2>3. CASE name = "page"
    <3>1. item \in Projections(WithStatus(actor, AllStatuses))
      BY <2>3 DEF Result, listProjection, Page
    <3> QED
      BY <1>1, <1>3, <2>1, <2>3, <3>1, ListedInvoice
  <2>4. CASE name = "oldest"
    <3>1. item \in Projections(WithStatus(actor, {"draft"}))
      BY <2>4 DEF Result, oldestDrafts
    <3> QED
      BY <1>1, <1>3, <2>1, <2>4, <3>1, ListedInvoice
  <2>5. CASE name = "recent"
    <3>1. item \in Projections(WithStatus(actor, AllStatuses \ {"draft"}))
      BY <2>5 DEF Result, recentIssued
    <3> QED
      BY <1>1, <1>3, <2>1, <2>5, <3>1, ListedInvoice
  <2>6. CASE name = "declined"
    <3>1. readScope(actor, "invoice") # "none" /\ OfficeOf[Owner[item.month]] = OfficeOf[actor]
      BY <2>6 DEF Result, findDeclinedDays
    <3>2. readScope(actor, "invoice") # "own"
      BY <1>1, ReadersAssumption DEF readScope, READ_SCOPE
    <3> QED
      BY <2>6, <3>1, <3>2 DEF MayRead
  <2> QED
    BY <1>3, <2>2, <2>3, <2>4, <2>5, <2>6
<1> QED
  BY <1>2, <1>3

LEMMA NextReach ==
    ASSUME RequestOK, NothingBeyondReach, [ReadNext]_<< vars, readVars >>
    PROVE  NothingBeyondReach'
<1>1. CASE RunsNext
  <2>1. /\ reading.request \in Requests /\ reading'.request = reading.request
        /\ DOMAIN Got' = DOMAIN Got \cup {NextStatement}
        /\ Got'[NextStatement] = Result(reading.request, Got, NextStatement)
        /\ \A name \in DOMAIN Got : Got'[name] = Got[name]
    BY <1>1, Reading DEF RunsNext
  <2>2. reading # NoRequest
    BY <1>1 DEF RunsNext, Open
  <2>3. \A actor, resource, subject :
          MayRead(actor, resource, subject)' = MayRead(actor, resource, subject)
    BY DEF MayRead, readScope
  <2> QED
    BY <2>1, <2>2, ResultReach DEF NothingBeyondReach
<1>2. CASE Keeps \/ Fails
  BY <1>2 DEF Keeps, Fails, NothingBeyondReach, Got
<1>3. ASSUME NEW q \in Requests, Asks(q) PROVE NothingBeyondReach'
  BY <1>3 DEF Asks, NothingBeyondReach, Got
<1>4. CASE reading' = NoRequest
  BY <1>4 DEF NothingBeyondReach
<1> QED
  BY <1>1, <1>2, <1>3, <1>4, ReadKinds

\* Whoever asks, and whatever is written meanwhile, no list, count or page shows a record
\* that the persona's scope does not reach (ADR-0033): the WHERE of the lists is the
\* assertion of the addresses.
THEOREM ListsKeepToScope == ReadSpec => []NothingBeyondReach
<1>1. ReadInit => RequestOK /\ NothingBeyondReach
  BY DEF ReadInit, RequestOK, NothingBeyondReach
<1>2. RequestOK /\ NothingBeyondReach /\ [ReadNext]_<< vars, readVars >>
        => RequestOK' /\ NothingBeyondReach'
  BY NextRequest, NextReach
<1> QED
  BY <1>1, <1>2, PTL DEF ReadSpec

-----------------------------------------------------------------------------
(***************************************************************************)
(* What the chains keep of the tables that the routes read.                *)
(***************************************************************************)

LEMMA SameFinite ==
    \A s : (P!IsFiniteSet(s) <=> IsFiniteSet(s)) /\ P!Cardinality(s) = Cardinality(s)
  BY DEF P!IsFiniteSet, IsFiniteSet, P!Cardinality, Cardinality

FiniteTables == IsFiniteSet(invoices) /\ P!FiniteLines

\* The timesheets take a step of their own, whoever moves.
LEMMA MonthNext ==
    ASSUME FirmInv, [Next]_vars
    PROVE  P!TInv /\ P!TInv' /\ [P!Next]_P!vars
<1>1. FirmInv'
  BY FirmNext
<1>2. P!TInv /\ P!TInv' /\ Q!SInv'
  <2>1. (T!TInv <=> P!TInv)' /\ (S!SInv <=> Q!SInv)'
    BY SameInv, SameStaffed, PTL
  <2> QED
    BY <1>1, <2>1, SameInv DEF FirmInv
<1>3. ASSUME NEW c \in Connections, OnMonth(c) PROVE P!Next
  BY <1>3, SameStep DEF OnMonth, P!Next
<1>4. ASSUME NEW c \in Connections, OnAssignment(c) PROVE P!Next
  <2>1. (Q!SInv => AssignedDays \in SUBSET (Consultants \X Missions \X Days))'
    BY AssignedType, PTL
  <2> QED
    BY <1>2, <1>4, <2>1 DEF OnAssignment, timesheet, P!Next, P!Restaff, P!transaction, P!db,
                            P!locks, P!local
<1>5. CASE UNCHANGED vars
  <2>1. AssignedDays' = AssignedDays
    BY <1>5 DEF vars, staffing, AssignedDays
  <2> QED
    BY <1>2, <1>5, <2>1 DEF vars, timesheet, P!vars, P!transaction, P!db, P!locks, P!local
<1> QED
  BY <1>2, <1>3, <1>4, <1>5 DEF Next

\* A draft that is committed stays, there are ever finitely many, and a month that is
\* validated stays as it is.
LEMMA TablesStep ==
    ASSUME P!TInv, [P!Next]_P!vars
    PROVE  /\ invoices \subseteq invoices'
           /\ FiniteTables => FiniteTables'
           /\ \A m \in Months : cras[m].status = "validated" => cras'[m] = cras[m]
<1>1. /\ P!TypeOK /\ P!StagesAgree /\ P!ReadsAgree /\ P!ChecksHold
  BY DEF P!TInv
<1>2. CASE UNCHANGED P!db
  BY <1>2 DEF P!db, FiniteTables, P!FiniteLines
<1>3. ASSUME NEW c \in Connections, P!Commits(c)
      PROVE  /\ invoices \subseteq invoices'
             /\ FiniteTables => FiniteTables'
             /\ \A m \in Months : cras[m].status = "validated" => cras'[m] = cras[m]
  <2>1. PICK m \in Months, old \in P!Rows, new \in P!Rows :
          /\ m = P!Month(c)
          /\ old = cras[m]
          /\ new = cras'[m] /\ new = P!Result(c)
          /\ \A other \in Months \ {m} : cras'[other] = cras[other]
          /\ \/ P!RewritesMonth(c, old, new) \/ P!SubmitsMonth(c, old, new)
             \/ P!ValidatesMonth(c, old, new) \/ P!RefusesMonth(c, old, new)
             \/ P!LeavesMonth(c, old, new)
    BY <1>1, <1>3, Assumed, P!CommitStep
  <2>2. old.status = "validated" => new = old
    BY <2>1 DEF P!RewritesMonth, P!SubmitsMonth, P!ValidatesMonth, P!RefusesMonth,
                P!LeavesMonth, P!Open
  <2>3. invoices' = invoices \/ invoices' = invoices \cup P!Drafts(c)
    BY <1>3 DEF P!Commits, P!Commit, P!CommitUnacknowledged, P!Written
  <2>4. FiniteTables => FiniteTables'
    <3>1. ASSUME FiniteTables PROVE IsFiniteSet(P!Drafts(c))
      <4>1. pc[c] = "commit"
        BY <1>3 DEF P!Commits, P!Commit, P!CommitUnacknowledged
      <4>2. seen[c] = cras[P!Month(c)] /\ P!Month(c) \in Months
        BY <1>1, <4>1, Assumed, P!CommitReads
      <4>3. seen[c].lines \in SUBSET P!Lines /\ P!IsFiniteSet(seen[c].lines)
        BY <1>1, <3>1, <4>2 DEF P!TypeOK, P!Rows, FiniteTables, P!FiniteLines
      <4> QED
        BY <4>2, <4>3, Assumed, P!DraftsFinite, SameFinite DEF P!Drafts
    <3>2. P!FiniteLines => P!FiniteLines'
      BY <1>1, Assumed, P!NextFinite
    <3> QED
      BY <2>3, <3>1, <3>2, FS_Union DEF FiniteTables
  <2> QED
    BY <2>1, <2>2, <2>3, <2>4
<1> QED
  BY <1>2, <1>3, Assumed, P!OnlyCommitsWrite

\* A draft is of a validated month, which is billed to no client twice, and its lines are of
\* some quarter-days.
LEMMA OfValidated ==
    ASSUME P!TInv, P!FiniteLines, NEW draft \in invoices
    PROVE  /\ draft.month \in Months
           /\ cras[draft.month].status = "validated"
           /\ cras[draft.month].lines \in SUBSET P!Lines
           /\ P!IsFiniteSet(cras[draft.month].lines)
           /\ draft \in P!DraftsFrom(draft.month, cras[draft.month].lines,
                                     cras[draft.month].validatedBy)
           /\ P!QuarterDays(draft.lines) \in Nat /\ P!QuarterDays(draft.lines) > 0
<1> DEFINE m == draft.month
<1>1. m \in Months /\ cras[m].lines \in SUBSET P!Lines /\ P!IsFiniteSet(cras[m].lines)
  BY DEF P!TInv, P!TypeOK, P!Rows, P!FiniteLines
<1>2. draft \in P!DraftedFrom(m)
  BY DEF P!DraftedFrom
<1>3. /\ cras[m].status = "validated"
      /\ draft \in P!DraftsFrom(m, cras[m].lines, cras[m].validatedBy)
  BY <1>1, <1>2 DEF P!TInv, P!DocumentsAgree
<1>4. P!QuarterDays(draft.lines) \in Nat /\ P!QuarterDays(draft.lines) > 0
  BY <1>1, <1>3, Assumed, P!DraftAmount
<1> QED
  BY <1>1, <1>3, <1>4

LEMMA OnePerClient ==
    ASSUME P!TInv, P!FiniteLines, NEW one \in invoices, NEW two \in invoices,
           one.month = two.month, one.client = two.client
    PROVE  one = two
  BY OfValidated, Assumed, P!DraftOfClient

LEMMA SameSums == \A lines : T!QuarterDays(lines) = P!QuarterDays(lines)
  BY DEF T!QuarterDays, P!QuarterDays, T!MapThenSumSet, P!MapThenSumSet, T!MapThenFoldSet,
         P!MapThenFoldSet

-----------------------------------------------------------------------------
(***************************************************************************)
(* The order of the statements.                                            *)
(***************************************************************************)

\* The script of a kind runs one statement, and before it another.
Asking(kind, name) == \E n \in DOMAIN Script[kind] : Script[kind][n] = name

Earlier(kind, first, second) ==
    \E n \in DOMAIN Script[kind] : \E k \in 1 .. n - 1 :
        Script[kind][n] = second /\ Script[kind][k] = first

LEMMA MonthOrder ==
    /\ \A kind \in { "grid", "detail", "craPrint", "economics", "consultantDashboard",
                     "invoiceDetail" } :
         /\ Asking(kind, "row") /\ Asking(kind, "lines") /\ Asking(kind, "flags")
         /\ Earlier(kind, "row", "lines") /\ Earlier(kind, "row", "flags")
    /\ Asking("invoiceDetail", "invoice") /\ Earlier("invoiceDetail", "invoice", "row")
<1> DEFINE Ordered(script) ==
             /\ \E n \in DOMAIN script : script[n] = "row"
             /\ \E n \in DOMAIN script : script[n] = "lines"
             /\ \E n \in DOMAIN script : script[n] = "flags"
             /\ \E n \in DOMAIN script : \E k \in 1 .. n - 1 :
                  script[n] = "lines" /\ script[k] = "row"
             /\ \E n \in DOMAIN script : \E k \in 1 .. n - 1 :
                  script[n] = "flags" /\ script[k] = "row"
<1>1. Ordered(Grid)
  BY Statements DEF Lists
<1>2. Ordered(Month)
  BY Statements DEF Lists
<1>3. Ordered(ConsultantDashboard)
  BY Statements DEF Lists
<1>4. Ordered(InvoiceDetail)
  BY Statements DEF Lists
<1>5. /\ \E n \in DOMAIN InvoiceDetail : InvoiceDetail[n] = "invoice"
      /\ \E n \in DOMAIN InvoiceDetail : \E k \in 1 .. n - 1 :
           InvoiceDetail[n] = "row" /\ InvoiceDetail[k] = "invoice"
  BY Statements DEF Lists
<1> QED
  BY <1>1, <1>2, <1>3, <1>4, <1>5, Scripts DEF Asking, Earlier

LEMMA BillOrder ==
    /\ \A kind \in { "preFacturier", "managerDashboard" } :
         /\ Asking(kind, "cras") /\ Asking(kind, "declined") /\ Asking(kind, "projection")
         /\ Earlier(kind, "cras", "declined") /\ Earlier(kind, "cras", "projection")
<1> DEFINE Ordered(script) ==
             /\ \E n \in DOMAIN script : script[n] = "cras"
             /\ \E n \in DOMAIN script : script[n] = "declined"
             /\ \E n \in DOMAIN script : script[n] = "projection"
             /\ \E n \in DOMAIN script : \E k \in 1 .. n - 1 :
                  script[n] = "declined" /\ script[k] = "cras"
             /\ \E n \in DOMAIN script : \E k \in 1 .. n - 1 :
                  script[n] = "projection" /\ script[k] = "cras"
<1>1. Ordered(PreFacturier)
  BY Statements DEF Lists
<1>2. Ordered(ManagerDashboard)
  BY Statements DEF Lists
<1> QED
  BY <1>1, <1>2, Scripts DEF Asking, Earlier

LEMMA CountOrder ==
    /\ \A name \in { "page", "total", "all", "drafts", "issued", "cancelled" } :
         Asking("invoiceList", name)
    /\ \A name \in { "issued", "sum", "oldest", "recent", "sources" } :
         Asking("billingDashboard", name)
    /\ Earlier("invoiceList", "page", "total")
    /\ Earlier("invoiceList", "all", "drafts") /\ Earlier("invoiceList", "drafts", "issued")
    /\ Earlier("billingDashboard", "issued", "sum")
    /\ Earlier("billingDashboard", "issued", "recent")
    /\ Earlier("billingDashboard", "oldest", "sources")
<1>1. /\ \A name \in { "page", "total", "all", "drafts", "issued", "cancelled" } :
           \E n \in DOMAIN InvoiceList : InvoiceList[n] = name
      /\ \A name \in { "issued", "sum", "oldest", "recent", "sources" } :
           \E n \in DOMAIN BillingDashboard : BillingDashboard[n] = name
  BY Statements DEF Lists
<1>2. /\ 2 \in DOMAIN InvoiceList /\ 1 \in 1 .. 2 - 1
      /\ InvoiceList[1] = "page" /\ InvoiceList[2] = "total"
      /\ 4 \in DOMAIN InvoiceList /\ 3 \in 1 .. 4 - 1
      /\ InvoiceList[3] = "all" /\ InvoiceList[4] = "drafts"
      /\ 5 \in DOMAIN InvoiceList /\ 4 \in 1 .. 5 - 1 /\ InvoiceList[5] = "issued"
  BY Statements DEF Lists
<1>3. /\ 3 \in DOMAIN BillingDashboard /\ 2 \in 1 .. 3 - 1
      /\ BillingDashboard[2] = "issued" /\ BillingDashboard[3] = "sum"
      /\ 6 \in DOMAIN BillingDashboard /\ 2 \in 1 .. 6 - 1 /\ BillingDashboard[6] = "recent"
      /\ 7 \in DOMAIN BillingDashboard /\ 5 \in 1 .. 7 - 1
      /\ BillingDashboard[5] = "oldest" /\ BillingDashboard[7] = "sources"
  BY Statements DEF Lists
<1> QED
  BY <1>1, <1>2, <1>3, Scripts DEF Asking, Earlier

\* The kinds that ask for a result, the others not.
LEMMA WhoAsks ==
    ASSUME NEW kind \in Kinds
    PROVE  /\ Asking(kind, "lines") \/ Asking(kind, "flags") =>
                kind \in { "grid", "detail", "craPrint", "economics", "consultantDashboard",
                           "invoiceDetail" }
           /\ Asking(kind, "cras") => kind \in { "preFacturier", "managerDashboard" }
           /\ Asking(kind, "page") \/ Asking(kind, "all") => kind = "invoiceList"
           /\ Asking(kind, "oldest") => kind = "billingDashboard"
<1> DEFINE Has(script, name) == \E n \in DOMAIN script : script[n] = name
           Without(script) == \A name \in { "lines", "flags", "cras", "page", "all", "oldest" } :
                              ~ Has(script, name)
<1>1. Without(CraList) /\ Without(<< "invoice" >>) /\ Without(History)
  BY Statements DEF Lists
<1>2. \A name \in { "cras", "page", "all", "oldest" } :
        ~ Has(Grid, name) /\ ~ Has(Month, name)
  BY Statements DEF Lists
<1>3. \A name \in { "cras", "page", "all", "oldest" } :
        ~ Has(ConsultantDashboard, name) /\ ~ Has(InvoiceDetail, name)
  BY Statements DEF Lists
<1>4. \A name \in { "lines", "flags", "page", "all", "oldest" } :
        ~ Has(PreFacturier, name) /\ ~ Has(ManagerDashboard, name)
  BY Statements DEF Lists
<1>5. /\ \A name \in { "lines", "flags", "cras", "page", "all" } : ~ Has(BillingDashboard, name)
      /\ \A name \in { "lines", "flags", "cras", "oldest" } : ~ Has(InvoiceList, name)
  BY Statements DEF Lists
<1> QED
  BY <1>1, <1>2, <1>3, <1>4, <1>5, Scripts DEF Asking

\* What ran is of the script, and what the script puts before it ran.
LEMMA HadBefore ==
    ASSUME RequestOK, reading # NoRequest, NEW second \in DOMAIN Got
    PROVE  /\ reading.request \in Requests /\ reading.request.kind \in Kinds
           /\ Asking(reading.request.kind, second)
           /\ \A first : Earlier(reading.request.kind, first, second)
                         /\ first \notin {"lines", "flags"} => first \in DOMAIN Got
<1>1. reading.request \in Requests /\ reading.request.kind \in Kinds
  BY RequestKinds DEF RequestOK
<1>2. Asking(reading.request.kind, second)
  BY DEF RequestOK, Asking
<1>3. ASSUME NEW first, Earlier(reading.request.kind, first, second),
             first \notin {"lines", "flags"}
      PROVE  first \in DOMAIN Got
  BY <1>3 DEF RequestOK, InOrder, Earlier, Wanted
<1> QED
  BY <1>1, <1>2, <1>3

\* What an answer was composed from.
LEMMA HasAll ==
    ASSUME RequestOK, NEW kinds, Answered(kinds), NEW name, Asking(reading.request.kind, name)
    PROVE  /\ reading.request \in Requests /\ reading # NoRequest
           /\ name \in DOMAIN Got \/ /\ name \in {"lines", "flags"} /\ "row" \in DOMAIN Got
                                     /\ Got.row.status = "absent"
  BY DEF Answered, RequestOK, Left, Wanted, Asking

(***************************************************************************)
(* A month shown as validated.                                             *)
(***************************************************************************)

LEMMA NextMonthStands ==
    ASSUME FirmInv, RequestOK, MonthStands, [ReadNext]_<< vars, readVars >>
    PROVE  MonthStands'
<1>1. CASE Keeps /\ [Next]_vars
  <2>1. P!TInv /\ [P!Next]_P!vars
    BY <1>1, MonthNext
  <2>2. \A m \in Months : cras[m].status = "validated" => cras'[m] = cras[m]
    BY <2>1, TablesStep
  <2>3. reading # NoRequest => Asked \in Months
    BY RequestKinds DEF RequestOK, Asked
  <2> QED
    BY <1>1, <2>2, <2>3 DEF Keeps, MonthStands, Got, Asked
<1>2. CASE (Keeps \/ Fails) /\ UNCHANGED vars
  BY <1>2 DEF Keeps, Fails, MonthStands, Got, Asked, vars, timesheet
<1>3. ASSUME NEW q \in Requests, Asks(q) PROVE MonthStands'
  BY <1>3 DEF Asks, MonthStands, Got
<1>4. CASE reading' = NoRequest
  BY <1>4 DEF MonthStands
<1>5. CASE RunsNext /\ UNCHANGED vars
  <2> DEFINE q == reading.request
             name == NextStatement
             m == Asked
  <2>1. /\ q \in Requests /\ reading # NoRequest /\ reading'.request = q
        /\ name \notin DOMAIN Got /\ DOMAIN Got' = DOMAIN Got \cup {name}
        /\ Got'[name] = Result(q, Got, name)
        /\ \A other \in DOMAIN Got : Got'[other] = Got[other]
    BY <1>5, Reading DEF RunsNext, Open
  <2>2. Asked' = Asked /\ cras' = cras /\ m \in Months /\ m = q.month
    BY <1>5, <2>1, RequestKinds DEF Asked, vars, timesheet
  <2>3. CASE name \notin {"invoice", "row", "lines", "flags"}
    BY <2>1, <2>2, <2>3 DEF MonthStands
  <2>4. CASE name = "invoice"
    <3>1. PICK draft \in invoices : draft.month = m
      BY <1>5, <2>2, <2>4 DEF RunsNext, NotFound, Invoice
    <3>2. cras[m].status = "validated"
      <4>1. P!DocumentsAgree
        BY SameInv DEF FirmInv, P!TInv
      <4> QED
        BY <2>2, <3>1, <4>1 DEF P!DocumentsAgree, P!DraftedFrom
    <3>3. q.kind = "invoiceDetail" => "row" \notin DOMAIN Got
      BY <2>1, <2>4, HadBefore, MonthOrder
    <3> QED
      BY <2>1, <2>2, <2>4, <3>2, <3>3 DEF MonthStands
  <2>5. CASE name = "row"
    <3>1. "lines" \notin DOMAIN Got /\ "flags" \notin DOMAIN Got
      BY <2>1, <2>5, HadBefore, WhoAsks, MonthOrder
    <3>2. Got'.row.status = cras[m].status
      BY <2>1, <2>2, <2>5 DEF Result, Row, CraRow
    <3> QED
      BY <2>1, <2>2, <2>5, <3>1, <3>2 DEF MonthStands
  <2>6. CASE name = "lines"
    <3>1. Got'.lines = cras[m].lines
      BY <2>1, <2>2, <2>6 DEF Result
    <3> QED
      BY <2>1, <2>2, <2>6, <3>1 DEF MonthStands
  <2>7. CASE name = "flags"
    <3>1. Got'.flags = cras[m].flags
      BY <2>1, <2>2, <2>7 DEF Result
    <3> QED
      BY <2>1, <2>2, <2>7, <3>1 DEF MonthStands
  <2> QED
    BY <2>3, <2>4, <2>5, <2>6, <2>7
<1> QED
  BY <1>1, <1>2, <1>3, <1>4, <1>5, ReadKinds

LEMMA SameMonth ==
    /\ \A lines, mission : T!QuarterDaysFor(lines, mission) = P!QuarterDaysFor(lines, mission)
    /\ \A m, mission : T!Invoiced(m, mission) = P!Billed(mission, P!DraftedFrom(m))
    /\ \A lines : T!Worked(lines) = P!Worked(lines)
  BY DEF T!QuarterDaysFor, P!QuarterDaysFor, T!QuarterDays, P!QuarterDays, T!MapThenSumSet,
         P!MapThenSumSet, T!MapThenFoldSet, P!MapThenFoldSet, T!Invoiced, P!Billed,
         T!DraftedFrom, P!DraftedFrom, T!Worked, P!Worked

\* The documents of a validated month add up to its days.
LEMMA MonthAddsUp ==
    ASSUME P!TInv, P!FiniteLines, NEW m \in Months, cras[m].status = "validated"
    PROVE  /\ \A draft \in invoices : draft.month = m => \A line \in draft.lines :
                T!QuarterDays({ source \in cras[m].lines : source.mission = line.mission })
                  = line.quarterDays
           /\ \A mission \in T!Worked(cras[m].lines) \cap Priced :
                T!QuarterDaysFor(cras[m].lines, mission) = T!Invoiced(m, mission)
<1>1. /\ cras[m].lines \in SUBSET P!Lines /\ P!IsFiniteSet(cras[m].lines)
      /\ P!DraftedFrom(m) = P!DraftsFrom(m, cras[m].lines, cras[m].validatedBy)
  BY DEF P!TInv, P!TypeOK, P!Rows, P!FiniteLines, P!DocumentsAgree
<1>2. ASSUME NEW draft \in invoices, draft.month = m, NEW line \in draft.lines
      PROVE  T!QuarterDays({ source \in cras[m].lines : source.mission = line.mission })
               = line.quarterDays
  <2>1. draft \in P!DraftsFrom(m, cras[m].lines, cras[m].validatedBy)
    BY <1>1, <1>2 DEF P!DraftedFrom
  <2>2. line.quarterDays = P!QuarterDaysFor(cras[m].lines, line.mission)
    BY <1>2, <2>1 DEF P!DraftsFrom
  <2> QED
    BY <2>2, SameSums DEF P!QuarterDaysFor
<1>3. ASSUME NEW mission \in T!Worked(cras[m].lines) \cap Priced
      PROVE  T!QuarterDaysFor(cras[m].lines, mission) = T!Invoiced(m, mission)
  <2>1. mission \in P!Worked(cras[m].lines) /\ mission \in Missions
    BY <1>1, <1>3, SameMonth DEF P!Worked, P!Lines
  <2>2. Verdict[mission] \in Clients
    BY <1>3, <2>1, PricedAssumption
  <2>3. P!Billed(mission, P!DraftedFrom(m)) = P!QuarterDaysFor(cras[m].lines, mission)
    BY <1>1, <2>1, <2>2, Assumed, P!DraftsShare
  <2> QED
    BY <2>3, SameMonth
<1> QED
  BY <1>2, <1>3

LEMMA StandsWhole ==
    ASSUME FirmInv, FiniteTables, RequestOK, MonthStands
    PROVE  MonthShownWhole
<1> DEFINE months == { "grid", "detail", "craPrint", "economics", "consultantDashboard",
                       "invoiceDetail" }
<1>1. P!TInv /\ P!FiniteLines /\ T!SubmittedComplete /\ T!TypeOK
  BY SameInv DEF FirmInv, FiniteTables, T!TInv
<1>2. ASSUME Answered({"invoiceDetail"}) PROVE Got.row.status = "validated"
  <2>1. reading # NoRequest /\ reading.request.kind = "invoiceDetail"
    BY <1>2 DEF Answered
  <2>2. "invoice" \in DOMAIN Got
    BY <1>2, <2>1, HasAll, MonthOrder
  <2>3. "row" \in DOMAIN Got
    BY <1>2, <2>1, HasAll, MonthOrder
  <2> QED
    BY <2>1, <2>2, <2>3 DEF MonthStands
<1>3. ASSUME Answered(months), Got.row.status = "validated"
      PROVE  /\ << LinesRead, FlagsRead >> = << cras[Asked].lines, cras[Asked].flags >>
             /\ Asked \in Months /\ cras[Asked].status = "validated"
             /\ reading # NoRequest
  <2>1. reading.request \in Requests /\ reading # NoRequest
        /\ {"row", "lines", "flags"} \subseteq DOMAIN Got
    BY <1>3, HasAll, MonthOrder DEF Answered
  <2>2. Asked \in Months
    BY <2>1, RequestKinds DEF Asked
  <2> QED
    BY <1>3, <2>1, <2>2 DEF MonthStands, LinesRead, FlagsRead
<1>4. ASSUME Answered(months), Got.row.status = "validated" PROVE DaysAddUp
  <2>1. /\ LinesRead = cras[Asked].lines /\ Asked \in Months
        /\ cras[Asked].status = "validated"
    BY <1>3, <1>4
  <2>2. /\ \A draft \in invoices : draft.month = Asked => \A line \in draft.lines :
             T!QuarterDays({ source \in LinesRead : source.mission = line.mission })
               = line.quarterDays
        /\ \A mission \in T!Worked(LinesRead) \cap Priced :
             T!QuarterDaysFor(LinesRead, mission) = T!Invoiced(Asked, mission)
    BY <1>1, <2>1, MonthAddsUp
  <2>3. \A draft \in Invoice(reading.request) : \A line \in Lineage(draft) :
          T!QuarterDays(line.sourceDays) = line.quantity
    BY <2>2 DEF Invoice, Lineage, Asked
  <2>4. \A days \in EconomicsDays : days.quarterDays = T!Invoiced(Asked, days.mission)
    BY <2>2 DEF EconomicsDays
  <2> QED
    BY <2>3, <2>4 DEF DaysAddUp
<1>5. ASSUME Answered(months), Got.row.status = "validated"
      PROVE  /\ ~ GridResponse.editable
             /\ ConsultantDashboardAnswer.remaining = {}
             /\ \A total \in PrintedTotals : total.mission \in DOMAIN Verdict =>
                  total.quarterDays = T!Invoiced(Asked, total.mission)
                                      + T!Turned(Asked, total.mission)
  <2>1. /\ LinesRead = cras[Asked].lines /\ Asked \in Months
        /\ cras[Asked].status = "validated"
    BY <1>3, <1>5
  <2>2. ~ GridResponse.editable
    BY <1>5 DEF GridResponse
  <2>3. ConsultantDashboardAnswer.remaining = {}
    <3>1. \A day \in DaysOf[Asked] \cap Workable :
            T!QuarterDaysOn(LinesRead, day) = T!QuarterDaysPerDay
      BY <1>1, <2>1 DEF T!SubmittedComplete, T!Complete
    <3> QED
      BY <3>1 DEF ConsultantDashboardAnswer, T!QuarterDaysPerDay
  <2>4. \A mission \in Missions :
          T!QuarterDaysFor(LinesRead, mission)
            = T!Invoiced(Asked, mission) + T!Turned(Asked, mission)
    <3>1. T!Conserved
      BY <1>1, Assumed, P!DocumentsConserve, SameConserved
    <3> QED
      BY <2>1, <3>1 DEF T!Conserved
  <2>5. DOMAIN Verdict = Missions
    BY VerdictAssumption
  <2> QED
    BY <2>2, <2>3, <2>4, <2>5 DEF PrintedTotals
<1> QED
  BY <1>2, <1>3, <1>4, <1>5 DEF MonthShownWhole

-----------------------------------------------------------------------------
(***************************************************************************)
(* What the counts and the lists of invoices find.                         *)
(***************************************************************************)

\* Of a statement that runs, what the script puts before it ran.
LEMMA RanBefore ==
    ASSUME RequestOK, RunsNext
    PROVE  /\ reading.request \in Requests /\ reading.request.kind \in Kinds
           /\ Asking(reading.request.kind, NextStatement)
           /\ \A first : Earlier(reading.request.kind, first, NextStatement)
                         /\ first \notin {"lines", "flags"} => first \in DOMAIN Got
<1> DEFINE script == Script[reading.request.kind]
<1>1. reading.request \in Requests /\ reading.request.kind \in Kinds
  BY Reading, RequestKinds
<1>2. PICK n \in DOMAIN script :
        /\ NextStatement = script[n]
        /\ \A k \in 1 .. n - 1 : ~ Wanted(reading.request, Got, script[k])
  BY Reading
<1>3. \A i, j \in DOMAIN script : script[i] = script[j] => i = j
  BY <1>1, ScriptShape
<1>4. ASSUME NEW first, Earlier(reading.request.kind, first, NextStatement),
             first \notin {"lines", "flags"}
      PROVE  first \in DOMAIN Got
  BY <1>2, <1>3, <1>4 DEF Earlier, Wanted
<1> QED
  BY <1>1, <1>2, <1>4 DEF Asking

\* A list of drafts has no more items than there are drafts, and as many when no two are of
\* one month and client.
LEMMA Projected ==
    ASSUME NEW drafts, IsFiniteSet(drafts)
    PROVE  /\ IsFiniteSet(Projections(drafts))
           /\ Cardinality(Projections(drafts)) <= Cardinality(drafts)
           /\ ( \A one, two \in drafts :
                  one.month = two.month /\ one.client = two.client => one = two )
              => Cardinality(Projections(drafts)) = Cardinality(drafts)
<1> DEFINE f == [ draft \in drafts |-> toProjection(draft) ]
<1>1. f \in Surjection(drafts, Projections(drafts))
  <2> HIDE DEF toProjection
  <2> QED
    BY DEF Projections, Surjection
<1>2. ASSUME \A one, two \in drafts :
               one.month = two.month /\ one.client = two.client => one = two
      PROVE  f \in Injection(drafts, Projections(drafts))
  <2>1. \A one, two \in drafts : f[one] = f[two] => one.month = two.month /\ one.client = two.client
    BY DEF toProjection
  <2>2. f \in [ drafts -> Projections(drafts) ]
    BY <1>1 DEF Surjection
  <2> HIDE DEF f
  <2> QED
    BY <1>2, <2>1, <2>2 DEF Injection, IsInjective
<1> HIDE DEF f
<1> QED
  BY <1>1, <1>2, FS_Surjection

\* The amount of a set of drafts is the sum of theirs.
LEMMA CentsSum ==
    ASSUME NEW drafts, P!IsFiniteSet(drafts),
           \A draft \in drafts : P!QuarterDays(draft.lines) \in Nat
    PROVE  \E g : /\ P!IsSum(g, drafts, [ draft \in drafts |-> P!QuarterDays(draft.lines) ])
                  /\ sumCents(drafts) = g[drafts]
<1> DEFINE w == [ draft \in drafts |-> P!QuarterDays(draft.lines) ]
           Adds(g) == g = [ s \in SUBSET drafts |->
                            IF s = {} THEN 0
                            ELSE T!QuarterDays((CHOOSE x \in s : TRUE).lines)
                                 + g[s \ {CHOOSE x \in s : TRUE}] ]
           iter == CHOOSE g : Adds(g)
<1>1. sumCents(drafts) = iter[drafts]
  BY DEF sumCents, MapThenSumSet, MapThenFoldSet
<1>2. \A g : Adds(g) <=> P!IsSum(g, drafts, w)
  BY SameSums, Assumed, P!ChosenIn DEF P!Chosen, P!IsSum
<1>3. \E g : P!IsSum(g, drafts, w)
  BY Assumed, P!SumExists
<1>4. Adds(iter)
  <2> HIDE DEF Adds
  <2> QED
    BY <1>2, <1>3
<1> QED
  BY <1>1, <1>2, <1>4

LEMMA CentsCount ==
    ASSUME NEW drafts, IsFiniteSet(drafts),
           \A draft \in drafts : P!QuarterDays(draft.lines) \in Nat
                                 /\ P!QuarterDays(draft.lines) > 0
    PROVE  sumCents(drafts) \in Nat /\ Cardinality(drafts) <= sumCents(drafts)
<1> DEFINE w == [ draft \in drafts |-> P!QuarterDays(draft.lines) ]
<1>1. P!IsFiniteSet(drafts) /\ P!Cardinality(drafts) = Cardinality(drafts)
  BY SameFinite
<1>2. PICK g : P!IsSum(g, drafts, w) /\ sumCents(drafts) = g[drafts]
  BY <1>1, CentsSum
<1>3. w \in [ drafts -> Nat ] /\ (\A draft \in drafts : w[draft] > 0)
      /\ drafts \in SUBSET drafts
  OBVIOUS
<1> HIDE DEF w
<1>4. \A s \in SUBSET drafts : g[s] \in Nat
  BY <1>1, <1>2, <1>3, Assumed, P!SumNat
<1>5. \A s \in SUBSET drafts : P!Cardinality(s) <= g[s]
  BY <1>1, <1>2, <1>3, Assumed, P!SumCounts
<1> QED
  BY <1>1, <1>2, <1>3, <1>4, <1>5

LEMMA ByStatus ==
    ASSUME NEW actor
    PROVE  /\ WithStatus(actor, AllStatuses) = InvoicesOfOffice(actor)
           /\ WithStatus(actor, {"draft"}) = InvoicesOfOffice(actor) \ issued
           /\ WithStatus(actor, {"issued"}) = InvoicesOfOffice(actor) \cap issued
           /\ WithStatus(actor, {"cancelledByCreditNote"}) = {}
           /\ WithStatus(actor, AllStatuses \ {"draft"}) = InvoicesOfOffice(actor) \cap issued
  BY DEF WithStatus, AllStatuses, InvoiceStatus

\* What each statement about invoices finds, of the drafts within reach.
LEMMA Counted ==
    ASSUME P!TInv, FiniteTables, NEW q \in Requests, NEW got
    PROVE  LET reach == InvoicesOfOffice(q.by)
           IN  /\ IsFiniteSet(reach) /\ reach \subseteq invoices
               /\ Cardinality(reach) \in Nat
               /\ Cardinality(reach \cap issued) \in Nat
               /\ IsFiniteSet(Result(q, got, "page"))
               /\ Cardinality(Result(q, got, "page")) <= Cardinality(reach)
               /\ q.kind # "craList" => Result(q, got, "total") = Cardinality(reach)
               /\ Result(q, got, "all") = Cardinality(reach)
               /\ Result(q, got, "drafts") \in Nat
               /\ Result(q, got, "drafts") + Cardinality(reach \cap issued) = Cardinality(reach)
               /\ Result(q, got, "issued") = Cardinality(reach \cap issued)
               /\ Result(q, got, "cancelled") = 0
               /\ Result(q, got, "sum") \in Nat
               /\ Cardinality(reach \cap issued) <= Result(q, got, "sum")
               /\ Cardinality(reach \cap issued) = Cardinality(Result(q, got, "recent"))
               /\ \A item \in Result(q, got, "oldest") :
                    \E draft \in reach : draft.month = item.month
<1> DEFINE reach == InvoicesOfOffice(q.by)
<1>1. reach \subseteq invoices
  BY DEF InvoicesOfOffice
<1>2. /\ IsFiniteSet(reach) /\ IsFiniteSet(reach \cap issued) /\ IsFiniteSet(reach \ issued)
  BY <1>1, FS_Subset DEF FiniteTables
<1>3. /\ Cardinality(reach) \in Nat /\ Cardinality(reach \cap issued) \in Nat
      /\ Cardinality(reach \ issued) \in Nat
  BY <1>2, FS_CardinalityType
<1>4. Cardinality(reach \ issued) + Cardinality(reach \cap issued) = Cardinality(reach)
  <2>1. (reach \ issued) \cup (reach \cap issued) = reach
        /\ (reach \ issued) \cap (reach \cap issued) = {}
    OBVIOUS
  <2> HIDE DEF reach
  <2>2. Cardinality((reach \ issued) \cup (reach \cap issued))
          = Cardinality(reach \ issued) + Cardinality(reach \cap issued)
            - Cardinality((reach \ issued) \cap (reach \cap issued))
    BY <1>2, FS_Union
  <2> QED
    BY <1>3, <2>1, <2>2, FS_EmptySet
<1>5. /\ IsFiniteSet(Result(q, got, "page"))
      /\ Cardinality(Result(q, got, "page")) <= Cardinality(reach)
  <2>1. Result(q, got, "page") = Page(Projections(reach))
    BY ByStatus DEF Result, listProjection
  <2>2. IsFiniteSet(Projections(reach))
        /\ Cardinality(Projections(reach)) <= Cardinality(reach)
    BY <1>2, Projected
  <2>3. Page(Projections(reach)) \in SUBSET Projections(reach)
    BY DEF Page
  <2> HIDE DEF reach
  <2>4. /\ IsFiniteSet(Page(Projections(reach)))
        /\ Cardinality(Page(Projections(reach))) <= Cardinality(Projections(reach))
        /\ Cardinality(Page(Projections(reach))) \in Nat
        /\ Cardinality(Projections(reach)) \in Nat
    BY <2>2, <2>3, FS_Subset, FS_CardinalityType
  <2> QED
    BY <1>3, <2>1, <2>2, <2>4
<1>6. q.kind # "craList" => Result(q, got, "total") = Cardinality(reach)
  BY ByStatus DEF Result, countInvoices
<1>7. /\ Result(q, got, "all") = Cardinality(reach)
      /\ Result(q, got, "drafts") = Cardinality(reach \ issued)
      /\ Result(q, got, "issued") = Cardinality(reach \cap issued)
  BY ByStatus DEF Result, countInvoices
<1>8. Result(q, got, "cancelled") = 0
  BY ByStatus, FS_EmptySet DEF Result, countInvoices
<1>9. /\ Result(q, got, "sum") \in Nat
      /\ Cardinality(reach \cap issued) <= Result(q, got, "sum")
  <2>1. \A draft \in reach \cap issued :
          P!QuarterDays(draft.lines) \in Nat /\ P!QuarterDays(draft.lines) > 0
    BY <1>1, OfValidated DEF FiniteTables
  <2>2. Result(q, got, "sum") = sumCents(reach \cap issued)
    BY ByStatus DEF Result
  <2> HIDE DEF reach
  <2> QED
    BY <1>2, <2>1, <2>2, CentsCount
<1>10. Cardinality(reach \cap issued) = Cardinality(Result(q, got, "recent"))
  <2>1. Result(q, got, "recent") = Projections(reach \cap issued)
    BY ByStatus DEF Result, recentIssued
  <2>2. \A one, two \in reach \cap issued :
          one.month = two.month /\ one.client = two.client => one = two
    BY <1>1, OnePerClient DEF FiniteTables
  <2> HIDE DEF reach
  <2> QED
    BY <1>2, <2>1, <2>2, Projected
<1>11. \A item \in Result(q, got, "oldest") : \E draft \in reach : draft.month = item.month
  <2>1. Result(q, got, "oldest") \subseteq Projections(reach \ issued)
    BY ByStatus DEF Result, oldestDrafts
  <2> QED
    BY <2>1 DEF Projections, toProjection
<1> QED
  BY <1>1, <1>2, <1>3, <1>4, <1>5, <1>6, <1>7, <1>8, <1>9, <1>10, <1>11

\* The tables grow under a request.
LEMMA GrowsUnder ==
    ASSUME RequestOK, CountsGrow, Keeps, FiniteTables', Within \subseteq Within',
           issued \subseteq issued', reading # NoRequest
    PROVE  CountsGrow'
<1> DEFINE q == reading.request
<1>1. /\ reading'.request = q /\ Got' = Got
  BY DEF Keeps, Got
<1>2. /\ IsFiniteSet(Within') /\ IsFiniteSet(Within' \cap issued')
      /\ Within \in SUBSET Within' /\ Within \cap issued \in SUBSET (Within' \cap issued')
  <2>1. Within' \in SUBSET invoices'
    BY DEF Within, InvoicesOfOffice
  <2>2. IsFiniteSet(Within')
    BY <2>1, FS_Subset DEF FiniteTables
  <2>3. IsFiniteSet(Within' \cap issued')
    BY <2>2, FS_Subset
  <2> QED
    BY <2>2, <2>3
<1>3. /\ Cardinality(Within) <= Cardinality(Within')
      /\ Cardinality(Within \cap issued) <= Cardinality(Within' \cap issued')
      /\ Cardinality(Within) \in Nat /\ Cardinality(Within') \in Nat
      /\ Cardinality(Within \cap issued) \in Nat /\ Cardinality(Within' \cap issued') \in Nat
  BY <1>2, FS_Subset, FS_CardinalityType
<1>4. CountsAreNat /\ PageCounted /\ AllCounted /\ IssuedCounted /\ OldestFound
  BY DEF CountsGrow
<1>5. CountsAreNat'
  BY <1>1, <1>4 DEF CountsAreNat
<1>6. PageCounted'
  <2>1. "page" \in DOMAIN Got => Cardinality(Got.page) \in Nat
    BY <1>4, FS_CardinalityType DEF PageCounted
  <2> QED
    BY <1>1, <1>3, <1>4, <2>1 DEF PageCounted
<1>7. AllCounted'
  <2>1. "all" \in DOMAIN Got => q.kind = "invoiceList"
    BY HadBefore, WhoAsks
  <2>2. /\ "all" \in DOMAIN Got => Got.all \in Nat
        /\ "all" \in DOMAIN Got /\ "drafts" \in DOMAIN Got => Got.drafts \in Nat
    BY <1>4, <2>1 DEF CountsAreNat
  <2> QED
    BY <1>1, <1>3, <1>4, <2>2 DEF AllCounted
<1>8. IssuedCounted'
  <2>1. q.kind = "billingDashboard" /\ "issued" \in DOMAIN Got => Got.issued \in Nat
    BY <1>4 DEF CountsAreNat
  <2> QED
    BY <1>1, <1>3, <1>4, <2>1 DEF IssuedCounted
<1>9. OldestFound'
  BY <1>1, <1>2, <1>4 DEF OldestFound
<1> QED
  BY <1>1, <1>5, <1>6, <1>7, <1>8, <1>9 DEF CountsGrow

\* The month behind a draft within the reach of billing is within it too.
LEMMA SourceInReach ==
    ASSUME P!TInv, P!FiniteLines, NEW q \in Requests, q.kind = "billingDashboard",
           NEW draft \in InvoicesOfOffice(q.by)
    PROVE  draft.month \in CrasOfOffice(q.by)
<1>1. RoleOf[q.by] = "billing"
  BY RequestKinds DEF Carriers
<1>2. readScope(q.by, "cra") = "office"
  BY <1>1 DEF readScope, READ_SCOPE
<1>3. draft \in invoices /\ OfficeOf[Owner[draft.month]] = OfficeOf[q.by]
  BY DEF InvoicesOfOffice
<1>4. draft.month \in Months /\ cras[draft.month].status = "validated"
  BY <1>3, OfValidated
<1> QED
  BY <1>2, <1>3, <1>4 DEF CrasOfOffice

\* One more statement of the request runs.
LEMMA CountsRun ==
    ASSUME P!TInv, FiniteTables, RequestOK, CountsGrow, RunsNext, UNCHANGED << vars, issued >>
    PROVE  CountsGrow'
<1> DEFINE q == reading.request
           name == NextStatement
           reach == InvoicesOfOffice(q.by)
           read(other) == other \in DOMAIN Got
<1>1. /\ q \in Requests /\ q.kind \in Kinds /\ reading # NoRequest /\ reading' # NoRequest
      /\ reading'.request = q
      /\ name \notin DOMAIN Got /\ DOMAIN Got' = DOMAIN Got \cup {name}
      /\ Got'[name] = Result(q, Got, name)
      /\ \A other \in DOMAIN Got : Got'[other] = Got[other]
  BY Reading, RequestKinds DEF RunsNext, Open
<1>2. Within = reach /\ Within' = reach /\ issued' = issued
  BY <1>1 DEF Within, InvoicesOfOffice, readScope, vars, timesheet, Asker
<1>3. CountsAreNat /\ PageCounted /\ AllCounted /\ IssuedCounted /\ OldestFound
  BY <1>1 DEF CountsGrow
<1>4. /\ IsFiniteSet(reach) /\ Cardinality(reach) \in Nat
      /\ Cardinality(reach \cap issued) \in Nat
  BY <1>1, Counted
<1>5. CountsAreNat'
  <2>1. SUFFICES ASSUME q.kind \in {"invoiceList", "billingDashboard"},
                        name \in {"total", "all", "drafts", "issued", "cancelled", "sum"}
                 PROVE  Result(q, Got, name) \in Nat
    BY <1>1, <1>3 DEF CountsAreNat
  <2>2. /\ q.kind # "craList" => Result(q, Got, "total") \in Nat
        /\ Result(q, Got, "all") \in Nat /\ Result(q, Got, "drafts") \in Nat
        /\ Result(q, Got, "issued") \in Nat /\ Result(q, Got, "cancelled") \in Nat
        /\ Result(q, Got, "sum") \in Nat
    <3>1. Result(q, Got, "cancelled") = 0
      BY <1>1, Counted
    <3> QED
      BY <1>1, <1>4, <3>1, Counted
  <2>3. CASE name = "total"
    BY <2>1, <2>2, <2>3
  <2>4. CASE name \in {"all", "drafts"}
    BY <2>2, <2>4
  <2>5. CASE name \in {"issued", "cancelled", "sum"}
    BY <2>2, <2>5
  <2> QED
    BY <2>1, <2>3, <2>4, <2>5
<1>6. PageCounted'
  <2>1. CASE name = "page"
    <3>1. "total" \notin DOMAIN Got
      BY <1>1, <2>1, HadBefore, RanBefore, WhoAsks, CountOrder
    <3>2. /\ IsFiniteSet(Result(q, Got, "page"))
          /\ Cardinality(Result(q, Got, "page")) <= Cardinality(reach)
      BY <1>1, Counted
    <3> QED
      BY <1>1, <1>2, <2>1, <3>1, <3>2 DEF PageCounted
  <2>2. CASE name = "total"
    <3>1. read("page") => q.kind = "invoiceList"
      BY <1>1, HadBefore, WhoAsks
    <3>2. read("page") => Result(q, Got, "total") = Cardinality(reach)
      BY <1>1, <3>1, Counted
    <3> QED
      BY <1>1, <1>2, <1>3, <2>2, <3>2 DEF PageCounted
  <2>3. CASE name \notin {"page", "total"}
    BY <1>1, <1>2, <1>3, <2>3 DEF PageCounted
  <2> QED
    BY <2>1, <2>2, <2>3
<1>7. AllCounted'
  <2>1. "all" \in DOMAIN Got' => q.kind = "invoiceList"
    BY <1>1, HadBefore, RanBefore, WhoAsks
  <2>2. CASE name = "all"
    <3>1. "drafts" \notin DOMAIN Got
      BY <1>1, <2>1, <2>2, HadBefore, CountOrder
    <3>2. Result(q, Got, "all") = Cardinality(reach)
      BY <1>1, Counted
    <3> QED
      BY <1>1, <1>2, <1>4, <2>2, <3>1, <3>2 DEF AllCounted
  <2>3. CASE name = "drafts" /\ read("all")
    <3>1. "issued" \notin DOMAIN Got
      BY <1>1, <2>1, <2>3, HadBefore, CountOrder
    <3>2. Result(q, Got, "drafts") + Cardinality(reach \cap issued) = Cardinality(reach)
      BY <1>1, Counted
    <3> QED
      BY <1>1, <1>2, <1>3, <2>3, <3>1, <3>2 DEF AllCounted
  <2>4. CASE name = "issued" /\ read("all")
    <3>1. "drafts" \in DOMAIN Got
      BY <1>1, <2>1, <2>4, RanBefore, CountOrder
    <3>2. Result(q, Got, "issued") = Cardinality(reach \cap issued)
      BY <1>1, Counted
    <3> QED
      BY <1>1, <1>2, <1>3, <2>4, <3>1, <3>2 DEF AllCounted
  <2>5. CASE name \notin {"all", "drafts", "issued"}
    BY <1>1, <1>2, <1>3, <2>5 DEF AllCounted
  <2>6. CASE name # "all" /\ ~ read("all")
    BY <1>1, <2>6 DEF AllCounted
  <2> QED
    BY <2>2, <2>3, <2>4, <2>5, <2>6
<1>8. IssuedCounted'
  <2>1. SUFFICES ASSUME q.kind = "billingDashboard" PROVE IssuedCounted'
    BY <1>1 DEF IssuedCounted
  <2>2. CASE name = "issued"
    <3>1. "sum" \notin DOMAIN Got /\ "recent" \notin DOMAIN Got
      BY <1>1, <2>1, <2>2, HadBefore, CountOrder
    <3>2. Result(q, Got, "issued") = Cardinality(reach \cap issued)
      BY <1>1, Counted
    <3> QED
      BY <1>1, <1>2, <1>4, <2>2, <3>1, <3>2 DEF IssuedCounted
  <2>3. CASE name = "sum"
    <3>1. /\ Result(q, Got, "sum") \in Nat
          /\ Cardinality(reach \cap issued) <= Result(q, Got, "sum")
      BY <1>1, Counted
    <3>2. read("issued") => Got.issued \in Nat
      BY <1>3, <2>1 DEF CountsAreNat
    <3> QED
      BY <1>1, <1>2, <1>3, <1>4, <2>1, <2>3, <3>1, <3>2 DEF IssuedCounted
  <2>4. CASE name = "recent"
    <3>1. Cardinality(reach \cap issued) = Cardinality(Result(q, Got, "recent"))
      BY <1>1, Counted
    <3> QED
      BY <1>1, <1>2, <1>3, <2>1, <2>4, <3>1 DEF IssuedCounted
  <2>5. CASE name \notin {"issued", "sum", "recent"}
    BY <1>1, <1>2, <1>3, <2>5 DEF IssuedCounted
  <2> QED
    BY <2>2, <2>3, <2>4, <2>5
<1>9. OldestFound'
  <2>1. "oldest" \in DOMAIN Got' => q.kind = "billingDashboard"
    BY <1>1, HadBefore, RanBefore, WhoAsks
  <2>2. CASE name = "oldest"
    <3>1. "sources" \notin DOMAIN Got
      BY <1>1, <2>1, <2>2, HadBefore, CountOrder
    <3>2. \A item \in Result(q, Got, "oldest") : \E draft \in reach : draft.month = item.month
      BY <1>1, Counted
    <3> QED
      BY <1>1, <1>2, <2>2, <3>1, <3>2 DEF OldestFound
  <2>3. CASE name = "sources" /\ read("oldest")
    <3>1. \A item \in Got.oldest : item.month \in CrasOfOffice(q.by)
      BY <1>1, <1>2, <1>3, <2>1, <2>3, SourceInReach DEF OldestFound, FiniteTables
    <3>2. Result(q, Got, "sources")
            = CraItems(CrasOfOffice(q.by) \cap { item.month : item \in Got.oldest })
      BY <2>1, <2>3, <1>1 DEF Result, findListItemsByIds
    <3>3. ASSUME NEW item \in Got.oldest
          PROVE  item.month \in { source.month : source \in Result(q, Got, "sources") }
      <4> DEFINE source == toCraListItem(item.month)
      <4>1. item.month \in CrasOfOffice(q.by) \cap { other.month : other \in Got.oldest }
        BY <3>1
      <4>2. source \in Result(q, Got, "sources")
        BY <3>2, <4>1 DEF CraItems
      <4>3. source.month = item.month
        BY DEF toCraListItem
      <4> HIDE DEF source
      <4> QED
        BY <4>2, <4>3
    <3> QED
      BY <1>1, <2>3, <3>3 DEF OldestFound
  <2>4. CASE name \notin {"oldest", "sources"}
    BY <1>1, <1>2, <1>3, <2>4 DEF OldestFound
  <2>5. CASE name # "oldest" /\ ~ read("oldest")
    BY <1>1, <2>5 DEF OldestFound
  <2> QED
    BY <2>2, <2>3, <2>4, <2>5
<1> QED
  BY <1>1, <1>5, <1>6, <1>7, <1>8, <1>9 DEF CountsGrow

LEMMA NextCountsGrow ==
    ASSUME FirmInv, FiniteTables, RequestOK, CountsGrow, [ReadNext]_<< vars, readVars >>
    PROVE  FiniteTables' /\ CountsGrow'
<1>1. P!TInv
  BY SameInv DEF FirmInv
<1>2. CASE Keeps /\ [Next]_vars /\ issued' = issued
  <2>1. invoices \subseteq invoices' /\ FiniteTables'
    BY <1>2, MonthNext, TablesStep
  <2>2. reading # NoRequest => Within \subseteq Within'
    BY <1>2, <2>1 DEF Keeps, Within, Asker, InvoicesOfOffice, readScope
  <2>3. CASE reading # NoRequest
    BY <1>2, <2>1, <2>2, <2>3, GrowsUnder
  <2>4. CASE reading = NoRequest
    <3>1. reading' = NoRequest
      BY <1>2, <2>4 DEF Keeps
    <3> QED
      BY <2>1, <3>1 DEF CountsGrow
  <2> QED
    BY <2>1, <2>3, <2>4
<1>3. CASE UNCHANGED vars
  <2>1. FiniteTables' /\ cras' = cras /\ invoices' = invoices
    BY <1>3 DEF vars, timesheet, FiniteTables, P!FiniteLines
  <2>2. CASE Keeps /\ \E draft \in invoices \ issued : issued' = issued \cup {draft}
    <3>1. issued \subseteq issued'
      BY <2>2
    <3>2. reading # NoRequest => Within \subseteq Within'
      BY <2>1, <2>2 DEF Keeps, Within, Asker, InvoicesOfOffice, readScope
    <3>3. CASE reading # NoRequest
      BY <2>1, <2>2, <3>1, <3>2, <3>3, GrowsUnder
    <3>4. CASE reading = NoRequest
      <4>1. reading' = NoRequest
        BY <2>2, <3>4 DEF Keeps
      <4> QED
        BY <2>1, <4>1 DEF CountsGrow
    <3> QED
      BY <2>1, <3>3, <3>4
  <2>3. ASSUME NEW q \in Requests, Asks(q) PROVE CountsGrow'
    BY <2>3 DEF Asks, CountsGrow, Got, CountsAreNat, PageCounted, AllCounted, IssuedCounted,
                OldestFound
  <2>4. CASE RunsNext /\ issued' = issued
    <3>1. UNCHANGED << vars, issued >>
      BY <1>3, <2>4
    <3> QED
      BY <1>1, <2>1, <2>4, <3>1, CountsRun
  <2>5. CASE Fails /\ issued' = issued
    BY <1>3, <2>1, <2>5 DEF Fails, CountsGrow, Got, Within, Asker, InvoicesOfOffice, readScope,
                      CountsAreNat, PageCounted, AllCounted, IssuedCounted, OldestFound
  <2>6. CASE reading' = NoRequest
    BY <2>1, <2>6 DEF CountsGrow
  <2>7. CASE Keeps /\ issued' = issued
    <3>1. UNCHANGED << vars, issued >>
      BY <1>3, <2>7
    <3>2. [Next]_vars
      BY <3>1
    <3> QED
      BY <1>2, <2>7, <3>2
  <2> QED
    BY <2>1, <2>2, <2>3, <2>4, <2>5, <2>6, <2>7, ReadKinds
<1> QED
  BY <1>2, <1>3, ReadKinds

LEMMA GrownCounts ==
    ASSUME RequestOK, CountsGrow
    PROVE  CountsLoseNone
<1>1. ASSUME Answered({"invoiceList"})
      PROVE  /\ Cardinality(Got.page) <= Got.total
             /\ Got.all <= Got.drafts + Got.issued + Got.cancelled
  <2>1. reading # NoRequest /\ reading.request.kind = "invoiceList"
    BY <1>1 DEF Answered
  <2>2. {"page", "total", "all", "drafts", "issued", "cancelled"} \subseteq DOMAIN Got
    BY <1>1, <2>1, HasAll, CountOrder
  <2>3. CountsAreNat /\ PageCounted /\ AllCounted
    BY <2>1 DEF CountsGrow
  <2>4. Cardinality(Got.page) <= Got.total /\ Got.all <= Got.drafts + Got.issued
    BY <2>2, <2>3 DEF PageCounted, AllCounted
  <2>5. {Got.all, Got.drafts, Got.issued, Got.cancelled} \subseteq Nat
    BY <2>1, <2>2, <2>3 DEF CountsAreNat
  <2> QED
    BY <2>4, <2>5
<1>2. ASSUME Answered({"billingDashboard"})
      PROVE  /\ \A item \in Got.oldest : item.month \in { source.month : source \in Got.sources }
             /\ Got.issued <= Got.sum
             /\ Got.issued < PageSize => Got.issued <= Cardinality(Got.recent)
  <2>1. reading # NoRequest /\ reading.request.kind = "billingDashboard"
    BY <1>2 DEF Answered
  <2>2. {"issued", "sum", "oldest", "recent", "sources"} \subseteq DOMAIN Got
    BY <1>2, <2>1, HasAll, CountOrder
  <2>3. IssuedCounted /\ OldestFound
    BY <2>1 DEF CountsGrow
  <2> QED
    BY <2>1, <2>2, <2>3 DEF IssuedCounted, OldestFound
<1> QED
  BY <1>1, <1>2 DEF CountsLoseNone

-----------------------------------------------------------------------------
(***************************************************************************)
(* What the pre-facturier shows of a validated month.                      *)
(***************************************************************************)

\* A line of a validated month, as the sums take it.
LEMMA LinesOfMonth ==
    ASSUME P!TInv, P!FiniteLines, NEW m \in Months, cras[m].status = "validated"
    PROVE  /\ cras[m].lines \in SUBSET P!Lines
           /\ P!IsFiniteSet(cras[m].lines) /\ IsFiniteSet(cras[m].lines)
           /\ \A line \in cras[m].lines : /\ line.quarterDays \in Nat
                                          /\ line.mission \in Missions \cup {None}
           /\ P!DraftedFrom(m) = P!DraftsFrom(m, cras[m].lines, cras[m].validatedBy)
           /\ P!DeclinedFrom(m) = P!DeclinesFrom(m, cras[m].lines)
<1>1. /\ cras[m].lines \in SUBSET P!Lines /\ P!IsFiniteSet(cras[m].lines)
      /\ P!DraftedFrom(m) = P!DraftsFrom(m, cras[m].lines, cras[m].validatedBy)
      /\ P!DeclinedFrom(m) = P!DeclinesFrom(m, cras[m].lines)
  BY DEF P!TInv, P!TypeOK, P!Rows, P!FiniteLines, P!DocumentsAgree
<1>2. \A line \in cras[m].lines : /\ line.quarterDays \in Nat
                                  /\ line.mission \in Missions \cup {None}
  BY <1>1 DEF P!Lines, P!QuarterDaysPerDay
<1> QED
  BY <1>1, <1>2, SameFinite

\* What is declined of a month is worth the days it was declined for.
LEMMA LeavesAmount ==
    ASSUME P!TInv, P!FiniteLines, NEW m \in Months, cras[m].status = "validated"
    PROVE  T!QuarterDays({ [ quarterDays |-> record.quarterDays, why |-> record.reason,
                             mission |-> record.mission ]
                           : record \in { other \in declined : other.month = m } })
             = T!QuarterDays(LeavesOf(m))
<1> DEFINE lines == cras[m].lines
           leaves == LeavesOf(m)
           Blocked(mission) == [ quarterDays |-> P!QuarterDaysFor(lines, mission),
                                 why |-> Verdict[mission], mission |-> mission ]
           records == { [ quarterDays |-> record.quarterDays, why |-> record.reason,
                          mission |-> record.mission ]
                        : record \in { other \in declined : other.month = m } }
           f == [ line \in leaves |-> Blocked(line.mission) ]
           p == [ r \in records |-> { line \in leaves : f[line] = r } ]
<1>1. /\ lines \in SUBSET P!Lines /\ IsFiniteSet(lines)
      /\ \A line \in lines : line.quarterDays \in Nat
      /\ { other \in declined : other.month = m } = P!DeclinesFrom(m, lines)
  BY LinesOfMonth DEF P!DeclinedFrom
<1>2. leaves \in SUBSET lines /\ P!IsFiniteSet(leaves)
  <2>1. leaves \in SUBSET lines
    BY DEF LeavesOf
  <2> QED
    BY <1>1, <2>1, FS_Subset, SameFinite
<1>3. records = { Blocked(mission)
                  : mission \in { u \in P!Worked(lines) : Verdict[u] \in Reasons } }
  <2> DEFINE Declined(mission) == [ month |-> m, mission |-> mission, reason |-> Verdict[mission],
                                    quarterDays |-> P!QuarterDaysFor(lines, mission) ]
             Shown(record) == [ quarterDays |-> record.quarterDays, why |-> record.reason,
                                mission |-> record.mission ]
             some == { u \in P!Worked(lines) : Verdict[u] \in Reasons }
  <2>1. records = { Shown(record) : record \in { Declined(mission) : mission \in some } }
    BY <1>1 DEF P!DeclinesFrom
  <2>2. \A mission : Shown(Declined(mission)) = Blocked(mission)
    OBVIOUS
  <2> HIDE DEF Declined, Shown, some, Blocked, records
  <2>3. records = { Blocked(mission) : mission \in some }
    BY <2>1, <2>2
  <2> QED
    BY <2>3 DEF some
<1>4. records = { Blocked(line.mission) : line \in leaves }
  <2> HIDE DEF Blocked, records
  <2> QED
    BY <1>3 DEF P!Worked, LeavesOf
<1>5. ASSUME NEW r \in records
      PROVE  /\ \E line \in leaves : f[line] = r
             /\ r.quarterDays = P!QuarterDays({ line \in leaves : f[line] = r })
  <2>1. PICK line \in leaves : r = Blocked(line.mission)
    BY <1>4
  <2>2. { other \in leaves : f[other] = r } = { other \in lines : other.mission = line.mission }
    BY <2>1 DEF LeavesOf
  <2>3. r.quarterDays = P!QuarterDaysFor(lines, line.mission)
    BY <2>1
  <2> QED
    BY <2>1, <2>2, <2>3 DEF P!QuarterDaysFor
<1>6. f \in [ leaves -> records ]
  <2> HIDE DEF Blocked, records, leaves
  <2> QED
    BY <1>4
<1>7. \A line \in leaves : line.quarterDays \in Nat
  BY <1>1, <1>2
<1> HIDE DEF f, records, leaves, lines, Blocked
<1>8. /\ P!Shares(leaves, records, f, p)
      /\ \A r \in records : r.quarterDays = P!QuarterDays(p[r])
  BY <1>5, <1>6 DEF P!Shares
<1> HIDE DEF p
<1>9. P!QuarterDays(records) = P!QuarterDays(leaves)
  BY <1>2, <1>7, <1>8, Assumed, P!QuarterDaysOfRecords
<1> QED
  BY <1>9, SameSums DEF records, leaves

\* The amount of a set of items is the sum of theirs.
LEMMA BillableSum ==
    ASSUME NEW items, P!IsFiniteSet(items), \A item \in items : item.amount \in Nat
    PROVE  \E g : /\ P!IsSum(g, items, [ item \in items |-> item.amount ])
                  /\ BillableCents(items) = g[items]
<1> DEFINE w == [ item \in items |-> item.amount ]
           Adds(g) == g = [ s \in SUBSET items |->
                            IF s = {} THEN 0
                            ELSE (CHOOSE x \in s : TRUE).amount
                                 + g[s \ {CHOOSE x \in s : TRUE}] ]
           iter == CHOOSE g : Adds(g)
<1>1. BillableCents(items) = iter[items]
  BY DEF BillableCents, MapThenSumSet, MapThenFoldSet
<1>2. \A g : Adds(g) <=> P!IsSum(g, items, w)
  BY Assumed, P!ChosenIn DEF P!Chosen, P!IsSum
<1>3. \E g : P!IsSum(g, items, w)
  BY Assumed, P!SumExists
<1>4. Adds(iter)
  <2> HIDE DEF Adds
  <2> QED
    BY <1>2, <1>3
<1> QED
  BY <1>1, <1>2, <1>4

\* The drafts of a month are worth its days on the missions of clients.
LEMMA BillsAmount ==
    ASSUME P!TInv, P!FiniteLines, NEW m \in Months, cras[m].status = "validated"
    PROVE  BillableCents(Projections({ draft \in invoices : draft.month = m }))
             = T!QuarterDays(BillsOf(m))
<1> DEFINE lines == cras[m].lines
           bills == BillsOf(m)
           drafts == { draft \in invoices : draft.month = m }
           items == Projections(drafts)
           Draft(client) == CHOOSE draft \in drafts : draft.client = client
           f == [ line \in bills |-> toProjection(Draft(Verdict[line.mission])) ]
           v == [ item \in items |-> item.amount ]
           p == [ item \in items |-> { line \in bills : f[line] = item } ]
<1>1. /\ lines \in SUBSET P!Lines /\ IsFiniteSet(lines) /\ P!IsFiniteSet(lines)
      /\ \A line \in lines : line.quarterDays \in Nat
      /\ drafts = P!DraftsFrom(m, lines, cras[m].validatedBy)
  BY LinesOfMonth DEF P!DraftedFrom
<1>2. bills \in SUBSET lines /\ P!IsFiniteSet(bills)
  <2>1. bills \in SUBSET lines
    BY DEF BillsOf
  <2> QED
    BY <1>1, <2>1, FS_Subset, SameFinite
<1>3. ASSUME NEW line \in bills
      PROVE  /\ Draft(Verdict[line.mission]) \in drafts
             /\ Draft(Verdict[line.mission]).client = Verdict[line.mission]
  <2>1. Verdict[line.mission] \in { Verdict[u] : u \in P!Worked(lines) } \cap Clients
    BY DEF BillsOf, P!Worked
  <2>2. \E draft \in drafts : draft.client = Verdict[line.mission]
    <3> DEFINE Made(client) ==
                 [ month |-> m, client |-> client, validatedBy |-> cras[m].validatedBy,
                   lines |-> { [ mission |-> u, quarterDays |-> P!QuarterDaysFor(lines, u) ]
                               : u \in { w \in P!Worked(lines) : Verdict[w] = client } } ]
               clients == { Verdict[u] : u \in P!Worked(lines) } \cap Clients
    <3>1. \E draft \in P!DraftsFrom(m, lines, cras[m].validatedBy) :
            draft.client = Verdict[line.mission]
      <4>1. P!DraftsFrom(m, lines, cras[m].validatedBy) = { Made(client) : client \in clients }
        BY DEF P!DraftsFrom
      <4>2. Made(Verdict[line.mission]).client = Verdict[line.mission]
        OBVIOUS
      <4>3. Verdict[line.mission] \in clients
        BY <2>1
      <4> HIDE DEF Made, clients, lines
      <4> QED
        BY <4>1, <4>2, <4>3
    <3> HIDE DEF drafts, lines
    <3> QED
      BY <1>1, <3>1
  <2> HIDE DEF drafts
  <2> QED
    BY <2>2
<1>4. \A one, two \in drafts : one.client = two.client => one = two
  BY OnePerClient
<1>5. ASSUME NEW draft \in drafts
      PROVE  /\ P!QuarterDays(draft.lines)
                  = P!QuarterDays({ line \in bills : Verdict[line.mission] = draft.client })
             /\ P!QuarterDays(draft.lines) \in Nat
             /\ \E line \in bills : Verdict[line.mission] = draft.client
  <2>1. draft \in P!DraftsFrom(m, lines, cras[m].validatedBy)
    BY <1>1
  <2>2. draft.client \in { Verdict[u] : u \in P!Worked(lines) } \cap Clients
    BY <2>1 DEF P!DraftsFrom
  <2>3. /\ P!QuarterDays(draft.lines) = P!QuarterDays(P!DaysOfClient(lines, draft.client))
        /\ P!QuarterDays(draft.lines) \in Nat
    <3> HIDE DEF drafts, lines
    <3> QED
      BY <1>1, <2>1, Assumed, P!DraftAmount
  <2>4. P!DaysOfClient(lines, draft.client)
          = { line \in bills : Verdict[line.mission] = draft.client }
    BY <2>2 DEF BillsOf, P!DaysOfClient
  <2>5. \E line \in bills : Verdict[line.mission] = draft.client
    BY <2>2 DEF BillsOf, P!Worked
  <2> QED
    BY <2>3, <2>4, <2>5
<1>6. ASSUME NEW item \in items
      PROVE  /\ \E line \in bills : f[line] = item
             /\ item.amount = P!QuarterDays({ line \in bills : f[line] = item })
             /\ item.amount \in Nat
  <2>1. PICK draft \in drafts : item = toProjection(draft)
    BY DEF Projections
  <2>2. item.amount = P!QuarterDays(draft.lines) /\ item.client = draft.client
    BY <2>1, SameSums DEF toProjection
  <2>3. ASSUME NEW line \in bills
        PROVE  f[line] = item <=> Verdict[line.mission] = draft.client
    <3>1. CASE Verdict[line.mission] = draft.client
      <4>1. Draft(Verdict[line.mission]) = draft
        BY <1>3, <1>4, <3>1
      <4> QED
        BY <2>1, <3>1, <4>1
    <3>2. CASE Verdict[line.mission] # draft.client
      <4>1. f[line].client = Verdict[line.mission]
        BY <1>3 DEF toProjection
      <4> QED
        BY <2>2, <3>2, <4>1
    <3> QED
      BY <3>1, <3>2
  <2>4. { line \in bills : f[line] = item }
          = { line \in bills : Verdict[line.mission] = draft.client }
    BY <2>3
  <2> HIDE DEF f, bills
  <2> QED
    BY <1>5, <2>2, <2>3, <2>4
<1>7. f \in [ bills -> items ]
  <2> HIDE DEF bills, drafts, Draft, toProjection
  <2>1. \A line \in bills : toProjection(Draft(Verdict[line.mission])) \in items
    BY <1>3 DEF Projections
  <2> QED
    BY <2>1
<1>8. \A line \in bills : line.quarterDays \in Nat
  BY <1>1, <1>2
<1> HIDE DEF f, drafts, bills, lines, Draft, items
<1>9. /\ P!Shares(bills, items, f, p)
      /\ v \in [ items -> Nat ] /\ \A item \in items : v[item] = P!QuarterDays(p[item])
  BY <1>6, <1>7 DEF P!Shares
<1> HIDE DEF v, p
<1>10. /\ P!IsFiniteSet(items)
       /\ \A h : P!IsSum(h, items, v) => h[items] = P!QuarterDays(bills)
  BY <1>2, <1>8, <1>9, Assumed, P!AmountsOfParts
<1>11. PICK g : P!IsSum(g, items, v) /\ BillableCents(items) = g[items]
  BY <1>6, <1>10, BillableSum DEF v
<1>12. BillableCents(items) = P!QuarterDays(bills)
  BY <1>10, <1>11
<1> QED
  BY <1>12, SameSums DEF items, drafts, bills

\* Each day worked is of a client or declined for a reason.
LEMMA WorkAddsUp ==
    ASSUME P!TInv, P!FiniteLines, NEW m \in Months, cras[m].status = "validated"
    PROVE  T!QuarterDays(LeavesOf(m)) + T!QuarterDays(BillsOf(m))
             = T!QuarterDays({ line \in cras[m].lines : line.mission # None })
<1> DEFINE lines == cras[m].lines
           leaves == LeavesOf(m)
           bills == BillsOf(m)
<1>1. /\ P!IsFiniteSet(lines) /\ \A line \in lines : line.quarterDays \in Nat
      /\ \A line \in lines : line.mission \in Missions \cup {None}
  BY LinesOfMonth
<1>2. /\ leaves \in SUBSET lines /\ bills \in SUBSET lines /\ leaves \cap bills = {}
      /\ leaves \cup bills = { line \in lines : line.mission # None }
  BY <1>1, VerdictAssumption DEF LeavesOf, BillsOf
<1> HIDE DEF lines, leaves, bills
<1>3. P!QuarterDays(leaves \cup bills) = P!QuarterDays(leaves) + P!QuarterDays(bills)
  BY <1>1, <1>2, Assumed, P!QuarterDaysAdd
<1> QED
  BY <1>2, <1>3, SameSums DEF lines, leaves, bills

\* Who reads a pre-facturier reads the invoices of the office.
LEMMA ReadsInvoices ==
    ASSUME NEW q \in Requests, q.kind \in { "preFacturier", "managerDashboard" }
    PROVE  readScope(q.by, "invoice") = "office"
<1>1. RoleOf[q.by] \in {"manager", "billing"}
  BY RequestKinds DEF Carriers
<1> QED
  BY <1>1 DEF readScope, READ_SCOPE

LEMMA NextBillStands ==
    ASSUME FirmInv, FiniteTables, RequestOK, BillStands, [ReadNext]_<< vars, readVars >>
    PROVE  BillStands'
<1>1. P!TInv /\ P!FiniteLines
  BY SameInv DEF FirmInv, FiniteTables
<1>2. CASE Keeps /\ [Next]_vars
  <2>1. \A m \in Months : cras[m].status = "validated" => cras'[m] = cras[m]
    BY <1>2, MonthNext, TablesStep
  <2>2. CASE reading # NoRequest /\ "cras" \in DOMAIN Got
    <3>1. reading'.request = reading.request /\ Got' = Got
      BY <1>2, <2>2 DEF Keeps, Got
    <3>2. ASSUME NEW item \in Got.cras
          PROVE  /\ item.month \in Months /\ PeriodOf[item.month] = PeriodOf[Asked']
                 /\ OfficeOf[Owner[item.month]] = OfficeOf[Asker']
                 /\ item.status = "validated" =>
                      /\ cras'[item.month].status = "validated"
                      /\ cras'[item.month] = cras[item.month]
      BY <2>1, <2>2, <3>1 DEF BillStands, Asked, Asker
    <3>3. ASSUME NEW item \in Got.cras, item.status = "validated"
          PROVE  /\ LeavesOf(item.month)' = LeavesOf(item.month)
                 /\ BillsOf(item.month)' = BillsOf(item.month)
                 /\ BlockingOf(item)' = BlockingOf(item)
      BY <3>1, <3>2, <3>3 DEF LeavesOf, BillsOf, BlockingOf
    <3> QED
      BY <2>2, <3>1, <3>2, <3>3 DEF BillStands
  <2>3. CASE ~ (reading # NoRequest /\ "cras" \in DOMAIN Got)
    BY <1>2, <2>3 DEF Keeps, BillStands, Got
  <2> QED
    BY <2>2, <2>3
<1>3. CASE Fails /\ UNCHANGED vars
  BY <1>3 DEF Fails, BillStands, Got, Asked, Asker, LeavesOf, BillsOf, BlockingOf, vars, timesheet
<1>4. ASSUME NEW q \in Requests, Asks(q) PROVE BillStands'
  BY <1>4 DEF Asks, BillStands, Got
<1>5. CASE reading' = NoRequest
  BY <1>5 DEF BillStands
<1>6. CASE RunsNext /\ UNCHANGED vars
  <2> DEFINE q == reading.request
             name == NextStatement
             office == OfficeOf[q.by]
  <2>1. /\ q \in Requests /\ q.kind \in Kinds /\ reading # NoRequest /\ reading' # NoRequest
        /\ reading'.request = q
        /\ name \notin DOMAIN Got /\ DOMAIN Got' = DOMAIN Got \cup {name}
        /\ Got'[name] = Result(q, Got, name)
        /\ \A other \in DOMAIN Got : Got'[other] = Got[other]
    BY <1>6, Reading, RequestKinds DEF RunsNext, Open
  <2>2. /\ Asked' = q.month /\ Asked = q.month /\ Asker' = q.by /\ Asker = q.by
        /\ cras' = cras /\ invoices' = invoices /\ declined' = declined
    BY <1>6, <2>1 DEF Asked, Asker, vars, timesheet
  <2>3. ASSUME NEW m
        PROVE  LeavesOf(m)' = LeavesOf(m) /\ BillsOf(m)' = BillsOf(m)
    BY <2>2 DEF LeavesOf, BillsOf
  <2>4. CASE name = "cras"
    <3>1. "declined" \notin DOMAIN Got' /\ "projection" \notin DOMAIN Got'
      <4>1. q.kind \in { "preFacturier", "managerDashboard" }
        BY <1>6, <2>1, <2>4, RanBefore, WhoAsks
      <4>2. "declined" \notin DOMAIN Got /\ "projection" \notin DOMAIN Got
        BY <2>1, <2>4, <4>1, HadBefore, BillOrder
      <4> QED
        BY <2>1, <2>4, <4>2
    <3>2. Got'.cras = { toCraListItem(m) : m \in { n \in CrasOfOffice(q.by) :
                                                    PeriodOf[n] = PeriodOf[q.month] } }
      BY <2>1, <2>4 DEF Result, listPeriod, CraItems
    <3>3. ASSUME NEW item \in Got'.cras
          PROVE  /\ item.month \in Months /\ PeriodOf[item.month] = PeriodOf[q.month]
                 /\ OfficeOf[Owner[item.month]] = office
                 /\ item.status = cras[item.month].status
      <4>1. PICK m \in CrasOfOffice(q.by) : /\ item = toCraListItem(m)
                                            /\ PeriodOf[m] = PeriodOf[q.month]
        BY <3>2
      <4>2. m \in Months /\ OfficeOf[Owner[m]] = office
        BY <4>1 DEF CrasOfOffice
      <4>3. item.month = m /\ item.status = cras[m].status
        BY <4>1 DEF toCraListItem
      <4> QED
        BY <4>1, <4>2, <4>3
    <3> QED
      BY <2>1, <2>2, <3>1, <3>3 DEF BillStands
  <2>5. CASE name # "cras" /\ "cras" \in DOMAIN Got
    <3>1. q.kind \in { "preFacturier", "managerDashboard" }
      BY <2>1, <2>5, HadBefore, WhoAsks
    <3>2. /\ "cras" \in DOMAIN Got' /\ Got'.cras = Got.cras
          /\ \A item \in Got.cras :
               /\ item.month \in Months /\ PeriodOf[item.month] = PeriodOf[q.month]
               /\ OfficeOf[Owner[item.month]] = office
               /\ item.status = "validated" => cras[item.month].status = "validated"
      BY <2>1, <2>2, <2>5 DEF BillStands
    <3>3. ASSUME NEW item \in Got.cras, item.status = "validated", "declined" \in DOMAIN Got'
          PROVE  T!QuarterDays(BlockingOf(item)') = T!QuarterDays(LeavesOf(item.month))
      <4> DEFINE m == item.month
                 months == { other.month : other \in Got.cras }
      <4>1. CASE name # "declined"
        <5>1. "declined" \in DOMAIN Got /\ Got'.declined = Got.declined
          BY <2>1, <3>3, <4>1
        <5>2. BlockingOf(item)' = BlockingOf(item)
          BY <5>1 DEF BlockingOf
        <5> QED
          BY <2>1, <2>5, <3>3, <5>1, <5>2 DEF BillStands
      <4>2. CASE name = "declined"
        <5>1. Got'.declined = { record \in declined : /\ record.month \in months
                                                      /\ OfficeOf[Owner[record.month]] = office }
          BY <2>1, <3>1, <4>2, ReadsInvoices DEF Result, findDeclinedDays
        <5>2. OfMonth(Got'.declined, m) = { other \in declined : other.month = m }
          BY <3>2, <3>3, <5>1 DEF OfMonth
        <5>3. BlockingOf(item)' = { [ quarterDays |-> record.quarterDays, why |-> record.reason,
                                      mission |-> record.mission ]
                                    : record \in { other \in declined : other.month = m } }
          BY <3>3, <5>2 DEF BlockingOf
        <5> QED
          BY <1>1, <3>2, <3>3, <5>3, LeavesAmount
      <4> QED
        BY <4>1, <4>2
    <3>4. ASSUME NEW item \in Got.cras, item.status = "validated", "projection" \in DOMAIN Got'
          PROVE  BillableCents(OfMonth(Got'.projection, item.month))
                   = T!QuarterDays(BillsOf(item.month))
      <4> DEFINE m == item.month
                 shown == { draft \in InvoicesOfOffice(q.by) :
                              PeriodOf[draft.month] = PeriodOf[q.month] }
                 drafts == { draft \in invoices : draft.month = m }
      <4>1. CASE name # "projection"
        BY <2>1, <2>5, <3>4, <4>1 DEF BillStands
      <4>2. CASE name = "projection"
        <5>1. Got'.projection = Projections(shown)
          BY <2>1, <4>2 DEF Result, listPeriodProjection
        <5>2. drafts = { draft \in shown : draft.month = m }
          BY <2>1, <3>1, <3>2, <3>4, ReadsInvoices DEF InvoicesOfOffice
        <5>3. \A draft : toProjection(draft).month = draft.month
          BY DEF toProjection
        <5>4. OfMonth(Got'.projection, m) = Projections(drafts)
          <6> HIDE DEF shown, drafts, m
          <6> QED
            BY <5>1, <5>2, <5>3 DEF OfMonth, Projections
        <5> QED
          BY <1>1, <3>2, <3>4, <5>4, BillsAmount
      <4> QED
        BY <4>1, <4>2
    <3> QED
      BY <2>2, <2>3, <3>2, <3>3, <3>4 DEF BillStands
  <2>6. CASE name # "cras" /\ "cras" \notin DOMAIN Got
    BY <2>1, <2>6 DEF BillStands
  <2> QED
    BY <2>4, <2>5, <2>6
<1>7. CASE Keeps /\ UNCHANGED vars
  BY <1>2, <1>7
<1> QED
  BY <1>2, <1>3, <1>4, <1>5, <1>6, <1>7, ReadKinds

LEMMA NoneLate == MapThenSumSet(LAMBDA item : item.recorded, {}) = 0
<1> DEFINE Adds(g) == g = [ s \in SUBSET {} |->
                            IF s = {} THEN 0
                            ELSE (CHOOSE x \in s : TRUE).recorded
                                 + g[s \ {CHOOSE x \in s : TRUE}] ]
           iter == CHOOSE g : Adds(g)
<1>1. MapThenSumSet(LAMBDA item : item.recorded, {}) = iter[{}]
  BY DEF MapThenSumSet, MapThenFoldSet
<1>2. Adds([ s \in SUBSET {} |-> 0 ])
  OBVIOUS
<1>3. \A g : Adds(g) => g[{}] = 0
  OBVIOUS
<1> HIDE DEF Adds
<1> QED
  BY <1>1, <1>2, <1>3

LEMMA StandsBilled ==
    ASSUME FirmInv, FiniteTables, RequestOK, BillStands
    PROVE  BilledShownWhole
<1> SUFFICES ASSUME Answered({"preFacturier", "managerDashboard"})
             PROVE  /\ \A row \in PreFacturierRows : row.item.status = "validated" =>
                         /\ MapThenSumSet(LAMBDA b : b.quarterDays, row.blocking)
                            + BillableCents(OfMonth(Got.projection, row.item.month))
                            = T!QuarterDays({ line \in cras[row.item.month].lines :
                                                line.mission # None })
                         /\ ~ row.decidable
                    /\ ( \A row \in PreFacturierRows : row.item.status = "validated" )
                         => LateQuarterDays = 0
  BY DEF BilledShownWhole
<1>1. P!TInv /\ P!FiniteLines
  BY SameInv DEF FirmInv, FiniteTables
<1>2. reading # NoRequest /\ {"cras", "declined", "projection"} \subseteq DOMAIN Got
  BY HasAll, BillOrder DEF Answered
<1>3. ASSUME NEW row \in PreFacturierRows, row.item.status = "validated"
      PROVE  /\ MapThenSumSet(LAMBDA b : b.quarterDays, row.blocking)
                + BillableCents(OfMonth(Got.projection, row.item.month))
                = T!QuarterDays({ line \in cras[row.item.month].lines : line.mission # None })
             /\ ~ row.decidable
  <2>1. PICK item \in Got.cras :
          row = [ item |-> item, blocking |-> BlockingOf(item),
                  decidable |-> item.status = "submitted" /\ RoleOf[Asker] = "manager" ]
    BY DEF PreFacturierRows
  <2>2. /\ row.item = item /\ row.blocking = BlockingOf(item)
        /\ row.decidable = (item.status = "submitted" /\ RoleOf[Asker] = "manager")
    BY <2>1
  <2>3. /\ item.month \in Months /\ cras[item.month].status = "validated"
        /\ T!QuarterDays(BlockingOf(item)) = T!QuarterDays(LeavesOf(item.month))
        /\ BillableCents(OfMonth(Got.projection, item.month)) = T!QuarterDays(BillsOf(item.month))
    BY <1>2, <1>3, <2>2 DEF BillStands
  <2>4. MapThenSumSet(LAMBDA b : b.quarterDays, row.blocking) = T!QuarterDays(BlockingOf(item))
    BY <2>2 DEF MapThenSumSet, MapThenFoldSet, T!QuarterDays, T!MapThenSumSet, T!MapThenFoldSet
  <2>5. T!QuarterDays(LeavesOf(item.month)) + T!QuarterDays(BillsOf(item.month))
          = T!QuarterDays({ line \in cras[item.month].lines : line.mission # None })
    BY <1>1, <2>3, WorkAddsUp
  <2> QED
    BY <1>3, <2>2, <2>3, <2>4, <2>5
<1>4. ASSUME \A row \in PreFacturierRows : row.item.status = "validated"
      PROVE  LateQuarterDays = 0
  <2>1. ASSUME NEW item \in Got.cras PROVE item.status = "validated"
    <3> DEFINE row == [ item |-> item, blocking |-> BlockingOf(item),
                        decidable |-> item.status = "submitted" /\ RoleOf[Asker] = "manager" ]
    <3>1. row \in PreFacturierRows
      BY DEF PreFacturierRows
    <3>2. row.item = item
      OBVIOUS
    <3> HIDE DEF row
    <3> QED
      BY <1>4, <3>1, <3>2
  <2>2. { item \in Got.cras : item.status # "validated" } = {}
    BY <2>1
  <2>3. MapThenSumSet(LAMBDA item : item.recorded, {}) = 0
    BY NoneLate
  <2> QED
    BY <2>2, <2>3 DEF LateQuarterDays
<1> QED
  BY <1>3, <1>4

(***************************************************************************)
(* The theorems.                                                           *)
(***************************************************************************)

Carried == ReadInv /\ FiniteTables

LEMMA CarriedInit == ReadInit => Carried
<1> SUFFICES ASSUME ReadInit PROVE Carried
  OBVIOUS
<1>1. FirmInv /\ reading = NoRequest
  BY FirmInit DEF ReadInit
<1>2. FiniteTables
  <2>1. invoices = {} /\ \A m \in Months : cras[m].lines = {}
    BY DEF ReadInit, Init, T!Absent
  <2> QED
    BY <2>1, SameFinite, FS_EmptySet DEF FiniteTables, P!FiniteLines
<1> QED
  BY <1>1, <1>2 DEF Carried, ReadInv, RequestOK, CountsGrow, MonthStands, BillStands

LEMMA CarriedNext == Carried /\ [ReadNext]_<< vars, readVars >> => Carried'
<1> SUFFICES ASSUME Carried, [ReadNext]_<< vars, readVars >> PROVE Carried'
  OBVIOUS
<1>1. FirmInv /\ FiniteTables /\ RequestOK /\ CountsGrow /\ MonthStands /\ BillStands
  BY DEF Carried, ReadInv
<1>2. FirmInv'
  <2>1. [Next]_vars
    BY <1>1, ReadKinds
  <2> QED
    BY <1>1, <2>1, FirmNext
<1>3. RequestOK'
  BY <1>1, NextRequest
<1>4. FiniteTables' /\ CountsGrow'
  BY <1>1, NextCountsGrow
<1>5. MonthStands'
  BY <1>1, NextMonthStands
<1>6. BillStands'
  BY <1>1, NextBillStands
<1> QED
  BY <1>2, <1>3, <1>4, <1>5, <1>6 DEF Carried, ReadInv

LEMMA AlwaysCarried == ReadSpec => []Carried
<1> QED
  BY CarriedInit, CarriedNext, PTL DEF ReadSpec

\* A month that a grid, a detail, an economics page or an invoice shows as validated is shown
\* as it was validated, whole and adding up to its documents, whatever is committed between
\* the statements that read it (MonthShownWhole).
THEOREM MonthsAreShownWhole == ReadSpec => []MonthShownWhole
<1>1. Carried => MonthShownWhole
  BY StandsWhole DEF Carried, ReadInv
<1> QED
  BY <1>1, AlwaysCarried, PTL

\* What a pre-facturier or a manager's dashboard shows of a validated month adds up, whatever
\* is committed while it is composed (BilledShownWhole).
THEOREM BilledMonthsAddUp == ReadSpec => []BilledShownWhole
<1>1. Carried => BilledShownWhole
  BY StandsBilled DEF Carried, ReadInv
<1> QED
  BY <1>1, AlwaysCarried, PTL

\* No invoice is lost between two counts, however many are drafted or issued between them
\* (CountsLoseNone).
THEOREM CountsAreComplete == ReadSpec => []CountsLoseNone
<1>1. Carried => CountsLoseNone
  BY GrownCounts DEF Carried, ReadInv
<1> QED
  BY <1>1, AlwaysCarried, PTL

=============================================================================
