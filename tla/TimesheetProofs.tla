-------------------------- MODULE TimesheetProofs ---------------------------
(***************************************************************************)
(* Theorems about Timesheet, for every pool, every set of months, people   *)
(* and missions, every calendar, hierarchy, scope and verdict of drafting, *)
(* every hash of the months and whatever the assignments become.           *)
(***************************************************************************)
EXTENDS Timesheet, TLAPS, FiniteSetTheorems, WellFoundedInduction

(***************************************************************************)
(* The shape of a step.                                                    *)
(***************************************************************************)

\* Statements that pass a check and go on: nothing but the stage changes.
Advances(c) ==
    \/ RecordMonth(c) \/ Submit(c) \/ Validate(c) \/ RefuseCra(c)
    \/ SaveDrafts(c) \/ PersistEvent(c) \/ Save(c)

\* A COMMIT, acknowledged or not.
Commits(c) == Commit(c) \/ CommitUnacknowledged(c)

\* A step is one of nine kinds.
LEMMA StepKinds ==
    ASSUME [Next]_vars
    PROVE  \/ UNCHANGED transaction
           \/ \E c \in Connections :
                \/ \E cmd \in Commands : Begin(c, cmd)
                \/ LockMonth(c) \/ FindNoRow(c) \/ LockRow(c)
                \/ Advances(c)
                \/ AnswerReplayed(c) \/ EndUnwritten(c)
                \/ Commits(c)
  BY DEF Next, Step, Lock, Decide, vars, Restaff, Advances, Commits, RefuseScope,
         RefuseEntries, RefuseSubmission, AnswerNotFound, RefuseValidation, RefuseRefusal,
         Rollback

\* The database is changed by commits only, each of one month.
LEMMA OnlyCommitsWrite ==
    ASSUME [Next]_vars
    PROVE  UNCHANGED db \/ \E c \in Connections : Commits(c)
  BY StepKinds
     DEF transaction, Begin, LockMonth, FindNoRow, LockRow, Advances, RecordMonth, Submit,
         Validate, RefuseCra, SaveDrafts, PersistEvent, Save, AnswerReplayed, EndUnwritten

\* The connections other than the one that moves keep all they know.
Aside(c) ==
    \A d \in Connections \ {c} :
        pc'[d] = pc[d] /\ command'[d] = command[d] /\ seen'[d] = seen[d]

\* What the end of a transaction leaves of it and of the others.
LEMMA EndFacts ==
    ASSUME NEW c \in Connections, TypeOK, End(c)
    PROVE  /\ Aside(c)
           /\ pc'[c] = "idle"
           /\ seen'[c] = Absent
           /\ \A s \in Slots : monthLock'[s] = IF monthLock[s] = c THEN None ELSE monthLock[s]
           /\ \A m \in Months : rowLock'[m] = IF rowLock[m] = c THEN None ELSE rowLock[m]
  BY DEF End, Release, Aside, TypeOK

\* The indices a running transaction uses are in range.
LEMMA Ranges ==
    ASSUME TypeOK, NEW c \in Connections, pc[c] # "idle"
    PROVE  /\ command[c] \in Commands
           /\ Month(c) \in Months
           /\ Slot(c) \in Slots
           /\ command[c].kind \in {"record", "validate", "refuse"}
           /\ command[c].kind = "record" => command[c] \in Recordings
           /\ command[c].kind # "record" => command[c].actor \in People
  BY SlotAssumption
     DEF TypeOK, Month, Slot, Commands, Recordings, Validations, Refusals

-----------------------------------------------------------------------------
(***************************************************************************)
(* Types.                                                                  *)
(***************************************************************************)

\* A line of a posting is a day, a kind of day and a mission some entry has.
LEMMA PostedLine ==
    ASSUME NEW entries, NEW line \in LinesOf(entries)
    PROVE  \E n \in DOMAIN entries :
             /\ line.day = entries[n].day
             /\ line.dayType = entries[n].dayType
             /\ line.mission = entries[n].mission
             /\ line = [ day |-> line.day, dayType |-> line.dayType,
                         mission |-> line.mission, quarterDays |-> line.quarterDays ]
  BY DEF LinesOf

\* What recordDay accepts are lines the table may hold.
LEMMA RecordableLines ==
    ASSUME NEW entries \in Postings, NEW m \in Months, Recordable(m, LinesOf(entries))
    PROVE  LinesOf(entries) \subseteq Lines
<1> SUFFICES ASSUME NEW line \in LinesOf(entries) PROVE line \in Lines
  OBVIOUS
<1>1. line.day \in Days /\ line.quarterDays \in 1 .. QuarterDaysPerDay
  BY CalendarAssumption DEF Recordable
<1>2. PICK n \in DOMAIN entries :
        /\ line.dayType = entries[n].dayType
        /\ line.mission = entries[n].mission
        /\ line = [ day |-> line.day, dayType |-> line.dayType,
                    mission |-> line.mission, quarterDays |-> line.quarterDays ]
  BY PostedLine
<1>3. line.dayType \in {"worked", "absence"} /\ line.mission \in Missions \cup {None}
  BY <1>2, PostingsAssumption
<1> QED
  BY <1>1, <1>2, <1>3 DEF Lines

\* What a transaction that passed its checks writes is a row.
LEMMA ResultType ==
    ASSUME TypeOK, StagesAgree, ChecksHold, NEW c \in Connections, pc[c] = "commit"
    PROVE  Result(c) \in Rows
<1>1. /\ command[c].kind \in {"record", "validate", "refuse"}
      /\ Month(c) \in Months
      /\ command[c].kind = "record" => command[c] \in Recordings
      /\ command[c].kind # "record" => command[c].actor \in People
  BY Ranges
<1>2. seen[c] \in Rows
  BY DEF TypeOK
<1>3. CASE command[c].kind = "record"
  <2>1. Posted(c) \subseteq Lines
    BY <1>1, <1>3, RecordableLines
       DEF ChecksHold, MayRecord, Posted, Recordings
  <2>2. Recorded(c) \in Rows
    BY <1>2, <2>1 DEF Recorded, Rows, Statuses
  <2>3. FlagsOf(Posted(c)) \in SUBSET Days
    BY <2>1 DEF FlagsOf, Lines
  <2>4. Submitted(c) \in Rows
    BY <2>2, <2>3 DEF Submitted, Rows, Statuses
  <2> QED
    BY <1>3, <2>2, <2>4 DEF Result
<1>4. CASE command[c].kind = "validate"
  BY <1>1, <1>2, <1>4 DEF Result, Rows, Statuses
<1>5. CASE command[c].kind = "refuse"
  BY <1>1, <1>2, <1>5 DEF Result, Rows, Statuses
<1> QED
  BY <1>1, <1>3, <1>4, <1>5

\* What drafting makes of a month carries the month, and a client or a reason there is.
LEMMA DraftsType ==
    ASSUME NEW m, NEW lines, NEW validator
    PROVE  /\ \A draft \in DraftsFrom(m, lines, validator) :
                draft.month = m /\ draft.client \in Clients /\ draft.validatedBy = validator
           /\ \A record \in DeclinesFrom(m, lines) :
                record.month = m /\ record.reason \in Reasons
  BY DEF DraftsFrom, DeclinesFrom

\* An empty timesheet has the types.
LEMMA InitType == Init => TypeOK
<1>1. Absent \in Rows
  BY DEF Absent, Rows
<1> QED
  BY <1>1 DEF Init, TypeOK, Steps

\* The end of a transaction keeps the types, if what it writes has them.
LEMMA EndType ==
    ASSUME NEW c \in Connections, TypeOK, End(c),
           cras' \in [ Months -> Rows ],
           \A draft \in invoices' : draft.month \in Months /\ draft.client \in Clients,
           \A record \in declined' : record.month \in Months /\ record.reason \in Reasons,
           journal' \in [ Months -> Nat ],
           \A a \in answers' : a.month \in Months
    PROVE  TypeOK'
<1>1. /\ monthLock' \in [ Slots -> Connections \cup {None} ]
      /\ rowLock' \in [ Months -> Connections \cup {None} ]
  BY DEF End, Release, TypeOK
<1>2. Absent \in Rows
  BY DEF Absent, Rows
<1>3. /\ pc' \in [ Connections -> Steps ]
      /\ command' \in [ Connections -> Commands \cup {None} ]
      /\ \A d \in Connections : pc'[d] # "idle" => command'[d] \in Commands
      /\ seen' \in [ Connections -> Rows ]
  BY <1>2 DEF End, TypeOK, Steps
<1> QED
  BY <1>1, <1>3 DEF End, TypeOK

\* What a commit writes has the types.
LEMMA CommitType ==
    ASSUME TypeOK, StagesAgree, ChecksHold, NEW c \in Connections, Commits(c)
    PROVE  TypeOK'
<1>1. pc[c] = "commit" /\ Written(c) /\ End(c)
  BY DEF Commits, Commit, CommitUnacknowledged
<1>2. Month(c) \in Months /\ Result(c) \in Rows
  BY <1>1, Ranges, ResultType
<1>3. cras' \in [ Months -> Rows ]
  BY <1>1, <1>2 DEF Written, TypeOK
<1>4. /\ invoices' \subseteq invoices \cup Drafts(c)
      /\ declined' \subseteq declined \cup Declines(c)
  BY <1>1 DEF Written
<1>5. /\ \A draft \in invoices' : draft.month \in Months /\ draft.client \in Clients
      /\ \A record \in declined' : record.month \in Months /\ record.reason \in Reasons
  <2>1. \A draft \in Drafts(c) : draft.month = Month(c) /\ draft.client \in Clients
    BY DraftsType DEF Drafts
  <2>2. \A record \in Declines(c) : record.month = Month(c) /\ record.reason \in Reasons
    BY DraftsType DEF Declines
  <2> QED
    BY <1>2, <1>4, <2>1, <2>2 DEF TypeOK
<1>6. journal' \in [ Months -> Nat ]
  BY <1>1, <1>2 DEF Written, TypeOK
<1>7. \A a \in answers' : a.month \in Months
  BY <1>2 DEF Commits, Commit, CommitUnacknowledged, Answer, TypeOK
<1> QED
  BY <1>1, <1>3, <1>5, <1>6, <1>7, EndType

\* Every statement of a transaction keeps the types.
LEMMA NextType ==
    ASSUME TypeOK, StagesAgree, ChecksHold, [Next]_vars
    PROVE  TypeOK'
<1>0. assigned' \in Rosters
  BY DEF Next, vars, Step, Restaff, Begin, LockMonth, Lock, FindNoRow, LockRow, RefuseScope,
         Decide, RecordMonth, RefuseEntries, AnswerNotFound, AnswerReplayed, Validate,
         RefuseValidation, RefuseCra, RefuseRefusal, Submit, RefuseSubmission, SaveDrafts,
         PersistEvent, Save, Commit, CommitUnacknowledged, Rollback, EndUnwritten, End, TypeOK
<1>1. CASE UNCHANGED transaction
  BY <1>0, <1>1 DEF transaction, db, locks, local, TypeOK
<1>2. ASSUME NEW c \in Connections, NEW cmd \in Commands, Begin(c, cmd) PROVE TypeOK'
  BY <1>2 DEF Begin, Goto, db, locks, TypeOK, Steps
<1>3. ASSUME NEW c \in Connections, LockMonth(c) PROVE TypeOK'
  <2>1. Slot(c) \in Slots
    BY <1>3, Ranges DEF LockMonth
  <2> QED
    BY <1>3, <2>1 DEF LockMonth, Goto, db, local, TypeOK, Steps
<1>4. ASSUME NEW c \in Connections, FindNoRow(c) PROVE TypeOK'
  BY <1>4 DEF FindNoRow, Goto, db, locks, local, TypeOK, Steps
<1>5. ASSUME NEW c \in Connections, LockRow(c) PROVE TypeOK'
  <2>1. Month(c) \in Months
    BY <1>5, Ranges DEF LockRow
  <2> QED
    BY <1>5, <2>1 DEF LockRow, Goto, db, TypeOK, Steps
<1>6. ASSUME NEW c \in Connections, Advances(c) PROVE TypeOK'
  BY <1>6 DEF Advances, RecordMonth, Deciding, Submit, Validate, RefuseCra, SaveDrafts,
              PersistEvent, Save, Goto, db, locks, local, TypeOK, Steps
<1>7. ASSUME NEW c \in Connections, AnswerReplayed(c) PROVE TypeOK'
  <2>1. Month(c) \in Months
    BY <1>7, Ranges DEF AnswerReplayed, Deciding
  <2>2. \A a \in answers' : a.month \in Months
    BY <1>7, <2>1 DEF AnswerReplayed, Answer, TypeOK
  <2> QED
    BY <1>7, <2>2, EndType DEF AnswerReplayed, db, TypeOK
<1>8. ASSUME NEW c \in Connections, EndUnwritten(c) PROVE TypeOK'
  BY <1>8, EndType DEF EndUnwritten, db, TypeOK
<1> QED
  BY <1>1, <1>2, <1>3, <1>4, <1>5, <1>6, <1>7, <1>8, CommitType, StepKinds

-----------------------------------------------------------------------------
(***************************************************************************)
(* The stages and the locks.                                               *)
(***************************************************************************)

\* The command of a transaction and the statement it is at agree.
LEMMA NextStages ==
    ASSUME TypeOK, StagesAgree, [Next]_vars
    PROVE  StagesAgree'
<1>1. CASE UNCHANGED transaction
  BY <1>1 DEF transaction, local, StagesAgree
<1>2. ASSUME NEW c \in Connections, NEW cmd \in Commands, Begin(c, cmd)
      PROVE  StagesAgree'
  BY <1>2 DEF Begin, Goto, TypeOK, StagesAgree
<1>3. ASSUME NEW c \in Connections, LockMonth(c) \/ FindNoRow(c) \/ LockRow(c) \/ Advances(c)
      PROVE  StagesAgree'
  BY <1>3 DEF LockMonth, FindNoRow, LockRow, Advances, RecordMonth, Deciding, Submit, Validate,
              RefuseCra, SaveDrafts, PersistEvent, Save, Goto, local, TypeOK, StagesAgree
<1>4. ASSUME NEW c \in Connections, End(c) PROVE StagesAgree'
  BY <1>4, EndFacts DEF StagesAgree, Aside
<1> QED
  BY <1>1, <1>2, <1>3, <1>4, StepKinds
     DEF AnswerReplayed, EndUnwritten, Commits, Commit, CommitUnacknowledged

\* The locks of a month have the holder the stages say.
LEMMA NextLocks ==
    ASSUME TypeOK, StagesAgree, LocksAgree, ReadsAgree, [Next]_vars
    PROVE  LocksAgree'
<1> USE DEF LocksAgree, Locked, Slot, Month
<1>1. CASE UNCHANGED transaction
  BY <1>1 DEF transaction, locks, local
<1>2. ASSUME NEW c \in Connections, NEW cmd \in Commands, Begin(c, cmd)
      PROVE  LocksAgree'
  BY <1>2 DEF Begin, Goto, locks, TypeOK
<1>3. ASSUME NEW c \in Connections, LockMonth(c) PROVE LocksAgree'
  BY <1>3, Ranges, NoneAssumption DEF LockMonth, MonthFree, Goto, local, TypeOK, StagesAgree
<1>4. ASSUME NEW c \in Connections, FindNoRow(c) PROVE LocksAgree'
  <2>1. seen[c].status = "absent"
    BY <1>4 DEF FindNoRow, ReadsAgree, Absent
  <2> QED
    BY <1>4, <2>1 DEF FindNoRow, Goto, locks, local, TypeOK
<1>5. ASSUME NEW c \in Connections, LockRow(c) PROVE LocksAgree'
  BY <1>5, Ranges, NoneAssumption DEF LockRow, RowFree, Goto, TypeOK
<1>6. ASSUME NEW c \in Connections, Advances(c) PROVE LocksAgree'
  BY <1>6 DEF Advances, RecordMonth, Deciding, Submit, Validate, RefuseCra, SaveDrafts,
              PersistEvent, Save, Goto, locks, local, TypeOK
<1>7. ASSUME NEW c \in Connections, End(c) PROVE LocksAgree'
  BY <1>7, EndFacts, Ranges, NoneAssumption DEF Aside, TypeOK
<1> QED
  BY <1>1, <1>2, <1>3, <1>4, <1>5, <1>6, <1>7, StepKinds
     DEF AnswerReplayed, EndUnwritten, Commits, Commit, CommitUnacknowledged

-----------------------------------------------------------------------------
(***************************************************************************)
(* What was read, and what was checked.                                    *)
(***************************************************************************)

\* A transaction that has read the month, or its absence under the advisory lock.
HasRead(c) ==
    pc[c] \in Locked /\ (seen[c].status # "absent" \/ command[c].kind = "record")

\* Mutual exclusion: no two transactions have read the same month.
LEMMA OnePerMonth ==
    ASSUME TypeOK, LocksAgree, ReadsAgree, NEW c \in Connections, NEW d \in Connections,
           HasRead(c), HasRead(d), Month(c) = Month(d)
    PROVE  c = d
<1>1. seen[c] = cras[Month(c)] /\ seen[d] = cras[Month(c)]
  BY DEF HasRead, ReadsAgree
<1>2. CASE seen[c].status # "absent"
  BY <1>1, <1>2 DEF HasRead, LocksAgree
<1>3. CASE seen[c].status = "absent"
  BY <1>1, <1>3 DEF HasRead, LocksAgree, Slot
<1> QED
  BY <1>2, <1>3

\* A transaction about to commit has read the month, and still sees it as it is.
LEMMA CommitReads ==
    ASSUME TypeOK, ReadsAgree, ChecksHold, NEW c \in Connections, pc[c] = "commit"
    PROVE  /\ HasRead(c)
           /\ Month(c) \in Months
           /\ seen[c] = cras[Month(c)]
           /\ seen[c].status = "absent" => seen[c] = Absent
           /\ command[c].kind # "record" => MayDecide(c)
<1>1. command[c].kind # "record" => MayDecide(c)
  BY DEF ChecksHold, Locked
<1>2. HasRead(c)
  BY <1>1 DEF HasRead, MayDecide, Locked
<1> QED
  BY <1>1, <1>2, Ranges DEF HasRead, ReadsAgree

\* Only the month of the transaction is written.
LEMMA OtherMonths ==
    ASSUME TypeOK, NEW c \in Connections, Written(c), Month(c) \in Months
    PROVE  /\ cras'[Month(c)] = Result(c)
           /\ \A m \in Months \ {Month(c)} : cras'[m] = cras[m]
           /\ journal'[Month(c)] = IF Validates(c) THEN journal[Month(c)] + 1
                                                   ELSE journal[Month(c)]
           /\ \A m \in Months \ {Month(c)} : journal'[m] = journal[m]
  BY DEF Written, TypeOK

\* What a transaction read under its locks is still what is committed.
LEMMA NextReads ==
    ASSUME TypeOK, StagesAgree, LocksAgree, ReadsAgree, ChecksHold, DocumentsAgree,
           [Next]_vars
    PROVE  ReadsAgree'
<1> USE DEF ReadsAgree, Locked, Month
<1>1. CASE UNCHANGED transaction
  BY <1>1 DEF transaction, db, local
<1>2. ASSUME NEW c \in Connections, NEW cmd \in Commands, Begin(c, cmd)
      PROVE  ReadsAgree'
  BY <1>2 DEF Begin, Goto, db, TypeOK
<1>3. ASSUME NEW c \in Connections, LockMonth(c) PROVE ReadsAgree'
  BY <1>3 DEF LockMonth, Goto, db, local, TypeOK
<1>4. ASSUME NEW c \in Connections, FindNoRow(c) PROVE ReadsAgree'
  <2>0. pc[c] = "lockRow" /\ cras[Month(c)].status = "absent" /\ Month(c) \in Months
    BY <1>4, Ranges DEF FindNoRow
  <2>1. seen[c] = Absent
    BY <2>0
  <2>2. cras[Month(c)] = Absent
    BY <2>0 DEF DocumentsAgree
  <2> QED
    BY <1>4, <2>0, <2>1, <2>2 DEF FindNoRow, Goto, db, local, TypeOK
<1>5. ASSUME NEW c \in Connections, LockRow(c) PROVE ReadsAgree'
  BY <1>5, Ranges DEF LockRow, Goto, db, TypeOK
<1>6. ASSUME NEW c \in Connections, Advances(c) PROVE ReadsAgree'
  BY <1>6 DEF Advances, RecordMonth, Deciding, Submit, Validate, RefuseCra, SaveDrafts,
              PersistEvent, Save, Goto, db, local, TypeOK
<1>7. ASSUME NEW c \in Connections, AnswerReplayed(c) \/ EndUnwritten(c) PROVE ReadsAgree'
  BY <1>7, EndFacts DEF AnswerReplayed, EndUnwritten, Aside, db
<1>8. ASSUME NEW c \in Connections, Commits(c) PROVE ReadsAgree'
  <2>1. pc[c] = "commit" /\ Written(c) /\ End(c)
    BY <1>8 DEF Commits, Commit, CommitUnacknowledged
  <2>2. HasRead(c) /\ Month(c) \in Months
    BY <2>1, CommitReads
  <2>3. Aside(c) /\ pc'[c] = "idle" /\ seen'[c] = Absent
    BY <2>1, EndFacts
  <2>4. \A m \in Months \ {Month(c)} : cras'[m] = cras[m]
    BY <2>1, <2>2, OtherMonths
  <2>5. ASSUME NEW d \in Connections \ {c}, HasRead(d)
        PROVE  Month(d) \in Months \ {Month(c)}
    BY <2>2, <2>5, OnePerMonth, Ranges DEF HasRead
  <2> QED
    BY <2>3, <2>4, <2>5 DEF Aside, HasRead
<1> QED
  BY <1>1, <1>2, <1>3, <1>4, <1>5, <1>6, <1>7, <1>8, StepKinds

\* A transaction does not forget what it checked: a submission that passed is of a whole
\* month, a decision of a submitted one, by its manager.
LEMMA NextChecks ==
    ASSUME TypeOK, StagesAgree, ReadsAgree, ChecksHold, [Next]_vars
    PROVE  ChecksHold'
<1> USE DEF ChecksHold, Locked
<1>1. CASE UNCHANGED transaction
  BY <1>1 DEF transaction, local, MayRecord, Editable, Posted, Month, MayDecide
<1>2. ASSUME NEW c \in Connections, pc'[c] \notin Locked \ {"decide"}, Aside(c)
      PROVE  ChecksHold'
  BY <1>2 DEF Aside, MayRecord, Editable, Posted, Month, MayDecide
<1>3. ASSUME NEW c \in Connections, Advances(c) PROVE ChecksHold'
  <2>1. UNCHANGED local /\ \A d \in Connections \ {c} : pc'[d] = pc[d]
    BY <1>3 DEF Advances, RecordMonth, Submit, Validate, RefuseCra, SaveDrafts, PersistEvent,
                Save, Goto, TypeOK
  <2>2. \A d \in Connections : /\ MayRecord(d)' = MayRecord(d)
                              /\ MayDecide(d)' = MayDecide(d)
                              /\ Complete(Month(d), Posted(d))' = Complete(Month(d), Posted(d))
    BY <2>1 DEF local, MayRecord, Editable, Posted, Month, MayDecide
  <2>3. command' = command /\ seen' = seen
    BY <2>1 DEF local
  <2>4. pc'[c] \in {"submit", "save", "commit"} /\ command[c].kind = "record" => MayRecord(c)
    BY <1>3, <2>1 DEF Advances, RecordMonth, Deciding, Submit, Validate, RefuseCra, SaveDrafts,
                PersistEvent, Save, Goto, TypeOK, StagesAgree
  <2>5. ASSUME pc'[c] \in {"save", "commit"}, command[c].kind = "record", command[c].submit
        PROVE  /\ seen[c].status \notin {"submitted", "validated"}
               /\ Complete(Month(c), Posted(c))
    <3>1. Submit(c) \/ Save(c)
      BY <1>3, <2>5 DEF Advances, RecordMonth, Deciding, Validate, RefuseCra, SaveDrafts,
                        PersistEvent, Goto, TypeOK, StagesAgree
    <3>2. CASE Save(c)
      BY <2>5, <3>2 DEF Save
    <3>3. CASE Submit(c)
      <4>1. MayRecord(c) /\ MaySubmit(c)
        BY <2>5, <3>3 DEF Submit
      <4>2. Complete(Month(c), Posted(c))
        <5> SUFFICES ASSUME NEW day \in DaysOf[Month(c)] \cap Workable
                     PROVE  QuarterDaysOn(Posted(c), day) = QuarterDaysPerDay
          BY DEF Complete
        <5>1. QuarterDaysOn(Posted(c), day) \in 0 .. QuarterDaysPerDay
          BY <4>1, CalendarAssumption DEF MayRecord, Recordable
        <5>2. QuarterDaysOn(Posted(c), day) >= QuarterDaysPerDay
          BY <4>1 DEF MaySubmit, Submittable
        <5> QED
          BY <5>1, <5>2 DEF QuarterDaysPerDay
      <4> QED
        BY <4>1, <4>2 DEF MaySubmit
    <3> QED
      BY <3>1, <3>2, <3>3
  <2>6. pc'[c] \in Locked \ {"decide"} /\ command[c].kind # "record" => MayDecide(c)
    BY <1>3 DEF Advances, RecordMonth, Deciding, Submit, Validate, RefuseCra, SaveDrafts,
                PersistEvent, Save, Goto, TypeOK, StagesAgree
  <2> QED
    BY <2>1, <2>2, <2>3, <2>4, <2>5, <2>6
<1>4. ASSUME NEW c \in Connections, NEW cmd \in Commands, Begin(c, cmd)
      PROVE  pc'[c] \notin Locked \ {"decide"} /\ Aside(c)
  BY <1>4 DEF Begin, Goto, Aside, TypeOK
<1>5. ASSUME NEW c \in Connections, LockMonth(c) \/ FindNoRow(c) \/ LockRow(c)
      PROVE  pc'[c] \notin Locked \ {"decide"} /\ Aside(c)
  BY <1>5 DEF LockMonth, FindNoRow, LockRow, Goto, local, Aside, TypeOK
<1>6. ASSUME NEW c \in Connections, End(c)
      PROVE  pc'[c] \notin Locked \ {"decide"} /\ Aside(c)
  BY <1>6, EndFacts
<1> QED
  BY <1>1, <1>2, <1>3, <1>4, <1>5, <1>6, StepKinds
     DEF AnswerReplayed, EndUnwritten, Commits, Commit, CommitUnacknowledged

-----------------------------------------------------------------------------
(***************************************************************************)
(* What a commit makes of its month: it rewrites its lines, submits them,  *)
(* validates or refuses it, or writes it back as it was.                   *)
(***************************************************************************)

Open == { "absent", "draft", "refused" }

RewritesMonth(c, old, new) ==
    /\ command[c].kind = "record"
    /\ old.status \in Open
    /\ new = [ old EXCEPT !.lines = Posted(c),
                          !.status = IF old.status = "absent" THEN "draft" ELSE old.status ]

SubmitsMonth(c, old, new) ==
    /\ command[c].kind = "record"
    /\ old.status \in Open
    /\ Complete(Month(c), Posted(c))
    /\ new = [ old EXCEPT !.lines = Posted(c), !.status = "submitted", !.submitted = TRUE,
                          !.flags = FlagsOf(Posted(c)), !.refusedBy = None ]

ValidatesMonth(c, old, new) ==
    /\ command[c].kind = "validate"
    /\ old.status = "submitted"
    /\ command[c].actor \in People
    /\ command[c].actor = ManagerOf[Month(c)] /\ command[c].actor # Owner[Month(c)]
    /\ new = [ old EXCEPT !.status = "validated", !.validatedBy = command[c].actor ]

RefusesMonth(c, old, new) ==
    /\ command[c].kind = "refuse"
    /\ old.status = "submitted"
    /\ command[c].actor \in People
    /\ command[c].actor = ManagerOf[Month(c)] /\ command[c].actor # Owner[Month(c)]
    /\ new = [ old EXCEPT !.status = "refused", !.refusedBy = command[c].actor ]

LeavesMonth(c, old, new) == command[c].kind = "record" /\ new = old /\ old.status # "absent"

\* A commit does one of the five.
LEMMA CommitKinds ==
    ASSUME TypeOK, StagesAgree, ReadsAgree, ChecksHold, NEW c \in Connections,
           pc[c] = "commit", NEW old, old = cras[Month(c)], NEW new, new = Result(c)
    PROVE  \/ RewritesMonth(c, old, new) \/ SubmitsMonth(c, old, new)
           \/ ValidatesMonth(c, old, new) \/ RefusesMonth(c, old, new)
           \/ LeavesMonth(c, old, new)
<1>1. /\ old = seen[c] /\ Month(c) \in Months
      /\ command[c].kind # "record" => MayDecide(c)
  BY CommitReads
<1>2. old \in Rows
  BY <1>1 DEF TypeOK
<1>3. /\ command[c].kind \in {"record", "validate", "refuse"}
      /\ command[c].kind = "record" => command[c].submit \in BOOLEAN
      /\ command[c].kind # "record" => command[c].actor \in People
  BY Ranges DEF Recordings
<1>4. CASE command[c].kind = "record"
  <2>1. Editable(c)
    BY <1>4 DEF ChecksHold, MayRecord
  <2>2. CASE old.status \in Open
    <3>1. Recorded(c) = [ old EXCEPT !.lines = Posted(c),
                            !.status = IF old.status = "absent" THEN "draft" ELSE old.status ]
      BY <1>1 DEF Recorded
    <3>2. CASE command[c].submit
      <4>0. new = Submitted(c)
        BY <1>4, <3>2 DEF Result
      <4>1. new = Submitted(c) /\ Complete(Month(c), Posted(c))
        BY <1>4, <3>2, <4>0 DEF ChecksHold
      <4>2. new = [ old EXCEPT !.lines = Posted(c), !.status = "submitted", !.submitted = TRUE,
                               !.flags = FlagsOf(Posted(c)), !.refusedBy = None ]
        BY <1>2, <3>1, <4>1 DEF Submitted, Rows
      <4> QED
        BY <1>4, <2>2, <4>1, <4>2 DEF SubmitsMonth
    <3>3. CASE ~ command[c].submit
      <4>1. new = Recorded(c)
        BY <1>3, <1>4, <3>3 DEF Result
      <4> QED
        BY <1>4, <2>2, <3>1, <4>1 DEF RewritesMonth
    <3> QED
      BY <3>2, <3>3
  <2>3. CASE old.status \notin Open
    <3>1. old.lines = {} /\ Posted(c) = {} /\ old.status \in {"submitted", "validated"}
      BY <1>1, <1>2, <2>1, <2>3 DEF Editable, Open, Rows, Statuses
    <3>2. ~ command[c].submit
      BY <1>1, <1>4, <3>1 DEF ChecksHold
    <3>3. new = Recorded(c)
      BY <1>3, <1>4, <3>2 DEF Result
    <3>4. Recorded(c) = old
      BY <1>1, <1>2, <3>1 DEF Recorded, Rows
    <3> QED
      BY <1>4, <3>1, <3>3, <3>4 DEF LeavesMonth
  <2> QED
    BY <2>2, <2>3
<1>5. CASE command[c].kind = "validate"
  <2>1. new = [ old EXCEPT !.status = "validated", !.validatedBy = command[c].actor ]
    BY <1>1, <1>5 DEF Result
  <2> QED
    BY <1>1, <1>3, <1>5, <2>1 DEF ValidatesMonth, MayDecide
<1>6. CASE command[c].kind = "refuse"
  <2>1. new = [ old EXCEPT !.status = "refused", !.refusedBy = command[c].actor ]
    BY <1>1, <1>6 DEF Result
  <2> QED
    BY <1>1, <1>3, <1>6, <2>1 DEF RefusesMonth, MayDecide
<1> QED
  BY <1>3, <1>4, <1>5, <1>6

\* The documents of the other months stay, and those of the month too unless it is validated,
\* which adds the ones its lines make.
LEMMA CommitDocuments ==
    ASSUME NEW c \in Connections, Written(c), NEW m
    PROVE  /\ DraftedFrom(m)' = IF Validates(c) /\ m = Month(c)
                                THEN DraftedFrom(m) \cup Drafts(c) ELSE DraftedFrom(m)
           /\ DeclinedFrom(m)' = IF Validates(c) /\ m = Month(c)
                                 THEN DeclinedFrom(m) \cup Declines(c) ELSE DeclinedFrom(m)
<1>1. \A draft \in Drafts(c) : draft.month = Month(c)
  BY DraftsType DEF Drafts
<1>2. \A record \in Declines(c) : record.month = Month(c)
  BY DraftsType DEF Declines
<1>3. CASE Validates(c)
  <2>1. invoices' = invoices \cup Drafts(c) /\ declined' = declined \cup Declines(c)
    BY <1>3 DEF Written
  <2>2. DraftedFrom(m)' = { draft \in invoices \cup Drafts(c) : draft.month = m }
    BY <2>1 DEF DraftedFrom
  <2>3. DeclinedFrom(m)' = { record \in declined \cup Declines(c) : record.month = m }
    BY <2>1 DEF DeclinedFrom
  <2> QED
    BY <1>1, <1>2, <1>3, <2>2, <2>3 DEF DraftedFrom, DeclinedFrom
<1>4. CASE ~ Validates(c)
  BY <1>4 DEF Written, DraftedFrom, DeclinedFrom
<1> QED
  BY <1>3, <1>4

-----------------------------------------------------------------------------
(***************************************************************************)
(* The month and its documents.                                            *)
(***************************************************************************)

\* A commit, in one piece: the row before and after, and that no other row changes.
LEMMA CommitStep ==
    ASSUME TypeOK, StagesAgree, ReadsAgree, ChecksHold, NEW c \in Connections, Commits(c)
    PROVE  \E m \in Months, old \in Rows, new \in Rows :
             /\ m = Month(c)
             /\ old = cras[m]
             /\ new = cras'[m] /\ new = Result(c)
             /\ \A other \in Months \ {m} : cras'[other] = cras[other]
             /\ \/ RewritesMonth(c, old, new) \/ SubmitsMonth(c, old, new)
                \/ ValidatesMonth(c, old, new) \/ RefusesMonth(c, old, new)
                \/ LeavesMonth(c, old, new)
<1>1. pc[c] = "commit" /\ Written(c)
  BY DEF Commits, Commit, CommitUnacknowledged
<1>2. Month(c) \in Months
  BY <1>1, Ranges
<1>3. cras'[Month(c)] = Result(c) /\ cras[Month(c)] \in Rows
  BY <1>1, <1>2, OtherMonths DEF TypeOK
<1>4. \A other \in Months \ {Month(c)} : cras'[other] = cras[other]
  BY <1>1, <1>2, OtherMonths
<1>5. \/ RewritesMonth(c, cras[Month(c)], Result(c)) \/ SubmitsMonth(c, cras[Month(c)], Result(c))
      \/ ValidatesMonth(c, cras[Month(c)], Result(c))
      \/ RefusesMonth(c, cras[Month(c)], Result(c))
      \/ LeavesMonth(c, cras[Month(c)], Result(c))
  BY <1>1, CommitKinds
<1>6. Result(c) \in Rows
  BY <1>1, ResultType
<1> QED
  BY <1>2, <1>3, <1>4, <1>5, <1>6

\* No commit leaves a row that cannot be read again.
LEMMA NextCoherent ==
    ASSUME TypeOK, StagesAgree, ReadsAgree, ChecksHold, DocumentsAgree, RowsCoherent,
           [Next]_vars
    PROVE  RowsCoherent'
<1>1. CASE UNCHANGED db
  BY <1>1 DEF db, RowsCoherent
<1>2. ASSUME NEW c \in Connections, Commits(c) PROVE RowsCoherent'
  <2>1. PICK m \in Months, old \in Rows, new \in Rows :
          /\ m = Month(c)
          /\ old = cras[m]
          /\ new = cras'[m] /\ new = Result(c)
          /\ \A other \in Months \ {m} : cras'[other] = cras[other]
          /\ \/ RewritesMonth(c, old, new) \/ SubmitsMonth(c, old, new)
             \/ ValidatesMonth(c, old, new) \/ RefusesMonth(c, old, new)
             \/ LeavesMonth(c, old, new)
    BY <1>2, CommitStep
  <2>2. /\ old.status = "absent" => old = Absent
        /\ old.status # "absent" => Coherent(old)
    BY <2>1 DEF RowsCoherent, DocumentsAgree
  <2>0. SUFFICES new.status # "absent" => Coherent(new)
    BY <2>1 DEF RowsCoherent, Coherent
  <2>3. None \notin People
    BY NoneAssumption
  <2>4. CASE RewritesMonth(c, old, new)
    BY <2>1, <2>2, <2>4 DEF RewritesMonth, Open, Coherent, Absent, Rows
  <2>5. CASE SubmitsMonth(c, old, new)
    BY <2>1, <2>2, <2>5 DEF SubmitsMonth, Open, Coherent, Absent, Rows
  <2>6. CASE ValidatesMonth(c, old, new)
    BY <2>1, <2>2, <2>3, <2>6 DEF ValidatesMonth, Coherent, Rows
  <2>7. CASE RefusesMonth(c, old, new)
    BY <2>1, <2>2, <2>3, <2>7 DEF RefusesMonth, Coherent, Rows
  <2>8. CASE LeavesMonth(c, old, new)
    BY <2>2, <2>8 DEF LeavesMonth
  <2> QED
    BY <2>1, <2>4, <2>5, <2>6, <2>7, <2>8
<1> QED
  BY <1>1, <1>2, OnlyCommitsWrite

\* What a validated month has is what its lines make of it; any other has no document, and
\* no event.
LEMMA NextDocuments ==
    ASSUME TypeOK, StagesAgree, ReadsAgree, ChecksHold, DocumentsAgree, [Next]_vars
    PROVE  DocumentsAgree'
<1>1. CASE UNCHANGED db
  BY <1>1 DEF db, DocumentsAgree, DraftedFrom, DeclinedFrom
<1>2. ASSUME NEW c \in Connections, Commits(c) PROVE DocumentsAgree'
  <2>1. PICK m \in Months, old \in Rows, new \in Rows :
          /\ m = Month(c)
          /\ old = cras[m]
          /\ new = cras'[m] /\ new = Result(c)
          /\ \A other \in Months \ {m} : cras'[other] = cras[other]
          /\ \/ RewritesMonth(c, old, new) \/ SubmitsMonth(c, old, new)
             \/ ValidatesMonth(c, old, new) \/ RefusesMonth(c, old, new)
             \/ LeavesMonth(c, old, new)
    BY <1>2, CommitStep
  <2>2. pc[c] = "commit" /\ Written(c)
    BY <1>2 DEF Commits, Commit, CommitUnacknowledged
  <2>3. /\ seen[c] = old
        /\ Drafts(c) = DraftsFrom(m, old.lines, command[c].actor)
        /\ Declines(c) = DeclinesFrom(m, old.lines)
    BY <2>1, <2>2, CommitReads DEF Drafts, Declines
  <2>4. /\ journal'[m] = IF Validates(c) THEN journal[m] + 1 ELSE journal[m]
        /\ \A other \in Months \ {m} : journal'[other] = journal[other]
    BY <2>1, <2>2, OtherMonths
  <2>5. ASSUME NEW other \in Months
        PROVE  /\ DraftedFrom(other)' = IF Validates(c) /\ other = m
                                        THEN DraftedFrom(other) \cup Drafts(c)
                                        ELSE DraftedFrom(other)
               /\ DeclinedFrom(other)' = IF Validates(c) /\ other = m
                                         THEN DeclinedFrom(other) \cup Declines(c)
                                         ELSE DeclinedFrom(other)
    BY <2>1, <2>2, CommitDocuments
  <2> DEFINE Agrees(row, drafts, declines, events, month) ==
        /\ row.status = "absent" => row = Absent
        /\ IF row.status = "validated"
           THEN /\ drafts = DraftsFrom(month, row.lines, row.validatedBy)
                /\ declines = DeclinesFrom(month, row.lines)
                /\ events = 1
           ELSE drafts = {} /\ declines = {} /\ events = 0
  <2>6. \A other \in Months :
          Agrees(cras[other], DraftedFrom(other), DeclinedFrom(other), journal[other], other)
    BY DEF DocumentsAgree
  <2>7. \A other \in Months \ {m} :
          Agrees(cras'[other], DraftedFrom(other)', DeclinedFrom(other)', journal'[other], other)
    BY <2>1, <2>4, <2>5, <2>6
  <2>8. Agrees(new, DraftedFrom(m)', DeclinedFrom(m)', journal'[m], m)
    <3>1. CASE ValidatesMonth(c, old, new)
      <4>1. /\ Validates(c)
            /\ new.status = "validated" /\ new.lines = old.lines
            /\ new.validatedBy = command[c].actor
        BY <2>1, <3>1 DEF ValidatesMonth, Validates, Rows
      <4>2. DraftedFrom(m) = {} /\ DeclinedFrom(m) = {} /\ journal[m] = 0
        BY <2>1, <2>6, <3>1 DEF ValidatesMonth
      <4> QED
        BY <2>3, <2>4, <2>5, <4>1, <4>2
    <3>2. CASE ~ ValidatesMonth(c, old, new)
      <4>1. /\ ~ Validates(c)
            /\ new.status # "absent"
            /\ new = old \/ (old.status # "validated" /\ new.status # "validated")
        BY <2>1, <3>2 DEF RewritesMonth, SubmitsMonth, RefusesMonth, LeavesMonth, Validates,
                          Open, Rows
      <4> QED
        BY <2>1, <2>4, <2>5, <2>6, <4>1
    <3> QED
      BY <3>1, <3>2
  <2>9. \A other \in Months :
          Agrees(cras'[other], DraftedFrom(other)', DeclinedFrom(other)', journal'[other], other)
    BY <2>1, <2>7, <2>8
  <2> QED
    BY <2>9 DEF DocumentsAgree
<1> QED
  BY <1>1, <1>2, OnlyCommitsWrite

\* A month that is submitted stays whole until it is decided, and after it is validated.
LEMMA NextComplete ==
    ASSUME TypeOK, StagesAgree, ReadsAgree, ChecksHold, SubmittedComplete, [Next]_vars
    PROVE  SubmittedComplete'
<1>1. CASE UNCHANGED db
  BY <1>1 DEF db, SubmittedComplete
<1>2. ASSUME NEW c \in Connections, Commits(c) PROVE SubmittedComplete'
  <2>1. PICK m \in Months, old \in Rows, new \in Rows :
          /\ m = Month(c)
          /\ old = cras[m]
          /\ new = cras'[m] /\ new = Result(c)
          /\ \A other \in Months \ {m} : cras'[other] = cras[other]
          /\ \/ RewritesMonth(c, old, new) \/ SubmitsMonth(c, old, new)
             \/ ValidatesMonth(c, old, new) \/ RefusesMonth(c, old, new)
             \/ LeavesMonth(c, old, new)
    BY <1>2, CommitStep
  <2>2. SUFFICES ASSUME new.status \in {"submitted", "validated"}
                 PROVE  Complete(m, new.lines) /\ new.flags = FlagsOf(new.lines)
    BY <2>1 DEF SubmittedComplete
  <2>3. CASE SubmitsMonth(c, old, new)
    BY <2>1, <2>3 DEF SubmitsMonth, Rows
  <2>4. CASE ~ SubmitsMonth(c, old, new)
    <3>1. /\ new.lines = old.lines /\ new.flags = old.flags
          /\ old.status \in {"submitted", "validated"}
      BY <2>1, <2>2, <2>4 DEF RewritesMonth, ValidatesMonth, RefusesMonth, LeavesMonth, Open, Rows
    <3> QED
      BY <2>1, <3>1 DEF SubmittedComplete
  <2> QED
    BY <2>3, <2>4
<1> QED
  BY <1>1, <1>2, OnlyCommitsWrite

\* A decision is the manager's, and so is the validation each invoice is drafted from.
LEMMA NextDecided ==
    ASSUME TypeOK, StagesAgree, ReadsAgree, ChecksHold, DocumentsAgree, DecidedByTheManager,
           [Next]_vars
    PROVE  DecidedByTheManager'
<1>1. CASE UNCHANGED db
  BY <1>1 DEF db, DecidedByTheManager
<1>2. ASSUME NEW c \in Connections, Commits(c) PROVE DecidedByTheManager'
  <2>1. PICK m \in Months, old \in Rows, new \in Rows :
          /\ m = Month(c)
          /\ old = cras[m]
          /\ new = cras'[m] /\ new = Result(c)
          /\ \A other \in Months \ {m} : cras'[other] = cras[other]
          /\ \/ RewritesMonth(c, old, new) \/ SubmitsMonth(c, old, new)
             \/ ValidatesMonth(c, old, new) \/ RefusesMonth(c, old, new)
             \/ LeavesMonth(c, old, new)
    BY <1>2, CommitStep
  <2>2. pc[c] = "commit" /\ Written(c)
    BY <1>2 DEF Commits, Commit, CommitUnacknowledged
  <2>3. /\ new.status = "validated" =>
             new.validatedBy = ManagerOf[m] /\ new.validatedBy # Owner[m]
        /\ new.status = "refused" => new.refusedBy = ManagerOf[m] /\ new.refusedBy # Owner[m]
    BY <2>1 DEF RewritesMonth, SubmitsMonth, ValidatesMonth, RefusesMonth, LeavesMonth, Open,
                Rows, DecidedByTheManager
  <2>4. ASSUME NEW draft \in invoices'
        PROVE  draft.validatedBy = cras'[draft.month].validatedBy
    <3>1. CASE draft \in invoices /\ draft.month # m
      BY <2>1, <3>1 DEF DecidedByTheManager, TypeOK
    <3>2. CASE draft \in invoices /\ draft.month = m
      <4>1. old.status = "validated"
        BY <2>1, <3>2 DEF DocumentsAgree, DraftedFrom
      <4>2. new = old
        BY <2>1, <4>1 DEF RewritesMonth, SubmitsMonth, ValidatesMonth, RefusesMonth,
                          LeavesMonth, Open
      <4>3. cras'[draft.month] = cras[draft.month]
        BY <2>1, <3>2, <4>2
      <4> QED
        BY <3>2, <4>3 DEF DecidedByTheManager
    <3>3. CASE draft \notin invoices
      <4>1. Validates(c) /\ draft \in Drafts(c)
        BY <2>2, <3>3 DEF Written
      <4>2. draft.month = m /\ draft.validatedBy = command[c].actor
        BY <2>1, <4>1, DraftsType DEF Drafts
      <4>3. ValidatesMonth(c, old, new)
        BY <2>1, <4>1 DEF Validates, RewritesMonth, SubmitsMonth, RefusesMonth, LeavesMonth
      <4>4. new.validatedBy = command[c].actor
        BY <2>1, <4>3 DEF ValidatesMonth, Rows
      <4> QED
        BY <2>1, <4>2, <4>4
    <3> QED
      BY <3>1, <3>2, <3>3
  <2> QED
    BY <2>1, <2>3, <2>4 DEF DecidedByTheManager
<1> QED
  BY <1>1, <1>2, OnlyCommitsWrite

\* What a validation answered, or a replay of it, stays what the month has.
LEMMA NextAnswers ==
    ASSUME TypeOK, StagesAgree, ReadsAgree, ChecksHold, DocumentsAgree, AnswersHold,
           [Next]_vars
    PROVE  AnswersHold'
<1> DEFINE Holds(a) == /\ cras[a.month].status = "validated"
                       /\ a.invoices = DraftedFrom(a.month)
                       /\ a.declined = DeclinedFrom(a.month)
<1>1. ASSUME UNCHANGED << db, answers >> PROVE AnswersHold'
  BY <1>1 DEF db, AnswersHold, DraftedFrom, DeclinedFrom
<1>2. ASSUME NEW c \in Connections, Commits(c) PROVE AnswersHold'
  <2>1. PICK m \in Months, old \in Rows, new \in Rows :
          /\ m = Month(c)
          /\ old = cras[m]
          /\ new = cras'[m] /\ new = Result(c)
          /\ \A other \in Months \ {m} : cras'[other] = cras[other]
          /\ \/ RewritesMonth(c, old, new) \/ SubmitsMonth(c, old, new)
             \/ ValidatesMonth(c, old, new) \/ RefusesMonth(c, old, new)
             \/ LeavesMonth(c, old, new)
    BY <1>2, CommitStep
  <2>2. pc[c] = "commit" /\ Written(c)
    BY <1>2 DEF Commits, Commit, CommitUnacknowledged
  <2>3. ASSUME NEW a \in answers PROVE Holds(a)'
    <3>1. Holds(a) /\ a.month \in Months
      BY DEF AnswersHold, TypeOK
    <3>2. ~ (Validates(c) /\ a.month = m)
      BY <2>1, <3>1 DEF Validates, RewritesMonth, SubmitsMonth, ValidatesMonth, RefusesMonth,
                        LeavesMonth
    <3>3. cras'[a.month].status = "validated"
      BY <2>1, <3>1 DEF RewritesMonth, SubmitsMonth, ValidatesMonth, RefusesMonth,
                        LeavesMonth, Open
    <3>4. /\ DraftedFrom(a.month)' = DraftedFrom(a.month)
          /\ DeclinedFrom(a.month)' = DeclinedFrom(a.month)
      BY <2>1, <2>2, <3>2, CommitDocuments
    <3> QED
      BY <3>1, <3>3, <3>4
  <2>4. ASSUME NEW a \in answers', a \notin answers PROVE Holds(a)'
    <3>1. Validates(c) /\ a = Answer(m, Drafts(c), Declines(c))
      BY <1>2, <2>1, <2>4 DEF Commits, Commit, CommitUnacknowledged
    <3>2. ValidatesMonth(c, old, new)
      BY <2>1, <3>1 DEF Validates, RewritesMonth, SubmitsMonth, RefusesMonth, LeavesMonth
    <3>3. DraftedFrom(m) = {} /\ DeclinedFrom(m) = {}
      BY <2>1, <3>2 DEF ValidatesMonth, DocumentsAgree
    <3>4. DraftedFrom(m)' = Drafts(c) /\ DeclinedFrom(m)' = Declines(c)
      BY <2>1, <2>2, <3>1, <3>3, CommitDocuments
    <3>5. new.status = "validated"
      BY <2>1, <3>2 DEF ValidatesMonth, Rows
    <3>6. a.month = m /\ a.invoices = Drafts(c) /\ a.declined = Declines(c)
      BY <3>1 DEF Answer
    <3> QED
      BY <2>1, <3>4, <3>5, <3>6
  <2> QED
    BY <2>3, <2>4 DEF AnswersHold
<1>3. ASSUME NEW c \in Connections, AnswerReplayed(c) PROVE AnswersHold'
  <2>1. seen[c] = cras[Month(c)] /\ seen[c].status = "validated"
    BY <1>3 DEF AnswerReplayed, Deciding, ReadsAgree, Locked
  <2>2. answers' = answers \cup
          { Answer(Month(c), DraftedFrom(Month(c)), DeclinedFrom(Month(c))) }
    BY <1>3 DEF AnswerReplayed
  <2>3. \A a \in answers' : Holds(a)
    BY <2>1, <2>2 DEF Answer, AnswersHold
  <2>4. UNCHANGED db
    BY <1>3 DEF AnswerReplayed
  <2> QED
    BY <2>3, <2>4 DEF db, AnswersHold, DraftedFrom, DeclinedFrom
<1>4. ASSUME NEW c \in Connections, NEW cmd \in Commands, Begin(c, cmd)
      PROVE  UNCHANGED << db, answers >>
  BY <1>4 DEF Begin
<1>5. ASSUME NEW c \in Connections, LockMonth(c) \/ FindNoRow(c) \/ LockRow(c) \/ Advances(c)
      PROVE  UNCHANGED << db, answers >>
  BY <1>5 DEF LockMonth, FindNoRow, LockRow, Advances, RecordMonth, Submit, Validate,
              RefuseCra, SaveDrafts, PersistEvent, Save
<1>6. ASSUME NEW c \in Connections, EndUnwritten(c) PROVE UNCHANGED << db, answers >>
  BY <1>6 DEF EndUnwritten
<1> QED
  BY <1>1, <1>2, <1>3, <1>4, <1>5, <1>6, StepKinds DEF transaction

-----------------------------------------------------------------------------
(***************************************************************************)
(* The theorems.                                                           *)
(***************************************************************************)

\* An empty timesheet has the invariant.
LEMMA InitInvariant == Init => TInv
<1> SUFFICES ASSUME Init PROVE TInv
  OBVIOUS
<1>1. TypeOK
  BY InitType
<1>2. StagesAgree /\ ReadsAgree /\ ChecksHold
  BY DEF Init, StagesAgree, ReadsAgree, ChecksHold, Locked
<1>3. LocksAgree
  BY DEF Init, LocksAgree, Locked
<1>4. DocumentsAgree /\ RowsCoherent /\ AnswersHold
  BY DEF Init, DocumentsAgree, DraftedFrom, DeclinedFrom, Absent, RowsCoherent, AnswersHold
<1>5. SubmittedComplete /\ DecidedByTheManager
  BY DEF Init, SubmittedComplete, DecidedByTheManager, Absent
<1> QED
  BY <1>1, <1>2, <1>3, <1>4, <1>5 DEF TInv

\* Every step keeps it.
LEMMA NextInvariant == TInv /\ [Next]_vars => TInv'
  BY NextType, NextStages, NextLocks, NextReads, NextChecks, NextCoherent, NextDocuments,
     NextComplete, NextDecided, NextAnswers DEF TInv

\* In every reachable state the stages, the locks, what was read under them and the checks
\* that were passed agree; a month has the documents of its lines when it is validated and
\* none before (ADR-0001), whole and decided by its manager (ADR-0006), and what a validation
\* answered stays true (ADR-0021, ADR-0104).
THEOREM Invariant == Spec => []TInv
  BY InitInvariant, NextInvariant, PTL DEF Spec

\* Under the locks, what the indexes refuse does not come up.
LEMMA NoConflict ==
    ASSUME TypeOK, StagesAgree, LocksAgree, ReadsAgree, ChecksHold, DocumentsAgree
    PROVE  NoIndexConflict
<1>1. ASSUME NEW c \in Connections, pc[c] = "draft", AwaitsDraft(c) PROVE FALSE
  <2>1. PICK d \in Connections \ {c} :
          /\ pc[d] \in {"journal", "save", "commit"}
          /\ command[d].kind = "validate"
          /\ \E one \in Drafts(c), two \in Drafts(d) : SamePair(one, two)
    BY <1>1 DEF AwaitsDraft
  <2>2. command[c].kind = "validate"
    BY <1>1 DEF StagesAgree
  <2>3. MayDecide(c) /\ MayDecide(d)
    BY <1>1, <2>1, <2>2 DEF ChecksHold, Locked
  <2>4. Month(c) = Month(d)
    BY <2>1, DraftsType DEF Drafts, SamePair
  <2> QED
    BY <1>1, <2>1, <2>3, <2>4, OnePerMonth DEF HasRead, MayDecide, Locked
<1>2. ASSUME NEW c \in Connections, pc[c] = "draft", ViolatesDraft(c) PROVE FALSE
  <2>1. command[c].kind = "validate"
    BY <1>2 DEF StagesAgree
  <2>2. MayDecide(c)
    BY <1>2, <2>1 DEF ChecksHold, Locked
  <2>3. seen[c] = cras[Month(c)] /\ Month(c) \in Months
    BY <1>2, <2>2, Ranges DEF MayDecide, ReadsAgree, Locked
  <2>4. DraftedFrom(Month(c)) = {}
    BY <2>2, <2>3 DEF MayDecide, DocumentsAgree
  <2>5. PICK one \in Drafts(c), two \in invoices : SamePair(one, two)
    BY <1>2 DEF ViolatesDraft
  <2>6. two.month = Month(c)
    BY <2>5, DraftsType DEF Drafts, SamePair
  <2> QED
    BY <2>4, <2>6 DEF DraftedFrom
<1>3. ASSUME NEW c \in Connections, pc[c] = "save", Opens(c), AwaitsMonth(c) PROVE FALSE
  <2>1. PICK d \in Connections \ {c} : pc[d] = "commit" /\ Opens(d) /\ Month(d) = Month(c)
    BY <1>3 DEF AwaitsMonth
  <2> QED
    BY <1>3, <2>1, OnePerMonth DEF HasRead, Opens, Locked
<1>4. ASSUME NEW c \in Connections, pc[c] = "save", Opens(c), ViolatesMonth(c) PROVE FALSE
  BY <1>4 DEF Opens, ViolatesMonth, ReadsAgree, Locked
<1> QED
  BY <1>1, <1>2, <1>3, <1>4 DEF NoIndexConflict

\* The locks leave nothing to the unique indexes: no draft ever collides with another
\* transaction's, no first save with another first save (ADR-0103).
THEOREM IndexesAreBackstops == Spec => []NoIndexConflict
<1>1. TInv => NoIndexConflict
  BY NoConflict DEF TInv
<1> QED
  BY <1>1, Invariant, PTL

-----------------------------------------------------------------------------
(***************************************************************************)
(* The refinement of CraLifecycle.                                         *)
(***************************************************************************)

\* The two modules add quarter-days up alike.
LEMMA SameSums ==
    /\ \A lines : L!Sum(lines) = QuarterDays(lines)
    /\ \A m, lines : L!Whole(m, lines) = Complete(m, lines)
<1>1. \A lines : L!Sum(lines) = QuarterDays(lines)
  BY DEF L!Sum, QuarterDays, MapThenSumSet, L!MapThenSumSet, MapThenFoldSet, L!MapThenFoldSet
<1> QED
  BY <1>1 DEF L!Whole, Complete, QuarterDaysOn, QuarterDaysPerDay

\* What a dossier holds, one entry for each line and each declined record.
LEMMA InDossier ==
    ASSUME NEW drafts, NEW declines, NEW entry
    PROVE  entry \in Dossier(drafts, declines) <=>
             \/ \E draft \in drafts : \E line \in draft.lines :
                  entry = [ mission |-> line.mission, quarterDays |-> line.quarterDays,
                            verdict |-> draft.client ]
             \/ \E record \in declines :
                  entry = [ mission |-> record.mission, quarterDays |-> record.quarterDays,
                            verdict |-> record.reason ]
  BY DEF Dossier

\* No document, no dossier.
LEMMA EmptyDossier == Dossier({}, {}) = {}
  BY DEF Dossier

\* What drafting makes of a month, line by line and declined record by declined record, is
\* the bill of the month: every mission worked on, once, with all its quarter-days.
LEMMA DossierIsBill ==
    ASSUME NEW m \in Months, NEW lines \in SUBSET Lines, NEW validator
    PROVE  Dossier(DraftsFrom(m, lines, validator), DeclinesFrom(m, lines)) = L!Bill(lines)
<1> DEFINE drafts   == DraftsFrom(m, lines, validator)
           declines == DeclinesFrom(m, lines)
           Entry(mission) == [ mission |-> mission, verdict |-> Verdict[mission],
                               quarterDays |-> QuarterDaysFor(lines, mission) ]
<1>1. Worked(lines) = Missions \cap { line.mission : line \in lines }
  BY NoneAssumption DEF Worked, Lines
<1>2. \A mission : L!Sum({ line \in lines : line.mission = mission })
                     = QuarterDaysFor(lines, mission)
  BY SameSums DEF QuarterDaysFor
<1>3. L!Bill(lines) = { Entry(mission) : mission \in Worked(lines) }
  BY <1>1, <1>2 DEF L!Bill
<1>4. ASSUME NEW entry \in Dossier(drafts, declines)
      PROVE  \E mission \in Worked(lines) : entry = Entry(mission)
  <2>1. CASE \E draft \in drafts : \E line \in draft.lines :
               entry = [ mission |-> line.mission, quarterDays |-> line.quarterDays,
                         verdict |-> draft.client ]
    <3>1. PICK draft \in drafts : \E line \in draft.lines :
            entry = [ mission |-> line.mission, quarterDays |-> line.quarterDays,
                      verdict |-> draft.client ]
      BY <2>1
    <3>0. PICK line \in draft.lines :
            entry = [ mission |-> line.mission, quarterDays |-> line.quarterDays,
                      verdict |-> draft.client ]
      BY <3>1
    <3>2. draft.lines = { [ mission |-> w, quarterDays |-> QuarterDaysFor(lines, w) ]
                          : w \in { x \in Worked(lines) : Verdict[x] = draft.client } }
      BY DEF DraftsFrom
    <3>3. PICK w \in Worked(lines) :
            /\ Verdict[w] = draft.client
            /\ line = [ mission |-> w, quarterDays |-> QuarterDaysFor(lines, w) ]
      BY <3>0, <3>2
    <3> QED
      BY <3>0, <3>3
  <2>2. CASE \E record \in declines :
               entry = [ mission |-> record.mission, quarterDays |-> record.quarterDays,
                         verdict |-> record.reason ]
    <3>1. PICK record \in declines :
            entry = [ mission |-> record.mission, quarterDays |-> record.quarterDays,
                      verdict |-> record.reason ]
      BY <2>2
    <3>2. PICK w \in Worked(lines) :
            record = [ month |-> m, mission |-> w, reason |-> Verdict[w],
                       quarterDays |-> QuarterDaysFor(lines, w) ]
      BY DEF DeclinesFrom
    <3> QED
      BY <3>1, <3>2
  <2> HIDE DEF drafts, declines, Entry
  <2> QED
    BY <2>1, <2>2, InDossier
<1>5. ASSUME NEW mission \in Worked(lines) PROVE Entry(mission) \in Dossier(drafts, declines)
  <2>1. Verdict[mission] \in Clients \cup Reasons
    BY <1>1, VerdictAssumption
  <2>2. CASE Verdict[mission] \in Clients
    <3> DEFINE client == Verdict[mission]
               items  == { [ mission |-> w, quarterDays |-> QuarterDaysFor(lines, w) ]
                           : w \in { x \in Worked(lines) : Verdict[x] = client } }
               draft  == [ month |-> m, client |-> client, validatedBy |-> validator,
                           lines |-> items ]
               line   == [ mission |-> mission, quarterDays |-> QuarterDaysFor(lines, mission) ]
    <3>1. draft \in drafts
      BY <2>2 DEF DraftsFrom
    <3>2. line \in draft.lines
      OBVIOUS
    <3>3. Entry(mission) = [ mission |-> line.mission, quarterDays |-> line.quarterDays,
                             verdict |-> draft.client ]
      OBVIOUS
    <3> HIDE DEF drafts, declines, draft, line, Entry
    <3> QED
      BY <3>1, <3>2, <3>3, InDossier
  <2>3. CASE Verdict[mission] \in Reasons
    <3> DEFINE record == [ month |-> m, mission |-> mission, reason |-> Verdict[mission],
                           quarterDays |-> QuarterDaysFor(lines, mission) ]
    <3>1. record \in declines
      BY <2>3 DEF DeclinesFrom
    <3>2. Entry(mission) = [ mission |-> record.mission, quarterDays |-> record.quarterDays,
                             verdict |-> record.reason ]
      OBVIOUS
    <3> HIDE DEF drafts, declines, record, Entry
    <3> QED
      BY <3>1, <3>2, InDossier
  <2> QED
    BY <2>1, <2>2, <2>3
<1> QED
  BY <1>3, <1>4, <1>5

\* What the object of a month shows of a row and its documents.
View(row, drafts, declines) ==
    [ status |-> row.status, lines |-> row.lines, dossier |-> Dossier(drafts, declines) ]

\* An empty timesheet is the initial state of every month.
LEMMA InitRefines == Init => L!Init
<1> SUFFICES ASSUME Init PROVE L!Init
  OBVIOUS
<1>1. \A m \in Months : DraftedFrom(m) = {} /\ DeclinedFrom(m) = {}
  BY DEF Init, DraftedFrom, DeclinedFrom
<1>2. \A m \in Months : cras[m].status = "absent" /\ cras[m].lines = {}
  BY DEF Init, Absent
<1> QED
  BY <1>1, <1>2, EmptyDossier DEF L!Init, LifecycleView

\* A step that leaves the database alone leaves the months alone, and a commit writes,
\* refuses or validates one month, whole, or writes it back as it was.
LEMMA NextRefines ==
    ASSUME TInv, TInv', [Next]_vars
    PROVE  [L!Next]_LifecycleView
<1>1. CASE UNCHANGED db
  BY <1>1 DEF db, LifecycleView, DraftedFrom, DeclinedFrom
<1>2. ASSUME NEW c \in Connections, Commits(c) PROVE [L!Next]_LifecycleView
  <2>0. /\ TypeOK /\ StagesAgree /\ ReadsAgree /\ ChecksHold /\ DocumentsAgree
        /\ DocumentsAgree' /\ SubmittedComplete'
    BY DEF TInv
  <2>1. PICK m \in Months, old \in Rows, new \in Rows :
          /\ m = Month(c)
          /\ old = cras[m]
          /\ new = cras'[m] /\ new = Result(c)
          /\ \A other \in Months \ {m} : cras'[other] = cras[other]
          /\ \/ RewritesMonth(c, old, new) \/ SubmitsMonth(c, old, new)
             \/ ValidatesMonth(c, old, new) \/ RefusesMonth(c, old, new)
             \/ LeavesMonth(c, old, new)
    BY <1>2, <2>0, CommitStep
  <2>2. pc[c] = "commit" /\ Written(c)
    BY <1>2 DEF Commits, Commit, CommitUnacknowledged
  <2>3. /\ LifecycleView = [ x \in Months |->
                             View(cras[x], DraftedFrom(x), DeclinedFrom(x)) ]
        /\ LifecycleView' = [ x \in Months |->
                              View(cras'[x], DraftedFrom(x)', DeclinedFrom(x)') ]
    BY DEF LifecycleView, View
  <2>4. \A x \in Months : /\ LifecycleView[x].status = cras[x].status
                          /\ LifecycleView[x].lines = cras[x].lines
                          /\ LifecycleView[x].dossier = Dossier(DraftedFrom(x), DeclinedFrom(x))
                          /\ LifecycleView'[x].status = cras'[x].status
                          /\ LifecycleView'[x].lines = cras'[x].lines
                          /\ LifecycleView'[x].dossier
                               = Dossier(DraftedFrom(x)', DeclinedFrom(x)')
    BY <2>3 DEF View
  <2>5. \A x \in Months : ~ (Validates(c) /\ x = m) =>
          DraftedFrom(x)' = DraftedFrom(x) /\ DeclinedFrom(x)' = DeclinedFrom(x)
    BY <2>1, <2>2, CommitDocuments
  <2>6. /\ \A other \in Months \ {m} : LifecycleView'[other] = LifecycleView[other]
        /\ DOMAIN LifecycleView' = Months
    BY <2>1, <2>3, <2>5
  <2>7. \A x \in Months :
          /\ cras[x].status # "validated" => LifecycleView[x].dossier = {}
          /\ cras'[x].status # "validated" => LifecycleView'[x].dossier = {}
    BY <2>0, <2>4, EmptyDossier DEF DocumentsAgree
  <2>8. CASE RewritesMonth(c, old, new) \/ SubmitsMonth(c, old, new)
    <3>1. /\ old.status \in {"absent", "draft", "refused"}
          /\ new.status \in {"submitted",
                             IF old.status = "absent" THEN "draft" ELSE old.status}
      BY <2>1, <2>8 DEF RewritesMonth, SubmitsMonth, Open, Rows
    <3>2. new.status = "submitted" => L!Whole(m, new.lines)
      BY <2>0, <2>1, SameSums DEF SubmittedComplete
    <3>3. L!Write(m)
      BY <2>1, <2>4, <2>7, <3>1, <3>2 DEF L!Write
    <3> QED
      BY <2>6, <3>3 DEF L!Next
  <2>9. CASE RefusesMonth(c, old, new)
    <3>1. old.status = "submitted" /\ new.status = "refused" /\ new.lines = old.lines
      BY <2>1, <2>9 DEF RefusesMonth, Rows
    <3>2. LifecycleView'[m] = [ LifecycleView[m] EXCEPT !.status = "refused" ]
      BY <2>1, <2>3, <2>4, <2>7, <3>1 DEF View
    <3>3. L!Refuse(m)
      BY <2>1, <2>4, <3>1, <3>2 DEF L!Refuse
    <3> QED
      BY <2>6, <3>3 DEF L!Next
  <2>10. CASE ValidatesMonth(c, old, new)
    <3>1. old.status = "submitted" /\ new.status = "validated" /\ new.lines = old.lines
      BY <2>1, <2>10 DEF ValidatesMonth, Rows
    <3>2. /\ DraftedFrom(m)' = DraftsFrom(m, new.lines, new.validatedBy)
          /\ DeclinedFrom(m)' = DeclinesFrom(m, new.lines)
      BY <2>0, <2>1, <3>1 DEF DocumentsAgree
    <3>3. old.lines \in SUBSET Lines
      BY <2>1 DEF Rows
    <3>4. LifecycleView'[m].dossier = L!Bill(old.lines)
      BY <2>1, <2>4, <3>1, <3>2, <3>3, DossierIsBill
    <3>5. LifecycleView'[m] = [ LifecycleView[m] EXCEPT !.status = "validated",
                                                        !.dossier = L!Bill(old.lines) ]
      <4>1. LifecycleView[m] = [ status |-> "submitted", lines |-> old.lines,
                                 dossier |-> Dossier(DraftedFrom(m), DeclinedFrom(m)) ]
        BY <2>1, <2>3, <3>1 DEF View
      <4>2. LifecycleView'[m] = View(new, DraftedFrom(m)', DeclinedFrom(m)')
        BY <2>1, <2>3
      <4>3. LifecycleView'[m] = [ status |-> "validated", lines |-> old.lines,
                                  dossier |-> L!Bill(old.lines) ]
        BY <2>4, <3>1, <3>4, <4>2 DEF View
      <4> DEFINE decided == [ LifecycleView[m] EXCEPT !.status = "validated" ]
      <4>4. decided = [ status |-> "validated", lines |-> old.lines,
                        dossier |-> Dossier(DraftedFrom(m), DeclinedFrom(m)) ]
        BY <4>1
      <4>5. LifecycleView'[m] = [ decided EXCEPT !.dossier = L!Bill(old.lines) ]
        <5> HIDE DEF decided
        <5> QED
          BY <4>3, <4>4
      <4> QED
        BY <4>5
    <3>6. L!Validate(m)
      BY <2>1, <2>4, <3>1, <3>5 DEF L!Validate
    <3> QED
      BY <2>6, <3>6 DEF L!Next
  <2>11. CASE LeavesMonth(c, old, new)
    <3>1. cras'[m] = cras[m] /\ ~ Validates(c)
      BY <2>1, <2>11 DEF LeavesMonth, Validates
    <3>2. LifecycleView' = LifecycleView
      BY <2>1, <2>3, <2>5, <3>1
    <3> QED
      BY <3>2
  <2> QED
    BY <2>1, <2>8, <2>9, <2>10, <2>11
<1> QED
  BY <1>1, <1>2, OnlyCommitsWrite

\* The tables, the locks and the transactions implement one atomic object per month: it is
\* written whole, submitted complete, decided once it is submitted, and its validation bills
\* every mission worked on, once, in the same instant (ADR-0001, ADR-0037).
THEOREM Refinement == Spec => ImplementsLifecycle
<1>1. TInv /\ TInv' /\ [Next]_vars => [L!Next]_LifecycleView
  BY NextRefines
<1> QED
  BY <1>1, InitRefines, Invariant, PTL DEF Spec, ImplementsLifecycle, L!Spec

-----------------------------------------------------------------------------
(***************************************************************************)
(* Sums over finite sets.  A fold is a recursive function: that it exists, *)
(* and what it is worth, goes by the least cardinality at which it would   *)
(* not.                                                                    *)
(***************************************************************************)

\* A set of numbers that is not empty has a least one.
LEMMA LeastNat ==
    ASSUME NEW T \in SUBSET Nat, T # {}
    PROVE  \E n \in T : \A m \in T : n <= m
<1>1. PICK x \in T : \A y \in T : ~ (<< y, x >> \in OpToRel(<, Nat))
  BY NatLessThanWellFounded, WFMin
<1>2. \A y \in T : ~ (y < x)
  BY <1>1 DEF OpToRel
<1> QED
  BY <1>2

\* The element a fold takes out of a set first.
Chosen(s) == CHOOSE x \in s : TRUE

\* g gives the sum of the weights w of every subset of S.
IsSum(g, S, w) ==
    g = [ s \in SUBSET S |-> IF s = {} THEN 0 ELSE w[Chosen(s)] + g[s \ {Chosen(s)}] ]

\* There is an element to take out of a set that is not empty.
LEMMA ChosenIn == ASSUME NEW s, s # {} PROVE Chosen(s) \in s
  BY DEF Chosen

\* One element taken out.
LEMMA IsSumEq ==
    ASSUME NEW S, NEW w, NEW g, IsSum(g, S, w), NEW s \in SUBSET S
    PROVE  g[s] = IF s = {} THEN 0 ELSE w[Chosen(s)] + g[s \ {Chosen(s)}]
<1> DEFINE f == [ t \in SUBSET S |->
                  IF t = {} THEN 0 ELSE w[Chosen(t)] + g[t \ {Chosen(t)}] ]
<1>1. g = f
  BY DEF IsSum
<1>2. f[s] = IF s = {} THEN 0 ELSE w[Chosen(s)] + g[s \ {Chosen(s)}]
  OBVIOUS
<1> HIDE DEF f
<1> QED
  BY <1>1, <1>2

\* The function of the sums exists.
LEMMA SumExists ==
    ASSUME NEW S, IsFiniteSet(S), NEW w \in [ S -> Nat ]
    PROVE  \E g : IsSum(g, S, w)
<1> DEFINE Part(n) == { s \in SUBSET S : Cardinality(s) <= n }
           Sums(g, n) == \A s \in Part(n) :
                 g[s] = IF s = {} THEN 0 ELSE w[Chosen(s)] + g[s \ {Chosen(s)}]
           Good(n) == \E g \in [ Part(n) -> Nat ] : Sums(g, n)
           wrong == { n \in Nat : ~ Good(n) }
<1>0. \A s \in SUBSET S : Cardinality(s) \in Nat /\ IsFiniteSet(s)
  BY FS_Subset, FS_CardinalityType
<1>1. ASSUME NEW s \in SUBSET S, s # {}
      PROVE  /\ Chosen(s) \in s
             /\ s \ {Chosen(s)} \in SUBSET S
             /\ Cardinality(s \ {Chosen(s)}) = Cardinality(s) - 1
  BY <1>0, <1>1, ChosenIn, FS_RemoveElement
<1>2. Good(0)
  <2>1. \A s \in Part(0) : s = {}
    BY <1>0, FS_EmptySet
  <2>2. Sums([ s \in Part(0) |-> 0 ], 0)
    BY <2>1
  <2>3. [ s \in Part(0) |-> 0 ] \in [ Part(0) -> Nat ]
    OBVIOUS
  <2> HIDE DEF Part, Sums
  <2> QED
    BY <2>2, <2>3
<1>3. ASSUME NEW n \in Nat, Good(n) PROVE Good(n + 1)
  <2>1. PICK g \in [ Part(n) -> Nat ] : Sums(g, n)
    BY <1>3
  <2> DEFINE h == [ s \in Part(n + 1) |->
                    IF s = {} THEN 0 ELSE w[Chosen(s)] + g[s \ {Chosen(s)}] ]
  <2>2. ASSUME NEW s \in Part(n + 1), s # {} PROVE s \ {Chosen(s)} \in Part(n)
    BY <1>0, <1>1, <2>2
  <2>3. h \in [ Part(n + 1) -> Nat ]
    <3> SUFFICES ASSUME NEW s \in Part(n + 1), s # {}
                 PROVE  w[Chosen(s)] + g[s \ {Chosen(s)}] \in Nat
      OBVIOUS
    <3>1. w[Chosen(s)] \in Nat
      BY <1>1
    <3>2. g[s \ {Chosen(s)}] \in Nat 
      <4> HIDE DEF Part
      <4> QED
        BY <2>2
    <3> QED
      BY <3>1, <3>2
  <2>4. ASSUME NEW s \in Part(n) PROVE h[s] = g[s]
    <3>1. s \in Part(n + 1)
      BY <1>0
    <3>2. h[s] = IF s = {} THEN 0 ELSE w[Chosen(s)] + g[s \ {Chosen(s)}]
      BY <3>1
    <3>3. g[s] = IF s = {} THEN 0 ELSE w[Chosen(s)] + g[s \ {Chosen(s)}]
      BY <2>1
    <3> QED
      BY <3>2, <3>3
  <2>5. Sums(h, n + 1)
    <3> SUFFICES ASSUME NEW s \in Part(n + 1)
                 PROVE  h[s] = IF s = {} THEN 0 ELSE w[Chosen(s)] + h[s \ {Chosen(s)}]
      OBVIOUS
    <3>1. h[s] = IF s = {} THEN 0 ELSE w[Chosen(s)] + g[s \ {Chosen(s)}]
      OBVIOUS
    <3>2. s # {} => h[s \ {Chosen(s)}] = g[s \ {Chosen(s)}]
      <4> HIDE DEF Part, h
      <4> QED
        BY <2>2, <2>4
    <3> HIDE DEF Part, h
    <3> QED
      BY <3>1, <3>2
  <2> HIDE DEF Part, h, Sums
  <2> QED
    BY <2>3, <2>5
<1>4. \A n \in Nat : Good(n)
  <2> HIDE DEF Good
  <2>1. SUFFICES ASSUME wrong # {} PROVE FALSE
    OBVIOUS
  <2>2. PICK n \in wrong : \A m \in wrong : n <= m
    BY <2>1, LeastNat
  <2>3. n # 0
    BY <1>2
  <2>4. n - 1 \in Nat /\ Good(n - 1)
    BY <2>2, <2>3
  <2>5. Good((n - 1) + 1)
    BY <1>3, <2>4
  <2> QED
    BY <2>5
<1>5. Part(Cardinality(S)) = SUBSET S
  BY <1>0, FS_Subset
<1>6. PICK g \in [ SUBSET S -> Nat ] : Sums(g, Cardinality(S))
  <2>1. Good(Cardinality(S))
    BY <1>0, <1>4
  <2> HIDE DEF Part, Sums
  <2> QED
    BY <2>1, <1>5
<1> QED
  <2>1. \A s \in SUBSET S : g[s] = IF s = {} THEN 0 ELSE w[Chosen(s)] + g[s \ {Chosen(s)}]
    BY <1>5, <1>6
  <2> QED
    BY <2>1 DEF IsSum

\* A sum of naturals is a natural.
LEMMA SumNat ==
    ASSUME NEW S, IsFiniteSet(S), NEW w \in [ S -> Nat ], NEW g, IsSum(g, S, w)
    PROVE  \A s \in SUBSET S : g[s] \in Nat
<1> DEFINE Fits(s) == g[s] \in Nat
           wrong == { n \in Nat : \E s \in SUBSET S : Cardinality(s) = n /\ ~ Fits(s) }
<1>1. SUFFICES ASSUME wrong # {} PROVE FALSE
  BY FS_Subset, FS_CardinalityType
<1>2. PICK n \in wrong : \A m \in wrong : n <= m
  BY <1>1, LeastNat
<1>3. PICK s \in SUBSET S : Cardinality(s) = n /\ ~ Fits(s)
  OBVIOUS
<1>4. g[s] = IF s = {} THEN 0 ELSE w[Chosen(s)] + g[s \ {Chosen(s)}]
  BY IsSumEq
<1>5. CASE s # {}
  <2>1. Chosen(s) \in s /\ IsFiniteSet(s)
    BY <1>5, ChosenIn, FS_Subset
  <2>2. Cardinality(s \ {Chosen(s)}) = n - 1 /\ n - 1 \in Nat
    <3>1. /\ IsFiniteSet(s \ {Chosen(s)})
          /\ Cardinality(s \ {Chosen(s)}) = Cardinality(s) - 1
      BY <2>1, FS_RemoveElement
    <3> QED
      BY <1>3, <3>1, FS_CardinalityType
  <2>3. Fits(s \ {Chosen(s)})
    BY <1>2, <2>2
  <2>4. w[Chosen(s)] \in Nat
    BY <2>1
  <2> QED
    BY <1>3, <1>4, <1>5, <2>3, <2>4
<1> QED
  BY <1>3, <1>4, <1>5

\* Where all weights but one are zero, the sum is that one.
LEMMA SumOfOne ==
    ASSUME NEW S, IsFiniteSet(S), NEW w \in [ S -> Nat ], NEW g, IsSum(g, S, w),
           NEW x \in S, \A y \in S \ {x} : w[y] = 0
    PROVE  \A s \in SUBSET S : g[s] = IF x \in s THEN w[x] ELSE 0
<1> DEFINE Fits(s) == g[s] = IF x \in s THEN w[x] ELSE 0
           wrong == { n \in Nat : \E s \in SUBSET S : Cardinality(s) = n /\ ~ Fits(s) }
<1>1. SUFFICES ASSUME wrong # {} PROVE FALSE
  BY FS_Subset, FS_CardinalityType
<1>2. PICK n \in wrong : \A m \in wrong : n <= m
  BY <1>1, LeastNat
<1>3. PICK s \in SUBSET S : Cardinality(s) = n /\ ~ Fits(s)
  OBVIOUS
<1>4. CASE s = {}
  BY <1>3, <1>4, IsSumEq
<1>5. CASE s # {}
  <2> DEFINE c == Chosen(s)
  <2>1. c \in s
    BY <1>5, ChosenIn
  <2>2. IsFiniteSet(s)
    BY FS_Subset
  <2>3. Cardinality(s \ {c}) = n - 1 /\ n - 1 \in Nat
    <3>1. IsFiniteSet(s \ {c}) /\ Cardinality(s \ {c}) = Cardinality(s) - 1
      BY <2>1, <2>2, FS_RemoveElement
    <3> QED
      BY <1>3, <3>1, FS_CardinalityType
  <2>4. Fits(s \ {c})
    BY <1>2, <2>3
  <2>5. g[s] = w[c] + g[s \ {c}]
    <3>1. g[s] = IF s = {} THEN 0 ELSE w[Chosen(s)] + g[s \ {Chosen(s)}]
       BY IsSumEq
    <3> QED
      BY <1>5, <3>1
  <2> HIDE DEF c
  <2> QED
    BY <1>3, <2>1, <2>4, <2>5
<1> QED
  BY <1>4, <1>5

\* There is nothing in the sum of nothing.
LEMMA SumEmpty ==
    ASSUME NEW S, NEW w, NEW g, IsSum(g, S, w)
    PROVE  g[{}] = 0
<1>1. {} \in SUBSET S
  OBVIOUS
<1>2. g[{}] = IF {} = {} THEN 0 ELSE w[Chosen({})] + g[{} \ {Chosen({})}]
  BY <1>1, IsSumEq
<1> QED
  BY <1>2

\* Any element can be taken out of a sum first.
LEMMA SumRemove ==
    ASSUME NEW S, IsFiniteSet(S), NEW w \in [ S -> Nat ], NEW g, IsSum(g, S, w)
    PROVE  \A s \in SUBSET S : \A x \in s : g[s] = w[x] + g[s \ {x}]
<1>0. \A s \in SUBSET S : g[s] = IF s = {} THEN 0 ELSE w[Chosen(s)] + g[s \ {Chosen(s)}]
  BY IsSumEq
<1> DEFINE Fits(s) == \A x \in s : g[s] = w[x] + g[s \ {x}]
           wrong == { n \in Nat : \E s \in SUBSET S : Cardinality(s) = n /\ ~ Fits(s) }
<1>1. SUFFICES ASSUME wrong # {} PROVE FALSE
  BY FS_Subset, FS_CardinalityType
<1>2. PICK n \in wrong : \A m \in wrong : n <= m
  BY <1>1, LeastNat
<1>3. PICK s \in SUBSET S : Cardinality(s) = n /\ ~ Fits(s)
  OBVIOUS
<1>4. g[s] = IF s = {} THEN 0 ELSE w[Chosen(s)] + g[s \ {Chosen(s)}]
  BY <1>0
<1>5. PICK x \in s : g[s] # w[x] + g[s \ {x}]
  BY <1>3
<1>6. PICK y \in s : g[s] = w[y] + g[s \ {y}]
  BY <1>4, <1>5, ChosenIn
<1>7. x # y /\ IsFiniteSet(s)
  BY <1>5, <1>6, FS_Subset
<1>8. ASSUME NEW z \in s PROVE Fits(s \ {z})
  <2>1. IsFiniteSet(s \ {z}) /\ Cardinality(s \ {z}) = Cardinality(s) - 1
    BY <1>7, FS_RemoveElement
  <2>2. n - 1 \in Nat
    BY <1>3, <2>1, FS_CardinalityType
  <2> QED
    BY <1>2, <1>3, <2>1, <2>2
<1>9. g[s \ {y}] = w[x] + g[(s \ {y}) \ {x}] /\ g[s \ {x}] = w[y] + g[(s \ {x}) \ {y}]
  BY <1>7, <1>8
<1>10. g[s \ {y}] = w[x] + g[(s \ {x}) \ {y}]
  <2>1. (s \ {y}) \ {x} = (s \ {x}) \ {y}
    OBVIOUS
  <2> QED
    BY <1>9, <2>1
<1>11. w[x] \in Nat /\ w[y] \in Nat /\ g[(s \ {x}) \ {y}] \in Nat
  BY SumNat
<1> HIDE DEF wrong, Fits
<1> QED
  BY <1>5, <1>6, <1>9, <1>10, <1>11

\* The sum of two sets apart.
LEMMA SumAdds ==
    ASSUME NEW S, IsFiniteSet(S), NEW w \in [ S -> Nat ], NEW g, IsSum(g, S, w),
           NEW t \in SUBSET S
    PROVE  \A s \in SUBSET S : s \cap t = {} => g[s \cup t] = g[s] + g[t]
<1> DEFINE Fits(s) == s \cap t = {} => g[s \cup t] = g[s] + g[t]
           wrong == { n \in Nat : \E s \in SUBSET S : Cardinality(s) = n /\ ~ Fits(s) }
<1>1. SUFFICES ASSUME wrong # {} PROVE FALSE
  BY FS_Subset, FS_CardinalityType
<1>2. PICK n \in wrong : \A m \in wrong : n <= m
  BY <1>1, LeastNat
<1>3. PICK s \in SUBSET S : Cardinality(s) = n /\ ~ Fits(s)
  OBVIOUS
<1>4. g[t] \in Nat /\ \A r \in SUBSET S : g[r] \in Nat
  BY SumNat
<1>5. CASE s = {}
  <2>1. g[s] = 0
    BY <1>5, SumEmpty
  <2>2. s \cup t = t
    BY <1>5
  <2> QED
    BY <1>3, <1>4, <2>1, <2>2
<1>6. CASE s # {}
  <2>1. PICK x : x \in s
    BY <1>6
  <2>2. IsFiniteSet(s \ {x}) /\ Cardinality(s \ {x}) = Cardinality(s) - 1
    BY <2>1, FS_Subset, FS_RemoveElement
  <2>3. n - 1 \in Nat
    BY <1>3, <2>2, FS_CardinalityType
  <2>4. Fits(s \ {x})
    <3>1. s \ {x} \in SUBSET S
      OBVIOUS
    <3> HIDE DEF Fits
    <3> QED
      BY <1>2, <1>3, <2>2, <2>3, <3>1
  <2>5. s \cap t = {} /\ x \notin t
    BY <1>3, <2>1
  <2>6. (s \cup t) \ {x} = (s \ {x}) \cup t
    BY <2>5
  <2>7. g[s \cup t] = w[x] + g[(s \ {x}) \cup t]
    BY <2>1, <2>6, SumRemove
  <2>8. g[s] = w[x] + g[s \ {x}]
    BY <2>1, SumRemove
  <2>9. w[x] \in Nat /\ g[s \ {x}] \in Nat
    BY <1>4, <2>1
  <2>10. g[(s \ {x}) \cup t] = g[s \ {x}] + g[t]
    BY <2>4, <2>5
  <2> QED
    BY <1>3, <1>4, <2>5, <2>7, <2>8, <2>9, <2>10
<1> QED
  BY <1>5, <1>6

\* The sum of a subset, taken on its own.
LEMMA SumOfPart ==
    ASSUME NEW S, IsFiniteSet(S), NEW w \in [ S -> Nat ], NEW g, IsSum(g, S, w),
           NEW T \in SUBSET S, NEW h, IsSum(h, T, [ x \in T |-> w[x] ])
    PROVE  \A s \in SUBSET T : h[s] = g[s]
<1> DEFINE Fits(s) == h[s] = g[s]
           wrong == { n \in Nat : \E s \in SUBSET T : Cardinality(s) = n /\ ~ Fits(s) }
           v == [ x \in T |-> w[x] ]
<1>0. IsFiniteSet(T) /\ v \in [ T -> Nat ]
  BY FS_Subset
<1>1. SUFFICES ASSUME wrong # {} PROVE FALSE
  BY <1>0, FS_Subset, FS_CardinalityType
<1>2. PICK n \in wrong : \A m \in wrong : n <= m
  BY <1>1, LeastNat
<1>3. PICK s \in SUBSET T : Cardinality(s) = n /\ ~ Fits(s)
  OBVIOUS
<1>4. CASE s = {}
  <2>1. h[{}] = 0 /\ g[{}] = 0
    BY SumEmpty
  <2> QED
    BY <1>3, <1>4, <2>1
<1>5. CASE s # {}
  <2>1. PICK x : x \in s
    BY <1>5
  <2>2. IsFiniteSet(s \ {x}) /\ Cardinality(s \ {x}) = Cardinality(s) - 1
    BY <1>0, <2>1, FS_Subset, FS_RemoveElement
  <2>3. n - 1 \in Nat
    BY <1>3, <2>2, FS_CardinalityType
  <2>4. h[s \ {x}] = g[s \ {x}]
    BY <1>2, <1>3, <2>2, <2>3
  <2>5. g[s] = w[x] + g[s \ {x}]
    BY <2>1, SumRemove
  <2>6. h[s] = v[x] + h[s \ {x}]
    <3> HIDE DEF v
    <3> QED
      BY <1>0, <2>1, SumRemove DEF v
  <2>7. v[x] = w[x]
    BY <2>1
  <2> HIDE DEF v
  <2> QED
    BY <1>3, <2>4, <2>5, <2>6, <2>7
<1> QED
  BY <1>4, <1>5

\* A sum taken part by part, a part for each value of f.
LEMMA SumByPart ==
    ASSUME NEW S, IsFiniteSet(S), NEW w \in [ S -> Nat ], NEW g, IsSum(g, S, w),
           NEW I, IsFiniteSet(I), NEW f \in [ S -> I ], NEW v \in [ I -> Nat ],
           NEW p \in [ I -> SUBSET S ],
           \A i \in I : v[i] = g[p[i]] /\ \A x \in S : x \in p[i] <=> f[x] = i,
           NEW h, IsSum(h, I, v)
    PROVE  h[I] = g[S]
<1>0. ASSUME NEW t \in SUBSET S
      PROVE  \A s \in SUBSET S : s \cap t = {} => g[s \cup t] = g[s] + g[t]
  BY SumAdds
<1> DEFINE Of(J) == { x \in S : f[x] \in J }
           Fits(J) == h[J] = g[Of(J)]
           wrong == { n \in Nat : \E J \in SUBSET I : Cardinality(J) = n /\ ~ Fits(J) }
<1>1. SUFFICES ASSUME wrong # {} PROVE FALSE
  <2>1. Of(I) = S /\ I \in SUBSET I
    OBVIOUS
  <2>2. \A J \in SUBSET I : Cardinality(J) \in Nat
    BY FS_Subset, FS_CardinalityType
  <2> HIDE DEF Of
  <2> QED
    BY <2>1, <2>2
<1>2. PICK n \in wrong : \A m \in wrong : n <= m
  BY <1>1, LeastNat
<1>3. PICK J \in SUBSET I : Cardinality(J) = n /\ ~ Fits(J)
  OBVIOUS
<1>4. CASE J = {}
  <2>1. Of(J) = {}
    BY <1>4
  <2>2. h[{}] = 0 /\ g[{}] = 0
    BY SumEmpty
  <2> QED
    BY <1>3, <1>4, <2>1, <2>2
<1>5. CASE J # {}
  <2>1. PICK i : i \in J
    BY <1>5
  <2>2. IsFiniteSet(J \ {i}) /\ Cardinality(J \ {i}) = Cardinality(J) - 1
    BY <2>1, FS_Subset, FS_RemoveElement
  <2>3. n - 1 \in Nat
    BY <1>3, <2>2, FS_CardinalityType
  <2>4. Fits(J \ {i})
    <3>1. J \ {i} \in SUBSET I
      OBVIOUS
    <3> HIDE DEF Fits
    <3> QED
      BY <1>2, <1>3, <2>2, <2>3, <3>1
  <2>5. h[J] = v[i] + h[J \ {i}]
    BY <2>1, SumRemove
  <2>6. Of(J) = Of({i}) \cup Of(J \ {i}) /\ Of({i}) \cap Of(J \ {i}) = {}
    BY <2>1
  <2>7. Of({i}) = p[i]
    BY <2>1
  <2>8. Of({i}) \in SUBSET S /\ Of(J \ {i}) \in SUBSET S
    OBVIOUS
  <2> HIDE DEF Of
  <2>9. g[Of({i}) \cup Of(J \ {i})] = g[Of({i})] + g[Of(J \ {i})]
    BY <1>0, <2>6, <2>8
  <2>10. v[i] = g[Of({i})]
    BY <2>1, <2>7
  <2> QED
    BY <1>3, <2>4, <2>5, <2>6, <2>9, <2>10
<1> QED
  BY <1>4, <1>5

\* A sum of weights that are not zero is at least the number of them.
LEMMA SumCounts ==
    ASSUME NEW S, IsFiniteSet(S), NEW w \in [ S -> Nat ], NEW g, IsSum(g, S, w),
           \A x \in S : w[x] > 0
    PROVE  \A s \in SUBSET S : Cardinality(s) <= g[s]
<1> DEFINE Fits(s) == Cardinality(s) <= g[s]
           wrong == { n \in Nat : \E s \in SUBSET S : Cardinality(s) = n /\ ~ Fits(s) }
<1>1. SUFFICES ASSUME wrong # {} PROVE FALSE
  BY FS_Subset, FS_CardinalityType
<1>2. PICK n \in wrong : \A m \in wrong : n <= m
  BY <1>1, LeastNat
<1>3. PICK s \in SUBSET S : Cardinality(s) = n /\ ~ Fits(s)
  OBVIOUS
<1>4. CASE s = {}
  <2>1. g[{}] = 0 /\ Cardinality({}) = 0
    BY SumEmpty, FS_EmptySet
  <2> QED
    BY <1>3, <1>4, <2>1
<1>5. CASE s # {}
  <2>1. PICK x : x \in s
    BY <1>5
  <2>2. IsFiniteSet(s \ {x}) /\ Cardinality(s \ {x}) = Cardinality(s) - 1
    BY <2>1, FS_Subset, FS_RemoveElement
  <2>3. n - 1 \in Nat
    BY <1>3, <2>2, FS_CardinalityType
  <2>4. Cardinality(s \ {x}) <= g[s \ {x}]
    BY <1>2, <1>3, <2>2, <2>3
  <2>5. g[s] = w[x] + g[s \ {x}]
    BY <2>1, SumRemove
  <2>6. w[x] \in Nat /\ w[x] > 0 /\ g[s \ {x}] \in Nat
    BY <2>1, SumNat
  <2> QED
    BY <1>3, <2>2, <2>3, <2>4, <2>5, <2>6
<1> QED
  BY <1>4, <1>5

\* The quarter-days of a set of lines are such a sum.
LEMMA QuarterDaysSum ==
    ASSUME NEW lines, IsFiniteSet(lines), \A line \in lines : line.quarterDays \in Nat
    PROVE  \E g : /\ IsSum(g, lines, [ line \in lines |-> line.quarterDays ])
                  /\ QuarterDays(lines) = g[lines]
<1> DEFINE w == [ line \in lines |-> line.quarterDays ]
           P(g) == g = [ s \in SUBSET lines |->
                         IF s = {} THEN 0 ELSE (CHOOSE x \in s : TRUE).quarterDays
                                               + g[s \ {CHOOSE x \in s : TRUE}] ]
           iter == CHOOSE g : P(g)
<1>1. QuarterDays(lines) = iter[lines]
  BY DEF QuarterDays, MapThenSumSet, MapThenFoldSet
<1>2. \A g : P(g) <=> IsSum(g, lines, w)
  BY ChosenIn DEF Chosen, IsSum
<1>3. \E g : IsSum(g, lines, w)
  BY SumExists
<1>4. P(iter)
  <2> HIDE DEF P
  <2> QED
    BY <1>2, <1>3
<1> QED
  BY <1>1, <1>2, <1>4

\* The quarter-days of the parts of a set of lines are values of one sum.
LEMMA QuarterDaysOfParts ==
    ASSUME NEW lines, IsFiniteSet(lines), \A line \in lines : line.quarterDays \in Nat
    PROVE  \E g : /\ IsSum(g, lines, [ line \in lines |-> line.quarterDays ])
                  /\ \A part \in SUBSET lines : QuarterDays(part) = g[part]
<1> DEFINE w == [ line \in lines |-> line.quarterDays ]
<1>1. PICK g : IsSum(g, lines, w)
  BY QuarterDaysSum
<1>2. ASSUME NEW part \in SUBSET lines PROVE QuarterDays(part) = g[part]
  <2>1. IsFiniteSet(part) /\ \A line \in part : line.quarterDays \in Nat
    BY FS_Subset
  <2>2. PICK h : /\ IsSum(h, part, [ line \in part |-> line.quarterDays ])
                 /\ QuarterDays(part) = h[part]
    BY <2>1, QuarterDaysSum
  <2>3. [ line \in part |-> line.quarterDays ] = [ line \in part |-> w[line] ]
    OBVIOUS
  <2>4. w \in [ lines -> Nat ] /\ IsSum(h, part, [ line \in part |-> w[line] ])
    BY <2>2, <2>3
  <2> HIDE DEF w
  <2>5. \A s \in SUBSET part : h[s] = g[s]
    BY <1>1, <2>4, SumOfPart
  <2> QED
    BY <2>2, <2>5
<1> QED
  BY <1>1, <1>2

\* The quarter-days of two sets of lines apart.
LEMMA QuarterDaysAdd ==
    ASSUME NEW lines, IsFiniteSet(lines), \A line \in lines : line.quarterDays \in Nat,
           NEW one \in SUBSET lines, NEW two \in SUBSET lines, one \cap two = {}
    PROVE  /\ QuarterDays(one \cup two) = QuarterDays(one) + QuarterDays(two)
           /\ QuarterDays(one) \in Nat /\ QuarterDays(two) \in Nat
<1> DEFINE w == [ line \in lines |-> line.quarterDays ]
<1>1. PICK g : /\ IsSum(g, lines, w)
               /\ \A part \in SUBSET lines : QuarterDays(part) = g[part]
  BY QuarterDaysOfParts
<1>2. w \in [ lines -> Nat ] /\ one \cup two \in SUBSET lines
  OBVIOUS
<1> HIDE DEF w
<1>3. \A s \in SUBSET lines : s \cap two = {} => g[s \cup two] = g[s] + g[two]
  BY <1>1, <1>2, SumAdds
<1>4. g[one] \in Nat /\ g[two] \in Nat
  BY <1>1, <1>2, SumNat
<1> QED
  BY <1>1, <1>2, <1>3, <1>4

\* Some quarter-days, of one line at least.
LEMMA QuarterDaysCount ==
    ASSUME NEW lines, IsFiniteSet(lines), lines # {},
           \A line \in lines : line.quarterDays \in Nat /\ line.quarterDays > 0
    PROVE  QuarterDays(lines) \in Nat /\ QuarterDays(lines) > 0
<1> DEFINE w == [ line \in lines |-> line.quarterDays ]
<1>1. PICK g : IsSum(g, lines, w) /\ QuarterDays(lines) = g[lines]
  BY QuarterDaysSum
<1>2. w \in [ lines -> Nat ] /\ (\A line \in lines : w[line] > 0) /\ lines \in SUBSET lines
  OBVIOUS
<1> HIDE DEF w
<1>3. Cardinality(lines) <= g[lines] /\ g[lines] \in Nat
  BY <1>1, <1>2, SumCounts, SumNat
<1>4. Cardinality(lines) \in Nat /\ Cardinality(lines) # 0
  BY FS_CardinalityType, FS_EmptySet
<1> QED
  BY <1>1, <1>3, <1>4

\* Where each of a set of records is worth a part of the lines, together they are worth all
\* of them.
LEMMA SumOfParts ==
    ASSUME NEW lines, IsFiniteSet(lines), \A line \in lines : line.quarterDays \in Nat,
           NEW records, IsFiniteSet(records), NEW f \in [ lines -> records ],
           NEW v \in [ records -> Nat ], NEW p \in [ records -> SUBSET lines ],
           \A r \in records :
              v[r] = QuarterDays(p[r]) /\ \A line \in lines : line \in p[r] <=> f[line] = r,
           NEW h, IsSum(h, records, v)
    PROVE  h[records] = QuarterDays(lines)
<1>1. PICK w \in [ lines -> Nat ] :
        \E g : IsSum(g, lines, w) /\ \A part \in SUBSET lines : QuarterDays(part) = g[part]
  <2>1. [ line \in lines |-> line.quarterDays ] \in [ lines -> Nat ]
    OBVIOUS
  <2> QED
    BY <2>1, QuarterDaysOfParts
<1>2. PICK g : /\ IsSum(g, lines, w)
               /\ \A part \in SUBSET lines : QuarterDays(part) = g[part]
  BY <1>1
<1>3. \A r \in records : v[r] = g[p[r]] /\ \A line \in lines : line \in p[r] <=> f[line] = r
  BY <1>2
<1>4. h[records] = g[lines]
  BY <1>2, <1>3, SumByPart
<1> QED
  BY <1>2, <1>4

\* The quarter-days of a part of the lines are a number.
LEMMA QuarterDaysNat ==
    ASSUME NEW lines, IsFiniteSet(lines), \A line \in lines : line.quarterDays \in Nat
    PROVE  \A part \in SUBSET lines : QuarterDays(part) \in Nat
<1>1. ASSUME NEW part \in SUBSET lines PROVE QuarterDays(part) \in Nat
  <2>1. {} \in SUBSET lines /\ part \cap {} = {}
    OBVIOUS
  <2> QED
    BY <2>1, QuarterDaysAdd
<1> QED
  BY <1>1

\* Each line is of one record, and each record of some lines.
Shares(lines, records, f, p) ==
    /\ f \in [ lines -> records ] /\ p \in [ records -> SUBSET lines ]
    /\ \A r \in records :
         /\ \E line \in lines : f[line] = r
         /\ \A line \in lines : line \in p[r] <=> f[line] = r

\* So it is where the lines share out the records.
LEMMA AmountsOfParts ==
    ASSUME NEW lines, IsFiniteSet(lines), \A line \in lines : line.quarterDays \in Nat,
           NEW records, NEW f, NEW p, Shares(lines, records, f, p),
           NEW v \in [ records -> Nat ], \A r \in records : v[r] = QuarterDays(p[r])
    PROVE  /\ IsFiniteSet(records)
           /\ \A h : IsSum(h, records, v) => h[records] = QuarterDays(lines)
<1>1. /\ f \in [ lines -> records ] /\ p \in [ records -> SUBSET lines ]
      /\ \A r \in records :
           /\ \E line \in lines : f[line] = r
           /\ \A line \in lines : line \in p[r] <=> f[line] = r
  BY DEF Shares
<1>2. IsFiniteSet(records)
  <2>1. f \in Surjection(lines, records)
    BY <1>1 DEF Surjection
  <2> QED
    BY <2>1, FS_Surjection
<1>3. ASSUME NEW h, IsSum(h, records, v) PROVE h[records] = QuarterDays(lines)
  <2>1. \A r \in records :
          v[r] = QuarterDays(p[r]) /\ \A line \in lines : line \in p[r] <=> f[line] = r
    BY <1>1
  <2> QED
    BY <1>1, <1>2, <1>3, <2>1, SumOfParts
<1> QED
  BY <1>2, <1>3

\* And so it is of records that say what they are worth.
LEMMA QuarterDaysOfRecords ==
    ASSUME NEW lines, IsFiniteSet(lines), \A line \in lines : line.quarterDays \in Nat,
           NEW records, NEW f, NEW p, Shares(lines, records, f, p),
           \A r \in records : r.quarterDays = QuarterDays(p[r])
    PROVE  QuarterDays(records) = QuarterDays(lines)
<1> DEFINE v == [ r \in records |-> r.quarterDays ]
<1>1. \A r \in records : r.quarterDays \in Nat
  <2>1. \A part \in SUBSET lines : QuarterDays(part) \in Nat
    BY QuarterDaysNat
  <2>2. p \in [ records -> SUBSET lines ]
    BY DEF Shares
  <2> QED
    BY <2>1, <2>2
<1>2. v \in [ records -> Nat ] /\ \A r \in records : v[r] = QuarterDays(p[r])
  BY <1>1
<1> HIDE DEF v
<1>3. IsFiniteSet(records) /\ \A h : IsSum(h, records, v) => h[records] = QuarterDays(lines)
  BY <1>2, AmountsOfParts
<1>4. PICK h : IsSum(h, records, v) /\ QuarterDays(records) = h[records]
  BY <1>1, <1>3, QuarterDaysSum DEF v
<1> QED
  BY <1>3, <1>4

\* So are the quarter-days of a mission over a set of drafts.
Billed(mission, drafts) ==
    MapThenSumSet(LAMBDA draft : QuarterDaysFor(draft.lines, mission), drafts)

LEMMA DraftedSum ==
    ASSUME NEW drafts, IsFiniteSet(drafts), NEW mission,
           \A draft \in drafts : QuarterDaysFor(draft.lines, mission) \in Nat
    PROVE  \E g : /\ IsSum(g, drafts,
                           [ draft \in drafts |-> QuarterDaysFor(draft.lines, mission) ])
                  /\ Billed(mission, drafts) = g[drafts]
<1> DEFINE w == [ draft \in drafts |-> QuarterDaysFor(draft.lines, mission) ]
           P(g) == g = [ s \in SUBSET drafts |->
                         IF s = {} THEN 0
                         ELSE QuarterDaysFor((CHOOSE x \in s : TRUE).lines, mission)
                              + g[s \ {CHOOSE x \in s : TRUE}] ]
           iter == CHOOSE g : P(g)
<1>1. Billed(mission, drafts) = iter[drafts]
  BY DEF Billed, MapThenSumSet, MapThenFoldSet
<1>2. \A g : P(g) <=> IsSum(g, drafts, w)
  BY ChosenIn DEF Chosen, IsSum
<1>3. \E g : IsSum(g, drafts, w)
  BY SumExists
<1>4. P(iter)
  <2> HIDE DEF P
  <2> QED
    BY <1>2, <1>3
<1> QED
  BY <1>1, <1>2, <1>4

-----------------------------------------------------------------------------
(***************************************************************************)
(* Conservation: the lines of a month are finitely many, so its sums are   *)
(* numbers, and drafting puts each of them in one place.                   *)
(***************************************************************************)

\* A list of entries makes finitely many lines.
LEMMA PostedFinite ==
    ASSUME NEW entries \in Postings
    PROVE  IsFiniteSet(LinesOf(entries))
<1> DEFINE LineOf(n) == [ day |-> entries[n].day, dayType |-> entries[n].dayType,
                          mission |-> entries[n].mission,
                          quarterDays |-> SumOf(entries, Triplet(entries[n])) ]
           f == [ n \in DOMAIN entries |-> LineOf(n) ]
<1>1. LinesOf(entries) = { LineOf(n) : n \in DOMAIN entries }
  BY DEF LinesOf
<1>2. f \in Surjection(DOMAIN entries, LinesOf(entries))
  <2> HIDE DEF LineOf
  <2> QED
    BY <1>1 DEF Surjection
<1>3. IsFiniteSet(DOMAIN entries)
  BY PostingsAssumption
<1> QED
  BY <1>2, <1>3, FS_Surjection

FiniteLines == \A m \in Months : IsFiniteSet(cras[m].lines)

LEMMA NextFinite ==
    ASSUME TypeOK, StagesAgree, ReadsAgree, ChecksHold, FiniteLines, [Next]_vars
    PROVE  FiniteLines'
<1>1. CASE UNCHANGED db
  BY <1>1 DEF db, FiniteLines
<1>2. ASSUME NEW c \in Connections, Commits(c) PROVE FiniteLines'
  <2>1. PICK m \in Months, old \in Rows, new \in Rows :
          /\ m = Month(c)
          /\ old = cras[m]
          /\ new = cras'[m] /\ new = Result(c)
          /\ \A other \in Months \ {m} : cras'[other] = cras[other]
          /\ \/ RewritesMonth(c, old, new) \/ SubmitsMonth(c, old, new)
             \/ ValidatesMonth(c, old, new) \/ RefusesMonth(c, old, new)
             \/ LeavesMonth(c, old, new)
    BY <1>2, CommitStep
  <2>2. SUFFICES IsFiniteSet(new.lines)
    BY <2>1 DEF FiniteLines
  <2>3. new.lines = old.lines \/ (command[c].kind = "record" /\ new.lines = Posted(c))
    <3>1. CASE RewritesMonth(c, old, new)
      BY <3>1 DEF RewritesMonth
    <3>2. CASE SubmitsMonth(c, old, new)
      BY <3>2 DEF SubmitsMonth, Rows
    <3>3. CASE ValidatesMonth(c, old, new)
      BY <3>3 DEF ValidatesMonth, Rows
    <3>4. CASE RefusesMonth(c, old, new)
      BY <3>4 DEF RefusesMonth, Rows
    <3>5. CASE LeavesMonth(c, old, new)
      BY <3>5 DEF LeavesMonth
    <3> QED
      BY <2>1, <3>1, <3>2, <3>3, <3>4, <3>5
  <2>4. CASE command[c].kind = "record" /\ new.lines = Posted(c)
    <3>1. pc[c] # "idle"
      BY <1>2 DEF Commits, Commit, CommitUnacknowledged
    <3>2. command[c].entries \in Postings
      BY <2>4, <3>1, Ranges DEF Recordings
    <3> QED
      BY <2>4, <3>2, PostedFinite DEF Posted
  <2> QED
    BY <2>1, <2>3, <2>4 DEF FiniteLines
<1> QED
  BY <1>1, <1>2, OnlyCommitsWrite

\* The quarter-days of no line and of a single one.
LEMMA FewLines ==
    /\ QuarterDays({}) = 0
    /\ \A line : line.quarterDays \in Nat => QuarterDays({line}) = line.quarterDays
<1>1. QuarterDays({}) = 0
  <2>1. IsFiniteSet({})
    BY FS_EmptySet
  <2>2. PICK g : /\ IsSum(g, {}, [ line \in {} |-> line.quarterDays ])
                 /\ QuarterDays({}) = g[{}]
    BY <2>1, QuarterDaysSum
  <2>3. g[{}] = IF {} = {} THEN 0 ELSE [ line \in {} |-> line.quarterDays ][Chosen({})]
                                        + g[{} \ {Chosen({})}]
    BY <2>2, IsSumEq
  <2> QED
    BY <2>2, <2>3
<1>2. ASSUME NEW line, line.quarterDays \in Nat PROVE QuarterDays({line}) = line.quarterDays
  <2> DEFINE w == [ l \in {line} |-> l.quarterDays ]
  <2>1. IsFiniteSet({line})
    BY FS_Singleton
  <2>2. PICK g : IsSum(g, {line}, w) /\ QuarterDays({line}) = g[{line}]
    BY <1>2, <2>1, QuarterDaysSum
  <2>3. w \in [ {line} -> Nat ] /\ w[line] = line.quarterDays
    BY <1>2
  <2> HIDE DEF w
  <2>4. g[{line}] = IF line \in {line} THEN w[line] ELSE 0
    BY <2>1, <2>2, <2>3, SumOfOne
  <2> QED
    BY <2>2, <2>3, <2>4
<1> QED
  BY <1>1, <1>2

\* The quarter-days of a mission are a number.
LEMMA MissionNat ==
    ASSUME NEW lines \in SUBSET Lines, IsFiniteSet(lines), NEW mission
    PROVE  QuarterDaysFor(lines, mission) \in Nat
<1> DEFINE part == { line \in lines : line.mission = mission }
           w == [ line \in part |-> line.quarterDays ]
<1>1. IsFiniteSet(part)
  BY FS_Subset
<1>2. \A line \in part : line.quarterDays \in Nat
  BY DEF Lines, QuarterDaysPerDay
<1>3. PICK g : IsSum(g, part, w) /\ QuarterDays(part) = g[part]
  <2> HIDE DEF part
  <2> QED
    BY <1>1, <1>2, QuarterDaysSum
<1>4. w \in [ part -> Nat ]
  BY <1>2
<1> HIDE DEF part, w
<1>5. g[part] \in Nat
  BY <1>1, <1>3, <1>4, SumNat
<1> QED
  BY <1>3, <1>5 DEF QuarterDaysFor, part

\* The quarter-days a draft invoices of a mission: all of them if its client is the
\* mission's, none otherwise.
LEMMA DraftShare ==
    ASSUME NEW m \in Months, NEW lines \in SUBSET Lines, IsFiniteSet(lines), NEW validator,
           NEW mission, NEW draft \in DraftsFrom(m, lines, validator)
    PROVE  QuarterDaysFor(draft.lines, mission)
             = IF mission \in Worked(lines) /\ Verdict[mission] = draft.client
               THEN QuarterDaysFor(lines, mission) ELSE 0
<1> DEFINE Item(w) == [ mission |-> w, quarterDays |-> QuarterDaysFor(lines, w) ]
           part == { line \in draft.lines : line.mission = mission }
<1>1. draft.lines = { Item(w) : w \in { x \in Worked(lines) : Verdict[x] = draft.client } }
  BY DEF DraftsFrom
<1>2. QuarterDaysFor(draft.lines, mission) = QuarterDays(part)
  BY DEF QuarterDaysFor
<1>3. CASE mission \in Worked(lines) /\ Verdict[mission] = draft.client
  <2>1. part = { Item(mission) }
    BY <1>1, <1>3
  <2>2. Item(mission).quarterDays = QuarterDaysFor(lines, mission)
    OBVIOUS
  <2>3. Item(mission).quarterDays \in Nat
    BY <2>2, MissionNat
  <2> HIDE DEF Item, part
  <2> QED
    BY <1>2, <1>3, <2>1, <2>2, <2>3, FewLines
<1>4. CASE ~ (mission \in Worked(lines) /\ Verdict[mission] = draft.client)
  <2>1. part = {}
    BY <1>1, <1>4
  <2> HIDE DEF part
  <2> QED
    BY <1>2, <1>4, <2>1, FewLines
<1> QED
  BY <1>3, <1>4

\* There are finitely many drafts.
LEMMA DraftsFinite ==
    ASSUME NEW m \in Months, NEW lines \in SUBSET Lines, IsFiniteSet(lines), NEW validator
    PROVE  IsFiniteSet(DraftsFrom(m, lines, validator))
<1> DEFINE Draft(client) ==
             [ month |-> m, client |-> client, validatedBy |-> validator,
               lines |-> { [ mission |-> w, quarterDays |-> QuarterDaysFor(lines, w) ]
                           : w \in { x \in Worked(lines) : Verdict[x] = client } } ]
           drafts == DraftsFrom(m, lines, validator)
           billed == { line \in lines : line.mission # None /\ Verdict[line.mission] \in Clients }
           f == [ line \in billed |-> Draft(Verdict[line.mission]) ]
<1>1. drafts = { Draft(client) : client \in { Verdict[w] : w \in Worked(lines) } \cap Clients }
  BY DEF DraftsFrom
<1>2. drafts = { Draft(Verdict[line.mission]) : line \in billed }
  <2> HIDE DEF Draft, drafts
  <2> QED
    BY <1>1 DEF Worked
<1>3. f \in Surjection(billed, drafts)
  <2> HIDE DEF Draft, drafts, billed
  <2> QED
    BY <1>2 DEF Surjection
<1>4. IsFiniteSet(billed)
  BY FS_Subset
<1> HIDE DEF f, billed, drafts
<1>5. IsFiniteSet(drafts)
  BY <1>3, <1>4, FS_Surjection
<1> QED
  BY <1>5 DEF drafts

\* No two drafts are for one client.
LEMMA DraftOfClient ==
    ASSUME NEW m \in Months, NEW lines, NEW validator,
           NEW one \in DraftsFrom(m, lines, validator),
           NEW two \in DraftsFrom(m, lines, validator), one.client = two.client
    PROVE  one = two
  BY DEF DraftsFrom

\* What a draft bills of a client: the quarter-days on the client's missions.
DaysOfClient(lines, client) ==
    { line \in lines : line.mission # None /\ Verdict[line.mission] = client }

LEMMA DraftAmount ==
    ASSUME NEW m \in Months, NEW lines \in SUBSET Lines, IsFiniteSet(lines), NEW validator,
           NEW draft \in DraftsFrom(m, lines, validator)
    PROVE  /\ QuarterDays(draft.lines) = QuarterDays(DaysOfClient(lines, draft.client))
           /\ QuarterDays(draft.lines) \in Nat /\ QuarterDays(draft.lines) > 0
<1> DEFINE part == { line \in lines : line.mission # None /\ Verdict[line.mission] = draft.client }
           Record(u) == [ mission |-> u, quarterDays |-> QuarterDaysFor(lines, u) ]
           f == [ line \in part |-> Record(line.mission) ]
           p == [ r \in draft.lines |-> { line \in part : f[line] = r } ]
<1>1. /\ draft.client \in { Verdict[u] : u \in Worked(lines) } \cap Clients
      /\ draft.lines = { Record(u) : u \in { x \in Worked(lines) : Verdict[x] = draft.client } }
  BY DEF DraftsFrom
<1>2. draft.lines = { Record(line.mission) : line \in part }
  <2> HIDE DEF Record
  <2> QED
    BY <1>1 DEF Worked
<1>3. part \in SUBSET lines /\ IsFiniteSet(part) /\ part # {}
  <2>1. PICK u \in Worked(lines) : Verdict[u] = draft.client
    BY <1>1
  <2>2. PICK line \in lines : line.mission = u /\ u # None
    BY <2>1 DEF Worked
  <2> QED
    BY <2>1, <2>2, FS_Subset
<1>4. \A line \in lines : line.quarterDays \in Nat /\ line.quarterDays > 0
  BY DEF Lines, QuarterDaysPerDay
<1>5. f \in [ part -> draft.lines ] /\ f \in Surjection(part, draft.lines)
  <2> HIDE DEF part, Record
  <2> QED
    BY <1>2 DEF Surjection
<1>6. ASSUME NEW r \in draft.lines
      PROVE  r.quarterDays = QuarterDays({ line \in part : f[line] = r })
  <2>1. PICK u : r = Record(u) /\ u \in Worked(lines) /\ Verdict[u] = draft.client
    BY <1>1
  <2>2. { line \in part : f[line] = r } = { line \in lines : line.mission = u }
    BY <2>1 DEF Worked
  <2> QED
    BY <2>1, <2>2 DEF QuarterDaysFor
<1>7. \A line \in part : line.quarterDays \in Nat /\ line.quarterDays > 0
  BY <1>4
<1>8. QuarterDays(part) \in Nat /\ QuarterDays(part) > 0
  <2> HIDE DEF part
  <2> QED
    BY <1>3, <1>7, QuarterDaysCount
<1> HIDE DEF f, part, Record
<1>9. Shares(part, draft.lines, f, p) /\ \A r \in draft.lines : r.quarterDays = QuarterDays(p[r])
  BY <1>5, <1>6 DEF Surjection, Shares
<1> HIDE DEF p
<1>10. QuarterDays(draft.lines) = QuarterDays(part)
  BY <1>3, <1>7, <1>9, QuarterDaysOfRecords
<1> QED
  BY <1>8, <1>10 DEF part, DaysOfClient

\* A sum of zeros.
LEMMA SumOfNone ==
    ASSUME NEW S, IsFiniteSet(S), NEW w \in [ S -> Nat ], NEW g, IsSum(g, S, w),
           \A y \in S : w[y] = 0
    PROVE  g[S] = 0
<1>1. CASE S = {}
  BY <1>1, IsSumEq
<1>2. CASE S # {}
  <2>1. PICK x \in S : TRUE
    BY <1>2
  <2>2. g[S] = IF x \in S THEN w[x] ELSE 0
    BY <2>1, SumOfOne
  <2> QED
    BY <2>2
<1> QED
  BY <1>1, <1>2

\* What the drafts of a month invoice of a mission.
LEMMA DraftsShare ==
    ASSUME NEW m \in Months, NEW lines \in SUBSET Lines, IsFiniteSet(lines), NEW validator,
           NEW mission \in Missions
    PROVE  Billed(mission, DraftsFrom(m, lines, validator))
             = IF mission \in Worked(lines) /\ Verdict[mission] \in Clients
               THEN QuarterDaysFor(lines, mission) ELSE 0
<1> DEFINE drafts == DraftsFrom(m, lines, validator)
           w == [ draft \in drafts |-> QuarterDaysFor(draft.lines, mission) ]
<1>1. \A draft \in drafts : QuarterDaysFor(draft.lines, mission)
             = IF mission \in Worked(lines) /\ Verdict[mission] = draft.client
               THEN QuarterDaysFor(lines, mission) ELSE 0
  BY DraftShare
<1>2. \A draft \in drafts : QuarterDaysFor(draft.lines, mission) \in Nat
  BY <1>1, MissionNat
<1>3. IsFiniteSet(drafts)
  BY DraftsFinite
<1>4. w \in [ drafts -> Nat ]
  BY <1>2
<1>5. PICK g : IsSum(g, drafts, w) /\ Billed(mission, drafts) = g[drafts]
  <2> HIDE DEF drafts
  <2> QED
    BY <1>2, <1>3, DraftedSum
<1>6. \A draft \in drafts : draft.client \in Clients
  BY DEF DraftsFrom
<1>7. CASE mission \in Worked(lines) /\ Verdict[mission] \in Clients
  <2>1. PICK x \in drafts : x.client = Verdict[mission]
    <3> DEFINE x == [ month |-> m, client |-> Verdict[mission], validatedBy |-> validator,
                      lines |-> { [ mission |-> u, quarterDays |-> QuarterDaysFor(lines, u) ]
                                : u \in { v \in Worked(lines) : Verdict[v] = Verdict[mission] } } ]
    <3>1. x \in drafts
      BY <1>7 DEF DraftsFrom
    <3>2. x.client = Verdict[mission]
      OBVIOUS
    <3> HIDE DEF x, drafts
    <3> QED
      BY <3>1, <3>2
  <2>2. \A y \in drafts \ {x} : y.client # Verdict[mission]
    BY <2>1, DraftOfClient
  <2>3. \A y \in drafts : w[y] = QuarterDaysFor(y.lines, mission)
    OBVIOUS
  <2> HIDE DEF drafts, w
  <2>4. \A y \in drafts \ {x} : w[y] = 0
    BY <1>1, <2>2, <2>3
  <2>5. w[x] = QuarterDaysFor(lines, mission)
    BY <1>1, <1>7, <2>1, <2>3
  <2>6. g[drafts] = IF x \in drafts THEN w[x] ELSE 0
    BY <1>3, <1>4, <1>5, <2>1, <2>4, SumOfOne
  <2> QED
    BY <1>5, <1>7, <2>1, <2>5, <2>6 DEF drafts
<1>8. CASE ~ (mission \in Worked(lines) /\ Verdict[mission] \in Clients)
  <2>1. \A y \in drafts : w[y] = QuarterDaysFor(y.lines, mission)
    OBVIOUS
  <2> HIDE DEF drafts, w
  <2>2. \A y \in drafts : w[y] = 0
    BY <1>1, <1>6, <1>8, <2>1
  <2>3. g[drafts] = 0
    BY <1>3, <1>4, <1>5, <2>2, SumOfNone
  <2> QED
    BY <1>5, <1>8, <2>3 DEF drafts
<1> QED
  BY <1>7, <1>8

\* What the declined records of a month keep of a mission.
LEMMA DeclinesShare ==
    ASSUME NEW m \in Months, NEW lines \in SUBSET Lines, IsFiniteSet(lines),
           NEW mission \in Missions
    PROVE  QuarterDays({ record \in DeclinesFrom(m, lines) : record.mission = mission })
             = IF mission \in Worked(lines) /\ Verdict[mission] \in Reasons
               THEN QuarterDaysFor(lines, mission) ELSE 0
<1> DEFINE Record(u) == [ month |-> m, mission |-> u, reason |-> Verdict[u],
                          quarterDays |-> QuarterDaysFor(lines, u) ]
           part == { record \in DeclinesFrom(m, lines) : record.mission = mission }
<1>1. DeclinesFrom(m, lines)
        = { Record(u) : u \in { v \in Worked(lines) : Verdict[v] \in Reasons } }
  BY DEF DeclinesFrom
<1>2. CASE mission \in Worked(lines) /\ Verdict[mission] \in Reasons
  <2>1. part = { Record(mission) }
    BY <1>1, <1>2
  <2>2. Record(mission).quarterDays = QuarterDaysFor(lines, mission)
    OBVIOUS
  <2>3. Record(mission).quarterDays \in Nat
    BY <2>2, MissionNat
  <2> HIDE DEF Record
  <2> QED
    BY <1>2, <2>1, <2>2, <2>3, FewLines
<1>3. CASE ~ (mission \in Worked(lines) /\ Verdict[mission] \in Reasons)
  <2>1. part = {}
    BY <1>1, <1>3
  <2> HIDE DEF Record
  <2> QED
    BY <1>3, <2>1, FewLines
<1> QED
  BY <1>2, <1>3

\* A mission nobody worked on has no quarter-days.
LEMMA Unworked ==
    ASSUME NEW lines \in SUBSET Lines, NEW mission \in Missions, mission \notin Worked(lines)
    PROVE  QuarterDaysFor(lines, mission) = 0
<1>1. { line \in lines : line.mission = mission } = {}
  BY NoneAssumption DEF Worked
<1> QED
  BY <1>1, FewLines DEF QuarterDaysFor

\* So a month whose documents are those of its lines has each of its quarter-days once.
LEMMA DocumentsConserve == TInv /\ FiniteLines => Conserved
<1> SUFFICES ASSUME TInv, FiniteLines, NEW m \in Months, cras[m].status = "validated",
                    NEW mission \in Missions
             PROVE  QuarterDaysFor(cras[m].lines, mission)
                      = Invoiced(m, mission) + Turned(m, mission)
  BY DEF Conserved
<1> DEFINE lines == cras[m].lines
           validator == cras[m].validatedBy
           q == QuarterDaysFor(lines, mission)
<1>1. lines \in SUBSET Lines /\ IsFiniteSet(lines)
  BY DEF TInv, TypeOK, Rows, FiniteLines
<1>2. /\ DraftedFrom(m) = DraftsFrom(m, lines, validator)
      /\ DeclinedFrom(m) = DeclinesFrom(m, lines)
  BY DEF TInv, DocumentsAgree
<1> HIDE DEF lines, validator
<1>3. Invoiced(m, mission) = IF mission \in Worked(lines) /\ Verdict[mission] \in Clients
                             THEN q ELSE 0
  <2>1. Invoiced(m, mission) = Billed(mission, DraftedFrom(m))
    BY DEF Invoiced, Billed
  <2> QED
    BY <1>1, <1>2, <2>1, DraftsShare
<1>4. Turned(m, mission) = IF mission \in Worked(lines) /\ Verdict[mission] \in Reasons
                           THEN q ELSE 0
  BY <1>1, <1>2, DeclinesShare DEF Turned
<1>5. q \in Nat
  BY <1>1, MissionNat
<1>6. mission \notin Worked(lines) => q = 0
  BY <1>1, Unworked
<1>7. /\ Verdict[mission] \in Clients \cup Reasons
      /\ ~ (Verdict[mission] \in Clients /\ Verdict[mission] \in Reasons)
  BY VerdictAssumption
<1> HIDE DEF q
<1>8. q = Invoiced(m, mission) + Turned(m, mission)
  BY <1>3, <1>4, <1>5, <1>6, <1>7
<1> QED
  BY <1>8 DEF q, lines

\* No quarter-day worked in a validated month is lost, or billed twice.
THEOREM Conservation == Spec => []Conserved
<1>1. Init => FiniteLines
  <2> SUFFICES ASSUME Init, NEW m \in Months PROVE cras[m].lines = {}
    BY FS_EmptySet DEF FiniteLines
  <2> QED
    BY DEF Init, Absent
<1>2. TInv /\ FiniteLines /\ [Next]_vars => FiniteLines'
  BY NextFinite DEF TInv
<1> QED
  BY <1>1, <1>2, DocumentsConserve, Invariant, PTL DEF Spec

=============================================================================
