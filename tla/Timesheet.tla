----------------------------- MODULE Timesheet ------------------------------
(***************************************************************************)
(* The three write chains of a Cra: its owner records and submits a month  *)
(* (record-month.ts), its manager validates it, which drafts the invoices  *)
(* in the same transaction (validate-cra.ts), or refuses it (refuse-cra.ts).*)
(*                                                                         *)
(* As in Issuance, a process is a client of the connection pool, an action *)
(* is one statement or the code between two of them, and what a            *)
(* transaction wrote is private to it until Commit.  A Cra is named by its *)
(* (consultant, period) pair, a month, which is what its unique constraint *)
(* and its advisory lock are keyed on.                                     *)
(***************************************************************************)
EXTENDS Naturals, FiniteSets, Sequences, FiniteSetsExt

CONSTANTS
    Connections,  \* clients of the pool; each runs one transaction at a time
    Months,       \* the Cras there may be: a consultant and a period each
    People,       \* the consultants and managers behind the requests
    Owner,        \* the consultant of each month
    ManagerOf,    \* hierarchy.managerOf(owner, period), or None
    Readable,     \* <<person, month>> pairs assertMayRead lets through
    Slots,        \* values of hashtext(consultant:period)
    MonthSlot,    \* the hash itself, which may collide
    Days,         \* the days any of the months has
    DaysOf,       \* the days of each month
    Workable,     \* the days the working calendar says are workable
    Missions,     \* the missions that exist
    Qualified,    \* <<person, mission, day>>: the mission runs, no habilitation is missing
    Clients,      \* the clients that exist
    Reasons,      \* why drafting declines a mission's days
    Verdict,      \* what drafting makes of a mission: its client, or a reason
    Postings,     \* the lists of entries a PUT may carry
    Rosters,      \* the values the assignments may take
    None          \* SQL's NULL, and the owner of a free lock

QuarterDaysPerDay == 4

ASSUME OwnerAssumption     == Owner \in [Months -> People]
ASSUME ManagerAssumption   == ManagerOf \in [Months -> People \cup {None}]
ASSUME ReadableAssumption  == Readable \subseteq People \X Months
ASSUME SlotAssumption      == MonthSlot \in [Months -> Slots]
ASSUME CalendarAssumption  == /\ DaysOf \in [Months -> SUBSET Days]
                              /\ Workable \subseteq Days
                              /\ \A m \in Months : DaysOf[m] \cap Workable # {}
ASSUME VerdictAssumption   == /\ Verdict \in [Missions -> Clients \cup Reasons]
                              /\ Clients \cap Reasons = {}
\* What the body of a PUT is parsed into.
ASSUME PostingsAssumption  ==
    \A entries \in Postings :
        /\ IsFiniteSet(DOMAIN entries)
        /\ \A n \in DOMAIN entries : /\ entries[n].dayType \in {"worked", "absence"}
                                     /\ entries[n].mission \in Missions \cup {None}
ASSUME NoneAssumption      == None \notin Connections \cup People \cup Missions

VARIABLES
    cras,       \* timesheet.cras with its lines and flags, as committed
    invoices,   \* the draft invoices of billing.invoices, as committed
    declined,   \* billing.declined_days, as committed
    journal,    \* how many TimesheetValidated events public.domain_events holds of a month
    assigned,   \* isAssigned over public.assignments: <<person, mission, day>>
    monthLock,  \* holder of the advisory transaction lock of a slot
    rowLock,    \* holder of the row lock of a Cra
    pc,         \* the next statement of each connection's transaction
    command,    \* the request each connection is serving
    seen,       \* the Cra as read under its lock
    answers     \* history: what validations were answered with

db     == << cras, invoices, declined, journal >>
locks  == << monthLock, rowLock >>
local  == << command, seen >>
transaction == << db, locks, pc, local, answers >>
vars   == << transaction, assigned >>

-----------------------------------------------------------------------------
(* The month and its lines.                                                *)

\* The sum of quarterDays over a set or list of lines, each of its own triplet.
QuarterDays(lines) == MapThenSumSet(LAMBDA line : line.quarterDays, lines)

QuarterDaysOn(lines, day) == QuarterDays({ line \in lines : line.day = day })

\* One (day, dayType, missionId) triplet is one line: duplicates sum.
Triplet(entry) == << entry.day, entry.dayType, entry.mission >>

SumOf(entries, triplet) ==
    MapThenSumSet(LAMBDA n : entries[n].quarterDays,
                  { n \in DOMAIN entries : Triplet(entries[n]) = triplet })

LinesOf(entries) ==
    { [ day |-> entries[n].day, dayType |-> entries[n].dayType,
        mission |-> entries[n].mission,
        quarterDays |-> SumOf(entries, Triplet(entries[n])) ] : n \in DOMAIN entries }

\* What recordDay refuses of the lines of a month.
Recordable(m, lines) ==
    /\ \A line \in lines :
         /\ line.day \in DaysOf[m]
         /\ line.quarterDays \in 1 .. QuarterDaysPerDay
         /\ line.dayType = "worked" <=> line.mission # None
    /\ \A day \in Days : QuarterDaysOn(lines, day) \in 0 .. QuarterDaysPerDay

\* The submission checks: each mission day staffed and qualified, each workable
\* day full.
Submittable(m, lines) ==
    /\ \A line \in lines : line.mission # None =>
         /\ << Owner[m], line.mission, line.day >> \in assigned
         /\ << Owner[m], line.mission, line.day >> \in Qualified
    /\ \A day \in DaysOf[m] \cap Workable :
         QuarterDaysOn(lines, day) >= QuarterDaysPerDay

FlagsOf(lines) == { line.day : line \in lines } \ Workable

\* The payload of TimesheetValidated: billable quarter-days per mission.
Worked(lines) == { line.mission : line \in lines } \ {None}

QuarterDaysFor(lines, mission) ==
    QuarterDays({ line \in lines : line.mission = mission })

\* draftInvoicesFrom: one invoice per client, and the days that produced no line.
DraftsFrom(m, lines, validator) ==
    { [ month |-> m, client |-> client, validatedBy |-> validator,
        lines |-> { [ mission |-> mission, quarterDays |-> QuarterDaysFor(lines, mission) ]
                    : mission \in { w \in Worked(lines) : Verdict[w] = client } } ]
      : client \in { Verdict[w] : w \in Worked(lines) } \cap Clients }

\* An unknown client's days are skipped without a trace.
DeclinesFrom_Silent(m, lines) == {}

DeclinesFrom(m, lines) ==
    { [ month |-> m, mission |-> mission, reason |-> Verdict[mission],
        quarterDays |-> QuarterDaysFor(lines, mission) ]
      : mission \in { w \in Worked(lines) : Verdict[w] \in Reasons } }

-----------------------------------------------------------------------------
Statuses == { "draft", "submitted", "refused", "validated" }

Lines == [ day : Days, dayType : {"worked", "absence"},
           mission : Missions \cup {None}, quarterDays : 1 .. QuarterDaysPerDay ]

\* The state of a Cra; of submittedAt, whether it is set.
Rows == [ status : Statuses \cup {"absent"}, lines : SUBSET Lines, flags : SUBSET Days,
          submitted : BOOLEAN,
          validatedBy : People \cup {None}, refusedBy : People \cup {None} ]

\* The row before its INSERT.
Absent == [ status |-> "absent", lines |-> {}, flags |-> {}, submitted |-> FALSE,
            validatedBy |-> None, refusedBy |-> None ]

\* assertCraStateIsCoherent: a row that is not is never read again, by anybody.
Coherent(row) ==
    /\ row.status = "draft" => ~ row.submitted /\ row.refusedBy = None
    /\ row.status = "submitted" => row.submitted
    /\ row.status = "refused" => row.refusedBy # None
    /\ row.status = "validated" <=> row.validatedBy # None

\* PUT .../entries is its owner's alone; a decision is any manager's to attempt.
Recordings  == [ kind : {"record"}, month : Months, entries : Postings, submit : BOOLEAN ]
Validations == [ kind : {"validate"}, month : Months, actor : People ]
Refusals    == [ kind : {"refuse"}, month : Months, actor : People, blank : BOOLEAN ]
Commands    == Recordings \cup Validations \cup Refusals

Steps == { "idle", "lockMonth", "lockRow", "decide", "submit", "draft", "journal",
           "save", "commit" }

Month(c) == command[c].month
Slot(c)  == MonthSlot[Month(c)]
Actor(c) == IF command[c].kind = "record" THEN Owner[Month(c)] ELSE command[c].actor

Posted(c) == LinesOf(command[c].entries)

\* The aggregate as the domain method leaves it, and save() writes it.  An edit
\* keeps the flags and the refusal; a submission recomputes the one and drops
\* the other.
Recorded(c) ==
    [ seen[c] EXCEPT !.lines = Posted(c),
                     !.status = IF @ = "absent" THEN "draft" ELSE @ ]

Submitted(c) ==
    [ Recorded(c) EXCEPT !.status = "submitted",
                         !.submitted = TRUE,
                         !.flags = FlagsOf(Posted(c)),
                         !.refusedBy = None ]

Result(c) ==
    CASE command[c].kind = "record"   ->
           IF command[c].submit THEN Submitted(c) ELSE Recorded(c)
      [] command[c].kind = "validate" ->
           [ seen[c] EXCEPT !.status = "validated", !.validatedBy = command[c].actor ]
      [] command[c].kind = "refuse"   ->
           [ seen[c] EXCEPT !.status = "refused", !.refusedBy = command[c].actor ]

\* findDraftedFrom and findDeclinedDays: the result of a validation.
DraftedFrom(m)  == { draft \in invoices : draft.month = m }
DeclinedFrom(m) == { record \in declined : record.month = m }

Answer(m, drafts, declines) ==
    [ month |-> m, invoices |-> drafts, declined |-> declines ]

-----------------------------------------------------------------------------
Init ==
    /\ cras = [ m \in Months |-> Absent ]
    /\ invoices = {}
    /\ declined = {}
    /\ journal = [ m \in Months |-> 0 ]
    /\ assigned \in Rosters
    /\ monthLock = [ s \in Slots |-> None ]
    /\ rowLock = [ m \in Months |-> None ]
    /\ pc = [ c \in Connections |-> "idle" ]
    /\ command = [ c \in Connections |-> None ]
    /\ seen = [ c \in Connections |-> Absent ]
    /\ answers = {}

Goto(c, step) == pc' = [ pc EXCEPT ![c] = step ]

Release(lock, c) == [ x \in DOMAIN lock |-> IF lock[x] = c THEN None ELSE lock[x] ]

\* COMMIT or ROLLBACK: the locks are released and the client is idle again.
End(c) ==
    /\ pc' = [ pc EXCEPT ![c] = "idle" ]
    /\ monthLock' = Release(monthLock, c)
    /\ rowLock' = Release(rowLock, c)
    /\ command' = [ command EXCEPT ![c] = None ]
    /\ seen' = [ seen EXCEPT ![c] = Absent ]
    /\ UNCHANGED assigned

EndUnwritten(c) == End(c) /\ UNCHANGED << db, answers >>

\* The environment: assignments are created and moved (see Staffing).
Restaff ==
    /\ assigned' \in Rosters
    /\ UNCHANGED transaction

-----------------------------------------------------------------------------
(* A definition that ends in _ and a defect is the faulty variant that the *)
(* mutation runs put in the place of the one it is named after.            *)

MonthFree_Unlocked(c) == TRUE
MonthFree(c) == monthLock[Slot(c)] = None

RowFree_Unlocked(c) == TRUE
RowFree(c) == rowLock[Month(c)] = None

Begin(c, cmd) ==
    /\ pc[c] = "idle"
    /\ Goto(c, IF cmd.kind = "record" THEN "lockMonth" ELSE "lockRow")
    /\ command' = [ command EXCEPT ![c] = cmd ]
    /\ UNCHANGED << db, assigned, locks, seen, answers >>

LockMonth(c) ==
    /\ pc[c] = "lockMonth"
    /\ MonthFree(c)
    /\ monthLock' = [ monthLock EXCEPT ![Slot(c)] = c ]
    /\ Goto(c, "lockRow")
    /\ UNCHANGED << db, assigned, rowLock, local, answers >>

\* SELECT ... FOR UPDATE finds no row, and so locks none.
FindNoRow(c) ==
    /\ pc[c] = "lockRow"
    /\ cras[Month(c)].status = "absent"
    /\ Goto(c, "decide")
    /\ UNCHANGED << db, assigned, locks, local, answers >>

LockRow(c) ==
    /\ pc[c] = "lockRow"
    /\ cras[Month(c)].status # "absent"
    /\ RowFree(c)
    /\ << Actor(c), Month(c) >> \in Readable
    /\ Coherent(cras[Month(c)])
    /\ rowLock' = [ rowLock EXCEPT ![Month(c)] = c ]
    /\ seen' = [ seen EXCEPT ![c] = cras[Month(c)] ]
    /\ Goto(c, "decide")
    /\ UNCHANGED << db, assigned, monthLock, command, answers >>

RefuseScope(c) ==
    /\ pc[c] = "lockRow"
    /\ cras[Month(c)].status # "absent"
    /\ RowFree(c)
    /\ << Actor(c), Month(c) >> \notin Readable
    /\ EndUnwritten(c)

-----------------------------------------------------------------------------
(* recordMonth.                                                            *)

Deciding(c, kind) == pc[c] = "decide" /\ command[c].kind = kind

\* clearDay and recordDay each assert the Cra is editable; a month that had no
\* line and is posted none asserts nothing.
Editable_AnyStatus(c) == TRUE
Editable(c) ==
    \/ seen[c].status \in {"absent", "draft", "refused"}
    \/ seen[c].lines = {} /\ Posted(c) = {}

MayRecord(c) == Editable(c) /\ Recordable(Month(c), Posted(c))

RecordMonth(c) ==
    /\ Deciding(c, "record")
    /\ MayRecord(c)
    /\ Goto(c, IF command[c].submit THEN "submit" ELSE "save")
    /\ UNCHANGED << db, assigned, locks, local, answers >>

RefuseEntries(c) ==
    /\ Deciding(c, "record")
    /\ ~ MayRecord(c)
    /\ EndUnwritten(c)

\* submit() against the reference snapshot read just before it.
MaySubmit(c) ==
    /\ seen[c].status \notin {"validated", "submitted"}
    /\ Submittable(Month(c), Posted(c))

Submit(c) ==
    /\ pc[c] = "submit"
    /\ MaySubmit(c)
    /\ Goto(c, "save")
    /\ UNCHANGED << db, assigned, locks, local, answers >>

RefuseSubmission(c) ==
    /\ pc[c] = "submit"
    /\ ~ MaySubmit(c)
    /\ EndUnwritten(c)

-----------------------------------------------------------------------------
(* validateCraAndDraftInvoices and refuseCra.                              *)

AnswerNotFound(c) ==
    /\ Deciding(c, "validate") \/ Deciding(c, "refuse")
    /\ seen[c].status = "absent"
    /\ EndUnwritten(c)

\* A validated Cra answers the original result, and is not refused.
AnswerReplayed(c) ==
    /\ Deciding(c, "validate")
    /\ seen[c].status = "validated"
    /\ End(c)
    /\ answers' = answers \cup
         { Answer(Month(c), DraftedFrom(Month(c)), DeclinedFrom(Month(c))) }
    /\ UNCHANGED db

\* Only a submitted Cra is decided on, by its manager, who is not its owner.
MayDecide(c) ==
    /\ seen[c].status = "submitted"
    /\ command[c].actor # Owner[Month(c)]
    /\ command[c].actor = ManagerOf[Month(c)]

\* validate() succeeds, and publishing the event runs its subscriber in place.
Validate(c) ==
    /\ Deciding(c, "validate")
    /\ MayDecide(c)
    /\ Goto(c, "draft")
    /\ UNCHANGED << db, assigned, locks, local, answers >>

RefuseValidation(c) ==
    /\ Deciding(c, "validate")
    /\ seen[c].status \notin {"absent", "validated"}
    /\ ~ MayDecide(c)
    /\ EndUnwritten(c)

\* What the transaction of c drafts.
Drafts(c)   == DraftsFrom(Month(c), seen[c].lines, command[c].actor)
Declines(c) == DeclinesFrom(Month(c), seen[c].lines)

\* idx_invoices_source_cra_client: an entry another transaction has not committed
\* yet makes the INSERT wait, a committed one makes it fail.
SamePair(one, other) == one.month = other.month /\ one.client = other.client

AwaitsDraft(c) ==
    \E other \in Connections \ {c} :
        /\ pc[other] \in {"journal", "save", "commit"}
        /\ command[other].kind = "validate"
        /\ \E one \in Drafts(c), two \in Drafts(other) : SamePair(one, two)

ViolatesDraft(c) ==
    \E one \in Drafts(c), two \in invoices : SamePair(one, two)

\* saveDraft for each client, then saveDeclinedDays.
SaveDrafts(c) ==
    /\ pc[c] = "draft"
    /\ ~ AwaitsDraft(c)
    /\ ~ ViolatesDraft(c)
    /\ Goto(c, "journal")
    /\ UNCHANGED << db, assigned, locks, local, answers >>

\* The event is stored over another client than the transaction's.
PersistEvent(c) ==
    /\ pc[c] = "journal"
    /\ Goto(c, "save")
    /\ UNCHANGED << db, assigned, locks, local, answers >>

RefuseCra(c) ==
    /\ Deciding(c, "refuse")
    /\ ~ command[c].blank
    /\ MayDecide(c)
    /\ Goto(c, "save")
    /\ UNCHANGED << db, assigned, locks, local, answers >>

RefuseRefusal(c) ==
    /\ Deciding(c, "refuse")
    /\ seen[c].status # "absent"
    /\ command[c].blank \/ ~ MayDecide(c)
    /\ EndUnwritten(c)

-----------------------------------------------------------------------------
(* save() and the end of the transaction.                                  *)

\* cras_consultant_id_period_key: two Cras of one month, each with its own id.
Opens(c) == command[c].kind = "record" /\ seen[c].status = "absent"

AwaitsMonth(c) ==
    \E other \in Connections \ {c} :
        pc[other] = "commit" /\ Opens(other) /\ Month(other) = Month(c)

ViolatesMonth(c) == cras[Month(c)].status # "absent"

Save(c) ==
    /\ pc[c] = "save"
    /\ Opens(c) => ~ AwaitsMonth(c) /\ ~ ViolatesMonth(c)
    /\ Goto(c, "commit")
    /\ UNCHANGED << db, assigned, locks, local, answers >>

Validates(c) == command[c].kind = "validate"

\* Everything the transaction wrote becomes visible at once.
Written(c) ==
    /\ cras' = [ cras EXCEPT ![Month(c)] = Result(c) ]
    /\ IF Validates(c)
       THEN /\ invoices' = invoices \cup Drafts(c)
            /\ declined' = declined \cup Declines(c)
            /\ journal' = [ journal EXCEPT ![Month(c)] = @ + 1 ]
       ELSE UNCHANGED << invoices, declined, journal >>

Commit(c) ==
    /\ pc[c] = "commit"
    /\ Written(c)
    /\ End(c)
    /\ answers' = IF Validates(c)
                  THEN answers \cup { Answer(Month(c), Drafts(c), Declines(c)) }
                  ELSE answers

\* The COMMIT took effect and its acknowledgement never arrived.
CommitUnacknowledged(c) ==
    /\ pc[c] = "commit"
    /\ Written(c)
    /\ End(c)
    /\ UNCHANGED answers

\* A failed statement (an index violated included), a subscriber that throws, a
\* lost connection, a failed COMMIT or a process that dies.
Rollback(c) ==
    /\ pc[c] # "idle"
    /\ EndUnwritten(c)

-----------------------------------------------------------------------------
Lock(c)   == FindNoRow(c) \/ LockRow(c) \/ RefuseScope(c)
Decide(c) == \/ RecordMonth(c) \/ RefuseEntries(c)
             \/ AnswerNotFound(c) \/ AnswerReplayed(c)
             \/ Validate(c) \/ RefuseValidation(c)
             \/ RefuseCra(c) \/ RefuseRefusal(c)

Step(c) ==
    \/ \E cmd \in Commands : Begin(c, cmd)
    \/ LockMonth(c)
    \/ Lock(c)
    \/ Decide(c)
    \/ Submit(c) \/ RefuseSubmission(c)
    \/ SaveDrafts(c) \/ PersistEvent(c)
    \/ Save(c)
    \/ Commit(c) \/ CommitUnacknowledged(c) \/ Rollback(c)

Next == Restaff \/ \E c \in Connections : Step(c)

Spec == Init /\ [][Next]_vars

-----------------------------------------------------------------------------
(* Properties.                                                             *)

\* Types: in particular the lines a month stores are ones craLine accepts.
TypeOK ==
    /\ cras \in [ Months -> Rows ]
    /\ \A draft \in invoices : draft.month \in Months /\ draft.client \in Clients
    /\ \A record \in declined : record.month \in Months /\ record.reason \in Reasons
    /\ journal \in [ Months -> Nat ]
    /\ assigned \in Rosters
    /\ monthLock \in [ Slots -> Connections \cup {None} ]
    /\ rowLock \in [ Months -> Connections \cup {None} ]
    /\ pc \in [ Connections -> Steps ]
    /\ command \in [ Connections -> Commands \cup {None} ]
    /\ seen \in [ Connections -> Rows ]
    /\ \A c \in Connections : pc[c] # "idle" => command[c] \in Commands
    /\ \A a \in answers : a.month \in Months

\* Conservation (ADR-0037): every quarter-day worked on a mission of a validated month
\* is on exactly one invoice line or one declined record; none is lost or billed twice.
Invoiced(m, mission) ==
    MapThenSumSet(LAMBDA draft : QuarterDaysFor(draft.lines, mission), DraftedFrom(m))

Turned(m, mission) ==
    QuarterDays({ record \in DeclinedFrom(m) : record.mission = mission })

Conserved ==
    \A m \in Months : cras[m].status = "validated" =>
        \A mission \in Missions :
            QuarterDaysFor(cras[m].lines, mission) = Invoiced(m, mission) + Turned(m, mission)

\* The indexes are backstops (ADR-0103): the row lock, and not the partial index on
\* (source_cra_id, client_id), stops a second validation from drafting; the advisory lock,
\* and not the month's unique constraint, orders two first saves (CraAlreadyExistsError).
NoIndexConflict ==
    \A c \in Connections :
        /\ pc[c] = "draft" => ~ AwaitsDraft(c) /\ ~ ViolatesDraft(c)
        /\ pc[c] = "save" /\ Opens(c) => ~ AwaitsMonth(c) /\ ~ ViolatesMonth(c)

\* What a manager has in front of them, and what they validated, is a whole month:
\* each workable day is full, and the flags are exactly its other recorded days.
Complete(m, lines) ==
    \A day \in DaysOf[m] \cap Workable : QuarterDaysOn(lines, day) = QuarterDaysPerDay

SubmittedComplete ==
    \A m \in Months : cras[m].status \in {"submitted", "validated"} =>
        /\ Complete(m, cras[m].lines)
        /\ cras[m].flags = FlagsOf(cras[m].lines)

\* Separation of duties (ADR-0006, ADR-0034): the manager of the month decided, not its
\* owner, and each invoice carries the validator whose name its issuance is checked against.
DecidedByTheManager ==
    /\ \A m \in Months : cras[m].status = "validated" =>
         cras[m].validatedBy = ManagerOf[m] /\ cras[m].validatedBy # Owner[m]
    /\ \A m \in Months : cras[m].status = "refused" =>
         cras[m].refusedBy = ManagerOf[m] /\ cras[m].refusedBy # Owner[m]
    /\ \A draft \in invoices : draft.validatedBy = cras[draft.month].validatedBy

\* A validation that was answered, first or replayed, answered the documents the month
\* has for ever after (ADR-0021, ADR-0104).
AnswersHold ==
    \A a \in answers :
        /\ cras[a.month].status = "validated"
        /\ a.invoices = DraftedFrom(a.month)
        /\ a.declined = DeclinedFrom(a.month)

\* What the manager reads of a month to be decided flags the days it records outside the
\* calendar, and only those (CONTEXT.md, CraFlag).
FlagsAreEntries ==
    \A m \in Months : cras[m].flags \subseteq { line.day : line \in cras[m].lines }

-----------------------------------------------------------------------------
(* The inductive invariant of the proofs (TimesheetProofs).                *)

Locked == {"decide", "submit", "draft", "journal", "save", "commit"}

\* The commands that reach each statement.
StagesAgree ==
    \A c \in Connections : pc[c] # "idle" =>
        /\ pc[c] = "lockMonth" => command[c].kind = "record"
        /\ pc[c] = "submit" => command[c].kind = "record" /\ command[c].submit
        /\ pc[c] \in {"draft", "journal"} => command[c].kind = "validate"

\* A lock has the holder its connection's stage says, and the other way round.
LocksAgree ==
    /\ \A c \in Connections :
         pc[c] \in Locked \cup {"lockRow"} /\ command[c].kind = "record"
         => monthLock[Slot(c)] = c
    /\ \A c \in Connections :
         pc[c] \in Locked /\ seen[c].status # "absent" => rowLock[Month(c)] = c
    /\ \A m \in Months : rowLock[m] # None =>
         /\ pc[rowLock[m]] \in Locked
         /\ Month(rowLock[m]) = m
         /\ seen[rowLock[m]].status # "absent"
    /\ \A s \in Slots : monthLock[s] # None =>
         /\ pc[monthLock[s]] \in Locked \cup {"lockRow"}
         /\ command[monthLock[s]].kind = "record"
         /\ Slot(monthLock[s]) = s

\* What was read under the locks is what is committed; the advisory lock protects the
\* reading of no row from another first save, but not from a row another kind of command
\* does not find.
ReadsAgree ==
    /\ \A c \in Connections : pc[c] \notin Locked => seen[c] = Absent
    /\ \A c \in Connections : pc[c] \in Locked =>
         /\ seen[c].status = "absent" => seen[c] = Absent
         /\ seen[c].status # "absent" \/ command[c].kind = "record" => seen[c] = cras[Month(c)]

\* What the checks a transaction passed still say at its later statements.
ChecksHold ==
    \A c \in Connections :
        /\ pc[c] \in {"submit", "save", "commit"} /\ command[c].kind = "record" => MayRecord(c)
        /\ pc[c] \in {"save", "commit"} /\ command[c].kind = "record" /\ command[c].submit =>
             /\ seen[c].status \notin {"submitted", "validated"}
             /\ Complete(Month(c), Posted(c))
        /\ pc[c] \in Locked \ {"decide"} /\ command[c].kind # "record" => MayDecide(c)

\* All or nothing (ADR-0001): a month has the documents of its lines, and its event is in the
\* journal once, if it is validated, and none of them otherwise.
DocumentsAgree ==
    \A m \in Months :
        /\ cras[m].status = "absent" => cras[m] = Absent
        /\ IF cras[m].status = "validated"
           THEN /\ DraftedFrom(m) = DraftsFrom(m, cras[m].lines, cras[m].validatedBy)
                /\ DeclinedFrom(m) = DeclinesFrom(m, cras[m].lines)
                /\ journal[m] = 1
           ELSE DraftedFrom(m) = {} /\ DeclinedFrom(m) = {} /\ journal[m] = 0

\* No chain leaves a row that the next one could not read.
RowsCoherent == \A m \in Months : cras[m].status # "absent" => Coherent(cras[m])

\* The invariant the proofs carry from step to step: the stages, the locks, what was read
\* under them, the checks that were passed and the documents agree with one another.
TInv ==
    /\ TypeOK
    /\ StagesAgree
    /\ LocksAgree
    /\ ReadsAgree
    /\ ChecksHold
    /\ DocumentsAgree
    /\ RowsCoherent
    /\ SubmittedComplete
    /\ DecidedByTheManager
    /\ AnswersHold

\* Refinement: the tables, the locks and the transactions behave as one object per
\* month, which CraLifecycle changes in one step.
Dossier(drafts, declines) ==
    (UNION { { [ mission |-> line.mission, quarterDays |-> line.quarterDays,
                 verdict |-> draft.client ] : line \in draft.lines } : draft \in drafts })
    \cup { [ mission |-> record.mission, quarterDays |-> record.quarterDays,
             verdict |-> record.reason ] : record \in declines }

LifecycleView ==
    [ m \in Months |-> [ status |-> cras[m].status, lines |-> cras[m].lines,
                         dossier |-> Dossier(DraftedFrom(m), DeclinedFrom(m)) ] ]

L == INSTANCE CraLifecycle WITH month <- LifecycleView

ImplementsLifecycle == L!Spec

=============================================================================
