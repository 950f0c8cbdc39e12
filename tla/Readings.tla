------------------------------ MODULE Readings ------------------------------
(***************************************************************************)
(* What the read routes answer while the chains write.  A request of a     *)
(* screen is one transaction of several SELECTs at READ COMMITTED: each    *)
(* statement sees what is committed when it runs, so an answer composes    *)
(* readings of several states of the tables.  Its statements are run here  *)
(* one at a time, in the order of the code, between the steps of Firm.     *)
(***************************************************************************)
EXTENDS Firm, Sequences, FiniteSetsExt

CONSTANTS
    Readers,      \* the personas that ask
    RoleOf,       \* the role of each
    OfficeOf,     \* the office of each reader and consultant
    PeriodOf,     \* the period of each month, a number
    Today,        \* the day of the clock
    ThisPeriod,   \* and its period: the ones before it are closed
    Priced,       \* the missions a Tjm is in force for
    Intercontrat, \* the missions of that name
    PageSize,     \* the limit of a page
    MaxChanges    \* bound: the commits that fall between the statements of one request

VARIABLES
    issued,    \* the drafts that were issued since (Issuance has the chain)
    reading    \* the request being answered: who asks what, and the results so far

readVars == << issued, reading >>

-----------------------------------------------------------------------------
(* The scopes.                                                             *)

READ_SCOPE ==
    [ consultant |-> [ cra |-> "own",    invoice |-> "none",   economics |-> "none" ],
      manager    |-> [ cra |-> "office", invoice |-> "office", economics |-> "office" ],
      billing    |-> [ cra |-> "office", invoice |-> "office", economics |-> "none" ] ]

readScope(actor, resource) == READ_SCOPE[RoleOf[actor]][resource]

\* assertMayRead, of one record.
MayRead(actor, resource, subject) ==
    /\ readScope(actor, resource) # "none"
    /\ OfficeOf[subject] = OfficeOf[actor]
    /\ readScope(actor, resource) = "own" => subject = actor

\* The WHERE of the lists: c.office_id = $1 AND ($2 IS NULL OR c.consultant_id = $2).
CrasOfOffice_AnyConsultant(actor) ==
    { m \in Months : cras[m].status # "absent" /\ OfficeOf[Owner[m]] = OfficeOf[actor] }

CrasOfOffice(actor) ==
    IF readScope(actor, "cra") = "none" THEN {}
    ELSE { m \in Months :
             /\ cras[m].status # "absent"
             /\ OfficeOf[Owner[m]] = OfficeOf[actor]
             /\ readScope(actor, "cra") = "own" => Owner[m] = actor }

InvoicesOfOffice(actor) ==
    IF readScope(actor, "invoice") = "none" THEN {}
    ELSE { draft \in invoices : OfficeOf[Owner[draft.month]] = OfficeOf[actor] }

ASSUME ReadersAssumption == \A reader \in Readers : RoleOf[reader] \in DOMAIN READ_SCOPE

\* What has a price by the day is sold by the day, to a client there is.
ASSUME PricedAssumption == \A mission \in Priced \cap Missions : Verdict[mission] \in Clients

ASSUME PagesAssumption == PageSize \in Nat /\ PeriodOf \in [ Months -> Nat ] /\ ThisPeriod \in Nat

-----------------------------------------------------------------------------
(* The statements of the repositories and of the reference reader.         *)

\* timesheet.cras, and the status change COALESCE(validated_at, refusal_at, submitted_at).
CraRow(m) ==
    [ status |-> cras[m].status, validatedBy |-> cras[m].validatedBy,
      refusedBy |-> cras[m].refusedBy ]

toCraListItem(m) ==
    [ month |-> m, status |-> cras[m].status, recorded |-> T!QuarterDays(cras[m].lines),
      changed |-> cras[m].status # "draft" ]

CraItems(months) == { toCraListItem(m) : m \in months }

\* ORDER BY period DESC and LIMIT: what comes before an item is on the page before it is.
Page(items) ==
    { item \in items :
        Cardinality({ other \in items : PeriodOf[other.month] > PeriodOf[item.month] })
        < PageSize }

list(actor, statuses)  == CraItems({ m \in CrasOfOffice(actor) : cras[m].status \in statuses })
count(actor, statuses) == Cardinality(list(actor, statuses))
listPeriod(actor, period) == CraItems({ m \in CrasOfOffice(actor) : PeriodOf[m] = period })
listPeriods(actor) == { PeriodOf[m] : m \in CrasOfOffice(actor) }
findListItemsByIds(actor, months) == CraItems(CrasOfOffice(actor) \cap months)
recentActivity(actor) == Page({ item \in CraItems(CrasOfOffice(actor)) : item.changed })
awaitingDecision(actor) == list(actor, {"submitted"})
countLate(actor) ==
    Cardinality({ m \in CrasOfOffice(actor) :
                    /\ cras[m].status \in T!Statuses \ {"validated"}
                    /\ PeriodOf[m] < ThisPeriod })
refusedPeriods(actor) ==
    { PeriodOf[m] : m \in { n \in CrasOfOffice(actor) :
                              Owner[n] = actor /\ cras[n].status = "refused" } }

\* billing.invoices with its lines: a draft's amounts are those of its lines, at one
\* unit of money a quarter-day.
InvoiceStatus(draft) == IF draft \in issued THEN "issued" ELSE "draft"

toProjection(draft) ==
    [ month |-> draft.month, client |-> draft.client, status |-> InvoiceStatus(draft),
      amount |-> T!QuarterDays(draft.lines),
      missions |-> { line.mission : line \in draft.lines } ]

Projections(drafts) == { toProjection(draft) : draft \in drafts }

WithStatus(actor, statuses) ==
    { draft \in InvoicesOfOffice(actor) : InvoiceStatus(draft) \in statuses }

AllStatuses == {"draft", "issued", "cancelledByCreditNote"}

listProjection(actor, statuses) == Page(Projections(WithStatus(actor, statuses)))
countInvoices(actor, statuses)  == Cardinality(WithStatus(actor, statuses))
sumCents(drafts) == MapThenSumSet(LAMBDA draft : T!QuarterDays(draft.lines), drafts)
listPeriodProjection(actor, period) ==
    Projections({ draft \in InvoicesOfOffice(actor) : PeriodOf[draft.month] = period })
\* The other end of the order of periods.
oldestDrafts(actor) ==
    LET drafts == Projections(WithStatus(actor, {"draft"}))
    IN  { item \in drafts :
            Cardinality({ other \in drafts : PeriodOf[other.month] < PeriodOf[item.month] })
            < PageSize }
\* Every invoice with a date: its order is of dates, and the limit is above what an instance holds.
recentIssued(actor) == Projections(WithStatus(actor, AllStatuses \ {"draft"}))
invoicePeriods(actor) == { PeriodOf[draft.month] : draft \in InvoicesOfOffice(actor) }
countByYearAndStatus(actor) ==
    [ status \in AllStatuses |-> countInvoices(actor, {status}) ]
findDeclinedDays(actor, months) ==
    IF readScope(actor, "invoice") = "none" THEN {}
    ELSE { record \in declined : /\ record.month \in months
                                 /\ OfficeOf[Owner[record.month]] = OfficeOf[actor] }

\* managerStaffingSnapshot: the consultants of the office that an assignment of today puts on
\* a mission, and those it puts on Intercontrat alone.
AssignedToday(consultant) ==
    { assignments[id].mission : id \in
        { i \in Ids : /\ assignments[i] # None
                      /\ assignments[i].consultant = consultant
                      /\ S!Covers(assignments[i], Today) } }

managerStaffingSnapshot(actor) ==
    LET staffed == { p \in Consultants : /\ OfficeOf[p] = OfficeOf[actor]
                                         /\ Departure[p] = None
                                         /\ AssignedToday(p) # {} }
        idle == { p \in staffed : AssignedToday(p) \subseteq Intercontrat }
    IN  [ onMission |-> Cardinality(staffed \ idle), intercontrat |-> Cardinality(idle) ]

-----------------------------------------------------------------------------
(* The routes: what each asks of the tables, in order.  The reads of names, *)
(* rates and calendars, which no chain writes, are not statements here.     *)

\* #reconstitute: the row, then its lines, then its flags.
Month_RowLast == <<"lines", "flags", "row">>
Month == <<"row", "lines", "flags">>

Grid == Month \o <<"assignable">>

CraList == <<"list", "total">>

PreFacturier_BillFirst == <<"periods", "projection", "cras", "declined">>
PreFacturier == <<"periods", "cras", "declined", "projection">>

ConsultantDashboard == Month \o <<"periods", "refused", "activity">>

ManagerDashboard ==
    PreFacturier \o <<"offered", "pending", "late", "awaiting", "activity", "staffing">>

BillingDashboard ==
    <<"drafts", "issued", "sum", "invoicePeriods", "oldest", "recent", "sources">>

StatusCounts_IssuedFirst == <<"all", "issued", "drafts", "cancelled">>
StatusCounts == <<"all", "drafts", "issued", "cancelled">>

InvoiceList == <<"page", "total">> \o StatusCounts \o <<"sources">>

InvoiceDetail == <<"invoice">> \o Month

\* The instances have one period, so one sum.
History == <<"byStatus", "periods", "sums">>

Script ==
    [ grid |-> Grid, detail |-> Month, craPrint |-> Month, economics |-> Month,
      craList |-> CraList, preFacturier |-> PreFacturier,
      consultantDashboard |-> ConsultantDashboard, managerDashboard |-> ManagerDashboard,
      billingDashboard |-> BillingDashboard, invoiceList |-> InvoiceList,
      invoiceDetail |-> InvoiceDetail, invoicePage |-> <<"invoice">>, history |-> History ]

Kinds == DOMAIN Script

\* forRoles of each route.
Carriers ==
    [ kind \in Kinds |->
        CASE kind = "consultantDashboard" -> {"consultant"}
          [] kind = "managerDashboard"    -> {"manager"}
          [] kind = "billingDashboard"    -> {"billing"}
          [] kind \in {"detail", "craPrint", "craList"} -> {"consultant", "manager", "billing"}
          [] kind = "grid"                -> {"consultant", "manager"}
          [] kind = "economics"           -> {"manager"}
          [] OTHER                        -> {"manager", "billing"} ]

\* A consultant's grid and dashboard are their own; the addresses of the others carry ids.
Requests ==
    { q \in [ kind : Kinds, by : Readers, month : Months, client : Clients \cup {None} ] :
        /\ RoleOf[q.by] \in Carriers[q.kind]
        /\ q.kind \in {"grid", "consultantDashboard"} /\ RoleOf[q.by] = "consultant" =>
             Owner[q.month] = q.by
        /\ (q.kind \in {"invoiceDetail", "invoicePage"}) = (q.client # None) }

Row(q)     == CraRow(q.month)
Invoice(q) == { draft \in invoices : draft.month = q.month /\ draft.client = q.client }

\* The result of one statement, given the results before it.
Result(q, got, name) ==
    CASE name = "row"        -> Row(q)
      [] name = "lines"      -> cras[q.month].lines
      [] name = "flags"      -> cras[q.month].flags
      [] name = "assignable" -> { a \in AssignedDays : a[1] = Owner[q.month] }
      [] name = "list"       -> Page(list(q.by, T!Statuses))
      [] name = "total" /\ q.kind = "craList"  -> count(q.by, T!Statuses)
      [] name = "total" /\ q.kind # "craList"  -> countInvoices(q.by, AllStatuses)
      [] name \in {"periods", "offered"} -> listPeriods(q.by)
      [] name = "cras"       -> listPeriod(q.by, PeriodOf[q.month])
      [] name = "declined"   -> findDeclinedDays(q.by, { item.month : item \in got.cras })
      [] name = "projection" -> listPeriodProjection(q.by, PeriodOf[q.month])
      [] name = "refused"    -> refusedPeriods(q.by)
      [] name = "activity"   -> recentActivity(q.by)
      [] name = "pending"    -> count(q.by, {"submitted"})
      [] name = "late"       -> countLate(q.by)
      [] name = "awaiting"   -> awaitingDecision(q.by)
      [] name = "staffing"   -> managerStaffingSnapshot(q.by)
      [] name = "page"       -> listProjection(q.by, AllStatuses)
      [] name = "all"        -> countInvoices(q.by, AllStatuses)
      [] name = "drafts"     -> countInvoices(q.by, {"draft"})
      [] name = "issued"     -> countInvoices(q.by, {"issued"})
      [] name = "cancelled"  -> countInvoices(q.by, {"cancelledByCreditNote"})
      [] name = "sum"        -> sumCents(WithStatus(q.by, {"issued"}))
      [] name = "invoicePeriods" -> invoicePeriods(q.by)
      [] name = "oldest"     -> oldestDrafts(q.by)
      [] name = "recent"     -> recentIssued(q.by)
      [] name = "sources"    -> findListItemsByIds(q.by,
             { item.month : item \in IF q.kind = "invoiceList" THEN got.page ELSE got.oldest })
      [] name = "invoice"    -> Projections(Invoice(q))
      [] name = "byStatus"   -> countByYearAndStatus(q.by)
      [] name = "sums"       -> [ period \in got.periods |->
             sumCents({ draft \in InvoicesOfOffice(q.by) : PeriodOf[draft.month] = period }) ]

-----------------------------------------------------------------------------
NoRequest == [ request |-> None ]

ReadInit == Init /\ issued = {} /\ reading = NoRequest

Ask(q) ==
    /\ reading = NoRequest
    /\ reading' = [ request |-> q, got |-> << >>, outcome |-> "open", changes |-> 0 ]
    /\ UNCHANGED << vars, issued >>

Open == reading # NoRequest /\ reading.outcome = "open"

\* A row that is not there has no lines to read.
Wanted(q, got, name) ==
    /\ name \notin DOMAIN got
    /\ name \in {"lines", "flags"} /\ "row" \in DOMAIN got => got.row.status # "absent"

Left(q, got) == { n \in DOMAIN Script[q.kind] : Wanted(q, got, Script[q.kind][n]) }

\* What the code answers before it has run the whole script.
NotFound(q, got, name) ==
    \/ /\ name = "row" /\ q.kind \in {"detail", "craPrint", "economics"}
       /\ cras[q.month].status = "absent"
    \/ name = "invoice" /\ Invoice(q) = {}

OutOfScope(q, name) ==
    \/ name = "row" /\ ~ MayRead(q.by, "cra", Owner[q.month])
    \/ name = "row" /\ q.kind = "economics" /\ ~ MayRead(q.by, "economics", Owner[q.month])
    \/ name = "invoice" /\ ~ MayRead(q.by, "invoice", Owner[q.month])

NextStatement == Script[reading.request.kind][Min(Left(reading.request, reading.got))]

Reads(name) ==
    [ read \in DOMAIN reading.got \cup {name} |->
        IF read = name THEN Result(reading.request, reading.got, name) ELSE reading.got[read] ]

\* One statement; the answer is composed after the last.
Query ==
    /\ Open
    /\ ~ NotFound(reading.request, reading.got, NextStatement)
    /\ ~ OutOfScope(reading.request, NextStatement)
    /\ LET got == Reads(NextStatement)
       IN  reading' = [ reading EXCEPT
             !.got = got,
             !.outcome = IF Left(reading.request, got) = {} THEN "answered" ELSE @ ]
    /\ UNCHANGED << vars, issued >>

Refuse ==
    /\ Open
    /\ \/ NotFound(reading.request, reading.got, NextStatement)
       \/ OutOfScope(reading.request, NextStatement)
    /\ reading' = [ reading EXCEPT
         !.outcome = IF NotFound(reading.request, reading.got, NextStatement)
                     THEN "notFound" ELSE "outOfScope" ]
    /\ UNCHANGED << vars, issued >>

Leave ==
    /\ reading # NoRequest /\ ~ Open
    /\ reading' = NoRequest
    /\ UNCHANGED << vars, issued >>

-----------------------------------------------------------------------------
\* What is committed while a request is open is counted against the bound.
Interfering(tables, tables_) ==
    /\ Open \/ reading = NoRequest
    /\ Open /\ tables # tables_ => reading.changes < MaxChanges
    /\ reading' = IF Open /\ tables # tables_
                  THEN [ reading EXCEPT !.changes = @ + 1 ] ELSE reading

Write ==
    /\ Next
    /\ UNCHANGED issued
    /\ Interfering(<< cras, invoices, declined, assignments >>,
                   << cras', invoices', declined', assignments' >>)

IssueElsewhere ==
    /\ \E draft \in invoices \ issued : issued' = issued \cup {draft}
    /\ UNCHANGED vars
    /\ Interfering(issued, issued')

ReadNext ==
    \/ Write \/ IssueElsewhere
    \/ \E q \in Requests : Ask(q)
    \/ Query \/ Refuse \/ Leave

ReadSpec == ReadInit /\ [][ReadNext]_<< vars, readVars >>

-----------------------------------------------------------------------------
(* The answers.                                                            *)

Answered(kinds) ==
    reading # NoRequest /\ reading.outcome = "answered" /\ reading.request.kind \in kinds

Asker == reading.request.by
Asked == reading.request.month
Got   == reading.got

OfMonth(items, m) == { item \in items : item.month = m }
LinesRead == IF "lines" \in DOMAIN Got THEN Got.lines ELSE {}
FlagsRead == IF "flags" \in DOMAIN Got THEN Got.flags ELSE {}

\* craGridComposition and gridResponseOf: the month as it is shown, and whether it may be
\* edited.
GridResponse ==
    [ status      |-> Got.row.status, lines |-> LinesRead, flags |-> FlagsRead,
      editable    |-> Got.row.status \in {"absent", "draft", "refused"},
      validatedBy |-> Got.row.validatedBy,
      missions    |-> { a[2] : a \in Got.assignable } ]

\* What the consultant has left to fill of the month.
ConsultantDashboardAnswer ==
    [ status    |-> Got.row.status,
      recorded  |-> T!QuarterDays(LinesRead),
      remaining |-> { day \in DaysOf[Asked] \cap Workable :
                        T!QuarterDaysOn(LinesRead, day) < T!QuarterDaysPerDay } ]

\* craPrintPage: the totals a signatory checks, one per mission and one of the absences.
PrintedTotals ==
    { [ mission |-> mission, quarterDays |-> T!QuarterDaysFor(LinesRead, mission) ]
      : mission \in { line.mission : line \in LinesRead } }

\* blockingOf: the quarter-days of a month that no draft carries, and why.
BlockingOf(item) ==
    IF item.status # "validated"
    THEN IF item.recorded = 0 THEN {}
         ELSE { [ quarterDays |-> item.recorded, why |-> item.status ] }
    ELSE { [ quarterDays |-> record.quarterDays, why |-> record.reason, mission |-> record.mission ]
           : record \in OfMonth(Got.declined, item.month) }

PreFacturierRows ==
    { [ item |-> item, blocking |-> BlockingOf(item),
        decidable |-> item.status = "submitted" /\ RoleOf[Asker] = "manager" ]
      : item \in Got.cras }

BillableCents(items) == MapThenSumSet(LAMBDA item : item.amount, items)

LateQuarterDays ==
    IF PeriodOf[Asked] < ThisPeriod
    THEN MapThenSumSet(LAMBDA item : item.recorded,
                       { item \in Got.cras : item.status # "validated" })
    ELSE 0

\* consultantEconomics: the days behind the revenue, of the missions a Tjm prices.
EconomicsDays ==
    { [ mission |-> mission, quarterDays |-> T!QuarterDaysFor(LinesRead, mission) ]
      : mission \in T!Worked(LinesRead) \cap Priced }

\* The lineage of a detail: the days of the source behind each line.
Lineage(draft) ==
    { [ mission |-> line.mission, quantity |-> line.quarterDays,
        sourceDays |-> { source \in LinesRead : source.mission = line.mission } ]
      : line \in draft.lines }

-----------------------------------------------------------------------------
(* Properties.                                                             *)

\* The days behind an invoice add up to the quantity of each line, and the days a margin is
\* worked out from to what the month billed.
DaysAddUp ==
    /\ Answered({"invoiceDetail"}) =>
         \A draft \in Invoice(reading.request) : \A line \in Lineage(draft) :
             T!QuarterDays(line.sourceDays) = line.quantity
    /\ Answered({"economics"}) =>
         \A days \in EconomicsDays : days.quarterDays = T!Invoiced(Asked, days.mission)

\* A month that a grid, a detail, an economics page or an invoice shows as validated is
\* shown whole, although its row, its lines and its flags are read by three statements
\* (cra-grid.ts, pg-cra-repository.ts #reconstitute); an invoice is never shown with
\* another month than a validated one, whose days add up to it (invoices.ts, lineage).
MonthShownWhole ==
    /\ Answered({"invoiceDetail"}) => Got.row.status = "validated"
    /\ Answered({"grid", "detail", "craPrint", "economics", "consultantDashboard",
                 "invoiceDetail"})
       /\ Got.row.status = "validated" =>
        /\ << LinesRead, FlagsRead >> = << cras[Asked].lines, cras[Asked].flags >>
        /\ DaysAddUp
        /\ Answered({"grid"}) => ~ GridResponse.editable
        /\ Answered({"consultantDashboard"}) => ConsultantDashboardAnswer.remaining = {}
        /\ Answered({"craPrint"}) =>
             \A total \in PrintedTotals :
                 total.mission \in DOMAIN Verdict =>
                     total.quarterDays = T!Invoiced(Asked, total.mission)
                                         + T!Turned(Asked, total.mission)

\* What the pre-facturier and the manager's dashboard show of a validated month adds up,
\* because the months are read first: each quarter-day worked is on a draft shown or on a
\* declined record shown, and none of it is late or still to be decided (pre-facturier.ts).
BilledShownWhole ==
    Answered({"preFacturier", "managerDashboard"}) =>
        /\ \A row \in PreFacturierRows : row.item.status = "validated" =>
             /\ MapThenSumSet(LAMBDA b : b.quarterDays, row.blocking)
                + BillableCents(OfMonth(Got.projection, row.item.month))
                = T!QuarterDays({ line \in cras[row.item.month].lines : line.mission # None })
             /\ ~ row.decidable
        /\ ( \A row \in PreFacturierRows : row.item.status = "validated" ) => LateQuarterDays = 0

\* An invoice issued between two counts is counted twice, never lost: all are counted
\* before the drafts and the drafts before the issued ones, on the list and on the
\* dashboard, whose rows and sum are read after the counts they detail.
CountsLoseNone ==
    /\ Answered({"invoiceList"}) =>
         /\ Cardinality(Got.page) <= Got.total
         /\ Got.all <= Got.drafts + Got.issued + Got.cancelled
    /\ Answered({"billingDashboard"}) =>
         /\ \A item \in Got.oldest : item.month \in { source.month : source \in Got.sources }
         /\ Got.issued <= Got.sum
         /\ Got.issued < PageSize => Got.issued <= Cardinality(Got.recent)

\* No list, count or page shows a persona a record that its own address would refuse.
NothingBeyondReach ==
    reading # NoRequest =>
        /\ \A name \in DOMAIN Got \cap {"list", "cras", "activity", "awaiting", "sources"} :
             \A item \in Got[name] : MayRead(reading.request.by, "cra", Owner[item.month])
        /\ \A name \in DOMAIN Got \cap {"projection", "page", "oldest", "recent", "declined"} :
             \A item \in Got[name] : MayRead(reading.request.by, "invoice", Owner[item.month])

-----------------------------------------------------------------------------
(* The inductive invariant of the proofs (ReadingsProofs).                 *)

\* The statements of a request run in the order of its script: before one that ran, each
\* ran or had nothing to read.
InOrder(q, got) ==
    \A n \in DOMAIN Script[q.kind] : Script[q.kind][n] \in DOMAIN got =>
        \A k \in 1 .. n - 1 : ~ Wanted(q, got, Script[q.kind][k])

RequestOK ==
    reading # NoRequest =>
        /\ DOMAIN reading = {"request", "got", "outcome", "changes"}
        /\ reading.request \in Requests
        /\ DOMAIN Got \subseteq { Script[reading.request.kind][n]
                                  : n \in DOMAIN Script[reading.request.kind] }
        /\ InOrder(reading.request, Got)
        /\ reading.outcome \in {"open", "answered", "notFound", "outOfScope"}
        /\ reading.outcome = "open" => Left(reading.request, Got) # {}
        /\ reading.outcome = "answered" => Left(reading.request, Got) = {}

Within == InvoicesOfOffice(Asker)

\* What was counted is at most what a later statement has found or, as long as it did not
\* run, would find.
CountsAreNat ==
    reading.request.kind \in {"invoiceList", "billingDashboard"} =>
        \A name \in {"total", "all", "drafts", "issued", "cancelled", "sum"} \cap DOMAIN Got :
            Got[name] \in Nat

PageCounted ==
    "page" \in DOMAIN Got =>
        /\ IsFiniteSet(Got.page)
        /\ Cardinality(Got.page)
             <= IF "total" \in DOMAIN Got THEN Got.total ELSE Cardinality(Within)

AllCounted ==
    "all" \in DOMAIN Got =>
        Got.all <= IF "drafts" \notin DOMAIN Got THEN Cardinality(Within)
                   ELSE IF "issued" \notin DOMAIN Got
                        THEN Got.drafts + Cardinality(Within \cap issued)
                        ELSE Got.drafts + Got.issued

IssuedCounted ==
    reading.request.kind = "billingDashboard" /\ "issued" \in DOMAIN Got =>
        /\ Got.issued
             <= IF "sum" \in DOMAIN Got THEN Got.sum ELSE Cardinality(Within \cap issued)
        /\ Got.issued <= IF "recent" \in DOMAIN Got THEN Cardinality(Got.recent)
                         ELSE Cardinality(Within \cap issued)

OldestFound ==
    "oldest" \in DOMAIN Got => \A item \in Got.oldest :
        IF "sources" \in DOMAIN Got
        THEN item.month \in { source.month : source \in Got.sources }
        ELSE \E draft \in Within : draft.month = item.month

CountsGrow ==
    reading # NoRequest =>
        CountsAreNat /\ PageCounted /\ AllCounted /\ IssuedCounted /\ OldestFound

\* A month that was read as validated is one, and is as it was read.
MonthStands ==
    reading # NoRequest =>
        /\ reading.request.kind = "invoiceDetail" /\ "invoice" \in DOMAIN Got =>
             /\ cras[Asked].status = "validated"
             /\ "row" \in DOMAIN Got => Got.row.status = "validated"
        /\ "row" \in DOMAIN Got /\ Got.row.status = "validated" =>
             /\ cras[Asked].status = "validated"
             /\ "lines" \in DOMAIN Got => Got.lines = cras[Asked].lines
             /\ "flags" \in DOMAIN Got => Got.flags = cras[Asked].flags

\* So are the months of a pre-facturier, and what was read of them after.
BillsOf(m) == { line \in cras[m].lines : line.mission # None /\ Verdict[line.mission] \in Clients }
LeavesOf(m) ==
    { line \in cras[m].lines : line.mission # None /\ Verdict[line.mission] \in Reasons }

BillStands ==
    reading # NoRequest /\ "cras" \in DOMAIN Got =>
        \A item \in Got.cras :
            /\ item.month \in Months /\ PeriodOf[item.month] = PeriodOf[Asked]
            /\ OfficeOf[Owner[item.month]] = OfficeOf[Asker]
            /\ item.status = "validated" =>
                 /\ cras[item.month].status = "validated"
                 /\ "declined" \in DOMAIN Got =>
                      T!QuarterDays(BlockingOf(item)) = T!QuarterDays(LeavesOf(item.month))
                 /\ "projection" \in DOMAIN Got =>
                      BillableCents(OfMonth(Got.projection, item.month))
                        = T!QuarterDays(BillsOf(item.month))

\* The invariant the proofs carry from step to step, of the firm and of the request.
ReadInv == FirmInv /\ RequestOK /\ CountsGrow /\ MonthStands /\ BillStands

=============================================================================
