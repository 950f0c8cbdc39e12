-------------------------------- MODULE Seed --------------------------------
(***************************************************************************)
(* The seed of seed.ts: one transaction that clears every table, drives    *)
(* each month of the dataset through the domain (opened, filled,           *)
(* submitted, validated), drafts its invoices, issues and cancels some,    *)
(* and commits.  Whatever an invariant of the domain or the connection     *)
(* throws rolls the whole of it back, and it runs again over what it left  *)
(* (the nightly reset).                                                    *)
(*                                                                         *)
(* The tables are one record; a month keeps the work its lines add up to.  *)
(***************************************************************************)
EXTENDS ReferenceRows, Identifiers

FirstDayOf(period) == Date(period.year, period.month, 1)

CONSTANTS
    Consultants,    \* the consultants, in the order of their identifiers
    Costs,          \* the Cjm of each, with the day it starts
    Sirens,         \* the nine digits each client is registered under, or None
    Firm,           \* the legal entity that bills
    MissionOrder,   \* the missions, in the order of their identifiers
    Spans,          \* when each mission runs
    Requirements,   \* mission and habilitation it requires
    Rates,          \* the agreed rates of each mission
    Assignments,    \* who is assigned to what, in the order of their identifiers
    Attachments,    \* who answers to whom
    Holdings,       \* who holds which habilitation
    DensePeriods,   \* the months everybody is seeded for
    Veterans,       \* who is seeded for other months too, and which
    Varied,         \* the month that is not uniform
    VariedPeriod,   \* its period, in which one month stays submitted
    Withheld,       \* whose
    Issuer,         \* who issues the historical invoices
    Personas,       \* the identities a visitor can take
    UnreadRows,     \* how many rows are inserted in the tables left out
    Timestamp,      \* the bytes of the time every identifier is minted at
    MaxSeedings     \* bound: how often the seed runs

\* Lists are sequences; a mission has one identifier, and a veteran one month of a period.
ASSUME ListsAssumption ==
    /\ \A list \in { Consultants, DensePeriods, Veterans, MissionOrder } :
         DOMAIN list = 1 .. Len(list) /\ Len(list) \in Nat
    /\ \A m, n \in DOMAIN MissionOrder : MissionOrder[m] = MissionOrder[n] => m = n
    /\ \A n \in DOMAIN DensePeriods : IsPeriod(DensePeriods[n])
ASSUME VeteransAssumption == \A v \in DOMAIN Veterans :
    LET periods == Veterans[v].periods
    IN /\ DOMAIN periods = 1 .. Len(periods) /\ Len(periods) \in Nat
       /\ \A n \in DOMAIN periods : IsPeriod(periods[n])
       /\ \A m, n \in DOMAIN periods : FirstDayOf(periods[m]) = FirstDayOf(periods[n]) => m = n

VARIABLES
    phase,      \* of the seed: "rest", "months", "drafts" or "documents"
    database,   \* what is committed
    tables,     \* what the transaction sees
    queue,      \* months still to be driven through the domain
    seededCras, \* validated months still to be drafted from
    pending,    \* clients of the draft at hand not yet saved
    writeIds,   \* the counter of the identifiers the write side mints
    seedings    \* how many seeds have committed

svars == << phase, database, tables, queue, seededCras, pending, writeIds, seedings >>

Empty ==
    [ reference |-> NoRows, cras |-> << >>, invoices |-> << >>, declined |-> {}, events |-> {},
      lastSequence |-> [ year \in {} |-> 0 ] ]

\* nextSequence: the counter of a year starts when it is first asked for.
LastSequence(rows, year) ==
    IF year \in DOMAIN rows.lastSequence THEN rows.lastSequence[year] ELSE 0

-----------------------------------------------------------------------------
(* The reference data.                                                     *)

ReferenceInserted ==
    [ legal_entities |-> {Firm},
      consultants |-> { [ id |-> Consultants[n].who, office_id |-> Consultants[n].office,
                          role |-> Consultants[n].role,
                          departure_date |-> Consultants[n].departure ]
                        : n \in DOMAIN Consultants },
      clients |-> { [ id |-> client, siren |-> Sirens[client],
                      territoriality |-> Clients[client].territoriality,
                      intra_community_vat_number |->
                          IF Clients[client].vatNumber THEN "number" ELSE None ]
                    : client \in DOMAIN Clients },
      missions |-> { [ id |-> mission, client_id |-> Commercial[mission].client,
                       billing_model |-> IF Commercial[mission].regie THEN "Regie" ELSE "another",
                       start_date |-> Spans[mission].from, end_date |-> Spans[mission].to ]
                     : mission \in Missions },
      mission_habilitations |-> { [ mission_id |-> r[1], habilitation_id |-> r[2] ]
                                  : r \in Requirements },
      mission_tjm |-> UNION { { [ mission_id |-> mission, from_date |-> rate.from,
                                  to_date |-> rate.to, tjm_cents |-> rate.value ]
                                : rate \in Range(Rates[mission]) } : mission \in Missions },
      assignments |-> { [ consultant_id |-> a.who, mission_id |-> a.mission,
                          from_date |-> a.from, to_date |-> a.to ] : a \in Range(Assignments) },
      consultant_habilitations |-> { [ consultant_id |-> h.who, habilitation_id |-> h.habilitation,
                                       obtained_at |-> h.from, expires_at |-> h.to ]
                                     : h \in Holdings },
      manager_attachments |-> { [ consultant_id |-> a.who, manager_id |-> a.value,
                                  from_date |-> a.from, to_date |-> a.to ]
                                : a \in Range(Attachments) } ]

\* The counter those rows take their identifiers from ends here, and the write side's starts
\* further on.
ReferenceIds ==
    UnreadRows + Len(Consultants) + Len(Costs) + Cardinality(Holdings) + Len(MissionOrder)
    + Cardinality(DOMAIN Clients) + Cardinality(Requirements) + Len(Assignments) + Len(Attachments)
    + Cardinality(Personas) + MapThenSumSet(LAMBDA mission : Len(Rates[mission]), Missions)

FirstWriteId == 1000

\* The seed builds its own snapshot, from the same data.
TsRef == TimesheetReference(ReferenceInserted)

-----------------------------------------------------------------------------
(* One month through the domain.                                           *)

Overlaps(span, period) ==
    NotAfter(span.from, LastDayOf(period)) /\ (span.to # None => NotAfter(FirstDayOf(period), span.to))

AssignmentsOf(who, period) ==
    SelectSeq(Assignments, LAMBDA a : a.who = who /\ Overlaps(a, period))

\* consultantsWithCrasFor.
HasCraFor(consultant, period) ==
    /\ AssignmentsOf(consultant.who, period) # << >>
    /\ \E n \in 1 .. Len(Attachments) :
         Attachments[n].who = consultant.who /\ Overlaps(Attachments[n], period)

Line(day, mission, quarterDays) == [ day |-> day, mission |-> mission, quarterDays |-> quarterDays ]

IsVaried(who, period) == who = Varied.who /\ period = VariedPeriod

\* What is recorded on one workable day: the whole of it on the first assignment, but for the
\* varied month.
DayLines(who, period, day) ==
    LET assigned == AssignmentsOf(who, period)
        Split(first, second) == { Line(day, assigned[1].mission, first),
                                  Line(day, assigned[2].mission, second) }
    IN IF ~ Holds(assigned[1], day) THEN {}
       ELSE IF IsVaried(who, period) /\ day = Varied.absenceDay
       THEN { Line(day, None, QuarterDaysPerDay) }
       ELSE IF IsVaried(who, period) /\ day = Varied.splitDay /\ Len(assigned) > 1
       THEN Split(2, 2)
       ELSE IF IsVaried(who, period) /\ day = Varied.quarterProofDay /\ Len(assigned) > 1
       THEN Split(3, 1)
       ELSE { Line(day, assigned[1].mission, QuarterDaysPerDay) }

LinesOf(who, period) ==
    LET assigned == AssignmentsOf(who, period)
        days == WorkableDaysOf(period)
    IN IF assigned = << >> THEN {}
       ELSE (UNION { DayLines(who, period, days[n]) : n \in 1 .. Len(days) })
            \cup (IF IsVaried(who, period)
                  THEN { Line(Varied.flaggedSaturday, assigned[1].mission, QuarterDaysPerDay) }
                  ELSE {})

QuarterDaysIn(lines) == MapThenSumSet(LAMBDA line : line.quarterDays, lines)

QuarterDaysOn(lines, day) == QuarterDaysIn({ line \in lines : line.day = day })

\* Cra.open.
Opens(departure, period) == departure # None => NotAfter(FirstDayOf(period), departure)

\* Cra.recordDay, for every line.
Records(lines, period) ==
    \A line \in lines :
        /\ PeriodOf(line.day) = period
        /\ line.quarterDays \in 1 .. QuarterDaysPerDay
        /\ QuarterDaysOn(lines, line.day) <= QuarterDaysPerDay

\* runSubmissionChecks.
Submits(reference, who, lines, period) ==
    /\ \A line \in { line \in lines : line.mission # None } :
         /\ RunsOn(reference, line.mission, line.day)
         /\ IsAssigned(reference, who, line.mission, line.day)
         /\ MissingHabilitations(reference, who, line.mission, line.day) = {}
    /\ LET days == WorkableDaysOf(period)
       IN \A n \in 1 .. Len(days) : QuarterDaysOn(lines, days[n]) >= QuarterDaysPerDay

Flags(lines) == { line.day : line \in { line \in lines : NonWorkableReason(line.day) # None } }

\* The billable work, by mission in the order of their identifiers.
WorkOf(lines) ==
    LET On(n)  == { line \in lines : line.mission = MissionOrder[n] }
        worked == InOrder({ n \in DOMAIN MissionOrder : QuarterDaysIn(On(n)) > 0 }, LAMBDA n : n)
    IN [ k \in DOMAIN worked |-> [ mission     |-> MissionOrder[worked[k]],
                                   quarterDays |-> QuarterDaysIn(On(worked[k])) ] ]

IsWithheld_Never(who, period) == FALSE

IsWithheld(who, period) == who = Withheld /\ period = VariedPeriod

\* The row the month is saved as.
CraRow(who, office, period) ==
    LET lines == LinesOf(who, period)
    IN [ who |-> who, office |-> office, period |-> period,
         status |-> IF IsWithheld(who, period) THEN "submitted" ELSE "validated",
         worked |-> WorkOf(lines), flags |-> Flags(lines),
         validatedBy |-> IF IsWithheld(who, period) THEN None ELSE ManagerOf(ReferenceInserted, who, period) ]

\* What throws nothing: the domain, then the unique index of a consultant's month.
OpensSubmitsValidates(entry, rows) ==
    LET who   == entry.consultant.who
        lines == LinesOf(who, entry.period)
    IN /\ Opens(entry.consultant.departure, entry.period)
       /\ Records(lines, entry.period)
       /\ IsHierarchy(ReferenceInserted)
       /\ Submits(TsRef, who, lines, entry.period)
       /\ ManagerOf(ReferenceInserted, who, entry.period) \notin {None, who}
       /\ \A n \in 1 .. Len(rows) : ~ (rows[n].who = who /\ rows[n].period = entry.period)

-----------------------------------------------------------------------------
(* Which months, and what becomes of their invoices.                       *)

Entry(consultant, period, outcome) ==
    [ consultant |-> consultant, period |-> period, outcome |-> outcome ]

\* Period by period, in the order of the consultants.
DenseEntries ==
    LET Staffed(p) == { c \in DOMAIN Consultants : HasCraFor(Consultants[c], DensePeriods[p]) }
        places == UNION { {p} \X Staffed(p) : p \in DOMAIN DensePeriods }
        size   == Len(Consultants) + 1
        order  == InOrder(places, LAMBDA p : p[1] * size + p[2])
    IN [ k \in DOMAIN order |->
           Entry(Consultants[order[k][2]], DensePeriods[order[k][1]], "draft") ]

\* Counted from one: the fourth month of the first veteran is cancelled, every other one issued.
HistoricalOutcome(veteran, n) ==
    IF veteran = 1 /\ n = 4 THEN "issuedThenCancelled"
    ELSE IF n % 2 = 1 THEN "issued"
    ELSE "draft"

ConsultantNamed(who) == SelectSeq(Consultants, LAMBDA c : c.who = who)[1]

VeteranEntry(p) ==
    Entry(ConsultantNamed(Veterans[p[1]].who), Veterans[p[1]].periods[p[2]], HistoricalOutcome(p[1], p[2]))

\* The order a stable sort by period leaves.
Placed(p) == Digits(FirstDayOf(Veterans[p[1]].periods[p[2]])) * (Len(Veterans) + 1) + p[1]

\* In the order of their periods, across the veterans.
HistoricalEntries ==
    LET places == UNION { {v} \X (DOMAIN Veterans[v].periods) : v \in DOMAIN Veterans }
        order  == InOrder(places, LAMBDA p : Placed(p))
    IN [ k \in DOMAIN order |-> VeteranEntry(order[k]) ]

Entries == DenseEntries \o HistoricalEntries

-----------------------------------------------------------------------------
SInit ==
    /\ phase = "rest"
    /\ database = Empty
    /\ tables = Empty
    /\ queue = << >> /\ seededCras = << >> /\ pending = {}
    /\ writeIds = FirstWriteId
    /\ seedings = 0

\* The boundary: a daily rate is a whole number of euros.
IsWellFormed ==
    /\ \A n \in 1 .. Len(Costs) : IsAgreedRate(Costs[n].value)
    /\ \A mission \in DOMAIN Rates :
         \A n \in 1 .. Len(Rates[mission]) : IsAgreedRate(Rates[mission][n].value)

\* The counters are left as they were.
Cleared_SeriesKept(rows) == [ Empty EXCEPT !.lastSequence = rows.lastSequence ]

\* DELETE FROM every table.
Cleared(rows) == Empty

Begin ==
    /\ phase = "rest" /\ seedings < MaxSeedings
    /\ IsWellFormed
    /\ tables' = [ Cleared(database) EXCEPT !.reference = ReferenceInserted ]
    /\ queue' = Entries
    /\ phase' = "months"
    /\ UNCHANGED << database, seededCras, pending, writeIds, seedings >>

EventWith(rates, row) ==
    [ period |-> row.period, worked |-> row.worked, rates |-> rates,
      terms |-> [ kind |-> "endOfMonth", days |-> 30 ], earlyPayment |-> [ kind |-> "none" ],
      validatedBy |-> row.validatedBy ]

EventOf(row) == EventWith(Rates, row)

OpenSubmitValidate ==
    LET entry == Head(queue)
        row   == CraRow(entry.consultant.who, entry.consultant.office, entry.period)
    IN /\ phase = "months" /\ queue # << >>
       /\ OpensSubmitsValidates(entry, tables.cras)
       /\ tables' = [ tables EXCEPT !.cras = Append(@, row) ]
       /\ queue' = Tail(queue)
       /\ writeIds' = writeIds + 1 + Cardinality(LinesOf(row.who, row.period)) + Cardinality(row.flags)
       /\ seededCras' = IF row.status = "validated"
                        THEN Append(seededCras, [ row |-> row, outcome |-> entry.outcome ])
                        ELSE seededCras
       /\ UNCHANGED << phase, database, pending, seedings >>

Draft ==
    /\ phase \in {"months", "drafts"} /\ queue = << >> /\ seededCras # << >>
    /\ BuildsBilling(ReferenceInserted) /\ SellerOf(ReferenceInserted) # None
    /\ Drafts(EventOf(Head(seededCras).row))
    /\ pending' = ClientsBilled(EventOf(Head(seededCras).row))
    /\ writeIds' = writeIds + 1 + Cardinality(pending')
    /\ phase' = "documents"
    /\ UNCHANGED << database, tables, queue, seededCras, seedings >>

\* A save mints one identifier for each row under the invoice, and what is issued is saved
\* twice, its rows rewritten.
IdsOfSaves(draft, outcome) ==
    LET children == Len(draft.lines) + Cardinality(VatBreakdownOf(draft.lines))
    IN CASE outcome = "draft"               -> children
         [] outcome = "issued"              -> 2 * children
         [] outcome = "issuedThenCancelled" -> 2 * children + 1

\* The fifth of the month after.
ClockDayAfter(period) ==
    IF period.month = 12 THEN Date(period.year + 1, 1, 5) ELSE Date(period.year, period.month + 1, 5)

\* The invoice as it ends, and the last number it took: it is saved as a draft, and some of
\* the history is then issued, and one cancelled by a note with a number of its own.
Final(draft, outcome, sequence, date) ==
    LET issued == Issued(draft, sequence, date)
    IN [ row  |-> CASE outcome = "draft"               -> draft
                    [] outcome = "issued"              -> issued
                    [] outcome = "issuedThenCancelled" -> Cancelled(issued),
         last |-> IF outcome = "issuedThenCancelled" THEN sequence + 1 ELSE sequence ]

SaveInvoice(client) ==
    LET seeded == Head(seededCras)
        event  == EventOf(seeded.row)
        draft  == NewInvoice(event, client, SellerOf(tables.reference), client)
        date   == ClockDayAfter(event.period)
        final  == Final(draft, seeded.outcome, LastSequence(tables, date.year) + 1, date)
        stored == [ who |-> seeded.row.who, client |-> client, office |-> seeded.row.office,
                    row |-> final.row ]
    IN /\ phase = "documents" /\ client \in pending
       /\ seeded.outcome # "draft" => Issuable(draft, Issuer)
       /\ tables' = [ tables EXCEPT
              !.invoices     = Append(@, stored),
              !.lastSequence = IF seeded.outcome = "draft" THEN @
                               ELSE [ year \in DOMAIN @ \cup {date.year} |->
                                        IF year = date.year THEN final.last ELSE @[year] ] ]
       /\ pending' = pending \ {client}
       /\ writeIds' = writeIds + IdsOfSaves(draft, seeded.outcome)
       /\ UNCHANGED << phase, database, queue, seededCras, seedings >>

\* saveDeclinedDays and persist close the month.
Publish ==
    LET row == Head(seededCras).row
        Of(d) == [ d |-> d, who |-> row.who, period |-> row.period ]
    IN /\ phase = "documents" /\ pending = {}
       /\ tables' = [ tables EXCEPT
              !.declined = @ \cup { Of(d) : d \in DeclinedOf(EventOf(row)) },
              !.events   = @ \cup { << row.who, row.period >> } ]
       /\ writeIds' = writeIds + Cardinality(DeclinedOf(EventOf(row))) + 1
       /\ seededCras' = Tail(seededCras)
       /\ phase' = "drafts"
       /\ UNCHANGED << database, queue, pending, seedings >>

Finishes ==
    /\ phase' = "rest" /\ tables' = Empty
    /\ queue' = << >> /\ seededCras' = << >> /\ pending' = {}
    /\ writeIds' = FirstWriteId

Commit ==
    /\ phase = "drafts" /\ seededCras = << >>
    /\ database' = tables
    /\ seedings' = seedings + 1
    /\ Finishes

\* Whatever is thrown, at any statement.
RollBack ==
    /\ phase # "rest"
    /\ Finishes
    /\ UNCHANGED << database, seedings >>

SNext ==
    \/ Begin \/ OpenSubmitValidate \/ Draft \/ Publish \/ Commit \/ RollBack
    \/ \E client \in DOMAIN Clients : SaveInvoice(client)

SSpec == SInit /\ [][SNext]_svars

-----------------------------------------------------------------------------
(* Properties.                                                             *)

\* No invariant of the domain refuses what is seeded, whatever an earlier seed left behind:
\* the statement at hand can always be taken, and what is committed is what the gate of a
\* release counts (assert-seed-counts.sql); nor does a primary key, no two of its rows having
\* been given one identifier.
SeedIsAccepted ==
    /\ phase = "rest" => IsWellFormed
    /\ phase = "months" /\ queue # << >> => OpensSubmitsValidates(Head(queue), tables.cras)
    /\ phase \in {"months", "drafts"} /\ queue = << >> /\ seededCras # << >> =>
         /\ BuildsBilling(ReferenceInserted) /\ SellerOf(ReferenceInserted) # None
         /\ Drafts(EventOf(Head(seededCras).row))
    /\ phase = "documents" /\ Head(seededCras).outcome # "draft" =>
         \A client \in pending : Issuable(NewInvoice(EventOf(Head(seededCras).row), client, Firm, client), Issuer)
    /\ phase = "drafts" /\ seededCras = << >> =>
         LET minted == 0 .. ReferenceIds - 1 \cup FirstWriteId .. writeIds - 1
         IN Cardinality({ uuidv7Deterministic(Timestamp, n) : n \in minted })
              = ReferenceIds + writeIds - FirstWriteId
    /\ seedings > 0 =>
         /\ Len(Consultants) = 49 /\ Cardinality(DOMAIN Clients) = 5 /\ Len(MissionOrder) = 7
         /\ Cardinality(Personas) = 4
         /\ Len(database.cras) = 148 /\ Len(database.invoices) = 66
         /\ Cardinality(database.events) = 147

\* The documents and the declined days of a month.
DocumentsOf(books, who, period) ==
    { n \in 1 .. Len(books.invoices) :
        books.invoices[n].who = who /\ books.invoices[n].row.supplyPeriod = period }
RefusedOf(books, who, period) == { e \in books.declined : e.who = who /\ e.period = period }

PlacesWith(lines, mission) == { k \in DOMAIN lines : lines[k].mission = mission }
DaysOn(lines, mission) == MapThenSumSet(LAMBDA k : lines[k].quarterDays, PlacesWith(lines, mission))

\* What was billed and declined for a month of a consultant, mission by mission.
BilledDays(books, who, period, mission) ==
    MapThenSumSet(LAMBDA n : DaysOn(books.invoices[n].row.lines, mission),
                  DocumentsOf(books, who, period))
DeclinedDays(books, who, period, mission) ==
    MapThenSumSet(LAMBDA e : e.d.quarterDays,
                  { e \in RefusedOf(books, who, period) : e.d.mission = mission })

Accounted(books, who, period, mission) ==
    BilledDays(books, who, period, mission) + DeclinedDays(books, who, period, mission)

MonthsAccounted(books) ==
    \A c \in 1 .. Len(books.cras) :
        LET cra == books.cras[c]
        IN cra.status = "validated" =>
             \A w \in 1 .. Len(cra.worked) :
               Accounted(books, cra.who, cra.period, cra.worked[w].mission)
                 = cra.worked[w].quarterDays

\* The documents that have a number, and the numbers of a year.
WithNumber(books) == { n \in 1 .. Len(books.invoices) : books.invoices[n].row.status # "draft" }
OfYear(books, year) == { n \in WithNumber(books) : books.invoices[n].row.series = year }
Own(books, year) == { books.invoices[n].row.sequence : n \in OfYear(books, year) }
NotesOf(books, year) ==
    { books.invoices[n].row.sequence + 1
      : n \in { m \in OfYear(books, year) : books.invoices[m].row.status = "cancelledByCreditNote" } }

SeriesWhole(books) ==
    \A year \in { books.invoices[n].row.series : n \in WithNumber(books) } \cup DOMAIN books.lastSequence :
        /\ Own(books, year) \cup NotesOf(books, year) = 1 .. LastSequence(books, year)
        /\ Own(books, year) \cap NotesOf(books, year) = {}
        /\ Cardinality(Own(books, year)) = Cardinality(OfYear(books, year))

DatesRise(books) ==
    \A n, m \in WithNumber(books) :
        LET one == books.invoices[n].row
            two == books.invoices[m].row
        IN one.series = two.series /\ one.sequence < two.sequence
             => NotAfter(one.issueDate, two.issueDate)

\* The seeded books are books: in every year the numbers are one series in the order of the
\* dates, whose only holes are the notes of the invoices they cancel, never stored (ADR-0080);
\* and every quarter-day of a validated month is billed or declined, once.
SeededBooks ==
    seedings > 0 =>
        SeriesWhole(database) /\ DatesRise(database) /\ MonthsAccounted(database)

Visitor(role) == { p.who : p \in { q \in Personas : q.role = role } }

OfficeOf(who) == ConsultantNamed(who).office

\* The chain can be performed and not only described (ADR-0022, seed-data.ts): one month waits
\* for a decision and, by what the API reads of the reference tables, could be submitted again;
\* a visitor can be its manager, who finds the consultant in the office's list, and another
\* manager cannot see it; validating it drafts an invoice at 8.5 %, which, like every seeded
\* draft, a visitor may issue; and every month that is billed has a cost to compare with.
DemoPerformable ==
    LET waiting == { n \in 1 .. Len(database.cras) : database.cras[n].status # "validated" }
        rows    == database.reference
        billing == BillingReference(rows)
        Drafted(event) == { NewInvoice(event, client, SellerOf(rows), client) : client \in ClientsBilled(event) }
        CostOf(who) == Costs[CHOOSE n \in 1 .. Len(Consultants) : Consultants[n].who = who]
    IN seedings > 0 =>
         /\ BuildsBilling(rows) /\ SellerOf(rows) # None /\ IsHierarchy(rows)
         /\ billing.clients = Clients
         /\ \A mission \in Missions :
              /\ billing.missions[mission].client = Commercial[mission].client
              /\ billing.missions[mission].regie = Commercial[mission].regie
         /\ \E n \in waiting :
              LET cra     == database.cras[n]
                  manager == ManagerOf(rows, cra.who, cra.period)
                  event   == EventWith([ mission \in Missions |-> billing.missions[mission].tjmCents ],
                                       [ cra EXCEPT !.validatedBy = manager ])
              IN /\ waiting = {n}
                 /\ cra.status = "submitted"
                 /\ Submits(TimesheetReference(rows), cra.who, LinesOf(cra.who, cra.period), cra.period)
                 /\ manager \in Visitor("manager") /\ OfficeOf(manager) = cra.office
                 /\ cra.who \in ConsultantsOfOffice(rows, OfficeOf(manager))
                 /\ \E other \in Visitor("manager") : OfficeOf(other) # cra.office
                 /\ Drafts(event)
                 /\ \E row \in Drafted(event) :
                      /\ \E k \in 1 .. Len(row.lines) : row.lines[k].vat = Taxable(850)
                      /\ \A by \in Visitor("billing") : Issuable(row, by)
         /\ \A k \in 1 .. Len(database.invoices) :
              database.invoices[k].row.status = "draft" =>
                \A by \in Visitor("billing") : Issuable(database.invoices[k].row, by)
         /\ \A c \in 1 .. Len(database.cras) :
              NotAfter(CostOf(database.cras[c].who).from, LastDayOf(database.cras[c].period))

-----------------------------------------------------------------------------
(* The inductive invariant of the proofs (DocumentsProofs).                *)

IsSequence(s) == s \in Seq(Range(s))

\* The transaction writes to the tables in an order: all months, then document by document.
Phases ==
    /\ DOMAIN tables = DOMAIN Empty
    /\ \A s \in { tables.cras, tables.invoices, queue, seededCras } : IsSequence(s)
    /\ phase \in {"rest", "months"} => tables.invoices = << >> /\ tables.declined = {}
    /\ phase = "rest" => tables.cras = << >> /\ seededCras = << >>
    /\ phase # "months" => queue = << >>
    /\ phase = "documents" =>
         seededCras # << >> /\ pending \subseteq ClientsBilled(EventOf(seededCras[1].row))

\* A month has one row, and a validated one its work by mission.
MonthsOnce ==
    /\ \A c \in 1 .. Len(tables.cras) :
         /\ IsPeriod(tables.cras[c].period)
         /\ tables.cras[c].status = "validated" => WorkByMission(tables.cras[c].worked)
    /\ \A c, d \in 1 .. Len(tables.cras) :
         tables.cras[c].who = tables.cras[d].who /\ tables.cras[c].period = tables.cras[d].period
           => c = d
    /\ \A k \in 1 .. Len(seededCras) :
         \E c \in 1 .. Len(tables.cras) :
           tables.cras[c] = seededCras[k].row /\ tables.cras[c].status = "validated"
    /\ \A j, k \in 1 .. Len(seededCras) : seededCras[j].row = seededCras[k].row => j = k

\* What is to be issued comes in the order of the periods, of the months already issued, those
\* still to be drafted from, and those still to be driven through the domain.
NotLater(one, two) == NotAfter(FirstDayOf(one), FirstDayOf(two))

Outcomes == {"draft", "issued", "issuedThenCancelled"}

ToIssue == { k \in 1 .. Len(seededCras) : seededCras[k].outcome # "draft" }
ToOpen  == { k \in 1 .. Len(queue) : queue[k].outcome # "draft" }

InTurn ==
    /\ \A k \in 1 .. Len(queue) : queue[k].outcome \in Outcomes /\ IsPeriod(queue[k].period)
    /\ \A k \in 1 .. Len(seededCras) : seededCras[k].outcome \in Outcomes
    /\ \A j, k \in ToOpen : j < k => NotLater(queue[j].period, queue[k].period)
    /\ \A j \in ToIssue : \A k \in ToOpen : NotLater(seededCras[j].row.period, queue[k].period)
    /\ \A j, k \in ToIssue : j < k => NotLater(seededCras[j].row.period, seededCras[k].row.period)
    /\ \A n \in WithNumber(tables) : \A k \in ToIssue :
         NotLater(tables.invoices[n].row.supplyPeriod, seededCras[k].row.period)

\* A number is dated by the month it bills.
DatedByMonth ==
    /\ \A year \in DOMAIN tables.lastSequence : tables.lastSequence[year] \in Nat
    /\ \A n \in WithNumber(tables) :
         LET row == tables.invoices[n].row
         IN /\ IsPeriod(row.supplyPeriod)
            /\ row.issueDate = ClockDayAfter(row.supplyPeriod) /\ row.series = row.issueDate.year

\* Which documents of a month there are, and what was declined of it.
OnFile(books, row, clients, declined) ==
    LET mine == DocumentsOf(books, row.who, row.period)
    IN /\ \A n \in mine :
            /\ books.invoices[n].client \in clients
            /\ books.invoices[n].row.lines = LinesFor(EventOf(row), books.invoices[n].client)
       /\ \A m, n \in mine : books.invoices[m].client = books.invoices[n].client => m = n
       /\ \A client \in clients : \E n \in mine : books.invoices[n].client = client
       /\ RefusedOf(books, row.who, row.period)
            = { [ d |-> d, who |-> row.who, period |-> row.period ] : d \in declined }

\* A month still to be drafted from has no document, the one at hand those saved so far, and
\* the others all of theirs.
FiledSoFar ==
    \A c \in 1 .. Len(tables.cras) :
        LET row == tables.cras[c]
            billed == ClientsBilled(EventOf(row))
        IN row.status = "validated" =>
             \/ \E k \in 1 .. Len(seededCras) :
                  /\ seededCras[k].row = row
                  /\ OnFile(tables, row,
                           IF k = 1 /\ phase = "documents" THEN billed \ pending ELSE {}, {})
             \/ /\ \A k \in 1 .. Len(seededCras) : seededCras[k].row # row
                /\ OnFile(tables, row, billed, DeclinedOf(EventOf(row)))

SeedInv ==
    /\ Phases /\ MonthsOnce /\ InTurn /\ DatedByMonth /\ FiledSoFar
    /\ SeriesWhole(tables) /\ DatesRise(tables)
    /\ SeriesWhole(database) /\ DatesRise(database) /\ MonthsAccounted(database)

=============================================================================
