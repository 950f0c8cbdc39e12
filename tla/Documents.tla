----------------------------- MODULE Documents ------------------------------
(***************************************************************************)
(* The documents a validated month leads to and what they say, with their  *)
(* dates and amounts (Drafting).  Issuance and Timesheet model how the     *)
(* transactions around these operations interleave; here they run one at a *)
(* time.  Only the seed calls creditNote.                                  *)
(*                                                                         *)
(* The calendar goes by day by day, counting days and weekdays the way a   *)
(* wall calendar does, so that the date arithmetic has something to agree  *)
(* with.                                                                   *)
(***************************************************************************)
EXTENDS InvoiceRows

CONSTANTS
    Windows,     \* bound: stretches of calendar to walk, with where each starts
    Openings,    \* bound: the days on which something is asked of the program
    Events,      \* validated months, with the agreed rates read with each of them
    Actors,      \* who may ask for an issuance
    MaxSequence  \* the largest sequence a document number can write

FiscalYears == { day.year : day \in Openings }

\* What a table of agreed rates can hold, sound or not.
Dated == [ from : CivilDates, to : CivilDates \cup {None}, value : Int ]

IsHistory(entries) ==
    /\ entries \in Seq(Dated)
    /\ \A n \in DOMAIN entries : Exists(entries[n].from)

ASSUME WindowsAssumption == \A window \in Windows :
    /\ window.from \in CivilDates /\ Exists(window.from)
    /\ window.dayNumber = ToDayNumber(window.from) /\ window.weekday = DayOfWeek(window.from)
ASSUME OpeningsAssumption == \A day \in Openings : day \in CivilDates /\ Exists(day)
ASSUME EventsAssumption == \A event \in Events :
    /\ IsPeriod(event.period)
    /\ IsPaymentTerms(event.terms)
    /\ IsDiscount(event.earlyPayment)
    /\ event.validatedBy \in Actors
    /\ WorkByMission(event.worked)
    /\ event.period.year \in KnownYears
    /\ \A mission \in Missions : IsHistory(event.rates[mission])
ASSUME SequenceAssumption == MaxSequence \in Nat

\* NULL is no amount, rate or year, no date, no month, no VAT treatment, no totals or
\* recapitulative and no client; and null is no reason for a day not to be workable.
ASSUME NoneAssumption ==
    /\ None \notin Int /\ None \notin VatTreatments
    /\ None \notin NonWorkableDays
    /\ None \notin CivilDates /\ None \notin [ year : Int, month : 1 .. 12, day : 1 .. 31 ]
    /\ None \notin DocumentTotals
    /\ None \notin Events /\ None \notin DOMAIN Clients
    /\ \A event \in Events : Drafts(event) =>
         \A client \in ClientsBilled(event) : VatBreakdownOf(LinesFor(event, client)) # None

VARIABLES
    today,         \* the day the clock shows
    dayNumber,     \* days counted since 1 January 1970
    weekday,       \* days counted since the last Sunday
    horizon,       \* the day number the walk stops at
    cra,           \* bound: the one validated month whose event is published
    outcome,       \* of its drafting: "none", "drafted" or "refused"
    declined,      \* billing.declined_days
    reference,     \* bound: version 1 or 2 of the rows on the seller and the clients
    invoices,      \* what InvoiceRows saved of the invoice of each client that has one
    written,       \* history: the invoice last passed to save, with the key kept for it
    notes,         \* the credit notes, by client; a note is never saved
    lastSequence   \* billing.numbering_series.last_sequence

calendar  == << today, dayNumber, weekday, horizon >>
documents == << cra, outcome, declined, reference, invoices, written, notes, lastSequence >>
dvars     == << calendar, documents >>

\* A number is drawn from the series of the year of the document's date.
NextSequence(year) == lastSequence[year] + 1

-----------------------------------------------------------------------------
DInit ==
    /\ \E window \in Windows :
         /\ today = window.from
         /\ dayNumber = window.dayNumber
         /\ weekday = window.weekday
         /\ horizon = window.dayNumber + window.days
    /\ cra = None
    /\ outcome = "none"
    /\ declined = {}
    /\ reference = 1
    /\ invoices = << >>
    /\ written = << >>
    /\ notes = << >>
    /\ lastSequence = [ year \in FiscalYears |-> 0 ]

\* Months of 31 days alternate with shorter ones, starting over in August.
LengthOfMonth(date) ==
    IF date.month = 2
    THEN IF date.year % 400 = 0 \/ (date.year % 4 = 0 /\ date.year % 100 # 0) THEN 29 ELSE 28
    ELSE 30 + ((date.month + date.month \div 8) % 2)

Tomorrow(date) ==
    IF date.day < LengthOfMonth(date) THEN [ date EXCEPT !.day = @ + 1 ]
    ELSE IF date.month < 12 THEN Date(date.year, date.month + 1, 1)
    ELSE Date(date.year + 1, 1, 1)

\* Once a month is drafted from, the clock stops after the last opening.
Midnight ==
    /\ dayNumber < horizon
    /\ cra # None => \E day \in Openings : ~ NotAfter(day, today)
    /\ today' = Tomorrow(today)
    /\ dayNumber' = dayNumber + 1
    /\ weekday' = (weekday % 7) + 1
    /\ UNCHANGED << horizon, documents >>

\* The event reaches its subscriber inside the validating transaction.
Validated(event) ==
    /\ today \in Openings
    /\ NotAfter(LastDayOf(event.period), today)
    /\ cra = None
    /\ cra' = event
    /\ UNCHANGED << calendar, reference, notes, lastSequence >>

\* A party as the reference rows describe it at the moment: its name, numbers and addresses,
\* the delivery address falling back to the billing address.
BilledParty(client) == << client, reference >>

DraftFor(event, client) == NewInvoice(event, client, reference, BilledParty(client))

DraftInvoices(event) ==
    /\ Validated(event)
    /\ Drafts(event)
    /\ outcome' = "drafted"
    /\ declined' = DeclinedOf(event)
    /\ invoices' = [ client \in ClientsBilled(event) |->
                       SavedDraft(DraftFor(event, client), << event.period >>) ]
    /\ written' = [ client \in ClientsBilled(event) |->
                      [ invoice |-> DraftFor(event, client), key |-> None ] ]

\* Thrown inside the transaction, which rolls back whole.
RefuseDraft(event) ==
    /\ Validated(event)
    /\ ~ Drafts(event)
    /\ outcome' = "refused"
    /\ UNCHANGED << declined, invoices, written >>

\* Somebody edits public.legal_entities and public.clients, after the drafting.
AmendReference ==
    /\ cra # None
    /\ reference = 1
    /\ reference' = 2
    /\ UNCHANGED << calendar, cra, outcome, declined, invoices, written, notes, lastSequence >>

\* findById, and what it returns saved again.
Drafted == DOMAIN invoices

Document(client) == Reconstituted(invoices[client])

Save(client, invoice, key) ==
    /\ invoices' = [ invoices EXCEPT ![client] = Saved(@, invoice, key) ]
    /\ written' = [ written EXCEPT ![client] =
                      [ invoice |-> invoice, key |-> Coalesce(key, @.key) ] ]

TakeNumber(year) == lastSequence' = [ lastSequence EXCEPT ![year] = NextSequence(year) ]

\* The key of the request is the client's own.
Issue(client, by) ==
    LET invoice == Document(client)
    IN /\ today \in Openings
       /\ client \in Drafted /\ Issuable(invoice, by)
       /\ NextSequence(today.year) <= MaxSequence
       /\ Save(client, Issued(invoice, NextSequence(today.year), today), client)
       /\ TakeNumber(today.year)
       /\ UNCHANGED << calendar, cra, outcome, declined, reference, notes >>

CreditNote(client) ==
    LET invoice == Document(client)
        note    == NoteFor(invoice, NextSequence(today.year), today)
    IN /\ today \in Openings
       /\ client \in Drafted /\ Coherent(invoice)
       /\ invoice.status = "issued"
       /\ NextSequence(today.year) <= MaxSequence
       /\ AddsUp(note.lines, note.vatGroups, note.totals)
       /\ notes' = [ c \in DOMAIN notes \cup {client} |-> IF c = client THEN note ELSE notes[c] ]
       /\ Save(client, Cancelled(invoice), None)
       /\ TakeNumber(today.year)
       /\ UNCHANGED << calendar, cra, outcome, declined, reference >>

DNext ==
    \/ Midnight
    \/ AmendReference
    \/ \E event \in Events : DraftInvoices(event) \/ RefuseDraft(event)
    \/ \E client \in DOMAIN Clients :
         CreditNote(client) \/ \E by \in Actors : Issue(client, by)

DSpec == DInit /\ [][DNext]_dvars

-----------------------------------------------------------------------------
(* Properties.                                                             *)

HasLeft(client) == client \in Drafted /\ Document(client).status # "draft"

\* Types; what left adds up as it was stored.
DTypeOK ==
    /\ Exists(today) /\ dayNumber \in Int /\ weekday \in 1 .. 7 /\ horizon \in Int
    /\ cra \in Events \cup {None}
    /\ outcome \in {"none", "drafted", "refused"}
    /\ lastSequence \in [ FiscalYears -> 0 .. MaxSequence ]
    /\ reference \in 1 .. 2
    /\ \A client \in Drafted :
         LET invoice == Document(client)
         IN /\ invoice.status \in {"draft", "issued", "cancelledByCreditNote"}
            /\ HasLeft(client) => AddsUp(invoice.lines, invoice.vatGroups, invoice.totals)

\* Easter Sunday of a year, by the Gregorian computus, as a day number.
Easter(year) ==
    LET golden  == year % 19
        century == year \div 100
        moon    == (19 * golden + century - century \div 4
                    - (century - (century + 8) \div 25 + 1) \div 3 + 15) % 30
        sunday  == (32 + 2 * (century % 4) + 2 * ((year % 100) \div 4) - moon - (year % 4)) % 7
        late    == (golden + 11 * moon + 22 * sunday) \div 451
        march   == moon + sunday - 7 * late + 114
    IN ToDayNumber(Date(year, march \div 31, (march % 31) + 1))

\* In the years of the table, a day is workable exactly when it is neither at a weekend nor
\* on a fixed holiday, nor 1, 39 or 50 days after Easter (ADR-0004, ADR-0078).
WorkableAsTheLawSays ==
    today.year \in KnownYears =>
        LET workable == WorkableDaysOf(PeriodOf(today))
        IN (\E n \in 1 .. Len(workable) : workable[n] = today) <=>
             /\ weekday < 6
             /\ << today.month, today.day >> \notin FixedHolidays
             /\ dayNumber - Easter(today.year) \notin {1, 39, 50}

\* Weekdays, day numbers both ways, ends of months and workable days agree with the wall
\* calendar, leap years and turns of centuries included.
CalendarAgrees ==
    /\ DayOfWeek(today) = weekday
    /\ ToDayNumber(today) = dayNumber
    /\ FromDayNumber(dayNumber) = today
    /\ today = EndOfMonth(today) <=> Tomorrow(today).month # today.month
    /\ WorkableAsTheLawSays

\* The last day an entry claims, as digits.
Ends(entry) == IF entry.to = None THEN 99999999 ELSE Digits(entry.to)

\* Every entry starts before it ends and is worth whole euros, and no two share a day.
Sound(entries) ==
    \A n \in DOMAIN entries :
        /\ Digits(entries[n].from) <= Ends(entries[n])
        /\ entries[n].value > 0 /\ entries[n].value % 100 = 0
        /\ \A k \in DOMAIN entries \ {n} :
             \/ Ends(entries[n]) < Digits(entries[k].from)
             \/ Ends(entries[k]) < Digits(entries[n].from)

\* Drafting is refused exactly when two agreed rates of a mission share a day, one of them
\* ends before it starts, or one is no whole number of euros: the code compares neighbours.
RefusedExactly ==
    cra # None =>
        (outcome = "drafted" <=> \A mission \in Missions : Sound(RatesOf(cra, mission)))

\* The lines that bill a mission, each by its client and its place.
LinesOn(mission) ==
    UNION { { << client, k >> : k \in { k \in DOMAIN Document(client).lines :
                                       Document(client).lines[k].mission = mission } }
            : client \in Drafted }

IsWorth(line, quarterDays, tjmCents) ==
    /\ line.quarterDays = quarterDays
    /\ 4 * line.amountCents = quarterDays * tjmCents
    /\ line.amountCents = quarterDays * line.unitPriceCents

BilledAtTheClose(mission, quarterDays) ==
    \E place \in LinesOn(mission) : \E n \in DOMAIN RatesOf(cra, mission) :
        /\ LinesOn(mission) = {place}
        /\ place[1] = Commercial[mission].client
        /\ Holds(RatesOf(cra, mission)[n], LastDayOf(cra.period))
        /\ IsWorth(Document(place[1]).lines[place[2]], quarterDays, RatesOf(cra, mission)[n].value)

\* Every quarter-day of the month is on one line or declined, and a line is worth its
\* quarter-days at the rate in force when the month closed, whatever the rate is on the day
\* it is drafted or issued (ADR-0034, ADR-0037).
PricedAtTheClose ==
    outcome = "drafted" =>
      \A w \in DOMAIN cra.worked :
        LET mission == cra.worked[w].mission
            days    == cra.worked[w].quarterDays
        IN \/ /\ LinesOn(mission) = {}
              /\ \E d \in declined : d.mission = mission /\ d.quarterDays = days
           \/ /\ \A d \in declined : d.mission # mission
              /\ BilledAtTheClose(mission, days)

\* Within half a cent of the exact amount, and above it when it falls between two cents.
HalfACent(vatCents, exact) == 2 * (10000 * vatCents - exact) \in -9999 .. 10000

RoundedOnce(row, treatment) ==
    \E group \in VatBreakdown(row) :
        /\ { g \in VatBreakdown(row) : g.treatment = treatment } = {group}
        /\ treatment.kind = "notCharged" <=> group.vatCents = None
        /\ treatment.kind = "taxable" =>
             HalfACent(group.vatCents,
                       AmountOf(row.lines, Under(treatment, row.lines)) * treatment.basisPoints)

\* The tax of a document is that of its lines, rounded once per rate (ADR-0010, ADR-0035).
RoundedOncePerRate ==
    \A client \in Drafted : \A treatment \in Treatments(Document(client).lines) :
        RoundedOnce(Document(client), treatment)

\* An issued document never changes: not its number, dates, lines, groups or totals, and its
\* status only to say that a note cancels it; a note never changes either.
NeverAmended ==
    [][ \A client \in DOMAIN Clients :
          /\ HasLeft(client) =>
               /\ [ Document(client)' EXCEPT !.status = "issued" ]
                    = [ Document(client) EXCEPT !.status = "issued" ]
               /\ Document(client)'.status \in {Document(client).status, "cancelledByCreditNote"}
          /\ client \in DOMAIN notes => notes'[client] = notes[client] ]_dvars

\* Invoices and notes share one series a year, with no hole and no number twice (ADR-0018).
Numbered(year) ==
    { << "invoice", c >> : c \in { c \in Drafted : Document(c).series = year } }
    \cup { << "note", c >> : c \in { c \in DOMAIN notes : notes[c].series = year } }

NumberOf(d) == IF d[1] = "note" THEN notes[d[2]].sequence ELSE Document(d[2]).sequence

OneSeries ==
    \A year \in FiscalYears :
        /\ { NumberOf(d) : d \in Numbered(year) } = 1 .. lastSequence[year]
        /\ Cardinality(Numbered(year)) = lastSequence[year]

\* A note, numbered in the series of the invoices, and the cancelled invoice go together, and
\* the note takes back what the invoice asked for: the same lines, tax and totals, on the same
\* day or later (ADR-0036).
NotesReverse ==
  /\ OneSeries
  /\ DOMAIN notes = { client \in Drafted : Document(client).status = "cancelledByCreditNote" }
  /\ \A client \in DOMAIN notes :
        LET row  == Document(client)
            note == notes[client]
        IN /\ note.lines = row.lines
           /\ note.vatGroups = row.vatGroups
           /\ note.totals = row.totals
           /\ NotAfter(row.issueDate, note.issueDate)

\* An invoice reads back from its rows as it was written, whatever became of the seller or
\* the client since: its provenance and its key stay through every later save, and what the
\* lists compute in SQL is what the document says (ADR-0107); a draft owes nothing yet.
RowsTellTheDocument ==
    /\ \A client \in Drafted :
         LET stored  == invoices[client]
             invoice == written[client].invoice
             listed  == Projection(stored)
         IN /\ Reconstituted(stored) = invoice
            /\ invoice.seller = 1 /\ invoice.billedTo = << client, 1 >>
            /\ Coherent(invoice)
            /\ stored.row.issuance_idempotency_key = written[client].key
            /\ HasLeft(client) <=> written[client].key # None
            /\ listed.sourceCra = cra.period
            /\ listed.totalHtCents = Totals(invoice).totalExcludingVatCents
            /\ listed.totalTtcCents = Totals(invoice).totalIncludingVatCents
            /\ listed.missionIds = { invoice.lines[n].mission : n \in DOMAIN invoice.lines }
            /\ listed.lineCount = Len(invoice.lines)
    /\ LET Sum(name, clients) ==
               MapThenSumSet(LAMBDA client : Totals(written[client].invoice)[name], clients)
       IN /\ SumHtCents(invoices) = Sum("totalExcludingVatCents", Drafted)
          /\ SumTtcCents(invoices) = Sum("totalIncludingVatCents",
                                       { client \in Drafted : HasLeft(client) })
          /\ cra # None => \A status \in {"draft", "issued", "cancelledByCreditNote"} :
               CountByYearAndStatus(invoices, cra.period.year, status)
                 = Cardinality({ client \in Drafted : written[client].invoice.status = status })

-----------------------------------------------------------------------------
(* The inductive invariants.                                               *)

\* The code's day numbers and weekdays are the ones counted.
CalendarInv ==
    /\ today \in CivilDates /\ today.day <= LengthOfMonth(today)
    /\ dayNumber = ToDayNumber(today)
    /\ weekday = DayOfWeek(today)

\* A document is a function of the month it was drafted from, of the number it took and of the
\* day it took it, and its rows are those one save of it would write.

AsDrafted(client) == NewInvoice(cra, client, 1, << client, 1 >>)

Filed(entry) ==
    [ row    |-> InvoiceColumns(entry.invoice, << cra.period >>, entry.key),
      lines  |-> LineRows(entry.invoice),
      groups |-> GroupRows(entry.invoice) ]

Left(client, n, date) ==
    LET issued == Issued(AsDrafted(client), n, date)
    IN written[client] \in { [ invoice |-> issued, key |-> client ],
                             [ invoice |-> Cancelled(issued), key |-> client ] }

Stands(client) ==
    \/ written[client] = [ invoice |-> AsDrafted(client), key |-> None ]
    \/ \E date \in Openings : \E n \in 1 .. lastSequence[date.year] :
         NotAfter(date, today) /\ Left(client, n, date)

TakenBack(client) ==
    \E date \in Openings : \E n \in 1 .. lastSequence[date.year] :
      /\ notes[client] = NoteFor(AsDrafted(client), n, date)
      /\ NotAfter(written[client].invoice.issueDate, date)

DocInv ==
    /\ today \in CivilDates
    /\ lastSequence \in [ FiscalYears -> 0 .. MaxSequence ]
    /\ \/ cra = None /\ outcome = "none" /\ reference = 1
       \/ cra \in Events /\ outcome = "drafted" /\ Drafts(cra)
       \/ cra \in Events /\ outcome = "refused" /\ ~ Drafts(cra)
    /\ Drafted = IF outcome = "drafted" THEN ClientsBilled(cra) ELSE {}
    /\ declined = IF outcome = "drafted" THEN DeclinedOf(cra) ELSE {}
    /\ DOMAIN written = Drafted
    /\ \A client \in Drafted : invoices[client] = Filed(written[client]) /\ Stands(client)
    /\ DOMAIN notes = { client \in Drafted :
                          written[client].invoice.status = "cancelledByCreditNote" }
    /\ \A client \in DOMAIN notes : TakenBack(client)
    /\ \A year \in FiscalYears : IsFiniteSet(Numbered(year))
    /\ OneSeries

=============================================================================
