------------------------------ MODULE Drafting ------------------------------
(***************************************************************************)
(* The documents a validated month leads to, as pure operators: drafting   *)
(* from the event (draft-invoices.ts), Invoice.issue and creditNote.       *)
(* Documents runs them under a clock and over the rows of InvoiceRows,     *)
(* Seed over the seeded data.                                              *)
(***************************************************************************)
EXTENDS Amounts

CONSTANTS
    Clients,     \* what billing knows of each client
    Commercial   \* client and billing model of each mission billing knows

Missions == DOMAIN Commercial

ASSUME ClientsAssumption == \A client \in DOMAIN Clients :
    /\ Clients[client].territoriality \in Territorialities
    /\ Clients[client].vatNumber \in BOOLEAN
ASSUME CommercialAssumption == \A mission \in Missions : Commercial[mission].regie \in BOOLEAN

\* The work of a month in an event: some days of each mission, in one piece.
WorkByMission(worked) ==
    /\ DOMAIN worked = 1 .. Len(worked) /\ Len(worked) \in Nat
    /\ \A n \in DOMAIN worked : worked[n].quarterDays \in Nat \ {0}
    /\ \A m, n \in DOMAIN worked : worked[m].mission = worked[n].mission => m = n

-----------------------------------------------------------------------------
(* Drafting.                                                               *)

RatesOf(event, mission) == event.rates[mission]

\* commercialMission, for every mission of the reference.
IsReference(event) ==
    \A mission \in Missions :
        /\ IsTimeline(RatesOf(event, mission))
        /\ \A n \in 1 .. Len(RatesOf(event, mission)) : IsAgreedRate(RatesOf(event, mission)[n].value)

ResolvedOn_FirstDay(period) == Date(period.year, period.month, 1)

\* Both dated references, the Tjm and the VAT rate, are read at the close of the period.
ResolvedOn(period) == LastDayOf(period)

TjmOf(event, mission) == At(RatesOf(event, mission), ResolvedOn(event.period))

DeclineReasons == {"unknownMission", "notRegie", "noAgreedRate", "unknownClient"}

ASSUME ReasonAssumption == None \notin DeclineReasons

DeclineReason(event, mission) ==
    IF mission \notin Missions THEN "unknownMission"
    ELSE IF ~ Commercial[mission].regie THEN "notRegie"
    ELSE IF TjmOf(event, mission) = None THEN "noAgreedRate"
    ELSE IF Commercial[mission].client \notin DOMAIN Clients THEN "unknownClient"
    ELSE None

VatOf(event, mission) ==
    ResolveVat(Clients[Commercial[mission].client], ResolvedOn(event.period))

\* The work of the month that is invoiced, by its places in the event.
Billed(event) ==
    { n \in DOMAIN event.worked : DeclineReason(event, event.worked[n].mission) = None }

\* What throws nothing: the reference is sound, and every line has a price it can be
\* divided out of and finds its VAT rate.
Drafts(event) ==
    /\ IsReference(event)
    /\ \A n \in Billed(event) :
         /\ IsTjm(TjmOf(event, event.worked[n].mission))
         /\ VatOf(event, event.worked[n].mission) # None

BilledTo(event, client) ==
    { n \in Billed(event) : Commercial[event.worked[n].mission].client = client }

LinesFor(event, client) ==
    LET Line(work) == RegieLine(work.mission, event.period, work.quarterDays,
                                TjmOf(event, work.mission), VatOf(event, work.mission))
        bucket     == InOrder(BilledTo(event, client), LAMBDA n : n)
    IN [ n \in DOMAIN bucket |-> Line(event.worked[bucket[n]]) ]

DeclinedOf(event) ==
    { [ mission |-> event.worked[n].mission, quarterDays |-> event.worked[n].quarterDays,
        reason |-> DeclineReason(event, event.worked[n].mission) ]
      : n \in DOMAIN event.worked \ Billed(event) }

\* A client no line is for gets no invoice.
ClientsBilled(event) == { client \in DOMAIN Clients : BilledTo(event, client) # {} }

\* Invoice.draft, which copies its parties.
NewInvoice(event, client, seller, billedTo) ==
    [ status |-> "draft", supplyPeriod |-> event.period, seller |-> seller, billedTo |-> billedTo,
      lines |-> LinesFor(event, client), terms |-> event.terms,
      earlyPayment |-> event.earlyPayment, validatedBy |-> {event.validatedBy},
      sequence |-> None, series |-> None, issueDate |-> None, dueDate |-> None,
      totals |-> None, vatGroups |-> None ]

-----------------------------------------------------------------------------
(* Issuing and cancelling.                                                 *)

\* reconstitute: what a row must hold, by its status, to be read back.
IssuedFields(row) ==
    { row.sequence, row.series, row.issueDate, row.dueDate, row.totals, row.vatGroups }

Coherent(row) ==
    IF row.status = "draft" THEN IssuedFields(row) = {None}
    ELSE None \notin IssuedFields(row)

\* Invoice.issue, and what it refuses.
Issuable(row, by) ==
    /\ Coherent(row)
    /\ row.status = "draft"
    /\ by \notin row.validatedBy
    /\ AddsUp(row.lines, VatBreakdownOf(row.lines), TotalsOf(row.lines))

Issued(row, sequence, issueDate) ==
    [ row EXCEPT !.status    = "issued",
                 !.sequence  = sequence,
                 !.series    = issueDate.year,
                 !.issueDate = issueDate,
                 !.dueDate   = DueDate(row.terms, issueDate),
                 !.totals    = TotalsOf(row.lines),
                 !.vatGroups = VatBreakdownOf(row.lines) ]

\* The note is issued, the invoice stays as it was.
Cancelled_Forgotten(row) == row
\* The due date is given up with the claim.
Cancelled_NotDue(row) == [ row EXCEPT !.status = "cancelledByCreditNote", !.dueDate = None ]

Cancelled(row) == [ row EXCEPT !.status = "cancelledByCreditNote" ]

NoteFor(row, sequence, issueDate) ==
    [ sequence |-> sequence, series |-> issueDate.year,
      issueDate |-> issueDate, lines |-> row.lines,
      vatGroups |-> VatBreakdownOf(row.lines), totals |-> TotalsOf(row.lines) ]

=============================================================================
