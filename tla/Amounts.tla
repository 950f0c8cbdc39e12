------------------------------ MODULE Amounts -------------------------------
(***************************************************************************)
(* What a document says it is worth: the integer money of money.ts, the    *)
(* VAT of vat.ts, the lines of invoice-line.ts and the recapitulative and  *)
(* totals of document.ts.  Amounts are cents, rates are basis points.      *)
(***************************************************************************)
EXTENDS Calendar

QuarterDaysPerDay == 4

RoundHalfUp(numerator, denominator) ==
    LET remainder == numerator % denominator
        truncated == (numerator - remainder) \div denominator
    IN IF remainder * 2 >= denominator THEN truncated + 1 ELSE truncated

ApplyRate(amountCents, basisPoints) == RoundHalfUp(amountCents * basisPoints, 10000)

\* The one division of the program that is not rounded, and what it asserts first.
IsTjm(tjmCents) == tjmCents \in Nat /\ tjmCents % QuarterDaysPerDay = 0

LineAmountCents(quarterDays, tjmCents) == (quarterDays * tjmCents) \div QuarterDaysPerDay

\* commercialMission: an agreed rate is a whole number of euros, above zero.
IsAgreedRate(tjmCents) == tjmCents \in Nat \ {0} /\ tjmCents % 100 = 0

-----------------------------------------------------------------------------
(* VAT: resolved from the client and the date, then frozen on the line.    *)

French == { "metropolitanFrance", "overseasWithVat", "overseasOutsideVatScope" }

Territorialities == French \cup { "europeanUnion" }

Taxable(basisPoints) == [ kind |-> "taxable", basisPoints |-> basisPoints ]
NotCharged(reason)   == [ kind |-> "notCharged", reason |-> reason ]

VatTreatments ==
    [ kind : {"taxable"}, basisPoints : Nat ]
    \cup [ kind : {"notCharged"}, reason : {"territoryOutsideVatScope", "reverseChargeEuB2b"} ]

Since2014(basisPoints) ==
    << [ from |-> Date(2014, 1, 1), to |-> None, value |-> basisPoints ] >>

StandardRate ==
    [ territory \in Territorialities |->
        CASE territory = "overseasWithVat"         -> Since2014(850)
          [] territory = "overseasOutsideVatScope" -> << >>
          [] OTHER                                 -> Since2014(2000) ]

\* None where NoVatRateError is thrown.
ResolveVat(client, on) ==
    IF client.territoriality = "overseasOutsideVatScope"
    THEN NotCharged("territoryOutsideVatScope")
    ELSE IF client.territoriality = "europeanUnion" /\ client.vatNumber
    THEN NotCharged("reverseChargeEuB2b")
    ELSE LET rate == At(StandardRate[client.territoriality], on)
         IN IF rate = None THEN None ELSE Taxable(rate)

-----------------------------------------------------------------------------
(* Lines, recapitulative and totals.                                       *)

RegieLine(mission, period, quarterDays, tjmCents, vat) ==
    [ mission |-> mission, period |-> period, quarterDays |-> quarterDays,
      tjmCents |-> tjmCents, unitPriceCents |-> LineAmountCents(1, tjmCents),
      amountCents |-> LineAmountCents(quarterDays, tjmCents), vat |-> vat ]

\* What some of the lines, given by their places, come to.
AmountOf(lines, places) == MapThenSumSet(LAMBDA n : lines[n].amountCents, places)

LinesAmount(lines) == AmountOf(lines, DOMAIN lines)

Under(treatment, lines) == { n \in DOMAIN lines : lines[n].vat = treatment }

Treatments(lines) == { lines[n].vat : n \in DOMAIN lines }

\* One group per treatment; a group that is not charged has no tax at all, not zero.
VatGroup(lines, treatment) ==
    LET baseCents == AmountOf(lines, Under(treatment, lines))
    IN [ treatment |-> treatment,
         baseCents |-> baseCents,
         vatCents  |-> IF treatment.kind = "taxable"
                       THEN ApplyRate(baseCents, treatment.basisPoints)
                       ELSE None ]

\* The rate applied line by line, and the roundings added up.
VatBreakdownOf_PerLine(lines) ==
    LET rounded[n \in 0 .. Len(lines)] ==
            IF n = 0 THEN 0
            ELSE rounded[n - 1] + (IF lines[n].vat.kind = "taxable"
                                   THEN ApplyRate(lines[n].amountCents, lines[n].vat.basisPoints)
                                   ELSE 0)
    IN { [ VatGroup(lines, treatment) EXCEPT !.vatCents =
             IF treatment.kind = "taxable" THEN rounded[Len(lines)] ELSE None ]
         : treatment \in Treatments(lines) }

VatBreakdownOf(lines) == { VatGroup(lines, treatment) : treatment \in Treatments(lines) }

BaseSum(groups) == MapThenSumSet(LAMBDA group : group.baseCents, groups)

VatSum(groups) ==
    MapThenSumSet(LAMBDA group : group.vatCents, { group \in groups : group.vatCents # None })

DocumentTotals ==
    [ totalExcludingVatCents : Nat, vatTotalCents : Nat, totalIncludingVatCents : Nat ]

TotalsOf(lines) ==
    LET ht  == LinesAmount(lines)
        vat == VatSum(VatBreakdownOf(lines))
    IN [ totalExcludingVatCents |-> ht, vatTotalCents |-> vat,
         totalIncludingVatCents |-> ht + vat ]

\* assertDocumentAddsUp.
AddsUp(lines, groups, totals) ==
    /\ totals.totalExcludingVatCents = LinesAmount(lines)
    /\ BaseSum(groups) = LinesAmount(lines)
    /\ totals.vatTotalCents = VatSum(groups)
    /\ totals.totalIncludingVatCents = LinesAmount(lines) + VatSum(groups)

-----------------------------------------------------------------------------
(* Payment terms.                                                          *)

\* paymentTerms: the two forms the law allows, and their caps.
IsPaymentTerms(terms) ==
    terms \in [ kind : {"net"}, days : 0 .. 60 ] \cup [ kind : {"endOfMonth"}, days : 0 .. 45 ]

\* legalMentions: a discount for paying early has a rate, and the rate is above zero.
IsDiscount(discount) ==
    discount \in [ kind : {"none"} ] \cup [ kind : {"rate"}, basisPoints : Nat \ {0} ]

\* An end-of-month term counts its days first, then goes to the end of the month.
DueDate(terms, issueDate) ==
    LET shifted == AddDays(issueDate, terms.days)
    IN IF terms.kind = "net" THEN shifted ELSE EndOfMonth(shifted)

=============================================================================
