---------------------------- MODULE InvoiceRows -----------------------------
(***************************************************************************)
(* An invoice between two transactions (pg-invoice-repository.ts): its row *)
(* of billing.invoices, a row per line and one per VAT group, what a save  *)
(* writes and a later one leaves, what is read back, and what the lists    *)
(* compute in SQL from the rows alone.  NULL is None; a party is the value *)
(* that was copied at drafting.                                            *)
(***************************************************************************)
EXTENDS Drafting

Coalesce(value, default) == IF value # None THEN value ELSE default

\* The recapitulative and the totals of an invoice: frozen once issued, computed before.
VatBreakdown(invoice) ==
    IF invoice.vatGroups = None THEN VatBreakdownOf(invoice.lines) ELSE invoice.vatGroups

Totals(invoice) == IF invoice.totals = None THEN TotalsOf(invoice.lines) ELSE invoice.totals

-----------------------------------------------------------------------------
(* Writing.                                                                *)

\* Only an issued invoice keeps its totals.
KeepsTotals_IfIssued(invoice) == invoice.status = "issued"

\* A draft has no totals yet; a cancelled invoice keeps its own.
KeepsTotals(invoice) == invoice.status # "draft"

\* The values of the INSERT.
InvoiceColumns(invoice, sourceCraIds, key) ==
    LET Total(name) == IF KeepsTotals(invoice) THEN Totals(invoice)[name] ELSE None
    IN [ status |-> invoice.status, supply_period |-> invoice.supplyPeriod,
         seller |-> invoice.seller, billed_to |-> invoice.billedTo,
         payment_terms_kind |-> invoice.terms.kind, payment_terms_days |-> invoice.terms.days,
         mentions_early_payment_kind |-> invoice.earlyPayment.kind,
         mentions_early_payment_rate |->
             IF invoice.earlyPayment.kind = "rate" THEN invoice.earlyPayment.basisPoints ELSE None,
         invoice_number |-> invoice.sequence, series_fiscal_year |-> invoice.series,
         issue_date |-> invoice.issueDate, due_date |-> invoice.dueDate,
         total_ht_cents  |-> Total("totalExcludingVatCents"),
         total_tax_cents |-> Total("vatTotalCents"),
         total_ttc_cents |-> Total("totalIncludingVatCents"),
         validated_by |-> invoice.validatedBy,
         source_cra_ids |-> sourceCraIds, issuance_idempotency_key |-> key ]

\* ON CONFLICT DO UPDATE: the parties, the terms, the validators and the Cras are those of
\* the draft for ever, and the key is not erased by a save that carries none.
Upserted(row, columns) ==
    [ row EXCEPT
        !.status                   = columns.status,
        !.invoice_number           = columns.invoice_number,
        !.issue_date               = columns.issue_date,
        !.series_fiscal_year       = columns.series_fiscal_year,
        !.due_date                 = columns.due_date,
        !.total_ht_cents           = columns.total_ht_cents,
        !.total_tax_cents          = columns.total_tax_cents,
        !.total_ttc_cents          = columns.total_ttc_cents,
        !.issuance_idempotency_key = Coalesce(columns.issuance_idempotency_key, @) ]

\* A treatment in three columns, kept together here, the one that does not apply NULL.
VatColumns(vat) ==
    [ vat_kind               |-> vat.kind,
      vat_basis_points       |-> IF vat.kind = "taxable" THEN vat.basisPoints ELSE None,
      vat_not_charged_reason |-> IF vat.kind = "notCharged" THEN vat.reason ELSE None ]

LineRows(invoice) ==
    { [ line_order |-> n - 1, origin_mission_id |-> invoice.lines[n].mission,
        origin_period |-> invoice.lines[n].period,
        origin_tjm_cents |-> invoice.lines[n].tjmCents,
        quantity_quarter_days |-> invoice.lines[n].quarterDays,
        unit_price_cents |-> invoice.lines[n].unitPriceCents,
        amount_cents |-> invoice.lines[n].amountCents,
        vat |-> VatColumns(invoice.lines[n].vat) ]
      : n \in DOMAIN invoice.lines }

\* A group that is not charged has a NULL tax, not a zero.
GroupRows(invoice) ==
    { [ base_cents |-> group.baseCents, tax_cents |-> group.vatCents,
        vat |-> VatColumns(group.treatment) ] : group \in VatBreakdown(invoice) }

\* saveDraft, which finds no row, and save, over the rows stored.
SavedDraft(invoice, sourceCraIds) ==
    [ row    |-> InvoiceColumns(invoice, sourceCraIds, None),
      lines  |-> LineRows(invoice),
      groups |-> GroupRows(invoice) ]

Saved(stored, invoice, key) ==
    [ row    |-> Upserted(stored.row, InvoiceColumns(invoice, << >>, key)),
      lines  |-> LineRows(invoice),
      groups |-> GroupRows(invoice) ]

-----------------------------------------------------------------------------
(* Reading back.                                                           *)

VatOfRow(vat) ==
    IF vat.vat_kind = "taxable" THEN Taxable(vat.vat_basis_points)
    ELSE NotCharged(vat.vat_not_charged_reason)

LineOf(row) ==
    [ mission |-> row.origin_mission_id, period |-> row.origin_period,
      quarterDays |-> row.quantity_quarter_days, tjmCents |-> row.origin_tjm_cents,
      unitPriceCents |-> row.unit_price_cents, amountCents |-> row.amount_cents,
      vat |-> VatOfRow(row.vat) ]

GroupOf(row) ==
    [ treatment |-> VatOfRow(row.vat), baseCents |-> row.base_cents, vatCents |-> row.tax_cents ]

\* #reconstitute; Coherent is what it then refuses.
Reconstituted(stored) ==
    LET row     == stored.row
        ordered == InOrder(stored.lines, LAMBDA line : line.line_order)
    IN [ status |-> row.status, supplyPeriod |-> row.supply_period,
         seller |-> row.seller, billedTo |-> row.billed_to,
         lines |-> [ n \in DOMAIN ordered |-> LineOf(ordered[n]) ],
         terms |-> [ kind |-> row.payment_terms_kind, days |-> row.payment_terms_days ],
         earlyPayment |-> IF /\ row.mentions_early_payment_kind = "rate"
                             /\ row.mentions_early_payment_rate # None
                          THEN [ kind |-> "rate",
                                 basisPoints |-> row.mentions_early_payment_rate ]
                          ELSE [ kind |-> "none" ],
         validatedBy |-> row.validated_by, sequence |-> row.invoice_number,
         series |-> row.series_fiscal_year, issueDate |-> row.issue_date,
         dueDate |-> row.due_date,
         totals |-> IF None \in {row.total_ht_cents, row.total_tax_cents, row.total_ttc_cents}
                    THEN None
                    ELSE [ totalExcludingVatCents |-> row.total_ht_cents,
                           vatTotalCents |-> row.total_tax_cents,
                           totalIncludingVatCents |-> row.total_ttc_cents ],
         vatGroups |-> IF row.status = "draft" THEN None
                       ELSE { GroupOf(group) : group \in stored.groups } ]

-----------------------------------------------------------------------------
(* The lists, which reconstitute nothing.                                  *)

HtOfLines(stored) == MapThenSumSet(LAMBDA line : line.amount_cents, stored.lines)

TaxOfGroups(stored) == MapThenSumSet(LAMBDA group : Coalesce(group.tax_cents, 0), stored.groups)

\* INVOICE_PROJECTION_SELECT and toProjection, INVOICE_LIST_SELECT included.
Projection(stored) ==
    LET row == stored.row
    IN [ status               |-> row.status,
         number               |-> row.invoice_number,
         totalHtCents         |-> Coalesce(row.total_ht_cents, HtOfLines(stored)),
         totalTtcCents        |-> Coalesce(row.total_ttc_cents,
                                           HtOfLines(stored) + TaxOfGroups(stored)),
         missionIds           |-> { line.origin_mission_id : line \in stored.lines },
         lineCount            |-> Cardinality(stored.lines),
         sourceCra            |-> IF row.source_cra_ids = << >> THEN None
                                  ELSE Head(row.source_cra_ids),
         totalsAreProvisional |-> row.status = "draft" ]

\* sumHtCents counts a draft by its lines, sumTtcCents counts it for nothing.
SumHtCents(tables) ==
    MapThenSumSet(LAMBDA id : Coalesce(tables[id].row.total_ht_cents, HtOfLines(tables[id])),
                  DOMAIN tables)

SumTtcCents(tables) ==
    MapThenSumSet(LAMBDA id : Coalesce(tables[id].row.total_ttc_cents, 0), DOMAIN tables)

CountByYearAndStatus(tables, year, status) ==
    Cardinality({ id \in DOMAIN tables :
                    /\ tables[id].row.supply_period.year = year
                    /\ tables[id].row.status = status })

=============================================================================
