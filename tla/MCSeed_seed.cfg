SPECIFICATION SSpec
CONSTANTS
    None = None
    Clients <- SeededClients
    Commercial <- SeededCommercial
    Consultants <- SeededConsultants
    Costs <- SeededCosts
    Sirens <- SeededSirens
    Firm <- SeededFirm
    MissionOrder <- SeededMissions
    Spans <- SeededSpans
    Requirements <- SeededRequirements
    Rates <- SeededRates
    Assignments <- SeededAssignments
    Attachments <- SeededAttachments
    Holdings <- SeededHoldings
    DensePeriods <- SeededPeriods
    Veterans <- HistoricalVeterans
    Varied <- VariedMonth
    VariedPeriod <- CraPeriod
    Withheld <- SeededWithheld
    Issuer <- SeededIssuer
    Personas <- SeededPersonas
    UnreadRows <- SeededUnreadRows
    Timestamp <- SeedTimestamp
    MaxSeedings = 2
INVARIANTS
    SeedIsAccepted
    SeededBooks
    DemoPerformable
CHECK_DEADLOCK FALSE
