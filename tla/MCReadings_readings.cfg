SPECIFICATION ReadSpec
CONSTANTS
    c1 = c1
    c2 = c2
    june = june
    alice = alice
    bob = bob
    audit = audit
    acme = acme
    unpriced = unpriced
    passi = passi
    a1 = a1
    a2 = a2
    s1 = s1
    tma = tma
    carol = carol
    dan = dan
    eve = eve
    paris = paris
    lyon = lyon
    None = None
    Connections = {c1}
    Months = {june}
    People = {alice, bob}
    Owner <- OwnedByAlice
    ManagerOf <- ManagedByBob
    Readable <- AllReadable
    MonthSlots = {s1}
    MonthSlot <- OneMonthSlot
    Days = {1, 2}
    DaysOf <- WholeMonth
    Workable = {1}
    Missions = {audit, tma}
    Clients = {acme}
    Reasons = {unpriced}
    Verdict <- Verdicts
    Postings <- TwoPostings
    LastDay = 2
    Ids = {a1, a2}
    Consultants = {alice}
    Office = {alice}
    Habilitations = {passi}
    Departure <- Nobody
    Runs <- Unending
    Required <- Unrestricted
    Held = {}
    Bodies <- ThreeBodies
    PairSlots = {s1}
    PairSlot <- OnePairSlot
    Readers = {alice, bob, carol, dan, eve}
    RoleOf <- Roles
    OfficeOf <- Offices
    PeriodOf <- InPeriodOne
    Today = 2
    ThisPeriod = 2
    Priced = {audit}
    Intercontrat = {tma}
    PageSize = 2
    MaxChanges = 2
INVARIANT MonthShownWhole
INVARIANT BilledShownWhole
INVARIANT CountsLoseNone
INVARIANT NothingBeyondReach

