SPECIFICATION Spec
CONSTANTS
    c1 = c1
    c2 = c2
    june = june
    alice = alice
    bob = bob
    audit = audit
    acme = acme
    unpriced = unpriced
    passi = passi
    a1 = a1
    a2 = a2
    s1 = s1
    None = None
    Connections = {c1, c2}
    Months = {june}
    People = {alice, bob}
    Owner <- OwnedByAlice
    ManagerOf <- ManagedByBob
    Readable <- AllReadable
    MonthSlots = {s1}
    MonthSlot <- OneMonthSlot
    Days = {1, 2}
    DaysOf <- WholeMonth
    Workable = {1}
    Missions = {audit}
    Clients = {acme}
    Reasons = {unpriced}
    Verdict <- Billed
    Postings <- JunePostings
    LastDay = 2
    Ids = {a1}
    Consultants = {alice}
    Office = {alice}
    Habilitations = {passi}
    Departure <- Nobody
    Runs <- Unending
    Required <- Unrestricted
    Held = {}
    Bodies <- AllBodies
    PairSlots = {s1}
    PairSlot <- OnePairSlot
INVARIANT SubmittedCovered
