SPECIFICATION Spec
CONSTANTS
    c1 = c1
    c2 = c2
    m1 = m1
    s1 = s1
    monday = monday
    sunday = sunday
    regie = regie
    forfait = forfait
    acme = acme
    unpriced = unpriced
    alice = alice
    bob = bob
    carol = carol
    dave = dave
    None = None
    Connections = {c1, c2}
    Months = {m1}
    People = {alice, bob, carol, dave}
    Owner <- OwnedByAlice
    ManagerOf <- ManagedByBob
    Readable <- OfficeScoped
    Slots = {s1}
    MonthSlot <- OneSlot
    Days = {monday, sunday}
    DaysOf <- WholeMonth
    Workable = {monday}
    Missions = {regie, forfait}
    Qualified <- Everywhere
    Clients = {acme}
    Reasons = {unpriced}
    Verdict <- Verdicts
    Postings <- AllPostings
    Rosters <- AllRosters
INVARIANTS
    TInv
    NoIndexConflict
    Conserved
PROPERTIES
    ImplementsLifecycle
