SPECIFICATION SSpec
CONSTANTS
    c1 = c1
    c2 = c2
    a1 = a1
    a2 = a2
    alice = alice
    zoe = zoe
    yan = yan
    max = max
    audit = audit
    pentest = pentest
    passi = passi
    s1 = s1
    None = None
    LastDay = 4
    Connections = {c1, c2}
    Ids = {a1, a2}
    Consultants = {alice, zoe, yan, max}
    Office = {alice, zoe, yan}
    Missions = {audit, pentest}
    Habilitations = {passi}
    Departure <- Departures
    Runs <- Running
    Required <- Requirements
    Held <- Certificates
    Bodies <- SomeBodies
    Recordings <- SomeRecorded
    Slots = {s1}
    PairSlot <- OneSlot
SYMMETRY Symmetric
INVARIANTS
    SInv
    NoOverlap
    PolicyIsExact
