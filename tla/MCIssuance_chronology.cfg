SPECIFICATION Spec
CONSTANTS
    c1 = c1
    c2 = c2
    i1 = i1
    i2 = i2
    k1 = k1
    k2 = k2
    s1 = s1
    s2 = s2
    validator = validator
    biller = biller
    None = None
    Connections = {c1, c2}
    Invoices = {i1, i2}
    Keys = {k1, k2}
    Slots = {s1, s2}
    KeySlot <- SlotPerKey
    Actors = {validator, biller}
    Readable <- OfficeScoped
    LastDay = 2
    Years = {2026}
    FiscalYear <- OneYear
    MaxSequence = 2
SYMMETRY Symmetric
INVARIANT Chronological
