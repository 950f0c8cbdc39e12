SPECIFICATION LiveSpec
CONSTANTS
    consultant = consultant
    biller = biller
    None = None
    Forged = Forged
    Unknown = Unknown
    s1 = s1
    s2 = s2
    c1 = c1
    Personas = {consultant, biller}
    RoleOf <- RoleOfEach
    Slots = {s1, s2}
    Connections = {c1}
    Asked <- OneOfEachKind
INVARIANT PoolSound
PROPERTIES
    EveryRequestAnswered
    ImplementsDesk
