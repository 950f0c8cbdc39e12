SPECIFICATION DSpec
CONSTANTS
    bank = bank
    island = island
    union = union
    private = private
    audit = audit
    review = review
    soc = soc
    iam = iam
    kyc = kyc
    grc = grc
    gone = gone
    henri = henri
    claire = claire
    None = None
    Windows <- Walks
    Openings <- Days
    Clients <- FourClients
    Commercial <- SixMissions
    Events <- SomeEvents
    Actors = {henri, claire}
    MaxSequence = 9
INVARIANTS
    CalendarAgrees
    RefusedExactly
    PricedAtTheClose
    RoundedOncePerRate
    NotesReverse
    RowsTellTheDocument
PROPERTY
    NeverAmended
CHECK_DEADLOCK FALSE
