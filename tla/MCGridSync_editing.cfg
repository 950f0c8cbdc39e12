SPECIFICATION Spec
CONSTANTS
    m1 = m1
    m2 = m2
    ended = ended
    d1 = d1
    d2 = d2
    off = off
    None = None
    Absence = Absence
    Missions = {m1, m2, ended}
    Offered <- TwoOffered
    MonthDays = {d1, d2, off}
    Workable = {d1, d2}
    Assignable <- Assigned
    Weeks <- TwoWeeks
    First <- Begun
    Others <- AnotherTab
    Entered = {0, 3}
    Previous = {m1, m2}
    MaxEdits = 2
    MaxWrites = 2
INVARIANTS
    LostOnlyByMishap
    GridFollowsAnswers
    SentAsShown
PROPERTIES
    FillsAreSafe
