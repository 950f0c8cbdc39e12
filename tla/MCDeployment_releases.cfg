SPECIFICATION HLiveSpec
CONSTANTS
    v1 = v1
    v2 = v2
    v3 = v3
    Nothing = Nothing
    Images = {v1, v2, v3}
    Schema <- Migrations
    Healthy = {v1, v3}
    MaxPushes = 3
    MaxMishaps = 2
    MaxManual = 2
INVARIANTS
    AppHasItsSchema
    RunsWhatIsRecorded
PROPERTIES
    CatchesUp
CHECK_DEADLOCK FALSE
