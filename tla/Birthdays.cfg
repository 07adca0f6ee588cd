CONSTANTS
    t1 = t1
    t2 = t2
    Sweep = sweep
    Tasks <- OneTask
    Operations = {"postNow", "set", "forget", "optOut", "optIn", "webSet", "webOptOut", "webClear"}
    MaxDay = 2
    MayRefuse = TRUE
    MayMiss = TRUE
    MaxCrashes = 1
SPECIFICATION FairSpec
INVARIANTS
    TypeOK
    RoleIsRecorded
PROPERTIES
    PostNowSeesTheSweep
    OutIsNotWished
    RecordedRoleComesOff
