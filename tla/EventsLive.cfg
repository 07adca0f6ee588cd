CONSTANTS
    t1 = t1
    t2 = t2
    r1 = r1
    p1 = p1
    GoLiveLoop = golive
    ReconcileLoop = reconcile
    Nowhere = nowhere
    Tasks <- OneTask
    Rooms <- OneRoom
    Posts <- None
    Operations = {"propose", "approve", "cancel"}
    ReviewModes = {"makeRoom"}
    Loops <- GoLiveOnly
    MaxTime = 3
    Grace = 1
    Duration = 1
    MaxLate = 1
    PlaceMayFail = FALSE
    HandDeletes = FALSE
    MaxCrashes = 1
SPECIFICATION FairSpec
PROPERTIES
    EveryoneGetsTheLock
    ApprovedMovesOn
    LiveEnds
