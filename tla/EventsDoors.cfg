CONSTANTS
    t1 = t1
    t2 = t2
    r1 = r1
    p1 = p1
    GoLiveLoop = golive
    ReconcileLoop = reconcile
    Nowhere = nowhere
    Tasks <- TwoTasks
    Rooms <- OneRoom
    Posts <- None
    Operations = {"propose", "approve", "deny", "cancel"}
    ReviewModes = {"makeRoom"}
    Loops <- GoLiveOnly
    MaxTime = 2
    Grace = 1
    Duration = 1
    MaxLate = 1
    PlaceMayFail = FALSE
    HandDeletes = FALSE
    MaxCrashes = 2
SPECIFICATION Spec
SYMMETRY TaskSymmetry
INVARIANTS
    TypeOK
    SingleDecider
    CancelledIsUndone
    ToldOnce
PROPERTIES
    FollowsLifecycle
