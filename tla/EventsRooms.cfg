CONSTANTS
    t1 = t1
    t2 = t2
    r1 = r1
    p1 = p1
    GoLiveLoop = golive
    ReconcileLoop = reconcile
    Nowhere = nowhere
    Tasks <- TwoTasks
    Rooms <- OneRoom
    Posts <- None
    Operations = {"propose", "deny", "cancel", "deleteRoom"}
    ReviewModes = {"makeRoom"}
    Loops <- SweepOnly
    MaxTime = 2
    Grace = 1
    Duration = 1
    MaxLate = 1
    PlaceMayFail = TRUE
    HandDeletes = TRUE
    MaxCrashes = 0
SPECIFICATION Spec
SYMMETRY TaskSymmetry
INVARIANTS
    NoPlaceLeftBehind
