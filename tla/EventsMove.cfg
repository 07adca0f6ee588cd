CONSTANTS
    t1 = t1
    t2 = t2
    r1 = r1
    p1 = p1
    GoLiveLoop = golive
    ReconcileLoop = reconcile
    Nowhere = nowhere
    Tasks <- OneTask
    Rooms <- OneRoom
    Posts <- OnePost
    Operations = {"propose", "move", "edit"}
    ReviewModes = {"makeRoom", "makePost"}
    Loops <- SweepOnly
    MaxTime = 2
    Grace = 5
    Duration = 1
    MaxLate = 1
    PlaceMayFail = FALSE
    HandDeletes = FALSE
    MaxCrashes = 0
SPECIFICATION Spec
INVARIANTS
    MoveSettlesNothing
