CONSTANTS
    t1 = t1
    t2 = t2
    r1 = r1
    p1 = p1
    GoLiveLoop = golive
    ReconcileLoop = reconcile
    Nowhere = nowhere
    Tasks <- OneTask
    Rooms <- OneRoom
    Posts <- OnePost
    Operations = {"propose", "automatic", "edit", "cancel"}
    ReviewModes = {"makeRoom", "makePost"}
    Loops <- SweepOnly
    MaxTime = 2
    Grace = 1
    Duration = 1
    MaxLate = 1
    PlaceMayFail = FALSE
    HandDeletes = TRUE
    MaxCrashes = 1
SPECIFICATION FairSpec
PROPERTIES
    LostRoomIsNoticed
