CONSTANTS
    t1 = t1
    t2 = t2
    v1 = v1
    a = a
    b = b
    Loop = loop
    Tasks <- TwoTasks
    Operations = {"create", "approve", "deny", "close", "cancel"}
    Surfaces = {"panel", "native"}
    Voters <- OneVoter
    Options <- TwoOptions
    PostMayFail = TRUE
    Reminders = TRUE
    NoReviewRoom = TRUE
    MaxCrashes = 1
SPECIFICATION Spec
SYMMETRY Symmetry
INVARIANTS
    TypeOK
    DecidedOnce
    PostedOnce
    LastCallOnce
