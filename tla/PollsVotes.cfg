CONSTANTS
    t1 = t1
    t2 = t2
    v1 = v1
    a = a
    b = b
    Loop = loop
    Tasks <- TwoTasks
    Operations = {"create", "vote"}
    Surfaces = {"panel", "native"}
    Voters <- OneVoter
    Options <- TwoOptions
    PostMayFail = TRUE
    Reminders = FALSE
    NoReviewRoom = FALSE
    MaxCrashes = 1
SPECIFICATION FairSpec
INVARIANTS
    OneAnswerEach
    ClosedIsCounted
PROPERTIES
    PostedPollEnds
