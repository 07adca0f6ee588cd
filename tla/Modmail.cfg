CONSTANTS
    t1 = t1
    Sweep = sweep
    Tasks <- OneTask
    Operations = {"ask", "write", "close", "gone"}
    MaxTickets = 1
    MaxWords = 2
    MaxMishaps = 1
SPECIFICATION FairSpec
CHECK_DEADLOCK FALSE
INVARIANTS
    TypeOK
    EveryWordIsKept
    ClosedHasNoCard
    OneCardAndLast
PROPERTIES
    LostRoomCloses
    CardComesBack
