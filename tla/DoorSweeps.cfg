CONSTANTS
    loop = loop
    ready = ready
    published = published
    w1 = w1
    rulesRoom = rulesRoom
    otherRoom = otherRoom
    Callers <- AllCallers
    Looping = loop
    Skippers <- BootSkips
    Stampers <- SweepsStamp
    Window = 2
    MaxClock = 2
    Clicks <- NoClicks
    WebRoutes = {}
    Channels <- TwoRooms
    RulesChannel = rulesRoom
    NoChannel = noChannel
    MaxTroubles = 3
    MayRefuse = TRUE
    MayOverlook = TRUE
    MaxCrashes = 1
SPECIFICATION Spec
INVARIANTS
    TypeOK
    OneFrontDoor
    SecondSeesFirst
