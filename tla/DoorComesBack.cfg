CONSTANTS
    loop = loop
    ready = ready
    published = published
    w1 = w1
    rulesRoom = rulesRoom
    otherRoom = otherRoom
    Callers <- LoopOnly
    Looping = loop
    Skippers <- NoneSkip
    Stampers <- SweepsStamp
    Window = 2
    MaxClock = 1
    Clicks <- OneClick
    WebRoutes = {"post", "takeDown"}
    Channels <- OneRoom
    RulesChannel = rulesRoom
    NoChannel = noChannel
    MaxTroubles = 2
    MayRefuse = TRUE
    MayOverlook = TRUE
    MaxCrashes = 1
SPECIFICATION FairSpec
PROPERTIES
    DoorComesBack
    UnderTheRules
