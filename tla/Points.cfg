CONSTANTS
    t1 = t1
    t2 = t2
    none = none
    Tasks <- TwoTasks
    Users = {1, 2, 3}
    May <- Submissions
    Runs = {1, 2, 3}
    Feats <- TwoFeats
    Bounties <- TwoBounties
    Switched <- OneBounty
    Rules <- TheRules
    Clock = "approved"
    Top = 2
    Operations = {"approve", "reject", "remove", "edit", "recompute"}
    MaxDay = 1
    Nobody = none
SPECIFICATION Spec
SYMMETRY TaskSymmetry
INVARIANTS
    TypeOK
    NobodyIsRaced
    TopIsRecorded
    RecomputedIsCurrent
    GapPassesThePlaceAbove
    BestBountyWins
