SPECIFICATION Spec
CONSTANTS
    Start = 20
    Mll = 4
    MaxMini = 2
    Ratio = 1
    Tier1 = 2
    Tier2 = 4
    TickValue = 1
    DailyLoss = 3
    BufferTicks = 1
    NewsCap = 1
    HardConsistency = FALSE
    Tiers <- TwoTiers
    Stops = {1, 2}
    TpMultiple = 1
    RangeBars = 1
    MaxTrades = 1
    MaxDays = 3
    Prices <- Ticks
INVARIANTS
    FloorAgrees
    StopsStayAboveFloor
    BeliefMatchesAccount
    OwnExitIsApproved
PROPERTIES
    TrailingSpec
CHECK_DEADLOCK FALSE
