SPECIFICATION MCSpec
CONSTANTS
    Qty <- UnitQty
    Cap = 1
    Prices = {1}
    Start = 9
    Mll = 3
    Pnl <- BarPnl
    MaxSessions = 3
    MaxOrders = 2
    MaxRows = 2
    Procs = {q1, q2}
    Names = {d, u}
    Default = d
    User = u
    Keys = {k1, k2}
    Values = {bad}
    Bad = {bad}
    NoName = NoName
    MaxWrites = 2
    MaxCreates = 1
    None = None
INVARIANTS
    OnlyFlatPassesReconcile
    PictureHolds
    OneLostRowPerSession
    CacheIsReplay
    AuditTellsOverrides
CHECK_DEADLOCK FALSE
