SPECIFICATION MCSpec
CONSTANTS
    Adapters = {"topstepx", "ib"}
    Deadline <- AdapterDeadline
    Backoff <- AdapterBackoff
    Durations = {0, 20}
    MaxReconnects = 2
    Rails = {"topstepx", "ib"}
    Callers = {k1, k2}
    Ids = {i1, i2}
    Symbols = {mnq, es}
    Own = mnq
    Kinds <- OrderKinds
    MaxSends = 3
    MaxRestarts = 1
    Strategies = {"mean_reversion", "trend"}
    BandBars = 1
    EntryBars = 2
    TradesPerDay = 2
    Days = 2
    Start = 100
    Mll = 16
    MaxMini = 2
    Ratio = 1
    Tier1 = 1000
    Tier2 = 2000
    SimSymbols = {"nq", "mnq"}
    PointValue <- FullAndMicro
    Closes = {20, 32}
    Slippage = 1
    SimSizes <- Sizes
    MaxSteps = 4
    SourceSize = 2
    QueueSize = 3
    MaxPerBar = 1
    MaxSignals = 4
    Streams = {s1, s2}
    PerBar = 2
    Prices = {1, 2}
    MaxTime = 5
    MaxConnects = 2
INVARIANTS
    BracketIsInformational
CHECK_DEADLOCK FALSE
