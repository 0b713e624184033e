SPECIFICATION MCSpec
CONSTANTS
    Bots = {b1, b2, b3}
    SymbolOf <- OneSymbol
    Qty <- UnevenQty
    BotCap = 2
    Cap = 2
    NOBODY = nobody
    MaxBots = 3
    Clients = {c1, c2}
    Channels = {f, a}
    Fleet = f
    Filters <- AlphaOnly
    MaxQueue = 1
    MaxEvents = 3
    ChannelsOf <- MCChannelsOf
INVARIANTS
    CommittedWithinCap
    PendingIsInFlight
    JournalsOutliveTheirLoops
    OrderedStream
PROPERTIES
    EveryIntentIsAnswered
    FleetWindsUp
    NothingAfterClose
    FanOutEnds
CHECK_DEADLOCK FALSE
