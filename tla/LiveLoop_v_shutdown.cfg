SPECIFICATION Spec
CONSTANTS
    Dash = {}
    Loop = loop
    Qty <- UnitQty
    Cap = 1
    MaxIntents = 1
    MaxBars = 2
    MaxOrders = 4
    Live = TRUE
    BrokerCanClose = FALSE
    GateKnowsSymbol = TRUE
    AllocatorSuspends = FALSE
INVARIANTS
    ShutdownLeavesFlat
