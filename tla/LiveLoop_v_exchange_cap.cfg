SPECIFICATION Spec
CONSTANTS
    Dash = {}
    Loop = loop
    Qty <- UnitQty
    Cap = 1
    MaxIntents = 1
    MaxBars = 3
    MaxOrders = 4
    Live = TRUE
    BrokerCanClose = TRUE
    GateKnowsSymbol = TRUE
    AllocatorSuspends = FALSE
INVARIANTS
    ExchangeWithinCap
