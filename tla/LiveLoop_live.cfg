SPECIFICATION FairSpec
CONSTANTS
    Dash = {d1}
    Loop = loop
    Qty <- UnitQty
    Cap = 1
    MaxIntents = 1
    MaxBars = 0
    MaxOrders = 3
    Live = TRUE
    BrokerCanClose = TRUE
    GateKnowsSymbol = TRUE
    AllocatorSuspends = TRUE
INVARIANTS
    TrackerWithinCap
    AtMostOneLateOrder
PROPERTIES
    FlattenIsCarriedOut
