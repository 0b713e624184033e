SPECIFICATION Spec
CONSTANTS
    Dash = {d1, d2}
    Loop = loop
    Qty <- UnitQty
    Cap = 1
    MaxIntents = 2
    MaxBars = 2
    MaxOrders = 3
    Live = TRUE
    BrokerCanClose = FALSE
    GateKnowsSymbol = TRUE
    AllocatorSuspends = FALSE
INVARIANTS
    NoLostFlatten
    AtMostOneLateOrder
    CoveredOrdersAreGone
PROPERTIES
    NoFlattenAfterDisable
    ShutdownFlattenIsComplete
    LatchSpec
