SPECIFICATION Spec
CONSTANTS
    None = None
    o1 = o1
    o2 = o2
    m1 = m1
    Orders <- OneOrder
    Manual <- Nothing
    Requests <- DoubleRequests
    Job <- DoubleCalls
    Events <- Nothing
    Recipient <- Apart
    FirstStatus <- Packing
    Console = "widget"
    MaxInFlight = 2
    MaxFaults = 0
INVARIANTS OneShipmentPerOrder
CHECK_DEADLOCK FALSE
