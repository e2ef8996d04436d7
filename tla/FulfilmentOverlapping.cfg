SPECIFICATION OverlappingSpec
CONSTANTS
    None = None
    o1 = o1
    o2 = o2
    m1 = m1
    Orders <- TwoOrders
    Manual <- OneManual
    Requests <- OverlappingRequests
    Job <- OverlappingCalls
    Events <- OverlappingEvents
    Recipient <- Together
    FirstStatus <- Packing
    Console = "api"
    MaxInFlight = 2
    MaxFaults = 1
INVARIANTS LabelAccounted FilesAccounted EventHandledOnce ClaimAccounted
CHECK_DEADLOCK FALSE
