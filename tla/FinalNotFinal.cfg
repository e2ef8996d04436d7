SPECIFICATION Spec
CONSTANTS
    None = None
    o1 = o1
    o2 = o2
    m1 = m1
    Orders <- OneOrder
    Manual <- OneManual
    Requests <- FinalRequests
    Job <- FinalCalls
    Events <- OverlappingEvents
    Recipient <- Apart
    FirstStatus <- Packing
    Console = "widget"
    MaxInFlight = 2
    MaxFaults = 0
PROPERTIES TerminalIsFinal
CHECK_DEADLOCK FALSE
