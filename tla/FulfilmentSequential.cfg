SPECIFICATION SequentialSpec
CONSTANTS
    None = None
    o1 = o1
    o2 = o2
    m1 = m1
    Orders <- OneOrder
    Manual <- OneManual
    Requests <- SequentialRequests
    Job <- SequentialCalls
    Events <- SequentialEvents
    Recipient <- Apart
    FirstStatus <- Packing
    Console = "widget"
    MaxInFlight = 1
    MaxFaults = 0
INVARIANTS TypeOK StockFollowsStatus HistoryTellsStatus VoidApprovalIsTrue
PROPERTIES ImplementsLifecycle TornOrdersSettle
CHECK_DEADLOCK FALSE
