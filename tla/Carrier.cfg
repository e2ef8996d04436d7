SPECIFICATION CarrierFairSpec
CONSTANTS
    Calls = {k1, k2}
    Kinds = {"rates", "balance", "estimate", "label", "void", "reconcile", "pdf", "webhook"}
    Capacity = 2
    MaxRetries = 2
    Waits = {1, 4}
    MaxWait = 3
    CarriersTtl = 1
    EstimatesTtl = 1
INVARIANTS SendsWithinRate BuysOnce
PROPERTY CallsEnd
CHECK_DEADLOCK FALSE
