SPECIFICATION Spec
CONSTANTS
    None = None
    up = up
    oA = oA
    oB = oB
    lA = lA
    lB = lB
    checked = checked
    swapped = swapped
    broken = broken
    h1 = h1
    h2 = h2
    job = job
    i1 = i1
    i2 = i2
    Sweeper = sweeper
    Uploads <- OneUpload
    Orders <- TwoOrders
    Lines <- TwoLines
    OrderOf <- OnePerOrder
    UploadOf <- SameUpload
    Etags <- AnyFile
    Printable <- TwoFiles
    Handlers <- TwoHandlers
    Purgers <- OneJob
    Inspectors <- TwoInspectors
    MaxPuts = 2
    MaxDeliveries = 1
    MaxFaults = 0
INVARIANTS FiledIsInspected CheckedIsRecorded ClaimedArtIsKept
SYMMETRY Alike
