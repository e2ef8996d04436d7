SPECIFICATION OfficeSpec
CONSTANTS
    None = None
    tab1 = tab1
    tab2 = tab2
    Clients = {tab1, tab2}
    Products <- OwnerProducts
    Forms <- OwnerForms
    Bodies <- EditorBodies
    MaxSaves = 3
    queue = queue
    page = page
    p1 = p1
    p2 = p2
    Desks = {queue, page}
    PageOf <- PageShown
    Parcels = {p1, p2}
    TooBig = TooBig
    NoParcel = NoParcel
    MaxDeskSteps = 5
    m1 = m1
    s1 = s1
    q1 = q1
    ConfirmationMails = {m1}
    ShippedMails = {s1}
    QuoteMails = {q1}
    MailAttempts = 2
    RetryWindow = 1
    Lookback = 3
    KeyKept = 1
    MaxAge = 4
    MaxDeliveries = 2
    MaxMailCrashes = 1
    o1 = o1
    o2 = o2
    o3 = o3
    b1 = b1
    v1 = v1
    v2 = v2
    here = here
    NoVariant = NoVariant
    PlacedOrders <- OwnerOrders
    AskedBaskets <- OwnerQuotes
    CalculationTtl = 1
    MaxTaxEvents = 4
    MaxTaxTicks = 2
    Tabs = {tab1, tab2}
    home = home
    work = work
    Lines = {home, work}
    NoLines = NoLines
    MaxAddresses = 3
    MaxAccountSteps = 3
INVARIANT LinesKeptApart
CHECK_DEADLOCK FALSE
