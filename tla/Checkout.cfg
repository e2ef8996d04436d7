SPECIFICATION FairSpec
CONSTANTS
    None = None
    a1 = a1
    a2 = a2
    a3 = a3
    a4 = a4
    a5 = a5
    zip = zip
    zipSpace = zipSpace
    zap = zap
    town = town
    townSpace = townSpace
    city = city
    oak = oak
    elm = elm
    s1 = s1
    p1 = p1
    p2 = p2
    r1 = r1
    r2 = r2
    k1 = k1
    Addresses <- AddressesTyped
    ZipOf <- ZipsTyped
    TownOf <- TownsTyped
    StreetOf <- StreetsTyped
    Trim <- Trimming
    Quantities = {1, 2}
    Sizes = {s1}
    Arts = {p1, p2}
    Unusable = {p2}
    FirstGoods <- SizedLine
    Prepares = {r1, r2}
    Completions = {k1}
    QuoteTtl = 0
    CacheTtl = 0
    RefreshMargin = 0
    BrowserBehind = 2
    RateChangeTolerated = FALSE
    MaxEntries = 1
    MaxClock = 1
    MaxRev = 1
    MaxUpsets = 2
    FirstAddress = a1
INVARIANTS ReadyIsPrepared TaxAskedWithItsRate OrderIsAsSubmitted
PROPERTIES QuotesRefusedForCause FailedMeansNoOrder LoadingEnds
CHECK_DEADLOCK FALSE
