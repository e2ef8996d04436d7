SPECIFICATION FairSpec
CONSTANTS
    None = None
    here = here
    there = there
    small = small
    custom = custom
    f1 = f1
    f2 = f2
    hello = hello
    long = long
    s1 = s1
    s2 = s2
    Tabs = {here, there}
    Here = here
    Variants = {small, custom}
    Presets = {small}
    OwnSize = custom
    SoldOut = {}
    Files = {f1, f2}
    Texts = {hello, long}
    Typed = {s1, s2}
    Rulebook <- Rules
    Earlier <- OneStored
    Customs <- Payloads
    MinQty = 1
    MaxQty = 2
    MaxIds = 2
    MaxEdits = 4
INVARIANTS OnePieceOneLine QuoteFitsLine TabsAgree
    AddedIsAccepted EditOpensAsSaved ButtonPriceIsOfTheLine
PROPERTIES ImplementsCart PriceComes
CHECK_DEADLOCK FALSE
