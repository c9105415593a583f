SPECIFICATION Spec
CONSTANTS
    p1 = p1
    None = None
    Offers <- MCOffers
    Watches = {"word", "price"}
    WatchOf <- MCBobs
    Fresh = 1
    Items = {"a", "b"}
    KindOf <- MCKinds
    StatedLinks <- MCLinks
    Statements <- MCStatements
    FlawsOf <- MCFlaws
    Reviewed = {"a"}
    Person = "ann"
    PersonSays <- MCPersonSays
    WebhookOn = TRUE
    PageSize = 2
    MaxChanges = 2
    MaxTime = 1
    MaxRequests = 1
    MaxFaults = 1
CHECK_DEADLOCK FALSE

INVARIANTS
    PriceWatchOnlyForLess
