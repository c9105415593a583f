SPECIFICATION Spec
CONSTANTS
    p1 = p1
    None = None
    Offers <- MCOffers
    Watches = {"word", "price"}
    WatchOf <- MCWatchOf
    Fresh = 1
    Items = {"a", "b"}
    KindOf <- MCKinds
    StatedLinks <- MCLinks
    Statements <- MCStatements
    FlawsOf <- MCFlaws
    Reviewed = {"a"}
    Person = "ann"
    PersonSays <- MCPersonSays
    WebhookOn = TRUE
    PageSize = 2
    MaxChanges = 4
    MaxTime = 1
    MaxRequests = 0
    MaxFaults = 0
CHECK_DEADLOCK FALSE

INVARIANTS
    LeftWithNoSourceIsDisabled
