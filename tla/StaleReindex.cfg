SPECIFICATION FairSpec
CONSTANTS
    Offers = {o1}
    Links = {l1}
    Slots = {p1, p2}
    NoOffer = NoOffer
    NoLink = NoLink
    Seeded = {o1}
    Ops = {"disable"}
    Ageing = {}
    WorkerEnabled = TRUE
    MaxRequests = 1
    MaxFaults = 0
PROPERTIES
    HiddenLeavesSearch
