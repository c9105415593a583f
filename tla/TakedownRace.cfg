SPECIFICATION Spec
CONSTANTS
    Offers = {o1}
    Links = {l1}
    Slots = {p1, p2}
    NoOffer = NoOffer
    NoLink = NoLink
    Seeded = {o1}
    Ops = {"expire", "disable"}
    Ageing = {}
    WorkerEnabled = FALSE
    MaxRequests = 2
    MaxFaults = 0
PROPERTIES
    DisabledStaysDisabled
CHECK_DEADLOCK FALSE
