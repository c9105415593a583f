SPECIFICATION Spec
CONSTANTS
    Offers = {o1, o2}
    Links = {l1}
    Slots = {p1, p2}
    NoOffer = NoOffer
    NoLink = NoLink
    Seeded = {o1, o2}
    Ops = {"merge", "unmerge"}
    Ageing = {}
    WorkerEnabled = FALSE
    MaxRequests = 2
    MaxFaults = 0
INVARIANTS
    MergesStayAcyclic
CHECK_DEADLOCK FALSE
