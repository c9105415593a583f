SPECIFICATION FairSpec
CONSTANTS
    Offers = {o1, o2}
    Links = {l1}
    Slots = {p1, p2}
    NoOffer = NoOffer
    NoLink = NoLink
    Seeded = {o1, o2}
    Ops = {"update", "observe", "expire", "disable", "enable", "review", "merge", "unmerge"}
    Ageing = {o1}
    WorkerEnabled = TRUE
    MaxRequests = 2
    MaxFaults = 1
INVARIANTS
    CheckedHiddenIsGone
PROPERTIES
    CheckedDisabledStaysDisabled
    DueIsExpired
    ListedDocsConverge
