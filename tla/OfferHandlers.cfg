SPECIFICATION Spec
CONSTANTS
    Offers = {o1, o2, o3}
    Links = {l1}
    Slots = {p1, p2}
    NoOffer = NoOffer
    NoLink = NoLink
    Seeded = {o1, o2}
    Ops = {"submit", "import", "update", "observe", "expire", "disable", "enable",
           "review", "merge", "unmerge"}
    Ageing = {}
    WorkerEnabled = FALSE
    MaxRequests = 4
    MaxFaults = 0
INVARIANTS
    TypeOK
    CheckedMergesStayAcyclic
    CheckedHiddenIsGone
    CheckedPendingIsNoindex
PROPERTIES
    CheckedDisabledStaysDisabled
    CheckedMergedRowIsKept
SYMMETRY Symmetry
CHECK_DEADLOCK FALSE
