SPECIFICATION FairSpec
CONSTANTS
    None = None
    Offers = {"a", "b", "c"}
    Facts <- MCFacts
    Scores <- MCScores
    FreshFor = 1
    Under <- MCUnder
    PerPage = 2
    HomeCards = 1
    ChunkMax = 2
    MapMax = 2
    Catalogues <- MCCatalogues
    Warmed <- MCWarmed
    Followed <- MCFollowed
    HomeTtl = 1
    SitemapTtl = 1
    MaxStale = 4
    MaxBuild = 1
    MaxChanges <- MCMaxChanges
    MaxFaults = 1

INVARIANTS
    TypeOK
    RemovedSoonGone
    EachDealOnce
    NobodyPaysTwice
PROPERTIES
    WaitersAnswered
    RemovedLeavesSitemap
