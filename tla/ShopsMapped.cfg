SPECIFICATION Spec
CONSTANTS
    None = None
    Offers = {"a", "b", "c"}
    Facts <- MCFacts
    Scores <- MCScores
    FreshFor = 1
    Under <- MCUnder
    PerPage = 2
    HomeCards = 1
    ChunkMax = 2
    MapMax = 2
    Catalogues <- ViewCatalogues
    Warmed <- MCWarmed
    Followed <- NoCaches
    HomeTtl = 1
    SitemapTtl = 1
    MaxStale = 1
    MaxBuild = 0
    MaxChanges <- ViewChanges
    MaxFaults = 0

INVARIANT
    ShopsLeftOut
