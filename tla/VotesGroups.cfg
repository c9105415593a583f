CONSTANTS
    o1 = o1  o2 = o2  x = x  y = y
    Offers = {o1, o2}
    Voters = {x, y}
    NoOffer = NoOffer  NoVoter = NoVoter
    Slots = {s1}
    Poster <- PosterOf
    VotedEarlier <- XVotedForO1
    NewAccounts = {y}
    VoteLimit = 2
    PairLimit = 2
    Cast <- AnyValue
    MayErase = {}
    MaxVotes = 2
    MaxMoves = 2
    MaxClock = 1
    MaxFaults = 1
SPECIFICATION FairSpec
INVARIANTS TypeOK CheckedHotIsTally
PROPERTIES CheckedCastCounts CheckedOwnOfferRefused CheckedMergedVotesKept HotSettles
