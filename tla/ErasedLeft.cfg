CONSTANTS
    o1 = o1  o2 = o2  x = x  y = y
    Offers = {o1}
    Voters = {x, y}
    NoOffer = NoOffer  NoVoter = NoVoter
    Slots = {s1}
    Poster <- PosterOf
    VotedEarlier <- NobodyVoted
    NewAccounts = {}
    VoteLimit = 2
    PairLimit = 2
    Cast <- ForOrAgainst
    MayErase = {y}
    MaxVotes = 2
    MaxMoves = 0
    MaxClock = 1
    MaxFaults = 0
SPECIFICATION Spec
INVARIANT ErasedLeavesNothing
