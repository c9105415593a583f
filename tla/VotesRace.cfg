CONSTANTS
    o1 = o1  o2 = o2  x = x  y = y
    Offers = {o1}
    Voters = {x, y}
    NoOffer = NoOffer  NoVoter = NoVoter
    Slots = {s1, s2}
    Poster <- PosterOf
    VotedEarlier <- NobodyVoted
    NewAccounts = {x}
    VoteLimit = 1
    PairLimit = 2
    Cast <- ForOrAgainst
    MayErase = {x}
    MaxVotes = 3
    MaxMoves = 0
    MaxClock = 2
    MaxFaults = 1
SPECIFICATION Spec
INVARIANTS CheckedHotIsTally LimitOvershootBounded
