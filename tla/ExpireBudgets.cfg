SPECIFICATION Spec
CONSTANTS
    People = {"ann", "bob"}
    Nobody = Nobody
    Moderators = {"bob"}
    Poster = "ann"
    Watches = {"w1", "w2"}
    Flags = {"f1", "f2"}
    NoOne = NoOne
    Slots = {s1, s2}
    WatchLimit = 1
    FlagLimit = 1
    BudgetLimit = 2
    SecretSet = FALSE
    Scenes <- MCExpiry

CHECK_DEADLOCK FALSE

INVARIANTS
    OneBudgetAnOperation
