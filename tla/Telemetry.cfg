SPECIFICATION Spec
CONSTANTS
    Keys <- MCKeys
    Empty = ""
    Events <- MCEvents
    Rows = {1, 2}
    Columns = {1, 2}
    Column <- MCColumn
    Registers = {1, 2}
    Register <- MCRegister
    Rank <- MCRank
    MaxCandidates = 3
    K = 2
    KeyOrder <- MCKeyOrder
    TopItems = 1
    MaxUpdates = 6
CHECK_DEADLOCK FALSE
INVARIANTS
    FrequencyNeverTooLow
    BoundsAreBounds
    MostFrequentAreShown
    HeavyHittersAreKept
