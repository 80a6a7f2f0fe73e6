SPECIFICATION Spec
CONSTANTS
    Paths = {"d", "e", "f"}
    Dirs = {"d", "e"}
    Entries <- MCEntries
    Baseline <- MCBaseline
    Contents = {"c1", "c2", "c3"}
    Size <- MCSize
    Attributes <- MCAttributes
    InitialFs <- MCInitialFs
    MaxRecords = 3
    MaxEvents = 4
INVARIANTS
    VerdictsAreTrue
    TreeIsCovered
    CheckAllMissesNothing
CHECK_DEADLOCK FALSE
