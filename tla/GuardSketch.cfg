SPECIFICATION Spec
CONSTANTS
    Pids <- MCPids
    MaxPids = 2
    Rows = {1, 2}
    Columns <- MCColumns
    Column <- MCColumn
    PidBits <- MCPidBits
    CellMax = 6
    Window = 6
    MaxCalls = 7
CHECK_DEADLOCK FALSE
INVARIANTS
    NeverUnderestimates
    RankingIsByRisk
PROPERTIES
    CountsAWindow
