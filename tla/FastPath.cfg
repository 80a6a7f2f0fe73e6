SPECIFICATION Spec
CONSTANTS
    PolicyFile <- MCPolicyFile
    BadToken = "bad token"
    BloomBits <- MCBloomBits
    FnMatch <- MCFnMatch
    Weights <- MCWeights
    Text <- MCText
    Lines <- MCLines
    MaxLines = 4
    Ips <- MCIps
    Domains <- MCDomains
    WindowSizes = {0, 2}
    TopItems = 1
INVARIANTS
    CriticalOncePerProcess
    NodeReflectsHistory
    AlertAccounting
    WindowsPartitionTheRun
    CriticalAlertIsTopLevel
    RiskiestAreListed
PROPERTIES
    AlertsAreKept
    BuildsTheSameGraph
CHECK_DEADLOCK FALSE
