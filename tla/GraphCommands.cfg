SPECIFICATION Spec
CONSTANTS
    PolicyFile <- MCPolicyFile
    BadToken = "bad token"
    BloomBits <- MCBloomBits
    FnMatch <- MCFnMatch
    Weights <- MCWeights
    Text <- MCText
    Lines <- MCLines
    MaxLines = 10
    Ips <- MCIps
    Domains <- MCDomains
    Long <- MCLong
    Lower <- MCLower
    PidRange = 3
    Bits = {1, 2, 3}
    Bit <- MCBit
    Files <- MCFiles
    GeneratorOptions <- MCGeneratorOptions
    PidFilters <- MCPidFilters
    ProcessFilters = {"", "python", "bash"}
    GraphPrintLimit = 2
    TimelinePrintLimit = 2
    TopItemsPrint = 2
INVARIANTS
    NodesTellTheFile
    LinesAreReadAsWritten
    GeneratedFileIsReadBack
    GeneratedRiskIsFound
    ConsoleIsPartOfReport
    DistanceTellsTheDifference
CHECK_DEADLOCK FALSE
