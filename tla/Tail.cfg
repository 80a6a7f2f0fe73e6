SPECIFICATION TailSpec
CONSTANTS
    PolicyFile <- MCPolicyFile
    BadToken = "bad token"
    BloomBits <- MCBloomBits
    FnMatch <- MCFnMatch
    Weights <- MCWeights
    Text <- MCText
    Lines <- MCLines
    MaxLines = 2
    Ips <- MCIps
    Domains <- MCDomains
    TornWrites = TRUE
    Torn <- MCTorn
CHECK_DEADLOCK FALSE
INVARIANTS
    TailSeesEveryEvent
    AlertsTellTheHistory
PROPERTIES
    FollowCatchesUp
    TailBuildsTheGraph
