SPECIFICATION Spec
CONSTANTS
    PolicyFile <- MCPolicyFile
    BadToken = "bad token"
    BloomBits <- MCBloomBits
    FnMatch <- MCFnMatch
    Weights <- risk_weights_set_defaults
    Values <- MCValues
    Buckets = {0, 1, 2, 3}
    Slots = {1, 2}
    Fingerprints = {1, 2, 3, 4, 5, 6, 7, 8}
    Fingerprint <- MCFingerprint
    Index1 <- MCIndex1
    Alt <- MCAlt
    KickSlot <- MCKickSlot
    StartsAtFirst <- MCStartsAtFirst
    MaxKicks = 3
INVARIANTS
    NoFalseNegatives
    DeleteForgetsOneCopy
    CheckAgreesWithAnalysis
