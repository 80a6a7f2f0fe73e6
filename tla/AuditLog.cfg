SPECIFICATION AuditSpec
CONSTANTS
    AG_MAX_LOG_ENTRIES = 3
    MaxAdds = 5
INVARIANTS
    RingAgreesWithFile
PROPERTY
    KeepsTheLastEntries
CHECK_DEADLOCK FALSE
