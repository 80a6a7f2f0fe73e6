CONSTANTS
    AG_MAX_LOG_ENTRIES = 1
    MaxAdds = 0
    Procs <- MCProcs
    Target = "target"
    Calls <- MCCalls
    MaxCalls = 2
    MaxSignals = 1
    Under <- MCUnder
    Shells <- MCShells
    prog = prog
    sh = sh
SPECIFICATION Spec
CHECK_DEADLOCK FALSE
INVARIANTS
    ShutdownTakesOneStatus
    BlockedCallsNeverRun
    BlocksCountedOnce
    AuditTellsEveryBlock
    NoStopForgotten
PROPERTIES
    StopsAreContinued
    EndsWithItsProcesses
