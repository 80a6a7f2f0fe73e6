CONSTANTS
    AG_MAX_LOG_ENTRIES = 1
    MaxAdds = 0
    Procs <- MCProcs
    Target = "target"
    Calls <- FewCalls
    MaxCalls = 1
    MaxSignals = 0
    Under <- MCUnder
    Shells <- MCShells
    prog = prog
    sh = sh
SPECIFICATION Spec
CHECK_DEADLOCK FALSE
INVARIANTS
    PidModeMonitors
