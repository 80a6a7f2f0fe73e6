------------------------- MODULE MonitorProperties -------------------------
(***************************************************************************)
(* What agentguard promises about the processes it runs, and where its     *)
(* SIGCHLD handler takes that away.                                        *)
(***************************************************************************)
EXTENDS Monitor

\* The refused calls that are audited.
RefusedAudited == Refused("files") + Refused("execs") + Refused("net_ops")
                + Refused("syscalls") + Refused("ptrace")

\* The values the variables take.
MonitorTypeOK ==
    /\ mode \in {"launch", "pid"} /\ running \in BOOLEAN
    /\ pc \in {"start", "first_wait", "set_options", "first_resume", "loop", "wait",
               "got", "resume", "leaving", "done"}
    /\ cur \in Procs /\ status \in {"none", "dead", "stop", "syscall"}
    /\ block_count \in Nat /\ blocked \in [Counters -> Nat]
    /\ sigchld \in BOOLEAN /\ inHandler \in BOOLEAN
    /\ state \in [Procs -> Stops \cup Moving \cup Outside \cup {"zombie"}]
    /\ call \in [Procs -> Calls \cup {NoCall}]
    /\ unreported \subseteq Procs /\ stolen \subseteq Procs
    /\ callsMade \in 0..MaxCalls /\ signals \in 0..MaxSignals
    /\ performed \subseteq Reasons \cup {"none"} /\ refused \in [Reasons -> Nat]
    /\ late \in Nat

\* While the monitor is there the kernel never performs a call that a rule
\* blocks, whatever stops, signals and forks come in between (monitor.c:342-357
\* and its like).
BlockedCallsNeverRun == performed \subseteq {"none"}

\* A blocked call is counted when its entry is seen and not again at its exit:
\* block_count is the number of calls replaced by getpid, and each counter of
\* g_monitor the number of those under its rule.
BlocksCountedOnce ==
    /\ block_count = RefusedAudited + Refused("signal")
    /\ \A k \in Counters : blocked[k] = Refused(k)

\* The audit log has one entry for every refused call but those of kill, up to
\* its capacity when it cannot wrap, and each of them is an alert.
AuditTellsEveryBlock ==
    /\ total_entries = IF circular \/ RefusedAudited <= AG_MAX_LOG_ENTRIES
                         THEN RefusedAudited ELSE AG_MAX_LOG_ENTRIES
    /\ alert_count = total_entries

\* The calls the loop makes for the process of the status it took.
Handling(p) == p = cur /\ pc \in {"set_options", "first_resume", "got", "resume"}

\* A process that is stopped has a status waitpid will return or is being
\* handled, unless the SIGCHLD handler took its status.
NoStopForgotten ==
    \A p \in Procs :
       Stopped(p) => p \in unreported \/ Handling(p) \/ p \in stolen

\* Told to shut down, the monitor takes at most one more status: the signal only
\* clears a flag (main.c:415) and does not interrupt waitpid, so what is under way
\* is finished, but no process is handled after the one the loop was waiting for.
ShutdownTakesOneStatus == late <= 1

\* While the handler takes no stop, every stop ends: the loop continues each
\* process it is told of.
StopsAreContinued ==
    [](stolen = {}) => \A p \in Procs : Stopped(p) ~> ~Stopped(p)

\* While the handler takes no stop, the monitor ends after all its processes
\* have, whether the loop or the handler reaped them.
EndsWithItsProcesses ==
    [](stolen = {}) =>
        ((\A p \in Procs : state[p] \in Outside \cup {"zombie"}) ~> pc = "done")

-----------------------------------------------------------------------------
\* "Recolecta procesos hijo terminados" (main.c:419): the handler of SIGCHLD
\* takes the statuses of processes that have ended.
HandlerReapsTheEnded ==
    [][\A p \in Procs : inHandler /\ inHandler' /\ p \in unreported \ unreported'
                        => state[p] = "zombie"]_vars

\* "Monitorear proceso existente" (main.c:374): with -p, a process that lives
\* and is let be is followed until it ends or the monitor is told to stop.
PidModeMonitors == mode = "pid" /\ running => pc # "leaving"
=============================================================================
