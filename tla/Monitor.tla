------------------------------ MODULE Monitor ------------------------------
(***************************************************************************)
(* monitor.c and main.c of agentguard: a program is run under ptrace, the  *)
(* monitor is told of every stop by waitpid, evaluates the call at its     *)
(* entry and again at its exit, replaces a forbidden one by getpid, and    *)
(* lets the process go on.  The SIGCHLD handler of main.c shares waitpid   *)
(* with the loop.  The processes and the kernel are external.              *)
(***************************************************************************)
EXTENDS AgentPolicy, AuditLog, FiniteSets

CONSTANTS
    Procs, Target,      \* the processes; Target is launched or named by -p
    Calls,              \* system calls a process may make: records nr, path, writes, port, to
    MaxCalls,           \* bound: calls made in a run
    MaxSignals          \* bound: signals and kills processes get in a run

ASSUME TargetAssumption == Target \in Procs /\ IsFiniteSet(Procs)
ASSUME BoundsAssumption == MaxCalls \in Nat /\ MaxSignals \in Nat

VARIABLES
    mode,               \* "launch" (-c) or "pid" (-p)
    pc,                 \* where the monitor is
    running,            \* g_ctx.running
    cur, status,        \* the process and the kind of status waitpid returned
    block_count,        \* g_ctx.block_count
    blocked,            \* g_monitor.blocked_files, _execs, _net_ops, _syscalls
    sigchld, inHandler, \* SIGCHLD is pending; its handler runs
    state,              \* of each process
    call, nr,           \* the call it is making, and orig_rax
    unreported,         \* processes with a status waitpid has not returned
    callsMade, signals  \* bounded counters

\* What the monitor never sees: kept for the properties.
VARIABLES
    performed,          \* reasons to block of the calls the kernel performed under the monitor
    refused,            \* calls replaced by getpid, by reason
    stolen,             \* processes whose stop the handler took
    late                \* statuses the monitor took after it was told to shut down

monitorVars == <<pc, running, cur, status, block_count, blocked, sigchld, inHandler>>
kernelVars == <<state, call, nr, unreported, callsMade, signals>>
ghostVars == <<performed, refused, stolen, late>>
vars == <<mode, monitorVars, kernelVars, ghostVars, auditVars>>

Counters == {"files", "execs", "net_ops", "syscalls"}
Reasons == Counters \cup {"ptrace", "signal"}
NoCall == [nr |-> "none"]

Stops == {"sigstop", "signal", "event", "ending", "entry", "exit"}
Moving == {"born", "running", "inside", "returning", "doomed", "dying"}
Outside == {"absent", "foreign", "gone"}    \* not children or tracees of the monitor
Stopped(p) == state[p] \in Stops

-----------------------------------------------------------------------------
\* The decision of ag_monitor_handle_syscall for a call of number n: the rule
\* that blocks it, or "none".
BlockedBy(n, c) ==
    CASE /\ n \in {"open", "openat", "creat"}
         /\ ag_policy_evaluate_file(default_policy, c.path, c.writes)     -> "files"
      [] /\ n \in {"execve", "execveat"}
         /\ ag_policy_evaluate_exec(default_policy, c.path)               -> "execs"
      [] /\ n = "connect"
         /\ ag_policy_evaluate_network(default_policy, c.port)            -> "net_ops"
      [] n = "ptrace"                                                     -> "ptrace"
      [] n \in {"kill", "tgkill", "tkill"} /\ c.to \in {"init", "monitor"} -> "signal"
      [] OTHER -> IF ag_policy_evaluate_syscall(default_policy, n) THEN "syscalls" ELSE "none"

\* Mutants: the registers are not written back; the number evaluated is the one
\* of the call and not orig_rax; the forbidden numbers are not audited.
ReplaceNothing(p) == UNCHANGED nr
NumberOfCall(p) == call[p].nr
AuditBlockLess(reason) ==
    IF reason \in {"signal", "syscalls"} THEN UNCHANGED auditVars ELSE ag_audit_add(AG_SEV_HIGH)

\* regs.orig_rax = SYS_getpid and PTRACE_SETREGS; what PTRACE_GETREGS gives.
Replace(p) == nr' = [nr EXCEPT ![p] = "getpid"]
Number(p) == nr[p]

\* Every block is audited but the one of a signal.
AuditBlock(reason) ==
    CASE reason = "signal" -> UNCHANGED auditVars
      [] reason = "ptrace" -> ag_audit_add(AG_SEV_CRITICAL)
      [] OTHER             -> ag_audit_add(AG_SEV_HIGH)

Init ==
    /\ mode \in {"launch", "pid"}
    /\ pc = "start" /\ running = TRUE
    /\ cur = Target /\ status = "none"
    /\ block_count = 0 /\ blocked = [k \in Counters |-> 0]
    /\ sigchld = FALSE /\ inHandler = FALSE
    /\ state = [p \in Procs |-> IF p # Target THEN "absent"
                                ELSE IF mode = "launch" THEN "born" ELSE "foreign"]
    /\ call = [p \in Procs |-> NoCall] /\ nr = [p \in Procs |-> "none"]
    /\ unreported = {} /\ callsMade = 0 /\ signals = 0
    /\ performed = {} /\ refused = [r \in Reasons |-> 0] /\ stolen = {} /\ late = 0
    /\ ag_audit_init

-----------------------------------------------------------------------------
(* The processes, and the kernel that stops them. *)

\* A stop or a death is a status for waitpid and a SIGCHLD for the monitor.
Report(p) == unreported' = unreported \cup {p} /\ sigchld' = TRUE

KernelOnly == UNCHANGED <<mode, pc, running, cur, status, block_count, blocked, inHandler, auditVars>>

\* A replaced call is settled once getpid has run for it or the process has died.
Replaced(p) == state[p] \in {"entry", "inside"} /\ nr[p] # call[p].nr
Rule(p) == BlockedBy(call[p].nr, call[p])
\* Calls replaced by getpid under a rule: those settled, and those still to run.
Pending(r) == { p \in Procs : Replaced(p) /\ Rule(p) = r }
Refused(r) == refused[r] + Cardinality(Pending(r))
Settle(p) == refused' = IF Replaced(p) THEN [refused EXCEPT ![Rule(p)] = @ + 1] ELSE refused

\* The child calls PTRACE_TRACEME and raise(SIGSTOP) before execvp.
RaiseSigstop ==
    /\ state[Target] = "born"
    /\ state' = [state EXCEPT ![Target] = "sigstop"]
    /\ Report(Target) /\ KernelOnly
    /\ UNCHANGED <<call, nr, callsMade, signals, ghostVars>>

EnterCall(p, c) ==
    /\ state[p] = "running" /\ callsMade < MaxCalls
    /\ callsMade' = callsMade + 1
    /\ call' = [call EXCEPT ![p] = c] /\ nr' = [nr EXCEPT ![p] = c.nr]
    /\ state' = [state EXCEPT ![p] = "entry"]
    /\ Report(p) /\ KernelOnly
    /\ UNCHANGED <<signals, ghostVars>>

\* The kernel runs the call of orig_rax; fork and exit have event stops
\* (PTRACE_O_TRACEFORK, PTRACE_O_TRACEEXIT), and a new process starts with SIGSTOP.
Perform(p) ==
    /\ state[p] = "inside"
    /\ \/ /\ nr[p] = "fork"
          /\ \E q \in Procs :
               /\ state[q] = "absent"
               /\ state' = [state EXCEPT ![p] = "event", ![q] = "sigstop"]
               /\ unreported' = unreported \cup {p, q} /\ sigchld' = TRUE
       \/ /\ nr[p] = "exit"
          /\ state' = [state EXCEPT ![p] = "ending"]
          /\ Report(p)
       \/ /\ nr[p] # "exit" /\ (nr[p] = "fork" => \A q \in Procs : state[q] # "absent")
          /\ state' = [state EXCEPT ![p] = "exit"]
          /\ Report(p)
    /\ performed' = performed \cup {BlockedBy(nr[p], call[p])}
    /\ Settle(p) /\ KernelOnly
    /\ UNCHANGED <<call, nr, callsMade, signals, stolen, late>>

\* After an event stop a fork returns, and a process that got a fatal signal or
\* called exit ends.
Proceed(p) ==
    /\ \E step \in {<<"returning", "exit">>, <<"doomed", "ending">>, <<"dying", "zombie">>} :
          state[p] = step[1] /\ state' = [state EXCEPT ![p] = step[2]]
    /\ Report(p) /\ KernelOnly
    /\ UNCHANGED <<call, nr, callsMade, signals, ghostVars>>

\* A signal sent to a process stops it before it is delivered.
Signal(p) ==
    /\ state[p] = "running" /\ signals < MaxSignals
    /\ signals' = signals + 1
    /\ state' = [state EXCEPT ![p] = "signal"]
    /\ Report(p) /\ KernelOnly
    /\ UNCHANGED <<call, nr, callsMade, ghostVars>>

\* SIGKILL ends a process wherever it is, also in a stop.
Kill(p) ==
    /\ state[p] \in Stops \cup Moving /\ signals < MaxSignals
    /\ signals' = signals + 1
    /\ state' = [state EXCEPT ![p] = "zombie"]
    /\ Report(p) /\ Settle(p) /\ KernelOnly
    /\ stolen' = stolen \ {p}
    /\ UNCHANGED <<call, nr, callsMade, performed, late>>

KernelStep ==
    \/ RaiseSigstop
    \/ \E p \in Procs :
          \/ \E c \in Calls : EnterCall(p, c)
          \/ Perform(p) \/ Proceed(p) \/ Signal(p) \/ Kill(p)

\* PTRACE_SYSCALL; on a process that is gone it fails and changes nothing.
Resumed(s) ==
    CASE s = "entry"                -> {"inside"}
      [] s = "event"                -> {"returning"}
      [] s = "ending"               -> {"dying"}
      [] s = "signal"               -> {"running", "doomed"}
      [] s \in {"sigstop", "exit"}  -> {"running"}
      [] OTHER                      -> {s}

Continue(p) == \E s \in Resumed(state[p]) : state' = [state EXCEPT ![p] = s]

-----------------------------------------------------------------------------
(* ag_monitor_run and ag_monitor_handle_syscall; no handler is running. *)

MonitorOnly == ~inHandler /\ UNCHANGED <<mode, running, sigchld, inHandler, callsMade, signals, call>>

\* waitpid hands over the status of p.
Take(p) ==
    /\ p \in unreported /\ unreported' = unreported \ {p}
    /\ cur' = p
    /\ status' = IF state[p] = "zombie" THEN "dead"
                 ELSE IF state[p] \in {"entry", "exit"} THEN "syscall" ELSE "stop"
    /\ state' = IF state[p] = "zombie" THEN [state EXCEPT ![p] = "gone"] ELSE state
    /\ late' = IF running THEN late ELSE late + 1

\* With -p both target_pid are the same, so the branch of -c is taken.
Start ==
    /\ pc = "start" /\ pc' = "first_wait" /\ MonitorOnly
    /\ UNCHANGED <<cur, status, block_count, blocked, state, nr, unreported, ghostVars, auditVars>>

FirstWait ==
    /\ pc = "first_wait" /\ MonitorOnly
    /\ \/ Take(Target) /\ pc' = "set_options"
       \/ state[Target] \in Outside /\ pc' = "leaving"     \* ECHILD
          /\ UNCHANGED <<cur, status, state, unreported, late>>
    /\ UNCHANGED <<block_count, blocked, nr, performed, refused, stolen, auditVars>>

\* Both ptrace calls fail once the process has died.
SetOptions ==
    /\ pc = "set_options" /\ MonitorOnly
    /\ pc' = IF Stopped(Target) THEN "first_resume" ELSE "leaving"
    /\ UNCHANGED <<cur, status, block_count, blocked, state, nr, unreported, ghostVars, auditVars>>

FirstResume ==
    /\ pc = "first_resume" /\ MonitorOnly
    /\ pc' = IF Stopped(Target) THEN "loop" ELSE "leaving"
    /\ Continue(Target)
    /\ UNCHANGED <<cur, status, block_count, blocked, nr, unreported, ghostVars, auditVars>>

\* Mutant of Loop: running is not looked at.
LoopForEver ==
    /\ pc = "loop" /\ pc' = "wait" /\ MonitorOnly
    /\ UNCHANGED <<cur, status, block_count, blocked, state, nr, unreported, ghostVars, auditVars>>

Loop ==
    /\ pc = "loop" /\ MonitorOnly
    /\ pc' = IF running THEN "wait" ELSE "leaving"
    /\ UNCHANGED <<cur, status, block_count, blocked, state, nr, unreported, ghostVars, auditVars>>

\* Mutants of Wait, GotStop and Resume: a failed waitpid is tried again; a SIGSTOP
\* stop is left as it is; a process is not resumed after a blocked call.
WaitAgain ==
    /\ pc = "wait" /\ MonitorOnly
    /\ \E p \in Procs : Take(p) /\ pc' = "got"
    /\ UNCHANGED <<block_count, blocked, nr, performed, refused, stolen, auditVars>>
GotStopLeft ==
    /\ pc = "got" /\ status = "stop" /\ MonitorOnly
    /\ IF state[cur] = "sigstop" THEN UNCHANGED state ELSE Continue(cur)
    /\ pc' = "loop"
    /\ UNCHANGED <<cur, status, block_count, blocked, nr, unreported, ghostVars, auditVars>>
ResumeAllowed ==
    /\ pc = "resume" /\ MonitorOnly
    /\ IF Replaced(cur) THEN UNCHANGED state ELSE Continue(cur)
    /\ pc' = "loop"
    /\ UNCHANGED <<cur, status, block_count, blocked, nr, unreported, ghostVars, auditVars>>

Wait ==
    /\ pc = "wait" /\ MonitorOnly
    /\ \/ \E p \in Procs : Take(p) /\ pc' = "got"
       \/ (\A p \in Procs : state[p] \in Outside) /\ pc' = "leaving"     \* ECHILD
          /\ UNCHANGED <<cur, status, state, unreported, late>>
    /\ UNCHANGED <<block_count, blocked, nr, performed, refused, stolen, auditVars>>

GotDeath ==
    /\ pc = "got" /\ status = "dead" /\ MonitorOnly
    /\ pc' = IF cur = Target THEN "leaving" ELSE "loop"
    /\ UNCHANGED <<cur, status, block_count, blocked, state, nr, unreported, ghostVars, auditVars>>

GotStop ==
    /\ pc = "got" /\ status = "stop" /\ MonitorOnly
    /\ Continue(cur) /\ pc' = "loop"
    /\ UNCHANGED <<cur, status, block_count, blocked, nr, unreported, ghostVars, auditVars>>

\* The number ag_monitor_handle_syscall evaluates is orig_rax, at entry and exit
\* alike; PTRACE_GETREGS fails on a process that has died.
ag_monitor_handle_syscall ==
    LET rule == BlockedBy(Number(cur), call[cur]) IN
    /\ pc = "got" /\ status = "syscall" /\ MonitorOnly
    /\ pc' = IF Stopped(cur) THEN "resume" ELSE "loop"
    /\ IF Stopped(cur) /\ rule # "none"
         THEN /\ block_count' = block_count + 1
              /\ blocked' = [k \in Counters |-> blocked[k] + IF k = rule THEN 1 ELSE 0]
              /\ Replace(cur)
              /\ AuditBlock(rule)
         ELSE UNCHANGED <<block_count, blocked, nr, auditVars>>
    /\ UNCHANGED <<cur, status, state, unreported, ghostVars>>

Resume ==
    /\ pc = "resume" /\ MonitorOnly
    /\ Continue(cur) /\ pc' = "loop"
    /\ UNCHANGED <<cur, status, block_count, blocked, nr, unreported, ghostVars, auditVars>>

\* The monitor exits; the kernel detaches what it still traces.
Leave ==
    /\ pc = "leaving" /\ pc' = "done" /\ MonitorOnly
    /\ state' = [p \in Procs |-> IF state[p] \in Outside THEN state[p] ELSE "foreign"]
    /\ unreported' = {}
    /\ refused' = [r \in Reasons |-> Refused(r)]
    /\ UNCHANGED <<cur, status, block_count, blocked, nr, performed, stolen, late, auditVars>>

MonitorStep ==
    \/ Start \/ FirstWait \/ SetOptions \/ FirstResume \/ Loop \/ Wait \/ GotDeath
    \/ GotStop \/ ag_monitor_handle_syscall \/ Resume \/ Leave

-----------------------------------------------------------------------------
(* ag_signal_handler: SIGTERM, SIGINT and SIGQUIT; SIGCHLD. *)

HandlerOnly == UNCHANGED <<mode, pc, cur, status, block_count, blocked, call, nr, callsMade,
                           signals, performed, refused, late, auditVars>>

ShutdownSignal ==
    /\ running /\ pc # "done" /\ running' = FALSE
    /\ HandlerOnly /\ UNCHANGED <<sigchld, inHandler, state, unreported, stolen>>

\* A signal is delivered in user mode; a waitpid that has something to return
\* returns it first.  SA_RESTART takes the monitor back into waitpid.
HandlerStarts ==
    /\ sigchld /\ ~inHandler /\ pc # "done"
    /\ pc = "wait" => unreported = {}
    /\ pc = "first_wait" => Target \notin unreported
    /\ inHandler' = TRUE /\ sigchld' = FALSE
    /\ HandlerOnly /\ UNCHANGED <<running, state, unreported, stolen>>

\* waitpid(-1, NULL, WNOHANG) returns the stops of tracees, too.
HandlerReaps ==
    /\ inHandler
    /\ \E p \in unreported :
          /\ unreported' = unreported \ {p}
          /\ IF state[p] = "zombie"
               THEN state' = [state EXCEPT ![p] = "gone"] /\ UNCHANGED stolen
               ELSE stolen' = stolen \cup {p} /\ UNCHANGED state
    /\ HandlerOnly /\ UNCHANGED <<running, sigchld, inHandler>>

HandlerReturns ==
    /\ inHandler /\ unreported = {} /\ inHandler' = FALSE
    /\ HandlerOnly /\ UNCHANGED <<running, sigchld, state, unreported, stolen>>

HandlerStep == HandlerStarts \/ HandlerReaps \/ HandlerReturns

Next == KernelStep \/ MonitorStep \/ HandlerStep \/ ShutdownSignal

\* The monitor and its handler are scheduled, and the kernel ends what it began.
\* A process may compute, or sleep in a call, for ever.
Fairness ==
    /\ WF_vars(MonitorStep) /\ WF_vars(HandlerStep)
    /\ WF_vars(RaiseSigstop) /\ \A p \in Procs : WF_vars(Proceed(p))

Spec == Init /\ [][Next]_vars /\ Fairness
=============================================================================
