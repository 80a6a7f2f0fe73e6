--------------------------- MODULE MonitorProofs ---------------------------
(***************************************************************************)
(* Theorems about the ptrace loop, for every set of processes and of       *)
(* calls, every interleaving of kernel, loop, handler and signals, and any *)
(* number of calls and kills; and about the ring of the audit log, which   *)
(* the loop fills, for every capacity and every sequence of its calls.     *)
(***************************************************************************)
EXTENDS MonitorProperties, SequenceTheorems, FiniteSetTheorems, TLAPS

States == Stops \cup Moving \cup Outside \cup {"zombie"}
Numbers == { c.nr : c \in Calls } \cup {"none", "getpid"}
Early == {"start", "first_wait", "set_options", "first_resume"}
Late == {"loop", "wait", "got", "resume", "leaving", "done"}

TypeInv ==
    /\ running \in BOOLEAN
    /\ pc \in Early \cup Late
    /\ cur \in Procs
    /\ state \in [Procs -> States]
    /\ call \in [Procs -> Calls \cup {NoCall}]
    /\ nr \in [Procs -> Numbers]
    /\ unreported \subseteq Procs

\* Until the first resume there is only the target, and it has not moved.
StartInv ==
    pc \in Early =>
        /\ \A p \in Procs : p # Target => state[p] = "absent"
        /\ state[Target] \in {"born", "sigstop", "zombie", "foreign", "gone"}
        /\ pc \in {"set_options", "first_resume"} =>
              cur = Target /\ state[Target] \in {"sigstop", "zombie", "gone"}

\* Only a stop or a death is reported, and a stop only once.
ReportInv ==
    /\ \A p \in unreported : state[p] \in Stops \cup {"zombie"}
    /\ \A p \in unreported : Handling(p) => state[p] = "zombie"

\* The status the loop holds is that of the process, unless it was killed since.
StatusInv ==
    /\ pc = "got" /\ status = "stop" =>
          state[cur] \in {"sigstop", "signal", "event", "ending", "zombie", "gone"}
    /\ pc = "got" /\ status = "syscall" => state[cur] \in {"entry", "exit", "zombie", "gone"}
    /\ pc = "got" /\ status = "dead" => state[cur] = "gone"
    /\ pc = "got" => status \in {"stop", "syscall", "dead"}
    /\ pc = "resume" => state[cur] \in {"entry", "exit", "zombie", "gone"}

\* No rule blocks the call the kernel is about to perform or has performed.
Allowed(p) == BlockedBy(nr[p], call[p]) = "none"
AllowedInv ==
    /\ \A p \in Procs : state[p] \in {"inside", "event", "returning", "exit"} => Allowed(p)
    /\ pc = "resume" /\ state[cur] = "entry" => Allowed(cur)
    /\ BlockedCallsNeverRun

\* A call is replaced only between its evaluation and its resumption.
EntryInv ==
    \A p \in Procs : state[p] = "entry" /\ ~(pc = "resume" /\ cur = p) => nr[p] = call[p].nr

ShutdownInv ==
    late \in {0, 1} /\ (late = 1 => ~running /\ pc \notin {"start", "first_wait", "wait"})

MInv == TypeInv /\ StartInv /\ ReportInv /\ StatusInv /\ AllowedInv /\ EntryInv
        /\ ShutdownInv /\ NoStopForgotten

-----------------------------------------------------------------------------
LEMMA GetpidIsAllowed == \A c : BlockedBy("getpid", c) = "none"
BY DEF BlockedBy, default_policy, ag_config_set_defaults, ag_policy_evaluate_syscall

LEMMA InitMInv == Init => MInv
<1> SUFFICES ASSUME Init PROVE MInv
  OBVIOUS
<1>1. TypeInv
  BY TargetAssumption DEF Init, TypeInv, States, Numbers, Early, Moving, Outside
<1>2. StartInv
  BY TargetAssumption DEF Init, StartInv
<1>3. ReportInv /\ StatusInv /\ ShutdownInv
  BY DEF Init, ReportInv, StatusInv, ShutdownInv
<1>4. \A p \in Procs : state[p] \in {"absent", "born", "foreign"}
  BY DEF Init
<1>5. AllowedInv
  BY <1>4 DEF Init, AllowedInv, BlockedCallsNeverRun
<1>6. EntryInv /\ NoStopForgotten
  BY <1>4 DEF Init, EntryInv, NoStopForgotten, Stopped, Stops
<1>. QED
  BY <1>1, <1>2, <1>3, <1>5, <1>6 DEF MInv

-----------------------------------------------------------------------------
(* The kernel. *)


\* Processes M that moved or were killed are stopped or dead, and reported.
Reported(M) ==
    /\ M \subseteq Procs
    /\ state' \in [Procs -> States]
    /\ \A p \in Procs \ M : state'[p] = state[p] /\ call'[p] = call[p] /\ nr'[p] = nr[p]
    /\ \A p \in M : /\ state'[p] \in Stops \cup {"zombie"}
                    /\ \/ state[p] \in Moving \cup {"absent"}
                       \/ state[p] \in Stops /\ state'[p] = "zombie"
                    /\ state[p] = "born" => state'[p] \in {"sigstop", "zombie"}
                    /\ state[p] = "absent" => pc \notin Early
                    /\ state'[p] = "entry" => nr'[p] = call'[p].nr
                    /\ state'[p] \in {"event", "exit"} => Allowed(p)'
    /\ call' \in [Procs -> Calls \cup {NoCall}]
    /\ nr' \in [Procs -> Numbers]
    /\ unreported' = unreported \cup M
    /\ stolen \ M \subseteq stolen'
    /\ performed' \subseteq {"none"}
    /\ UNCHANGED <<pc, running, cur, status, late>>

LEMMA ReportedKeeps == ASSUME MInv, NEW M, Reported(M) PROVE MInv'
<1>1. /\ M \subseteq Procs /\ state \in [Procs -> States] /\ state' \in [Procs -> States]
      /\ Target \in Procs /\ cur \in Procs
  BY TargetAssumption DEF MInv, TypeInv, Reported
<1>2. UNCHANGED <<pc, running, cur, status, late>> /\ unreported' = unreported \cup M
  BY DEF Reported
<1>3. \A p \in Procs \ M : state'[p] = state[p] /\ call'[p] = call[p] /\ nr'[p] = nr[p]
  BY DEF Reported
<1>4. \A p \in M : /\ state'[p] \in Stops \cup {"zombie"}
                   /\ \/ state[p] \in Moving \cup {"absent"}
                      \/ state[p] \in Stops /\ state'[p] = "zombie"
  BY DEF Reported
<1>5. TypeInv'
  BY <1>2 DEF MInv, TypeInv, Reported
<1>6. StartInv'
  <2> SUFFICES ASSUME pc \in Early PROVE StartInv'
    BY <1>2 DEF StartInv
  <2>1. \A p \in M : p = Target
    BY <1>1, <1>4 DEF MInv, StartInv, Reported, Stops, Moving
  <2>2. ASSUME Target \in M PROVE state[Target] = "born" \/ state'[Target] = "zombie"
    BY <1>1, <1>4, <2>2 DEF MInv, StartInv, Moving
  <2>3. state'[Target] = state[Target] \/ state'[Target] \in {"sigstop", "zombie"}
    BY <1>1, <1>3, <2>2 DEF Reported
  <2>4. pc \in {"set_options", "first_resume"} =>
          cur = Target /\ state'[Target] \in {"sigstop", "zombie", "gone"}
    BY <1>1, <1>3, <2>2 DEF MInv, StartInv, Reported
  <2>. QED
    BY <1>1, <1>2, <1>3, <2>1, <2>3, <2>4 DEF MInv, StartInv
<1>7. Handling(cur) => /\ \/ state'[cur] = state[cur]
                          \/ state'[cur] = "zombie" /\ state[cur] # "gone"
                       /\ cur \in M => state'[cur] = "zombie"
  <2>1. Handling(cur) => state[cur] \in Stops \cup {"zombie", "gone"}
    BY DEF MInv, StatusInv, StartInv, Handling, Early, Stops
  <2>2. \A x \in Stops \cup {"zombie", "gone"} : x \notin Moving \cup {"absent"}
    BY DEF Stops, Moving
  <2>3. "gone" \notin Stops
    BY DEF Stops
  <2>4. ASSUME Handling(cur), cur \in M PROVE state[cur] \in Stops /\ state'[cur] = "zombie"
    BY <1>4, <2>1, <2>2, <2>4
  <2>. QED
    BY <1>1, <1>3, <2>3, <2>4
<1>8. ReportInv'
  <2>1. \A p \in unreported \cup M : state'[p] \in Stops \cup {"zombie"}
    BY <1>1, <1>3, <1>4 DEF MInv, ReportInv, TypeInv
  <2>2. \A p \in unreported \cup M : Handling(p) => state'[p] = "zombie"
    BY <1>1, <1>3, <1>7 DEF MInv, ReportInv, TypeInv, Handling
  <2>. QED
    BY <1>2, <2>1, <2>2 DEF ReportInv, Handling
<1>9. StatusInv'
  BY <1>2, <1>7 DEF MInv, StatusInv, Handling
<1>10. AllowedInv'
  <2>1. \A p \in Procs : state'[p] \in {"inside", "event", "returning", "exit"} => Allowed(p)'
    BY <1>1, <1>3, <1>4 DEF MInv, AllowedInv, Allowed, Reported, Stops
  <2>2. pc = "resume" /\ state'[cur] = "entry" => Allowed(cur)'
    BY <1>1, <1>2, <1>3, <1>4, <1>7 DEF MInv, AllowedInv, Allowed, StatusInv, Handling, Moving
  <2>. QED
    BY <1>2, <2>1, <2>2 DEF AllowedInv, BlockedCallsNeverRun, Reported
<1>11. EntryInv'
  BY <1>1, <1>2, <1>3, <1>4 DEF MInv, EntryInv, Reported
<1>12. ShutdownInv'
  BY <1>2 DEF MInv, ShutdownInv
<1>13. NoStopForgotten'
  BY <1>1, <1>2, <1>3 DEF MInv, NoStopForgotten, Stopped, Handling, Reported
<1>. QED
  BY <1>5, <1>6, <1>8, <1>9, <1>10, <1>11, <1>12, <1>13 DEF MInv

LEMMA KernelKeeps == MInv /\ KernelStep => MInv'
<1> SUFFICES ASSUME MInv, KernelStep PROVE MInv'
  OBVIOUS
<1>1. /\ state \in [Procs -> States] /\ call \in [Procs -> Calls \cup {NoCall}]
      /\ nr \in [Procs -> Numbers] /\ Target \in Procs /\ performed \subseteq {"none"}
  BY TargetAssumption DEF MInv, TypeInv, AllowedInv, BlockedCallsNeverRun
<1>2. CASE RaiseSigstop
  <2>. Reported({Target})
    BY <1>1, <1>2 DEF RaiseSigstop, Report, KernelOnly, ghostVars, Reported, States, Stops, Moving
  <2>. QED
    BY ReportedKeeps
<1>3. ASSUME NEW p \in Procs, NEW c \in Calls, EnterCall(p, c) PROVE MInv'
  <2>. Reported({p})
    BY <1>1, <1>3 DEF EnterCall, Report, KernelOnly, ghostVars, Reported, States, Stops, Moving, Numbers
  <2>. QED
    BY ReportedKeeps
<1>4. ASSUME NEW p \in Procs, Perform(p) PROVE MInv'
  <2>1. state[p] = "inside" /\ Allowed(p)
    BY <1>4 DEF Perform, MInv, AllowedInv
  <2>2. pc \notin Early
    BY <1>1, <2>1 DEF MInv, StartInv
  <2>3. performed' \subseteq {"none"}
    BY <1>1, <1>4, <2>1 DEF Perform, Allowed
  <2>4. UNCHANGED <<pc, running, cur, status, call, nr, stolen, late>>
    BY <1>4 DEF Perform, KernelOnly
  <2>5. CASE \E q \in Procs :
               /\ state[q] = "absent"
               /\ state' = [state EXCEPT ![p] = "event", ![q] = "sigstop"]
               /\ unreported' = unreported \cup {p, q} /\ sigchld' = TRUE
    <3>1. PICK q \in Procs : /\ state[q] = "absent"
                             /\ state' = [state EXCEPT ![p] = "event", ![q] = "sigstop"]
                             /\ unreported' = unreported \cup {p, q}
      BY <2>5
    <3>2. q # p
      BY <2>1, <3>1
    <3>3. state' \in [Procs -> States]
      BY <1>1, <3>1 DEF States, Stops
    <3>. Reported({p, q})
      BY <1>1, <2>1, <2>2, <2>3, <2>4, <3>1, <3>2, <3>3 DEF Reported, Stops, Moving, Allowed
    <3>. QED
      BY ReportedKeeps
  <2>6. ASSUME NEW s \in {"ending", "exit"}, state' = [state EXCEPT ![p] = s], Report(p)
        PROVE  MInv'
    <3>. Reported({p})
      BY <1>1, <2>1, <2>2, <2>3, <2>4, <2>6
         DEF Reported, Report, States, Stops, Moving, Allowed
    <3>. QED
      BY ReportedKeeps
  <2>. QED
    BY <1>4, <2>5, <2>6 DEF Perform
<1>5. ASSUME NEW p \in Procs, Proceed(p) PROVE MInv'
  <2>1. PICK step \in {<<"returning", "exit">>, <<"doomed", "ending">>, <<"dying", "zombie">>} :
           state[p] = step[1] /\ state' = [state EXCEPT ![p] = step[2]]
    BY <1>5 DEF Proceed
  <2>2. state[p] = "returning" => Allowed(p)
    BY DEF MInv, AllowedInv
  <2>3. /\ UNCHANGED <<pc, running, cur, status, call, nr, late, stolen, performed>>
        /\ unreported' = unreported \cup {p}
    BY <1>5 DEF Proceed, Report, KernelOnly, ghostVars
  <2>. Reported({p})
    BY <1>1, <2>1, <2>2, <2>3 DEF Reported, States, Stops, Moving, Allowed
  <2>. QED
    BY ReportedKeeps
<1>6. ASSUME NEW p \in Procs, Signal(p) PROVE MInv'
  <2>. Reported({p})
    BY <1>1, <1>6 DEF Signal, Report, KernelOnly, ghostVars, Reported, States, Stops, Moving
  <2>. QED
    BY ReportedKeeps
<1>7. ASSUME NEW p \in Procs, Kill(p) PROVE MInv'
  <2>. Reported({p})
    BY <1>1, <1>7 DEF Kill, Report, KernelOnly, Reported, States, Stops, Moving
  <2>. QED
    BY ReportedKeeps
<1>. QED
  BY <1>2, <1>3, <1>4, <1>5, <1>6, <1>7 DEF KernelStep

-----------------------------------------------------------------------------
(* The handler and the shutdown signal. *)

HandlerSame ==
    UNCHANGED <<pc, cur, status, call, nr, performed, late>>

LEMMA HandlerKeeps == MInv /\ (HandlerStep \/ ShutdownSignal) => MInv'
<1> SUFFICES ASSUME MInv, HandlerStep \/ ShutdownSignal PROVE MInv'
  OBVIOUS
<1>1. HandlerSame
  BY DEF HandlerStep, HandlerStarts, HandlerReaps, HandlerReturns, ShutdownSignal, HandlerOnly,
     HandlerSame
<1>2. running' = running \/ (running' = FALSE /\ running)
  BY DEF HandlerStep, HandlerStarts, HandlerReaps, HandlerReturns, ShutdownSignal
<1>3. ShutdownInv'
  BY <1>1, <1>2 DEF MInv, ShutdownInv, HandlerSame
<1>4. CASE UNCHANGED <<state, unreported, stolen>>
  <2>1. TypeInv' /\ StartInv'
    BY <1>1, <1>2, <1>4 DEF MInv, TypeInv, StartInv, HandlerSame
  <2>. ReportInv' /\ StatusInv'
    BY <1>1, <1>4 DEF MInv, ReportInv, StatusInv, HandlerSame, Handling
  <2>2. AllowedInv' /\ EntryInv' /\ NoStopForgotten'
    BY <1>1, <1>4 DEF MInv, AllowedInv, Allowed, BlockedCallsNeverRun, EntryInv,
       NoStopForgotten, Stopped, Handling, HandlerSame
  <2>. QED
    BY <1>3, <2>1, <2>2 DEF MInv
<1>5. CASE HandlerReaps
  <2>1. PICK p \in unreported :
          /\ unreported' = unreported \ {p}
          /\ IF state[p] = "zombie"
               THEN state' = [state EXCEPT ![p] = "gone"] /\ UNCHANGED stolen
               ELSE stolen' = stolen \cup {p} /\ UNCHANGED state
    BY <1>5 DEF HandlerReaps
  <2>2. running' = running
    BY <1>5 DEF HandlerReaps
  <2>3. p \in Procs /\ state \in [Procs -> States] /\ cur \in Procs /\ Target \in Procs
    BY TargetAssumption DEF MInv, TypeInv
  <2>4. state' \in [Procs -> States]
    BY <2>1, <2>3 DEF States, Outside
  <2>5. \A q \in Procs : state'[q] = state[q] \/ (q = p /\ state[q] = "zombie" /\ state'[q] = "gone")
    BY <2>1, <2>3
  <2>6. TypeInv'
    BY <1>1, <1>2, <2>1, <2>4 DEF MInv, TypeInv, HandlerSame
  <2>7. StartInv' /\ StatusInv'
    BY <1>1, <2>3, <2>5 DEF MInv, StartInv, StatusInv, HandlerSame
  <2>8. ReportInv'
    BY <1>1, <2>1, <2>3, <2>5 DEF MInv, TypeInv, ReportInv, HandlerSame, Handling
  <2>9. AllowedInv' /\ EntryInv'
    BY <1>1, <2>3, <2>5
       DEF MInv, AllowedInv, Allowed, BlockedCallsNeverRun, EntryInv, HandlerSame
  <2>10. \A q \in Procs : Stopped(q)' => Stopped(q)
    BY <2>5 DEF Stopped, Stops
  <2>11. NoStopForgotten'
    <3> SUFFICES ASSUME NEW q \in Procs, Stopped(q)'
                 PROVE  q \in unreported' \/ Handling(q)' \/ q \in stolen'
      BY DEF NoStopForgotten
    <3>1. q \in unreported \/ Handling(q) \/ q \in stolen
      BY <2>10 DEF MInv, NoStopForgotten
    <3>2. q = p => q \in stolen'
      BY <2>1, <2>3 DEF Stopped, Stops
    <3>. QED
      BY <1>1, <2>1, <3>1, <3>2 DEF Handling, HandlerSame
  <2>. QED
    BY <1>3, <2>6, <2>7, <2>8, <2>9, <2>11 DEF MInv
<1>. QED
  BY <1>4, <1>5 DEF HandlerStep, HandlerStarts, HandlerReturns, ShutdownSignal

-----------------------------------------------------------------------------
(* The loop. *)

\* Steps that move nothing but the loop itself, which holds no stopped process after.
Turns(next) ==
    /\ pc' = next
    /\ next \in {"loop", "wait", "leaving"} \/ (pc = "start" /\ next = "first_wait")
    /\ next \in {"wait", "first_wait"} => late = 0
    /\ \A p \in Procs : Handling(p) => ~Stopped(p)
    /\ UNCHANGED <<running, cur, status, state, call, nr, unreported, performed, stolen, late>>

LEMMA TurnsKeeps == ASSUME MInv, NEW next, Turns(next) PROVE MInv'
<1>1. TypeInv' /\ StartInv'
  BY DEF MInv, TypeInv, StartInv, Turns, Early, Late
<1>2. ReportInv' /\ StatusInv' /\ ShutdownInv'
  BY DEF MInv, ReportInv, StatusInv, ShutdownInv, Turns, Handling
<1>3. AllowedInv'
  BY DEF MInv, AllowedInv, Allowed, BlockedCallsNeverRun, Turns
<1>4. EntryInv'
  <2> SUFFICES ASSUME NEW p \in Procs, state[p] = "entry" PROVE nr[p] = call[p].nr
    BY DEF EntryInv, Turns
  <2>1. Stopped(p)
    BY DEF Stopped, Stops
  <2>2. ~Handling(p)
    BY <2>1 DEF Turns
  <2>. QED
    BY <2>2 DEF MInv, EntryInv, Handling
<1>5. NoStopForgotten'
  BY DEF MInv, NoStopForgotten, Turns, Stopped
<1>. QED
  BY <1>1, <1>2, <1>3, <1>4, <1>5 DEF MInv

\* The loop resumes the process it holds.
Resumes(p) ==
    /\ p = cur /\ Handling(p) /\ pc # "set_options"
    /\ pc = "got" => status = "stop"
    /\ Continue(p) /\ pc' = "loop"
    /\ UNCHANGED <<running, cur, status, call, nr, unreported, performed, stolen, late>>

LEMMA ResumesKeeps == ASSUME MInv, NEW p \in Procs, Resumes(p) PROVE MInv'
<1>1. /\ state \in [Procs -> States] /\ Target \in Procs /\ p = cur
      /\ pc \in {"first_resume", "got", "resume"} /\ pc' = "loop"
      /\ UNCHANGED <<running, cur, status, call, nr, unreported, performed, stolen, late>>
  BY TargetAssumption DEF MInv, TypeInv, Resumes, Handling
<1>2. PICK s \in Resumed(state[p]) : state' = [state EXCEPT ![p] = s]
  BY DEF Resumes, Continue
<1>3. state[p] \in {"sigstop", "signal", "event", "ending", "entry", "exit", "zombie", "gone"}
  BY <1>1 DEF MInv, StatusInv, StartInv, Early, Resumes
<1>4. /\ s \in States \ Stops
      /\ s = "inside" => state[p] = "entry"
      /\ s = "returning" => state[p] = "event"
      /\ s \notin {"event", "exit", "entry"}
      /\ state[p] = "zombie" => s = "zombie"
  BY <1>2, <1>3 DEF Resumed, States, Stops, Moving, Outside
<1>5. \A q \in Procs : state'[q] = IF q = p THEN s ELSE state[q]
  BY <1>1, <1>2
<1>6. state' \in [Procs -> States]
  BY <1>1, <1>2, <1>4
<1>7. TypeInv' /\ StartInv' /\ StatusInv' /\ ShutdownInv'
  BY <1>1, <1>6 DEF MInv, TypeInv, StartInv, StatusInv, ShutdownInv, Early, Late
<1>8. ReportInv'
  <2>1. p \in unreported => state[p] = "zombie"
    BY DEF MInv, ReportInv, Resumes
  <2>. QED
    BY <1>1, <1>4, <1>5, <2>1 DEF MInv, TypeInv, ReportInv, Handling
<1>9. AllowedInv'
  <2>1. s \in {"inside", "returning"} => Allowed(p)
    BY <1>1, <1>3, <1>4 DEF MInv, AllowedInv, StatusInv, StartInv, Early, Resumes
  <2>. QED
    BY <1>1, <1>4, <1>5, <2>1 DEF MInv, AllowedInv, Allowed, BlockedCallsNeverRun
<1>10. EntryInv'
  BY <1>1, <1>4, <1>5 DEF MInv, EntryInv
<1>11. NoStopForgotten'
  BY <1>1, <1>4, <1>5 DEF MInv, NoStopForgotten, Stopped, Handling
<1>. QED
  BY <1>7, <1>8, <1>9, <1>10, <1>11 DEF MInv

\* waitpid returns the status of p.
Takes(p, next) ==
    /\ Take(p) /\ pc' = next
    /\ \/ pc = "wait" /\ next = "got"
       \/ pc = "first_wait" /\ next = "set_options" /\ p = Target
    /\ UNCHANGED <<running, call, nr, performed, stolen>>

LEMMA TakesKeeps == ASSUME MInv, NEW p \in Procs, NEW next, Takes(p, next) PROVE MInv'
<1>1. /\ state \in [Procs -> States] /\ Target \in Procs
      /\ p \in unreported /\ unreported' = unreported \ {p} /\ cur' = p
      /\ UNCHANGED <<running, call, nr, performed, stolen>>
      /\ pc \in {"wait", "first_wait"} /\ pc' = next
  BY TargetAssumption DEF MInv, TypeInv, Takes, Take
<1>2. /\ next \in {"got", "set_options"}
      /\ next = "set_options" <=> pc = "first_wait"
      /\ next = "set_options" => p = Target
  BY DEF Takes
<1>3. state[p] \in Stops \cup {"zombie"}
  BY <1>1 DEF MInv, ReportInv
<1>4. /\ state' = IF state[p] = "zombie" THEN [state EXCEPT ![p] = "gone"] ELSE state
      /\ status' = IF state[p] = "zombie" THEN "dead"
                   ELSE IF state[p] \in {"entry", "exit"} THEN "syscall" ELSE "stop"
      /\ late' = IF running THEN late ELSE late + 1
  BY DEF Takes, Take
<1>5. \A q \in Procs : state'[q] = IF q = p /\ state[p] = "zombie" THEN "gone" ELSE state[q]
  BY <1>1, <1>4
<1>6. state' \in [Procs -> States]
  BY <1>1, <1>4 DEF States, Outside
<1>7. TypeInv'
  BY <1>1, <1>2, <1>6 DEF MInv, TypeInv, Early, Late
<1>8. StartInv'
  <2>1. next = "set_options" => state[Target] \in {"sigstop", "zombie"}
    BY <1>1, <1>2, <1>3 DEF MInv, StartInv, Early, Stops
  <2>. QED
    BY <1>1, <1>2, <1>5, <2>1 DEF MInv, StartInv, Early
<1>9. ReportInv'
  BY <1>1, <1>5 DEF MInv, TypeInv, ReportInv, Handling
<1>10. StatusInv'
  <2>1. state[p] \in {"sigstop", "signal", "event", "ending", "entry", "exit", "zombie"}
    BY <1>3 DEF Stops
  <2>. QED
    BY <1>1, <1>2, <1>4, <1>5, <2>1 DEF StatusInv
<1>11. AllowedInv'
  BY <1>1, <1>2, <1>5 DEF MInv, AllowedInv, Allowed, BlockedCallsNeverRun
<1>12. EntryInv'
  BY <1>1, <1>2, <1>5 DEF MInv, EntryInv
<1>13. ShutdownInv'
  BY <1>1, <1>2, <1>4 DEF MInv, ShutdownInv
<1>14. NoStopForgotten'
  <2> SUFFICES ASSUME NEW q \in Procs, Stopped(q)'
               PROVE  q \in unreported' \/ Handling(q)' \/ q \in stolen'
    BY DEF NoStopForgotten
  <2>1. Stopped(q)
    BY <1>5 DEF Stopped, Stops
  <2>2. ~Handling(q)
    BY <1>1 DEF Handling
  <2>3. q \in unreported \/ q \in stolen
    BY <2>1, <2>2 DEF MInv, NoStopForgotten
  <2>. QED
    BY <1>1, <1>2, <2>3 DEF Handling
<1>. QED
  BY <1>7, <1>8, <1>9, <1>10, <1>11, <1>12, <1>13, <1>14 DEF MInv

\* The call at an entry stop, and the decision, in the words of the number read.
LEMMA SyscallKeeps == MInv /\ ag_monitor_handle_syscall => MInv'
<1> SUFFICES ASSUME MInv, ag_monitor_handle_syscall PROVE MInv'
  OBVIOUS
<1> DEFINE rule == BlockedBy(nr[cur], call[cur])
<1>1. /\ pc = "got" /\ status = "syscall" /\ cur \in Procs /\ nr \in [Procs -> Numbers]
      /\ UNCHANGED <<running, cur, status, state, call, unreported, performed, stolen, late>>
      /\ pc' = IF Stopped(cur) THEN "resume" ELSE "loop"
      /\ nr' = IF Stopped(cur) /\ rule # "none" THEN [nr EXCEPT ![cur] = "getpid"] ELSE nr
  BY DEF MInv, TypeInv, ag_monitor_handle_syscall, MonitorOnly, ghostVars, Number, Replace
<1>2. state[cur] \in {"entry", "exit", "zombie", "gone"}
  BY <1>1 DEF MInv, StatusInv
<1>3. Stopped(cur) <=> state[cur] \in {"entry", "exit"}
  BY <1>2 DEF Stopped, Stops
<1>4. nr' \in [Procs -> Numbers]
  BY <1>1 DEF Numbers
<1>5. \A p \in Procs : p # cur => nr'[p] = nr[p]
  BY <1>1
<1>6. Stopped(cur) => BlockedBy(nr'[cur], call[cur]) = "none"
  BY <1>1, GetpidIsAllowed
<1>7. state[cur] # "entry" => nr' = nr
  <2>1. state[cur] = "exit" => rule = "none"
    BY <1>1 DEF MInv, AllowedInv, Allowed
  <2>. QED
    BY <1>1, <1>3, <2>1
<1>8. TypeInv' /\ StartInv' /\ ShutdownInv'
  BY <1>1, <1>4 DEF MInv, TypeInv, StartInv, ShutdownInv, Early, Late
<1>9. ReportInv' /\ StatusInv'
  BY <1>1, <1>2 DEF MInv, ReportInv, StatusInv, Handling
<1>10. AllowedInv'
  <2>1. ASSUME NEW p \in Procs, state[p] \in {"inside", "event", "returning", "exit"}
        PROVE  Allowed(p)'
    BY <1>1, <1>5, <1>7, <2>1 DEF MInv, AllowedInv, Allowed
  <2>2. pc' = "resume" => Allowed(cur)'
    BY <1>1, <1>6 DEF Allowed
  <2>. QED
    BY <1>1, <2>1, <2>2 DEF MInv, AllowedInv, BlockedCallsNeverRun
<1>11. EntryInv'
  BY <1>1, <1>3, <1>5 DEF MInv, EntryInv
<1>12. NoStopForgotten'
  BY <1>1 DEF MInv, NoStopForgotten, Stopped, Handling
<1>. QED
  BY <1>8, <1>9, <1>10, <1>11, <1>12 DEF MInv

LEMMA LeaveKeeps == MInv /\ Leave => MInv'
<1> SUFFICES ASSUME MInv, Leave PROVE MInv'
  OBVIOUS
<1>1. /\ pc' = "done" /\ unreported' = {}
      /\ UNCHANGED <<running, cur, status, call, nr, performed, late>>
  BY DEF Leave, MonitorOnly
<1>2. state' \in [Procs -> Outside]
  BY DEF Leave, Outside
<1>3. \A p \in Procs : state'[p] \in Outside /\ state'[p] \in States
  BY <1>2 DEF States
<1>4. state' \in [Procs -> States]
  BY <1>2, <1>3
<1>5. TypeInv' /\ StartInv' /\ ReportInv' /\ StatusInv' /\ ShutdownInv'
  BY <1>1, <1>4 DEF MInv, TypeInv, StartInv, ReportInv, StatusInv, ShutdownInv, Early, Late
<1>6. AllowedInv' /\ EntryInv'
  BY <1>1, <1>3 DEF MInv, AllowedInv, BlockedCallsNeverRun, EntryInv, Outside
<1>7. NoStopForgotten'
  BY <1>3 DEF NoStopForgotten, Stopped, Stops, Outside
<1>. QED
  BY <1>5, <1>6, <1>7 DEF MInv

LEMMA MonitorKeeps == MInv /\ MonitorStep => MInv'
<1> SUFFICES ASSUME MInv, MonitorStep PROVE MInv'
  OBVIOUS
<1> USE DEF MonitorOnly, ghostVars
<1>1. Target \in Procs /\ cur \in Procs /\ late \in {0, 1} /\ (running => late = 0)
  BY TargetAssumption DEF MInv, TypeInv, ShutdownInv
<1>2. CASE Start
  <2>. Turns("first_wait")
    BY <1>2 DEF Start, Turns, MInv, ShutdownInv, Handling
  <2>. QED
    BY TurnsKeeps
<1>3. CASE FirstWait
  <2>1. CASE Take(Target) /\ pc' = "set_options"
    <3>. Takes(Target, "set_options")
      BY <1>3, <2>1 DEF FirstWait, Takes
    <3>. QED
      BY <1>1, TakesKeeps
  <2>2. CASE ~(Take(Target) /\ pc' = "set_options")
    <3>. Turns("leaving")
      BY <1>3, <2>2 DEF FirstWait, Turns, Handling
    <3>. QED
      BY TurnsKeeps
  <2>. QED
    BY <2>1, <2>2
<1>4. CASE SetOptions
  <2>1. cur = Target /\ pc = "set_options"
    BY <1>4 DEF SetOptions, MInv, StartInv, Early
  <2>2. CASE Stopped(Target)
    <3>1. /\ pc' = "first_resume"
          /\ UNCHANGED <<running, cur, status, state, call, nr, unreported, performed, stolen, late>>
      BY <1>4, <2>2 DEF SetOptions
    <3>2. TypeInv' /\ StartInv' /\ ShutdownInv'
      BY <2>1, <3>1 DEF MInv, TypeInv, StartInv, ShutdownInv, Early
    <3>3. ReportInv' /\ StatusInv'
      BY <2>1, <3>1 DEF MInv, ReportInv, StatusInv, Handling
    <3>4. AllowedInv' /\ EntryInv' /\ NoStopForgotten'
      BY <2>1, <3>1 DEF MInv, AllowedInv, Allowed, BlockedCallsNeverRun, EntryInv,
         NoStopForgotten, Stopped, Handling
    <3>. QED
      BY <3>2, <3>3, <3>4 DEF MInv
  <2>3. CASE ~Stopped(Target)
    <3>. Turns("leaving")
      BY <1>4, <2>1, <2>3 DEF SetOptions, Turns, Handling
    <3>. QED
      BY TurnsKeeps
  <2>. QED
    BY <2>2, <2>3
<1>5. CASE FirstResume
  <2>1. cur = Target /\ state[Target] \in {"sigstop", "zombie", "gone"}
    BY <1>5 DEF FirstResume, MInv, StartInv, Early
  <2>2. CASE Stopped(Target)
    <3>. Resumes(Target)
      BY <1>5, <2>1, <2>2 DEF FirstResume, Resumes, Handling
    <3>. QED
      BY <1>1, ResumesKeeps
  <2>3. CASE ~Stopped(Target)
    <3>1. state[Target] \in {"zombie", "gone"} /\ state \in [Procs -> States]
      BY <2>1, <2>3 DEF Stopped, Stops, MInv, TypeInv
    <3>2. state' = state
      BY <1>5, <3>1 DEF FirstResume, Continue, Resumed
    <3>. Turns("leaving")
      BY <1>5, <2>1, <2>3, <3>2 DEF FirstResume, Turns, Handling
    <3>. QED
      BY TurnsKeeps
  <2>. QED
    BY <2>2, <2>3
<1>6. CASE Loop
  <2>. Turns("wait") \/ Turns("leaving")
    BY <1>1, <1>6 DEF Loop, Turns, Handling
  <2>. QED
    BY TurnsKeeps
<1>7. CASE Wait
  <2>1. CASE \E p \in Procs : Take(p) /\ pc' = "got"
    <3>1. PICK p \in Procs : Take(p) /\ pc' = "got"
      BY <2>1
    <3>. Takes(p, "got")
      BY <1>7, <3>1 DEF Wait, Takes
    <3>. QED
      BY TakesKeeps
  <2>2. CASE ~(\E p \in Procs : Take(p) /\ pc' = "got")
    <3>. Turns("leaving")
      BY <1>7, <2>2 DEF Wait, Turns, Handling
    <3>. QED
      BY TurnsKeeps
  <2>. QED
    BY <2>1, <2>2
<1>8. CASE GotDeath
  <2>1. state[cur] = "gone"
    BY <1>8 DEF GotDeath, MInv, StatusInv
  <2>. Turns("leaving") \/ Turns("loop")
    BY <1>8, <2>1 DEF GotDeath, Turns, Handling, Stopped, Stops
  <2>. QED
    BY TurnsKeeps
<1>9. CASE GotStop
  <2>. Resumes(cur)
    BY <1>9 DEF GotStop, Resumes, Handling
  <2>. QED
    BY <1>1, ResumesKeeps
<1>10. CASE Resume
  <2>. Resumes(cur)
    BY <1>10 DEF Resume, Resumes, Handling
  <2>. QED
    BY <1>1, ResumesKeeps
<1>. QED
  BY <1>2, <1>3, <1>4, <1>5, <1>6, <1>7, <1>8, <1>9, <1>10, SyscallKeeps, LeaveKeeps
     DEF MonitorStep

-----------------------------------------------------------------------------
LEMMA StepMInv == MInv /\ [Next]_vars => MInv'
<1> SUFFICES ASSUME MInv, [Next]_vars PROVE MInv'
  OBVIOUS
<1>1. CASE UNCHANGED vars
  <2>. USE <1>1 DEF MInv, vars, monitorVars, kernelVars, ghostVars
  <2>1. TypeInv' /\ StartInv' /\ ReportInv' /\ StatusInv' /\ ShutdownInv'
    BY DEF TypeInv, StartInv, ReportInv, StatusInv, ShutdownInv, Handling
  <2>2. AllowedInv' /\ EntryInv' /\ NoStopForgotten'
    BY DEF AllowedInv, Allowed, BlockedCallsNeverRun, EntryInv, NoStopForgotten, Stopped, Handling
  <2>. QED
    BY <2>1, <2>2
<1>. QED
  BY <1>1, KernelKeeps, MonitorKeeps, HandlerKeeps DEF Next

\* The inductive invariant.
THEOREM MonitorInvariant == Spec => []MInv
<1>1. Init => MInv
  BY InitMInv
<1>2. MInv /\ [Next]_vars => MInv'
  BY StepMInv
<1>. QED
  BY <1>1, <1>2, PTL DEF Spec

\* No call that a rule blocks is performed under the monitor, for any processes,
\* calls and interleaving.
THEOREM NoBlockedCallRuns == Spec => []BlockedCallsNeverRun
<1>1. MInv => BlockedCallsNeverRun
  BY DEF MInv, AllowedInv
<1>. QED
  BY <1>1, MonitorInvariant, PTL

\* Only the handler leaves a process stopped without a status for it.
THEOREM NoStopIsForgotten == Spec => []NoStopForgotten
<1>1. MInv => NoStopForgotten
  BY DEF MInv
<1>. QED
  BY <1>1, MonitorInvariant, PTL

\* After a shutdown signal the loop takes at most one status.
THEOREM OneStatusAfterShutdown == Spec => []ShutdownTakesOneStatus
<1>1. MInv => ShutdownTakesOneStatus
  BY DEF MInv, ShutdownInv, ShutdownTakesOneStatus
<1>. QED
  BY <1>1, MonitorInvariant, PTL

-----------------------------------------------------------------------------
(* Nobody waits for nobody.  The end of a process stays reported until the   *)
(* loop or the handler takes it.                                             *)
EndInv == \A p \in Procs : state[p] = "zombie" => p \in unreported

\* At each of its points the loop can take its next step: waitpid has
\* something to return, and there is a branch for the status it returned.
CanStep ==
    \/ pc \in {"start", "set_options", "first_resume", "loop", "resume", "leaving"}
    \/ pc = "first_wait" /\ (Target \in unreported \/ state[Target] \in Outside)
    \/ pc = "wait" /\ (unreported # {} \/ \A p \in Procs : state[p] \in Outside)
    \/ pc = "got" /\ status \in {"dead", "stop", "syscall"}

NeverAllWait ==
    pc # "done" /\ stolen = {} /\ (\A p \in Procs : state[p] \notin Moving) => CanStep

LEMMA ContinueEndsNobody ==
    ASSUME NEW p \in Procs, Continue(p), state \in [Procs -> States], NEW q \in Procs,
           state'[q] = "zombie"
    PROVE  state[q] = "zombie"
<1>1. PICK s \in Resumed(state[p]) : state' = [state EXCEPT ![p] = s]
  BY DEF Continue
<1>2. s = "zombie" => state[p] = "zombie"
  BY <1>1 DEF Resumed
<1> QED BY <1>1, <1>2

LEMMA KernelReportsEnds == MInv /\ EndInv /\ KernelStep => EndInv'
<1> SUFFICES ASSUME MInv, EndInv, KernelStep PROVE EndInv'
  OBVIOUS
<1>1. state \in [Procs -> States]
  BY DEF MInv, TypeInv
<1>2. CASE RaiseSigstop
  BY <1>1, <1>2, TargetAssumption DEF RaiseSigstop, Report, EndInv
<1>3. ASSUME NEW p \in Procs, NEW c \in Calls, EnterCall(p, c) PROVE EndInv'
  BY <1>1, <1>3 DEF EnterCall, Report, EndInv
<1>4. ASSUME NEW p \in Procs, Perform(p) PROVE EndInv'
  BY <1>1, <1>4 DEF Perform, Report, EndInv
<1>5. ASSUME NEW p \in Procs, Proceed(p) PROVE EndInv'
  BY <1>1, <1>5 DEF Proceed, Report, EndInv
<1>6. ASSUME NEW p \in Procs, Signal(p) PROVE EndInv'
  BY <1>1, <1>6 DEF Signal, Report, EndInv
<1>7. ASSUME NEW p \in Procs, Kill(p) PROVE EndInv'
  BY <1>1, <1>7 DEF Kill, Report, EndInv
<1> QED BY <1>2, <1>3, <1>4, <1>5, <1>6, <1>7 DEF KernelStep

LEMMA MonitorTakesEnds == MInv /\ EndInv /\ MonitorStep => EndInv'
<1> SUFFICES ASSUME MInv, EndInv, MonitorStep PROVE EndInv'
  OBVIOUS
<1>1. state \in [Procs -> States] /\ cur \in Procs /\ Target \in Procs
  BY TargetAssumption DEF MInv, TypeInv
<1>2. ASSUME NEW p \in Procs, Take(p) PROVE EndInv'
  BY <1>1, <1>2 DEF Take, EndInv
<1>3. ASSUME NEW p \in Procs, Continue(p), unreported' = unreported PROVE EndInv'
  BY <1>1, <1>3, ContinueEndsNobody DEF EndInv
<1>4. ASSUME UNCHANGED <<state, unreported>> PROVE EndInv'
  BY <1>4 DEF EndInv
<1>5. CASE Leave
  <2>1. \A p \in Procs : state'[p] # "zombie"
    BY <1>5 DEF Leave, Outside
  <2> QED BY <2>1 DEF EndInv
<1>6. CASE FirstWait \/ Wait
  BY <1>1, <1>2, <1>4, <1>6 DEF FirstWait, Wait
<1>7. CASE FirstResume \/ GotStop \/ Resume
  BY <1>1, <1>3, <1>7 DEF FirstResume, GotStop, Resume
<1>8. CASE Start \/ SetOptions \/ Loop \/ GotDeath \/ ag_monitor_handle_syscall
  BY <1>4, <1>8 DEF Start, SetOptions, Loop, GotDeath, ag_monitor_handle_syscall
<1> QED BY <1>5, <1>6, <1>7, <1>8 DEF MonitorStep

LEMMA StepEndInv == MInv /\ EndInv /\ [Next]_vars => EndInv'
<1> SUFFICES ASSUME MInv, EndInv, [Next]_vars PROVE EndInv'
  OBVIOUS
<1>1. CASE HandlerStep \/ ShutdownSignal
  <2>1. state \in [Procs -> States]
    BY DEF MInv, TypeInv
  <2>2. CASE HandlerReaps
    BY <2>1, <2>2 DEF HandlerReaps, EndInv
  <2>3. CASE HandlerStarts \/ HandlerReturns \/ ShutdownSignal
    BY <2>3 DEF HandlerStarts, HandlerReturns, ShutdownSignal, EndInv
  <2> QED BY <1>1, <2>2, <2>3 DEF HandlerStep
<1>2. CASE UNCHANGED vars
  BY <1>2 DEF vars, kernelVars, EndInv
<1> QED BY <1>1, <1>2, KernelReportsEnds, MonitorTakesEnds DEF Next

LEMMA AnsweredInv == MInv /\ EndInv => NeverAllWait
<1> SUFFICES ASSUME MInv, EndInv, pc # "done", stolen = {},
                    \A p \in Procs : state[p] \notin Moving
             PROVE  CanStep
  BY DEF NeverAllWait
<1>1. \A p \in Procs : p \in unreported \/ Handling(p) \/ state[p] \in Outside
  <2> SUFFICES ASSUME NEW p \in Procs PROVE p \in unreported \/ Handling(p) \/ state[p] \in Outside
    OBVIOUS
  <2>1. state[p] \in States
    BY DEF MInv, TypeInv
  <2>2. Stopped(p) \/ state[p] = "zombie" \/ state[p] \in Outside
    BY <2>1 DEF States, Stopped
  <2> QED BY <2>2 DEF MInv, NoStopForgotten, EndInv
<1>2. CASE pc \in {"wait", "first_wait"}
  <2>1. \A p \in Procs : p \in unreported \/ state[p] \in Outside
    BY <1>1, <1>2 DEF Handling
  <2> QED BY <1>2, <2>1, TargetAssumption DEF CanStep
<1>3. CASE pc \notin {"wait", "first_wait"}
  BY <1>3 DEF MInv, TypeInv, StatusInv, CanStep, Early, Late
<1> QED BY <1>2, <1>3

\* The loop, its handler and the processes are never all waiting for each
\* other: while the handler has taken no stop and no process is on the move,
\* the loop can take its next step, whatever was forked, signalled and killed.
THEOREM NeverAllWaiting == Spec => []NeverAllWait
<1>1. Init => EndInv
  BY DEF Init, EndInv
<1>2. Spec => []EndInv
  BY <1>1, StepEndInv, MonitorInvariant, PTL DEF Spec
<1>3. MInv /\ EndInv => NeverAllWait
  BY AnsweredInv
<1> QED BY <1>2, <1>3, MonitorInvariant, PTL

-----------------------------------------------------------------------------
(* The counters.  Every refused call is pending, until it is settled: a step *)
(* leaves the pending calls alone, settles one, or replaces one more.        *)

RuleInv == \A p \in Procs : Replaced(p) => Rule(p) \in Reasons

CountTypeInv ==
    /\ block_count \in Nat /\ blocked \in [Counters -> Nat] /\ refused \in [Reasons -> Nat]
    /\ entry_count \in Nat /\ total_entries \in Nat

\* The ring of the audit log is filled up to its capacity.
LogInv ==
    /\ entry_count = IF total_entries <= AG_MAX_LOG_ENTRIES THEN total_entries
                                                            ELSE AG_MAX_LOG_ENTRIES
    /\ ~circular => total_entries <= AG_MAX_LOG_ENTRIES

CInv == CountTypeInv /\ RuleInv /\ LogInv /\ BlocksCountedOnce /\ AuditTellsEveryBlock

LEMMA RuleType == \A n, c : BlockedBy(n, c) \in Reasons \cup {"none"}
BY DEF BlockedBy, Reasons, Counters

LEMMA PendingIsFinite == \A r : IsFiniteSet(Pending(r)) /\ Cardinality(Pending(r)) \in Nat
<1>. SUFFICES ASSUME NEW r PROVE IsFiniteSet(Pending(r)) /\ Cardinality(Pending(r)) \in Nat
  OBVIOUS
<1>1. Pending(r) \in SUBSET Procs
  BY DEF Pending
<1>. QED
  BY <1>1, TargetAssumption, FS_Subset, FS_CardinalityType

LEMMA InitCInv == Init => CInv
<1> SUFFICES ASSUME Init PROVE CInv
  OBVIOUS
<1>1. \A p \in Procs : ~Replaced(p)
  BY DEF Init, Replaced
<1>2. \A r : Pending(r) = {}
  BY <1>1 DEF Pending
<1>3. \A r \in Reasons : Refused(r) = 0
  BY <1>2, FS_EmptySet DEF Init, Refused
<1>4. CountTypeInv /\ RuleInv /\ LogInv
  BY <1>1, CapacityAssumption DEF Init, ag_audit_init, CountTypeInv, RuleInv, LogInv
<1>5. BlocksCountedOnce /\ AuditTellsEveryBlock
  BY <1>3, CapacityAssumption
     DEF Init, ag_audit_init, BlocksCountedOnce, AuditTellsEveryBlock, RefusedAudited,
         Reasons, Counters
<1>. QED
  BY <1>4, <1>5 DEF CInv

\* A step that changes no number of refused calls and no counter.
LEMMA SameCounts ==
    ASSUME CInv, \A r \in Reasons : Refused(r)' = Refused(r), refused' \in [Reasons -> Nat],
           RuleInv', UNCHANGED <<block_count, blocked, auditVars>>
    PROVE  CInv'
BY DEF CInv, CountTypeInv, LogInv, BlocksCountedOnce, AuditTellsEveryBlock, RefusedAudited,
   Reasons, Counters, auditVars

\* The processes whose call is replaced are the same, and so are the calls.
SamePending ==
    \A p \in Procs : /\ Replaced(p)' <=> Replaced(p)
                     /\ Replaced(p) => call'[p] = call[p]

LEMMA SamePendingKeeps ==
    ASSUME CInv, SamePending, UNCHANGED <<refused, block_count, blocked, auditVars>>
    PROVE  CInv'
<1>1. \A r : Pending(r)' = Pending(r)
  BY DEF SamePending, Pending, Rule
<1>2. \A r \in Reasons : Refused(r)' = Refused(r)
  BY <1>1 DEF Refused
<1>3. RuleInv'
  BY DEF CInv, RuleInv, SamePending, Rule
<1>. QED
  BY <1>2, <1>3, SameCounts DEF CInv, CountTypeInv

\* A replaced call of p is settled.
LEMMA SettledKeeps ==
    ASSUME CInv, NEW p \in Procs, Settle(p), ~Replaced(p)',
           \A q \in Procs \ {p} : Replaced(q)' <=> Replaced(q),
           UNCHANGED <<call, block_count, blocked, auditVars>>
    PROVE  CInv'
<1>1. CASE ~Replaced(p)
  <2>1. SamePending /\ UNCHANGED refused
    BY <1>1 DEF SamePending, Settle
  <2>. QED
    BY <2>1, SamePendingKeeps
<1>2. CASE Replaced(p)
  <2>1. /\ refused' = [refused EXCEPT ![Rule(p)] = @ + 1]
        /\ Rule(p) \in Reasons /\ refused \in [Reasons -> Nat]
    BY <1>2 DEF Settle, CInv, RuleInv, CountTypeInv
  <2>2. \A r : Pending(r)' = IF r = Rule(p) THEN Pending(r) \ {p} ELSE Pending(r)
    BY <1>2 DEF Pending, Rule
  <2>3. p \in Pending(Rule(p))
    BY <1>2 DEF Pending
  <2>4. /\ Cardinality(Pending(Rule(p)) \ {p}) = Cardinality(Pending(Rule(p))) - 1
        /\ \A r : Cardinality(Pending(r)) \in Nat
    BY <2>3, PendingIsFinite, FS_RemoveElement
  <2>5. ASSUME NEW r \in Reasons PROVE Refused(r)' = Refused(r)
    <3>1. /\ refused[r] \in Nat
          /\ refused'[r] = IF r = Rule(p) THEN refused[r] + 1 ELSE refused[r]
      BY <2>1
    <3>2. Cardinality(Pending(r)') =
             IF r = Rule(p) THEN Cardinality(Pending(r)) - 1 ELSE Cardinality(Pending(r))
      BY <2>2, <2>4
    <3>3. Refused(r)' = refused'[r] + Cardinality(Pending(r)') /\ Cardinality(Pending(r)) \in Nat
      BY <2>4 DEF Refused
    <3>. QED
      BY <3>1, <3>2, <3>3 DEF Refused
  <2>6. refused' \in [Reasons -> Nat]
    BY <2>1
  <2>7. RuleInv'
    BY DEF CInv, RuleInv, Rule
  <2>. QED
    BY <2>5, <2>6, <2>7, SameCounts
<1>. QED
  BY <1>1, <1>2

\* The call of p is replaced under rule r: one more pending, counted and audited.
LEMMA ReplacedKeeps ==
    ASSUME CInv, NEW p \in Procs, ~Replaced(p), Replaced(p)', Rule(p) \in Reasons,
           \A q \in Procs \ {p} : Replaced(q)' <=> Replaced(q),
           UNCHANGED <<call, refused>>, block_count' = block_count + 1,
           blocked' = [k \in Counters |-> blocked[k] + IF k = Rule(p) THEN 1 ELSE 0],
           AuditBlock(Rule(p))
    PROVE  CInv'
<1> DEFINE rule == Rule(p)
<1>1. /\ rule \in Reasons /\ refused \in [Reasons -> Nat] /\ blocked \in [Counters -> Nat]
      /\ block_count \in Nat
  BY DEF CInv, CountTypeInv
<1>2. \A r : Pending(r)' = IF r = rule THEN Pending(r) \cup {p} ELSE Pending(r)
  BY DEF Pending, Rule
<1>3. p \notin Pending(rule)
  BY DEF Pending
<1>. HIDE DEF rule
<1>4. /\ Cardinality(Pending(rule) \cup {p}) = Cardinality(Pending(rule)) + 1
      /\ \A r : Cardinality(Pending(r)) \in Nat
  BY <1>3, PendingIsFinite, FS_AddElement
<1>5. ASSUME NEW r \in Reasons
      PROVE  Refused(r) \in Nat /\ Refused(r)' = IF r = rule THEN Refused(r) + 1 ELSE Refused(r)
  <2>1. refused[r] \in Nat /\ refused' = refused
    BY <1>1
  <2>2. Cardinality(Pending(r)') =
           IF r = rule THEN Cardinality(Pending(r)) + 1 ELSE Cardinality(Pending(r))
    BY <1>2, <1>4
  <2>3. Refused(r)' = refused[r] + Cardinality(Pending(r)') /\ Cardinality(Pending(r)) \in Nat
    BY <1>4, <2>1 DEF Refused
  <2>. QED
    BY <2>1, <2>2, <2>3 DEF Refused
<1>6. /\ RefusedAudited \in Nat
      /\ RefusedAudited' = RefusedAudited + (IF rule = "signal" THEN 0 ELSE 1)
  BY <1>1, <1>5 DEF RefusedAudited, Reasons, Counters
<1>7. BlocksCountedOnce'
  <2>1. \A k \in Counters : blocked'[k] = Refused(k)'
    BY <1>1, <1>5 DEF CInv, BlocksCountedOnce, Reasons, rule
  <2>2. "signal" \in Reasons
    BY DEF Reasons
  <2>3. block_count' = RefusedAudited' + Refused("signal")'
    BY <1>1, <1>5, <1>6, <2>2 DEF CInv, BlocksCountedOnce
  <2>. QED
    BY <2>1, <2>3 DEF BlocksCountedOnce
<1>8. /\ total_entries \in Nat /\ entry_count \in Nat /\ AG_MAX_LOG_ENTRIES \in Nat
      /\ total_entries = IF circular \/ RefusedAudited <= AG_MAX_LOG_ENTRIES
                           THEN RefusedAudited ELSE AG_MAX_LOG_ENTRIES
      /\ alert_count = total_entries
      /\ entry_count = IF total_entries <= AG_MAX_LOG_ENTRIES THEN total_entries
                                                              ELSE AG_MAX_LOG_ENTRIES
      /\ ~circular => total_entries <= AG_MAX_LOG_ENTRIES
  BY CapacityAssumption DEF CInv, CountTypeInv, LogInv, AuditTellsEveryBlock
<1>9. CASE rule = "signal"
  <2>1. UNCHANGED auditVars
    BY <1>9 DEF AuditBlock, rule
  <2>. QED
    BY <1>1, <1>6, <1>7, <1>8, <1>9, <2>1
       DEF CInv, CountTypeInv, RuleInv, Rule, LogInv, AuditTellsEveryBlock, auditVars
<1>10. CASE rule # "signal"
  <2>1. PICK severity \in {AG_SEV_HIGH, AG_SEV_CRITICAL} : ag_audit_add(severity)
    BY <1>10 DEF AuditBlock, rule
  <2>2. severity >= AG_SEV_HIGH
    BY DEF AG_SEV_HIGH, AG_SEV_CRITICAL
  <2>3. UNCHANGED circular
    BY <2>1 DEF ag_audit_add, auditVars
  <2>4. CASE LogFull
    <3>1. UNCHANGED auditVars
      BY <2>1, <2>4 DEF ag_audit_add
    <3>2. AuditTellsEveryBlock' /\ LogInv' /\ CountTypeInv'
      BY <1>1, <1>6, <1>8, <1>10, <2>4, <3>1
         DEF LogFull, AuditTellsEveryBlock, LogInv, CountTypeInv, auditVars
    <3>. QED
      BY <1>7, <3>2 DEF CInv, RuleInv, Rule
  <2>5. CASE ~LogFull
    <3>1. /\ total_entries' = total_entries + 1 /\ alert_count' = alert_count + 1
          /\ entry_count' = IF entry_count < AG_MAX_LOG_ENTRIES THEN entry_count + 1
                                                                ELSE entry_count
      BY <2>1, <2>2, <2>5 DEF ag_audit_add, MoveTail
    <3>2. AuditTellsEveryBlock' /\ LogInv'
      BY <1>6, <1>8, <1>10, <2>3, <2>5, <3>1 DEF LogFull, AuditTellsEveryBlock, LogInv
    <3>3. CountTypeInv'
      BY <1>1, <1>8, <3>1 DEF CountTypeInv
    <3>. QED
      BY <1>7, <3>2, <3>3 DEF CInv, RuleInv, Rule
  <2>. QED
    BY <2>4, <2>5
<1>. QED
  BY <1>9, <1>10

LEMMA KernelCounts == MInv /\ CInv /\ KernelStep => CInv'
<1> SUFFICES ASSUME MInv, CInv, KernelStep PROVE CInv'
  OBVIOUS
<1>1. /\ UNCHANGED <<block_count, blocked, auditVars>>
      /\ state \in [Procs -> States] /\ Target \in Procs
      /\ call \in [Procs -> Calls \cup {NoCall}] /\ nr \in [Procs -> Numbers]
  BY TargetAssumption DEF MInv, TypeInv, KernelStep, RaiseSigstop, EnterCall, Perform, Proceed,
     Signal, Kill, KernelOnly
<1>2. CASE RaiseSigstop
  <2>. SamePending /\ UNCHANGED refused
    BY <1>1, <1>2 DEF RaiseSigstop, SamePending, Replaced, ghostVars
  <2>. QED
    BY <1>1, SamePendingKeeps
<1>3. ASSUME NEW p \in Procs, NEW c \in Calls, EnterCall(p, c) PROVE CInv'
  <2>. SamePending /\ UNCHANGED refused
    BY <1>1, <1>3 DEF EnterCall, SamePending, Replaced, ghostVars
  <2>. QED
    BY <1>1, SamePendingKeeps
<1>4. ASSUME NEW p \in Procs, Perform(p) PROVE CInv'
  <2>1. state[p] = "inside" /\ Settle(p) /\ UNCHANGED <<call, nr>>
    BY <1>4 DEF Perform
  <2>2. /\ state'[p] \in {"event", "ending", "exit"}
        /\ \A q \in Procs \ {p} :
              state'[q] = state[q] \/ (state[q] = "absent" /\ state'[q] = "sigstop")
    BY <1>1, <1>4, <2>1 DEF Perform
  <2>3. ~Replaced(p)' /\ \A q \in Procs \ {p} : Replaced(q)' <=> Replaced(q)
    BY <2>1, <2>2 DEF Replaced
  <2>. QED
    BY <1>1, <2>1, <2>3, SettledKeeps
<1>5. ASSUME NEW p \in Procs, Proceed(p) PROVE CInv'
  <2>1. PICK step \in {<<"returning", "exit">>, <<"doomed", "ending">>, <<"dying", "zombie">>} :
           state[p] = step[1] /\ state' = [state EXCEPT ![p] = step[2]]
    BY <1>5 DEF Proceed
  <2>. SamePending /\ UNCHANGED refused
    BY <1>1, <1>5, <2>1 DEF Proceed, SamePending, Replaced, ghostVars
  <2>. QED
    BY <1>1, SamePendingKeeps
<1>6. ASSUME NEW p \in Procs, Signal(p) PROVE CInv'
  <2>. SamePending /\ UNCHANGED refused
    BY <1>1, <1>6 DEF Signal, SamePending, Replaced, ghostVars
  <2>. QED
    BY <1>1, SamePendingKeeps
<1>7. ASSUME NEW p \in Procs, Kill(p) PROVE CInv'
  <2>1. /\ Settle(p) /\ UNCHANGED <<call, nr>>
        /\ state' = [state EXCEPT ![p] = "zombie"]
    BY <1>7 DEF Kill
  <2>2. ~Replaced(p)' /\ \A q \in Procs \ {p} : Replaced(q)' <=> Replaced(q)
    BY <1>1, <2>1 DEF Replaced
  <2>. QED
    BY <1>1, <2>1, <2>2, SettledKeeps
<1>. QED
  BY <1>2, <1>3, <1>4, <1>5, <1>6, <1>7 DEF KernelStep

LEMMA HandlerCounts == MInv /\ CInv /\ (HandlerStep \/ ShutdownSignal) => CInv'
<1> SUFFICES ASSUME MInv, CInv, HandlerStep \/ ShutdownSignal PROVE CInv'
  OBVIOUS
<1>1. UNCHANGED <<call, nr, refused, block_count, blocked, auditVars>>
  BY DEF HandlerStep, HandlerStarts, HandlerReaps, HandlerReturns, ShutdownSignal, HandlerOnly
<1>2. state \in [Procs -> States] /\ unreported \subseteq Procs
  BY DEF MInv, TypeInv
<1>3. \A p \in Procs : \/ state'[p] = state[p]
                       \/ state[p] = "zombie" /\ state'[p] = "gone"
  BY <1>2 DEF HandlerStep, HandlerStarts, HandlerReaps, HandlerReturns, ShutdownSignal
<1>4. SamePending
  BY <1>1, <1>3 DEF SamePending, Replaced
<1>. QED
  BY <1>1, <1>4, SamePendingKeeps

LEMMA SyscallCounts == MInv /\ CInv /\ ag_monitor_handle_syscall => CInv'
<1> SUFFICES ASSUME MInv, CInv, ag_monitor_handle_syscall PROVE CInv'
  OBVIOUS
<1>0. PICK p \in Procs : p = cur
  BY DEF MInv, TypeInv
<1> DEFINE rule == BlockedBy(nr[p], call[p])
<1>1. /\ pc = "got" /\ status = "syscall" /\ p = cur /\ nr \in [Procs -> Numbers]
      /\ UNCHANGED <<state, call, refused>>
  BY <1>0 DEF MInv, TypeInv, ag_monitor_handle_syscall, MonitorOnly, ghostVars
<1>2. CASE ~(Stopped(p) /\ rule # "none")
  <2>1. UNCHANGED <<nr, block_count, blocked, auditVars>>
    BY <1>1, <1>2 DEF ag_monitor_handle_syscall, Number
  <2>2. SamePending
    BY <1>1, <2>1 DEF SamePending, Replaced
  <2>. QED
    BY <1>1, <2>1, <2>2, SamePendingKeeps
<1>3. CASE Stopped(p) /\ rule # "none"
  <2>1. /\ block_count' = block_count + 1
        /\ blocked' = [k \in Counters |-> blocked[k] + IF k = rule THEN 1 ELSE 0]
        /\ nr' = [nr EXCEPT ![p] = "getpid"]
        /\ AuditBlock(rule)
    BY <1>1, <1>3 DEF ag_monitor_handle_syscall, Number, Replace
  <2>2. state[p] = "entry"
    <3>1. state[p] \in {"entry", "exit"}
      BY <1>1, <1>3 DEF MInv, StatusInv, Stopped, Stops
    <3>2. state[p] # "exit"
      BY <1>1, <1>3 DEF MInv, AllowedInv, Allowed
    <3>. QED
      BY <3>1, <3>2
  <2>3. nr[p] = call[p].nr
    BY <1>1, <2>2 DEF MInv, EntryInv
  <2>4. Rule(p) = rule /\ rule \in Reasons
    BY <1>3, <2>3, RuleType DEF Rule
  <2>5. ~Replaced(p)
    BY <2>3 DEF Replaced
  <2>6. nr'[p] # call[p].nr
    BY <1>1, <1>3, <2>1, <2>3, GetpidIsAllowed
  <2>7. Replaced(p)'
    BY <1>1, <2>2, <2>6 DEF Replaced
  <2>8. \A q \in Procs \ {p} : Replaced(q)' <=> Replaced(q)
    BY <1>1, <2>1 DEF Replaced
  <2>. HIDE DEF rule
  <2>. QED
    BY <1>1, <2>1, <2>4, <2>5, <2>7, <2>8, ReplacedKeeps
<1>. QED
  BY <1>2, <1>3

LEMMA LeaveCounts == MInv /\ CInv /\ Leave => CInv'
<1> SUFFICES ASSUME MInv, CInv, Leave PROVE CInv'
  OBVIOUS
<1>1. /\ refused' = [r \in Reasons |-> Refused(r)]
      /\ state' \in [Procs -> Outside]
      /\ UNCHANGED <<block_count, blocked, auditVars>>
  BY DEF Leave, Outside
<1>2. \A p \in Procs : ~Replaced(p)'
  BY <1>1 DEF Replaced, Outside
<1>3. \A r : Pending(r)' = {}
  BY <1>2 DEF Pending
<1>4. \A r \in Reasons : Refused(r) \in Nat
  BY PendingIsFinite DEF CInv, CountTypeInv, Refused
<1>5. ASSUME NEW r \in Reasons PROVE Refused(r)' = Refused(r)
  <2>1. Refused(r)' = refused'[r] + Cardinality({})
    BY <1>3 DEF Refused
  <2>. QED
    BY <1>1, <1>4, <2>1, FS_EmptySet
<1>6. RuleInv'
  BY <1>2 DEF RuleInv
<1>. QED
  BY <1>1, <1>4, <1>5, <1>6, SameCounts

LEMMA MonitorCounts == MInv /\ CInv /\ MonitorStep => CInv'
<1> SUFFICES ASSUME MInv, CInv, MonitorStep PROVE CInv'
  OBVIOUS
<1>1. CASE ag_monitor_handle_syscall \/ Leave
  BY <1>1, SyscallCounts, LeaveCounts
<1>2. CASE Start \/ FirstWait \/ SetOptions \/ FirstResume \/ Loop \/ Wait \/ GotDeath
           \/ GotStop \/ Resume
  <2>1. UNCHANGED <<call, nr, refused, block_count, blocked, auditVars>>
    BY <1>2 DEF Start, FirstWait, SetOptions, FirstResume, Loop, Wait, GotDeath, GotStop, Resume,
       MonitorOnly, ghostVars
  <2>2. /\ state \in [Procs -> States] /\ unreported \subseteq Procs
        /\ cur \in Procs /\ Target \in Procs
    BY TargetAssumption DEF MInv, TypeInv
  <2>3. \/ state' = state
        \/ \E p \in Procs : Take(p)
        \/ \E p \in Procs : Continue(p)
    BY <1>2, <2>2
       DEF Start, FirstWait, SetOptions, FirstResume, Loop, Wait, GotDeath, GotStop, Resume
  <2>4. CASE state' = state
    BY <2>1, <2>4, SamePendingKeeps DEF SamePending, Replaced
  <2>5. ASSUME NEW p \in Procs, Take(p) PROVE CInv'
    <3>1. SamePending
      BY <2>1, <2>2, <2>5 DEF Take, SamePending, Replaced
    <3>. QED
      BY <2>1, <3>1, SamePendingKeeps
  <2>6. ASSUME NEW p \in Procs, Continue(p) PROVE CInv'
    <3>1. PICK s \in Resumed(state[p]) : state' = [state EXCEPT ![p] = s]
      BY <2>6 DEF Continue
    <3>2. s \in {"entry", "inside"} <=> state[p] \in {"entry", "inside"}
      BY <3>1 DEF Resumed
    <3>3. SamePending
      BY <2>1, <2>2, <3>1, <3>2 DEF SamePending, Replaced
    <3>. QED
      BY <2>1, <3>3, SamePendingKeeps
  <2>. QED
    BY <2>3, <2>4, <2>5, <2>6
<1>. QED
  BY <1>1, <1>2 DEF MonitorStep

LEMMA StepCInv == MInv /\ CInv /\ [Next]_vars => CInv'
<1> SUFFICES ASSUME MInv, CInv, [Next]_vars PROVE CInv'
  OBVIOUS
<1>1. CASE UNCHANGED vars
  <2>1. UNCHANGED <<state, call, nr, refused, block_count, blocked, auditVars>>
    BY <1>1 DEF vars, monitorVars, kernelVars, ghostVars
  <2>2. SamePending
    BY <2>1 DEF SamePending, Replaced
  <2>. QED
    BY <2>1, <2>2, SamePendingKeeps
<1>. QED
  BY <1>1, KernelCounts, MonitorCounts, HandlerCounts DEF Next

\* The counters and the audit log agree with the refused calls.
LEMMA CountInvariant == Spec => []CInv
<1>1. Init => CInv
  BY InitCInv
<1>2. MInv /\ CInv /\ [Next]_vars => CInv'
  BY StepCInv
<1>. QED
  BY <1>1, <1>2, MonitorInvariant, PTL DEF Spec

\* For any processes and interleaving a blocked call is counted once.
THEOREM BlocksAreCountedOnce == Spec => []BlocksCountedOnce
<1>1. CInv => BlocksCountedOnce
  BY DEF CInv
<1>. QED
  BY <1>1, CountInvariant, PTL

\* For any size of the log it tells every refused call but those of kill.
THEOREM AuditTellsBlocks == Spec => []AuditTellsEveryBlock
<1>1. CInv => AuditTellsEveryBlock
  BY DEF CInv
<1>. QED
  BY <1>1, CountInvariant, PTL

RestInv ==
    /\ mode \in {"launch", "pid"} /\ status \in {"none", "dead", "stop", "syscall"}
    /\ sigchld \in BOOLEAN /\ inHandler \in BOOLEAN
    /\ stolen \subseteq Procs
    /\ callsMade \in 0..MaxCalls /\ signals \in 0..MaxSignals

LEMMA StepRestInv == MInv /\ RestInv /\ [Next]_vars => RestInv'
<1> SUFFICES ASSUME MInv, RestInv, [Next]_vars PROVE RestInv'
  OBVIOUS
<1>1. MaxCalls \in Nat /\ MaxSignals \in Nat /\ unreported \subseteq Procs
  BY BoundsAssumption DEF MInv, TypeInv
<1>2. CASE UNCHANGED vars
  BY <1>2 DEF RestInv, vars, monitorVars, kernelVars, ghostVars
<1>3. CASE HandlerStep \/ ShutdownSignal
  BY <1>1, <1>3 DEF RestInv, HandlerStep, HandlerStarts, HandlerReaps, HandlerReturns,
     ShutdownSignal, HandlerOnly
<1>4. CASE MonitorStep
  <2>1. UNCHANGED <<mode, sigchld, inHandler, callsMade, signals, stolen>>
    BY <1>4 DEF MonitorStep, Start, FirstWait, SetOptions, FirstResume, Loop, Wait, GotDeath,
       GotStop, ag_monitor_handle_syscall, Resume, Leave, MonitorOnly, ghostVars
  <2>2. status' = status \/ \E p \in Procs : Take(p)
    BY <1>4, TargetAssumption DEF MonitorStep, Start, FirstWait, SetOptions, FirstResume, Loop,
       Wait, GotDeath, GotStop, ag_monitor_handle_syscall, Resume, Leave
  <2>3. status' \in {"none", "dead", "stop", "syscall"}
    BY <2>2 DEF Take, RestInv
  <2>. QED
    BY <2>1, <2>3 DEF RestInv
<1>5. CASE KernelStep
  <2>1. UNCHANGED <<mode, status, inHandler>> /\ sigchld' = TRUE
    BY <1>5 DEF KernelStep, RaiseSigstop, EnterCall, Perform, Proceed, Signal, Kill,
       KernelOnly, Report
  <2>2. stolen' \subseteq stolen
    BY <1>5 DEF KernelStep, RaiseSigstop, EnterCall, Perform, Proceed, Signal, Kill, ghostVars
  <2>3. callsMade' \in 0..MaxCalls
    BY <1>1, <1>5 DEF KernelStep, RaiseSigstop, EnterCall, Perform, Proceed, Signal, Kill, RestInv
  <2>4. signals' \in 0..MaxSignals
    BY <1>1, <1>5 DEF KernelStep, RaiseSigstop, EnterCall, Perform, Proceed, Signal, Kill, RestInv
  <2>. QED
    BY <2>1, <2>2, <2>3, <2>4 DEF RestInv
<1>. QED
  BY <1>2, <1>3, <1>4, <1>5 DEF Next

\* For any processes and calls every variable of the monitor keeps its type.
THEOREM MonitorTypeCorrect == Spec => []MonitorTypeOK
<1>1. Init => RestInv
  <2>1. 0 \in 0..MaxCalls /\ 0 \in 0..MaxSignals
    BY BoundsAssumption
  <2>. QED
    BY <2>1 DEF Init, RestInv
<1>2. MInv /\ CInv /\ RestInv => MonitorTypeOK
  BY DEF MInv, CInv, RestInv, CountTypeInv, TypeInv, ShutdownInv, AllowedInv, BlockedCallsNeverRun,
     MonitorTypeOK, States, Early, Late
<1>. QED
  BY <1>1, <1>2, StepRestInv, MonitorInvariant, CountInvariant, PTL DEF Spec

-----------------------------------------------------------------------------
(***************************************************************************)
(* The ring of audit.c implements AuditTrail for every capacity.  Once     *)
(* RingShape is known, % only ever wraps once and disappears.              *)
(***************************************************************************)
N == AG_MAX_LOG_ENTRIES

LEMMA WrapOnce ==
    ASSUME NEW x \in 0..(2 * N - 1)
    PROVE  x % N = IF x < N THEN x ELSE x - N
<1>1. N \in Nat \ {0}
  BY CapacityAssumption DEF N
<1>2. CASE x < N
  BY <1>1, <1>2
<1>3. CASE x >= N
  BY <1>1, <1>3
<1>4. QED
  BY <1>1, <1>2, <1>3

AInv == AuditTypeOK /\ RingShape /\ RingAgreesWithFile /\ entry_count <= total_entries

Entries == [id : Nat \cup {-1}, severity : Severities]

\* The slot of the i-th oldest entry.
Place(i) == IF tail + i - 1 < N THEN tail + i - 1 ELSE tail + i - 1 - N

LEMMA Capacity == N \in Nat \ {0}
BY CapacityAssumption DEF N

LEMMA PlaceIs ==
    ASSUME AuditTypeOK, NEW i \in 1..entry_count
    PROVE  /\ (tail + i - 1) % AG_MAX_LOG_ENTRIES = Place(i)
           /\ Place(i) \in Slots
<1>1. entry_count \in 0..N /\ tail \in 0..(N - 1)
  BY Capacity DEF N, AuditTypeOK, Slots
<1> DEFINE x == tail + i - 1
<1>2. x \in 0..(2 * N - 1)
  BY <1>1, Capacity
<1>3. Place(i) = IF x < N THEN x ELSE x - N
  BY <1>1, <1>2, Capacity DEF Place
<1>4. (tail + i - 1) % AG_MAX_LOG_ENTRIES = x % N
  BY <1>1, <1>2, Capacity DEF N
<1> HIDE DEF x
<1>5. x % N = IF x < N THEN x ELSE x - N
  BY <1>2, WrapOnce
<1>6. (IF x < N THEN x ELSE x - N) \in 0..(N - 1)
  BY <1>2, Capacity
<1>7. Slots = 0..(N - 1)
  BY DEF Slots, N
<1>8. QED
  BY <1>3, <1>4, <1>5, <1>6, <1>7

RecentShape ==
    /\ Recent = [i \in 1..entry_count |-> entries[Place(i)]]
    /\ Recent \in Seq(Entries)
    /\ Len(Recent) = entry_count
    /\ DOMAIN Recent = 1..entry_count

LEMMA RecentValue == AuditTypeOK => RecentShape
<1> SUFFICES ASSUME AuditTypeOK PROVE RecentShape
  OBVIOUS
<1>1. Recent = [i \in 1..entry_count |-> entries[Place(i)]]
  BY PlaceIs DEF Recent
<1>2. entry_count \in Nat
  BY Capacity DEF AuditTypeOK, N
<1>3. \A i \in 1..entry_count : entries[Place(i)] \in Entries
  BY PlaceIs DEF AuditTypeOK, Entries
<1>4. Recent \in [1..entry_count -> Entries]
  BY <1>1, <1>3
<1>5. Recent \in Seq(Entries)
  BY <1>2, <1>4
<1>6. QED
  BY <1>1, <1>2, <1>4, <1>5 DEF RecentShape

New(severity) == [id |-> total_entries, severity |-> severity]

\* What an accepted entry does to each index.
LEMMA Accepted ==
    ASSUME AuditTypeOK, RingShape, NEW severity \in Severities,
           ag_audit_add(severity), ~LogFull
    PROVE  /\ head' = IF head + 1 < N THEN head + 1 ELSE 0
           /\ entry_count' = IF entry_count < N THEN entry_count + 1 ELSE N
           /\ tail' = IF entry_count < N THEN 0 ELSE head'
           /\ entries' \in [Slots -> Entries]
           /\ \A p \in Slots : entries'[p] = IF p = head THEN New(severity) ELSE entries[p]
           /\ AuditTypeOK'
           /\ RingShape'
<1>1. /\ N \in Nat \ {0} /\ head \in 0..(N - 1) /\ tail \in 0..(N - 1)
      /\ entry_count \in 0..N /\ total_entries \in Nat
  BY Capacity DEF AuditTypeOK, Slots, N
<1>2. /\ entries' = [entries EXCEPT ![head] = New(severity)]
      /\ total_entries' = total_entries + 1
      /\ log_file' = IF log_fd THEN Append(log_file, total_entries) ELSE log_file
      /\ head' = NextSlot(head)
      /\ MoveTail
      /\ alert_count' = alert_count + (IF severity >= AG_SEV_HIGH THEN 1 ELSE 0)
      /\ circular' = circular /\ log_fd' = log_fd
  BY DEF ag_audit_add, New
<1>3. ASSUME NEW p \in 0..(N - 1)
      PROVE  NextSlot(p) = IF p + 1 < N THEN p + 1 ELSE 0
  <2> DEFINE x == p + 1
  <2>1. x \in 0..(2 * N - 1)
    BY <1>1, <1>3
  <2>2. NextSlot(p) = x % N
    BY DEF NextSlot, N
  <2> HIDE DEF x
  <2>3. x % N = IF x < N THEN x ELSE x - N
    BY <2>1, WrapOnce
  <2>4. x = p + 1
    BY DEF x
  <2>5. QED
    BY <1>1, <1>3, <2>2, <2>3, <2>4
<1>4. head' = IF head + 1 < N THEN head + 1 ELSE 0
  BY <1>1, <1>2, <1>3
<1>5. /\ entry_count' = IF entry_count < N THEN entry_count + 1 ELSE N
      /\ tail' = IF entry_count < N THEN 0 ELSE head'
  <2>1. CASE entry_count < N
    BY <1>1, <1>2, <2>1 DEF MoveTail, RingShape, N
  <2>2. CASE entry_count = N
    BY <1>1, <1>2, <2>2 DEF MoveTail, RingShape, N
  <2>3. QED
    BY <1>1, <2>1, <2>2
<1>6. New(severity) \in Entries
  BY <1>1 DEF New, Entries
<1>7. entries \in [Slots -> Entries] /\ head \in Slots
  BY DEF AuditTypeOK, Entries
<1>8. /\ entries' \in [Slots -> Entries]
      /\ \A p \in Slots : entries'[p] = IF p = head THEN New(severity) ELSE entries[p]
  BY <1>2, <1>6, <1>7
<1>9. AuditTypeOK'
  <2>1. entries' \in [Slots -> [id : Nat \cup {-1}, severity : Severities]]
    BY <1>8 DEF Entries
  <2>2. entry_count' \in 0..AG_MAX_LOG_ENTRIES /\ head' \in Slots /\ tail' \in Slots
    BY <1>1, <1>4, <1>5 DEF Slots, N
  <2>3. circular' \in BOOLEAN /\ log_fd' \in BOOLEAN
    BY <1>2 DEF AuditTypeOK
  <2>4. total_entries' \in Nat /\ alert_count' \in Nat
    BY <1>2 DEF AuditTypeOK
  <2>5. log_file' \in Seq(Nat)
    BY <1>1, <1>2 DEF AuditTypeOK
  <2>6. QED
    BY <2>1, <2>2, <2>3, <2>4, <2>5 DEF AuditTypeOK
<1>10. RingShape'
  BY <1>1, <1>4, <1>5 DEF RingShape, N
<1>11. QED
  BY <1>4, <1>5, <1>8, <1>9, <1>10

Kept == IF entry_count < N THEN Recent ELSE Tail(Recent)

\* An accepted entry goes to the end of the list; a full list loses its first.
LEMMA ListGrows ==
    ASSUME AuditTypeOK, RingShape, NEW severity \in Severities,
           ag_audit_add(severity), ~LogFull
    PROVE  /\ Recent' = Append(Kept, New(severity))
           /\ \A i \in 1..entry_count' :
                Recent'[i] = IF i = entry_count' THEN New(severity)
                             ELSE IF entry_count < N THEN Recent[i] ELSE Recent[i + 1]
<1>1. /\ N \in Nat \ {0} /\ head \in 0..(N - 1) /\ tail \in 0..(N - 1)
      /\ entry_count \in 0..N /\ total_entries \in Nat /\ Slots = 0..(N - 1)
  BY Capacity DEF AuditTypeOK, Slots, N
<1>2. /\ head' = IF head + 1 < N THEN head + 1 ELSE 0
      /\ entry_count' = IF entry_count < N THEN entry_count + 1 ELSE N
      /\ tail' = IF entry_count < N THEN 0 ELSE head'
      /\ \A p \in Slots : entries'[p] = IF p = head THEN New(severity) ELSE entries[p]
      /\ AuditTypeOK'
  BY Accepted
<1>3. RecentShape /\ RecentShape'
  BY <1>2, RecentValue, PTL
<1>4. New(severity) \in Entries
  BY <1>1 DEF New, Entries
<1>5. ASSUME NEW i \in 1..entry_count'
      PROVE  Recent'[i] = IF i = entry_count' THEN New(severity)
                          ELSE IF entry_count < N THEN Recent[i] ELSE Recent[i + 1]
  <2>1. CASE entry_count < N
    <3>1. /\ Recent'[i] = entries'[i - 1] /\ i - 1 \in Slots /\ head = entry_count
          /\ i \in 1..entry_count => Recent[i] = entries[i - 1]
      BY <1>1, <1>2, <1>3, <1>5, <2>1 DEF RecentShape, Place, RingShape, N
    <3>2. QED
      BY <1>1, <1>2, <1>5, <2>1, <3>1
  <2>2. CASE entry_count = N
    <3> DEFINE after == IF i < N THEN (IF head + i < N THEN head + i ELSE head + i - N) ELSE head
    <3>1. tail = head /\ entry_count' = N /\ i \in 1..N
      BY <1>1, <1>2, <1>5, <2>2 DEF RingShape, N
    <3>2. after \in Slots /\ (after = head <=> i = N)
      BY <1>1, <3>1
    <3>3. Recent'[i] = entries'[after]
      <4>1. Place(i)' = after
        BY <1>1, <1>2, <2>2, <3>1 DEF Place
      <4>2. Recent'[i] = entries'[Place(i)']
        BY <1>3, <1>5 DEF RecentShape
      <4>3. QED
        BY <4>1, <4>2
    <3>4. i < N => Recent[i + 1] = entries[after]
      BY <1>1, <1>3, <2>2, <3>1 DEF RecentShape, Place
    <3> HIDE DEF after
    <3>5. QED
      BY <1>1, <1>2, <2>2, <3>1, <3>2, <3>3, <3>4
  <2>3. QED
    BY <1>1, <2>1, <2>2
<1>6. /\ Kept \in Seq(Entries) /\ Len(Kept) + 1 = entry_count'
      /\ \A i \in 1..Len(Kept) :
           Kept[i] = IF entry_count < N THEN Recent[i] ELSE Recent[i + 1]
  <2>1. CASE entry_count < N
    BY <1>1, <1>2, <1>3, <2>1 DEF RecentShape, Kept
  <2>2. CASE entry_count = N
    <3>1. Recent # <<>> /\ Recent \in Seq(Entries) /\ Len(Recent) = N
      BY <1>1, <1>3, <2>2 DEF RecentShape
    <3>2. /\ Tail(Recent) \in Seq(Entries) /\ Len(Tail(Recent)) = N - 1
          /\ \A i \in 1..Len(Tail(Recent)) : Tail(Recent)[i] = Recent[i + 1]
      BY <3>1, HeadTailProperties
    <3>3. QED
      BY <1>1, <1>2, <2>2, <3>2 DEF Kept
  <2>3. QED
    BY <1>1, <2>1, <2>2
<1>7. /\ Append(Kept, New(severity)) \in Seq(Entries)
      /\ Len(Append(Kept, New(severity))) = entry_count'
      /\ \A i \in 1..Len(Kept) : Append(Kept, New(severity))[i] = Kept[i]
      /\ Append(Kept, New(severity))[entry_count'] = New(severity)
  <2> DEFINE k == Kept
             e == New(severity)
  <2>1. k \in Seq(Entries) /\ e \in Entries
    BY <1>4, <1>6
  <2>2. Len(k) + 1 = entry_count'
    BY <1>6
  <2> HIDE DEF k, e
  <2>3. /\ Append(k, e) \in Seq(Entries)
        /\ Len(Append(k, e)) = Len(k) + 1
        /\ \A i \in 1..Len(k) : Append(k, e)[i] = k[i]
        /\ Append(k, e)[Len(k) + 1] = e
    BY <2>1, AppendProperties
  <2>4. /\ Append(k, e) \in Seq(Entries)
        /\ Len(Append(k, e)) = entry_count'
        /\ \A i \in 1..Len(k) : Append(k, e)[i] = k[i]
        /\ Append(k, e)[entry_count'] = e
    BY <2>2, <2>3
  <2>5. QED
    BY <2>4 DEF k, e
<1>8. Recent' \in Seq(Entries) /\ Len(Recent') = entry_count'
  BY <1>3 DEF RecentShape
<1>9. \A i \in 1..entry_count' : Recent'[i] = Append(Kept, New(severity))[i]
  <2>1. entry_count' \in Nat \ {0}
    BY <1>1, <1>2
  <2>2. SUFFICES ASSUME NEW i \in 1..entry_count'
                 PROVE  Recent'[i] = Append(Kept, New(severity))[i]
    OBVIOUS
  <2>3. CASE i = entry_count'
    <3>1. Recent'[i] = New(severity)
      BY <1>5, <2>3
    <3>2. QED
      BY <1>7, <2>3, <3>1
  <2>4. CASE i # entry_count'
    <3>1. i \in 1..Len(Kept)
      BY <1>6, <2>1, <2>4
    <3>2. QED
      BY <1>5, <1>6, <1>7, <2>4, <3>1
  <2>5. QED
    BY <2>3, <2>4
<1>10. Recent' = Append(Kept, New(severity))
  BY <1>7, <1>8, <1>9, SeqEqual
<1>11. QED
  BY <1>5, <1>10

\* The ids stay consecutive, and the log file keeps a line for each of them.
LEMMA FileKeepsUp ==
    ASSUME AInv, NEW severity \in Severities, ag_audit_add(severity), ~LogFull
    PROVE  RingAgreesWithFile' /\ entry_count' <= total_entries'
<1>1. /\ N \in Nat \ {0} /\ entry_count \in 0..N /\ total_entries \in Nat
      /\ entry_count <= total_entries /\ log_file \in Seq(Nat)
  BY Capacity DEF AInv, AuditTypeOK, N
<1>2. /\ entry_count' = IF entry_count < N THEN entry_count + 1 ELSE N
  BY Accepted DEF AInv
<1>3. ASSUME NEW i \in 1..entry_count'
      PROVE  Recent'[i] = IF i = entry_count' THEN New(severity)
                          ELSE IF entry_count < N THEN Recent[i] ELSE Recent[i + 1]
  BY <1>3, ListGrows DEF AInv
<1>4. /\ total_entries' = total_entries + 1
      /\ log_file' = IF log_fd THEN Append(log_file, total_entries) ELSE log_file
      /\ log_fd' = log_fd
  BY DEF ag_audit_add
<1>5. New(severity).id = total_entries
  BY DEF New
<1>6. \A i \in 1..entry_count : Recent[i].id = total_entries - entry_count + i - 1
  BY DEF AInv, RingAgreesWithFile
<1>7. entry_count' <= total_entries'
  BY <1>1, <1>2, <1>4
<1>8. ASSUME NEW i \in 1..entry_count'
      PROVE  Recent'[i].id = total_entries' - entry_count' + i - 1
  <2>1. CASE i = entry_count'
    BY <1>1, <1>2, <1>3, <1>4, <1>5, <1>8, <2>1
  <2>2. CASE i # entry_count' /\ entry_count < N
    <3>1. Recent'[i] = Recent[i] /\ i \in 1..entry_count
      BY <1>1, <1>2, <1>3, <1>8, <2>2
    <3>2. Recent'[i].id = total_entries - entry_count + i - 1
      BY <1>6, <3>1
    <3>3. QED
      BY <1>1, <1>2, <1>4, <2>2, <3>1, <3>2
  <2>3. CASE i # entry_count' /\ ~(entry_count < N)
    <3>1. Recent'[i] = Recent[i + 1] /\ i + 1 \in 1..entry_count /\ entry_count' = entry_count
      BY <1>1, <1>2, <1>3, <1>8, <2>3
    <3>2. Recent'[i].id = total_entries - entry_count + (i + 1) - 1
      BY <1>6, <3>1
    <3>3. QED
      BY <1>1, <1>4, <3>1, <3>2
  <2>4. QED
    BY <2>1, <2>2, <2>3
<1>9. ASSUME log_fd'
      PROVE  /\ Len(log_file') = total_entries'
             /\ \A i \in 1..entry_count' : log_file'[Recent'[i].id + 1] = Recent'[i].id
  <2>1. Len(log_file) = total_entries /\ log_file' = Append(log_file, total_entries)
    BY <1>4, <1>9 DEF AInv, RingAgreesWithFile
  <2>2. \A i \in 1..entry_count : log_file[Recent[i].id + 1] = Recent[i].id
    BY <1>4, <1>9 DEF AInv, RingAgreesWithFile
  <2>3. /\ Len(log_file') = total_entries + 1
        /\ \A j \in 1..total_entries : log_file'[j] = log_file[j]
        /\ log_file'[total_entries + 1] = total_entries
    BY <1>1, <2>1, AppendProperties
  <2>4. SUFFICES ASSUME NEW i \in 1..entry_count'
                 PROVE  log_file'[Recent'[i].id + 1] = Recent'[i].id
    BY <1>4, <2>3
  <2>5. CASE i = entry_count'
    BY <1>3, <1>5, <2>3, <2>5
  <2>6. CASE i # entry_count'
    <3>1. PICK j \in 1..entry_count : Recent'[i] = Recent[j]
      BY <1>1, <1>2, <1>3, <2>6
    <3>2. Recent[j].id + 1 \in 1..total_entries
      BY <1>1, <1>6
    <3>3. QED
      BY <2>2, <2>3, <3>1, <3>2
  <2>7. QED
    BY <2>5, <2>6
<1>10. QED
  BY <1>7, <1>8, <1>9 DEF RingAgreesWithFile

LEMMA InitAInv == ag_audit_init => AInv
<1> SUFFICES ASSUME ag_audit_init PROVE AInv
  OBVIOUS
<1>1. N \in Nat \ {0}
  BY Capacity
<1>2. AuditTypeOK
  BY <1>1 DEF ag_audit_init, AuditTypeOK, Slots, NoEntry, Severities, N
<1>3. RingShape
  BY <1>1 DEF ag_audit_init, RingShape, N
<1>4. RingAgreesWithFile
  BY DEF ag_audit_init, RingAgreesWithFile
<1>5. QED
  BY <1>2, <1>3, <1>4 DEF AInv, ag_audit_init

AuditStep == total_entries < MaxAdds /\ \E s \in Severities : ag_audit_add(s)

LEMMA Unchanged == AInv /\ UNCHANGED auditVars => AInv' /\ UNCHANGED Recent
BY DEF AInv, AuditTypeOK, RingShape, RingAgreesWithFile, Recent, auditVars

LEMMA StepAInv == AInv /\ [AuditStep]_auditVars => AInv'
<1> SUFFICES ASSUME AInv, [AuditStep]_auditVars PROVE AInv'
  OBVIOUS
<1>1. CASE UNCHANGED auditVars
  BY <1>1, Unchanged
<1>2. ASSUME NEW s \in Severities, ag_audit_add(s) PROVE AInv'
  <2>1. CASE LogFull
    BY <1>2, <2>1, Unchanged DEF ag_audit_add
  <2>2. CASE ~LogFull
    BY <1>2, <2>2, Accepted, FileKeepsUp DEF AInv
  <2>3. QED
    BY <2>1, <2>2
<1>3. QED
  BY <1>1, <1>2 DEF AuditStep

\* The inductive invariant of the ring.
THEOREM AuditInvariant == AuditSpec => []AInv
<1>1. AuditSpec => ag_audit_init /\ [][AuditStep]_auditVars
  BY DEF AuditSpec, AuditStep
<1>2. QED
  BY <1>1, InitAInv, StepAInv, PTL

\* Every variable of the log keeps its type.
THEOREM AuditTypeCorrect == AuditSpec => []AuditTypeOK
<1>1. AInv => AuditTypeOK
  BY DEF AInv
<1>2. QED
  BY <1>1, AuditInvariant, PTL

\* The tail rests until the ring is full and follows the head from then on.
THEOREM RingKeepsShape == AuditSpec => []RingShape
<1>1. AInv => RingShape
  BY DEF AInv
<1>2. QED
  BY <1>1, AuditInvariant, PTL

\* The ring holds consecutive ids that end with the last one given, each of
\* them at its place in the log file when there is one.
THEOREM RingMatchesFile == AuditSpec => []RingAgreesWithFile
<1>1. AInv => RingAgreesWithFile
  BY DEF AInv
<1>2. QED
  BY <1>1, AuditInvariant, PTL

LEMMA InitTrail == ag_audit_init => Trail!TrailInit
<1> SUFFICES ASSUME ag_audit_init PROVE Trail!TrailInit
  OBVIOUS
<1>1. AuditTypeOK
  BY InitAInv DEF AInv
<1>2. Recent \in Seq(Entries) /\ Len(Recent) = 0
  BY <1>1, RecentValue DEF RecentShape, ag_audit_init
<1>3. Recent = <<>>
  BY <1>2, EmptySeq
<1>4. QED
  BY <1>3 DEF Trail!TrailInit, ag_audit_init

TrailStep == \E severity \in Severities : Trail!Add(severity)

LEMMA StepTrail ==
    AInv /\ [AuditStep]_auditVars => [TrailStep]_(Trail!trailVars)
<1> SUFFICES ASSUME AInv, [AuditStep]_auditVars PROVE [TrailStep]_(Trail!trailVars)
  OBVIOUS
<1>1. CASE UNCHANGED auditVars
  BY <1>1, Unchanged DEF Trail!trailVars, auditVars
<1>2. ASSUME NEW s \in Severities, ag_audit_add(s) PROVE [TrailStep]_(Trail!trailVars)
  <2>1. CASE LogFull
    BY <1>2, <2>1, Unchanged DEF ag_audit_add, Trail!trailVars, auditVars
  <2>2. CASE ~LogFull
    <3>1. /\ Len(Recent) = entry_count /\ entry_count \in 0..N
          /\ (Len(Recent) < N \/ circular)
      BY <2>2, RecentValue, Capacity DEF AInv, RecentShape, LogFull, AuditTypeOK, N
    <3>2. Recent' = Append(Kept, New(s))
      BY <1>2, <2>2, ListGrows DEF AInv
    <3>3. Kept = IF Len(Recent) < N THEN Recent ELSE Tail(Recent)
      BY <3>1 DEF Kept
    <3>4. /\ total_entries' = total_entries + 1
          /\ alert_count' = alert_count + (IF s >= AG_SEV_HIGH THEN 1 ELSE 0)
          /\ circular' = circular
      BY <1>2, <2>2 DEF ag_audit_add
    <3>5. New(s) = Trail!Entry(s)
      BY DEF New, Trail!Entry
    <3>6. Trail!Add(s)
      BY <3>1, <3>2, <3>3, <3>4, <3>5 DEF Trail!Add, N
    <3>7. QED
      BY <3>6 DEF TrailStep
  <2>3. QED
    BY <2>1, <2>2
<1>3. QED
  BY <1>1, <1>2 DEF AuditStep

\* The ring of audit.c is, for every capacity, the list of the last entries.
THEOREM RingImplementsTrail == AuditSpec => KeepsTheLastEntries
<1>1. AuditSpec => ag_audit_init /\ [][AuditStep]_auditVars
  BY DEF AuditSpec, AuditStep
<1>2. Trail!TrailInit /\ [][TrailStep]_(Trail!trailVars) => Trail!TrailSpec
  BY DEF Trail!TrailSpec, TrailStep
<1>3. QED
  BY <1>1, <1>2, AuditInvariant, InitTrail, StepTrail, PTL DEF KeepsTheLastEntries
=============================================================================
