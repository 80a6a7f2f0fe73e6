------------------------------ MODULE FastPath ------------------------------
(***************************************************************************)
(* agfast analyze / stats: process_events in commands.c.  Every accepted   *)
(* line is ingested into the graph (EventGraph), then, with a policy, the  *)
(* flags of its node are set a second time, up to four alerts are raised   *)
(* and the window counters advance.  At end of file the last window is     *)
(* closed, risks are computed and copied into the alerts.                  *)
(*                                                                         *)
(* history, the events accepted so far, is the part of the file read; no   *)
(* action reads it.  Telemetry (the sketches) has no effect on the rest    *)
(* and is modelled by modules of its own.                                  *)
(***************************************************************************)
EXTENDS EventGraph, FiniteSetsExt, Ranking

CONSTANTS
    WindowSizes,    \* the values of --window-events; 0: no windows
    TopItems        \* AGF_TOP_ITEMS_PRINT

ASSUME WindowSizesAssumption == WindowSizes \subseteq Nat
ASSUME TopItemsAssumption == TopItems \in Nat

VARIABLES
    build_graph,        \* a graph is wanted: a policy, --risk, --html or --alerts-csv
    window_events,      \* --window-events
    critical_emitted,   \* pid -> the field of that name of its node
    alerts,             \* the alert list
    hits,               \* the four hit counters of stats_t
    current_window,     \* current_window_events and current_window_alerts
    sliding,            \* sliding_windows_closed, _max_alerts and _last_alerts
    history

correlationVars == <<critical_emitted, alerts, hits, current_window, sliding, history>>
optionVars == <<policy_loaded, build_graph, window_events>>
vars == <<graphVars, build_graph, window_events, correlationVars>>

-----------------------------------------------------------------------------
\* Mutant of MarkNode: the loop counts the event again.
MarkNodeCountingTwice(n, ev) ==
    [n EXCEPT !.events_seen = IF sensitive_access(ev) THEN @ + 1 ELSE @]

\* The second update of the node, from the policy lines of the loop itself.
MarkNode(n, ev) ==
    LET w == [n EXCEPT !.watched = @ \/ policy_is_watched_process(ev.process)]
        s == IF sensitive_access(ev) THEN TouchSensitive(w, ev) ELSE w
    IN  IF destination_blocked(ev) THEN ContactBlocked(s, ev)
        ELSE IF ev.dst # "" THEN Connect(s, ev.dst) ELSE s

\* The node of ev's pid once the event is processed.
NodeAfter(ev) ==
    LET found    == graph_get_or_add(pids, node[ev.pid], ev)
        ingested == graph_ingest_event(found, ev)
    IN  IF ~build_graph THEN node[ev.pid]
        ELSE IF policy_loaded THEN MarkNode(ingested, ev) ELSE ingested

\* Mutant of Correlates: critical_emitted is not consulted.
CorrelatesAgain(ev) ==
    LET n == NodeAfter(ev)
    IN  policy_loaded /\ n.touched_sensitive /\ n.connected /\ n.connected_blocked

\* The correlation: once per node, in whatever order the two facts came.
Correlates(ev) ==
    LET n == NodeAfter(ev)
    IN  /\ policy_loaded
        /\ n.touched_sensitive /\ n.connected /\ n.connected_blocked
        /\ ~critical_emitted[ev.pid]

alert_add(severity, ev, file, dst) ==
    [ severity |-> severity, pid |-> ev.pid, process |-> safe_str(ev.process),
      file |-> safe_str(file), dst |-> safe_str(dst), risk_score |-> 0 ]

EventAlerts(ev) ==
    LET given(cond, alert) == IF policy_loaded /\ cond THEN <<alert>> ELSE <<>>
        n == NodeAfter(ev)
    IN     given(policy_is_watched_process(ev.process), alert_add("low", ev, "", ""))
        \o given(sensitive_access(ev), alert_add("medium", ev, ev.file, ""))
        \o given(destination_blocked(ev), alert_add("high", ev, "", matched_dst(ev)))
        \o given(Correlates(ev), alert_add("critical", ev, n.first_sensitive_file, n.first_dst))

\* Mutant of CountHits: the correlation is not counted.
CountHitsWithoutCorrelation(ev) ==
    LET add(cond) == IF policy_loaded /\ cond THEN 1 ELSE 0
    IN  [hits EXCEPT !.watched_process     = @ + add(policy_is_watched_process(ev.process)),
                     !.sensitive_file      = @ + add(sensitive_access(ev)),
                     !.blocked_destination = @ + add(destination_blocked(ev))]

CountHits(ev) ==
    LET add(cond) == IF policy_loaded /\ cond THEN 1 ELSE 0
    IN  [ watched_process     |-> hits.watched_process + add(policy_is_watched_process(ev.process)),
          sensitive_file      |-> hits.sensitive_file + add(sensitive_access(ev)),
          blocked_destination |-> hits.blocked_destination + add(destination_blocked(ev)),
          correlated          |-> hits.correlated + add(Correlates(ev)) ]

CloseWindow(alerts_in_it) ==
    [ closed |-> sliding.closed + 1,
      max    |-> IF alerts_in_it > sliding.max THEN alerts_in_it ELSE sliding.max,
      last   |-> alerts_in_it ]

\* Mutant of AdvanceWindow: the window is closed one event late.
AdvanceWindowLate(raised) ==
    LET w == [ events |-> current_window.events + 1,
               alerts |-> current_window.alerts + raised ]
    IN  IF window_events > 0 /\ w.events > window_events
          THEN sliding' = CloseWindow(w.alerts) /\ current_window' = [events |-> 0, alerts |-> 0]
          ELSE current_window' = w /\ UNCHANGED sliding

AdvanceWindow(raised) ==
    LET w == [ events |-> current_window.events + 1,
               alerts |-> current_window.alerts + raised ]
    IN  IF window_events = 0
          THEN UNCHANGED <<current_window, sliding>>
        ELSE IF w.events >= window_events
          THEN /\ sliding' = CloseWindow(w.alerts)
               /\ current_window' = [events |-> 0, alerts |-> 0]
          ELSE /\ current_window' = w
               /\ UNCHANGED sliding

-----------------------------------------------------------------------------
Init ==
    /\ GraphInit
    /\ build_graph \in {b \in BOOLEAN : policy_loaded => b}
    /\ window_events \in WindowSizes
    /\ critical_emitted = [p \in Pids |-> FALSE]
    /\ alerts = <<>>
    /\ hits = [ watched_process |-> 0, sensitive_file |-> 0,
                blocked_destination |-> 0, correlated |-> 0 ]
    /\ current_window = [events |-> 0, alerts |-> 0]
    /\ sliding = [closed |-> 0, max |-> 0, last |-> 0]
    /\ history = <<>>

ProcessEvent(line) ==
    LET ev == EventOf(line)
    IN  /\ CanRead
        /\ parse_event_line(line)
        /\ events_processed' = events_processed + 1
        /\ pids' = IF build_graph THEN pids \cup {ev.pid} ELSE pids
        /\ node' = [node EXCEPT ![ev.pid] = NodeAfter(ev)]
        /\ critical_emitted' = [critical_emitted EXCEPT ![ev.pid] = @ \/ Correlates(ev)]
        /\ alerts' = alerts \o EventAlerts(ev)
        /\ hits' = CountHits(ev)
        /\ AdvanceWindow(Len(EventAlerts(ev)))
        /\ history' = Append(history, ev)
        /\ UNCHANGED <<optionVars, malformed_lines, reading>>

MalformedLine(line) ==
    /\ CanRead
    /\ malformed(line)
    /\ malformed_lines' = malformed_lines + 1
    /\ UNCHANGED <<optionVars, pids, node, events_processed, reading, correlationVars>>

\* Mutants of WithRisk: only critical alerts get their score; the destination
\* is refreshed from the node as well.
WithRiskOfCritical(alert, nodes) ==
    IF alert.severity = "critical" THEN [alert EXCEPT !.risk_score = nodes[alert.pid].risk_score]
                                   ELSE alert
WithRiskAndDestination(alert, nodes) ==
    [alert EXCEPT !.risk_score = nodes[alert.pid].risk_score, !.dst = nodes[alert.pid].first_dst]

\* update_alert_risks: by then every pid with an alert has a node.
WithRisk(alert, nodes) ==
    IF alert.pid \in pids
      THEN [alert EXCEPT !.risk_score = nodes[alert.pid].risk_score]
      ELSE alert

Report ==
    /\ reading
    /\ reading' = FALSE
    /\ node' = IF policy_loaded THEN compute_risk_all ELSE node
    /\ alerts' = IF policy_loaded
                   THEN [i \in DOMAIN alerts |-> WithRisk(alerts[i], node')]
                   ELSE alerts
    /\ sliding' = IF window_events > 0 /\ current_window.events > 0
                    THEN CloseWindow(current_window.alerts)
                    ELSE sliding
    /\ UNCHANGED <<optionVars, pids, events_processed, malformed_lines,
                   critical_emitted, hits, current_window, history>>

\* The table of processes by risk that the report prints and writes.
risk_summary ==
    LET listed == { p \in pids : node[p].risk_score > 0 }
    IN  Shown(listed, [p \in listed |-> node[p].risk_score], [p \in listed |-> p], TopItems)

Next == (\E line \in Lines : ProcessEvent(line) \/ MalformedLine(line)) \/ Report

Spec == Init /\ [][Next]_vars

-----------------------------------------------------------------------------
\* The run implements the graph-only reader: with a graph it builds the same
\* nodes, the second marking of each node adding nothing; without one it
\* leaves an empty graph.
Graph == INSTANCE EventGraph WITH
            policy_loaded    <- policy_loaded,
            pids             <- pids,
            node             <- node,
            reading          <- reading,
            events_processed <- IF build_graph THEN events_processed ELSE 0,
            malformed_lines  <- IF build_graph THEN malformed_lines ELSE 0
=============================================================================
