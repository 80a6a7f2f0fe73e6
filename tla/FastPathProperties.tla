------------------------- MODULE FastPathProperties -------------------------
(***************************************************************************)
(* What a run of agfast analyze must satisfy, stated against history, the  *)
(* sequence of the events read: the code keeps only flags and counters.    *)
(***************************************************************************)
EXTENDS FastPath, Sums

RiskLevel == {"", "none", "low", "medium", "high", "critical"}

Node ==
    [ process : Text, watched : BOOLEAN, touched_sensitive : BOOLEAN,
      connected : BOOLEAN, connected_blocked : BOOLEAN,
      connected_blocked_ip : BOOLEAN, connected_blocked_domain : BOOLEAN,
      first_sensitive_file : Text, first_dst : Text, events_seen : Nat,
      destinations : SUBSET Text, risk_score : Int, risk_level : RiskLevel ]

Event == [pid : Pids, process : Text, file : Text, dst : Text,
          domain : Text, ip : Text]

Severity == {"low", "medium", "high", "critical"}

Alert == [severity : Severity, pid : Pids, process : Text, file : Text, dst : Text,
          risk_score : Int]

\* The values the variables take.
TypeOK ==
    /\ policy_loaded \in BOOLEAN /\ build_graph \in BOOLEAN /\ reading \in BOOLEAN
    /\ window_events \in WindowSizes
    /\ pids \subseteq Pids
    /\ node \in [Pids -> Node]
    /\ critical_emitted \in [Pids -> BOOLEAN]
    /\ events_processed \in Nat /\ malformed_lines \in Nat
    /\ history \in Seq(Event)
    /\ alerts \in Seq(Alert)
    /\ hits \in [{"watched_process", "sensitive_file", "blocked_destination", "correlated"} -> Nat]
    /\ current_window \in [events : Nat, alerts : Nat]
    /\ sliding \in [closed : Nat, max : Nat, last : Nat]

-----------------------------------------------------------------------------
\* What the events read say of a process.
EventsOf(p)  == { i \in DOMAIN history : history[i].pid = p }
Touches(p)   == { i \in EventsOf(p) : sensitive_access(history[i]) }
Contacts(p)  == { i \in EventsOf(p) : destination_blocked(history[i]) }
Connections(p) == { i \in EventsOf(p) : history[i].dst # "" }

CriticalAlerts(p) ==
    { i \in DOMAIN alerts : alerts[i].severity = "critical" /\ alerts[i].pid = p }

\* A pid gets a critical alert exactly when, under a policy, its events hold
\* both a sensitive access and a contact with a blocked destination, in
\* either order and however far apart, and it never gets a second one
\* (critical_emitted, commands.c:85-90).
CriticalOncePerProcess ==
    \A p \in Pids :
        /\ CriticalAlerts(p) # {} <=> policy_loaded /\ Touches(p) # {} /\ Contacts(p) # {}
        /\ \A i, j \in CriticalAlerts(p) : i = j

\* The flags, firsts and counters of a node are those of its events: the two
\* passes over the node (risk_reports.c:69-100, commands.c:54-83) neither
\* lose a fact, count it twice, nor move a "first" to a later event.
NodeReflectsHistory ==
    build_graph => \A p \in Pids :
        LET n == node[p]
            IsFirst(i, S) == i \in S /\ \A j \in S : i <= j
        IN  /\ p \in pids <=> EventsOf(p) # {}
            /\ n.events_seen = Cardinality(EventsOf(p))
            /\ n.touched_sensitive <=> policy_loaded /\ Touches(p) # {}
            /\ n.connected_blocked <=> policy_loaded /\ Contacts(p) # {}
            /\ n.connected <=> Connections(p) # {}
            /\ \A i \in EventsOf(p) : n.touched_sensitive /\ IsFirst(i, Touches(p))
                                      => n.first_sensitive_file = history[i].file
            /\ \A i \in EventsOf(p) : IsFirst(i, Connections(p))
                                      => n.first_dst = history[i].dst
            /\ n.destinations = { history[i].dst : i \in Connections(p) }
                           \cup { matched_dst(history[i]) :
                                    i \in IF policy_loaded THEN Contacts(p) ELSE {} }

-----------------------------------------------------------------------------
\* The alerts event i should raise, from the events up to it.
AlertsDue(i) ==
    LET due(cond) == IF policy_loaded /\ cond THEN 1 ELSE 0
        ev == history[i]
        both(S) == S \cap Touches(ev.pid) # {} /\ S \cap Contacts(ev.pid) # {}
    IN    due(policy_is_watched_process(ev.process)) + due(sensitive_access(ev))
        + due(destination_blocked(ev)) + due(both(1..i) /\ ~both(1..(i - 1)))

AlertsDueIn(S) == SumOver([i \in DOMAIN history |-> AlertsDue(i)], S)

\* Every alert is raised by one event for one reason, and the four counters
\* of the report, the length of the list and the events agree.
AlertAccounting ==
    /\ events_processed = Len(history)
    /\ Len(alerts) = AlertsDueIn(DOMAIN history)
    /\ Len(alerts) = hits.watched_process + hits.sensitive_file
                       + hits.blocked_destination + hits.correlated
    /\ hits.correlated = Cardinality({ p \in Pids : critical_emitted[p] })

\* The windows are blocks of window_events consecutive events, the last one
\* possibly shorter and closed by the end of the file; the report gives their
\* number and the greatest and last number of alerts of one (commands.c:92-108).
Whole     == { k \in 0..Len(history) : (k + 1) * window_events <= Len(history) }
Block(k)  == (k * window_events + 1)..((k + 1) * window_events)
Remainder == DOMAIN history \ UNION { Block(k) : k \in Whole }
Blocks    == { Block(k) : k \in Whole } \cup (IF reading \/ Remainder = {} THEN {} ELSE {Remainder})

WindowsPartitionTheRun ==
    IF window_events = 0
      THEN sliding = [closed |-> 0, max |-> 0, last |-> 0]
      ELSE /\ sliding.closed = Cardinality(Blocks)
           /\ sliding.max = Max({0} \cup { AlertsDueIn(b) : b \in Blocks })
           /\ Blocks # {} => \E b \in Blocks : /\ \A i \in UNION Blocks : \E j \in b : i <= j
                                               /\ sliding.last = AlertsDueIn(b)

-----------------------------------------------------------------------------
\* Weights under which the two facts of a correlation alone make 80 points;
\* the default weights do.
CorrelationWeighs ==
    /\ \A w \in WeightNames : Weights[w] >= 0
    /\ Weights.sensitive_file + Weights.blocked_ip + Weights.network_after_file >= 80
    /\ Weights.sensitive_file + Weights.blocked_domain + Weights.network_after_file >= 80

\* In the report of such a policy, a pid with a critical alert has the level
\* "critical", and all its alerts, those raised before the correlation too,
\* show that score (compute_risk_for_node, update_alert_risks).
CriticalAlertIsTopLevel ==
    CorrelationWeighs /\ ~reading =>
        \A p \in Pids : CriticalAlerts(p) # {} =>
            /\ node[p].risk_level = "critical"
            /\ \A i \in DOMAIN alerts : alerts[i].pid = p => alerts[i].risk_score >= 80

\* Such a pid is in the table of processes by risk, unless the table is full and
\* every process in it is at that level: no busy or merely watched process takes
\* its place (build_sorted_risk_nodes, print_risk_summary).
RiskiestAreListed ==
    CorrelationWeighs /\ ~reading =>
        \A p \in Pids : CriticalAlerts(p) # {} /\ p \notin risk_summary =>
            /\ Cardinality(risk_summary) >= TopItems
            /\ \A q \in risk_summary : node[q].risk_score >= 80

\* Alerts are only appended and keep what they said; the report alone changes
\* them, and only their risk score.
AlertsAreKept ==
    [][ /\ Len(alerts') >= Len(alerts)
        /\ \A i \in DOMAIN alerts :
             [alerts'[i] EXCEPT !.risk_score = 0] = [alerts[i] EXCEPT !.risk_score = 0]
        /\ alerts' # alerts /\ reading' => Len(alerts') > Len(alerts) ]_vars

\* Every run is one of the graph-only reader (commands.c:242-277).
BuildsTheSameGraph == Graph!GraphSpec

=============================================================================
