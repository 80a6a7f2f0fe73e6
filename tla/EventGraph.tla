----------------------------- MODULE EventGraph -----------------------------
(***************************************************************************)
(* The process / file / network graph of agfast (graph.c, risk_reports.c)  *)
(* and the reader that does nothing but build it, load_graph_from_events   *)
(* in commands.c, which "agfast graph", "timeline" and "similarity" share. *)
(* FastPath.tla is shown to implement this specification.                  *)
(*                                                                         *)
(* Left out: a node's timeline, event types and file list, which only the  *)
(* report writers print, and the order in which nodes were created.        *)
(***************************************************************************)
EXTENDS Policy, EventLine, FiniteSets

CONSTANTS
    Text,        \* the texts a field may hold
    Lines,       \* the lines an events file may hold
    MaxLines,    \* bound: lines counted (events and malformed ones) in a file
    Ips,         \* the names of digits and dots
    Domains      \* the names with a dot that are not in Ips

ASSUME MaxLinesAssumption == MaxLines \in Nat
\* safe_str replaces the empty text by "-".
ASSUME TextAssumption == {"", "-"} \subseteq Text
ASSUME LinesAssumption ==
    Lines \subseteq [kind : {"fields", "header"}, pid : Int, process : Text,
                     event : Text, file : Text, dst : Text,
                     domain : Text, ip : Text]
ASSUME NamesAssumption == Ips \cap Domains = {}

Pids == { line.pid : line \in Lines }

VARIABLES
    policy_loaded,      \* --policy was given
    pids,               \* the pids that have a node in the graph
    node,               \* pid -> proc_node_t; memset to zero while not in pids
    events_processed,
    malformed_lines,
    reading             \* getline has not yet returned -1

graphVars == <<policy_loaded, pids, node, events_processed, malformed_lines, reading>>

-----------------------------------------------------------------------------
ZeroNode ==
    [ process |-> "", watched |-> FALSE, touched_sensitive |-> FALSE,
      connected |-> FALSE, connected_blocked |-> FALSE,
      connected_blocked_ip |-> FALSE, connected_blocked_domain |-> FALSE,
      first_sensitive_file |-> "", first_dst |-> "", events_seen |-> 0,
      destinations |-> {}, risk_score |-> 0, risk_level |-> "" ]

safe_str(s) == IF s = "" THEN "-" ELSE s

\* The node of an event's pid: nodes are found by pid alone.
graph_get_or_add(ps, n, ev) ==
    IF ev.pid \in ps
      THEN [n EXCEPT !.process = IF ev.process # "" /\ @ = "" THEN ev.process ELSE @]
      ELSE [ZeroNode EXCEPT !.process = safe_str(ev.process), !.risk_level = "none"]

-----------------------------------------------------------------------------
looks_like_ip(s)     == s \in Ips
looks_like_domain(s) == s \in Domains

Candidates(ev) == <<ev.dst, ev.ip, ev.domain>>

BlockedCandidates(ev) ==
    { i \in 1..3 : \/ policy_is_blocked_ip(Candidates(ev)[i])
                   \/ policy_is_blocked_domain(Candidates(ev)[i]) }

destination_blocked(ev) == BlockedCandidates(ev) # {}

\* The first candidate that some list holds ...
matched_dst(ev) ==
    Candidates(ev)[CHOOSE i \in BlockedCandidates(ev) :
                     \A j \in BlockedCandidates(ev) : i <= j]

\* ... and the list it counts for when both do: its shape decides, then the ips.
match_type(ev) ==
    LET d == matched_dst(ev)
    IN  CASE looks_like_ip(d) /\ policy_is_blocked_ip(d)         -> "DEST_BLOCKED_IP"
          [] looks_like_domain(d) /\ policy_is_blocked_domain(d) -> "DEST_BLOCKED_DOMAIN"
          [] OTHER -> IF policy_is_blocked_ip(d) THEN "DEST_BLOCKED_IP"
                                                 ELSE "DEST_BLOCKED_DOMAIN"

Connect(n, dst) ==
    [n EXCEPT !.connected = TRUE, !.first_dst = IF @ = "" THEN dst ELSE @]

\* Mutant of TouchSensitive: the last file is kept, not the first.
TouchSensitiveLast(n, ev) ==
    [n EXCEPT !.first_sensitive_file = ev.file, !.touched_sensitive = TRUE]

TouchSensitive(n, ev) ==
    [n EXCEPT !.first_sensitive_file = IF n.touched_sensitive THEN @ ELSE ev.file,
              !.touched_sensitive = TRUE]

ContactBlocked(n, ev) ==
    [Connect(n, matched_dst(ev)) EXCEPT
        !.connected_blocked = TRUE,
        !.connected_blocked_ip     = @ \/ match_type(ev) = "DEST_BLOCKED_IP",
        !.connected_blocked_domain = @ \/ match_type(ev) = "DEST_BLOCKED_DOMAIN"]

sensitive_access(ev) == ev.file # "" /\ policy_is_sensitive_file(ev.file)

\* The steps of graph_ingest_event, in the order of the code.
IngestFile(n, ev) ==
    IF policy_loaded /\ sensitive_access(ev) THEN TouchSensitive(n, ev) ELSE n

IngestDst(n, ev) ==
    IF ev.dst # ""
      THEN [Connect(n, ev.dst) EXCEPT !.destinations = @ \cup {ev.dst}]
      ELSE n

IngestWatched(n, ev) ==
    [n EXCEPT !.watched = @ \/ (policy_loaded /\ policy_is_watched_process(ev.process))]

IngestBlocked(n, ev) ==
    IF policy_loaded /\ destination_blocked(ev)
      THEN [ContactBlocked(n, ev) EXCEPT !.destinations = @ \cup {matched_dst(ev)}]
      ELSE n

graph_ingest_event(n, ev) ==
    LET seen == [n EXCEPT !.events_seen = @ + 1]
    IN  IngestBlocked(IngestWatched(IngestDst(IngestFile(seen, ev), ev), ev), ev)

-----------------------------------------------------------------------------
risk_level_from_score(score) ==
    CASE score >= 80 -> "critical"
      [] score >= 60 /\ score < 80 -> "high"
      [] score >= 30 /\ score < 60 -> "medium"
      [] score > 0 /\ score < 30   -> "low"
      [] OTHER -> "none"

\* A threshold is cast to an unsigned type: a negative one is never reached.
AtThreshold(count, threshold) == threshold >= 0 /\ count >= threshold

\* The signal named network_after_file looks at two flags, not at their order.
network_after_file(n) == n.touched_sensitive /\ n.connected

risk_sum(n) ==
    LET points(signal, weight) == IF signal THEN weight ELSE 0
    IN    points(n.watched, Weights.watched_process)
        + points(n.touched_sensitive, Weights.sensitive_file)
        + points(n.connected_blocked_ip, Weights.blocked_ip)
        + points(n.connected_blocked_domain, Weights.blocked_domain)
        + points(network_after_file(n), Weights.network_after_file)
        + points(AtThreshold(Cardinality(n.destinations),
                             Weights.high_unique_destination_threshold),
                 Weights.high_unique_destinations)
        + points(AtThreshold(n.events_seen, Weights.high_event_volume_threshold),
                 Weights.high_event_volume)

compute_risk_for_node(n) ==
    LET score == IF risk_sum(n) > 100 THEN 100 ELSE risk_sum(n)
    IN  [n EXCEPT !.risk_score = score, !.risk_level = risk_level_from_score(score)]

compute_risk_all == [p \in Pids |-> IF p \in pids THEN compute_risk_for_node(node[p]) ELSE node[p]]

-----------------------------------------------------------------------------
GraphInit ==
    /\ policy_loaded \in BOOLEAN
    /\ pids = {}
    /\ node = [p \in Pids |-> ZeroNode]
    /\ events_processed = 0
    /\ malformed_lines = 0
    /\ reading = TRUE

CanRead == reading /\ events_processed + malformed_lines < MaxLines

GraphIngest(line) ==
    LET ev == EventOf(line)
    IN  /\ CanRead
        /\ parse_event_line(line)
        /\ pids' = pids \cup {ev.pid}
        /\ node' = [node EXCEPT ![ev.pid] =
                      graph_ingest_event(graph_get_or_add(pids, @, ev), ev)]
        /\ events_processed' = events_processed + 1
        /\ UNCHANGED <<policy_loaded, malformed_lines, reading>>

GraphMalformed(line) ==
    /\ CanRead
    /\ malformed(line)
    /\ malformed_lines' = malformed_lines + 1
    /\ UNCHANGED <<policy_loaded, pids, node, events_processed, reading>>

\* End of file: the risk of every node is computed when there is a policy.
GraphEnd ==
    /\ reading
    /\ reading' = FALSE
    /\ node' = IF policy_loaded THEN compute_risk_all ELSE node
    /\ UNCHANGED <<policy_loaded, pids, events_processed, malformed_lines>>

GraphNext == (\E line \in Lines : GraphIngest(line) \/ GraphMalformed(line)) \/ GraphEnd

GraphSpec == GraphInit /\ [][GraphNext]_graphVars
=============================================================================
