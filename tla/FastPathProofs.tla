--------------------------- MODULE FastPathProofs ---------------------------
(***************************************************************************)
(* Theorems about agfast analyze, for every policy, every file and every   *)
(* window size: what the score means, that alerts are counted once for     *)
(* every reason, that the windows partition the run; and that it           *)
(* implements the graph-only reader of EventGraph.                         *)
(***************************************************************************)
EXTENDS FastPathProperties, RankingProofs, TLAPS

\* The prefilter is transparent: whatever the hash functions, a name matches
\* an array of the policy exactly when parse_policy_array put it in the list.
THEOREM BloomIsTransparent ==
    ASSUME NEW array \in DOMAIN PolicyFile, NEW value
    PROVE  policy_match_exact_with_bloom(array, value) <=> value \in exact[array]
<1>1. ASSUME value \in exact[array]
      PROVE  value # "" /\ BloomBits[value] \subseteq bloom[array]
  BY <1>1 DEF exact, bloom, bloom_add_all
<1>2. QED
  BY <1>1 DEF policy_match_exact_with_bloom, bloom_might_contain

\* The parser leaves dst empty only when ip and domain are empty too.
ParsedEvent == { ev \in Event : ev.dst = "" => ev.ip = "" /\ ev.domain = "" }

LEMMA ParsedEvents ==
    ASSUME NEW line \in Lines
    PROVE  EventOf(line) \in ParsedEvent /\ EventOf(line).pid \in Pids
BY LinesAssumption DEF EventOf, ParsedEvent, Event, Pids

LEMMA MatchedDst ==
    ASSUME NEW ev \in ParsedEvent, destination_blocked(ev)
    PROVE  matched_dst(ev) \in Text /\ matched_dst(ev) # "" /\ ev.dst # ""
<1> DEFINE B == BlockedCandidates(ev)
<1>1. PICK k \in 1..3 : k \in B /\ \A j \in B : k <= j
  <2>1. B \subseteq 1..3 /\ B # {}
    BY DEF BlockedCandidates, destination_blocked
  <2>2. CASE 1 \in B
    BY <2>1, <2>2
  <2>3. CASE 1 \notin B /\ 2 \in B
    BY <2>1, <2>3
  <2>4. CASE 1 \notin B /\ 2 \notin B
    BY <2>1, <2>4
  <2>5. QED
    BY <2>2, <2>3, <2>4
<1>2. PICK i \in B : matched_dst(ev) = Candidates(ev)[i]
  BY <1>1 DEF matched_dst
<1>3. i \in {1, 2, 3}
  BY DEF BlockedCandidates
<1>4. Candidates(ev)[i] # ""
  BY <1>3 DEF BlockedCandidates, policy_is_blocked_ip, policy_is_blocked_domain,
              policy_match_exact_with_bloom
<1>5. Candidates(ev)[i] \in {ev.dst, ev.ip, ev.domain}
  BY <1>3 DEF Candidates
<1>6. QED
  BY <1>2, <1>4, <1>5 DEF ParsedEvent, Event

\* What a sequence of updates of a node amounts to for the flags.
Updated(m, n, watched, touched, connected, blocked) ==
    /\ m \in Node
    /\ m.watched = (n.watched \/ watched)
    /\ m.touched_sensitive = (n.touched_sensitive \/ touched)
    /\ m.connected = (n.connected \/ connected)
    /\ m.connected_blocked = (n.connected_blocked \/ blocked)
    /\ n.connected_blocked_ip => m.connected_blocked_ip
    /\ n.connected_blocked_domain => m.connected_blocked_domain

LEMMA ConnectUpdates ==
    ASSUME NEW n \in Node, NEW dst \in Text, dst # ""
    PROVE  /\ Updated(Connect(n, dst), n, FALSE, FALSE, TRUE, FALSE)
           /\ Connect(n, dst).first_dst # ""
BY DEF Connect, Updated, Node

LEMMA TouchSensitiveUpdates ==
    ASSUME NEW n \in Node, NEW ev \in Event
    PROVE  /\ Updated(TouchSensitive(n, ev), n, FALSE, TRUE, FALSE, FALSE)
           /\ TouchSensitive(n, ev).first_dst = n.first_dst
BY DEF TouchSensitive, Updated, Node, Event

LEMMA ContactBlockedUpdates ==
    ASSUME NEW n \in Node, NEW ev \in ParsedEvent, destination_blocked(ev)
    PROVE  LET m == ContactBlocked(n, ev)
           IN  /\ Updated(m, n, FALSE, FALSE, TRUE, TRUE)
               /\ m.first_dst # ""
               /\ match_type(ev) = "DEST_BLOCKED_IP" => m.connected_blocked_ip
               /\ match_type(ev) = "DEST_BLOCKED_DOMAIN" => m.connected_blocked_domain
<1> DEFINE c == Connect(n, matched_dst(ev))
<1>1. Updated(c, n, FALSE, FALSE, TRUE, FALSE) /\ c.first_dst # ""
  BY MatchedDst, ConnectUpdates
<1>2. QED
  BY <1>1, Zenon DEF ContactBlocked, Updated, Node

LEMMA DecisionsAreBoolean ==
    ASSUME NEW ev
    PROVE  /\ policy_is_watched_process(ev.process) \in BOOLEAN
           /\ sensitive_access(ev) \in BOOLEAN
           /\ destination_blocked(ev) \in BOOLEAN
BY DEF policy_is_watched_process, policy_match_exact_with_bloom, sensitive_access,
       destination_blocked

LEMMA IngestUpdates ==
    ASSUME NEW n \in Node, NEW ev \in ParsedEvent, policy_loaded \in BOOLEAN
    PROVE  LET m == graph_ingest_event(n, ev)
           IN  /\ Updated(m, n, policy_loaded /\ policy_is_watched_process(ev.process),
                          policy_loaded /\ sensitive_access(ev), ev.dst # "",
                          policy_loaded /\ destination_blocked(ev))
               /\ ev.dst # "" => m.first_dst # ""
               /\ policy_loaded /\ destination_blocked(ev) =>
                    /\ match_type(ev) = "DEST_BLOCKED_IP" => m.connected_blocked_ip
                    /\ match_type(ev) = "DEST_BLOCKED_DOMAIN" => m.connected_blocked_domain
<1> DEFINE seen == [n EXCEPT !.events_seen = @ + 1]
           f == IngestFile(seen, ev)
           d == IngestDst(f, ev)
           w == IngestWatched(d, ev)
           b == IngestBlocked(w, ev)
<1>0. ev \in Event
  BY DEF ParsedEvent
<1>1. Updated(seen, n, FALSE, FALSE, FALSE, FALSE)
  <2>1. seen \in Node
    BY DEF Node
  <2>2. QED
    BY <2>1 DEF Updated, Node
<1>2. Updated(f, seen, FALSE, policy_loaded /\ sensitive_access(ev), FALSE, FALSE)
  <2>1. CASE policy_loaded /\ sensitive_access(ev)
    <3>1. Updated(TouchSensitive(seen, ev), seen, FALSE, TRUE, FALSE, FALSE)
      <4>1. seen \in Node
        BY <1>1 DEF Updated
      <4> HIDE DEF seen
      <4>2. QED
        BY <1>0, <4>1, TouchSensitiveUpdates
    <3> HIDE DEF seen
    <3>2. QED
      BY <2>1, <3>1 DEF IngestFile, Updated
  <2>2. CASE ~(policy_loaded /\ sensitive_access(ev))
    <3>1. f = seen
      BY <2>2 DEF IngestFile
    <3> HIDE DEF seen, f
    <3>2. QED
      BY <1>1, <2>2, <3>1 DEF Updated, Node
  <2>3. QED
    BY <2>1, <2>2
<1>3. Updated(d, f, FALSE, FALSE, ev.dst # "", FALSE) /\ (ev.dst # "" => d.first_dst # "")
  <2>1. CASE ev.dst = ""
    BY <1>2, <2>1 DEF IngestDst, Updated
  <2>2. CASE ev.dst # ""
    <3> DEFINE c == Connect(f, ev.dst)
    <3>1. Updated(c, f, FALSE, FALSE, TRUE, FALSE) /\ c.first_dst # ""
      BY <1>0, <1>2, <2>2, ConnectUpdates DEF Updated, Event
    <3>2. d = [c EXCEPT !.destinations = @ \cup {ev.dst}]
      BY <2>2 DEF IngestDst
    <3>3. ev.dst \in Text
      BY <1>0 DEF Event
    <3> HIDE DEF c, d
    <3>4. QED
      BY <2>2, <3>1, <3>2, <3>3 DEF Updated, Node
  <2>3. QED
    BY <2>1, <2>2
<1>4. /\ Updated(w, d, policy_loaded /\ policy_is_watched_process(ev.process), FALSE, FALSE, FALSE)
      /\ w.first_dst = d.first_dst
  <2> DEFINE W == policy_is_watched_process(ev.process)
  <2>1. w = [d EXCEPT !.watched = d.watched \/ (policy_loaded /\ W)]
    BY DEF IngestWatched
  <2>2. W \in BOOLEAN
    BY DecisionsAreBoolean
  <2> HIDE DEF w, d
  <2>3. CASE policy_loaded /\ W
    <3>1. w = [d EXCEPT !.watched = TRUE]
      BY <2>1, <2>3
    <3>2. QED
      BY <1>3, <2>3, <3>1 DEF Updated, Node
  <2>4. CASE ~(policy_loaded /\ W)
    <3>1. w = [d EXCEPT !.watched = d.watched]
      BY <1>3, <2>1, <2>4 DEF Updated, Node
    <3>2. QED
      BY <1>3, <2>4, <3>1 DEF Updated, Node
  <2>5. QED
    BY <2>3, <2>4
<1>5. /\ Updated(b, w, FALSE, FALSE, policy_loaded /\ destination_blocked(ev),
                 policy_loaded /\ destination_blocked(ev))
      /\ b.first_dst = w.first_dst \/ b.first_dst # ""
      /\ policy_loaded /\ destination_blocked(ev) =>
           /\ match_type(ev) = "DEST_BLOCKED_IP" => b.connected_blocked_ip
           /\ match_type(ev) = "DEST_BLOCKED_DOMAIN" => b.connected_blocked_domain
  <2>1. CASE policy_loaded /\ destination_blocked(ev)
    <3> DEFINE c == ContactBlocked(w, ev)
    <3>1. /\ Updated(c, w, FALSE, FALSE, TRUE, TRUE) /\ c.first_dst # ""
          /\ match_type(ev) = "DEST_BLOCKED_IP" => c.connected_blocked_ip
          /\ match_type(ev) = "DEST_BLOCKED_DOMAIN" => c.connected_blocked_domain
      BY <1>4, <2>1, ContactBlockedUpdates DEF Updated
    <3>2. b = [c EXCEPT !.destinations = @ \cup {matched_dst(ev)}]
      BY <2>1 DEF IngestBlocked
    <3>3. matched_dst(ev) \in Text
      BY <2>1, MatchedDst
    <3> HIDE DEF c, b, w
    <3>4. QED
      BY <2>1, <3>1, <3>2, <3>3 DEF Updated, Node
  <2>2. CASE ~(policy_loaded /\ destination_blocked(ev))
    BY <1>4, <2>2 DEF IngestBlocked, Updated
  <2>3. QED
    BY <2>1, <2>2
<1>6. destination_blocked(ev) => ev.dst # ""
  BY MatchedDst
<1>7. graph_ingest_event(n, ev) = b
  BY DEF graph_ingest_event
<1> HIDE DEF seen, f, d, w, b
<1>8. QED
  BY <1>1, <1>2, <1>3, <1>4, <1>5, <1>6, <1>7 DEF Updated

\* The loop of process_events marks the node a second time after
\* graph_ingest_event: it never changes it.
LEMMA SecondMarkingAddsNothing ==
    ASSUME NEW n \in Node, NEW ev \in ParsedEvent, policy_loaded = TRUE
    PROVE  MarkNode(graph_ingest_event(n, ev), ev) = graph_ingest_event(n, ev)
<1> DEFINE g == graph_ingest_event(n, ev)
           w == [g EXCEPT !.watched = @ \/ policy_is_watched_process(ev.process)]
           s == IF sensitive_access(ev) THEN TouchSensitive(w, ev) ELSE w
<1>1. /\ g \in Node
      /\ policy_is_watched_process(ev.process) => g.watched
      /\ sensitive_access(ev) => g.touched_sensitive
      /\ ev.dst # "" => g.connected /\ g.first_dst # ""
      /\ destination_blocked(ev) =>
            /\ g.connected_blocked /\ g.connected /\ g.first_dst # ""
            /\ match_type(ev) = "DEST_BLOCKED_IP" => g.connected_blocked_ip
            /\ match_type(ev) = "DEST_BLOCKED_DOMAIN" => g.connected_blocked_domain
  BY IngestUpdates, MatchedDst, DecisionsAreBoolean DEF Updated
<1> HIDE DEF g
<1>2. w = g
  <2>1. CASE policy_is_watched_process(ev.process)
    BY <1>1, <2>1 DEF Node
  <2>2. CASE ~policy_is_watched_process(ev.process)
    BY <1>1, <2>2 DEF Node
  <2>3. QED
    BY <2>1, <2>2
<1>3. s = g
  <2>1. CASE sensitive_access(ev)
    <3>1. TouchSensitive(g, ev) = g
      BY <1>1, <2>1 DEF TouchSensitive, Node
    <3>2. QED
      BY <1>2, <2>1, <3>1
  <2>2. CASE ~sensitive_access(ev)
    BY <1>2, <2>2
  <2>3. QED
    BY <2>1, <2>2
<1>4. CASE destination_blocked(ev)
  <2>1. Connect(g, matched_dst(ev)) = g
    BY <1>1, <1>4 DEF Connect, Node
  <2>2. ContactBlocked(g, ev) = g
    BY <1>1, <1>4, <2>1 DEF ContactBlocked, Node
  <2>3. QED
    BY <1>3, <1>4, <2>2 DEF MarkNode, g
<1>5. CASE ~destination_blocked(ev)
  <2>1. ev.dst # "" => Connect(g, ev.dst) = g
    BY <1>1 DEF Connect, Node
  <2>2. QED
    BY <1>3, <1>5, <2>1 DEF MarkNode, g
<1>6. QED
  BY <1>4, <1>5

-----------------------------------------------------------------------------
(***************************************************************************)
(* The inductive invariant.  TypeOK and CriticalOncePerProcess are not     *)
(* inductive: the alerts follow critical_emitted, which follows the flags  *)
(* of the node, which follow history; and a pid without a node must have   *)
(* the zero node, because graph_get_or_add starts from it.                 *)
(***************************************************************************)
ModeInv == policy_loaded => build_graph

NodeInv ==
    \A p \in Pids :
        /\ p \notin pids => node[p] = ZeroNode
        /\ node[p].touched_sensitive <=> policy_loaded /\ Touches(p) # {}
        /\ node[p].connected_blocked <=> policy_loaded /\ Contacts(p) # {}
        /\ node[p].connected_blocked =>
              /\ node[p].connected
              /\ node[p].connected_blocked_ip \/ node[p].connected_blocked_domain

EmittedInv ==
    \A p \in Pids :
        critical_emitted[p] <=> node[p].touched_sensitive /\ node[p].connected_blocked

AlertInv ==
    /\ \A i \in DOMAIN alerts : alerts[i].pid \in pids
    /\ \A p \in Pids : CriticalAlerts(p) # {} <=> critical_emitted[p]
    /\ \A i, j \in DOMAIN alerts :
          /\ alerts[i].severity = "critical" /\ alerts[j].severity = "critical"
          /\ alerts[i].pid = alerts[j].pid
          => i = j

RiskInv ==
    ~reading /\ policy_loaded =>
        /\ \A p \in pids : node[p] = compute_risk_for_node(node[p])
        /\ \A i \in DOMAIN alerts : alerts[i].risk_score = node[alerts[i].pid].risk_score

IInv == TypeOK /\ ModeInv /\ NodeInv /\ EmittedInv /\ AlertInv /\ RiskInv

LEMMA ZeroNodeType == ZeroNode \in Node
<1>1. "" \in RiskLevel
  BY DEF RiskLevel
<1>2. "" \in Text /\ {} \in SUBSET Text
  BY TextAssumption
<1> DEFINE empty == ""
<1>3. empty \in Text /\ empty \in RiskLevel
  BY <1>1, <1>2
<1>4. ZeroNode = [ process |-> empty, watched |-> FALSE, touched_sensitive |-> FALSE,
                   connected |-> FALSE, connected_blocked |-> FALSE,
                   connected_blocked_ip |-> FALSE, connected_blocked_domain |-> FALSE,
                   first_sensitive_file |-> empty, first_dst |-> empty, events_seen |-> 0,
                   destinations |-> {}, risk_score |-> 0, risk_level |-> empty ]
  BY DEF ZeroNode
<1> HIDE DEF empty
<1>5. QED
  BY <1>3, <1>4 DEF Node

LEMMA FoundNode ==
    ASSUME TypeOK, NodeInv, NEW ev \in ParsedEvent
    PROVE  LET g == graph_get_or_add(pids, node[ev.pid], ev)
               n == node[ev.pid]
           IN  /\ g \in Node
               /\ g.touched_sensitive = n.touched_sensitive
               /\ g.connected = n.connected
               /\ g.connected_blocked = n.connected_blocked
               /\ g.connected_blocked_ip = n.connected_blocked_ip
               /\ g.connected_blocked_domain = n.connected_blocked_domain
<1> DEFINE n == node[ev.pid]
<1>1. ev.pid \in Pids /\ ev.process \in Text /\ n \in Node
  BY DEF TypeOK, ParsedEvent, Event
<1>2. CASE ev.pid \in pids
  <2> HIDE DEF n
  <2>1. QED
    BY <1>1, <1>2 DEF graph_get_or_add, Node, n
<1>3. CASE ev.pid \notin pids
  <2>1. n = ZeroNode
    BY <1>1, <1>3 DEF NodeInv
  <2>2. graph_get_or_add(pids, n, ev) =
          [ZeroNode EXCEPT !.process = safe_str(ev.process), !.risk_level = "none"]
    BY <1>3 DEF graph_get_or_add
  <2>3. safe_str(ev.process) \in Text
    BY <1>1, TextAssumption DEF safe_str
  <2> HIDE DEF n
  <2>4. [ZeroNode EXCEPT !.process = safe_str(ev.process), !.risk_level = "none"] \in Node
    <3>1. ZeroNode \in Node
      BY ZeroNodeType
    <3>2. "none" \in RiskLevel
      BY DEF RiskLevel
    <3>3. QED
      BY <2>3, <3>1, <3>2 DEF Node
  <2>5. QED
    BY <2>1, <2>2, <2>4 DEF ZeroNode, Node, n
<1>4. QED
  BY <1>2, <1>3

LEMMA NodeStep ==
    ASSUME TypeOK, ModeInv, NodeInv, NEW ev \in ParsedEvent
    PROVE  LET m == NodeAfter(ev)
               n == node[ev.pid]
           IN  /\ m \in Node
               /\ build_graph => m = graph_ingest_event(graph_get_or_add(pids, n, ev), ev)
               /\ ~build_graph => m = n
               /\ m.touched_sensitive = (n.touched_sensitive \/ (policy_loaded /\ sensitive_access(ev)))
               /\ m.connected_blocked = (n.connected_blocked \/ (policy_loaded /\ destination_blocked(ev)))
               /\ m.connected_blocked =>
                    /\ m.connected
                    /\ m.connected_blocked_ip \/ m.connected_blocked_domain
<1> DEFINE n == node[ev.pid]
           g == graph_get_or_add(pids, n, ev)
           i == graph_ingest_event(g, ev)
           m == NodeAfter(ev)
<1>1. /\ policy_loaded \in BOOLEAN /\ build_graph \in BOOLEAN
      /\ ev.pid \in Pids /\ n \in Node /\ g \in Node
      /\ n.connected_blocked =>
           /\ n.connected
           /\ n.connected_blocked_ip \/ n.connected_blocked_domain
  BY FoundNode DEF TypeOK, NodeInv, ParsedEvent, Event
<1>2. /\ g.touched_sensitive = n.touched_sensitive
      /\ g.connected = n.connected
      /\ g.connected_blocked = n.connected_blocked
      /\ g.connected_blocked_ip = n.connected_blocked_ip
      /\ g.connected_blocked_domain = n.connected_blocked_domain
  BY FoundNode
<1>3. /\ Updated(i, g, policy_loaded /\ policy_is_watched_process(ev.process),
                 policy_loaded /\ sensitive_access(ev), ev.dst # "",
                 policy_loaded /\ destination_blocked(ev))
      /\ policy_loaded /\ destination_blocked(ev) =>
           /\ match_type(ev) = "DEST_BLOCKED_IP" => i.connected_blocked_ip
           /\ match_type(ev) = "DEST_BLOCKED_DOMAIN" => i.connected_blocked_domain
  <2>1. g \in Node /\ policy_loaded \in BOOLEAN
    BY <1>1
  <2> HIDE DEF g
  <2>2. QED
    BY <2>1, IngestUpdates
<1>4. destination_blocked(ev) =>
        ev.dst # "" /\ match_type(ev) \in {"DEST_BLOCKED_IP", "DEST_BLOCKED_DOMAIN"}
  BY MatchedDst DEF match_type
<1>5. CASE build_graph
  <2>1. m = i
    <3>1. CASE policy_loaded
      <4>1. MarkNode(i, ev) = i
        <5> HIDE DEF g
        <5>1. QED
          BY <1>1, <3>1, SecondMarkingAddsNothing
      <4>2. QED
        BY <1>5, <3>1, <4>1 DEF NodeAfter
    <3>2. CASE ~policy_loaded
      BY <1>5, <3>2 DEF NodeAfter
    <3>3. QED
      BY <3>1, <3>2
  <2> HIDE DEF m, i, g, n
  <2>2. m \in Node
    BY <1>3, <2>1 DEF Updated
  <2>3. m.touched_sensitive = (n.touched_sensitive \/ (policy_loaded /\ sensitive_access(ev)))
    BY <1>2, <1>3, <2>1 DEF Updated
  <2>4. m.connected_blocked = (n.connected_blocked \/ (policy_loaded /\ destination_blocked(ev)))
    BY <1>2, <1>3, <2>1 DEF Updated
  <2>5. m.connected_blocked =>
          /\ m.connected
          /\ m.connected_blocked_ip \/ m.connected_blocked_domain
    BY <1>1, <1>2, <1>3, <1>4, <2>1, <2>4 DEF Updated
  <2>6. QED
    BY <1>5, <2>1, <2>2, <2>3, <2>4, <2>5 DEF m, i, g, n
<1>6. CASE ~build_graph
  <2>1. m = n /\ ~policy_loaded
    BY <1>6 DEF NodeAfter, ModeInv
  <2> HIDE DEF m, n, g, i
  <2>2. QED
    BY <1>1, <1>6, <2>1 DEF Node, m, n
<1>7. QED
  BY <1>5, <1>6

\* The alerts of one event: of its pid, at most one critical, and that last.
RaisedBy(s, p, critical) ==
    /\ s \in Seq(Alert)
    /\ \A k \in 1..Len(s) :
         /\ s[k].pid = p
         /\ s[k].severity = "critical" => critical /\ k = Len(s)
    /\ critical => Len(s) > 0 /\ s[Len(s)].severity = "critical"

LEMMA RaiseOne ==
    ASSUME NEW s, NEW p \in Pids, RaisedBy(s, p, FALSE), NEW cond \in BOOLEAN,
           NEW a, cond => a \in Alert /\ a.pid = p
    PROVE  LET t == s \o IF cond THEN <<a>> ELSE <<>>
           IN  /\ a.severity # "critical" => RaisedBy(t, p, FALSE)
               /\ a.severity = "critical" => RaisedBy(t, p, cond)
<1>1. CASE cond
  <2> DEFINE t == s \o <<a>>
  <2>1. s \in Seq(Alert) /\ a \in Alert /\ a.pid = p
    BY <1>1 DEF RaisedBy
  <2>2. /\ t \in Seq(Alert) /\ Len(t) = Len(s) + 1 /\ t[Len(t)] = a
        /\ \A k \in 1..Len(s) : t[k] = s[k]
    BY <2>1
  <2>3. \A k \in 1..Len(t) : k \in 1..Len(s) \/ k = Len(t)
    BY <2>1, <2>2
  <2>4. (s \o IF cond THEN <<a>> ELSE <<>>) = t
    BY <1>1
  <2>5. Len(s) \in Nat
    BY <2>1
  <2> HIDE DEF t
  <2>6. QED
    BY <1>1, <2>1, <2>2, <2>3, <2>4, <2>5 DEF RaisedBy
<1>2. CASE ~cond
  <2>1. (s \o IF cond THEN <<a>> ELSE <<>>) = s
    BY <1>2 DEF RaisedBy
  <2>2. QED
    BY <1>2, <2>1 DEF RaisedBy
<1>3. QED
  BY <1>1, <1>2

LEMMA AlertRecord ==
    ASSUME NEW severity \in Severity, NEW p \in Pids, NEW process \in Text,
           NEW file \in Text, NEW dst \in Text
    PROVE  [severity |-> severity, pid |-> p, process |-> process, file |-> file,
            dst |-> dst, risk_score |-> 0] \in Alert
BY DEF Alert

LEMMA SafeStrType ==
    /\ safe_str("") \in Text
    /\ \A s \in Text : safe_str(s) \in Text
BY TextAssumption DEF safe_str

LEMMA AlertType ==
    ASSUME NEW severity \in Severity, NEW ev \in Event, NEW file, NEW dst,
           safe_str(file) \in Text, safe_str(dst) \in Text
    PROVE  /\ alert_add(severity, ev, file, dst) \in Alert
           /\ alert_add(severity, ev, file, dst).pid = ev.pid
           /\ alert_add(severity, ev, file, dst).severity = severity
<1>1. ev.pid \in Pids /\ safe_str(ev.process) \in Text
  BY SafeStrType DEF Event
<1>2. alert_add(severity, ev, file, dst) \in Alert
  BY <1>1, AlertRecord DEF alert_add
<1>3. QED
  BY <1>2 DEF alert_add

LEMMA EventAlertsRaised ==
    ASSUME TypeOK, ModeInv, NodeInv, NEW ev \in ParsedEvent
    PROVE  RaisedBy(EventAlerts(ev), ev.pid, Correlates(ev)) /\ Correlates(ev) \in BOOLEAN
<1> DEFINE m == NodeAfter(ev)
           low == alert_add("low", ev, "", "")
           medium == alert_add("medium", ev, ev.file, "")
           high == alert_add("high", ev, "", matched_dst(ev))
           critical == alert_add("critical", ev, m.first_sensitive_file, m.first_dst)
           c1 == policy_loaded /\ policy_is_watched_process(ev.process)
           c2 == policy_loaded /\ sensitive_access(ev)
           c3 == policy_loaded /\ destination_blocked(ev)
           c4 == policy_loaded /\ Correlates(ev)
           s1 == <<>> \o IF c1 THEN <<low>> ELSE <<>>
           s2 == s1 \o IF c2 THEN <<medium>> ELSE <<>>
           s3 == s2 \o IF c3 THEN <<high>> ELSE <<>>
           s4 == s3 \o IF c4 THEN <<critical>> ELSE <<>>
<1>1. ev \in Event /\ ev.pid \in Pids /\ ev.file \in Text /\ m \in Node
  BY NodeStep DEF ParsedEvent, Event
<1>s. /\ "low" \in Severity /\ "medium" \in Severity
      /\ "high" \in Severity /\ "critical" \in Severity
  BY DEF Severity
<1>2. Correlates(ev) \in BOOLEAN /\ c4 = Correlates(ev)
  BY DEF Correlates
<1>3. c1 \in BOOLEAN /\ c2 \in BOOLEAN /\ c3 \in BOOLEAN /\ c4 \in BOOLEAN
  OBVIOUS
<1>4. low \in Alert /\ low.pid = ev.pid /\ low.severity = "low"
  <2>1. safe_str("") \in Text
    BY SafeStrType
  <2>2. low \in Alert
    BY <1>s, <1>1, <2>1, AlertType
  <2>3. QED
    BY <2>2 DEF alert_add
<1>5. medium \in Alert /\ medium.pid = ev.pid /\ medium.severity = "medium"
  <2>1. safe_str("") \in Text /\ safe_str(ev.file) \in Text
    BY <1>1, SafeStrType
  <2>2. medium \in Alert
    BY <1>s, <1>1, <2>1, AlertType
  <2>3. QED
    BY <2>2 DEF alert_add
<1>6. high.severity = "high" /\ (c3 => high \in Alert /\ high.pid = ev.pid)
  <2>1. ASSUME c3 PROVE high \in Alert
    <3>1. safe_str("") \in Text /\ safe_str(matched_dst(ev)) \in Text
      BY <2>1, MatchedDst, SafeStrType
    <3>2. QED
      BY <1>s, <1>1, <3>1, AlertType
  <2>2. QED
    BY <2>1 DEF alert_add
<1>7. critical \in Alert /\ critical.pid = ev.pid /\ critical.severity = "critical"
  <2>1. m.first_sensitive_file \in Text /\ m.first_dst \in Text
    BY <1>1 DEF Node
  <2>2. safe_str(m.first_sensitive_file) \in Text /\ safe_str(m.first_dst) \in Text
    BY <2>1, SafeStrType
  <2> HIDE DEF m
  <2>3. critical \in Alert
    BY <1>s, <1>1, <2>2, AlertType
  <2>4. QED
    BY <2>3 DEF alert_add
<1>8. RaisedBy(<<>>, ev.pid, FALSE)
  BY DEF RaisedBy
<1>9. EventAlerts(ev) = s4
  <2>1. s1 = IF c1 THEN <<low>> ELSE <<>>
    OBVIOUS
  <2>2. QED
    BY <2>1 DEF EventAlerts
<1> HIDE DEF m, low, medium, high, critical, c1, c2, c3, c4
<1>10. RaisedBy(s1, ev.pid, FALSE)
  BY <1>1, <1>3, <1>4, <1>8, RaiseOne
<1> HIDE DEF s1
<1>11. RaisedBy(s2, ev.pid, FALSE)
  BY <1>1, <1>3, <1>5, <1>10, RaiseOne
<1> HIDE DEF s2
<1>12. RaisedBy(s3, ev.pid, FALSE)
  BY <1>1, <1>3, <1>6, <1>11, RaiseOne
<1> HIDE DEF s3
<1>13. RaisedBy(s4, ev.pid, c4)
  BY <1>1, <1>3, <1>7, <1>12, RaiseOne
<1>14. QED
  BY <1>2, <1>9, <1>13

-----------------------------------------------------------------------------
LEMMA InitInv == Init => IInv
<1> SUFFICES ASSUME Init PROVE IInv
  OBVIOUS
<1>1. /\ pids = {} /\ node = [p \in Pids |-> ZeroNode] /\ alerts = <<>> /\ history = <<>>
      /\ critical_emitted = [p \in Pids |-> FALSE] /\ reading = TRUE
      /\ policy_loaded \in BOOLEAN /\ build_graph \in BOOLEAN
  BY DEF Init, GraphInit
<1>2. \A p \in Pids : /\ node[p] = ZeroNode /\ ~node[p].touched_sensitive
                      /\ ~node[p].connected_blocked
  BY <1>1 DEF ZeroNode
<1>3. TypeOK
  <2>1. node \in [Pids -> Node]
    BY <1>1, ZeroNodeType
  <2>2. history \in Seq(Event) /\ alerts \in Seq(Alert)
    BY <1>1
  <2>3. hits \in [{"watched_process", "sensitive_file", "blocked_destination", "correlated"} -> Nat]
    BY DEF Init
  <2>4. /\ current_window \in [events : Nat, alerts : Nat]
        /\ sliding \in [closed : Nat, max : Nat, last : Nat]
        /\ window_events \in WindowSizes
        /\ events_processed \in Nat /\ malformed_lines \in Nat
    BY DEF Init, GraphInit
  <2>5. critical_emitted \in [Pids -> BOOLEAN] /\ pids \subseteq Pids
    BY <1>1
  <2>6. QED
    BY <1>1, <2>1, <2>2, <2>3, <2>4, <2>5 DEF TypeOK
<1>4. ModeInv
  BY DEF Init, ModeInv
<1>5. NodeInv
  BY <1>1, <1>2 DEF NodeInv, Touches, Contacts, EventsOf
<1>6. EmittedInv
  BY <1>1, <1>2 DEF EmittedInv
<1>7. AlertInv
  BY <1>1 DEF AlertInv, CriticalAlerts
<1>8. RiskInv
  BY <1>1 DEF RiskInv
<1>9. QED
  BY <1>3, <1>4, <1>5, <1>6, <1>7, <1>8 DEF IInv

\* One more event in the file: what the file says of each process.
LEMMA HistoryStep ==
    ASSUME history \in Seq(Event), NEW ev \in Event, history' = Append(history, ev),
           NEW p \in Pids
    PROVE  /\ Touches(p)' # {} <=> Touches(p) # {} \/ (p = ev.pid /\ sensitive_access(ev))
           /\ Contacts(p)' # {} <=> Contacts(p) # {} \/ (p = ev.pid /\ destination_blocked(ev))
<1>1. /\ Len(history) \in Nat
      /\ DOMAIN history = 1..Len(history)
      /\ DOMAIN history' = 1..(Len(history) + 1)
      /\ \A i \in DOMAIN history : history'[i] = history[i]
      /\ history'[Len(history) + 1] = ev
  OBVIOUS
<1>2. DOMAIN history' = DOMAIN history \cup {Len(history) + 1}
  BY <1>1
<1>3. Touches(p)' # {} <=> Touches(p) # {} \/ (p = ev.pid /\ sensitive_access(ev))
  BY <1>1, <1>2 DEF Touches, EventsOf
<1>4. Contacts(p)' # {} <=> Contacts(p) # {} \/ (p = ev.pid /\ destination_blocked(ev))
  BY <1>1, <1>2 DEF Contacts, EventsOf
<1>5. QED
  BY <1>3, <1>4

\* The alert list after the alerts of one event.
LEMMA AlertsStep ==
    ASSUME alerts \in Seq(Alert), NEW s, NEW p \in Pids, NEW c \in BOOLEAN,
           RaisedBy(s, p, c), alerts' = alerts \o s
    PROVE  /\ alerts' \in Seq(Alert)
           /\ DOMAIN alerts \subseteq DOMAIN alerts'
           /\ \A i \in DOMAIN alerts : alerts'[i] = alerts[i]
           /\ \A i \in DOMAIN alerts' \ DOMAIN alerts :
                /\ s # <<>>
                /\ alerts'[i].pid = p
                /\ alerts'[i].severity = "critical" => c /\ i = Len(alerts) + Len(s)
           /\ c => /\ Len(alerts) + Len(s) \in DOMAIN alerts' \ DOMAIN alerts
                   /\ alerts'[Len(alerts) + Len(s)].severity = "critical"
<1>1. s \in Seq(Alert) /\ Len(s) \in Nat /\ Len(alerts) \in Nat
  BY DEF RaisedBy
<1>2. /\ alerts' \in Seq(Alert)
      /\ DOMAIN alerts = 1..Len(alerts)
      /\ DOMAIN alerts' = 1..(Len(alerts) + Len(s))
      /\ \A i \in DOMAIN alerts : alerts'[i] = alerts[i]
      /\ \A i \in 1..Len(s) : alerts'[Len(alerts) + i] = s[i]
  BY <1>1
<1>3. \A i \in DOMAIN alerts' \ DOMAIN alerts :
        /\ i - Len(alerts) \in 1..Len(s)
        /\ alerts'[i] = s[i - Len(alerts)]
        /\ i - Len(alerts) = Len(s) => i = Len(alerts) + Len(s)
  <2>1. SUFFICES ASSUME NEW i \in DOMAIN alerts' \ DOMAIN alerts
                 PROVE  /\ i - Len(alerts) \in 1..Len(s)
                        /\ alerts'[i] = s[i - Len(alerts)]
                        /\ i - Len(alerts) = Len(s) => i = Len(alerts) + Len(s)
    OBVIOUS
  <2>2. i \in Int /\ i > Len(alerts) /\ i <= Len(alerts) + Len(s)
    BY <1>1, <1>2
  <2>3. i - Len(alerts) \in 1..Len(s) /\ Len(alerts) + (i - Len(alerts)) = i
    BY <1>1, <2>2
  <2>4. QED
    BY <1>1, <1>2, <2>2, <2>3
<1>4. 1..Len(s) # {} => s # <<>>
  BY <1>1
<1>5. c => Len(s) > 0 /\ s[Len(s)].severity = "critical"
  BY DEF RaisedBy
<1>6. c => /\ Len(alerts) + Len(s) \in DOMAIN alerts' \ DOMAIN alerts
           /\ alerts'[Len(alerts) + Len(s)] = s[Len(s)]
  BY <1>1, <1>2, <1>5
<1>7. \A k \in 1..Len(s) : s[k].pid = p /\ (s[k].severity = "critical" => c /\ k = Len(s))
  BY DEF RaisedBy
<1>8. QED
  BY <1>2, <1>3, <1>4, <1>5, <1>6, <1>7

LEMMA ProcessEventInv ==
    ASSUME IInv, NEW line \in Lines, ProcessEvent(line)
    PROVE  IInv'
<1> DEFINE ev == EventOf(line)
           n  == node[ev.pid]
           m  == NodeAfter(ev)
           c  == Correlates(ev)
           s  == EventAlerts(ev)
<1>1. TypeOK /\ ModeInv /\ NodeInv /\ EmittedInv /\ AlertInv /\ RiskInv
  BY DEF IInv
<1>2. ev \in ParsedEvent /\ ev \in Event /\ ev.pid \in Pids
  BY ParsedEvents DEF ParsedEvent
<1>3. /\ reading /\ reading' = reading
      /\ policy_loaded' = policy_loaded /\ build_graph' = build_graph
      /\ window_events' = window_events /\ malformed_lines' = malformed_lines
      /\ events_processed' = events_processed + 1
      /\ pids' = IF build_graph THEN pids \cup {ev.pid} ELSE pids
      /\ node' = [node EXCEPT ![ev.pid] = m]
      /\ critical_emitted' = [critical_emitted EXCEPT ![ev.pid] = @ \/ c]
      /\ alerts' = alerts \o s
      /\ hits' = CountHits(ev)
      /\ AdvanceWindow(Len(s))
      /\ history' = Append(history, ev)
  BY DEF ProcessEvent, CanRead, optionVars
<1>4. /\ m \in Node
      /\ ~build_graph => m = n
      /\ m.touched_sensitive = (n.touched_sensitive \/ (policy_loaded /\ sensitive_access(ev)))
      /\ m.connected_blocked = (n.connected_blocked \/ (policy_loaded /\ destination_blocked(ev)))
      /\ m.connected_blocked =>
           /\ m.connected
           /\ m.connected_blocked_ip \/ m.connected_blocked_domain
  BY <1>1, <1>2, NodeStep
<1>5. RaisedBy(s, ev.pid, c) /\ c \in BOOLEAN
  BY <1>1, <1>2, EventAlertsRaised
<1>6. c <=> /\ policy_loaded
            /\ m.touched_sensitive /\ m.connected /\ m.connected_blocked
            /\ ~critical_emitted[ev.pid]
  BY DEF Correlates
<1>7. ~policy_loaded => s = <<>>
  BY DEF EventAlerts
<1>8. AdvanceWindow(Len(s)) => /\ current_window' \in [events : Nat, alerts : Nat]
                               /\ sliding' \in [closed : Nat, max : Nat, last : Nat]
  <2>1. Len(s) \in Nat
    BY <1>5 DEF RaisedBy
  <2>2. /\ current_window \in [events : Nat, alerts : Nat]
        /\ sliding \in [closed : Nat, max : Nat, last : Nat]
    BY <1>1 DEF TypeOK
  <2> HIDE DEF s
  <2>3. QED
    BY <2>1, <2>2 DEF AdvanceWindow, CloseWindow
<1>9. CountHits(ev) \in [{"watched_process", "sensitive_file", "blocked_destination", "correlated"} -> Nat]
  <2> DEFINE H == {"watched_process", "sensitive_file", "blocked_destination", "correlated"}
  <2>1. hits \in [H -> Nat]
    BY <1>1 DEF TypeOK
  <2>2. \A w \in H : hits[w] \in Nat
    BY <2>1
  <2>3. QED
    BY <2>2 DEF CountHits
<1>10. \A p \in Pids :
         /\ Touches(p)' # {} <=> Touches(p) # {} \/ (p = ev.pid /\ sensitive_access(ev))
         /\ Contacts(p)' # {} <=> Contacts(p) # {} \/ (p = ev.pid /\ destination_blocked(ev))
  BY <1>1, <1>2, <1>3, HistoryStep DEF TypeOK
<1> HIDE DEF ev, m, c, s
<1>11. /\ node \in [Pids -> Node] /\ critical_emitted \in [Pids -> BOOLEAN]
       /\ history \in Seq(Event) /\ alerts \in Seq(Alert)
       /\ node'[ev.pid] = m
       /\ critical_emitted'[ev.pid] = (critical_emitted[ev.pid] \/ c)
       /\ \A p \in Pids \ {ev.pid} : /\ node'[p] = node[p]
                                     /\ critical_emitted'[p] = critical_emitted[p]
  BY <1>1, <1>2, <1>3 DEF TypeOK
<1>12. /\ alerts' \in Seq(Alert)
       /\ DOMAIN alerts \subseteq DOMAIN alerts'
       /\ \A i \in DOMAIN alerts : alerts'[i] = alerts[i]
       /\ \A i \in DOMAIN alerts' \ DOMAIN alerts :
            /\ s # <<>>
            /\ alerts'[i].pid = ev.pid
            /\ alerts'[i].severity = "critical" => c /\ i = Len(alerts) + Len(s)
       /\ c => /\ Len(alerts) + Len(s) \in DOMAIN alerts' \ DOMAIN alerts
               /\ alerts'[Len(alerts) + Len(s)].severity = "critical"
  <2>1. alerts \in Seq(Alert) /\ ev.pid \in Pids
    BY <1>2, <1>11
  <2>2. alerts' = alerts \o s
    BY <1>3
  <2>3. RaisedBy(s, ev.pid, c) /\ c \in BOOLEAN
    BY <1>5
  <2>4. QED
    BY <2>1, <2>2, <2>3, AlertsStep
<1>13. TypeOK'
  <2>1. node' \in [Pids -> Node]
    BY <1>2, <1>3, <1>4, <1>11
  <2>2. critical_emitted' \in [Pids -> BOOLEAN]
    BY <1>2, <1>3, <1>5, <1>11
  <2>3. history' \in Seq(Event)
    BY <1>2, <1>3, <1>11
  <2>4. pids' \subseteq Pids
    BY <1>1, <1>2, <1>3 DEF TypeOK
  <2>5. events_processed' \in Nat /\ malformed_lines' \in Nat
    BY <1>1, <1>3 DEF TypeOK
  <2>6. /\ policy_loaded' \in BOOLEAN /\ build_graph' \in BOOLEAN /\ reading' \in BOOLEAN
        /\ window_events' \in WindowSizes
    BY <1>1, <1>3 DEF TypeOK
  <2>7. QED
    BY <1>3, <1>8, <1>9, <1>12, <2>1, <2>2, <2>3, <2>4, <2>5, <2>6 DEF TypeOK
<1>14. ModeInv'
  BY <1>1, <1>3 DEF ModeInv
<1>15. NodeInv'
  <2> SUFFICES ASSUME NEW p \in Pids
               PROVE  /\ p \notin pids' => node'[p] = ZeroNode
                      /\ node'[p].touched_sensitive <=> policy_loaded' /\ Touches(p)' # {}
                      /\ node'[p].connected_blocked <=> policy_loaded' /\ Contacts(p)' # {}
                      /\ node'[p].connected_blocked =>
                            /\ node'[p].connected
                            /\ node'[p].connected_blocked_ip \/ node'[p].connected_blocked_domain
    BY DEF NodeInv
  <2>1. /\ p \notin pids => node[p] = ZeroNode
        /\ node[p].touched_sensitive <=> policy_loaded /\ Touches(p) # {}
        /\ node[p].connected_blocked <=> policy_loaded /\ Contacts(p) # {}
        /\ node[p].connected_blocked =>
              /\ node[p].connected
              /\ node[p].connected_blocked_ip \/ node[p].connected_blocked_domain
    BY <1>1 DEF NodeInv
  <2>2. CASE p = ev.pid
    <3>1. p \notin pids' => node'[p] = ZeroNode
      BY <1>3, <1>4, <1>11, <2>1, <2>2
    <3>2. m.touched_sensitive <=> policy_loaded' /\ Touches(p)' # {}
      BY <1>3, <1>4, <1>10, <2>1, <2>2
    <3>3. m.connected_blocked <=> policy_loaded' /\ Contacts(p)' # {}
      BY <1>3, <1>4, <1>10, <2>1, <2>2
    <3>4. QED
      BY <1>4, <1>11, <2>2, <3>1, <3>2, <3>3
  <2>3. CASE p # ev.pid
    BY <1>3, <1>10, <1>11, <2>1, <2>3
  <2>4. QED
    BY <2>2, <2>3
<1>16. EmittedInv'
  <2> SUFFICES ASSUME NEW p \in Pids
               PROVE  critical_emitted'[p] <=>
                        node'[p].touched_sensitive /\ node'[p].connected_blocked
    BY DEF EmittedInv
  <2>1. critical_emitted[p] <=> node[p].touched_sensitive /\ node[p].connected_blocked
    BY <1>1 DEF EmittedInv
  <2>2. CASE p = ev.pid
    <3>1. critical_emitted[p] => m.touched_sensitive /\ m.connected_blocked
      BY <1>4, <2>1, <2>2
    <3>2. m.connected_blocked => m.connected /\ policy_loaded
      BY <1>1, <1>2, <1>4 DEF NodeInv
    <3>3. QED
      BY <1>6, <1>11, <2>2, <3>1, <3>2
  <2>3. CASE p # ev.pid
    BY <1>11, <2>1, <2>3
  <2>4. QED
    BY <2>2, <2>3
<1>17. AlertInv'
  <2>1. ~critical_emitted[ev.pid] => CriticalAlerts(ev.pid) = {}
    BY <1>1, <1>2 DEF AlertInv
  <2>2. \A i \in DOMAIN alerts' : alerts'[i].pid \in pids'
    <3> SUFFICES ASSUME NEW i \in DOMAIN alerts' PROVE alerts'[i].pid \in pids'
      OBVIOUS
    <3>1. CASE i \in DOMAIN alerts
      BY <1>1, <1>3, <1>12, <3>1 DEF AlertInv
    <3>2. CASE i \notin DOMAIN alerts
      BY <1>1, <1>3, <1>7, <1>12, <3>2 DEF ModeInv
    <3>3. QED
      BY <3>1, <3>2
  <2>3. \A p \in Pids : CriticalAlerts(p)' # {} <=> critical_emitted'[p]
    <3> SUFFICES ASSUME NEW p \in Pids
                 PROVE  CriticalAlerts(p)' # {} <=> critical_emitted'[p]
      OBVIOUS
    <3>1. CriticalAlerts(p) # {} <=> critical_emitted[p]
      BY <1>1 DEF AlertInv
    <3>2. CriticalAlerts(p)' # {} <=> CriticalAlerts(p) # {} \/ (p = ev.pid /\ c)
      BY <1>12 DEF CriticalAlerts
    <3>3. QED
      BY <1>11, <3>1, <3>2
  <2>4. \A i, j \in DOMAIN alerts' :
          /\ alerts'[i].severity = "critical" /\ alerts'[j].severity = "critical"
          /\ alerts'[i].pid = alerts'[j].pid
          => i = j
    <3> SUFFICES ASSUME NEW i \in DOMAIN alerts', NEW j \in DOMAIN alerts',
                        alerts'[i].severity = "critical", alerts'[j].severity = "critical",
                        alerts'[i].pid = alerts'[j].pid
                 PROVE  i = j
      OBVIOUS
    <3>1. \A k \in DOMAIN alerts' \ DOMAIN alerts :
            alerts'[k].severity = "critical" =>
              /\ k = Len(alerts) + Len(s) /\ alerts'[k].pid = ev.pid
              /\ CriticalAlerts(ev.pid) = {}
      BY <1>6, <1>12, <2>1
    <3>2. \A k \in DOMAIN alerts :
            alerts'[k].severity = "critical" => k \in CriticalAlerts(alerts'[k].pid)
      BY <1>12 DEF CriticalAlerts
    <3>3. CASE i \in DOMAIN alerts /\ j \in DOMAIN alerts
      BY <1>1, <1>12, <3>3 DEF AlertInv
    <3>4. QED
      BY <3>1, <3>2, <3>3
  <2>5. QED
    BY <2>2, <2>3, <2>4 DEF AlertInv
<1>18. RiskInv'
  BY <1>3 DEF RiskInv
<1>19. QED
  BY <1>13, <1>14, <1>15, <1>16, <1>17, <1>18 DEF IInv

\* r is n with another score and level.
Scored(r, n) ==
    \E score \in Int, level \in RiskLevel :
        r = [n EXCEPT !.risk_score = score, !.risk_level = level]

\* compute_risk_for_node writes the score and the level and reads neither.
LEMMA RiskOfNode ==
    ASSUME NEW n \in Node
    PROVE  LET r == compute_risk_for_node(n)
           IN  /\ r \in Node
               /\ Scored(r, n)
               /\ risk_sum(n) \in Int
               /\ r.risk_score = IF risk_sum(n) > 100 THEN 100 ELSE risk_sum(n)
               /\ r.risk_level = risk_level_from_score(r.risk_score)
               /\ risk_sum(r) = risk_sum(n)
               /\ compute_risk_for_node(r) = r
<1> DEFINE score == IF risk_sum(n) > 100 THEN 100 ELSE risk_sum(n)
           level == risk_level_from_score(score)
           m == compute_risk_for_node(n)
<1>1. \A w \in WeightNames : Weights[w] \in Int
  BY WeightsAssumption
<1>2. risk_sum(n) \in Int
  <2> DEFINE points(signal, weight) == IF signal THEN weight ELSE 0
             many == points(AtThreshold(Cardinality(n.destinations),
                                        Weights.high_unique_destination_threshold),
                            Weights.high_unique_destinations)
             often == points(AtThreshold(n.events_seen, Weights.high_event_volume_threshold),
                             Weights.high_event_volume)
             watched == points(n.watched, Weights.watched_process)
             file == points(n.touched_sensitive, Weights.sensitive_file)
             ip == points(n.connected_blocked_ip, Weights.blocked_ip)
             domain == points(n.connected_blocked_domain, Weights.blocked_domain)
             both == points(network_after_file(n), Weights.network_after_file)
  <2>1. risk_sum(n) = watched + file + ip + domain + both + many + often
    BY DEF risk_sum
  <2>2. watched \in Int /\ file \in Int
    BY <1>1 DEF WeightNames
  <2>3. ip \in Int /\ domain \in Int
    BY <1>1 DEF WeightNames
  <2>4. both \in Int
    BY <1>1 DEF WeightNames
  <2>5. many \in Int /\ often \in Int
    BY <1>1 DEF WeightNames
  <2> HIDE DEF watched, file, ip, domain, both, many, often
  <2> QED  BY <2>1, <2>2, <2>3, <2>4, <2>5
<1>3. score \in Int
  BY <1>2
<1>4. level \in RiskLevel
  BY <1>3 DEF risk_level_from_score, RiskLevel
<1>5. m = [n EXCEPT !.risk_score = score, !.risk_level = level]
  BY DEF compute_risk_for_node
<1> HIDE DEF score, level, m
<1>6. m \in Node /\ m.risk_score = score /\ m.risk_level = level /\ Scored(m, n)
  BY <1>3, <1>4, <1>5 DEF Node, Scored
<1>7. /\ m.watched = n.watched /\ m.touched_sensitive = n.touched_sensitive
      /\ m.connected = n.connected
      /\ m.connected_blocked_ip = n.connected_blocked_ip
      /\ m.connected_blocked_domain = n.connected_blocked_domain
      /\ m.destinations = n.destinations /\ m.events_seen = n.events_seen
  BY <1>5 DEF Node
<1>8. risk_sum(m) = risk_sum(n)
  BY <1>7 DEF risk_sum, network_after_file
<1>9. compute_risk_for_node(m) = [m EXCEPT !.risk_score = score, !.risk_level = level]
  BY <1>8 DEF compute_risk_for_node, score, level
<1>10. compute_risk_for_node(m) = m
  BY <1>6, <1>9 DEF Node
<1>11. /\ m.risk_score = IF risk_sum(n) > 100 THEN 100 ELSE risk_sum(n)
       /\ m.risk_level = risk_level_from_score(m.risk_score)
  BY <1>6 DEF score, level
<1>12. QED
  BY <1>2, <1>6, <1>8, <1>10, <1>11 DEF m

LEMMA ReportInv ==
    ASSUME IInv, Report
    PROVE  IInv'
<1>1. TypeOK /\ ModeInv /\ NodeInv /\ EmittedInv /\ AlertInv
  BY DEF IInv
<1>2. /\ reading' = FALSE
      /\ policy_loaded' = policy_loaded /\ build_graph' = build_graph
      /\ window_events' = window_events /\ pids' = pids
      /\ events_processed' = events_processed /\ malformed_lines' = malformed_lines
      /\ critical_emitted' = critical_emitted /\ hits' = hits
      /\ current_window' = current_window /\ history' = history
  BY DEF Report, optionVars
<1>3. /\ node' = IF policy_loaded THEN compute_risk_all ELSE node
      /\ alerts' = IF policy_loaded
                     THEN [i \in DOMAIN alerts |-> WithRisk(alerts[i], node')] ELSE alerts
      /\ sliding' = IF window_events > 0 /\ current_window.events > 0
                      THEN CloseWindow(current_window.alerts) ELSE sliding
  BY DEF Report
<1>4. node' \in [Pids -> Node] /\ \A p \in Pids :
        /\ p \notin pids => node'[p] = node[p]
        /\ p \in pids => node'[p] = IF policy_loaded THEN compute_risk_for_node(node[p])
                                                     ELSE node[p]
        /\ node'[p].touched_sensitive = node[p].touched_sensitive
        /\ node'[p].connected = node[p].connected
        /\ node'[p].connected_blocked = node[p].connected_blocked
        /\ node'[p].connected_blocked_ip = node[p].connected_blocked_ip
        /\ node'[p].connected_blocked_domain = node[p].connected_blocked_domain
  <2>1. node \in [Pids -> Node]
    BY <1>1 DEF TypeOK
  <2>2. CASE policy_loaded
    <3>1. node' = [p \in Pids |-> IF p \in pids THEN compute_risk_for_node(node[p]) ELSE node[p]]
      BY <1>3, <2>2 DEF compute_risk_all
    <3>2. \A p \in Pids :
            LET r == compute_risk_for_node(node[p])
            IN  r \in Node /\ Scored(r, node[p])
      BY <2>1, RiskOfNode
    <3>3. \A p \in Pids :
            LET r == compute_risk_for_node(node[p])
            IN  /\ r.touched_sensitive = node[p].touched_sensitive
                /\ r.connected = node[p].connected
                /\ r.connected_blocked = node[p].connected_blocked
                /\ r.connected_blocked_ip = node[p].connected_blocked_ip
                /\ r.connected_blocked_domain = node[p].connected_blocked_domain
      BY <2>1, <3>2, Zenon DEF Node, Scored
    <3>4. QED
      BY <2>1, <2>2, <3>1, <3>2, <3>3
  <2>3. CASE ~policy_loaded
    BY <1>3, <2>1, <2>3
  <2>4. QED
    BY <2>2, <2>3
<1>5. /\ alerts' \in Seq(Alert) /\ DOMAIN alerts' = DOMAIN alerts
      /\ \A i \in DOMAIN alerts :
           /\ alerts'[i].pid = alerts[i].pid /\ alerts'[i].severity = alerts[i].severity
           /\ policy_loaded => alerts'[i].risk_score = node'[alerts[i].pid].risk_score
  <2>1. alerts \in Seq(Alert) /\ DOMAIN alerts = 1..Len(alerts) /\ Len(alerts) \in Nat
    BY <1>1 DEF TypeOK
  <2>2. \A i \in DOMAIN alerts : alerts[i] \in Alert /\ alerts[i].pid \in pids
    BY <1>1, <2>1 DEF AlertInv
  <2>3. CASE policy_loaded
    <3>1. alerts' = [i \in 1..Len(alerts) |-> WithRisk(alerts[i], node')]
      BY <1>3, <2>1, <2>3
    <3>2. \A i \in DOMAIN alerts :
            WithRisk(alerts[i], node') =
              [alerts[i] EXCEPT !.risk_score = node'[alerts[i].pid].risk_score]
      BY <2>2 DEF WithRisk
    <3>3. \A i \in DOMAIN alerts : node'[alerts[i].pid].risk_score \in Int
      BY <1>4, <2>2 DEF Alert, Node
    <3>4. \A i \in DOMAIN alerts :
            /\ WithRisk(alerts[i], node') \in Alert
            /\ WithRisk(alerts[i], node').pid = alerts[i].pid
            /\ WithRisk(alerts[i], node').severity = alerts[i].severity
            /\ WithRisk(alerts[i], node').risk_score = node'[alerts[i].pid].risk_score
      BY <2>2, <3>2, <3>3 DEF Alert
    <3>5. alerts' \in Seq(Alert)
      BY <2>1, <3>1, <3>4
    <3>6. QED
      BY <2>1, <3>1, <3>4, <3>5
  <2>4. CASE ~policy_loaded
    BY <1>3, <2>1, <2>4
  <2>5. QED
    BY <2>3, <2>4
<1>6. sliding' \in [closed : Nat, max : Nat, last : Nat]
  BY <1>1, <1>3 DEF TypeOK, CloseWindow
<1>7. TypeOK'
  BY <1>1, <1>2, <1>4, <1>5, <1>6 DEF TypeOK
<1>8. ModeInv'
  BY <1>1, <1>2 DEF ModeInv
<1>9. \A p \in Pids : Touches(p)' = Touches(p) /\ Contacts(p)' = Contacts(p)
  BY <1>2 DEF Touches, Contacts, EventsOf
<1>10. NodeInv'
  BY <1>1, <1>2, <1>4, <1>9 DEF NodeInv
<1>11. EmittedInv'
  BY <1>1, <1>2, <1>4 DEF EmittedInv
<1>12. \A p \in Pids : CriticalAlerts(p)' = CriticalAlerts(p)
  BY <1>5 DEF CriticalAlerts
<1>13. AlertInv'
  BY <1>1, <1>2, <1>5, <1>12 DEF AlertInv
<1>14. RiskInv'
  <2>1. policy_loaded => \A p \in pids : node'[p] = compute_risk_for_node(node'[p])
    BY <1>1, <1>4, RiskOfNode DEF TypeOK
  <2>2. policy_loaded => \A i \in DOMAIN alerts' :
                           alerts'[i].risk_score = node'[alerts'[i].pid].risk_score
    BY <1>5
  <2>3. QED
    BY <1>2, <2>1, <2>2 DEF RiskInv
<1>15. QED
  BY <1>7, <1>8, <1>10, <1>11, <1>13, <1>14 DEF IInv

LEMMA MalformedLineInv ==
    ASSUME IInv, NEW line \in Lines, MalformedLine(line)
    PROVE  IInv'
<1>1. /\ malformed_lines' = malformed_lines + 1
      /\ UNCHANGED <<optionVars, pids, node, events_processed, reading, correlationVars>>
  BY DEF MalformedLine
<1>2. TypeOK'
  BY <1>1 DEF IInv, TypeOK, optionVars, correlationVars
<1>3. QED
  BY <1>1, <1>2 DEF IInv, ModeInv, NodeInv, EmittedInv, AlertInv, RiskInv, Touches, Contacts,
                    EventsOf, CriticalAlerts, optionVars, correlationVars

\* The inductive invariant holds in every reachable state.
THEOREM Invariant == Spec => []IInv
<1>1. Init => IInv
  BY InitInv
<1>2. IInv /\ [Next]_vars => IInv'
  <2> SUFFICES ASSUME IInv, [Next]_vars PROVE IInv'
    OBVIOUS
  <2>1. ASSUME NEW line \in Lines, ProcessEvent(line) PROVE IInv'
    BY <2>1, ProcessEventInv
  <2>2. ASSUME NEW line \in Lines, MalformedLine(line) PROVE IInv'
    BY <2>2, MalformedLineInv
  <2>3. CASE Report
    BY <2>3, ReportInv
  <2>4. CASE UNCHANGED vars
    <3>1. TypeOK'
      BY <2>4 DEF IInv, TypeOK, vars, graphVars, correlationVars
    <3>2. QED
      BY <2>4, <3>1 DEF IInv, ModeInv, NodeInv, EmittedInv, AlertInv, RiskInv, Touches, Contacts,
                        EventsOf, CriticalAlerts, vars, graphVars, correlationVars
  <2>5. QED
    BY <2>1, <2>2, <2>3, <2>4 DEF Next
<1>3. QED
  BY <1>1, <1>2, PTL DEF Spec

\* Type correctness: process_events keeps every variable in its type, the
\* counters in Nat and the nodes and alerts records of Node and Alert.
THEOREM TypeCorrect == Spec => []TypeOK
<1>1. IInv => TypeOK
  BY DEF IInv
<1>2. QED
  BY <1>1, Invariant, PTL

\* One critical alert per pid, exactly when its events hold both facts,
\* however they are ordered and interleaved with those of other pids.
THEOREM CriticalOnce == Spec => []CriticalOncePerProcess
<1>1. IInv => CriticalOncePerProcess
  <2> SUFFICES ASSUME IInv, NEW p \in Pids
               PROVE  /\ CriticalAlerts(p) # {} <=>
                           policy_loaded /\ Touches(p) # {} /\ Contacts(p) # {}
                      /\ \A i, j \in CriticalAlerts(p) : i = j
    BY DEF CriticalOncePerProcess
  <2>1. CriticalAlerts(p) # {} <=> policy_loaded /\ Touches(p) # {} /\ Contacts(p) # {}
    BY DEF IInv, NodeInv, EmittedInv, AlertInv
  <2>2. \A i, j \in CriticalAlerts(p) : i = j
    BY DEF IInv, AlertInv, CriticalAlerts
  <2>3. QED
    BY <2>1, <2>2
<1>2. QED
  BY <1>1, Invariant, PTL

\* The default weights satisfy the condition of CriticalAlertIsTopLevel.
THEOREM DefaultsWeigh == Weights = risk_weights_set_defaults => CorrelationWeighs
BY DEF risk_weights_set_defaults, CorrelationWeighs, WeightNames

LEMMA TopScore ==
    ASSUME CorrelationWeighs, NEW n \in Node, n.touched_sensitive, n.connected,
           n.connected_blocked_ip \/ n.connected_blocked_domain
    PROVE  risk_sum(n) >= 80
<1>1. \A w \in WeightNames : Weights[w] \in Int /\ Weights[w] >= 0
  BY WeightsAssumption DEF CorrelationWeighs
<1>2. /\ Weights.sensitive_file + Weights.blocked_ip + Weights.network_after_file >= 80
      /\ Weights.sensitive_file + Weights.blocked_domain + Weights.network_after_file >= 80
  BY DEF CorrelationWeighs
<1>3. network_after_file(n)
  BY DEF network_after_file
<1>4. QED
  BY <1>1, <1>2, <1>3 DEF risk_sum, WeightNames, Node

LEMMA CorrelatedScore ==
    ASSUME IInv, CorrelationWeighs, ~reading, NEW p \in Pids, CriticalAlerts(p) # {}
    PROVE  /\ p \in pids /\ policy_loaded
           /\ node[p] \in Node
           /\ node[p].risk_score >= 80
           /\ node[p].risk_level = risk_level_from_score(node[p].risk_score)
<1> DEFINE n == node[p]
<1>1. /\ n \in Node /\ policy_loaded
      /\ n.touched_sensitive /\ n.connected
      /\ n.connected_blocked_ip \/ n.connected_blocked_domain
  BY DEF IInv, TypeOK, NodeInv, EmittedInv, AlertInv
<1>2. p \in pids
  BY DEF IInv, AlertInv, CriticalAlerts
<1>3. n = compute_risk_for_node(n) /\ risk_sum(n) >= 80 /\ risk_sum(n) \in Int
  <2>1. n = compute_risk_for_node(n)
    BY <1>1, <1>2 DEF IInv, RiskInv
  <2> HIDE DEF n
  <2>2. QED
    BY <1>1, <2>1, TopScore, RiskOfNode
<1>4. n.risk_score >= 80 /\ n.risk_level = risk_level_from_score(n.risk_score)
  <2> HIDE DEF n
  <2>1. n.risk_score = IF risk_sum(n) > 100 THEN 100 ELSE risk_sum(n)
    BY <1>1, <1>3, RiskOfNode
  <2>2. n.risk_level = risk_level_from_score(n.risk_score)
    BY <1>1, <1>3, RiskOfNode
  <2>3. QED
    BY <1>3, <2>1, <2>2
<1>5. QED
  BY <1>1, <1>2, <1>4

\* In the final report a correlated process is at the top level and every
\* alert of it says so, for all weights that weigh the correlation.
THEOREM TopLevel == Spec => []CriticalAlertIsTopLevel
<1>1. IInv => CriticalAlertIsTopLevel
  <2> SUFFICES ASSUME IInv, CorrelationWeighs, ~reading, NEW p \in Pids, CriticalAlerts(p) # {}
               PROVE  /\ node[p].risk_level = "critical"
                      /\ \A i \in DOMAIN alerts :
                           alerts[i].pid = p => alerts[i].risk_score >= 80
    BY DEF CriticalAlertIsTopLevel
  <2> DEFINE n == node[p]
  <2>1. n \in Node /\ policy_loaded
    BY CorrelatedScore
  <2>2. n.risk_score >= 80 /\ n.risk_level = risk_level_from_score(n.risk_score)
    BY CorrelatedScore
  <2>3. n.risk_level = "critical"
    <3> DEFINE top == "critical"
    <3>1. \A score \in Int : score >= 80 => risk_level_from_score(score) = top
      BY DEF risk_level_from_score
    <3>2. n.risk_score \in Int
      BY <2>1 DEF Node
    <3> HIDE DEF n, top
    <3>3. n.risk_level = top
      BY <2>2, <3>1, <3>2
    <3>4. QED
      BY <3>3 DEF top
  <2>4. \A i \in DOMAIN alerts : alerts[i].risk_score = node[alerts[i].pid].risk_score
    BY <2>1 DEF IInv, RiskInv
  <2>5. QED
    BY <2>2, <2>3, <2>4
<1>2. QED
  BY <1>1, Invariant, PTL

\* A run keeps finitely many nodes.
FiniteInv == IsFiniteSet(pids)

LEMMA FinitelyManyNodes == Spec => []FiniteInv
<1>1. Init => FiniteInv
  BY FS_EmptySet DEF Init, GraphInit, FiniteInv
<1>2. FiniteInv /\ [Next]_vars => FiniteInv'
  <2> SUFFICES ASSUME IsFiniteSet(pids), [Next]_vars
               PROVE  IsFiniteSet(pids')
    BY DEF FiniteInv
  <2>1. CASE UNCHANGED vars
    BY <2>1 DEF vars, graphVars
  <2>2. ASSUME NEW line \in Lines, ProcessEvent(line)
        PROVE  IsFiniteSet(pids')
    <3>1. pids' = pids \/ pids' = pids \cup {EventOf(line).pid}
      BY <2>2 DEF ProcessEvent
    <3>2. QED
      BY <3>1, FS_AddElement
  <2>3. ASSUME NEW line \in Lines, MalformedLine(line)
        PROVE  IsFiniteSet(pids')
    BY <2>3 DEF MalformedLine
  <2>4. CASE Report
    BY <2>4 DEF Report
  <2>5. QED
    BY <2>1, <2>2, <2>3, <2>4 DEF Next
<1>3. QED
  BY <1>1, <1>2, PTL DEF Spec

\* The table of processes by risk leaves a correlated process out only when it is
\* full of processes at the top level, for every length of the table.
THEOREM RiskiestListed == Spec => []RiskiestAreListed
<1>1. IInv /\ FiniteInv => RiskiestAreListed
  <2> SUFFICES ASSUME IInv, IsFiniteSet(pids), CorrelationWeighs, ~reading,
                      NEW p \in Pids, CriticalAlerts(p) # {}, p \notin risk_summary
               PROVE  /\ Cardinality(risk_summary) >= TopItems
                      /\ \A q \in risk_summary : node[q].risk_score >= 80
    BY DEF RiskiestAreListed, FiniteInv
  <2> DEFINE listed == { q \in pids : node[q].risk_score > 0 }
             score == [q \in listed |-> node[q].risk_score]
             order == [q \in listed |-> q]
             shown == Shown(listed, score, order, TopItems)
  <2>1. risk_summary = shown /\ shown \subseteq listed
    BY DEF risk_summary, Shown
  <2>2. listed \in SUBSET pids /\ pids \subseteq Pids /\ Pids \subseteq Int
    <3>1. Pids \subseteq Int
      BY LinesAssumption DEF Pids
    <3>2. pids \subseteq Pids
      BY DEF IInv, TypeOK
    <3>3. QED
      BY <3>1, <3>2
  <2>3. IsFiniteSet(listed)
    BY <2>2, FS_Subset
  <2>4. \A q \in listed : node[q].risk_score \in Int
    BY <2>2 DEF IInv, TypeOK, Node
  <2>5. score \in [listed -> Int] /\ order \in [listed -> Int] /\ TopItems \in Nat
    BY <2>2, <2>4, TopItemsAssumption
  <2>6. p \in pids /\ node[p].risk_score >= 80 /\ node[p].risk_score \in Int
    BY CorrelatedScore DEF Node
  <2>7. p \in listed /\ score[p] >= 80 /\ p \notin shown
    BY <2>1, <2>6
  <2>. HIDE DEF listed, score, order
  <2>8. Cardinality(shown) >= TopItems
    BY <2>3, <2>5, <2>7, LeftOutOfFullTable
  <2>9. \A q \in shown : score[p] <= score[q]
    BY <2>3, <2>5, <2>7, LeftOutScoresLess
  <2>10. \A q \in shown : score[q] >= 80
    BY <2>1, <2>5, <2>7, <2>9
  <2>11. \A q \in shown : score[q] = node[q].risk_score
    BY <2>1 DEF score
  <2>12. QED
    BY <2>1, <2>8, <2>10, <2>11
<1>2. QED
  BY <1>1, Invariant, FinitelyManyNodes, PTL

\* Alerts are only appended; the report rewrites nothing but their score.
THEOREM AlertsKept == Spec => AlertsAreKept
<1> DEFINE Kept == /\ Len(alerts') >= Len(alerts)
                   /\ \A i \in DOMAIN alerts :
                        [alerts'[i] EXCEPT !.risk_score = 0] = [alerts[i] EXCEPT !.risk_score = 0]
                   /\ alerts' # alerts /\ reading' => Len(alerts') > Len(alerts)
<1>1. ASSUME IInv, [Next]_vars PROVE [Kept]_vars
  <2>1. alerts \in Seq(Alert) /\ Len(alerts) \in Nat
    BY <1>1 DEF IInv, TypeOK
  <2>2. ASSUME NEW line \in Lines, ProcessEvent(line) PROVE Kept
    <3> DEFINE ev == EventOf(line)
               s  == EventAlerts(ev)
    <3>1. ev \in ParsedEvent /\ ev.pid \in Pids
      BY ParsedEvents
    <3>2. RaisedBy(s, ev.pid, Correlates(ev)) /\ Correlates(ev) \in BOOLEAN
      BY <1>1, <3>1, EventAlertsRaised DEF IInv
    <3>3. alerts' = alerts \o s
      BY <2>2 DEF ProcessEvent
    <3>4. s \in Seq(Alert) /\ Len(s) \in Nat
      BY <3>2 DEF RaisedBy
    <3> HIDE DEF ev, s
    <3>5. Len(alerts') = Len(alerts) + Len(s) /\ \A i \in DOMAIN alerts : alerts'[i] = alerts[i]
      BY <2>1, <3>3, <3>4
    <3>6. Len(s) = 0 => alerts' = alerts
      BY <2>1, <3>3, <3>4
    <3>7. QED
      BY <2>1, <3>4, <3>5, <3>6
  <2>3. ASSUME NEW line \in Lines, MalformedLine(line) PROVE Kept
    <3>1. alerts' = alerts
      BY <2>3 DEF MalformedLine, correlationVars
    <3>2. QED
      BY <2>1, <3>1
  <2>4. CASE Report
    <3>1. reading' = FALSE
      BY <2>4 DEF Report
    <3>2. CASE policy_loaded
      <4>1. alerts' = [i \in DOMAIN alerts |-> WithRisk(alerts[i], node')]
        BY <2>4, <3>2 DEF Report
      <4>2. DOMAIN alerts = 1..Len(alerts)
        BY <2>1
      <4>3. Len(alerts') = Len(alerts)
        BY <2>1, <4>1, <4>2
      <4>4. \A i \in DOMAIN alerts : alerts[i] \in Alert
        BY <2>1
      <4>5. \A i \in DOMAIN alerts :
              [WithRisk(alerts[i], node') EXCEPT !.risk_score = 0]
                = [alerts[i] EXCEPT !.risk_score = 0]
        BY <4>4 DEF WithRisk, Alert
      <4>6. QED
        BY <2>1, <3>1, <4>1, <4>3, <4>5
    <3>3. CASE ~policy_loaded
      <4>1. alerts' = alerts
        BY <2>4, <3>3 DEF Report
      <4>2. QED
        BY <2>1, <4>1
    <3>4. QED
      BY <3>2, <3>3
  <2>5. QED
    BY <1>1, <2>2, <2>3, <2>4 DEF Next
<1>2. QED
  BY <1>1, Invariant, PTL DEF Spec, AlertsAreKept

-----------------------------------------------------------------------------
(* NodeReflectsHistory.  That a first destination is never moved needs to   *)
(* know that a node has one exactly when it has connected.                  *)

FirstDstInv == \A p \in Pids : node[p].connected <=> node[p].first_dst # ""
HistoryInv == NodeReflectsHistory /\ FirstDstInv

\* Every field of a node that graph_ingest_event leaves behind.
LEMMA IngestedFields ==
    ASSUME NEW n \in Node, NEW ev \in ParsedEvent, policy_loaded \in BOOLEAN
    PROVE  LET m == graph_ingest_event(n, ev)
               touch == policy_loaded /\ sensitive_access(ev)
               contact == policy_loaded /\ destination_blocked(ev)
           IN  /\ m.events_seen = n.events_seen + 1
               /\ m.connected = (n.connected \/ ev.dst # "")
               /\ m.first_sensitive_file = IF touch /\ ~n.touched_sensitive
                                             THEN ev.file ELSE n.first_sensitive_file
               /\ m.first_dst = IF ev.dst # "" /\ n.first_dst = "" THEN ev.dst ELSE n.first_dst
               /\ m.destinations = n.destinations
                                     \cup (IF ev.dst # "" THEN {ev.dst} ELSE {})
                                     \cup (IF contact THEN {matched_dst(ev)} ELSE {})
<1> DEFINE seen == [n EXCEPT !.events_seen = @ + 1]
           f == IngestFile(seen, ev)
           d == IngestDst(f, ev)
           w == IngestWatched(d, ev)
           m == IngestBlocked(w, ev)
           touch == policy_loaded /\ sensitive_access(ev)
           contact == policy_loaded /\ destination_blocked(ev)
<1>0. graph_ingest_event(n, ev) = m
  BY DEF graph_ingest_event
<1>1. /\ seen \in Node /\ seen.events_seen = n.events_seen + 1
      /\ seen.touched_sensitive = n.touched_sensitive
      /\ seen.connected = n.connected /\ seen.first_dst = n.first_dst
      /\ seen.first_sensitive_file = n.first_sensitive_file
      /\ seen.destinations = n.destinations
  BY DEF Node
<1> HIDE DEF seen
<1>2. /\ f \in Node /\ f.events_seen = seen.events_seen
      /\ f.connected = seen.connected /\ f.first_dst = seen.first_dst
      /\ f.first_sensitive_file = IF touch /\ ~seen.touched_sensitive
                                    THEN ev.file ELSE seen.first_sensitive_file
      /\ f.destinations = seen.destinations
  BY <1>1 DEF IngestFile, TouchSensitive, Node, ParsedEvent, Event
<1> HIDE DEF f
<1>3. /\ d \in Node /\ d.events_seen = f.events_seen
      /\ d.connected = (f.connected \/ ev.dst # "")
      /\ d.first_sensitive_file = f.first_sensitive_file
      /\ d.first_dst = IF ev.dst # "" /\ f.first_dst = "" THEN ev.dst ELSE f.first_dst
      /\ d.destinations = f.destinations \cup (IF ev.dst # "" THEN {ev.dst} ELSE {})
  BY <1>2 DEF IngestDst, Connect, Node, ParsedEvent, Event
<1> HIDE DEF d
<1>4. /\ w \in Node /\ w.events_seen = d.events_seen /\ w.connected = d.connected
      /\ w.first_sensitive_file = d.first_sensitive_file
      /\ w.first_dst = d.first_dst /\ w.destinations = d.destinations
  BY <1>3, DecisionsAreBoolean DEF IngestWatched, Node
<1> HIDE DEF w
<1>5. contact => ev.dst # "" /\ w.first_dst # ""
  <2>1. contact => ev.dst # ""
    BY MatchedDst
  <2>2. ev.dst # "" => d.first_dst # ""
    BY <1>3
  <2> QED
    BY <1>4, <2>1, <2>2
<1>6. CASE contact
  <2> DEFINE c == Connect(w, matched_dst(ev))
  <2>1. /\ c \in Node /\ c.events_seen = w.events_seen /\ c.connected = TRUE
        /\ c.first_sensitive_file = w.first_sensitive_file
        /\ c.first_dst = w.first_dst /\ c.destinations = w.destinations
    BY <1>4, <1>5, <1>6, MatchedDst DEF Connect, Node
  <2> HIDE DEF c
  <2>2. LET b == ContactBlocked(w, ev)
        IN  /\ b.events_seen = c.events_seen /\ b.connected = TRUE
            /\ b.first_sensitive_file = c.first_sensitive_file
            /\ b.first_dst = c.first_dst /\ b.destinations = c.destinations
            /\ DOMAIN b = DOMAIN c
    BY <2>1 DEF ContactBlocked, Node, c
  <2>3. DOMAIN c = DOMAIN w /\ "destinations" \in DOMAIN c
    BY <1>4, <2>1 DEF Node
  <2>4. m = [ContactBlocked(w, ev) EXCEPT !.destinations = @ \cup {matched_dst(ev)}]
    BY <1>6 DEF IngestBlocked
  <2> HIDE DEF m
  <2>5. /\ m.events_seen = w.events_seen /\ m.connected = TRUE
        /\ m.first_sensitive_file = w.first_sensitive_file
        /\ m.first_dst = w.first_dst
        /\ m.destinations = w.destinations \cup {matched_dst(ev)}
    BY <2>1, <2>2, <2>3, <2>4
  <2> QED
    BY <1>0, <1>1, <1>2, <1>3, <1>4, <1>5, <1>6, <2>5, Zenon
<1>7. CASE ~contact
  <2>1. m = w
    BY <1>7 DEF IngestBlocked
  <2> HIDE DEF m
  <2> QED
    BY <1>0, <1>1, <1>2, <1>3, <1>4, <1>7, <2>1
<1> QED
  BY <1>6, <1>7

LEMMA FoundFields ==
    ASSUME TypeOK, NodeInv, NEW ev \in ParsedEvent
    PROVE  LET g == graph_get_or_add(pids, node[ev.pid], ev)
               n == node[ev.pid]
           IN  /\ g.events_seen = n.events_seen
               /\ g.first_sensitive_file = n.first_sensitive_file
               /\ g.first_dst = n.first_dst
               /\ g.destinations = n.destinations
<1>1. node[ev.pid] \in Node /\ ev.pid \in Pids
  BY DEF TypeOK, ParsedEvent, Event
<1>2. CASE ev.pid \in pids
  BY <1>1, <1>2 DEF graph_get_or_add, Node
<1>3. CASE ev.pid \notin pids
  <2>1. node[ev.pid] = ZeroNode
    BY <1>1, <1>3 DEF NodeInv
  <2> QED
    BY <1>3, <2>1 DEF graph_get_or_add, ZeroNode
<1> QED
  BY <1>2, <1>3

\* What the file says of each process, with one more event in it.
LEMMA HistoryGrows ==
    ASSUME history \in Seq(Event), NEW ev \in Event, history' = Append(history, ev),
           NEW p \in Pids
    PROVE  LET last == Len(history) + 1
               new(cond) == IF p = ev.pid /\ cond THEN {last} ELSE {}
           IN  /\ EventsOf(p)' = EventsOf(p) \cup new(TRUE)
               /\ Touches(p)' = Touches(p) \cup new(sensitive_access(ev))
               /\ Contacts(p)' = Contacts(p) \cup new(destination_blocked(ev))
               /\ Connections(p)' = Connections(p) \cup new(ev.dst # "")
<1>1. /\ Len(history) \in Nat
      /\ DOMAIN history = 1..Len(history)
      /\ DOMAIN history' = DOMAIN history \cup {Len(history) + 1}
      /\ \A i \in DOMAIN history : history'[i] = history[i]
      /\ history'[Len(history) + 1] = ev
      /\ Len(history) + 1 \notin DOMAIN history
  OBVIOUS
<1> QED
  BY <1>1 DEF EventsOf, Touches, Contacts, Connections

LEMMA InitHistoryInv == Init => HistoryInv
<1> SUFFICES ASSUME Init PROVE HistoryInv
  OBVIOUS
<1>1. \A p \in Pids : /\ EventsOf(p) = {} /\ Touches(p) = {}
                      /\ Contacts(p) = {} /\ Connections(p) = {}
  BY DEF Init, EventsOf, Touches, Contacts, Connections
<1>2. pids = {} /\ node = [p \in Pids |-> ZeroNode]
  BY DEF Init, GraphInit
<1>3. NodeReflectsHistory
  BY <1>1, <1>2, FS_EmptySet DEF NodeReflectsHistory, ZeroNode
<1>4. FirstDstInv
  BY <1>2 DEF FirstDstInv, ZeroNode
<1> QED
  BY <1>3, <1>4 DEF HistoryInv

LEMMA ProcessEventHistory ==
    ASSUME IInv, HistoryInv, NEW line \in Lines, ProcessEvent(line)
    PROVE  HistoryInv'
<1> DEFINE ev == EventOf(line)
           n  == node[ev.pid]
           m  == NodeAfter(ev)
           last == Len(history) + 1
           touch == policy_loaded /\ sensitive_access(ev)
           contact == policy_loaded /\ destination_blocked(ev)
<1>1. TypeOK /\ ModeInv /\ NodeInv /\ NodeReflectsHistory /\ FirstDstInv
  BY DEF HistoryInv, IInv
<1>2. ev \in ParsedEvent /\ ev \in Event /\ ev.pid \in Pids
  BY ParsedEvents DEF ParsedEvent
<1>3. /\ policy_loaded' = policy_loaded /\ build_graph' = build_graph
      /\ pids' = IF build_graph THEN pids \cup {ev.pid} ELSE pids
      /\ node' = [node EXCEPT ![ev.pid] = m]
      /\ history' = Append(history, ev)
  BY DEF ProcessEvent, optionVars
<1>4. /\ history \in Seq(Event) /\ Len(history) \in Nat
      /\ DOMAIN history = 1..Len(history)
      /\ \A i \in DOMAIN history : history'[i] = history[i]
      /\ history'[last] = ev /\ last \notin DOMAIN history
      /\ last \in Nat /\ \A i \in DOMAIN history : i \in Nat /\ i < last
  BY <1>1, <1>2, <1>3 DEF TypeOK
<1>5. policy_loaded \in BOOLEAN /\ n \in Node /\ node \in [Pids -> Node]
  BY <1>1, <1>2 DEF TypeOK
<1>6. ASSUME NEW p \in Pids
      PROVE  /\ EventsOf(p)' = EventsOf(p) \cup (IF p = ev.pid THEN {last} ELSE {})
             /\ Touches(p)' = Touches(p)
                      \cup (IF p = ev.pid /\ sensitive_access(ev) THEN {last} ELSE {})
             /\ Contacts(p)' = Contacts(p)
                      \cup (IF p = ev.pid /\ destination_blocked(ev) THEN {last} ELSE {})
             /\ Connections(p)' = Connections(p)
                      \cup (IF p = ev.pid /\ ev.dst # "" THEN {last} ELSE {})
  BY <1>2, <1>3, <1>4, HistoryGrows
<1>7. \A p \in Pids : /\ EventsOf(p) \subseteq DOMAIN history
                      /\ Touches(p) \subseteq DOMAIN history
                      /\ Contacts(p) \subseteq DOMAIN history
                      /\ Connections(p) \subseteq DOMAIN history
  BY DEF EventsOf, Touches, Contacts, Connections
<1>8. CASE ~build_graph
  <2>1. m = n
    BY <1>8 DEF NodeAfter
  <2>2. node' = node
    BY <1>3, <1>5, <2>1
  <2> QED
    BY <1>1, <1>3, <1>8, <2>2 DEF HistoryInv, NodeReflectsHistory, FirstDstInv
<1>9. CASE build_graph
  <2> DEFINE g == graph_get_or_add(pids, n, ev)
  <2>1. m = graph_ingest_event(g, ev) /\ m \in Node
        /\ m.touched_sensitive = (n.touched_sensitive \/ touch)
        /\ m.connected_blocked = (n.connected_blocked \/ contact)
    BY <1>1, <1>2, <1>9, NodeStep
  <2>2. g \in Node /\ g.events_seen = n.events_seen /\ g.touched_sensitive = n.touched_sensitive
        /\ g.connected = n.connected /\ g.first_dst = n.first_dst
        /\ g.first_sensitive_file = n.first_sensitive_file /\ g.destinations = n.destinations
    BY <1>1, <1>2, FoundNode, FoundFields
  <2> HIDE DEF m, g
  <2>3. /\ m.events_seen = n.events_seen + 1
        /\ m.connected = (n.connected \/ ev.dst # "")
        /\ m.first_sensitive_file = IF touch /\ ~n.touched_sensitive
                                      THEN ev.file ELSE n.first_sensitive_file
        /\ m.first_dst = IF ev.dst # "" /\ n.first_dst = "" THEN ev.dst ELSE n.first_dst
        /\ m.destinations = n.destinations \cup (IF ev.dst # "" THEN {ev.dst} ELSE {})
                                           \cup (IF contact THEN {matched_dst(ev)} ELSE {})
    <3>1. /\ graph_ingest_event(g, ev).events_seen = g.events_seen + 1
          /\ graph_ingest_event(g, ev).connected = (g.connected \/ ev.dst # "")
          /\ graph_ingest_event(g, ev).first_sensitive_file =
               IF touch /\ ~g.touched_sensitive THEN ev.file ELSE g.first_sensitive_file
          /\ graph_ingest_event(g, ev).first_dst =
               IF ev.dst # "" /\ g.first_dst = "" THEN ev.dst ELSE g.first_dst
          /\ graph_ingest_event(g, ev).destinations =
               g.destinations \cup (IF ev.dst # "" THEN {ev.dst} ELSE {})
                              \cup (IF contact THEN {matched_dst(ev)} ELSE {})
      <4> HIDE DEF ev
      <4> QED
        BY <1>2, <1>5, <2>2, IngestedFields
    <3> QED
      BY <2>1, <2>2, <3>1
  <2>4. FirstDstInv'
    BY <1>1, <1>2, <1>3, <1>5, <2>3 DEF FirstDstInv, Node
  <2>5. ASSUME NEW p \in Pids, p # ev.pid
        PROVE  /\ node'[p] = node[p] /\ (p \in pids' <=> p \in pids)
               /\ EventsOf(p)' = EventsOf(p) /\ Touches(p)' = Touches(p)
               /\ Contacts(p)' = Contacts(p) /\ Connections(p)' = Connections(p)
    BY <1>3, <1>5, <1>6, <2>5
  <2> DEFINE q == ev.pid
  <2>6. node'[q] = m /\ q \in pids' /\ q \in Pids
    BY <1>2, <1>3, <1>5, <1>9
  <2>7. /\ q \in pids <=> EventsOf(q) # {}
        /\ n.events_seen = Cardinality(EventsOf(q))
        /\ n.touched_sensitive <=> policy_loaded /\ Touches(q) # {}
        /\ n.connected_blocked <=> policy_loaded /\ Contacts(q) # {}
        /\ n.connected <=> Connections(q) # {}
        /\ n.connected <=> n.first_dst # ""
        /\ \A i \in EventsOf(q) :
              n.touched_sensitive /\ i \in Touches(q) /\ (\A j \in Touches(q) : i <= j)
                => n.first_sensitive_file = history[i].file
        /\ \A i \in EventsOf(q) :
              i \in Connections(q) /\ (\A j \in Connections(q) : i <= j)
                => n.first_dst = history[i].dst
        /\ n.destinations = { history[i].dst : i \in Connections(q) }
                      \cup { matched_dst(history[i]) :
                                i \in IF policy_loaded THEN Contacts(q) ELSE {} }
    BY <1>1, <1>9, <2>6 DEF NodeReflectsHistory, FirstDstInv
  <2>8. /\ EventsOf(q)' = EventsOf(q) \cup {last}
        /\ Touches(q)' = Touches(q) \cup (IF sensitive_access(ev) THEN {last} ELSE {})
        /\ Contacts(q)' = Contacts(q) \cup (IF destination_blocked(ev) THEN {last} ELSE {})
        /\ Connections(q)' = Connections(q) \cup (IF ev.dst # "" THEN {last} ELSE {})
    BY <1>6, <2>6
  <2>9. /\ EventsOf(q) \subseteq DOMAIN history /\ Touches(q) \subseteq DOMAIN history
        /\ Contacts(q) \subseteq DOMAIN history /\ Connections(q) \subseteq DOMAIN history
    BY <1>7, <2>6
  <2> HIDE DEF q, n, last
  <2>10. m.events_seen = Cardinality(EventsOf(q)')
    <3>1. IsFiniteSet(DOMAIN history)
      BY <1>4, FS_Interval
    <3>2. IsFiniteSet(EventsOf(q))
      BY <2>9, <3>1, FS_Subset
    <3>3. Cardinality(EventsOf(q) \cup {last}) = Cardinality(EventsOf(q)) + 1
      BY <1>4, <2>9, <3>2, FS_AddElement
    <3> QED
      BY <2>3, <2>7, <2>8, <3>3
  <2>11. /\ m.touched_sensitive <=> policy_loaded /\ Touches(q)' # {}
         /\ m.connected_blocked <=> policy_loaded /\ Contacts(q)' # {}
         /\ m.connected <=> Connections(q)' # {}
    BY <2>1, <2>3, <2>7, <2>8
  <2>12. ASSUME NEW i \in EventsOf(q)', m.touched_sensitive,
                i \in Touches(q)', \A j \in Touches(q)' : i <= j
         PROVE  m.first_sensitive_file = history'[i].file
    <3>1. policy_loaded
      BY <2>11, <2>12
    <3>2. CASE i = last
      <4>1. ASSUME NEW j \in Touches(q) PROVE FALSE
        <5>1. j \in Touches(q)' /\ j \in DOMAIN history
          BY <2>8, <2>9
        <5>2. last <= j
          BY <2>12, <3>2, <5>1
        <5>3. j < last /\ j \in Nat /\ last \in Nat
          BY <1>4, <5>1
        <5> HIDE DEF ev
        <5> QED
          BY <5>2, <5>3
      <4>2. sensitive_access(ev)
        BY <2>8, <2>12, <4>1
      <4> QED
        BY <1>4, <2>3, <2>7, <3>1, <3>2, <4>1, <4>2
    <3>3. CASE i # last
      <4>1. i \in Touches(q) /\ i \in EventsOf(q) /\ i \in DOMAIN history
        BY <2>8, <2>9, <2>12, <3>3
      <4>2. n.touched_sensitive /\ m.first_sensitive_file = n.first_sensitive_file
        BY <2>3, <2>7, <3>1, <4>1
      <4>3. \A j \in Touches(q) : i <= j
        BY <2>8, <2>12
      <4> QED
        BY <1>4, <2>7, <4>1, <4>2, <4>3
    <3> QED
      BY <3>2, <3>3
  <2>13. ASSUME NEW i \in EventsOf(q)', i \in Connections(q)', \A j \in Connections(q)' : i <= j
         PROVE  m.first_dst = history'[i].dst
    <3>1. CASE i = last
      <4>1. ASSUME NEW j \in Connections(q) PROVE FALSE
        <5>1. j \in Connections(q)' /\ j \in DOMAIN history
          BY <2>8, <2>9
        <5>2. last <= j
          BY <2>13, <3>1, <5>1
        <5>3. j < last /\ j \in Nat /\ last \in Nat
          BY <1>4, <5>1
        <5> HIDE DEF ev
        <5> QED
          BY <5>2, <5>3
      <4>2. ev.dst # ""
        BY <2>8, <2>13, <4>1
      <4> QED
        BY <1>4, <2>3, <2>7, <3>1, <4>1, <4>2
    <3>2. CASE i # last
      <4>1. i \in Connections(q) /\ i \in EventsOf(q) /\ i \in DOMAIN history
        BY <2>8, <2>9, <2>13, <3>2
      <4>2. m.first_dst = n.first_dst
        BY <2>3, <2>7, <4>1
      <4>3. \A j \in Connections(q) : i <= j
        BY <2>8, <2>13
      <4> QED
        BY <1>4, <2>7, <4>1, <4>2, <4>3
    <3> QED
      BY <3>1, <3>2
  <2>14. m.destinations = { history'[i].dst : i \in Connections(q)' }
                    \cup { matched_dst(history'[i]) :
                              i \in IF policy_loaded THEN Contacts(q)' ELSE {} }
    <3>0. /\ \A i \in Connections(q) : history'[i] = history[i]
          /\ \A i \in Contacts(q) : history'[i] = history[i]
          /\ history'[last] = ev
      BY <1>4, <2>9
    <3> HIDE DEF ev
    <3>1. { history'[i].dst : i \in Connections(q)' } =
            { history[i].dst : i \in Connections(q) } \cup (IF ev.dst # "" THEN {ev.dst} ELSE {})
      BY <2>8, <3>0
    <3>2. { matched_dst(history'[i]) : i \in IF policy_loaded THEN Contacts(q)' ELSE {} } =
            { matched_dst(history[i]) : i \in IF policy_loaded THEN Contacts(q) ELSE {} }
              \cup (IF contact THEN {matched_dst(ev)} ELSE {})
      BY <2>8, <3>0
    <3> QED
      BY <2>3, <2>7, <3>1, <3>2
  <2>15. ASSUME NEW p \in Pids
         PROVE  LET IsFirst(i, S) == i \in S /\ \A j \in S : i <= j
                    k == node'[p]
                IN  /\ p \in pids' <=> EventsOf(p)' # {}
                    /\ k.events_seen = Cardinality(EventsOf(p)')
                    /\ k.touched_sensitive <=> policy_loaded /\ Touches(p)' # {}
                    /\ k.connected_blocked <=> policy_loaded /\ Contacts(p)' # {}
                    /\ k.connected <=> Connections(p)' # {}
                    /\ \A i \in EventsOf(p)' : k.touched_sensitive /\ IsFirst(i, Touches(p)')
                                               => k.first_sensitive_file = history'[i].file
                    /\ \A i \in EventsOf(p)' : IsFirst(i, Connections(p)')
                                               => k.first_dst = history'[i].dst
                    /\ k.destinations = { history'[i].dst : i \in Connections(p)' }
                             \cup { matched_dst(history'[i]) :
                                      i \in IF policy_loaded THEN Contacts(p)' ELSE {} }
    <3>1. CASE p = q
      <4>1. EventsOf(q)' # {}
        BY <2>8
      <4> QED
        BY <2>6, <2>10, <2>11, <2>12, <2>13, <2>14, <3>1, <4>1
    <3>2. CASE p # q
      <4>1. /\ node'[p] = node[p] /\ (p \in pids' <=> p \in pids)
            /\ EventsOf(p)' = EventsOf(p) /\ Touches(p)' = Touches(p)
            /\ Contacts(p)' = Contacts(p) /\ Connections(p)' = Connections(p)
        BY <2>5, <3>2 DEF q
      <4>2. \A i \in EventsOf(p) \cup Connections(p) \cup Contacts(p) : history'[i] = history[i]
        BY <1>4, <1>7
      <4>3. { history'[i].dst : i \in Connections(p) } = { history[i].dst : i \in Connections(p) }
        BY <4>2
      <4>4. { matched_dst(history'[i]) : i \in IF policy_loaded THEN Contacts(p) ELSE {} }
              = { matched_dst(history[i]) : i \in IF policy_loaded THEN Contacts(p) ELSE {} }
        BY <4>2
      <4> QED
        BY <1>1, <1>9, <4>1, <4>2, <4>3, <4>4 DEF NodeReflectsHistory
    <3> QED
      BY <3>1, <3>2
  <2> QED
    BY <1>3, <1>9, <2>4, <2>15 DEF HistoryInv, NodeReflectsHistory
<1> QED
  BY <1>1, <1>8, <1>9 DEF TypeOK

\* While the events read and the facts of the nodes stay, so does the invariant.
LEMMA HistoryStays ==
    ASSUME HistoryInv, UNCHANGED <<policy_loaded, build_graph, pids, history>>,
           \A p \in Pids : /\ node'[p].events_seen = node[p].events_seen
                           /\ node'[p].touched_sensitive = node[p].touched_sensitive
                           /\ node'[p].connected_blocked = node[p].connected_blocked
                           /\ node'[p].connected = node[p].connected
                           /\ node'[p].first_sensitive_file = node[p].first_sensitive_file
                           /\ node'[p].first_dst = node[p].first_dst
                           /\ node'[p].destinations = node[p].destinations
    PROVE  HistoryInv'
<1>1. \A p : /\ EventsOf(p)' = EventsOf(p) /\ Touches(p)' = Touches(p)
             /\ Contacts(p)' = Contacts(p) /\ Connections(p)' = Connections(p)
  BY DEF EventsOf, Touches, Contacts, Connections
<1>2. FirstDstInv'
  BY Zenon DEF HistoryInv, FirstDstInv
<1>3. NodeReflectsHistory'
  BY <1>1 DEF HistoryInv, NodeReflectsHistory
<1> QED
  BY <1>2, <1>3 DEF HistoryInv

\* The end of the file changes only the risk of a node.
LEMMA ReportHistory ==
    ASSUME IInv, HistoryInv, Report
    PROVE  HistoryInv'
<1> DEFINE Facts(k) == <<k.events_seen, k.touched_sensitive, k.connected_blocked, k.connected,
                         k.first_sensitive_file, k.first_dst, k.destinations>>
<1>1. TypeOK
  BY DEF IInv
<1>2. UNCHANGED <<policy_loaded, build_graph, pids, history>>
  BY DEF Report, optionVars
<1>3. \A k \in Node : Facts(compute_risk_for_node(k)) = Facts(k)
  BY DEF compute_risk_for_node, Node
<1>4. \A p \in Pids : Facts(node'[p]) = Facts(node[p])
  BY <1>1, <1>3 DEF Report, compute_risk_all, TypeOK
<1>5. \A p \in Pids : /\ node'[p].events_seen = node[p].events_seen
                      /\ node'[p].touched_sensitive = node[p].touched_sensitive
                      /\ node'[p].connected_blocked = node[p].connected_blocked
                      /\ node'[p].connected = node[p].connected
                      /\ node'[p].first_sensitive_file = node[p].first_sensitive_file
                      /\ node'[p].first_dst = node[p].first_dst
                      /\ node'[p].destinations = node[p].destinations
  BY <1>4
<1> HIDE DEF Facts
<1> QED
  BY <1>2, <1>5, HistoryStays

\* A node is what the events of its pid make it, whatever their order and
\* number (risk_reports.c:69-100, commands.c:54-83).
THEOREM NodesTellHistory == Spec => []NodeReflectsHistory
<1>1. IInv /\ HistoryInv /\ [Next]_vars => HistoryInv'
  <2> SUFFICES ASSUME IInv, HistoryInv, [Next]_vars PROVE HistoryInv'
    OBVIOUS
  <2>1. ASSUME NEW line \in Lines, ProcessEvent(line) PROVE HistoryInv'
    BY <2>1, ProcessEventHistory
  <2>2. CASE Report
    BY <2>2, ReportHistory
  <2>3. CASE UNCHANGED <<policy_loaded, build_graph, pids, node, history>>
    BY <2>3, HistoryStays
  <2>4. ASSUME NEW line \in Lines, MalformedLine(line)
        PROVE  UNCHANGED <<policy_loaded, build_graph, pids, node, history>>
    BY <2>4 DEF MalformedLine, optionVars, correlationVars
  <2>5. UNCHANGED vars => UNCHANGED <<policy_loaded, build_graph, pids, node, history>>
    BY DEF vars, graphVars, correlationVars
  <2> QED
    BY <2>1, <2>2, <2>3, <2>4, <2>5 DEF Next
<1>2. HistoryInv => NodeReflectsHistory
  BY DEF HistoryInv
<1> QED
  BY <1>1, <1>2, InitHistoryInv, Invariant, PTL DEF Spec

-----------------------------------------------------------------------------
(***************************************************************************)
(* The counts.  Due[i], the alerts event i should raise, is fixed once the *)
(* event is read; each counter is a sum of it over the events so far.      *)
(***************************************************************************)
Due == [i \in DOMAIN history |-> AlertsDue(i)]

Emitted == { p \in Pids : critical_emitted[p] }

CountInv ==
    /\ events_processed = Len(history)
    /\ Len(alerts) = SumOver(Due, DOMAIN history)
    /\ Len(alerts) = hits.watched_process + hits.sensitive_file
                       + hits.blocked_destination + hits.correlated
    /\ IsFiniteSet(Emitted) /\ hits.correlated = Cardinality(Emitted)

LEMMA DueIsNat ==
    ASSUME NEW i
    PROVE  AlertsDue(i) \in Nat
BY DEF AlertsDue

LEMMA OneOrNone ==
    ASSUME NEW a, NEW cond
    PROVE  LET s == IF cond THEN <<a>> ELSE <<>>
           IN  Len(s) = (IF cond THEN 1 ELSE 0) /\ s \in Seq({a})
<1>1. CASE cond
  BY <1>1
<1>2. CASE ~ cond
  BY <1>2
<1> QED BY <1>1, <1>2

\* What an event raises is what it is due, and what the four counters add.
LEMMA RaisesWhatIsDue ==
    ASSUME IInv, NEW line \in Lines, ProcessEvent(line), NEW last, last = Len(history) + 1
    PROVE  LET ev == EventOf(line)
           IN  /\ AlertsDue(last)' = Len(EventAlerts(ev)) /\ Len(EventAlerts(ev)) \in Nat
               /\ hits'.watched_process + hits'.sensitive_file
                    + hits'.blocked_destination + hits'.correlated
                  = hits.watched_process + hits.sensitive_file
                    + hits.blocked_destination + hits.correlated + Len(EventAlerts(ev))
               /\ hits'.correlated = hits.correlated + IF Correlates(ev) THEN 1 ELSE 0
               /\ Correlates(ev) => policy_loaded /\ ~ critical_emitted[ev.pid]
<1> DEFINE ev == EventOf(line)
           m == NodeAfter(ev)
           w == policy_is_watched_process(ev.process)
           t == sensitive_access(ev)
           b == destination_blocked(ev)
           c == Correlates(ev)
           one(cond) == IF policy_loaded /\ cond THEN 1 ELSE 0
<1>1. TypeOK /\ ModeInv /\ NodeInv /\ EmittedInv
  BY DEF IInv
<1>2. ev \in ParsedEvent /\ ev \in Event /\ ev.pid \in Pids
  BY ParsedEvents DEF ParsedEvent
<1>3. /\ history \in Seq(Event) /\ history' = Append(history, ev)
      /\ policy_loaded' = policy_loaded /\ hits' = CountHits(ev)
  BY <1>1 DEF ProcessEvent, TypeOK, optionVars
<1>4. /\ Len(history) \in Nat /\ DOMAIN history = 1..Len(history)
      /\ history'[last] = ev
  BY <1>3
<1>5. c <=> /\ policy_loaded
            /\ m.touched_sensitive /\ m.connected /\ m.connected_blocked
            /\ ~ critical_emitted[ev.pid]
  BY DEF Correlates
<1>6. /\ m.touched_sensitive = (node[ev.pid].touched_sensitive \/ (policy_loaded /\ t))
      /\ m.connected_blocked = (node[ev.pid].connected_blocked \/ (policy_loaded /\ b))
      /\ m.connected_blocked => m.connected
  BY <1>1, <1>2, NodeStep
<1>7. /\ Touches(ev.pid)' = Touches(ev.pid) \cup (IF t THEN {last} ELSE {})
      /\ Contacts(ev.pid)' = Contacts(ev.pid) \cup (IF b THEN {last} ELSE {})
  BY <1>2, <1>3, HistoryGrows
<1>8. /\ Touches(ev.pid) \subseteq 1..Len(history) /\ Contacts(ev.pid) \subseteq 1..Len(history)
  BY <1>4 DEF Touches, Contacts, EventsOf
<1> DEFINE both(S) == S \cap Touches(ev.pid)' # {} /\ S \cap Contacts(ev.pid)' # {}
<1>9. /\ 1..last = (1..Len(history)) \cup {last} /\ 1..(last - 1) = 1..Len(history)
      /\ last \notin 1..Len(history)
  BY <1>4
<1>10. /\ both(1..last) <=> (Touches(ev.pid) # {} \/ t) /\ (Contacts(ev.pid) # {} \/ b)
       /\ both(1..(last - 1)) <=> Touches(ev.pid) # {} /\ Contacts(ev.pid) # {}
  BY <1>7, <1>8, <1>9
<1>11. c <=> policy_loaded /\ both(1..last) /\ ~ both(1..(last - 1))
  <2>1. /\ node[ev.pid].touched_sensitive <=> policy_loaded /\ Touches(ev.pid) # {}
        /\ node[ev.pid].connected_blocked <=> policy_loaded /\ Contacts(ev.pid) # {}
        /\ critical_emitted[ev.pid] <=>
             node[ev.pid].touched_sensitive /\ node[ev.pid].connected_blocked
    BY <1>1, <1>2 DEF NodeInv, EmittedInv
  <2> HIDE DEF m, t, b, c, ev, both
  <2> QED BY <1>5, <1>6, <1>10, <2>1
<1>12. AlertsDue(last)' = one(w) + one(t) + one(b) + one(both(1..last) /\ ~ both(1..(last - 1)))
  <2>1. history'[last].pid = ev.pid /\ history'[last].process = ev.process
    BY <1>4
  <2>2. /\ sensitive_access(history'[last]) <=> t
        /\ destination_blocked(history'[last]) <=> b
        /\ policy_is_watched_process(history'[last].process) <=> w
    BY <1>4
  <2> QED BY <1>3, <1>4, <2>1, <2>2 DEF AlertsDue
<1>13. one(both(1..last) /\ ~ both(1..(last - 1))) = one(c)
  BY <1>11
<1>14. Len(EventAlerts(ev)) = one(w) + one(t) + one(b) + one(c)
  <2> DEFINE a1 == alert_add("low", ev, "", "")
             a2 == alert_add("medium", ev, ev.file, "")
             a3 == alert_add("high", ev, "", matched_dst(ev))
             a4 == alert_add("critical", ev, m.first_sensitive_file, m.first_dst)
             given(cond, a) == IF policy_loaded /\ cond THEN <<a>> ELSE <<>>
  <2>1. EventAlerts(ev) = given(w, a1) \o given(t, a2) \o given(b, a3) \o given(c, a4)
    BY DEF EventAlerts
  <2> HIDE DEF a1, a2, a3, a4, w, t, b, c
  <2>2. /\ Len(given(w, a1)) = one(w) /\ Len(given(t, a2)) = one(t)
        /\ Len(given(b, a3)) = one(b) /\ Len(given(c, a4)) = one(c)
        /\ given(w, a1) \in Seq({a1}) /\ given(t, a2) \in Seq({a2})
        /\ given(b, a3) \in Seq({a3}) /\ given(c, a4) \in Seq({a4})
    <3>1. Len(given(w, a1)) = one(w) /\ given(w, a1) \in Seq({a1})
      BY OneOrNone
    <3>2. Len(given(t, a2)) = one(t) /\ given(t, a2) \in Seq({a2})
      BY OneOrNone
    <3>3. Len(given(b, a3)) = one(b) /\ given(b, a3) \in Seq({a3})
      BY OneOrNone
    <3>4. Len(given(c, a4)) = one(c) /\ given(c, a4) \in Seq({a4})
      BY OneOrNone
    <3> HIDE DEF given, one
    <3> QED BY <3>1, <3>2, <3>3, <3>4
  <2> HIDE DEF given
  <2> DEFINE A == {a1, a2, a3, a4}
             s1 == given(w, a1)
             s2 == given(t, a2)
             s3 == given(b, a3)
             s4 == given(c, a4)
  <2>3. s1 \in Seq(A) /\ s2 \in Seq(A) /\ s3 \in Seq(A) /\ s4 \in Seq(A)
    BY <2>2
  <2>4. /\ Len(s1) = one(w) /\ Len(s2) = one(t) /\ Len(s3) = one(b) /\ Len(s4) = one(c)
        /\ EventAlerts(ev) = s1 \o s2 \o s3 \o s4
    BY <2>1, <2>2
  <2> HIDE DEF A, s1, s2, s3, s4, one
  <2>5. Len(s1 \o s2 \o s3 \o s4) = Len(s1) + Len(s2) + Len(s3) + Len(s4)
    BY <2>3
  <2> QED BY <2>4, <2>5
<1>15. /\ hits'.watched_process = hits.watched_process + one(w)
       /\ hits'.sensitive_file = hits.sensitive_file + one(t)
       /\ hits'.blocked_destination = hits.blocked_destination + one(b)
       /\ hits'.correlated = hits.correlated + one(c)
  BY <1>3 DEF CountHits
<1>16. /\ hits.watched_process \in Nat /\ hits.sensitive_file \in Nat
       /\ hits.blocked_destination \in Nat /\ hits.correlated \in Nat
  BY <1>1 DEF TypeOK
<1>17. one(c) = IF c THEN 1 ELSE 0
  BY <1>5
<1>18. one(w) \in Nat /\ one(t) \in Nat /\ one(b) \in Nat /\ one(c) \in Nat
  OBVIOUS
<1> DEFINE ow == one(w)
           ot == one(t)
           ob == one(b)
           oc == one(c)
<1>19. /\ AlertsDue(last)' = ow + ot + ob + oc /\ Len(EventAlerts(ev)) = ow + ot + ob + oc
       /\ hits'.correlated = hits.correlated + IF c THEN 1 ELSE 0
  BY <1>12, <1>13, <1>14, <1>15, <1>17
<1>20. c => policy_loaded /\ ~ critical_emitted[ev.pid]
  BY <1>5
<1>21. /\ ow \in Nat /\ ot \in Nat /\ ob \in Nat /\ oc \in Nat
       /\ hits'.watched_process = hits.watched_process + ow
       /\ hits'.sensitive_file = hits.sensitive_file + ot
       /\ hits'.blocked_destination = hits.blocked_destination + ob
       /\ hits'.correlated = hits.correlated + oc
  BY <1>15, <1>18
<1> HIDE DEF ow, ot, ob, oc
<1>22. hits'.watched_process + hits'.sensitive_file
         + hits'.blocked_destination + hits'.correlated
       = hits.watched_process + hits.sensitive_file
         + hits.blocked_destination + hits.correlated + (ow + ot + ob + oc)
  <2>1. \A a, d, e, f, p, q, x, y \in Int :
          (a + p) + (d + q) + (e + x) + (f + y) = a + d + e + f + (p + q + x + y)
    OBVIOUS
  <2> DEFINE h1 == hits.watched_process
             h2 == hits.sensitive_file
             h3 == hits.blocked_destination
             h4 == hits.correlated
             g1 == hits'.watched_process
             g2 == hits'.sensitive_file
             g3 == hits'.blocked_destination
             g4 == hits'.correlated
  <2>2. /\ h1 \in Int /\ h2 \in Int /\ h3 \in Int /\ h4 \in Int
        /\ ow \in Int /\ ot \in Int /\ ob \in Int /\ oc \in Int
        /\ g1 = h1 + ow /\ g2 = h2 + ot /\ g3 = h3 + ob /\ g4 = h4 + oc
    BY <1>16, <1>21
  <2> HIDE DEF h1, h2, h3, h4, g1, g2, g3, g4, one, ev, m, w, t, b, c, both
  <2>3. g1 + g2 + g3 + g4 = h1 + h2 + h3 + h4 + (ow + ot + ob + oc)
    BY <2>1, <2>2
  <2> QED BY <2>3 DEF h1, h2, h3, h4, g1, g2, g3, g4
<1>23. hits'.watched_process + hits'.sensitive_file
         + hits'.blocked_destination + hits'.correlated
       = hits.watched_process + hits.sensitive_file
         + hits.blocked_destination + hits.correlated + Len(EventAlerts(ev))
  BY <1>19, <1>22
<1>24. AlertsDue(last)' = Len(EventAlerts(ev))
  BY <1>19
<1>25. Len(EventAlerts(ev)) \in Nat
  BY <1>19, <1>21
<1> HIDE DEF ev
<1>26. /\ AlertsDue(last)' = Len(EventAlerts(ev)) /\ Len(EventAlerts(ev)) \in Nat
       /\ hits'.watched_process + hits'.sensitive_file
            + hits'.blocked_destination + hits'.correlated
          = hits.watched_process + hits.sensitive_file
            + hits.blocked_destination + hits.correlated + Len(EventAlerts(ev))
       /\ hits'.correlated = hits.correlated + IF c THEN 1 ELSE 0
       /\ c => policy_loaded /\ ~ critical_emitted[ev.pid]
  BY <1>19, <1>20, <1>23, <1>24, <1>25
<1> QED BY <1>26 DEF ev, c

\* What earlier events are due stays.
LEMMA DueStays ==
    ASSUME history \in Seq(Event), NEW ev \in Event, history' = Append(history, ev),
           policy_loaded' = policy_loaded, NEW i \in DOMAIN history
    PROVE  AlertsDue(i)' = AlertsDue(i)
<1>1. /\ Len(history) \in Nat /\ DOMAIN history = 1..Len(history)
      /\ history'[i] = history[i] /\ i \in 1..Len(history)
  OBVIOUS
<1>2. PICK p \in Pids : history[i].pid = p
  <2>1. history[i] \in Event
    BY <1>1
  <2> QED BY <2>1 DEF Event
<1>0. PICK last : last = Len(history) + 1
  OBVIOUS
<1>3. /\ \A S \in SUBSET (1..i) : S \cap Touches(p)' = S \cap Touches(p)
      /\ \A S \in SUBSET (1..i) : S \cap Contacts(p)' = S \cap Contacts(p)
  <2>1. last \notin 1..i
    BY <1>0, <1>1
  <2>2. /\ Touches(p)' \subseteq Touches(p) \cup {last} /\ Touches(p) \subseteq Touches(p)'
        /\ Contacts(p)' \subseteq Contacts(p) \cup {last} /\ Contacts(p) \subseteq Contacts(p)'
    <3>1. \A q \in Pids : LET new(cond) == IF q = ev.pid /\ cond THEN {last} ELSE {}
                          IN  /\ Touches(q)' = Touches(q) \cup new(sensitive_access(ev))
                              /\ Contacts(q)' = Contacts(q) \cup new(destination_blocked(ev))
      BY <1>0, HistoryGrows
    <3> QED BY <1>2, <3>1
  <2> QED BY <2>1, <2>2
<1>4. /\ (1..i) \cap Touches(p)' = (1..i) \cap Touches(p)
      /\ (1..i) \cap Contacts(p)' = (1..i) \cap Contacts(p)
      /\ (1..(i - 1)) \cap Touches(p)' = (1..(i - 1)) \cap Touches(p)
      /\ (1..(i - 1)) \cap Contacts(p)' = (1..(i - 1)) \cap Contacts(p)
  <2>1. 1..(i - 1) \in SUBSET (1..i) /\ 1..i \in SUBSET (1..i)
    BY <1>1
  <2> QED BY <1>3, <2>1
<1>5. /\ history'[i] = history[i] /\ history'[i].pid = p /\ history[i].pid = p
      /\ sensitive_access(history'[i]) <=> sensitive_access(history[i])
      /\ destination_blocked(history'[i]) <=> destination_blocked(history[i])
      /\ policy_is_watched_process(history'[i].process) <=> policy_is_watched_process(history[i].process)
  BY <1>1, <1>2
<1> QED BY <1>4, <1>5 DEF AlertsDue

LEMMA DueUnchanged ==
    ASSUME history' = history, policy_loaded' = policy_loaded
    PROVE  Due' = Due
BY DEF Due, AlertsDue, Touches, Contacts, EventsOf

\* The sums over the events read are those of before, and the new event adds
\* what it is due.
LEMMA DueGrows ==
    ASSUME TypeOK, NEW ev \in Event, history' = Append(history, ev),
           policy_loaded' = policy_loaded, NEW last, last = Len(history) + 1
    PROVE  /\ DOMAIN history = 1..Len(history) /\ Len(history) \in Nat
           /\ DOMAIN history' = DOMAIN history \cup {last} /\ Len(history') = last
           /\ \A S \in SUBSET DOMAIN history :
                 /\ SumOver(Due', S) = SumOver(Due, S)
                 /\ SumOver(Due', S \cup {last}) = SumOver(Due, S) + AlertsDue(last)'
                 /\ SumOver(Due, S) \in Int
<1>1. /\ history \in Seq(Event)
      /\ Len(history) \in Nat /\ DOMAIN history = 1..Len(history)
      /\ DOMAIN history' = DOMAIN history \cup {last} /\ Len(history') = last
      /\ last \notin DOMAIN history
  BY DEF TypeOK
<1>2. \A i \in DOMAIN history : AlertsDue(i)' = AlertsDue(i)
  BY <1>1, DueStays
<1>3. /\ \A i \in DOMAIN history : Due[i] = AlertsDue(i)
      /\ \A i \in DOMAIN history' : Due'[i] = AlertsDue(i)'
  BY DEF Due
<1>4. /\ \A i \in DOMAIN history : AlertsDue(i) \in Nat
      /\ \A i \in DOMAIN history' : AlertsDue(i)' \in Nat
  BY DueIsNat DEF AlertsDue
<1> SUFFICES ASSUME NEW S \in SUBSET DOMAIN history
             PROVE  /\ SumOver(Due', S) = SumOver(Due, S)
                    /\ SumOver(Due', S \cup {last}) = SumOver(Due, S) + AlertsDue(last)'
                    /\ SumOver(Due, S) \in Int
  BY <1>1
<1> DEFINE f == Due
           g == Due'
<1>5. /\ \A i \in S : f[i] = g[i] /\ f[i] \in Int /\ g[i] \in Int
      /\ g[last] = AlertsDue(last)' /\ g[last] \in Int
  BY <1>1, <1>2, <1>3, <1>4
<1>6. IsFiniteSet(S) /\ last \notin S
  <2>1. IsFiniteSet(1..Len(history))
    BY <1>1, FS_Interval
  <2>2. S \subseteq 1..Len(history) /\ last \notin S
    BY <1>1
  <2> QED BY <2>1, <2>2, FS_Subset
<1> HIDE DEF f, g
<1>7. SumOver(f, S) = SumOver(g, S) /\ SumOver(f, S) \in Int
  BY <1>5, <1>6, SumSame, SumIsInt
<1>8. SumOver(g, S \cup {last}) = SumOver(g, S) + g[last]
  BY <1>5, <1>6, SumPut
<1> QED BY <1>5, <1>7, <1>8 DEF f, g

LEMMA InitCountInv == Init => CountInv
<1> SUFFICES ASSUME Init PROVE CountInv
  OBVIOUS
<1>1. events_processed = 0 /\ history = <<>> /\ alerts = <<>>
  BY DEF Init, GraphInit
<1>2. DOMAIN history = {} /\ Len(history) = 0 /\ Len(alerts) = 0
  BY <1>1
<1>3. SumOver(Due, {}) = 0
  BY SumOfNone
<1>4. Emitted = {}
  BY DEF Init, Emitted
<1>5. /\ hits.watched_process = 0 /\ hits.sensitive_file = 0
      /\ hits.blocked_destination = 0 /\ hits.correlated = 0
  BY DEF Init
<1>6. IsFiniteSet({}) /\ Cardinality({}) = 0
  BY FS_EmptySet
<1>7. Len(alerts) = hits.watched_process + hits.sensitive_file
                       + hits.blocked_destination + hits.correlated
  BY <1>2, <1>5
<1> QED BY <1>1, <1>2, <1>3, <1>4, <1>5, <1>6, <1>7 DEF CountInv

LEMMA ProcessEventCount ==
    ASSUME IInv, CountInv, NEW line \in Lines, ProcessEvent(line)
    PROVE  CountInv'
<1> DEFINE ev == EventOf(line)
<1>0. PICK last : last = Len(history) + 1
  OBVIOUS
<1>1. /\ ev \in Event /\ ev \in ParsedEvent /\ ev.pid \in Pids
      /\ TypeOK /\ ModeInv /\ NodeInv
  BY ParsedEvents DEF ParsedEvent, IInv
<1>2. /\ history' = Append(history, ev) /\ policy_loaded' = policy_loaded
      /\ alerts' = alerts \o EventAlerts(ev)
      /\ events_processed' = events_processed + 1
      /\ critical_emitted' = [critical_emitted EXCEPT ![ev.pid] = @ \/ Correlates(ev)]
  BY DEF ProcessEvent, optionVars
<1>3. /\ DOMAIN history' = DOMAIN history \cup {last} /\ Len(history') = last
      /\ SumOver(Due', DOMAIN history \cup {last})
           = SumOver(Due, DOMAIN history) + AlertsDue(last)'
  <2>1. DOMAIN history \in SUBSET DOMAIN history
    OBVIOUS
  <2> HIDE DEF ev
  <2> QED BY <1>0, <1>1, <1>2, <2>1, DueGrows
<1>4. /\ AlertsDue(last)' = Len(EventAlerts(ev)) /\ Len(EventAlerts(ev)) \in Nat
      /\ hits'.watched_process + hits'.sensitive_file
           + hits'.blocked_destination + hits'.correlated
         = hits.watched_process + hits.sensitive_file
           + hits.blocked_destination + hits.correlated + Len(EventAlerts(ev))
      /\ hits'.correlated = hits.correlated + IF Correlates(ev) THEN 1 ELSE 0
      /\ Correlates(ev) => policy_loaded /\ ~ critical_emitted[ev.pid]
  BY <1>0, RaisesWhatIsDue
<1>5. Len(alerts') = Len(alerts) + Len(EventAlerts(ev))
  <2>1. alerts \in Seq(Alert) /\ EventAlerts(ev) \in Seq(Alert)
    BY <1>1, EventAlertsRaised DEF TypeOK, RaisedBy
  <2> HIDE DEF ev
  <2> QED BY <1>2, <2>1
<1> HIDE DEF ev
<1>6. events_processed' = Len(history')
  BY <1>0, <1>2, <1>3 DEF CountInv
<1>7. Len(alerts') = SumOver(Due', DOMAIN history')
  BY <1>3, <1>4, <1>5 DEF CountInv
<1>8. Len(alerts') = hits'.watched_process + hits'.sensitive_file
                       + hits'.blocked_destination + hits'.correlated
  BY <1>4, <1>5 DEF CountInv
<1>9. IsFiniteSet(Emitted') /\ hits'.correlated = Cardinality(Emitted')
  <2>1. critical_emitted \in [Pids -> BOOLEAN]
    BY <1>1 DEF TypeOK
  <2>2. IsFiniteSet(Emitted) /\ hits.correlated = Cardinality(Emitted)
    BY DEF CountInv
  <2>3. CASE Correlates(ev)
    <3>1. Emitted' = Emitted \cup {ev.pid} /\ ev.pid \notin Emitted
      BY <1>1, <1>2, <1>4, <2>1, <2>3 DEF Emitted
    <3>2. hits'.correlated = hits.correlated + 1
      BY <1>4, <2>3
    <3> QED BY <2>2, <3>1, <3>2, FS_AddElement
  <2>4. CASE ~ Correlates(ev)
    <3>1. Emitted' = Emitted
      BY <1>1, <1>2, <2>1, <2>4 DEF Emitted
    <3>2. hits'.correlated = hits.correlated + 0
      BY <1>4, <2>4
    <3> QED BY <1>1, <2>2, <3>1, <3>2 DEF TypeOK
  <2> QED BY <2>3, <2>4
<1> QED BY <1>6, <1>7, <1>8, <1>9 DEF CountInv

LEMMA CountStays ==
    ASSUME CountInv, history' = history, policy_loaded' = policy_loaded,
           events_processed' = events_processed, hits' = hits,
           critical_emitted' = critical_emitted, Len(alerts') = Len(alerts)
    PROVE  CountInv'
<1>1. Due' = Due
  BY DueUnchanged
<1>2. Emitted' = Emitted
  BY DEF Emitted
<1> QED BY <1>1, <1>2 DEF CountInv

LEMMA ReportKeepsLength ==
    ASSUME TypeOK, Report PROVE Len(alerts') = Len(alerts)
<1>1. alerts \in Seq(Alert)
  BY DEF TypeOK
<1>2. CASE policy_loaded
  <2>1. alerts' = [i \in DOMAIN alerts |-> WithRisk(alerts[i], node')]
    BY <1>2 DEF Report
  <2>2. DOMAIN alerts = 1..Len(alerts) /\ Len(alerts) \in Nat
    BY <1>1
  <2>3. DOMAIN alerts' = 1..Len(alerts)
    BY <2>1, <2>2
  <2> QED BY <2>1, <2>2, <2>3
<1>3. CASE ~ policy_loaded
  BY <1>3 DEF Report
<1> QED BY <1>2, <1>3

LEMMA CountStep ==
    ASSUME IInv, CountInv, [Next]_vars PROVE CountInv'
<1>1. CASE \E line \in Lines : ProcessEvent(line)
  BY <1>1, ProcessEventCount
<1>2. CASE \E line \in Lines : MalformedLine(line)
  BY <1>2, CountStays DEF MalformedLine, optionVars, correlationVars
<1>3. CASE Report
  <2>1. Len(alerts') = Len(alerts)
    BY <1>3, ReportKeepsLength DEF IInv
  <2> QED BY <1>3, <2>1, CountStays DEF Report, optionVars
<1>4. CASE UNCHANGED vars
  BY <1>4, CountStays DEF vars, graphVars, correlationVars
<1> QED BY <1>1, <1>2, <1>3, <1>4 DEF Next

\* The counters, the list of alerts and the events agree at every moment: each
\* event raises what it is due once, and each correlated process counts once.
THEOREM AlertsAreCounted == Spec => []AlertAccounting
<1>1. IInv /\ CountInv /\ [Next]_vars => CountInv'
  BY CountStep
<1>2. CountInv => AlertAccounting
  BY DEF CountInv, AlertAccounting, AlertsDueIn, Due, Emitted
<1> QED BY <1>1, <1>2, InitCountInv, Invariant, PTL DEF Spec

-----------------------------------------------------------------------------
(***************************************************************************)
(* The windows.  Tells(B): the three numbers of the report are those of a  *)
(* set B of closed windows.  While the file is read, the closed windows    *)
(* are Blocks, they hold the events up to some multiple of window_events,  *)
(* and the open window holds the rest.                                     *)
(***************************************************************************)
Tells(B) ==
    /\ IsFiniteSet(B) /\ sliding.closed = Cardinality(B)
    /\ \A b \in B : AlertsDueIn(b) \in Nat /\ AlertsDueIn(b) <= sliding.max
    /\ sliding.max = 0 \/ \E b \in B : sliding.max = AlertsDueIn(b)
    /\ B # {} => \E b \in B : /\ \A i \in UNION B : \E j \in b : i <= j
                              /\ sliding.last = AlertsDueIn(b)

OpenInv ==
    LET start == Len(history) - current_window.events
    IN  /\ current_window.events < window_events
        /\ start = sliding.closed * window_events
        /\ Whole = 0..(sliding.closed - 1)
        /\ UNION { Block(k) : k \in Whole } = 1..start
        /\ current_window.alerts = AlertsDueIn((start + 1)..Len(history))

WindowInv ==
    /\ window_events = 0 => sliding = [closed |-> 0, max |-> 0, last |-> 0]
    /\ window_events # 0 => Tells(Blocks) /\ (reading => OpenInv)

\* Closing one more window, after all the others.
LEMMA OneMoreWindow ==
    ASSUME NEW B, NEW b, Tells(B), b \notin B, NEW t \in b,
           \A i \in (UNION B) \cup b : i <= t,
           sliding \in [closed : Nat, max : Nat, last : Nat],
           NEW raised \in Nat, AlertsDueIn(b)' = raised, sliding' = CloseWindow(raised),
           \A s \in B : AlertsDueIn(s)' = AlertsDueIn(s)
    PROVE  Tells(B \cup {b})'
<1>1. /\ sliding'.closed = sliding.closed + 1
      /\ sliding'.max = IF raised > sliding.max THEN raised ELSE sliding.max
      /\ sliding'.last = raised
  BY DEF CloseWindow
<1>2. IsFiniteSet(B \cup {b}) /\ Cardinality(B \cup {b}) = Cardinality(B) + 1
  BY FS_AddElement DEF Tells
<1> DEFINE due(s) == AlertsDueIn(s)'
           old(s) == AlertsDueIn(s)
           mx == sliding.max
           nx == sliding'.max
<1>3. /\ \A s \in B : due(s) = old(s) /\ old(s) \in Nat /\ old(s) <= mx
      /\ mx = 0 \/ \E s \in B : mx = old(s)
      /\ due(b) = raised /\ mx \in Nat /\ nx = IF raised > mx THEN raised ELSE mx
  BY <1>1 DEF Tells
<1>4. /\ sliding'.closed = Cardinality(B \cup {b})
      /\ sliding'.last = due(b)
  BY <1>1, <1>2, <1>3 DEF Tells
<1> HIDE DEF due, old, mx, nx
<1>5. \A s \in B \cup {b} : due(s) \in Nat /\ due(s) <= nx
  BY <1>3
<1>6. nx = 0 \/ \E s \in B \cup {b} : nx = due(s)
  <2>1. CASE raised > mx
    BY <1>3, <2>1
  <2>2. CASE ~ (raised > mx)
    BY <1>3, <2>2
  <2> QED BY <2>1, <2>2
<1>7. \A i \in UNION (B \cup {b}) : \E j \in b : i <= j
  <2>1. UNION (B \cup {b}) = (UNION B) \cup b
    OBVIOUS
  <2> QED BY <2>1
<1> QED BY <1>2, <1>4, <1>5, <1>6, <1>7 DEF Tells, due, nx

LEMMA WindowsSame ==
    ASSUME NEW B, Tells(B), sliding' = sliding,
           \A s \in B : AlertsDueIn(s)' = AlertsDueIn(s)
    PROVE  Tells(B)'
BY DEF Tells

LEMMA ToldWindows ==
    ASSUME Tells(Blocks), TypeOK, window_events # 0
    PROVE  WindowsPartitionTheRun
<1> DEFINE S == {0} \cup { AlertsDueIn(b) : b \in Blocks }
<1>1. sliding.max \in Nat
  BY DEF TypeOK
<1>2. sliding.max \in S /\ \A n \in S : n \in Int /\ n <= sliding.max
  BY <1>1 DEF Tells
<1> HIDE DEF S
<1>3. Max(S) = sliding.max
  <2>1. \A n \in S : n <= sliding.max => (sliding.max <= n => n = sliding.max)
    BY <1>1, <1>2
  <2> QED BY <1>2, <2>1 DEF Max
<1> QED BY <1>3 DEF S, Tells, WindowsPartitionTheRun

LEMMA NextMultiple ==
    ASSUME NEW c \in Nat, NEW W \in Nat
    PROVE  (c + 1) * W = c * W + W /\ c * W \in Nat
OBVIOUS

LEMMA MultiplesGrow ==
    ASSUME NEW c \in Nat, NEW d \in Nat, c <= d, NEW W \in Nat
    PROVE  c * W <= d * W
<1>1. PICK r \in Nat : d = c + r
  <2>1. d - c \in Nat /\ d = c + (d - c)
    OBVIOUS
  <2> QED BY <2>1
<1>2. d * W = c * W + r * W /\ c * W \in Nat /\ r * W \in Nat
  BY <1>1
<1> QED BY <1>2

\* The whole windows among n events.
LEMMA WholeWindows ==
    ASSUME NEW c \in Nat, NEW e \in Nat, NEW W \in Nat, e < W, NEW n \in Nat, n = c * W + e
    PROVE  { k \in 0..n : (k + 1) * W <= n } = 0..(c - 1)
<1>1. c * W \in Nat /\ (c + 1) * W = c * W + W
  BY NextMultiple
<1>2. ASSUME NEW k \in 0..(c - 1) PROVE k \in 0..n /\ (k + 1) * W <= n
  <2>1. k \in Nat /\ k + 1 \in Nat /\ k + 1 <= c
    BY <1>2
  <2>2. (k + 1) * W <= c * W
    BY <2>1, MultiplesGrow
  <2>3. (k + 1) * W = k * W + W /\ k * W \in Nat
    BY <2>1, NextMultiple
  <2>4. k * 1 <= k * W
    <3>1. PICK r \in Nat : W = 1 + r
      <4>1. W - 1 \in Nat /\ W = 1 + (W - 1)
        OBVIOUS
      <4> QED BY <4>1
    <3>2. k * W = k + k * r /\ k * r \in Nat
      BY <2>1, <3>1
    <3> QED BY <2>1, <3>2
  <2>5. (k + 1) * W <= n
    <3> DEFINE x == (k + 1) * W
               y == c * W
    <3>1. x \in Nat /\ y \in Nat /\ x <= y /\ n = y + e
      BY <1>1, <2>1, <2>2, NextMultiple
    <3> HIDE DEF x, y
    <3>2. x <= n
      BY <3>1
    <3> QED BY <3>2 DEF x
  <2>6. k <= n
    <3> DEFINE x == (k + 1) * W
               y == k * W
    <3>1. x = y + W /\ y \in Nat /\ k <= y /\ x <= n
      BY <2>1, <2>3, <2>4, <2>5
    <3> HIDE DEF x, y
    <3> QED BY <2>1, <3>1
  <2> QED BY <2>1, <2>5, <2>6
<1>3. ASSUME NEW k \in 0..n, (k + 1) * W <= n PROVE k \in 0..(c - 1)
  <2>1. k \in Nat /\ k + 1 \in Nat /\ c + 1 \in Nat
    BY <1>3
  <2>2. CASE k < c
    BY <2>1, <2>2
  <2>3. CASE ~ (k < c)
    <3>1. c + 1 <= k + 1
      BY <2>1, <2>3
    <3>2. (c + 1) * W <= (k + 1) * W
      BY <2>1, <3>1, MultiplesGrow
    <3> DEFINE x == (k + 1) * W
               y == c * W
               z == (c + 1) * W
    <3>3. x \in Nat /\ y \in Nat /\ z = y + W /\ z <= x /\ x <= n /\ n = y + e
      BY <1>1, <1>3, <2>1, <3>2, NextMultiple
    <3> HIDE DEF x, y, z
    <3> QED BY <3>3
  <2> QED BY <2>2, <2>3
<1> QED BY <1>2, <1>3

LEMMA InitWindow == Init => WindowInv
<1> SUFFICES ASSUME Init PROVE WindowInv
  OBVIOUS
<1>1. /\ sliding = [closed |-> 0, max |-> 0, last |-> 0] /\ reading
      /\ current_window = [events |-> 0, alerts |-> 0] /\ history = <<>>
      /\ window_events \in Nat
  BY WindowSizesAssumption DEF Init, GraphInit
<1> SUFFICES ASSUME window_events # 0 PROVE Tells(Blocks) /\ OpenInv
  BY <1>1 DEF WindowInv
<1>2. Len(history) = 0 /\ DOMAIN history = {}
  BY <1>1
<1>3. 0 = 0 * window_events + 0 /\ 0 < window_events
  BY <1>1
<1>4. Whole = 0..(0 - 1)
  BY <1>1, <1>2, <1>3, WholeWindows DEF Whole
<1>5. 0..(0 - 1) = {} /\ 1..0 = {} /\ (0 + 1)..0 = {}
  OBVIOUS
<1>6. Blocks = {} /\ UNION { Block(k) : k \in Whole } = {}
  BY <1>1, <1>4, <1>5 DEF Blocks
<1>7. AlertsDueIn({}) = 0
  BY SumOfNone DEF AlertsDueIn
<1>8. Tells({})
  <2>1. IsFiniteSet({}) /\ Cardinality({}) = 0
    BY FS_EmptySet
  <2> QED BY <1>1, <2>1 DEF Tells
<1>9. OpenInv
  <2>1. current_window.events = 0 /\ current_window.alerts = 0 /\ sliding.closed = 0
    BY <1>1
  <2>2. 0 * window_events = 0 /\ Len(history) - current_window.events = 0
    BY <1>1, <1>2, <2>1
  <2> QED BY <1>1, <1>2, <1>3, <1>4, <1>5, <1>6, <1>7, <2>1, <2>2 DEF OpenInv
<1> QED BY <1>6, <1>8, <1>9

LEMMA WindowStays ==
    ASSUME WindowInv, history' = history, policy_loaded' = policy_loaded,
           window_events' = window_events, sliding' = sliding, reading' = reading,
           current_window' = current_window
    PROVE  WindowInv'
<1>1. Due' = Due
  BY DueUnchanged
<1>2. \A S : AlertsDueIn(S)' = AlertsDueIn(S)
  BY <1>1 DEF AlertsDueIn, Due
<1>3. Whole' = Whole /\ \A k : Block(k)' = Block(k)
  BY DEF Whole, Block
<1>4. Blocks' = Blocks
  BY <1>3 DEF Blocks, Remainder
<1>5. Tells(Blocks) => Tells(Blocks)'
  <2> PICK B : B = Blocks
    OBVIOUS
  <2> SUFFICES ASSUME Tells(B) PROVE Tells(Blocks)'
    OBVIOUS
  <2>1. Tells(B)'
    BY <1>2, WindowsSame
  <2> QED BY <1>4, <2>1 DEF Tells
<1>6. OpenInv => OpenInv'
  BY <1>2, <1>3 DEF OpenInv
<1> QED BY <1>5, <1>6 DEF WindowInv

LEMMA ProcessEventWindow ==
    ASSUME IInv, CountInv, WindowInv, NEW line \in Lines, ProcessEvent(line)
    PROVE  WindowInv'
<1> DEFINE ev == EventOf(line)
           w == [ events |-> current_window.events + 1,
                  alerts |-> current_window.alerts + Len(EventAlerts(ev)) ]
<1>1. /\ ev \in Event /\ TypeOK
      /\ history' = Append(history, ev) /\ policy_loaded' = policy_loaded
      /\ window_events' = window_events /\ reading /\ reading'
      /\ AdvanceWindow(Len(EventAlerts(ev)))
  BY ParsedEvents DEF ParsedEvent, IInv, ProcessEvent, optionVars, CanRead
<1>2. CASE window_events = 0
  <2>1. sliding' = sliding
    BY <1>1, <1>2 DEF AdvanceWindow
  <2> QED BY <1>1, <1>2, <2>1 DEF WindowInv
<1>3. CASE window_events # 0
  <2>1. /\ Tells(Blocks) /\ OpenInv
        /\ current_window \in [events : Nat, alerts : Nat]
        /\ sliding \in [closed : Nat, max : Nat, last : Nat]
        /\ window_events \in Nat
    BY <1>1, <1>3, WindowSizesAssumption DEF WindowInv, TypeOK
  <2>2. PICK n : n = Len(history)
    OBVIOUS
  <2>3. PICK last : last = Len(history) + 1
    OBVIOUS
  <2>4. PICK W : W = window_events
    OBVIOUS
  <2>5. PICK c : c = sliding.closed
    OBVIOUS
  <2>6. PICK e : e = current_window.events
    OBVIOUS
  <2>7. PICK raised : raised = Len(EventAlerts(ev))
    OBVIOUS
  <2>8. PICK B : B = Blocks
    OBVIOUS
  <2>9. /\ DOMAIN history = 1..n /\ n \in Nat /\ last = n + 1 /\ Len(history') = last
        /\ \A S \in SUBSET DOMAIN history :
              /\ SumOver(Due', S) = SumOver(Due, S)
              /\ SumOver(Due', S \cup {last}) = SumOver(Due, S) + AlertsDue(last)'
              /\ SumOver(Due, S) \in Int
    <3> HIDE DEF ev
    <3> QED BY <1>1, <2>2, <2>3, DueGrows
  <2>10. AlertsDue(last)' = raised /\ raised \in Nat
    BY <2>3, <2>7, RaisesWhatIsDue
  <2>11. \A S \in SUBSET (1..n) :
            /\ AlertsDueIn(S)' = AlertsDueIn(S)
            /\ AlertsDueIn(S \cup {last})' = AlertsDueIn(S) + raised
            /\ AlertsDueIn(S) \in Int
    BY <2>9, <2>10 DEF AlertsDueIn, Due
  <2>12. PICK st : st = n - e
    OBVIOUS
  <2>13. /\ c \in Nat /\ e \in Nat /\ e < W /\ W \in Nat /\ W # 0
         /\ st = c * W /\ Whole = 0..(c - 1) /\ UNION { Block(k) : k \in Whole } = 1..st
         /\ current_window.alerts = AlertsDueIn((st + 1)..n)
    BY <1>3, <2>1, <2>2, <2>4, <2>5, <2>6, <2>12 DEF OpenInv
  <2>14. st \in Nat /\ n = st + e /\ e \in Nat
    BY <2>9, <2>12, <2>13, NextMultiple
  <2>15. B = { Block(k) : k \in 0..(c - 1) } /\ UNION B = 1..st
    BY <1>1, <2>8, <2>13 DEF Blocks
  <2>16. \A k : Block(k)' = Block(k)
    BY <1>1 DEF Block
  <2>17. Blocks' = { Block(k) : k \in Whole' }
    BY <1>1, <2>16 DEF Blocks
  <2>18. Whole' = { k \in 0..last : (k + 1) * W <= last }
    BY <1>1, <2>4, <2>9 DEF Whole
  <2> DEFINE b == (st + 1)..last
  <2>19. /\ (st + 1)..n \in SUBSET (1..n) /\ b = ((st + 1)..n) \cup {last} /\ last \in b
         /\ last \notin 1..st /\ \A i \in 1..st : i <= last
         /\ \A i \in b : i <= last
    BY <2>9, <2>14
  <2>20. AlertsDueIn(b)' = AlertsDueIn((st + 1)..n) + raised
    BY <2>11, <2>19
  <2>21. PICK total : total = AlertsDueIn((st + 1)..n) + raised
    OBVIOUS
  <2>22. /\ AlertsDueIn(b)' = total /\ total \in Nat
         /\ w.alerts = total /\ w.events = e + 1
    BY <2>1, <2>6, <2>7, <2>10, <2>13, <2>20, <2>21
  <2>23. \A s \in B : AlertsDueIn(s)' = AlertsDueIn(s)
    <3>1. \A s \in B : s \in SUBSET (1..n)
      <4>1. 1..st \subseteq 1..n
        BY <2>9, <2>14
      <4> QED BY <2>15, <4>1
    <3> QED BY <2>11, <3>1
  <2>24. (c + 1) * W = st + W /\ c + 1 \in Nat
    BY <2>13, NextMultiple
  <2>25. CASE e + 1 >= W
    <3>1. /\ sliding' = CloseWindow(total)
          /\ current_window' = [events |-> 0, alerts |-> 0]
      BY <1>1, <1>3, <2>4, <2>22, <2>25 DEF AdvanceWindow
    <3>2. last = st + W /\ last \in Nat
      BY <2>9, <2>13, <2>14, <2>25
    <3>3. b = Block(c)
      BY <2>4, <2>13, <2>24, <3>2 DEF Block
    <3>4. last = (c + 1) * W + 0 /\ 0 < W
      BY <2>13, <2>24, <3>2
    <3>5. Whole' = 0..((c + 1) - 1)
      BY <2>13, <2>18, <2>24, <3>2, <3>4, WholeWindows
    <3>6. 0..((c + 1) - 1) = (0..(c - 1)) \cup {c}
      BY <2>13
    <3>7. Blocks' = B \cup {b}
      BY <2>15, <2>17, <3>3, <3>5, <3>6
    <3>8. Tells(B \cup {b})'
      <4>1. Tells(B) /\ b \notin B /\ \A i \in (UNION B) \cup b : i <= last
        BY <2>1, <2>8, <2>15, <2>19
      <4> HIDE DEF b
      <4> QED BY <2>1, <2>19, <2>22, <2>23, <3>1, <4>1, OneMoreWindow
    <3>9. Tells(Blocks)'
      BY <3>7, <3>8 DEF Tells
    <3>10. sliding'.closed = c + 1
      BY <2>5, <3>1 DEF CloseWindow
    <3>11. UNION { Block(k) : k \in Whole }' = 1..last
      <4>1. { Block(k) : k \in Whole }' = B \cup {b}
        BY <2>15, <2>16, <3>3, <3>5, <3>6
      <4>2. (1..st) \cup b = 1..last
        BY <2>13, <2>14, <3>2
      <4>3. UNION (B \cup {b}) = (UNION B) \cup b
        OBVIOUS
      <4> QED BY <2>15, <4>1, <4>2, <4>3
    <3>12. AlertsDueIn((last + 1)..last)' = 0
      <4>1. (last + 1)..last = {}
        BY <3>2
      <4> QED BY <4>1, SumOfNone DEF AlertsDueIn
    <3>13. current_window'.events = 0 /\ current_window'.alerts = 0
      BY <3>1
    <3>14. OpenInv'
      <4>1. Len(history') - current_window'.events = last
        BY <2>9, <3>2, <3>13
      <4> HIDE DEF b
      <4> QED BY <1>1, <2>4, <2>9, <2>24, <3>2, <3>4, <3>5, <3>10, <3>11, <3>12, <3>13, <4>1 DEF OpenInv
    <3> QED BY <1>1, <1>3, <3>9, <3>14 DEF WindowInv
  <2>26. CASE ~ (e + 1 >= W)
    <3>1. sliding' = sliding /\ current_window' = w
      BY <1>1, <1>3, <2>4, <2>22, <2>26 DEF AdvanceWindow
    <3>2. last = c * W + (e + 1) /\ e + 1 < W /\ e + 1 \in Nat /\ last \in Nat
      BY <2>9, <2>13, <2>14, <2>26
    <3>3. Whole' = 0..(c - 1)
      <4>1. PICK r \in Nat : r = e + 1
        BY <3>2
      <4>2. last = c * W + r /\ r < W /\ last \in Nat /\ c \in Nat /\ W \in Nat
        BY <2>13, <3>2, <4>1
      <4>3. { k \in 0..last : (k + 1) * W <= last } = 0..(c - 1)
        BY <4>2, WholeWindows
      <4> QED BY <2>18, <4>3
    <3>4. Blocks' = B
      BY <2>15, <2>17, <3>3
    <3>5. Tells(B)'
      <4>1. Tells(B)
        BY <2>1, <2>8
      <4> QED BY <2>23, <3>1, <4>1, WindowsSame
    <3>6. Tells(Blocks)'
      BY <3>4, <3>5 DEF Tells
    <3>7. current_window'.events = e + 1 /\ current_window'.alerts = total
      BY <2>22, <3>1
    <3>8. UNION { Block(k) : k \in Whole }' = 1..st
      BY <2>15, <2>16, <3>3
    <3>9. Len(history') - current_window'.events = st
      <4>1. current_window'.events = e + 1 /\ Len(history') = n + 1 /\ n \in Nat
        BY <2>9, <3>7
      <4> QED BY <2>14, <4>1
    <3>10. OpenInv'
      <4> HIDE DEF b, w
      <4>1. AlertsDueIn((st + 1)..last)' = total
        BY <2>22 DEF b
      <4> QED BY <1>1, <2>4, <2>5, <2>9, <2>13, <3>1, <3>2, <3>3, <3>7, <3>8, <3>9, <4>1 DEF OpenInv
    <3> QED BY <1>1, <1>3, <3>6, <3>10 DEF WindowInv
  <2> QED BY <2>13, <2>25, <2>26
<1> QED BY <1>2, <1>3

LEMMA ReportWindow ==
    ASSUME IInv, CountInv, WindowInv, Report
    PROVE  WindowInv'
<1>1. /\ TypeOK /\ history' = history /\ policy_loaded' = policy_loaded
      /\ window_events' = window_events /\ reading /\ ~ reading'
      /\ sliding' = IF window_events > 0 /\ current_window.events > 0
                      THEN CloseWindow(current_window.alerts) ELSE sliding
  BY DEF IInv, Report, optionVars
<1>2. window_events \in Nat
  BY <1>1, WindowSizesAssumption DEF TypeOK
<1>3. CASE window_events = 0
  BY <1>1, <1>3 DEF WindowInv
<1>4. CASE window_events # 0
  <2>1. /\ Tells(Blocks) /\ OpenInv
        /\ current_window \in [events : Nat, alerts : Nat]
        /\ sliding \in [closed : Nat, max : Nat, last : Nat] /\ history \in Seq(Event)
    BY <1>1, <1>4 DEF WindowInv, TypeOK
  <2>2. PICK n : n = Len(history)
    OBVIOUS
  <2>3. PICK e : e = current_window.events
    OBVIOUS
  <2>4. PICK B : B = Blocks
    OBVIOUS
  <2>5. PICK st : st = n - e
    OBVIOUS
  <2>6. PICK raised : raised = current_window.alerts
    OBVIOUS
  <2>7. /\ n \in Nat /\ e \in Nat /\ DOMAIN history = 1..n /\ raised \in Nat
    BY <2>1, <2>2, <2>3, <2>6
  <2>8. /\ B = { Block(k) : k \in Whole } /\ UNION B = 1..st
        /\ raised = AlertsDueIn((st + 1)..n)
        /\ st = sliding.closed * window_events
    BY <1>1, <2>1, <2>2, <2>3, <2>4, <2>5, <2>6 DEF OpenInv, Blocks
  <2>9. st \in Nat /\ n = st + e
    BY <1>2, <2>1, <2>5, <2>7, <2>8, NextMultiple
  <2>10. \A S : AlertsDueIn(S)' = AlertsDueIn(S)
    BY <1>1, DueUnchanged DEF AlertsDueIn, Due
  <2>11. Remainder = (st + 1)..n
    <3>1. (1..n) \ (1..st) = (st + 1)..n
      BY <2>7, <2>9
    <3> QED BY <2>7, <2>8, <3>1 DEF Remainder
  <2>12. Remainder' = Remainder /\ { Block(k) : k \in Whole }' = { Block(k) : k \in Whole }
    BY <1>1 DEF Remainder, Block, Whole
  <2>13. Blocks' = B \cup (IF Remainder = {} THEN {} ELSE {Remainder})
    BY <1>1, <2>8, <2>12 DEF Blocks
  <2>14. CASE e = 0
    <3>1. sliding' = sliding
      BY <1>1, <2>3, <2>14
    <3>2. Remainder = {}
      BY <2>7, <2>9, <2>11, <2>14
    <3>3. Blocks' = B
      BY <2>13, <3>2
    <3>4. Tells(B)'
      BY <2>1, <2>4, <2>10, <3>1, WindowsSame
    <3> QED BY <1>1, <1>4, <3>3, <3>4 DEF WindowInv, Tells
  <2>15. CASE e # 0
    <3> DEFINE b == (st + 1)..n
    <3>1. sliding' = CloseWindow(raised)
      BY <1>1, <1>2, <1>4, <2>3, <2>6, <2>7, <2>15
    <3>2. /\ n \in b /\ n \notin 1..st /\ \A i \in (1..st) \cup b : i <= n
      BY <2>7, <2>9, <2>15
    <3>3. Blocks' = B \cup {b}
      BY <2>11, <2>13, <3>2
    <3>4. Tells(B) /\ b \notin B /\ \A i \in (UNION B) \cup b : i <= n
      BY <2>1, <2>4, <2>8, <3>2
    <3>5. AlertsDueIn(b)' = raised
      BY <2>8, <2>10
    <3> HIDE DEF b
    <3>6. Tells(B \cup {b})'
      BY <2>1, <2>7, <2>10, <3>1, <3>2, <3>4, <3>5, OneMoreWindow
    <3> QED BY <1>1, <1>4, <3>3, <3>6 DEF WindowInv, Tells
  <2> QED BY <2>14, <2>15
<1> QED BY <1>3, <1>4

\* For every window size and every file, the windows of the report are the
\* consecutive blocks of that many events, the last one closed by the end of
\* the file, and their number, maximum and last count are those of the blocks.
THEOREM WindowsPartition == Spec => []WindowsPartitionTheRun
<1>1. Spec => []CountInv
  <2>1. IInv /\ CountInv /\ [Next]_vars => CountInv'
    BY CountStep
  <2> QED BY <2>1, InitCountInv, Invariant, PTL DEF Spec
<1>2. IInv /\ CountInv /\ WindowInv /\ [Next]_vars => WindowInv'
  <2> SUFFICES ASSUME IInv, CountInv, WindowInv, [Next]_vars PROVE WindowInv'
    OBVIOUS
  <2>1. CASE \E line \in Lines : ProcessEvent(line)
    BY <2>1, ProcessEventWindow
  <2>2. CASE \E line \in Lines : MalformedLine(line)
    BY <2>2, WindowStays DEF MalformedLine, optionVars, correlationVars
  <2>3. CASE Report
    BY <2>3, ReportWindow
  <2>4. CASE UNCHANGED vars
    BY <2>4, WindowStays DEF vars, graphVars, correlationVars
  <2> QED BY <2>1, <2>2, <2>3, <2>4 DEF Next
<1>3. IInv /\ WindowInv => WindowsPartitionTheRun
  <2> SUFFICES ASSUME IInv, WindowInv PROVE WindowsPartitionTheRun
    OBVIOUS
  <2>1. CASE window_events = 0
    BY <2>1 DEF WindowInv, WindowsPartitionTheRun
  <2>2. CASE window_events # 0
    BY <2>2, ToldWindows DEF WindowInv, IInv
  <2> QED BY <2>1, <2>2
<1> QED BY <1>1, <1>2, <1>3, InitWindow, Invariant, PTL DEF Spec

-----------------------------------------------------------------------------
(* The refinement: every step of a run is a step of EventGraph under the    *)
(* mapping Graph, or leaves its variables unchanged.  The operators of the  *)
(* instance are the plain ones, which SameX states layer by layer.          *)

LEMMA SamePolicy ==
    /\ \A file : Graph!policy_is_sensitive_file(file) <=> policy_is_sensitive_file(file)
    /\ \A d : Graph!policy_is_blocked_domain(d) <=> policy_is_blocked_domain(d)
    /\ \A ip : Graph!policy_is_blocked_ip(ip) <=> policy_is_blocked_ip(ip)
    /\ \A p : Graph!policy_is_watched_process(p) <=> policy_is_watched_process(p)
<1>1. Graph!TokensRead = TokensRead
  BY DEF Graph!TokensRead, TokensRead
<1>2. Graph!patterns = patterns
  BY <1>1 DEF Graph!patterns, patterns, Graph!contains_glob, contains_glob
<1>3. Graph!exact = exact
  BY <1>1, <1>2 DEF Graph!exact, exact
<1>4. Graph!bloom = bloom
  BY <1>3 DEF Graph!bloom, bloom, Graph!bloom_add_all, bloom_add_all
<1>5. \A array, v :
        /\ Graph!policy_match_exact_with_bloom(array, v) <=> policy_match_exact_with_bloom(array, v)
        /\ Graph!list_matches_pattern(array, v) <=> list_matches_pattern(array, v)
  BY <1>2, <1>3, <1>4
     DEF Graph!policy_match_exact_with_bloom, policy_match_exact_with_bloom,
         Graph!list_matches_pattern, list_matches_pattern,
         Graph!bloom_might_contain, bloom_might_contain
<1>6. QED
  BY <1>5 DEF Graph!policy_is_sensitive_file, policy_is_sensitive_file,
              Graph!policy_is_blocked_domain, policy_is_blocked_domain,
              Graph!policy_is_blocked_ip, policy_is_blocked_ip,
              Graph!policy_is_watched_process, policy_is_watched_process

LEMMA SameDecisions ==
    ASSUME NEW ev
    PROVE  /\ Graph!sensitive_access(ev) <=> sensitive_access(ev)
           /\ Graph!destination_blocked(ev) <=> destination_blocked(ev)
           /\ Graph!matched_dst(ev) = matched_dst(ev)
           /\ Graph!match_type(ev) = match_type(ev)
<1>1. Graph!Candidates(ev) = Candidates(ev)
  BY DEF Graph!Candidates, Candidates
<1>2. Graph!BlockedCandidates(ev) = BlockedCandidates(ev)
  BY <1>1, SamePolicy DEF Graph!BlockedCandidates, BlockedCandidates
<1>3. Graph!matched_dst(ev) = matched_dst(ev)
  BY <1>1, <1>2 DEF Graph!matched_dst, matched_dst
<1>4. Graph!match_type(ev) = match_type(ev)
  BY <1>3, SamePolicy DEF Graph!match_type, match_type, Graph!looks_like_ip, looks_like_ip,
                          Graph!looks_like_domain, looks_like_domain
<1>5. QED
  BY <1>2, <1>3, <1>4, SamePolicy
     DEF Graph!sensitive_access, sensitive_access, Graph!destination_blocked, destination_blocked

LEMMA SameUpdates ==
    ASSUME NEW n, NEW ev
    PROVE  /\ \A dst : Graph!Connect(n, dst) = Connect(n, dst)
           /\ Graph!TouchSensitive(n, ev) = TouchSensitive(n, ev)
           /\ Graph!ContactBlocked(n, ev) = ContactBlocked(n, ev)
<1>1. \A dst : Graph!Connect(n, dst) = Connect(n, dst)
  BY DEF Graph!Connect, Connect
<1>2. Graph!TouchSensitive(n, ev) = TouchSensitive(n, ev)
  BY DEF Graph!TouchSensitive, TouchSensitive
<1>3. Graph!ContactBlocked(n, ev) = ContactBlocked(n, ev)
  <2> DEFINE Marked(c, type) ==
               [c EXCEPT
                  !.connected_blocked = TRUE,
                  !.connected_blocked_ip     = @ \/ type = "DEST_BLOCKED_IP",
                  !.connected_blocked_domain = @ \/ type = "DEST_BLOCKED_DOMAIN"]
  <2>1. Graph!ContactBlocked(n, ev) =
          Marked(Graph!Connect(n, Graph!matched_dst(ev)), Graph!match_type(ev))
    BY DEF Graph!ContactBlocked
  <2>2. ContactBlocked(n, ev) = Marked(Connect(n, matched_dst(ev)), match_type(ev))
    BY DEF ContactBlocked
  <2> HIDE DEF Marked
  <2>3. QED
    BY <1>1, <2>1, <2>2, SameDecisions
<1>4. QED
  BY <1>1, <1>2, <1>3

LEMMA SameIngest ==
    ASSUME NEW n, NEW ev
    PROVE  Graph!graph_ingest_event(n, ev) = graph_ingest_event(n, ev)
<1>1. \A k : Graph!IngestFile(k, ev) = IngestFile(k, ev)
  BY SameDecisions, SameUpdates DEF Graph!IngestFile, IngestFile
<1>2. \A k : Graph!IngestDst(k, ev) = IngestDst(k, ev)
  BY SameUpdates DEF Graph!IngestDst, IngestDst
<1>3. \A k : Graph!IngestWatched(k, ev) = IngestWatched(k, ev)
  BY SamePolicy DEF Graph!IngestWatched, IngestWatched
<1>4. \A k : Graph!IngestBlocked(k, ev) = IngestBlocked(k, ev)
  BY SameDecisions, SameUpdates DEF Graph!IngestBlocked, IngestBlocked
<1>5. QED
  BY <1>1, <1>2, <1>3, <1>4 DEF Graph!graph_ingest_event, graph_ingest_event

LEMMA SameFound ==
    ASSUME NEW ps, NEW n, NEW ev
    PROVE  Graph!graph_get_or_add(ps, n, ev) = graph_get_or_add(ps, n, ev)
<1>1. Graph!ZeroNode = ZeroNode
  BY DEF Graph!ZeroNode, ZeroNode
<1>2. Graph!safe_str(ev.process) = safe_str(ev.process)
  BY DEF Graph!safe_str, safe_str
<1>3. QED
  BY <1>1, <1>2 DEF Graph!graph_get_or_add, graph_get_or_add

LEMMA SameRisk == Graph!compute_risk_all = compute_risk_all
<1>0. \A S : Graph!Cardinality(S) = Cardinality(S)
  BY DEF Graph!Cardinality, Cardinality
<1>1. \A n : Graph!risk_sum(n) = risk_sum(n)
  BY <1>0 DEF Graph!risk_sum, risk_sum, Graph!network_after_file, network_after_file,
         Graph!AtThreshold, AtThreshold
<1>2. \A score : Graph!risk_level_from_score(score) = risk_level_from_score(score)
  BY DEF Graph!risk_level_from_score, risk_level_from_score
<1>3. \A n : Graph!compute_risk_for_node(n) = compute_risk_for_node(n)
  BY <1>1, <1>2 DEF Graph!compute_risk_for_node, compute_risk_for_node
<1>4. QED
  BY <1>3 DEF Graph!compute_risk_all, compute_risk_all, Graph!Pids, Pids

LEMMA IngestStep ==
    ASSUME IInv, NEW line \in Lines, ProcessEvent(line), build_graph
    PROVE  Graph!GraphIngest(line)
<1> DEFINE ev == EventOf(line)
           n  == node[ev.pid]
<1>1. TypeOK /\ ModeInv /\ NodeInv /\ ev \in ParsedEvent
  BY ParsedEvents DEF IInv
<1>2. NodeAfter(ev) = graph_ingest_event(graph_get_or_add(pids, n, ev), ev)
  <2> HIDE DEF ev
  <2>1. QED
    BY <1>1, NodeStep
<1>3. Graph!EventOf(line) = ev /\ Graph!parse_event_line(line)
  BY DEF ProcessEvent, Graph!EventOf, EventOf, Graph!parse_event_line, parse_event_line,
         Graph!is_header, is_header
<1>4. Graph!graph_ingest_event(Graph!graph_get_or_add(pids, n, ev), ev)
        = graph_ingest_event(graph_get_or_add(pids, n, ev), ev)
  BY SameIngest, SameFound
<1>5. /\ CanRead /\ build_graph' = build_graph
      /\ pids' = pids \cup {ev.pid}
      /\ node' = [node EXCEPT ![ev.pid] = NodeAfter(ev)]
      /\ events_processed' = events_processed + 1
      /\ UNCHANGED <<policy_loaded, malformed_lines, reading>>
  BY DEF ProcessEvent, optionVars
<1> HIDE DEF ev
<1>6. node' = [node EXCEPT ![ev.pid] =
                 Graph!graph_ingest_event(Graph!graph_get_or_add(pids, @, ev), ev)]
  BY <1>2, <1>4, <1>5
<1>7. Graph!CanRead
  BY <1>5 DEF Graph!CanRead, CanRead
<1>8. QED
  BY <1>3, <1>5, <1>6, <1>7 DEF Graph!GraphIngest

\* Every run of analyze is a run of the graph-only reader: marking the node a
\* second time in the loop changes nothing, and neither do alerts and windows.
THEOREM SameGraph == Spec => BuildsTheSameGraph
<1>1. Init => Graph!GraphInit
  BY DEF Init, GraphInit, Graph!GraphInit, Graph!Pids, Pids, Graph!ZeroNode, ZeroNode
<1>2. ASSUME IInv, [Next]_vars PROVE [Graph!GraphNext]_(Graph!graphVars)
  <2>1. ASSUME NEW line \in Lines, ProcessEvent(line)
        PROVE  [Graph!GraphNext]_(Graph!graphVars)
    <3>1. CASE build_graph
      BY <1>2, <2>1, <3>1, IngestStep DEF Graph!GraphNext
    <3>2. CASE ~build_graph
      <4>1. EventOf(line) \in ParsedEvent /\ EventOf(line).pid \in Pids
        BY <2>1, ParsedEvents
      <4>2. NodeAfter(EventOf(line)) = node[EventOf(line).pid]
        BY <3>2 DEF NodeAfter
      <4>3. node' = node
        BY <1>2, <2>1, <4>1, <4>2 DEF ProcessEvent, IInv, TypeOK
      <4>4. /\ build_graph' = build_graph /\ pids' = pids
            /\ UNCHANGED <<policy_loaded, malformed_lines, reading>>
        BY <2>1, <3>2 DEF ProcessEvent, optionVars
      <4>5. QED
        BY <3>2, <4>3, <4>4 DEF Graph!graphVars
    <3>3. QED
      BY <3>1, <3>2
  <2>2. ASSUME NEW line \in Lines, MalformedLine(line)
        PROVE  [Graph!GraphNext]_(Graph!graphVars)
    <3>1. /\ CanRead /\ malformed(line) /\ malformed_lines' = malformed_lines + 1
          /\ UNCHANGED <<policy_loaded, build_graph, pids, node, events_processed, reading>>
      BY <2>2 DEF MalformedLine, optionVars
    <3>2. CASE build_graph
      <4>1. Graph!malformed(line)
        BY <3>1 DEF Graph!malformed, malformed, Graph!parse_event_line, parse_event_line,
                    Graph!is_header, is_header
      <4>2. Graph!GraphMalformed(line)
        BY <3>1, <3>2, <4>1 DEF Graph!GraphMalformed, Graph!CanRead, CanRead
      <4>3. QED
        BY <2>2, <4>2 DEF Graph!GraphNext
    <3>3. CASE ~build_graph
      BY <3>1, <3>3 DEF Graph!graphVars
    <3>4. QED
      BY <3>2, <3>3
  <2>3. CASE Report
    <3>1. Graph!GraphEnd
      BY <2>3, SameRisk DEF Report, optionVars, Graph!GraphEnd
    <3>2. QED
      BY <3>1 DEF Graph!GraphNext
  <2>4. CASE UNCHANGED vars
    BY <2>4 DEF vars, graphVars, Graph!graphVars
  <2>5. QED
    BY <1>2, <2>1, <2>2, <2>3, <2>4 DEF Next
<1>3. QED
  BY <1>1, <1>2, Invariant, PTL DEF Spec, BuildsTheSameGraph, Graph!GraphSpec
=============================================================================
