----------------------- MODULE GraphCommandsProperties ----------------------
(***************************************************************************)
(* From the text of an events file to what the commands on the graph show. *)
(***************************************************************************)
EXTENDS GraphCommands, FiniteSetsExt

\* The lines read so far that are events, and those of a pid.
EventsRead == { i \in 1..pos : ~Skipped(file[i]) /\ parse_event_line(FieldsOf(file[i])) }
OfPid(p)   == { i \in EventsRead : FieldsOf(file[i]).pid = p }

\* A list holds the values the events of a pid have, once each, in the order
\* in which they first came.
FirstComesFirst(list, p, value) ==
    LET came(v) == { i \in OfPid(p) : value[i] = v }
    IN  /\ ToSet(list) = { value[i] : i \in OfPid(p) } \ {""}
        /\ \A j, k \in DOMAIN list : j < k => Min(came(list[j])) < Min(came(list[k]))

\* When the file is read, nodes are in the order their pids came, a timeline has the events of its
\* pid, all and in the order of the file, and a list of a node has each value
\* of them once (graph_add_timeline_event, list_add_unique); the destinations
\* listed are those the risk score counts.
NodesTellTheFile ==
    Waiting =>
    /\ ToSet(order) = pids
    /\ \A j, k \in DOMAIN order : j < k => Min(OfPid(order[j])) < Min(OfPid(order[k]))
    /\ \A p \in pids :
         LET nth(i) == lists[p].timeline[Cardinality({ j \in OfPid(p) : j <= i })]
             type == [i \in OfPid(p) |-> FieldsOf(file[i]).event]
             path == [i \in OfPid(p) |-> FieldsOf(file[i]).file]
         IN  /\ Len(lists[p].timeline) = Cardinality(OfPid(p))
             /\ \A i \in OfPid(p) : nth(i) = [ time  |-> TimeOf(file[i]), event |-> type[i],
                                               file |-> path[i],
                                               dst  |-> EventOf(FieldsOf(file[i])).dst ]
             /\ FirstComesFirst(lists[p].event_types, p, type)
             /\ FirstComesFirst(lists[p].files, p, path)
             /\ ToSet(lists[p].destinations) = node[p].destinations
             /\ Len(lists[p].destinations) = Cardinality(node[p].destinations)

-----------------------------------------------------------------------------
\* The value of the first pair of a key, if it is a string.
ValueOf(pairs, key) ==
    LET of == { i \in DOMAIN pairs : pairs[i].key = key }
    IN  IF of # {} /\ pairs[Min(of)].quoted THEN pairs[Min(of)].value ELSE ""

\* The quotes of a row before position i, and the rows whose quotes open a
\* cell, close it or are doubled.
QuotesBefore(t, i) == Cardinality({ j \in 1..(i - 1) : t[j] = Q })
WellQuoted(t) ==
    /\ QuotesBefore(t, Len(t) + 1) % 2 = 0
    /\ \A i \in { j \in DOMAIN t : t[j] = Q } :
         IF QuotesBefore(t, i) % 2 = 0 THEN i = 1 \/ t[i - 1] \in {Q, C}
                                       ELSE i = Len(t) \/ t[i + 1] \in {Q, C}
Separators(t) == { i \in DOMAIN t : t[i] = C /\ QuotesBefore(t, i) % 2 = 0 }

\* A JSON line none of whose strings is the name of a field gives each field
\* the value of its key (json_get_string looks for names in values too), and
\* a well quoted row has the cells its commas outside of quotes separate, up
\* to eight, and none after a last comma (parse_csv_fields).
LinesAreReadAsWritten ==
    pos > 0 /\ ~Skipped(file[pos]) =>
        LET pairs == file[pos].pairs
            t     == file[pos].tokens
            last  == IF t = <<>> \/ Len(t) \in Separators(t) THEN 0 ELSE 1
        IN  IF file[pos].kind = "json"
              THEN (\A k \in DOMAIN pairs : ~pairs[k].quoted \/ pairs[k].value \notin FieldNames)
                     => \A key \in FieldNames \ {"pid", "time"} :
                          FieldsOf(file[pos])[key] = ValueOf(pairs, key)
              ELSE WellQuoted(t) => Len(parse_csv_fields(t))
                                      = Min({MaxFields, Cardinality(Separators(t)) + last})

-----------------------------------------------------------------------------
ReadFile == generated # NoFile /\ ~reading

\* agfast reads back what agfast generate wrote: in both formats every event
\* is accepted, for the pid it was written for, and the timelines of the nodes
\* are made of the generated events.
GeneratedFileIsReadBack ==
    ReadFile =>
        LET event(i) == GeneratedEvent(i, generated.ratio)
            of(p)    == { i \in 0..(generated.count - 1) : event(i).pid = p }
            nth(p, i) == lists[p].timeline[Cardinality({ j \in of(p) : j <= i })]
        IN  /\ events_processed = generated.count /\ malformed_lines = 0
            /\ \A p \in Pids :
                 /\ Len(lists[p].timeline) = Cardinality(of(p))
                 /\ \A i \in of(p) :
                      nth(p, i) = [ time |-> GeneratedTime(i), event |-> event(i).event,
                                    file |-> event(i).file, dst |-> event(i).dst ]

\* What the policy of the examples has: it names what is planted and nothing
\* else that is generated, and all that can be held against a process of
\* ordinary events weighs less than a sensitive file, a blocked destination
\* and their order, and less than the greatest score.
Blocked(dst) == policy_is_blocked_ip(dst) \/ policy_is_blocked_domain(dst)

KnowsWhatIsPlanted ==
    LET w     == Weights
        noise == w.watched_process + w.high_unique_destinations + w.high_event_volume
    IN  /\ \A f \in {"/etc/passwd", "/home/alice/.ssh/id_rsa"} : policy_is_sensitive_file(f)
        /\ Blocked("malicious.example")
        /\ \A i \in 0..(generated.count - 1) :
             ~sensitive_access(OrdinaryEvent(i)) /\ ~Blocked(OrdinaryEvent(i).dst)
        /\ \A s \in WeightNames \ {"high_unique_destination_threshold",
                                   "high_event_volume_threshold"} : w[s] >= 0
        /\ noise < 100
        /\ noise < w.sensitive_file + w.network_after_file + w.blocked_ip
        /\ noise < w.sensitive_file + w.network_after_file + w.blocked_domain

\* Under such a policy the pid of the malicious events is the only one with a
\* correlation, it has one as soon as two of them were written, and its score
\* is then above that of all the others.
GeneratedRiskIsFound ==
    ReadFile /\ policy_loaded /\ KnowsWhatIsPlanted =>
        LET correlated(p) == p \in pids /\ node[p].touched_sensitive /\ node[p].connected_blocked
            planted == { i \in 0..(generated.count - 1) : malicious(i, generated.ratio) }
        IN  /\ correlated(MaliciousPid) <=> Cardinality(planted) >= 2
            /\ \A p \in pids \ {MaliciousPid} :
                 /\ ~node[p].touched_sensitive /\ ~node[p].connected_blocked
                 /\ correlated(MaliciousPid) => node[p].risk_score < node[MaliciousPid].risk_score

-----------------------------------------------------------------------------
Shows == command.name \in {"graph", "graph --timeline", "timeline"}

IsPrefixOf(l, list) == l.shown \o SubSeq(list, Len(l.shown) + 1, Len(list)) = list
                       /\ l.more = Len(list) - Len(l.shown)

ListsArePrefixes(view, written) ==
    \A f \in DOMAIN written : IsPrefixOf(view[f], written[f])

\* The console shows the first nodes of the report, and of each the first
\* items of its lists with the number of those left out; nothing is left out
\* without a notice, nor at all when the user filters.  Every node that
\* satisfies the filter is in the report, and the exit code says whether
\* there is one (run_graph_command, run_timeline_command, list_print_limited).
ConsoleIsPartOfReport ==
    Shows =>
        LET shown == console.nodes
            all   == report.nodes
            asked == command.filter # [pid |-> -1, process |-> ""]
        IN  /\ Len(shown) <= Len(all) /\ (asked \/ ~console.notice => Len(shown) = Len(all))
            /\ { all[i].pid : i \in DOMAIN all } =
                 { p \in pids : /\ command.filter.pid \in {-1, p}
                                /\ command.filter.process \in {"", node[p].process} }
            /\ code = 3 <=> all = <<>>
            /\ \A i \in DOMAIN shown :
                 LET view == shown[i].view
                     full == all[i].written
                 IN  /\ shown[i].pid = all[i].pid
                     /\ command.name = "graph" => ListsArePrefixes(view, full)
                     /\ command.name = "graph --timeline" =>
                          /\ ListsArePrefixes(view.lists, full.lists)
                          /\ IsPrefixOf(view.timeline, full.timeline)
                     /\ command.name = "timeline" => IsPrefixOf(view, full.timeline)

\* The parity distance of the two nodes found never exceeds the number of
\* relations that only one of them has, and differs from it by an even
\* number: collisions of the Odd Sketch hide differences in pairs and invent
\* none.  The processes compared are the first of their name.
DistanceTellsTheDifference ==
    command.name = "similarity" /\ code = 0 =>
        LET c == report.compared
            named(name) == { p \in pids : node[p].process = name }
        IN  /\ c.hamming <= c.uni - c.inter
            /\ (c.uni - c.inter - c.hamming) % 2 = 0
            /\ \A p \in named(command.a) : Min(OfPid(c.a)) <= Min(OfPid(p))
            /\ \A p \in named(command.b) : Min(OfPid(c.b)) <= Min(OfPid(p))
=============================================================================
