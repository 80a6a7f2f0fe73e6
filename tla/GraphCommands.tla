--------------------------- MODULE GraphCommands ----------------------------
(***************************************************************************)
(* agfast graph, timeline and similarity: the events file is read into the *)
(* graph (EventLists), then one command prints nodes of it on the console, *)
(* cut to some limits, and writes them to a JSON report, which is not cut. *)
(* The file is one of Files or one that agfast generate has written.       *)
(***************************************************************************)
EXTENDS Similarity, Generator

CONSTANTS
    Files,                 \* the files written by hand
    GeneratorOptions,      \* the options agfast generate was called with
    PidFilters,            \* the values of --pid, -1 when there is none
    ProcessFilters,        \* the values of --process, "" when there is none
    GraphPrintLimit,       \* AGF_GRAPH_PRINT_LIMIT
    TimelinePrintLimit,    \* AGF_TIMELINE_PRINT_LIMIT
    TopItemsPrint          \* AGF_TOP_ITEMS_PRINT

AllFiles == Files \cup { Generated(o) : o \in GeneratorOptions }

ASSUME FilesAssumption ==
    /\ \A f \in AllFiles : f \in Seq(ToSet(f)) /\ Len(f) <= MaxLines
    /\ { FieldsOf(t) : t \in { u \in UNION { ToSet(f) : f \in AllFiles } : ~Skipped(u) } }
         \subseteq Lines

\* The form in which LineText has a line.
ASSUME TextsAssumption ==
    \A text \in UNION { ToSet(f) : f \in AllFiles } :
        \/ Skipped(text)
        \/ text.kind = "json" /\ text.pairs \in Seq(ToSet(text.pairs))
        \/ text.kind = "csv" /\ text.tokens \in Seq(ToSet(text.tokens))

\* What agfast generate writes are no separators and no names of fields, and
\* strtol reads a pid from its digits.
ASSUME GeneratedAssumption ==
    /\ GeneratorOptions \subseteq [count : Nat, ratio : Int, format : {"csv", "jsonl"}]
    /\ \A o \in GeneratorOptions : \A i \in 0..(o.count - 1) :
         {GeneratedTime(i), OrdinaryEvent(i).file, OrdinaryEvent(i).dst}
           \cap (FieldNames \cup {Q, C}) = {}
    /\ \A p \in {MaliciousPid} \cup 1000..(999 + PidRange) :
         /\ ToString(p) \in DOMAIN Long \ (DOMAIN Lower \cup FieldNames \cup {Q, C})
         /\ Long[ToString(p)] = p

\* --pid is refused unless it is a number, and not a negative one.
ASSUME FiltersAssumption == PidFilters \subseteq Nat \cup {-1}
ASSUME LimitsAssumption == {GraphPrintLimit, TimelinePrintLimit, TopItemsPrint} \subseteq Nat

VARIABLES
    generated,   \* the options the file was generated with; count 0: it was not
    command,     \* the command and its filters, name "" before it prints
    console,     \* the nodes printed, and whether the notice of a limit is
    report,      \* the nodes of the JSON report
    code         \* the exit code

outVars == <<command, console, report, code>>
vars == <<readVars, generated, outVars>>

-----------------------------------------------------------------------------
graph_node_matches(p, filter) ==
    /\ filter.pid >= 0 => p = filter.pid
    /\ filter.process # "" => node[p].process = filter.process

\* The loop over the nodes passes over those that do not match.
Matching(filter) ==
    LET take(taken, p) == IF graph_node_matches(p, filter) THEN Append(taken, p) ELSE taken
    IN  FoldLeft(take, <<>>, order)

\* The first elements of a list, and how many are not shown.
Limited(list, limit) ==
    LET n == IF Len(list) < limit THEN Len(list) ELSE limit
    IN  [shown |-> SubSeq(list, 1, n), more |-> Len(list) - n]

\* The reasons compute_risk_for_node lists beside the score.
risk_reasons(n) ==
    LET reason(signal, name) == IF policy_loaded /\ signal THEN <<name>> ELSE <<>>
    IN     reason(n.watched, "watched_process")
        \o reason(n.touched_sensitive, "sensitive_file_access")
        \o reason(n.connected_blocked_ip, "blocked_ip_contact")
        \o reason(n.connected_blocked_domain, "blocked_domain_contact")
        \o reason(network_after_file(n), "network_after_file_access")
        \o reason(AtThreshold(Cardinality(n.destinations),
                              Weights.high_unique_destination_threshold),
                  "high_unique_destinations")
        \o reason(AtThreshold(n.events_seen, Weights.high_event_volume_threshold),
                  "high_event_volume")

\* The views of a node.  Its flags, firsts and score, which print_graph_node
\* and the report both write as they are, are not repeated in them.
print_timeline_node(p) == Limited(lists[p].timeline, TimelinePrintLimit)

print_graph_node(p) ==
    [ risk_reasons |-> Limited(risk_reasons(node[p]), TopItemsPrint),
      event_types  |-> Limited(lists[p].event_types, TopItemsPrint),
      files        |-> Limited(lists[p].files, GraphPrintLimit),
      destinations |-> Limited(lists[p].destinations, GraphPrintLimit) ]

write_graph_json_core(p) ==
    [ risk_reasons |-> risk_reasons(node[p]), event_types |-> lists[p].event_types,
      files |-> lists[p].files, destinations |-> lists[p].destinations ]

-----------------------------------------------------------------------------
\* Mutant of Cut: the limit holds with a filter too.
CutAlways(filter) == Len(Matching(filter)) >= GraphPrintLimit

\* The loop over the nodes stops at the limit, with a notice, when there is
\* no filter; the notice comes with the last node of the limit, whether or
\* not another one follows.
Cut(filter) ==
    /\ filter.pid < 0 /\ filter.process = ""
    /\ Len(Matching(filter)) >= GraphPrintLimit

Printed(filter) == IF Cut(filter) THEN SubSeq(Matching(filter), 1, GraphPrintLimit)
                                  ELSE Matching(filter)

\* What graph and timeline have in common: a view of the printed nodes, and
\* another one of all the nodes that match.
Show(name, filter, view, written) ==
    /\ command' = [name |-> name, filter |-> filter]
    /\ console' = [ nodes  |-> [i \in DOMAIN Printed(filter) |->
                                  [pid |-> Printed(filter)[i], view |-> view[Printed(filter)[i]]]],
                    notice |-> Cut(filter) ]
    /\ report' = [nodes |-> [i \in DOMAIN Matching(filter) |->
                               [pid |-> Matching(filter)[i], written |-> written[Matching(filter)[i]]]]]
    /\ code' = IF Matching(filter) = <<>> THEN 3 ELSE 0
    /\ UNCHANGED <<readVars, generated>>

-----------------------------------------------------------------------------
NoFile == [count |-> 0, ratio |-> 0, format |-> ""]

Init ==
    /\ \/ file \in Files /\ generated = NoFile
       \/ generated \in GeneratorOptions /\ file = Generated(generated)
    /\ ReadInit
    /\ command = [name |-> ""]
    /\ console = [nodes |-> <<>>, notice |-> FALSE]
    /\ report = [nodes |-> <<>>]
    /\ code = 0

Read == ReadNext /\ UNCHANGED <<generated, outVars>>

Waiting == ~reading /\ command.name = ""

\* --timeline adds the events of each node to what agfast graph prints.
GraphCommand(filter) ==
    /\ Waiting
    /\ Show("graph", filter, [p \in pids |-> print_graph_node(p)],
                             [p \in pids |-> write_graph_json_core(p)])

GraphTimelineCommand(filter) ==
    LET with(f, t) == [lists |-> f, timeline |-> t]
        view    == [p \in pids |-> with(print_graph_node(p), print_timeline_node(p))]
        written == [p \in pids |-> with(write_graph_json_core(p), lists[p].timeline)]
    IN  Waiting /\ Show("graph --timeline", filter, view, written)

TimelineCommand(filter) ==
    LET view    == [p \in pids |-> print_timeline_node(p)]
        written == [p \in pids |-> [ lists |-> write_graph_json_core(p),
                                     timeline |-> lists[p].timeline ]]
    IN  Waiting /\ Show("timeline", filter, view, written)

\* Without both processes nothing is written.
SimilarityCommand(a, b) ==
    /\ Waiting
    /\ command' = [name |-> "similarity", a |-> a, b |-> b]
    /\ IF Found(a) # {} /\ Found(b) # {}
         THEN /\ code' = 0
              /\ report' = [compared |-> Comparison(find_first_process_node(a),
                                                   find_first_process_node(b))]
         ELSE code' = 3 /\ UNCHANGED report
    /\ UNCHANGED <<readVars, generated, console>>

Next ==
    \/ Read
    \/ \E filter \in [pid : PidFilters, process : ProcessFilters] :
         GraphCommand(filter) \/ GraphTimelineCommand(filter) \/ TimelineCommand(filter)
    \/ \E a, b \in ProcessFilters \ {""} : SimilarityCommand(a, b)

Spec == Init /\ [][Next]_vars
=============================================================================
