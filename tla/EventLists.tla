----------------------------- MODULE EventLists -----------------------------
(***************************************************************************)
(* load_graph_from_events read from the text of a file: EventGraph, with   *)
(* what the reports of a graph print besides a node's flags.  Every step   *)
(* is a step of EventGraph (or a line it does not see) that also keeps the *)
(* order in which nodes were created and, for each, its lists of event     *)
(* types, files and destinations and its timeline.                         *)
(***************************************************************************)
EXTENDS EventGraph, LineText

VARIABLES
    file,       \* the file, a sequence of texts of lines, which nobody changes
    pos,        \* the lines of it that getline has returned
    order,      \* graph.items: the pids in the order their nodes were added
    lists       \* pid -> the four lists of its node

listVars == <<order, lists>>
readVars == <<graphVars, file, pos, listVars>>

NoLists == [event_types |-> <<>>, files |-> <<>>, destinations |-> <<>>, timeline |-> <<>>]

-----------------------------------------------------------------------------
\* Mutant of list_add_unique: list_add, which keeps repetitions.
list_add(list, value) == IF value = "" THEN list ELSE Append(list, value)

list_add_unique(list, value) ==
    IF value = "" \/ \E i \in DOMAIN list : list[i] = value THEN list ELSE Append(list, value)

graph_add_timeline_event(timeline, text) ==
    LET ev == EventOf(FieldsOf(text))
    IN  Append(timeline, [ time |-> TimeOf(text), event |-> FieldsOf(text).event,
                           file |-> ev.file, dst |-> ev.dst ])

\* The lists of a node after graph_ingest_event.
ListsAfter(l, text) ==
    LET ev      == EventOf(FieldsOf(text))
        reached == list_add_unique(l.destinations, ev.dst)
    IN  [ timeline     |-> graph_add_timeline_event(l.timeline, text),
          event_types  |-> list_add_unique(l.event_types, FieldsOf(text).event),
          files        |-> list_add_unique(l.files, ev.file),
          destinations |-> IF policy_loaded /\ destination_blocked(ev)
                             THEN list_add_unique(reached, matched_dst(ev)) ELSE reached ]

-----------------------------------------------------------------------------
ReadInit ==
    /\ GraphInit
    /\ pos = 0
    /\ order = <<>>
    /\ lists = [p \in Pids |-> NoLists]

\* getline returns the next line of the file.
NextLine == reading /\ pos < Len(file) /\ pos' = pos + 1 /\ UNCHANGED file

ReadEvent(text) ==
    LET p == FieldsOf(text).pid
    IN  /\ ~Skipped(text)
        /\ GraphIngest(FieldsOf(text))
        /\ order' = IF p \in pids THEN order ELSE Append(order, p)
        /\ lists' = [lists EXCEPT ![p] = ListsAfter(@, text)]

ReadMalformed(text) ==
    /\ ~Skipped(text)
    /\ GraphMalformed(FieldsOf(text))
    /\ UNCHANGED listVars

\* Blank lines, comments and the CSV header leave no trace.
ReadNothing(text) ==
    /\ ~Skipped(text) => is_header(FieldsOf(text))
    /\ UNCHANGED <<graphVars, listVars>>

ReadLine ==
    /\ NextLine
    /\ LET text == file[pos + 1]
       IN  ReadEvent(text) \/ ReadMalformed(text) \/ ReadNothing(text)

EndOfFile ==
    /\ pos = Len(file)
    /\ GraphEnd
    /\ UNCHANGED <<file, pos, listVars>>

ReadNext == ReadLine \/ EndOfFile
=============================================================================
