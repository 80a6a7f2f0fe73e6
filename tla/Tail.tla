-------------------------------- MODULE Tail --------------------------------
(***************************************************************************)
(* agfast tail (run_tail_command): the events file is read while its       *)
(* writer goes on appending to it.  getline returns what there is: a line, *)
(* or at the end of the file the piece of a line that has been written so  *)
(* far.  The writer is external; it appends a line in one write or, where  *)
(* TornWrites, in two.                                                     *)
(***************************************************************************)
EXTENDS EventGraph

CONSTANTS
    TornWrites,     \* whether a line may reach the file in two writes
    Torn            \* line -> what its two pieces parse to when read apart

ASSUME TornAssumption == TornWrites \in BOOLEAN /\ Torn \in [Lines -> [head : Lines, rest : Lines]]

VARIABLES
    file,           \* the pieces written: [line, part]
    pos,            \* pieces read
    eof,            \* the end-of-file flag of the stream
    follow,         \* --follow
    seen,           \* the events read; kept for the properties
    split,          \* whether a read has ended inside a line; kept for them too
    printed         \* the alerts printed: <<level, number of the event>>

tailVars == <<graphVars, file, pos, eof, follow, seen, split, printed>>

Piece(line, part) == [line |-> line, part |-> part]
LinesWritten == { i \in DOMAIN file : file[i].part # "rest" }    \* the places they begin at

TailInit ==
    /\ GraphInit /\ policy_loaded = TRUE        \* tail requires --policy
    /\ file = <<>> /\ pos = 0 /\ eof = FALSE /\ follow \in BOOLEAN
    /\ seen = <<>> /\ split = FALSE /\ printed = {}

-----------------------------------------------------------------------------
(* The writer. *)

HalfWritten == file # <<>> /\ file[Len(file)].part = "head"

WriterOnly == UNCHANGED <<graphVars, pos, eof, follow, seen, split, printed>>

AppendLine(line) ==
    /\ ~HalfWritten /\ Cardinality(LinesWritten) < MaxLines
    /\ \E part \in {"whole"} \cup (IF TornWrites THEN {"head"} ELSE {}) :
          file' = Append(file, Piece(line, part))
    /\ WriterOnly

AppendRest ==
    /\ HalfWritten
    /\ file' = Append(file, Piece(file[Len(file)].line, "rest"))
    /\ WriterOnly

-----------------------------------------------------------------------------
(* The reader. *)

\* Mutant of Pieces: a read ends with each write.
OneWrite == 1

\* What getline returns: the pieces it takes and the line they parse to.
Pieces == IF file[pos + 1].part = "head" /\ pos + 1 < Len(file) THEN 2 ELSE 1
GetLine ==
    LET piece == file[pos + 1] IN
    CASE piece.part = "rest"                 -> Torn[piece.line].rest
      [] piece.part = "head" /\ Pieces = 1   -> Torn[piece.line].head
      [] OTHER                               -> piece.line

\* Mutant of Correlated: both halves must be in one event.
CorrelatedInOneEvent(n, ev) == sensitive_access(ev) /\ destination_blocked(ev)

\* The flags of the node, whatever event raised them; there is no critical_emitted.
Correlated(n, ev) == n.touched_sensitive /\ n.connected_blocked

\* Mutant of Ingested: the event goes into the graph twice.
IngestedTwice(ev) ==
    graph_ingest_event(graph_ingest_event(graph_get_or_add(pids, node[ev.pid], ev), ev), ev)

Ingested(ev) == graph_ingest_event(graph_get_or_add(pids, node[ev.pid], ev), ev)

Alerts(n, ev) ==
    {level \in {"LOW", "MEDIUM", "HIGH", "CRITICAL"} :
        CASE level = "LOW"    -> policy_is_watched_process(ev.process)
          [] level = "MEDIUM" -> sensitive_access(ev)
          [] level = "HIGH"   -> destination_blocked(ev)
          [] OTHER            -> Correlated(n, ev)}

TailEvent(ev) ==
    \E n \in {Ingested(ev)} :
    /\ pids' = pids \cup {ev.pid}
    /\ events_processed' = events_processed + 1
    /\ node' = [node EXCEPT ![ev.pid] = IF Correlated(n, ev) THEN compute_risk_for_node(n) ELSE n]
    /\ printed' = printed \cup (Alerts(n, ev) \X {events_processed'})
    /\ seen' = Append(seen, ev)

Read ==
    /\ reading /\ ~eof /\ pos < Len(file)
    /\ pos' = pos + Pieces
    /\ eof' = (pos' = Len(file) /\ file[pos'].part = "head")
    /\ split' = (split \/ eof')
    /\ IF parse_event_line(GetLine)
         THEN TailEvent(EventOf(GetLine))
         ELSE UNCHANGED <<pids, node, events_processed, seen, printed>>
    /\ UNCHANGED <<policy_loaded, malformed_lines, reading, file, follow>>

\* getline returns -1.
EndOfFile ==
    /\ reading /\ ~eof /\ pos = Len(file)
    /\ eof' = TRUE
    /\ UNCHANGED <<graphVars, file, pos, follow, seen, split, printed>>

\* Mutant of AfterEnd: the flag of the stream is not cleared.
AfterEndStuck ==
    /\ reading /\ eof
    /\ reading' = follow
    /\ UNCHANGED <<policy_loaded, pids, node, events_processed, malformed_lines, eof,
                   file, pos, follow, seen, split, printed>>

\* clearerr and sleep(1), or the end of the command.
AfterEnd ==
    /\ reading /\ eof
    /\ reading' = follow
    /\ eof' = ~follow
    /\ UNCHANGED <<policy_loaded, pids, node, events_processed, malformed_lines,
                   file, pos, follow, seen, split, printed>>

TailRead == Read \/ EndOfFile \/ AfterEnd

TailNext == (\E line \in Lines : AppendLine(line)) \/ AppendRest \/ TailRead

TailSpec == TailInit /\ [][TailNext]_tailVars /\ WF_tailVars(TailRead)
=============================================================================
