----------------------------- MODULE EventLine ------------------------------
(***************************************************************************)
(* parser.c: from a line of the events file to an event_t.  A line is a    *)
(* record: "kind" tells a line that holds fields (a JSON object or a CSV   *)
(* row) from the CSV header, and the fields are what json_get_string or    *)
(* parse_csv_fields extracts, "" or NoPid for a missing or unreadable one. *)
(* Blank lines and # comments are skipped by every reader before the       *)
(* parser and are not lines here.  Times and event types are not kept.     *)
(***************************************************************************)
EXTENDS Integers

NoPid == -1    \* ev->pid when no pid can be read

\* A destination is filled from ip, else from domain, when dst is empty.
EventOf(line) ==
    [ pid     |-> line.pid,
      process |-> line.process,
      file    |-> line.file,
      dst     |-> IF line.dst # "" THEN line.dst
                  ELSE IF line.ip # "" THEN line.ip ELSE line.domain,
      domain  |-> line.domain,
      ip      |-> line.ip ]

is_header(line) == line.kind = "header"

\* The return value of parse_event_line.
parse_event_line(line) ==
    /\ ~is_header(line)
    /\ line.pid >= 0 \/ line.process # "" \/ line.event # ""

\* malformed_lines counts what is neither an event nor a header.
malformed(line) == ~parse_event_line(line) /\ ~is_header(line)
=============================================================================
