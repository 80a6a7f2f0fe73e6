------------------------------ MODULE LineText ------------------------------
(***************************************************************************)
(* parser.c and the field lookup of policy.c: how the text of a line of an *)
(* events file becomes the fields EventLine works on.  The text is cut     *)
(* into the parts the two parsers tell apart:                              *)
(*   kind "json"    a line that starts with a brace, as its sequence       *)
(*                  "pairs" of [key, value, quoted]; keys hold no colon    *)
(*   kind "csv"     any other line, as its sequence "tokens" of double     *)
(*                  quotes (Q), commas (C) and runs of other characters    *)
(*   kind "skipped" a blank line or a comment, passed over by the readers. *)
(* Left out: truncation to the sizes of event_t, and escapes in a string.  *)
(***************************************************************************)
EXTENDS EventLine, SequencesExt

CONSTANTS
    Long,     \* text -> what strtol reads from it, for the texts it accepts
    Lower     \* text -> the text in lower case, for the texts that are not

ASSUME LongAssumption == \A t \in DOMAIN Long : Long[t] \in Int

Q == "\""
C == ","
Skipped(text) == text.kind = "skipped"

-----------------------------------------------------------------------------
\* strstr looks for the quoted key anywhere in the line, in values too.
Mentions(pairs, key) ==
    { i \in DOMAIN pairs : \/ pairs[i].key = key
                           \/ pairs[i].quoted /\ pairs[i].value = key }

\* strchr then takes the next colon: of that pair when a key was found, of
\* the pair after it when a value was.
Located(pairs, key) ==
    { IF pairs[i].key = key THEN i ELSE i + 1 :
        i \in { j \in Mentions(pairs, key) : \A k \in Mentions(pairs, key) : j <= k } }
    \cap DOMAIN pairs

json_get_string(pairs, key) ==
    LET strings == { i \in Located(pairs, key) : pairs[i].quoted }
    IN  IF strings = {} THEN "" ELSE pairs[CHOOSE i \in strings : TRUE].value

json_get_long(pairs, key, default) ==
    LET numbers == { i \in Located(pairs, key) : /\ ~pairs[i].quoted
                                                 /\ pairs[i].value \in DOMAIN Long }
    IN  IF numbers = {} THEN default ELSE Long[pairs[CHOOSE i \in numbers : TRUE].value]

FieldNames == {"time", "pid", "process", "event", "file", "dst", "domain", "ip"}

JsonFields(pairs) ==
    [ kind |-> "fields",
      pid     |-> json_get_long(pairs, "pid", NoPid),
      process |-> json_get_string(pairs, "process"),
      event   |-> json_get_string(pairs, "event"),
      file    |-> json_get_string(pairs, "file"),
      dst     |-> json_get_string(pairs, "dst"),
      domain  |-> json_get_string(pairs, "domain"),
      ip      |-> json_get_string(pairs, "ip") ]

-----------------------------------------------------------------------------
MaxFields == 8

\* A cell that has nothing yet is its first part.
Joined(cell, token) == IF cell = "" THEN token ELSE cell \o token

\* Mutant of CsvStep: a comma ends a quoted cell too.
CsvStepAnyComma(s, token) ==
    IF token = C THEN [mode |-> "start", cell |-> "", cells |-> Append(s.cells, s.cell)]
    ELSE IF token = Q THEN s ELSE [s EXCEPT !.mode = "plain", !.cell = Joined(@, token)]

\* One part of the line, with what is known of the cell being read: nothing
\* yet, unquoted, quoted, after a quote inside a quoted one, or after its end.
CsvStep(s, token) ==
    IF s.mode = "start" /\ token = Q THEN [s EXCEPT !.mode = "quoted"]
    ELSE IF s.mode = "quoted" /\ token = Q THEN [s EXCEPT !.mode = "quote"]
    ELSE IF s.mode = "quote" /\ token = Q THEN [s EXCEPT !.mode = "quoted", !.cell = Joined(@, Q)]
    ELSE IF s.mode # "quoted" /\ token = C
      THEN [mode |-> "start", cell |-> "", cells |-> Append(s.cells, s.cell)]
    ELSE IF s.mode \in {"quote", "ended"} THEN [s EXCEPT !.mode = "ended"]
    ELSE [s EXCEPT !.mode = IF @ = "start" THEN "plain" ELSE @, !.cell = Joined(@, token)]

\* A line that ends with a comma has no cell after it.
parse_csv_fields(tokens) ==
    LET s == FoldLeft(CsvStep, [mode |-> "start", cell |-> "", cells |-> <<>>], tokens)
        cells == IF s.mode = "start" THEN s.cells ELSE Append(s.cells, s.cell)
    IN  SubSeq(cells, 1, IF Len(cells) < MaxFields THEN Len(cells) ELSE MaxFields)

Cell(cells, i) == IF i \in DOMAIN cells THEN cells[i] ELSE ""

str_ieq(s, t) == s = t \/ (s \in DOMAIN Lower /\ Lower[s] = t)

is_csv_header_fields(cells) ==
    /\ str_ieq(Cell(cells, 1), "time")
    /\ str_ieq(Cell(cells, 2), "pid")
    /\ str_ieq(Cell(cells, 3), "process")

CsvFields(cells) ==
    [ kind |-> IF is_csv_header_fields(cells) THEN "header" ELSE "fields",
      pid     |-> IF Cell(cells, 2) \in DOMAIN Long THEN Long[Cell(cells, 2)] ELSE NoPid,
      process |-> Cell(cells, 3), event |-> Cell(cells, 4), file |-> Cell(cells, 5),
      dst     |-> Cell(cells, 6), domain |-> Cell(cells, 7), ip |-> Cell(cells, 8) ]

-----------------------------------------------------------------------------
\* What the parser hands to EventLine, and the time, which timelines show.
FieldsOf(text) == IF text.kind = "json" THEN JsonFields(text.pairs)
                  ELSE CsvFields(parse_csv_fields(text.tokens))

TimeOf(text) == IF text.kind = "json" THEN json_get_string(text.pairs, "time")
                ELSE Cell(parse_csv_fields(text.tokens), 1)
=============================================================================
