----------------------------- MODULE Generator ------------------------------
(***************************************************************************)
(* agfast generate: the synthetic events and the two forms they are        *)
(* written in (run_generate_command, json_emit_event in commands.c).       *)
(* options is [count, ratio, format]; the ratio is in hundredths.          *)
(***************************************************************************)
EXTENDS LineText

CONSTANT PidRange     \* the pids of ordinary events, 50000 in the code

ASSUME PidRangeAssumption == PidRange \in Nat \ {0}

MaliciousPid == 123
Procs  == <<"nginx", "postgres", "sshd", "bash", "python", "node", "agent", "curl">>
Events == <<"open", "read", "write", "connect", "exec", "spawn">>
Roots  == <<"/var/log/syslog", "/tmp/cache.db", "/home/alice/app.log", "/etc/hosts",
            "/srv/app/config.yml">>
Pick(names, i) == names[(i % Len(names)) + 1]

\* Every how many events one is malicious; 0: none is.
malicious_every(ratio) ==
    IF ratio <= 0 THEN 0 ELSE IF ratio >= 100 THEN 1 ELSE 100 \div ratio

malicious(i, ratio) == malicious_every(ratio) > 0 /\ i % malicious_every(ratio) = 0

\* Mutant of Turn: events are counted, not malicious events.
TurnOfEvent(i, ratio) == i
Turn(i, ratio) == i \div malicious_every(ratio)

\* Malicious events are sensitive opens and blocked connections in turn.  The
\* address 45.90.10.2 is for turns that are multiples of 4, which are opens.
MaliciousEvent(turn) ==
    [ pid   |-> MaliciousPid, process |-> "python",
      event |-> IF turn % 2 = 0 THEN "open" ELSE "connect",
      file  |-> IF turn % 2 # 0 THEN "" ELSE IF turn % 4 = 0 THEN "/etc/passwd"
                ELSE "/home/alice/.ssh/id_rsa",
      dst   |-> IF turn % 2 = 0 THEN "" ELSE IF turn % 4 = 0 THEN "45.90.10.2"
                ELSE "malicious.example" ]

OrdinaryEvent(i) ==
    [ pid     |-> 1000 + (i % PidRange),
      process |-> Pick(Procs, i),
      event   |-> Pick(Events, i),
      file    |-> IF Pick(Events, i) \in {"open", "read", "write"}
                    THEN Pick(Roots, i) \o "/" \o ToString(i % 1000000)
                                        \o "/event-" \o ToString(i) \o ".log"
                    ELSE "",
      dst     |-> IF Pick(Events, i) = "connect"
                    THEN "10." \o ToString((i \div 65536) % 255)
                         \o "." \o ToString((i \div 256) % 255) \o "." \o ToString(i % 255)
                    ELSE "" ]

\* Event i, from 0; its time counts minutes and seconds, modulo the hour.
GeneratedEvent(i, ratio) ==
    IF malicious(i, ratio) THEN MaliciousEvent(Turn(i, ratio))
    ELSE OrdinaryEvent(i)
GeneratedTime(i) == ToString((i \div 60) % 60) \o ":" \o ToString(i % 60)

-----------------------------------------------------------------------------
Pair(key, value) == [key |-> key, value |-> value, quoted |-> TRUE]

FirstPairs(i, e) ==
    <<Pair("time", GeneratedTime(i)),
      [key |-> "pid", value |-> ToString(e.pid), quoted |-> FALSE],
      Pair("process", e.process), Pair("event", e.event)>>

Given(key, value) == IF value = "" THEN <<>> ELSE <<Pair(key, value)>>

\* Mutant of json_emit_event: the destination is written as a file.
json_emit_event_one_key(i, e) ==
    [kind |-> "json", pairs |-> FirstPairs(i, e) \o Given("file", e.file) \o Given("file", e.dst)]

json_emit_event(i, e) ==
    [kind |-> "json", pairs |-> FirstPairs(i, e) \o Given("file", e.file) \o Given("dst", e.dst)]

\* Time, process, event, file and dst are quoted; two empty cells follow.
Quoted(value) == IF value = "" THEN <<Q, Q, C>> ELSE <<Q, value, Q, C>>

CsvRow(i, e) ==
    [ kind |-> "csv",
      tokens |-> Quoted(GeneratedTime(i)) \o <<ToString(e.pid), C>> \o Quoted(e.process)
                 \o Quoted(e.event) \o Quoted(e.file) \o Quoted(e.dst) \o <<C>> ]

CsvHeader ==
    [ kind |-> "csv",
      tokens |-> <<"time", C, "pid", C, "process", C, "event", C, "file", C,
                   "dst", C, "domain", C, "ip">> ]

Generated(options) ==
    LET row(i) == IF options.format = "csv"
                    THEN CsvRow(i, GeneratedEvent(i, options.ratio))
                    ELSE json_emit_event(i, GeneratedEvent(i, options.ratio))
        rows == [k \in 1..options.count |-> row(k - 1)]
    IN  IF options.format = "csv" THEN <<CsvHeader>> \o rows ELSE rows
=============================================================================
