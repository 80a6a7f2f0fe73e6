-------------------------- MODULE MCGraphCommands ---------------------------
(***************************************************************************)
(* The policy of the examples; files of up to two lines of every sort, of  *)
(* up to four events of several pids, and generated ones.                  *)
(***************************************************************************)
EXTENDS GraphCommandsProperties, TLC

MCPolicyFile ==
    [ sensitive_files   |-> <<"/etc/passwd", "/etc/shadow", "/home/*/.ssh/*">>,
      blocked_domains   |-> <<"malicious.example", "evil.test">>,
      blocked_ips       |-> <<"45.90.10.2", "203.0.113.77">>,
      watched_processes |-> <<"python", "curl", "bash">> ]
MCFnMatch == "/home/*/.ssh/*" :> {"/home/alice/.ssh/id_rsa"}
MCWeights == [risk_weights_set_defaults EXCEPT !.high_unique_destination_threshold = 2,
                                               !.high_event_volume_threshold = 3]

Number(value) == [key |-> "pid", value |-> value, quoted |-> FALSE]
J(pairs) == [kind |-> "json", pairs |-> pairs]
Row(tokens) == [kind |-> "csv", tokens |-> tokens]

EventLines ==
    { J(<<Number("1"), Pair("process", "python"), Pair("event", "open"),
          Pair("file", "/etc/passwd")>>),
      J(<<Pair("time", "t1"), Number("1"), Pair("process", "python"), Pair("event", "send"),
          Pair("dst", "ok.test"), Pair("ip", "45.90.10.2")>>),
      J(<<Number("2"), Pair("process", "bash"), Pair("file", "a,b"),
          Pair("domain", "evil.test")>>),
      Row(<<"t2", C, "3", C, "python", C, "open", C, Q, "a", C, "b", Q>>),
      J(<<Pair("process", "python"), Pair("event", "spawn"), Pair("file", "x")>>) }

OddLines ==
    { \* names of fields as values, a field given twice, a number as a process
      J(<<Number("2"), Pair("process", "file"), Pair("file", "x"), Pair("event", "dst")>>),
      J(<<Number("2"), Pair("file", "x"), Pair("file", "a"), Pair("process", "bash")>>),
      J(<<[key |-> "process", value |-> "2", quoted |-> FALSE], Pair("pid", "1"),
          Pair("event", "exec")>>),
      \* the header, nothing but blanks, a comment
      Row(<<"TIME", C, "pid", C, "process">>), Row(<<>>), [kind |-> "skipped"],
      \* doubled quotes, nine cells, text after a quoted cell, a stray quote
      Row(<<"t1", C, Q, "2", Q, C, Q, "a", Q, Q, "b", Q, C, "open", C, Q, Q, C, C>>),
      Row(<<"t1", C, "1", C, "bash", C, C, C, C, C, "45.90.10.2", C, "x">>),
      Row(<<Q, "t1", Q, "x", C, "2", C, "bash", C, Q, "open">>),
      Row(<<"t1", Q, C, "x", C, "python">>) }

MCFiles ==
    UNION { [1..n -> EventLines \cup OddLines] : n \in 0..2 }
      \cup UNION { [1..n -> EventLines] : n \in 3..4 }

MCGeneratorOptions ==
    [count : {1, 4, 9}, ratio : {0, 5, 30, 50, 60, 100}, format : {"csv", "jsonl"}]

MCLong == [ t \in { ToString(p) : p \in {1, 2, 3, MaliciousPid} \cup 1000..1002 } |->
              CHOOSE p \in {1, 2, 3, MaliciousPid} \cup 1000..1002 : ToString(p) = t ]
MCPidFilters == {-1, 1, 2}
MCLower == "TIME" :> "time"

MCTexts == EventLines \cup OddLines \cup
    UNION { { Generated(o)[i] : i \in DOMAIN Generated(o) } : o \in MCGeneratorOptions }
MCLines == { FieldsOf(t) : t \in { u \in MCTexts : ~Skipped(u) } }
MCText == {"", "-"} \cup UNION { {l.process, l.event, l.file, l.dst, l.domain, l.ip} : l \in MCLines }

\* A filter without false positives.
MCBloomBits ==
    [ v \in MCText \cup UNION { { MCPolicyFile[a][i] : i \in DOMAIN MCPolicyFile[a] } :
                                  a \in DOMAIN MCPolicyFile } |-> {v} ]
MCBit == [ v \in MCText |-> CASE v \in {"/etc/passwd", "a,b", "ok.test"} -> 1
                              [] v \in {"45.90.10.2", "x"} -> 2 [] OTHER -> 3 ]
MCIps == {"45.90.10.2"}
MCDomains == {"ok.test", "evil.test", "malicious.example"}
=============================================================================
