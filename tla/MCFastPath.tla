----------------------------- MODULE MCFastPath -----------------------------
(***************************************************************************)
(* A policy with one name of each sort, and lines for two pids and for     *)
(* events without a pid.                                                   *)
(***************************************************************************)
EXTENDS FastPathProperties, TLC

MCPolicyFile ==
    [ sensitive_files   |-> <<"shadow", "ssh*">>,
      blocked_domains   |-> <<"evil.test", "*.bad">>,
      blocked_ips       |-> <<"45.9", "lost", "evil.test">>,
      watched_processes |-> <<"curl", "bad token", "sh">> ]

\* "notes" sets only bits that "shadow" has set: a false positive of the filter.
MCBloomBits ==
    [ v \in {"shadow", "ssh*", "sshkey", "notes", "evil.test", "*.bad", "45.9", "lost",
             "ok.test", "10.1", "curl", "sh", "py"} |->
        CASE v = "shadow" -> {1, 2} [] v = "notes" -> {2} [] v = "45.9" -> {3}
          [] v = "curl" -> {4} [] v = "evil.test" -> {5} [] OTHER -> {6} ]

MCFnMatch == ("ssh*" :> {"sshkey"}) @@ ("*.bad" :> {})

\* The defaults, with thresholds a short file reaches.
MCWeights == [risk_weights_set_defaults EXCEPT !.high_unique_destination_threshold = 2,
                                               !.high_event_volume_threshold = 3]

MCText == {"", "-", "shadow", "notes", "sshkey", "evil.test", "45.9", "ok.test", "10.1",
           "curl", "sh", "py", "process"}

blank == [kind |-> "fields", pid |-> NoPid, process |-> "", event |-> "", file |-> "",
          dst |-> "", domain |-> "", ip |-> ""]

Of(p, name) == [blank EXCEPT !.pid = p, !.process = name]

MCLines ==
    { [Of(1, "sh") EXCEPT !.file = "shadow"],
      [Of(1, "sh") EXCEPT !.file = "notes", !.dst = "ok.test"],
      [Of(1, "py") EXCEPT !.file = "sshkey", !.dst = "45.9"],
      [Of(1, "sh") EXCEPT !.dst = "ok.test", !.ip = "45.9"],
      [Of(2, "curl") EXCEPT !.domain = "evil.test"],
      [Of(2, "curl") EXCEPT !.file = "sshkey", !.dst = "10.1"],
      [Of(NoPid, "py") EXCEPT !.file = "shadow"],
      [Of(NoPid, "sh") EXCEPT !.ip = "45.9", !.domain = "evil.test"],
      Of(2, ""),
      blank,
      [blank EXCEPT !.kind = "header", !.process = "process"] }

MCIps == {"45.9", "10.1"}
MCDomains == {"ok.test", "evil.test"}
=============================================================================
