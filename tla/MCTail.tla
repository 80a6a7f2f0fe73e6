------------------------------- MODULE MCTail -------------------------------
(***************************************************************************)
(* The policy of MCFastPath, and lines one of which is read as something   *)
(* else when its two halves are read apart.                                *)
(***************************************************************************)
EXTENDS TailProperties, TLC

MCPolicyFile ==
    [ sensitive_files   |-> <<"shadow">>, blocked_domains   |-> <<"evil.test">>,
      blocked_ips       |-> <<"45.9">>,   watched_processes |-> <<"sh">> ]
MCBloomBits == [v \in {"shadow", "evil.test", "45.9", "sh", "py", "notes"} |-> {1}]
MCFnMatch == [v \in {} |-> {}]
MCWeights == risk_weights_set_defaults
MCText == {"", "-", "shadow", "notes", "evil.test", "45.9", "sh", "py"}
MCIps == {"45.9"}
MCDomains == {"evil.test"}

blank == [kind |-> "fields", pid |-> NoPid, process |-> "", event |-> "", file |-> "",
          dst |-> "", domain |-> "", ip |-> ""]
Of(p, name) == [blank EXCEPT !.pid = p, !.process = name]

Touch == [Of(1, "sh") EXCEPT !.file = "shadow"]
Contact == [Of(1, "sh") EXCEPT !.dst = "45.9"]
Both == [Of(2, "py") EXCEPT !.file = "shadow", !.domain = "evil.test"]
MCLines == {Touch, Contact, Both, Of(2, "py"), Of(1, "sh"), [blank EXCEPT !.file = "shadow"], blank}

\* The first half of a line holds pid and process, the second the rest.
MCTorn == [l \in MCLines |-> [head |-> IF l.pid = NoPid THEN blank ELSE Of(l.pid, l.process),
                              rest |-> IF l.file = "" THEN blank ELSE [blank EXCEPT !.file = "shadow"]]]
=============================================================================
