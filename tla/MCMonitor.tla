----------------------------- MODULE MCMonitor -----------------------------
(***************************************************************************)
(* The monitor with a program that makes two calls and can fork once.      *)
(* One call stands for each rule of the default policy that can block, and *)
(* one for those it lets through.                                          *)
(***************************************************************************)
EXTENDS MonitorProperties

CONSTANTS prog, sh

MCProcs == {"target", "child"}
MCUnder == {}
MCShells == {sh}

Made(n) == [nr |-> n, path |-> prog, writes |-> FALSE, port |-> 443, to |-> "peer"]
Fork == Made("fork")
Exit == Made("exit")
Shell == [Made("execve") EXCEPT !.path = sh]
KillInit == [Made("kill") EXCEPT !.to = "init"]
Plain == {Made("openat")}

MCCalls == Plain \cup {Fork, Exit, Shell, KillInit, Made("ptrace"), Made("bpf")}
FewCalls == {Made("openat"), Made("ptrace")}
=============================================================================
