---------------------------- MODULE AgentPolicy ----------------------------
(***************************************************************************)
(* config.c: the policy of agentguard and its four decisions.  The parser  *)
(* of the configuration file is a TODO of the source, so the policy in     *)
(* force is always the one of ag_config_set_defaults; a reload             *)
(* (ag_config_reload, on SIGUSR1) installs it again.  A decision is TRUE   *)
(* for AG_ACTION_BLOCK.                                                    *)
(***************************************************************************)
CONSTANTS
    Shells,         \* the paths of the shells[] table
    Under           \* <<path, prefix>>: the path begins with the prefix

ASSUME ShellsAssumption == Shells # {}

ag_config_set_defaults ==
    [ syscall_filter_enabled |-> TRUE, file_filter_enabled |-> TRUE,
      network_filter_enabled |-> TRUE, exec_filter_enabled |-> TRUE,
      blocked_syscalls |-> {"ptrace", "personality", "init_module", "delete_module",
                            "kexec_load", "kexec_file_load", "bpf", "perf_event_open"},
      allowed_syscalls |-> {}, protected_paths |-> {}, blocked_paths |-> {},
      blocked_executables |-> {}, block_shell_execution |-> TRUE,
      block_all_outbound |-> FALSE, allowed_ports |-> {} ]

default_policy == ag_config_set_defaults

BeginsWithOneOf(path, prefixes) == \E prefix \in prefixes : <<path, prefix>> \in Under

\* A block list, then an allow list when there is one.
ag_policy_evaluate_syscall(policy, nr) ==
    /\ policy.syscall_filter_enabled
    /\ \/ nr \in policy.blocked_syscalls
       \/ policy.allowed_syscalls # {} /\ nr \notin policy.allowed_syscalls

\* Protected paths cannot be opened for writing, blocked ones not at all.
ag_policy_evaluate_file(policy, path, writes) ==
    /\ policy.file_filter_enabled
    /\ \/ writes /\ BeginsWithOneOf(path, policy.protected_paths)
       \/ BeginsWithOneOf(path, policy.blocked_paths)

ag_policy_evaluate_exec(policy, path) ==
    /\ policy.exec_filter_enabled
    /\ \/ path \in policy.blocked_executables
       \/ policy.block_shell_execution /\ path \in Shells

ag_policy_evaluate_network(policy, port) ==
    /\ policy.network_filter_enabled
    /\ \/ policy.block_all_outbound
       \/ policy.allowed_ports # {} /\ port \notin policy.allowed_ports
=============================================================================
