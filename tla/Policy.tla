------------------------------- MODULE Policy -------------------------------
(***************************************************************************)
(* policy.c and the Bloom filter of sketches.c: what a policy.json decides *)
(* once it is loaded.  A policy array is the sequence of its tokens; a     *)
(* token is a name or BadToken (a number, a nested value, an unterminated  *)
(* string), at which parse_policy_array gives the array up and keeps what  *)
(* it has read so far.                                                     *)
(***************************************************************************)
EXTENDS Integers, Sequences

CONSTANTS
    PolicyFile,   \* array name -> the sequence of tokens between its brackets
    BadToken,     \* a token that parse_json_string_token refuses
    BloomBits,    \* name -> the bit positions its hashes address
    FnMatch,      \* name with glob characters -> the names fnmatch accepts
    Weights       \* the risk weights and thresholds, as risk_weights_t

WeightNames ==
    {"watched_process", "sensitive_file", "blocked_ip", "blocked_domain",
     "network_after_file", "high_unique_destinations", "high_event_volume",
     "high_unique_destination_threshold", "high_event_volume_threshold"}

\* json_get_int clamps to +-1000000: a weight may be negative.
ASSUME WeightsAssumption ==
    /\ DOMAIN Weights = WeightNames
    /\ \A w \in WeightNames : Weights[w] \in Int /\ -1000000 <= Weights[w]
                                                 /\ Weights[w] <= 1000000

\* The weights a policy without "risk_weights" has.
risk_weights_set_defaults ==
    [ watched_process |-> 10, sensitive_file |-> 25, blocked_ip |-> 35,
      blocked_domain |-> 35, network_after_file |-> 30,
      high_unique_destinations |-> 15, high_event_volume |-> 10,
      high_unique_destination_threshold |-> 10,
      high_event_volume_threshold |-> 100 ]

-----------------------------------------------------------------------------
\* A Bloom filter is the set of the positions whose bit is set; adding the
\* names of S sets the bits of each non-empty one.
bloom_add_all(S) == UNION { BloomBits[v] : v \in S \ {""} }
bloom_might_contain(bloom, value) == value # "" /\ BloomBits[value] \subseteq bloom

contains_glob(token) == token \in DOMAIN FnMatch

\* The tokens of an array that parse_policy_array reaches: it breaks at the
\* first one that is not a string.
TokensRead ==
    [ array \in DOMAIN PolicyFile |->
        { PolicyFile[array][i] :
            i \in { j \in DOMAIN PolicyFile[array] :
                      \A k \in 1..j : PolicyFile[array][k] # BadToken } } ]

\* Only sensitive_files is parsed with a pattern list: in the other arrays a
\* name with glob characters goes to the exact list.  list_add ignores "".
patterns ==
    [ array \in DOMAIN PolicyFile |->
        IF array = "sensitive_files"
          THEN { t \in TokensRead[array] : contains_glob(t) }
          ELSE {} ]

exact == [ array \in DOMAIN PolicyFile |-> TokensRead[array] \ (patterns[array] \cup {""}) ]

bloom == [ array \in DOMAIN PolicyFile |-> bloom_add_all(exact[array]) ]

-----------------------------------------------------------------------------
policy_match_exact_with_bloom(array, value) ==
    /\ value # ""
    /\ bloom_might_contain(bloom[array], value)
    /\ value \in exact[array]

list_matches_pattern(array, value) == \E p \in patterns[array] : value \in FnMatch[p]

policy_is_sensitive_file(file) ==
    \/ policy_match_exact_with_bloom("sensitive_files", file)
    \/ list_matches_pattern("sensitive_files", file)

policy_is_blocked_domain(domain) == policy_match_exact_with_bloom("blocked_domains", domain)
policy_is_blocked_ip(ip)         == policy_match_exact_with_bloom("blocked_ips", ip)
policy_is_watched_process(proc)  == policy_match_exact_with_bloom("watched_processes", proc)
=============================================================================
