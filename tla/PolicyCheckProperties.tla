----------------------- MODULE PolicyCheckProperties -----------------------
(* What agfast check must answer whatever the layout of the Cuckoo filter. *)
EXTENDS PolicyCheck

Cells == [Buckets -> [Slots -> Fingerprints \cup {Empty}]]
Reached  == { i \in DOMAIN list : i < next }
Inserted == { list[i] : i \in Reached }

\* Two values are one entry for the filter: same fingerprint, same two buckets.
SameEntry(v, w) == Fingerprint[v] = Fingerprint[w] /\ Pair(v) = Pair(w)

\* Type invariant.
CheckTypeOK ==
    /\ kind \in {"file", "ip", "domain"} /\ value \in Values /\ delete_test \in BOOLEAN
    /\ buckets \in Cells /\ count \in Nat /\ next \in Nat
    /\ pc \in {"load", "kick", "lookup", "done"}
    /\ hand \in Fingerprints \cup {Empty} /\ idx \in Buckets /\ kick \in 0..MaxKicks
    /\ pc = "kick" => hand # Empty
    /\ dropped \in BOOLEAN

\* A fingerprint is only ever in one of the two buckets of a value of the
\* list that has it, however often cuckoo_insert moved it with
\* cuckoo_alt_index: otherwise no lookup of that value would find it.
FingerprintsAreAtHome ==
    \A b \in Buckets, s \in Slots : buckets[b][s] # Empty =>
        \E i \in DOMAIN list : buckets[b][s] = Fingerprint[list[i]] /\ b \in Pair(list[i])

\* cuckoo_contains has no false negative while the list is loaded: every item
\* inserted so far is in the filter, or is the fingerprint cuckoo_insert has in
\* hand in the middle of its evictions, unless an insertion ran out of kicks.
NoFalseNegatives ==
    pc # "done" /\ ~ dropped =>
        \A v \in Inserted : \/ cuckoo_contains(v)
                            \/ pc = "kick" /\ hand = Fingerprint[v] /\ idx \in Pair(v)

\* --delete-test takes one copy away and no more: the value is still possible
\* afterwards exactly when the list has another item the filter cannot tell from
\* it, and every other item of the list is still found.
DeleteForgetsOneCopy ==
    pc = "done" /\ delete_test /\ outcome.possible /\ ~ dropped =>
        /\ outcome.after_delete <=>
              Cardinality({ i \in DOMAIN list : SameEntry(list[i], value) }) > 1
        /\ \A v \in Inserted : SameEntry(v, value) \/ cuckoo_contains(v)

\* The exit code of check is 0 exactly for what the analysis of the same
\* policy treats as a hit, and a value of the exact list that both filters
\* were loaded with is possible for both of them.
CheckAgreesWithAnalysis ==
    pc = "done" =>
        /\ (outcome.code = 0) <=> CASE kind = "file"   -> policy_is_sensitive_file(value)
                                    [] kind = "ip"     -> policy_is_blocked_ip(value)
                                    [] kind = "domain" -> policy_is_blocked_domain(value)
        /\ outcome.matched /\ ~ outcome.pattern =>
               outcome.bloom /\ (outcome.possible \/ dropped)
=============================================================================
