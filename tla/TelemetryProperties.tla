------------------------ MODULE TelemetryProperties ------------------------
(***************************************************************************)
(* The fixed-memory statistics against the exact counts of the same run.   *)
(***************************************************************************)
EXTENDS Telemetry, Sums

ItemSet == [key : Keys \cup {Empty}, count : Nat, error : Nat]

\* The values the variables take.
TelemetryTypeOK ==
    /\ freq \in [InCms -> [Rows -> [Columns -> Nat]]]
    /\ unique \in [InHll -> [Registers -> Nat]]
    /\ candidates \in [InCms -> Seq(Keys)]
    /\ ss \in [InSpaceSaving -> [used : 0..K, items : [1..K -> ItemSet]]]
    /\ truth \in [Fields -> [Keys -> Nat]]
    /\ updates \in 0..MaxUpdates

\* The sketch overestimates or is exact, whatever collides (docs/TEORIA_MINIMA.md:33).
FrequencyNeverTooLow ==
    \A f \in InCms, k \in Keys : cms_estimate(freq[f], k) >= truth[f][k]

\* A register holds the highest rank of the keys seen that fall into it, in
\* whatever order and however often they came.
RegistersForgetOrder ==
    \A f \in InHll, g \in Registers :
        LET ranks == { Rank[k] : k \in { x \in Keys : truth[f][x] > 0 /\ Register[x] = g } }
        IN  /\ \A n \in ranks : n <= unique[f][g]
            /\ unique[f][g] \in ranks \cup {0}

\* A key seen is missing from the top lists only when they are full, and none is
\* listed twice or unseen.
CandidatesAreTheFirstKeys ==
    \A f \in InCms :
        /\ Len(candidates[f]) <= MaxCandidates
        /\ \A i, j \in DOMAIN candidates[f] :
              candidates[f][i] = candidates[f][j] => i = j
        /\ \A k \in Keys : k \in Listed(candidates[f]) => truth[f][k] > 0
        /\ Len(candidates[f]) < MaxCandidates =>
              \A k \in Keys : truth[f][k] > 0 => k \in Listed(candidates[f])

\* The two numbers printed for an item bound how often its key came, however
\* often it was evicted between (sketches.c:382-396), and no key has two items.
BoundsAreBounds ==
    \A f \in InSpaceSaving : \A i \in Used(ss[f]) :
        LET item == ss[f].items[i] IN
        /\ item.key \in Keys
        /\ lower_bound(item) <= truth[f][item.key]
        /\ truth[f][item.key] <= upper_bound(item)
        /\ \A j \in Used(ss[f]) : ss[f].items[j].key = item.key => i = j

\* A key without an item came no more often than the least item counts, and a
\* summary that is not full has an item for every key.
MissedKeysAreRare ==
    \A f \in InSpaceSaving, k \in Keys :
        HoldersOf(ss[f], k) = {} =>
            /\ \A i \in Used(ss[f]) : truth[f][k] <= ss[f].items[i].count
            /\ ss[f].used < K => truth[f][k] = 0

\* Whatever collides or was evicted, a key that a table of the report does not
\* show came no more often than every number the table does show, and a key that
\* came is missing only from a full table.  The count-min table promises so only
\* of keys it has listed: sketches.c:252 lists the first MaxCandidates.
MostFrequentAreShown ==
    \A k \in Keys :
        /\ \A f \in InSpaceSaving :
              LET shown == top_of_summary(ss[f]) IN
              (\A i \in shown : ss[f].items[i].key # k) =>
                  /\ \A i \in shown : truth[f][k] <= upper_bound(ss[f].items[i])
                  /\ truth[f][k] > 0 => Cardinality(shown) >= TopItems \/ ss[f].used = K
        /\ \A f \in InCms :
              LET shown == top_from_cms(freq[f], candidates[f]) IN
              k \notin shown
              /\ (k \in Listed(candidates[f]) \/ Len(candidates[f]) < MaxCandidates) =>
                  /\ \A x \in shown : truth[f][k] <= cms_estimate(freq[f], x)
                  /\ truth[f][k] > 0 => Cardinality(shown) >= TopItems

\* The counts of a summary are those of the run, so a key that came in more than
\* one of K events has an item.
Came(t) == { k \in Keys : t[k] > 0 }
ItemCounts(s) == [i \in Used(s) |-> s.items[i].count]

HeavyHittersAreKept ==
    \A f \in InSpaceSaving :
        LET total == SumOver(truth[f], Came(truth[f]))
        IN  /\ total = SumOver(ItemCounts(ss[f]), Used(ss[f]))
            /\ \A k \in Keys : truth[f][k] * K > total => HoldersOf(ss[f], k) # {}
=============================================================================
