------------------------ MODULE GraphCommandsProofs ------------------------
(***************************************************************************)
(* Theorems about agfast graph, timeline and similarity, for every policy, *)
(* every file of events, every limit of the console and every bit the Odd  *)
(* Sketch gives a value: the nodes read tell the file (NodesAreTold), the  *)
(* console begins what the report has (ConsoleBeginsReport), the distance  *)
(* is a difference (DistanceIsADifference), the parser takes a line for    *)
(* what it says (LinesRead), and what agfast generate wrote comes back     *)
(* (GeneratedIsReadBack), the risk it planted included                     *)
(* (PlantedRiskIsFound).  What a loop computes is found by following the   *)
(* table of its fold (FoldTableExists, FoldSteps): the loop over the       *)
(* nodes, the sketch of a node, the cells of a row.                        *)
(***************************************************************************)
EXTENDS GraphCommandsProperties, FiniteSetTheorems, SequenceTheorems,
        WellFoundedInduction, TLAPS

(***************************************************************************)
(* A list of a node.  Values are added as they come, at positions i that   *)
(* grow; the first positions of the values of the list grow along it.      *)
(***************************************************************************)
IsTexts(list) == list \in Seq(Text)

Came(N, val, v) == { i \in N : val[i] = v }

FirstOnce(list, N, val) ==
    /\ ToSet(list) = { val[i] : i \in N } \ {""}
    /\ \A j, k \in DOMAIN list : j < k => Min(Came(N, val, list[j])) < Min(Came(N, val, list[k]))

LEMMA MinExists ==
    ASSUME NEW S, S \subseteq Nat, S # {}
    PROVE  Min(S) \in S /\ \A n \in S : Min(S) <= n
<1>1. PICK m \in S : \A n \in S : ~ (<<n, m>> \in OpToRel(<, Nat))
  BY NatLessThanWellFounded, WFMin
<1>2. \A n \in S : ~ (n < m)
  BY <1>1 DEF OpToRel
<1>3. \A n \in S : m <= n
  BY <1>2
<1> QED BY <1>3 DEF Min

LEMMA MinIs ==
    ASSUME NEW S, S \subseteq Nat, NEW m \in S, \A n \in S : m <= n
    PROVE  Min(S) = m
<1>1. PICK k : k = Min(S)
  OBVIOUS
<1>2. k \in S /\ k <= m /\ m <= k
  BY <1>1, MinExists
<1>3. k \in Nat /\ m \in Nat
  BY <1>2
<1> QED BY <1>1, <1>2, <1>3

\* A later position does not change where a value came first.
LEMMA MinStays ==
    ASSUME NEW S, S \subseteq Nat, S # {}, NEW i \in Nat, \A n \in S : n < i,
           NEW T, T = S \/ T = S \cup {i}
    PROVE  Min(T) = Min(S) /\ Min(S) < i /\ Min(S) \in Nat
<1>1. Min(S) \in S /\ \A n \in S : Min(S) <= n
  BY MinExists
<1>2. PICK m \in Nat : m = Min(S) /\ m \in S
  BY <1>1
<1>3. T \subseteq Nat /\ m \in T /\ m < i
  BY <1>2
<1>4. \A n \in T : m <= n
  <2>1. \A n \in S : m <= n
    BY <1>1, <1>2
  <2> QED BY <1>3, <2>1
<1>5. Min(T) = m
  BY <1>3, <1>4, MinIs
<1> QED BY <1>2, <1>3, <1>5

LEMMA Appended ==
    ASSUME NEW S, NEW list \in Seq(S), NEW v \in S, NEW last, last = Len(list) + 1
    PROVE  /\ Append(list, v) \in Seq(S) /\ Len(Append(list, v)) = last
           /\ last \in Nat /\ last \notin DOMAIN list
           /\ DOMAIN Append(list, v) = DOMAIN list \cup {last}
           /\ Append(list, v)[last] = v
           /\ \A j \in DOMAIN list : Append(list, v)[j] = list[j] /\ j \in Nat /\ j < last
OBVIOUS

LEMMA AppendedSet ==
    ASSUME NEW list, IsTexts(list), NEW v \in Text
    PROVE  IsTexts(Append(list, v)) /\ ToSet(Append(list, v)) = ToSet(list) \cup {v}
<1>1. list \in Seq(Text)
  BY DEF IsTexts
<1>2. PICK last : last = Len(list) + 1
  OBVIOUS
<1>3. /\ DOMAIN Append(list, v) = DOMAIN list \cup {last}
      /\ Append(list, v)[last] = v
      /\ \A i \in DOMAIN list : Append(list, v)[i] = list[i]
      /\ IsTexts(Append(list, v))
  BY <1>1, <1>2, Appended DEF IsTexts
<1> QED BY <1>3 DEF ToSet

LEMMA ValueAdded ==
    ASSUME NEW list, IsTexts(list), NEW v \in Text, NEW l, l = list_add_unique(list, v)
    PROVE  /\ IsTexts(l)
           /\ (v = "" \/ v \in ToSet(list)) => l = list
           /\ (v # "" /\ v \notin ToSet(list)) => l = Append(list, v)
<1>1. v \in ToSet(list) <=> \E i \in DOMAIN list : list[i] = v
  BY DEF ToSet
<1>2. CASE v = "" \/ v \in ToSet(list)
  BY <1>1, <1>2 DEF list_add_unique
<1>3. CASE ~ (v = "" \/ v \in ToSet(list))
  <2>1. list_add_unique(list, v) = Append(list, v)
    BY <1>1, <1>3 DEF list_add_unique
  <2>2. IsTexts(Append(list, v))
    BY AppendedSet
  <2> QED BY <1>3, <2>1, <2>2
<1> QED BY <1>2, <1>3

LEMMA FirstOnceAdd ==
    ASSUME NEW list, IsTexts(list), NEW N, N \subseteq Nat, NEW val, FirstOnce(list, N, val),
           NEW i \in Nat, \A n \in N : n < i,
           NEW val2, \A n \in N : val2[n] = val[n], val2[i] \in Text
    PROVE  FirstOnce(list_add_unique(list, val2[i]), N \cup {i}, val2)
<1> DEFINE M == N \cup {i}
<1>0. PICK v \in Text : v = val2[i]
  OBVIOUS
<1>1. PICK l : l = list_add_unique(list, v)
  OBVIOUS
<1>2. /\ (v = "" \/ v \in ToSet(list)) => l = list
      /\ (v # "" /\ v \notin ToSet(list)) => l = Append(list, v)
  <2>1. (v = "" \/ v \in ToSet(list)) => l = list
    BY <1>1, ValueAdded
  <2>2. (v # "" /\ v \notin ToSet(list)) => l = Append(list, v)
    BY <1>1, ValueAdded
  <2> QED BY <2>1, <2>2
<1>3. ToSet(l) = { val2[n] : n \in M } \ {""}
  <2>1. { val2[n] : n \in M } = { val[n] : n \in N } \cup {v}
    BY <1>0
  <2>2. ToSet(list) = { val[n] : n \in N } \ {""}
    BY DEF FirstOnce
  <2>3. CASE v = "" \/ v \in ToSet(list)
    BY <1>2, <2>1, <2>2, <2>3
  <2>4. CASE v # "" /\ v \notin ToSet(list)
    <3>1. ToSet(l) = ToSet(list) \cup {v}
      <4>1. ToSet(Append(list, v)) = ToSet(list) \cup {v}
        BY AppendedSet
      <4> QED BY <1>2, <2>4, <4>1
    <3> QED BY <2>1, <2>2, <2>4, <3>1
  <2> QED BY <2>3, <2>4
<1>4. /\ \A w : Came(N, val, w) \subseteq Nat /\ Came(M, val2, w) \subseteq Nat
      /\ \A w : \A n \in Came(N, val, w) : n < i
      /\ \A w : w # v => Came(M, val2, w) = Came(N, val, w)
      /\ Came(M, val2, v) = Came(N, val, v) \cup {i}
  BY <1>0 DEF Came
<1>5. ASSUME NEW w \in ToSet(list) PROVE Came(N, val, w) # {}
  <2>1. w \in { val[n] : n \in N }
    BY <1>5 DEF FirstOnce
  <2> QED BY <2>1 DEF Came
<1> HIDE DEF M
<1>6. ASSUME NEW w \in ToSet(list)
      PROVE  /\ Min(Came(M, val2, w)) = Min(Came(N, val, w))
             /\ Min(Came(N, val, w)) < i
  <2>1. /\ Came(N, val, w) \subseteq Nat /\ Came(N, val, w) # {}
        /\ \A n \in Came(N, val, w) : n < i
    BY <1>4, <1>5
  <2>2. Came(M, val2, w) = Came(N, val, w) \/ Came(M, val2, w) = Came(N, val, w) \cup {i}
    BY <1>4
  <2> QED BY <2>1, <2>2, MinStays
<1>7. \A j \in DOMAIN list : list[j] \in ToSet(list)
  BY DEF ToSet
<1>8. \A j, k \in DOMAIN list : j < k => Min(Came(M, val2, list[j])) < Min(Came(M, val2, list[k]))
  BY <1>6, <1>7 DEF FirstOnce
<1>9. CASE l = list
  BY <1>0, <1>1, <1>3, <1>8, <1>9 DEF FirstOnce, M
<1>10. CASE l = Append(list, v) /\ v # "" /\ v \notin ToSet(list)
  <2>1. PICK last : last = Len(list) + 1
    OBVIOUS
  <2>2. /\ DOMAIN l = DOMAIN list \cup {last} /\ l[last] = v /\ last \in Nat
        /\ \A j \in DOMAIN list : l[j] = list[j] /\ j \in Nat /\ j < last
    <3>1. /\ DOMAIN Append(list, v) = DOMAIN list \cup {last} /\ last \in Nat
          /\ Append(list, v)[last] = v
          /\ \A j \in DOMAIN list : Append(list, v)[j] = list[j] /\ j \in Nat /\ j < last
      BY <2>1, Appended DEF IsTexts
    <3> QED BY <1>10, <3>1
  <2>3. Came(N, val, v) = {}
    <3>1. v \notin { val[n] : n \in N }
      BY <1>10 DEF FirstOnce
    <3> QED BY <3>1 DEF Came
  <2>4. Min(Came(M, val2, v)) = i
    <3>1. Came(M, val2, v) = {i}
      BY <1>4, <2>3
    <3>2. {i} \subseteq Nat /\ i \in {i} /\ \A n \in {i} : i <= n
      OBVIOUS
    <3> QED BY <3>1, <3>2, MinIs
  <2>5. ASSUME NEW j \in DOMAIN l, NEW k \in DOMAIN l, j < k
        PROVE  Min(Came(M, val2, l[j])) < Min(Came(M, val2, l[k]))
    <3>1. j \in DOMAIN list
      BY <2>2, <2>5
    <3>2. CASE k \in DOMAIN list
      BY <1>8, <2>2, <2>5, <3>1, <3>2
    <3>3. CASE k = last
      BY <1>6, <1>7, <2>2, <2>4, <3>1, <3>3
    <3> QED BY <2>2, <3>2, <3>3
  <2> QED BY <1>0, <1>1, <1>3, <2>5 DEF FirstOnce, M
<1> QED BY <1>2, <1>9, <1>10

LEMMA FirstOnceSame ==
    ASSUME NEW list, NEW N, NEW val, NEW val2, \A n \in N : val2[n] = val[n]
    PROVE  FirstOnce(list, N, val2) <=> FirstOnce(list, N, val)
<1>1. \A v : Came(N, val2, v) = Came(N, val, v)
  BY DEF Came
<1>2. (ToSet(list) = { val2[n] : n \in N } \ {""}) <=> (ToSet(list) = { val[n] : n \in N } \ {""})
  <2>1. { val2[n] : n \in N } = { val[n] : n \in N }
    OBVIOUS
  <2> QED BY <2>1
<1>3. \A j, k \in DOMAIN list :
        (j < k => Min(Came(N, val2, list[j])) < Min(Came(N, val2, list[k])))
          <=> (j < k => Min(Came(N, val, list[j])) < Min(Came(N, val, list[k])))
  BY <1>1
<1> QED BY <1>2, <1>3 DEF FirstOnce

(***************************************************************************)
(* A timeline has an entry for each position, in their order.              *)
(***************************************************************************)
UpTo(N, n) == { j \in N : j <= n }

Tells(timeline, N, entry) ==
    /\ timeline \in Seq(ToSet(timeline))
    /\ Len(timeline) = Cardinality(N)
    /\ \A n \in N : timeline[Cardinality(UpTo(N, n))] = entry[n]

LEMMA TellsMore ==
    ASSUME NEW tl, NEW N, N \subseteq Nat, IsFiniteSet(N), NEW entry, Tells(tl, N, entry),
           NEW i \in Nat, \A n \in N : n < i,
           NEW entry2, \A n \in N : entry2[n] = entry[n]
    PROVE  Tells(Append(tl, entry2[i]), N \cup {i}, entry2)
<1>0. PICK e : e = entry2[i]
  OBVIOUS
<1> DEFINE M == N \cup {i}
           longer == Append(tl, e)
<1>1. i \notin N /\ Cardinality(N) \in Nat
  BY FS_CardinalityType
<1>2. Cardinality(M) = Cardinality(N) + 1
  BY <1>1, FS_AddElement
<1>3. PICK last : last = Len(tl) + 1
  OBVIOUS
<1>4. /\ longer \in Seq(ToSet(tl) \cup {e}) /\ Len(longer) = last
      /\ DOMAIN longer = DOMAIN tl \cup {last} /\ longer[last] = e
      /\ \A k \in DOMAIN tl : longer[k] = tl[k]
  <2>1. tl \in Seq(ToSet(tl) \cup {e}) /\ e \in ToSet(tl) \cup {e}
    BY DEF Tells
  <2> QED BY <1>3, <2>1, Appended
<1>5. DOMAIN tl = 1..Cardinality(N)
  <2>1. tl \in Seq(ToSet(tl)) /\ Len(tl) = Cardinality(N)
    BY DEF Tells
  <2> QED BY <2>1
<1>6. Len(longer) = Cardinality(M) /\ last = Cardinality(M)
  BY <1>2, <1>3, <1>4 DEF Tells
<1>7. ToSet(longer) = ToSet(tl) \cup {e}
  BY <1>4 DEF ToSet
<1> HIDE DEF longer
<1>8. ASSUME NEW n \in N PROVE longer[Cardinality(UpTo(M, n))] = entry2[n]
  <2>1. UpTo(M, n) = UpTo(N, n)
    BY <1>8 DEF UpTo
  <2>2. Cardinality(UpTo(N, n)) \in 1..Cardinality(N)
    <3>1. UpTo(N, n) \in SUBSET N /\ n \in UpTo(N, n)
      BY DEF UpTo
    <3>2. IsFiniteSet(UpTo(N, n)) /\ Cardinality(UpTo(N, n)) <= Cardinality(N)
      BY <3>1, FS_Subset
    <3>3. Cardinality(UpTo(N, n)) \in Nat /\ Cardinality(UpTo(N, n)) # 0
      BY <3>1, <3>2, FS_CardinalityType, FS_EmptySet
    <3> QED BY <1>1, <3>2, <3>3
  <2>3. longer[Cardinality(UpTo(N, n))] = tl[Cardinality(UpTo(N, n))]
    BY <1>4, <1>5, <2>2
  <2> QED BY <2>1, <2>3 DEF Tells
<1>9. longer[Cardinality(UpTo(M, i))] = entry2[i]
  <2>1. UpTo(M, i) = M
    <3>1. \A j \in M : j <= i
      OBVIOUS
    <3> QED BY <3>1 DEF UpTo
  <2> QED BY <1>0, <1>4, <1>6, <2>1
<1>10. \A n \in M : longer[Cardinality(UpTo(M, n))] = entry2[n]
  BY <1>8, <1>9
<1>11. longer \in Seq(ToSet(longer))
  BY <1>4, <1>7
<1> HIDE DEF M
<1> QED BY <1>0, <1>6, <1>10, <1>11 DEF Tells, longer, M

(***************************************************************************)
(* The destinations are kept twice, as the list that is shown and as the   *)
(* set that is scored.                                                     *)
(***************************************************************************)
Counts(list, S) ==
    /\ IsTexts(list) /\ ToSet(list) = S /\ IsFiniteSet(S) /\ Len(list) = Cardinality(S)
    /\ \A j, k \in DOMAIN list : list[j] = list[k] => j = k

LEMMA CountsAdded ==
    ASSUME NEW list, NEW S, Counts(list, S), NEW v \in Text
    PROVE  Counts(list_add_unique(list, v), IF v # "" THEN S \cup {v} ELSE S)
<1>1. PICK l : l = list_add_unique(list, v)
  OBVIOUS
<1>2. IsTexts(list) /\ list \in Seq(Text) /\ ToSet(list) = S
  BY DEF Counts, IsTexts
<1>3. CASE v = ""
  <2>1. l = list
    BY <1>1, <1>2, <1>3, ValueAdded
  <2> QED BY <1>1, <1>3, <2>1
<1>4. CASE v # "" /\ v \in S
  <2>1. l = list
    BY <1>1, <1>2, <1>4, ValueAdded
  <2>2. S \cup {v} = S
    BY <1>4
  <2> QED BY <1>1, <1>4, <2>1, <2>2
<1>5. CASE v # "" /\ v \notin S
  <2>1. l = Append(list, v)
    BY <1>1, <1>2, <1>5, ValueAdded
  <2>2. IsTexts(Append(list, v)) /\ ToSet(Append(list, v)) = S \cup {v}
    BY <1>2, AppendedSet
  <2>3. Len(Append(list, v)) = Len(list) + 1
    BY <1>2
  <2>4. IsFiniteSet(S \cup {v}) /\ Cardinality(S \cup {v}) = Cardinality(S) + 1
    BY <1>5, FS_AddElement DEF Counts
  <2>5. \A j, k \in DOMAIN Append(list, v) : Append(list, v)[j] = Append(list, v)[k] => j = k
    <3>1. PICK last : last = Len(list) + 1
      OBVIOUS
    <3>2. /\ DOMAIN Append(list, v) = DOMAIN list \cup {last} /\ Append(list, v)[last] = v
          /\ \A j \in DOMAIN list : Append(list, v)[j] = list[j]
      BY <1>2, <3>1, Appended
    <3>3. \A j \in DOMAIN list : list[j] # v
      BY <1>2, <1>5 DEF ToSet
    <3> QED BY <3>2, <3>3 DEF Counts
  <2>6. Counts(Append(list, v), S \cup {v})
    BY <2>2, <2>3, <2>4, <2>5 DEF Counts
  <2> QED BY <1>1, <1>5, <2>1, <2>6
<1> QED BY <1>3, <1>4, <1>5

NodeFields ==
    { "process", "watched", "touched_sensitive", "connected", "connected_blocked",
      "connected_blocked_ip", "connected_blocked_domain", "first_sensitive_file",
      "first_dst", "events_seen", "destinations", "risk_score", "risk_level" }

IsNode(n) == n = [f \in NodeFields |-> n[f]]

Reaches(n, S) == IsNode(n) /\ n.destinations = S

LEMMA FoundReaches ==
    ASSUME NEW n, NEW S, Reaches(n, S), NEW ev, NEW ps, ev.pid \notin ps => S = {}
    PROVE  Reaches(graph_get_or_add(ps, n, ev), S)
<1>1. CASE ev.pid \in ps
  BY <1>1 DEF graph_get_or_add, Reaches, IsNode, NodeFields
<1>2. CASE ev.pid \notin ps
  BY <1>2 DEF graph_get_or_add, Reaches, IsNode, NodeFields, ZeroNode
<1> QED BY <1>1, <1>2

LEMMA IngestReaches ==
    ASSUME NEW n, NEW S, Reaches(n, S), NEW ev
    PROVE  LET direct == IF ev.dst # "" THEN S \cup {ev.dst} ELSE S
           IN  Reaches(graph_ingest_event(n, ev),
                       IF policy_loaded /\ destination_blocked(ev)
                         THEN direct \cup {matched_dst(ev)} ELSE direct)
<1> DEFINE seen1 == [n EXCEPT !.events_seen = @ + 1]
           f == IngestFile(seen1, ev)
           d == IngestDst(f, ev)
           w == IngestWatched(d, ev)
           k == IngestBlocked(w, ev)
           direct == IF ev.dst # "" THEN S \cup {ev.dst} ELSE S
<1>1. Reaches(seen1, S)
  BY DEF Reaches, IsNode, NodeFields
<1> HIDE DEF seen1
<1>2. Reaches(f, S)
  BY <1>1 DEF IngestFile, TouchSensitive, Reaches, IsNode, NodeFields
<1> HIDE DEF f
<1>3. Reaches(d, direct)
  <2>1. CASE ev.dst # ""
    <3> DEFINE c == Connect(f, ev.dst)
    <3>1. Reaches(c, S)
      BY <1>2 DEF Connect, Reaches, IsNode, NodeFields
    <3>2. d = [c EXCEPT !.destinations = @ \cup {ev.dst}]
      BY <2>1 DEF IngestDst
    <3> HIDE DEF c, d
    <3> QED BY <2>1, <3>1, <3>2 DEF Reaches, IsNode, NodeFields
  <2>2. CASE ~ (ev.dst # "")
    BY <1>2, <2>2 DEF IngestDst
  <2> QED BY <2>1, <2>2
<1> HIDE DEF d, direct
<1>4. Reaches(w, direct)
  BY <1>3 DEF IngestWatched, Reaches, IsNode, NodeFields
<1> HIDE DEF w
<1>5. Reaches(k, IF policy_loaded /\ destination_blocked(ev)
                   THEN direct \cup {matched_dst(ev)} ELSE direct)
  <2>1. CASE policy_loaded /\ destination_blocked(ev)
    <3> DEFINE c == ContactBlocked(w, ev)
    <3>1. Reaches(c, direct)
      BY <1>4 DEF ContactBlocked, Connect, Reaches, IsNode, NodeFields
    <3>2. k = [c EXCEPT !.destinations = @ \cup {matched_dst(ev)}]
      BY <2>1 DEF IngestBlocked
    <3> HIDE DEF c, k
    <3> QED BY <2>1, <3>1, <3>2 DEF Reaches, IsNode, NodeFields
  <2>2. CASE ~ (policy_loaded /\ destination_blocked(ev))
    BY <1>4, <2>2 DEF IngestBlocked
  <2> QED BY <2>1, <2>2
<1> QED BY <1>5 DEF graph_ingest_event, k, w, d, f, seen1, direct

LEMMA RiskReaches ==
    ASSUME NEW n, NEW S, Reaches(n, S) PROVE Reaches(compute_risk_for_node(n), S)
BY DEF compute_risk_for_node, Reaches, IsNode, NodeFields

\* The blocked name an event is counted for is one of its names, and not empty.
LEMMA MatchedName ==
    ASSUME NEW ev, destination_blocked(ev),
           ev.dst \in Text, ev.ip \in Text, ev.domain \in Text
    PROVE  matched_dst(ev) \in Text /\ matched_dst(ev) # ""
<1> DEFINE B == BlockedCandidates(ev)
<1>1. B \subseteq 1..3 /\ B \subseteq Nat /\ B # {}
  BY DEF BlockedCandidates, destination_blocked
<1>2. \E i \in B : \A j \in B : i <= j
  BY <1>1, MinExists
<1>3. PICK i \in B : matched_dst(ev) = Candidates(ev)[i]
  BY <1>2 DEF matched_dst
<1>4. Candidates(ev)[i] # ""
  BY <1>3 DEF BlockedCandidates, policy_is_blocked_ip, policy_is_blocked_domain,
              policy_match_exact_with_bloom
<1>5. i \in {1, 2, 3}
  BY <1>1
<1>6. Candidates(ev)[i] \in Text
  BY <1>5 DEF Candidates
<1> QED BY <1>3, <1>4, <1>6

(***************************************************************************)
(* The invariant.  The file holds lines of the model, and what has been    *)
(* read of it is told by the nodes: for each pid its lists are those of    *)
(* the events of the pid, before the end of the file as well as after it,  *)
(* so that a node is created by the first event of its pid and by no other *)
(* and the destinations it scores are the ones it lists.                   *)
(***************************************************************************)
FileInv ==
    /\ file \in Seq(ToSet(file))
    /\ \A i \in 1..Len(file) : ~Skipped(file[i]) => FieldsOf(file[i]) \in Lines
    /\ pos \in Nat /\ pos <= Len(file)

TypeAt  == [i \in 1..Len(file) |-> FieldsOf(file[i]).event]
PathAt  == [i \in 1..Len(file) |-> FieldsOf(file[i]).file]
EntryAt == [i \in 1..Len(file) |-> [ time |-> TimeOf(file[i]), event |-> FieldsOf(file[i]).event,
                                     file |-> FieldsOf(file[i]).file,
                                     dst  |-> EventOf(FieldsOf(file[i])).dst ]]

ListsTell(p) ==
    /\ IsTexts(lists[p].event_types) /\ FirstOnce(lists[p].event_types, OfPid(p), TypeAt)
    /\ IsTexts(lists[p].files) /\ FirstOnce(lists[p].files, OfPid(p), PathAt)
    /\ Counts(lists[p].files, ToSet(lists[p].files))
    /\ Tells(lists[p].timeline, OfPid(p), EntryAt)

NodeTells(p) ==
    /\ p \in pids <=> OfPid(p) # {}
    /\ Counts(lists[p].destinations, node[p].destinations)
    /\ Reaches(node[p], node[p].destinations)
    /\ p \notin pids => node[p].destinations = {}

First == [p \in Pids |-> Min(OfPid(p))]

OrderInv ==
    /\ order \in Seq(Pids)
    /\ ToSet(order) = pids
    /\ \A j, k \in DOMAIN order : j < k => First[order[j]] < First[order[k]]

GraphInv ==
    /\ DOMAIN node = Pids /\ DOMAIN lists = Pids
    /\ \A p \in Pids : ListsTell(p) /\ NodeTells(p)
    /\ OrderInv

ReadInv == FileInv /\ GraphInv

\* The fields of a line, and the texts of the event they make.
LEMMA LineFields ==
    ASSUME NEW line \in Lines
    PROVE  /\ line.pid \in Pids /\ line.event \in Text /\ line.file \in Text
           /\ EventOf(line).pid = line.pid /\ EventOf(line).file = line.file
           /\ EventOf(line).dst \in Text /\ EventOf(line).ip \in Text
           /\ EventOf(line).domain \in Text
<1>1. line \in [kind : {"fields", "header"}, pid : Int, process : Text,
                event : Text, file : Text, dst : Text, domain : Text, ip : Text]
  BY LinesAssumption
<1>2. line.pid \in Pids
  BY DEF Pids
<1> QED BY <1>1, <1>2 DEF EventOf

LEMMA EventsOfPid ==
    ASSUME FileInv, NEW p
    PROVE  /\ OfPid(p) \subseteq Nat /\ IsFiniteSet(OfPid(p))
           /\ \A i \in OfPid(p) : i \in 1..Len(file) /\ i <= pos
<1>1. pos \in Nat /\ Len(file) \in Nat /\ pos <= Len(file)
  BY DEF FileInv
<1>2. \A i \in OfPid(p) : i \in 1..pos
  BY DEF OfPid, EventsRead
<1>3. IsFiniteSet(1..pos)
  BY <1>1, FS_Interval
<1>4. IsFiniteSet(OfPid(p))
  BY <1>2, <1>3, FS_Subset
<1> QED BY <1>1, <1>2, <1>4

\* A line that is no event adds nothing.
LEMMA NoEvent ==
    ASSUME FileInv, NextLine,
           Skipped(file[pos + 1]) \/ ~parse_event_line(FieldsOf(file[pos + 1])), NEW p
    PROVE  OfPid(p)' = OfPid(p)
<1>1. pos' = pos + 1 /\ file' = file /\ pos \in Nat
  BY DEF NextLine, FileInv
<1>2. 1..pos' = (1..pos) \cup {pos + 1}
  BY <1>1
<1>3. EventsRead' = EventsRead
  BY <1>1, <1>2 DEF EventsRead
<1> QED BY <1>1, <1>3 DEF OfPid

LEMMA AnEvent ==
    ASSUME FileInv, NextLine, NEW i, i = pos + 1, NEW line, line = FieldsOf(file[i]),
           ~Skipped(file[i]), parse_event_line(line), NEW p
    PROVE  OfPid(p)' = IF p = line.pid THEN OfPid(p) \cup {i} ELSE OfPid(p)
<1>1. pos' = pos + 1 /\ file' = file /\ pos \in Nat
  BY DEF NextLine, FileInv
<1>2. 1..pos' = (1..pos) \cup {i}
  BY <1>1
<1>3. EventsRead' = EventsRead \cup {i}
  BY <1>1, <1>2 DEF EventsRead
<1>4. OfPid(p)' = { j \in EventsRead \cup {i} : FieldsOf(file[j]).pid = p }
  BY <1>1, <1>3 DEF OfPid
<1>5. CASE line.pid = p
  BY <1>4, <1>5 DEF OfPid
<1>6. CASE line.pid # p
  BY <1>4, <1>6 DEF OfPid
<1> QED BY <1>5, <1>6

-----------------------------------------------------------------------------
LEMMA InitRead == Init => ReadInv
<1> SUFFICES ASSUME Init PROVE ReadInv
  OBVIOUS
<1>1. file \in AllFiles /\ pos = 0
  BY DEF Init, AllFiles, ReadInit
<1>2. FileInv
  <2>1. file \in Seq(ToSet(file))
    BY <1>1, FilesAssumption
  <2>2. ASSUME NEW i \in 1..Len(file), ~Skipped(file[i]) PROVE FieldsOf(file[i]) \in Lines
    <3>1. file[i] \in ToSet(file)
      BY <2>1 DEF ToSet
    <3>2. file[i] \in UNION { ToSet(f) : f \in AllFiles }
      BY <1>1, <3>1
    <3> QED BY <2>2, <3>2, FilesAssumption
  <2>3. Len(file) \in Nat
    BY <2>1
  <2> QED BY <1>1, <2>1, <2>2, <2>3 DEF FileInv
<1>3. \A p : OfPid(p) = {}
  BY <1>1 DEF OfPid, EventsRead
<1>4. /\ pids = {} /\ node = [p \in Pids |-> ZeroNode]
      /\ order = <<>> /\ lists = [p \in Pids |-> NoLists]
  BY DEF Init, ReadInit, GraphInit
<1>5. ASSUME NEW l, l = <<>> PROVE IsTexts(l) /\ ToSet(l) = {} /\ Len(l) = 0 /\ l \in Seq(ToSet(l))
  BY <1>5 DEF IsTexts, ToSet
<1>6. IsFiniteSet({}) /\ Cardinality({}) = 0
  BY FS_EmptySet
<1>7. ASSUME NEW p \in Pids PROVE ListsTell(p) /\ NodeTells(p)
  <2>1. /\ lists[p].event_types = <<>> /\ lists[p].files = <<>>
        /\ lists[p].destinations = <<>> /\ lists[p].timeline = <<>>
    BY <1>4 DEF NoLists
  <2>2. node[p].destinations = {} /\ IsNode(node[p])
    BY <1>4 DEF ZeroNode, IsNode, NodeFields
  <2>3. \A val : FirstOnce(<<>>, {}, val)
    <3>1. ToSet(<<>>) = {} /\ DOMAIN <<>> = {}
      BY <1>5
    <3> QED BY <3>1 DEF FirstOnce
  <2>4. \A entry : Tells(<<>>, {}, entry)
    BY <1>5, <1>6 DEF Tells
  <2>6. Counts(<<>>, {})
    BY <1>5, <1>6 DEF Counts
  <2>5. ListsTell(p)
    BY <1>3, <1>5, <2>1, <2>3, <2>4, <2>6 DEF ListsTell
  <2> QED BY <1>3, <1>4, <2>1, <2>2, <2>5, <2>6 DEF NodeTells, Reaches
<1>8. OrderInv
  <2>1. order \in Seq(Pids) /\ ToSet(order) = {} /\ DOMAIN order = {}
    BY <1>4 DEF ToSet
  <2> QED BY <1>4, <2>1 DEF OrderInv
<1> QED BY <1>2, <1>4, <1>7, <1>8 DEF ReadInv, GraphInv

LEMMA StepFile == FileInv /\ [Next]_vars => FileInv'
<1> SUFFICES ASSUME FileInv, [Next]_vars PROVE FileInv'
  OBVIOUS
<1>1. file' = file /\ (pos' = pos \/ (pos' = pos + 1 /\ pos < Len(file)))
  <2>1. CASE ReadLine
    BY <2>1 DEF ReadLine, NextLine
  <2>2. CASE EndOfFile
    BY <2>2 DEF EndOfFile
  <2>3. CASE Next /\ ~Read
    BY <2>3 DEF Next, GraphCommand, GraphTimelineCommand, TimelineCommand, SimilarityCommand,
                Show, readVars
  <2>4. CASE UNCHANGED vars
    BY <2>4 DEF vars, readVars
  <2> QED BY <2>1, <2>2, <2>3, <2>4 DEF Next, Read, ReadNext
<1>2. pos \in Nat /\ Len(file) \in Nat
  BY DEF FileInv
<1> QED BY <1>1, <1>2 DEF FileInv

\* What an event does to the lists and the node of its pid.
LEMMA EventStep ==
    ASSUME ReadInv, NextLine, NEW i, i = pos + 1, ReadEvent(file[i])
    PROVE  \A p \in Pids : ListsTell(p)' /\ NodeTells(p)'
<1>1. PICK line : line = FieldsOf(file[i])
  OBVIOUS
<1>2. PICK P : P = line.pid
  OBVIOUS
<1>3. i \in Nat /\ i \in 1..Len(file) /\ ~Skipped(file[i]) /\ parse_event_line(line)
  <2>1. pos \in Nat /\ pos < Len(file) /\ Len(file) \in Nat
    BY DEF ReadInv, FileInv, NextLine
  <2> QED BY <1>1, <2>1 DEF ReadEvent, GraphIngest
<1>4. line \in Lines
  BY <1>1, <1>3 DEF ReadInv, FileInv
<1>5. PICK ev : ev = EventOf(line)
  OBVIOUS
<1>6. /\ P \in Pids /\ line.event \in Text /\ line.file \in Text
      /\ ev.pid = P /\ ev.file = line.file
      /\ ev.dst \in Text /\ ev.ip \in Text /\ ev.domain \in Text
  BY <1>2, <1>4, <1>5, LineFields
<1>7. /\ pids' = pids \cup {P} /\ policy_loaded' = policy_loaded /\ file' = file
      /\ node' = [node EXCEPT ![P] = graph_ingest_event(graph_get_or_add(pids, @, ev), ev)]
      /\ lists' = [lists EXCEPT ![P] = ListsAfter(@, file[i])]
  BY <1>1, <1>2, <1>5, <1>6 DEF ReadEvent, GraphIngest, NextLine
<1>8. TypeAt' = TypeAt /\ PathAt' = PathAt /\ EntryAt' = EntryAt
  BY <1>7 DEF TypeAt, PathAt, EntryAt
<1>9. \A q : OfPid(q)' = IF q = P THEN OfPid(q) \cup {i} ELSE OfPid(q)
  <2>1. FileInv
    BY DEF ReadInv
  <2> QED BY <1>1, <1>2, <1>3, <2>1, AnEvent
<1>10. /\ DOMAIN node = Pids /\ DOMAIN lists = Pids
       /\ \A q \in Pids : ListsTell(q) /\ NodeTells(q)
  BY DEF ReadInv, GraphInv
<1>11. ASSUME NEW q \in Pids, q # P PROVE ListsTell(q)' /\ NodeTells(q)'
  <2>1. OfPid(q)' = OfPid(q) /\ lists'[q] = lists[q] /\ node'[q] = node[q]
    BY <1>6, <1>7, <1>9, <1>10, <1>11
  <2>2. q \in pids' <=> q \in pids
    BY <1>7, <1>11
  <2>3. ListsTell(q) /\ NodeTells(q)
    BY <1>10
  <2>4. ListsTell(q)'
    BY <1>8, <2>1, <2>3 DEF ListsTell
  <2> QED BY <2>1, <2>2, <2>3, <2>4 DEF NodeTells
<1>12. /\ OfPid(P)' = OfPid(P) \cup {i} /\ OfPid(P) \subseteq Nat /\ IsFiniteSet(OfPid(P))
       /\ \A n \in OfPid(P) : n < i
  <2>1. /\ OfPid(P) \subseteq Nat /\ IsFiniteSet(OfPid(P)) /\ \A n \in OfPid(P) : n <= pos
        /\ pos \in Nat
    BY EventsOfPid DEF ReadInv, FileInv
  <2>2. \A n \in OfPid(P) : n < i
    BY <2>1
  <2> QED BY <1>9, <2>1, <2>2
<1>13. PICK l : l = lists[P]
  OBVIOUS
<1>14. /\ lists'[P].event_types = list_add_unique(l.event_types, TypeAt[i])
       /\ lists'[P].files = list_add_unique(l.files, PathAt[i])
       /\ lists'[P].timeline = Append(l.timeline, EntryAt[i])
       /\ lists'[P].destinations =
            IF policy_loaded /\ destination_blocked(ev)
              THEN list_add_unique(list_add_unique(l.destinations, ev.dst), matched_dst(ev))
              ELSE list_add_unique(l.destinations, ev.dst)
  <2>1. lists'[P] = ListsAfter(l, file[i])
    BY <1>6, <1>7, <1>10, <1>13
  <2>2. TypeAt[i] = line.event /\ PathAt[i] = ev.file
    BY <1>1, <1>3, <1>6 DEF TypeAt, PathAt
  <2>3. EntryAt[i] = [time |-> TimeOf(file[i]), event |-> line.event,
                      file |-> ev.file, dst |-> ev.dst]
    BY <1>1, <1>3, <1>5, <1>6 DEF EntryAt
  <2> QED BY <1>1, <1>5, <2>1, <2>2, <2>3 DEF ListsAfter, graph_add_timeline_event
<1>15. ListsTell(P)'
  <2>1. /\ IsTexts(l.event_types) /\ FirstOnce(l.event_types, OfPid(P), TypeAt)
        /\ IsTexts(l.files) /\ FirstOnce(l.files, OfPid(P), PathAt)
        /\ Tells(l.timeline, OfPid(P), EntryAt) /\ Counts(l.files, ToSet(l.files))
    BY <1>6, <1>10, <1>13 DEF ListsTell
  <2>2. TypeAt[i] \in Text /\ PathAt[i] \in Text
    BY <1>1, <1>3, <1>6 DEF TypeAt, PathAt
  <2>3. IsTexts(lists'[P].event_types)
    BY <1>14, <2>1, <2>2, ValueAdded
  <2>4. IsTexts(lists'[P].files)
    BY <1>14, <2>1, <2>2, ValueAdded
  <2> DEFINE N == OfPid(P)
             types == l.event_types
             paths == l.files
             told == l.timeline
  <2>0. i \in Nat /\ N \subseteq Nat /\ IsFiniteSet(N) /\ \A n \in N : n < i
    BY <1>3, <1>12
  <2>9. /\ IsTexts(types) /\ FirstOnce(types, N, TypeAt) /\ IsTexts(paths)
        /\ FirstOnce(paths, N, PathAt) /\ Tells(told, N, EntryAt)
        /\ Counts(paths, ToSet(paths))
    BY <2>1
  <2> HIDE DEF N, types, paths, told
  <2>5. FirstOnce(list_add_unique(types, TypeAt[i]), N \cup {i}, TypeAt)
    BY <2>0, <2>2, <2>9, FirstOnceAdd
  <2>6. FirstOnce(list_add_unique(paths, PathAt[i]), N \cup {i}, PathAt)
    BY <2>0, <2>2, <2>9, FirstOnceAdd
  <2>7. Tells(Append(told, EntryAt[i]), N \cup {i}, EntryAt)
    BY <2>0, <2>9, TellsMore
  <2>10. /\ FirstOnce(lists'[P].event_types, N \cup {i}, TypeAt)
         /\ FirstOnce(lists'[P].files, N \cup {i}, PathAt)
         /\ Tells(lists'[P].timeline, N \cup {i}, EntryAt)
    BY <1>14, <2>5, <2>6, <2>7 DEF types, paths, told
  <2>8. OfPid(P)' = N \cup {i}
    BY <1>12 DEF N
  <2>11. Counts(lists'[P].files, ToSet(lists'[P].files))
    <3>1. PICK v \in Text : v = PathAt[i]
      BY <2>2
    <3>2. PICK S : S = IF v # "" THEN ToSet(paths) \cup {v} ELSE ToSet(paths)
      OBVIOUS
    <3>3. Counts(list_add_unique(paths, v), S)
      BY <2>9, <3>2, CountsAdded
    <3>4. lists'[P].files = list_add_unique(paths, v)
      BY <1>14, <3>1 DEF paths
    <3> QED BY <3>3, <3>4 DEF Counts
  <2> QED BY <1>8, <2>3, <2>4, <2>8, <2>10, <2>11 DEF ListsTell
<1>16. NodeTells(P)'
  <2> DEFINE S == node[P].destinations
             direct == IF ev.dst # "" THEN S \cup {ev.dst} ELSE S
             final == IF policy_loaded /\ destination_blocked(ev)
                        THEN direct \cup {matched_dst(ev)} ELSE direct
  <2>1. /\ Counts(l.destinations, S) /\ Reaches(node[P], S) /\ (P \notin pids => S = {})
    BY <1>6, <1>10, <1>13 DEF NodeTells
  <2>2. Reaches(graph_get_or_add(pids, node[P], ev), S)
    BY <1>6, <2>1, FoundReaches
  <2>3. Reaches(graph_ingest_event(graph_get_or_add(pids, node[P], ev), ev), final)
    BY <2>2, IngestReaches
  <2>4. node'[P] = graph_ingest_event(graph_get_or_add(pids, node[P], ev), ev)
    BY <1>6, <1>7, <1>10
  <2>5. Counts(list_add_unique(l.destinations, ev.dst), direct)
    BY <1>6, <2>1, CountsAdded
  <2> HIDE DEF S, direct
  <2>6. Counts(lists'[P].destinations, final)
    <3>1. CASE policy_loaded /\ destination_blocked(ev)
      <4>1. PICK m : m = matched_dst(ev)
        OBVIOUS
      <4>2. m \in Text /\ m # ""
        BY <1>6, <3>1, <4>1, MatchedName
      <4>3. Counts(list_add_unique(list_add_unique(l.destinations, ev.dst), m),
                   IF m # "" THEN direct \cup {m} ELSE direct)
        BY <2>5, <4>2, CountsAdded
      <4> QED BY <1>14, <3>1, <4>1, <4>2, <4>3
    <3>2. CASE ~ (policy_loaded /\ destination_blocked(ev))
      BY <1>14, <2>5, <3>2
    <3> QED BY <3>1, <3>2
  <2> HIDE DEF final
  <2>7. node'[P].destinations = final /\ Reaches(node'[P], final)
    BY <2>3, <2>4 DEF Reaches
  <2>8. P \in pids' /\ OfPid(P)' # {}
    BY <1>7, <1>12
  <2> QED BY <2>6, <2>7, <2>8 DEF NodeTells
<1> QED BY <1>11, <1>15, <1>16

LEMMA OrderStep ==
    ASSUME ReadInv, NextLine, NEW i, i = pos + 1, ReadEvent(file[i])
    PROVE  OrderInv'
<1>1. PICK line : line = FieldsOf(file[i])
  OBVIOUS
<1>2. PICK P : P = line.pid
  OBVIOUS
<1>3. i \in Nat /\ i \in 1..Len(file) /\ ~Skipped(file[i]) /\ parse_event_line(line)
  <2>1. pos \in Nat /\ pos < Len(file) /\ Len(file) \in Nat
    BY DEF ReadInv, FileInv, NextLine
  <2> QED BY <1>1, <2>1 DEF ReadEvent, GraphIngest
<1>4. P \in Pids /\ EventOf(line).pid = P
  <2>1. line \in Lines
    BY <1>1, <1>3 DEF ReadInv, FileInv
  <2> QED BY <1>2, <2>1, LineFields
<1>5. /\ pids' = pids \cup {P}
      /\ order' = IF P \in pids THEN order ELSE Append(order, P)
  BY <1>1, <1>2, <1>4 DEF ReadEvent, GraphIngest
<1>6. \A q : OfPid(q)' = IF q = P THEN OfPid(q) \cup {i} ELSE OfPid(q)
  <2>1. FileInv
    BY DEF ReadInv
  <2> QED BY <1>1, <1>2, <1>3, <2>1, AnEvent
<1>7. /\ order \in Seq(Pids) /\ ToSet(order) = pids
      /\ \A j, k \in DOMAIN order : j < k => First[order[j]] < First[order[k]]
      /\ \A q \in Pids : q \in pids <=> OfPid(q) # {}
  BY DEF ReadInv, GraphInv, OrderInv, NodeTells
<1>8. \A j \in DOMAIN order : order[j] \in Pids /\ order[j] \in pids
  BY <1>7 DEF ToSet
<1>9. ASSUME NEW q \in Pids, q \in pids PROVE First'[q] = First[q] /\ First[q] < i
  <2>1. /\ OfPid(q) \subseteq Nat /\ OfPid(q) # {} /\ i \in Nat
        /\ \A n \in OfPid(q) : n < i
    <3>1. /\ OfPid(q) \subseteq Nat /\ \A n \in OfPid(q) : n <= pos
          /\ pos \in Nat
      BY EventsOfPid DEF ReadInv, FileInv
    <3> QED BY <1>3, <1>7, <1>9, <3>1
  <2>2. OfPid(q)' = OfPid(q) \/ OfPid(q)' = OfPid(q) \cup {i}
    BY <1>6
  <2>3. Min(OfPid(q)') = Min(OfPid(q)) /\ Min(OfPid(q)) < i
    BY <2>1, <2>2, MinStays
  <2> QED BY <2>3 DEF First
<1>10. \A j, k \in DOMAIN order : j < k => First'[order[j]] < First'[order[k]]
  BY <1>7, <1>8, <1>9
<1>11. CASE P \in pids
  <2>1. order' = order /\ pids' = pids
    BY <1>5, <1>11
  <2> QED BY <1>7, <1>10, <2>1 DEF OrderInv
<1>12. CASE P \notin pids
  <2>1. PICK last : last = Len(order) + 1
    OBVIOUS
  <2>2. order' = Append(order, P)
    BY <1>5, <1>12
  <2>3. /\ order' \in Seq(Pids) /\ DOMAIN order' = DOMAIN order \cup {last}
        /\ order'[last] = P /\ last \in Nat
        /\ \A j \in DOMAIN order : order'[j] = order[j] /\ j \in Nat /\ j < last
    BY <1>4, <1>7, <2>1, <2>2, Appended
  <2>4. ToSet(order') = pids'
    BY <1>5, <1>7, <2>3 DEF ToSet
  <2>5. First'[P] = i
    <3>1. OfPid(P)' = {i}
      BY <1>4, <1>6, <1>7, <1>12
    <3>2. Min({i}) = i
      <4>1. {i} \subseteq Nat /\ i \in {i} /\ \A n \in {i} : i <= n
        BY <1>3
      <4> QED BY <4>1, MinIs
    <3> QED BY <1>4, <3>1, <3>2 DEF First
  <2>6. ASSUME NEW j \in DOMAIN order', NEW k \in DOMAIN order', j < k
        PROVE  First'[order'[j]] < First'[order'[k]]
    <3>1. j \in DOMAIN order
      BY <2>3, <2>6
    <3>2. CASE k \in DOMAIN order
      BY <1>10, <2>3, <2>6, <3>1, <3>2
    <3>3. CASE k = last
      BY <1>8, <1>9, <2>3, <2>5, <3>1, <3>3
    <3> QED BY <2>3, <3>2, <3>3
  <2> QED BY <2>3, <2>4, <2>6 DEF OrderInv
<1> QED BY <1>11, <1>12

\* A line that is no event, and the end of the file: risks are computed, and
\* nodes keep their destinations.
LEMMA NothingStep ==
    ASSUME ReadInv, UNCHANGED <<pids, order, lists, file>>, \A p : OfPid(p)' = OfPid(p),
           node' = node \/ node' = compute_risk_all
    PROVE  GraphInv'
<1>1. TypeAt' = TypeAt /\ PathAt' = PathAt /\ EntryAt' = EntryAt
  BY DEF TypeAt, PathAt, EntryAt
<1>2. /\ DOMAIN node = Pids /\ DOMAIN lists = Pids
      /\ \A q \in Pids : ListsTell(q) /\ NodeTells(q)
  BY DEF ReadInv, GraphInv
<1>3. ASSUME NEW p \in Pids
      PROVE  node'[p].destinations = node[p].destinations /\ Reaches(node'[p], node[p].destinations)
  <2>1. Reaches(node[p], node[p].destinations)
    BY <1>2 DEF NodeTells
  <2>2. Reaches(compute_risk_for_node(node[p]), node[p].destinations)
    BY <2>1, RiskReaches
  <2>3. node'[p] = node[p] \/ node'[p] = compute_risk_for_node(node[p])
    BY DEF compute_risk_all
  <2> QED BY <2>1, <2>2, <2>3 DEF Reaches
<1>4. DOMAIN node' = Pids
  BY <1>2 DEF compute_risk_all
<1>5. ASSUME NEW p \in Pids PROVE ListsTell(p)' /\ NodeTells(p)'
  <2>1. OfPid(p)' = OfPid(p) /\ lists' = lists /\ pids' = pids
    OBVIOUS
  <2>2. ListsTell(p)'
    BY <1>1, <1>2, <2>1 DEF ListsTell
  <2> QED BY <1>2, <1>3, <2>1, <2>2 DEF NodeTells
<1>6. OrderInv'
  <2>1. First' = First
    BY DEF First
  <2> QED BY <2>1 DEF ReadInv, GraphInv, OrderInv
<1> QED BY <1>2, <1>4, <1>5, <1>6 DEF GraphInv

LEMMA SamePosition ==
    ASSUME UNCHANGED <<file, pos>> PROVE \A p : OfPid(p)' = OfPid(p)
<1>1. EventsRead' = EventsRead
  BY DEF EventsRead
<1> QED BY <1>1 DEF OfPid

LEMMA StepRead == ReadInv /\ [Next]_vars => ReadInv'
<1> SUFFICES ASSUME ReadInv, [Next]_vars PROVE ReadInv'
  OBVIOUS
<1>1. FileInv'
  BY StepFile DEF ReadInv
<1>2. GraphInv'
  <2>1. ASSUME NextLine, ReadEvent(file[pos + 1]) PROVE GraphInv'
    <3>1. \A p \in Pids : ListsTell(p)' /\ NodeTells(p)'
      BY <2>1, EventStep
    <3>2. OrderInv'
      BY <2>1, OrderStep
    <3>3. DOMAIN node' = Pids /\ DOMAIN lists' = Pids
      BY <2>1 DEF ReadInv, GraphInv, ReadEvent, GraphIngest
    <3> QED BY <3>1, <3>2, <3>3 DEF GraphInv
  <2>2. ASSUME NextLine, ReadMalformed(file[pos + 1]) PROVE GraphInv'
    <3>1. ~parse_event_line(FieldsOf(file[pos + 1])) /\ UNCHANGED <<pids, order, lists, file, node>>
      BY <2>2 DEF ReadMalformed, GraphMalformed, malformed, listVars, NextLine
    <3>2. \A p : OfPid(p)' = OfPid(p)
      BY <2>2, <3>1, NoEvent DEF ReadInv
    <3> QED BY <3>1, <3>2, NothingStep
  <2>3. ASSUME NextLine, ReadNothing(file[pos + 1]) PROVE GraphInv'
    <3>1. /\ Skipped(file[pos + 1]) \/ ~parse_event_line(FieldsOf(file[pos + 1]))
          /\ UNCHANGED <<pids, order, lists, file, node>>
      BY <2>3 DEF ReadNothing, parse_event_line, listVars, graphVars, NextLine
    <3>2. \A p : OfPid(p)' = OfPid(p)
      BY <2>3, <3>1, NoEvent DEF ReadInv
    <3> QED BY <3>1, <3>2, NothingStep
  <2>4. CASE EndOfFile
    <3>1. /\ UNCHANGED <<pids, order, lists, file, pos>>
          /\ node' = node \/ node' = compute_risk_all
      BY <2>4 DEF EndOfFile, GraphEnd, listVars
    <3>2. \A p : OfPid(p)' = OfPid(p)
      BY <3>1, SamePosition
    <3> QED BY <3>1, <3>2, NothingStep
  <2>5. CASE UNCHANGED readVars
    <3>1. UNCHANGED <<pids, order, lists, file, pos, node>>
      BY <2>5 DEF readVars, listVars, graphVars
    <3>2. \A p : OfPid(p)' = OfPid(p)
      BY <3>1, SamePosition
    <3> QED BY <3>1, <3>2, NothingStep
  <2>6. Read \/ UNCHANGED readVars
    BY DEF Next, GraphCommand, GraphTimelineCommand, TimelineCommand, SimilarityCommand,
           Show, vars
  <2> QED BY <2>1, <2>2, <2>3, <2>4, <2>5, <2>6 DEF Read, ReadNext, ReadLine
<1> QED BY <1>1, <1>2 DEF ReadInv

LEMMA ListIsFirstOnce ==
    ASSUME NEW list, NEW p, NEW value
    PROVE  FirstComesFirst(list, p, value) <=> FirstOnce(list, OfPid(p), value)
BY DEF FirstComesFirst, FirstOnce, Came

LEMMA ReadTellsTheFile == ReadInv => NodesTellTheFile
<1> SUFFICES ASSUME ReadInv PROVE NodesTellTheFile
  OBVIOUS
<1>1. /\ \A p \in Pids : ListsTell(p) /\ NodeTells(p)
      /\ ToSet(order) = pids /\ order \in Seq(Pids)
      /\ \A j, k \in DOMAIN order : j < k => First[order[j]] < First[order[k]]
  BY DEF ReadInv, GraphInv, OrderInv
<1>2. \A j \in DOMAIN order : order[j] \in Pids
  BY <1>1
<1>3. \A j, k \in DOMAIN order : j < k => Min(OfPid(order[j])) < Min(OfPid(order[k]))
  BY <1>1, <1>2 DEF First
<1>4. pids \subseteq Pids
  BY <1>1 DEF ToSet
<1>5. ASSUME NEW p \in pids
      PROVE  LET nth(i) == lists[p].timeline[Cardinality({ j \in OfPid(p) : j <= i })]
                 type == [i \in OfPid(p) |-> FieldsOf(file[i]).event]
                 path == [i \in OfPid(p) |-> FieldsOf(file[i]).file]
             IN  /\ Len(lists[p].timeline) = Cardinality(OfPid(p))
                 /\ \A i \in OfPid(p) : nth(i) = [ time  |-> TimeOf(file[i]), event |-> type[i],
                                                   file |-> path[i],
                                                   dst  |-> EventOf(FieldsOf(file[i])).dst ]
                 /\ FirstComesFirst(lists[p].event_types, p, type)
                 /\ FirstComesFirst(lists[p].files, p, path)
                 /\ ToSet(lists[p].destinations) = node[p].destinations
                 /\ Len(lists[p].destinations) = Cardinality(node[p].destinations)
  <2> DEFINE N == OfPid(p)
             type == [i \in N |-> FieldsOf(file[i]).event]
             path == [i \in N |-> FieldsOf(file[i]).file]
  <2>1. ListsTell(p) /\ NodeTells(p)
    BY <1>1, <1>4
  <2>2. \A i \in N : i \in 1..Len(file)
    BY EventsOfPid DEF ReadInv
  <2>3. FirstComesFirst(lists[p].event_types, p, type)
    <3>1. \A i \in N : type[i] = TypeAt[i]
      BY <2>2 DEF TypeAt
    <3>2. FirstOnce(lists[p].event_types, N, TypeAt)
      BY <2>1 DEF ListsTell
    <3> HIDE DEF type
    <3>3. FirstOnce(lists[p].event_types, N, type)
      BY <3>1, <3>2, FirstOnceSame
    <3> QED BY <3>3, ListIsFirstOnce
  <2>4. FirstComesFirst(lists[p].files, p, path)
    <3>1. \A i \in N : path[i] = PathAt[i]
      BY <2>2 DEF PathAt
    <3>2. FirstOnce(lists[p].files, N, PathAt)
      BY <2>1 DEF ListsTell
    <3> HIDE DEF path
    <3>3. FirstOnce(lists[p].files, N, path)
      BY <3>1, <3>2, FirstOnceSame
    <3> QED BY <3>3, ListIsFirstOnce
  <2>5. \A i \in N : lists[p].timeline[Cardinality({ j \in N : j <= i })]
                       = [ time  |-> TimeOf(file[i]), event |-> type[i],
                           file |-> path[i], dst |-> EventOf(FieldsOf(file[i])).dst ]
    <3> SUFFICES ASSUME NEW i \in N
                 PROVE  lists[p].timeline[Cardinality({ j \in N : j <= i })]
                          = [ time  |-> TimeOf(file[i]), event |-> type[i],
                              file |-> path[i], dst |-> EventOf(FieldsOf(file[i])).dst ]
      OBVIOUS
    <3>1. lists[p].timeline[Cardinality(UpTo(N, i))] = EntryAt[i]
      BY <2>1 DEF ListsTell, Tells
    <3> QED BY <2>2, <3>1 DEF EntryAt, UpTo
  <2>6. Len(lists[p].timeline) = Cardinality(N)
    BY <2>1 DEF ListsTell, Tells
  <2>7. /\ ToSet(lists[p].destinations) = node[p].destinations
        /\ Len(lists[p].destinations) = Cardinality(node[p].destinations)
    BY <2>1 DEF NodeTells, Counts
  <2> QED BY <2>3, <2>4, <2>5, <2>6, <2>7
<1> QED BY <1>1, <1>3, <1>5 DEF NodesTellTheFile

LEMMA AlwaysRead == Spec => []ReadInv
BY InitRead, StepRead, PTL DEF Spec

\* What is read of a file is told by its nodes: their order, their timelines
\* and their lists are those of the events of the file, in its order
\* (load_graph_from_events), for files of any length and any number of pids.
THEOREM NodesAreTold == Spec => []NodesTellTheFile
BY AlwaysRead, ReadTellsTheFile, PTL

-----------------------------------------------------------------------------
(***************************************************************************)
(* Folds over sequences.  FoldLeft is a recursive function on the sets of  *)
(* positions, of which only the first ones matter.  The three folds of the *)
(* commands are told apart by a name, so that what is common to them is    *)
(* proved once.                                                            *)
(***************************************************************************)
Folded(f, acc, x) ==
    CASE f.of = "matching" -> IF graph_node_matches(x, f.filter) THEN Append(acc, x) ELSE acc
      [] f.of = "sketch"   -> odd_sketch_add(acc, x)
      [] f.of = "cells"    -> CsvStep(acc, x)

TheFold(of, filter, base, seq) == [of |-> of, filter |-> filter, base |-> base, seq |-> seq]

Before(s) == s \ {Max(s)}

FoldTable(g, f, S) ==
    g = [s \in SUBSET S |-> IF s = {} THEN f.base ELSE Folded(f, g[Before(s)], f.seq[Max(s)])]

Fold(f) == (CHOOSE g : FoldTable(g, f, DOMAIN f.seq))[DOMAIN f.seq]

LEMMA MatchingIsFold ==
    ASSUME NEW filter PROVE Matching(filter) = Fold(TheFold("matching", filter, <<>>, order))
BY DEF Matching, FoldLeft, MapThenFoldSet, Fold, FoldTable, Folded, TheFold, Before

LEMMA SketchIsFold ==
    ASSUME NEW p, NEW no
    PROVE  odd_sketch_from_node(p)
             = Fold(TheFold("sketch", no, {}, lists[p].files \o lists[p].destinations))
BY DEF odd_sketch_from_node, FoldLeft, MapThenFoldSet, Fold, FoldTable, Folded, TheFold, Before

Start == [mode |-> "start", cell |-> "", cells |-> <<>>]
LEMMA CellsIsFold ==
    ASSUME NEW tokens, NEW no
    PROVE  FoldLeft(CsvStep, Start, tokens) = Fold(TheFold("cells", no, Start, tokens))
BY DEF FoldLeft, MapThenFoldSet, Fold, FoldTable, Folded, TheFold, Before

LEMMA MaxOf ==
    ASSUME NEW n \in Nat, NEW s \in SUBSET (1..n), s # {}
    PROVE  Max(s) \in s /\ \A x \in s : x <= Max(s)
<1> DEFINE U == { m \in Nat : \A x \in s : x <= m }
<1>1. U \subseteq Nat /\ n \in U
  OBVIOUS
<1>2. PICK m \in U : \A k \in U : m <= k
  BY <1>1, MinExists
<1>3. m \in Nat /\ \A x \in s : x <= m
  BY <1>2
<1>4. m \in s
  <2> SUFFICES ASSUME m \notin s PROVE FALSE
    OBVIOUS
  <2>1. \A x \in s : x \in Nat /\ x < m /\ x >= 1
    BY <1>3
  <2>2. m - 1 \in Nat /\ \A x \in s : x <= m - 1
    <3>1. PICK y \in s : TRUE
      OBVIOUS
    <3>2. m > 0 /\ m \in Nat
      BY <1>3, <2>1, <3>1
    <3> QED BY <2>1, <3>2
  <2>3. m - 1 \in U
    BY <2>2
  <2> QED BY <1>2, <1>3, <2>3
<1> QED BY <1>3, <1>4 DEF Max

Positions(S) == \E n \in Nat : S \subseteq 1..n

LEMMA SomePositions ==
    ASSUME NEW S, Positions(S)
    PROVE  IsFiniteSet(S) /\ \A s \in SUBSET S : Positions(s)
<1>1. PICK n \in Nat : S \subseteq 1..n
  BY DEF Positions
<1>2. IsFiniteSet(1..n)
  BY FS_Interval
<1>3. IsFiniteSet(S)
  BY <1>1, <1>2, FS_Subset
<1> QED BY <1>1, <1>3 DEF Positions

LEMMA MaxAndBefore ==
    ASSUME NEW s, Positions(s), s # {}
    PROVE  Before(s) \in SUBSET s /\ Before(s) # s
<1>1. PICK n \in Nat : s \in SUBSET (1..n)
  BY DEF Positions
<1> QED BY <1>1, MaxOf DEF Before

LEMMA MaxOfFirst ==
    ASSUME NEW n \in Nat, NEW k \in 1..n
    PROVE  /\ Max(1..k) = k /\ Before(1..k) = 1..(k - 1)
           /\ 1..k \in SUBSET (1..n) /\ 1..k # {}
<1>1. 1..k \in SUBSET (1..n) /\ 1..k # {} /\ k \in 1..k
  OBVIOUS
<1>2. PICK m : m = Max(1..k)
  OBVIOUS
<1>3. m \in 1..k /\ \A x \in 1..k : x <= m
  BY <1>1, <1>2, MaxOf
<1>4. m = k
  BY <1>1, <1>3
<1>5. (1..k) \ {k} = 1..(k - 1)
  OBVIOUS
<1> QED BY <1>1, <1>2, <1>4, <1>5 DEF Before

LEMMA SmallestSet ==
    ASSUME NEW S, IsFiniteSet(S), NEW B, B \subseteq SUBSET S, B # {}
    PROVE  \E T \in B : \A V \in B : V \subseteq T => V = T
<1>1. B \subseteq FiniteSubsetsOf(S)
  BY FS_FiniteSubsetsOfFinite
<1>2. PICK T \in B : \A V \in B : ~ (<<V, T>> \in StrictSubsetOrdering(S))
  BY <1>1, FS_StrictSubsetOrderingWellFounded, WFMin
<1> QED BY <1>2 DEF StrictSubsetOrdering

LEMMA FoldTableAt ==
    ASSUME NEW f, NEW S,
           NEW g, FoldTable(g, f, S), NEW s \in SUBSET S
    PROVE  g[s] = IF s = {} THEN f.base ELSE Folded(f, g[Before(s)], f.seq[Max(s)])
<1> DEFINE F(t) == IF t = {} THEN f.base ELSE Folded(f, g[Before(t)], f.seq[Max(t)])
<1>1. g = [t \in SUBSET S |-> F(t)]
  BY DEF FoldTable
<1> HIDE DEF F
<1>2. g[s] = F(s)
  BY <1>1
<1> QED BY <1>2 DEF F

LEMMA FoldTablesAgree ==
    ASSUME NEW f, NEW S, Positions(S), NEW T \in SUBSET S, NEW g, NEW h,
           FoldTable(g, f, S), FoldTable(h, f, T)
    PROVE  g[T] = h[T]
<1> DEFINE B == { s \in SUBSET T : g[s] # h[s] }
<1> SUFFICES ASSUME B # {} PROVE FALSE
  OBVIOUS
<1>1. PICK s \in B : \A V \in B : V \subseteq s => V = s
  <2>1. B \subseteq SUBSET S /\ IsFiniteSet(S)
    BY SomePositions
  <2> HIDE DEF B
  <2> QED BY <2>1, SmallestSet
<1>2. s \in SUBSET T /\ s \in SUBSET S /\ Positions(s) /\ g[s] # h[s]
  BY SomePositions
<1>3. g[s] = IF s = {} THEN f.base ELSE Folded(f, g[Before(s)], f.seq[Max(s)])
  BY <1>2, FoldTableAt
<1>4. h[s] = IF s = {} THEN f.base ELSE Folded(f, h[Before(s)], f.seq[Max(s)])
  BY <1>2, FoldTableAt
<1>5. s # {}
  BY <1>2, <1>3, <1>4
<1>6. Before(s) \in SUBSET T /\ Before(s) \notin B
  BY <1>1, <1>2, <1>5, MaxAndBefore
<1>7. g[Before(s)] = h[Before(s)]
  BY <1>6
<1> QED BY <1>2, <1>3, <1>4, <1>5, <1>7

LEMMA FoldTableExists ==
    ASSUME NEW f, NEW S, Positions(S)
    PROVE  \E g : FoldTable(g, f, S)
<1> DEFINE Exists(T) == \E g : FoldTable(g, f, T)
           B == { T \in SUBSET S : ~ Exists(T) }
<1> SUFFICES ASSUME B # {} PROVE FALSE
  OBVIOUS
<1>1. PICK T \in B : \A V \in B : V \subseteq T => V = T
  <2>1. B \subseteq SUBSET S /\ IsFiniteSet(S)
    BY SomePositions
  <2> HIDE DEF B
  <2> QED BY <2>1, SmallestSet
<1>2. T \in SUBSET S /\ Positions(T) /\ ~ \E g : FoldTable(g, f, T)
  BY SomePositions
<1> DEFINE h(u) == CHOOSE g : FoldTable(g, f, u)
<1>3. ASSUME NEW u \in SUBSET T, u # T
      PROVE  FoldTable(h(u), f, u) /\ Positions(u)
  <2>1. u \in SUBSET S /\ u \notin B
    BY <1>1, <1>2, <1>3
  <2>2. \E g : FoldTable(g, f, u)
    BY <2>1
  <2>3. Positions(u)
    BY <1>2, SomePositions
  <2> QED BY <2>2, <2>3
<1> HIDE DEF h, B, Exists
<1> DEFINE v(s) == IF s = {} THEN f.base
                   ELSE Folded(f, h(Before(s))[Before(s)], f.seq[Max(s)])
           G == [s \in SUBSET T |-> v(s)]
<1>4. ASSUME NEW w \in SUBSET T, w # T PROVE v(w) = h(w)[w]
  <2>1. h(w)[w] = IF w = {} THEN f.base ELSE Folded(f, h(w)[Before(w)], f.seq[Max(w)])
    BY <1>3, <1>4, FoldTableAt
  <2>2. CASE w = {}
    BY <2>1, <2>2
  <2>3. CASE w # {}
    <3>1. Before(w) \in SUBSET w /\ Before(w) \in SUBSET T /\ Before(w) # T
      BY <1>3, <1>4, <2>3, MaxAndBefore
    <3>2. /\ FoldTable(h(w), f, w) /\ Positions(w)
          /\ FoldTable(h(Before(w)), f, Before(w))
      BY <1>3, <1>4, <3>1
    <3>3. h(w)[Before(w)] = h(Before(w))[Before(w)]
      BY <3>1, <3>2, FoldTablesAgree
    <3> QED BY <2>1, <2>3, <3>3
  <2> QED BY <2>2, <2>3
<1>5. ASSUME NEW s \in SUBSET T, s # {}
      PROVE  v(s) = Folded(f, G[Before(s)], f.seq[Max(s)])
  <2>1. Before(s) \in SUBSET T /\ Before(s) # T
    <3>1. Positions(s)
      BY <1>2, SomePositions
    <3> QED BY <1>5, <3>1, MaxAndBefore
  <2>2. G[Before(s)] = h(Before(s))[Before(s)]
    BY <1>4, <2>1
  <2> QED BY <1>5, <2>2
<1>6. G = [s \in SUBSET T |-> IF s = {} THEN f.base
                              ELSE Folded(f, G[Before(s)], f.seq[Max(s)])]
  <2>1. \A s \in SUBSET T : v(s) = IF s = {} THEN f.base
                                   ELSE Folded(f, G[Before(s)], f.seq[Max(s)])
    BY <1>5
  <2> QED BY <2>1, Zenon
<1> QED BY <1>2, <1>6 DEF FoldTable

\* The values a fold goes through.
Steps(h, f) ==
    /\ h[0] = f.base
    /\ \A k \in 1..Len(f.seq) : h[k] = Folded(f, h[k - 1], f.seq[k])

LEMMA FoldSteps ==
    ASSUME NEW f, NEW n \in Nat, n = Len(f.seq), DOMAIN f.seq = 1..n
    PROVE  \E h : Steps(h, f) /\ Fold(f) = h[n]
<1>1. Positions(1..n)
  BY DEF Positions
<1>2. PICK g : FoldTable(g, f, 1..n) /\ Fold(f) = g[1..n]
  <2>1. \E g : FoldTable(g, f, 1..n)
    BY <1>1, FoldTableExists
  <2> QED BY <2>1 DEF Fold
<1> DEFINE h == [k \in 0..n |-> g[1..k]]
<1>3. h[0] = f.base
  <2>1. g[{}] = f.base
    <3>1. {} \in SUBSET (1..n)
      OBVIOUS
    <3> QED BY <1>2, <3>1, FoldTableAt
  <2>2. 1..0 = {}
    OBVIOUS
  <2> QED BY <2>1, <2>2
<1>4. ASSUME NEW k \in 1..n PROVE h[k] = Folded(f, h[k - 1], f.seq[k])
  <2>1. Max(1..k) = k /\ Before(1..k) = 1..(k - 1) /\ 1..k \in SUBSET (1..n) /\ 1..k # {}
    BY MaxOfFirst
  <2>2. PICK S, s : S = 1..n /\ s = 1..k
    OBVIOUS
  <2>3. g[s] = Folded(f, g[Before(s)], f.seq[Max(s)])
    <3>1. FoldTable(g, f, S) /\ s \in SUBSET S /\ s # {}
      BY <1>2, <2>1, <2>2
    <3> QED BY <3>1, FoldTableAt
  <2>4. k \in 0..n /\ k - 1 \in 0..n
    OBVIOUS
  <2> QED BY <2>1, <2>2, <2>3, <2>4
<1>5. h[n] = g[1..n]
  OBVIOUS
<1> HIDE DEF h
<1> QED BY <1>2, <1>3, <1>4, <1>5 DEF Steps

LEMMA MatchingTakes ==
    ASSUME order \in Seq(Pids), NEW filter
    PROVE  /\ Matching(filter) \in Seq(Pids)
           /\ ToSet(Matching(filter))
                = { order[i] : i \in { j \in DOMAIN order : graph_node_matches(order[j], filter) } }
<1> DEFINE f == TheFold("matching", filter, <<>>, order)
           taken(k) == { order[i] : i \in { j \in 1..k : graph_node_matches(order[j], filter) } }
<1>1. PICK n \in Nat : n = Len(order) /\ DOMAIN order = 1..n
  OBVIOUS
<1>2. f.seq = order /\ f.base = <<>>
  BY DEF TheFold
<1>3. PICK h : Steps(h, f) /\ Fold(f) = h[n]
  <2> HIDE DEF f
  <2> QED BY <1>1, <1>2, FoldSteps
<1>4. h[0] = <<>>
  BY <1>2, <1>3 DEF Steps
<1>5. \A k \in 1..n : h[k] = IF graph_node_matches(order[k], filter)
                               THEN Append(h[k - 1], order[k]) ELSE h[k - 1]
  BY <1>1, <1>2, <1>3 DEF Steps, Folded, TheFold
<1> HIDE DEF f
<1> DEFINE Good(k) == h[k] \in Seq(Pids) /\ ToSet(h[k]) = taken(k)
           bad == { k \in 0..n : ~Good(k) }
<1>6. bad = {}
  <2> SUFFICES ASSUME bad # {} PROVE FALSE
    OBVIOUS
  <2>1. PICK k \in bad : \A m \in bad : k <= m
    <3>1. bad \subseteq Nat
      OBVIOUS
    <3> HIDE DEF bad
    <3>2. Min(bad) \in bad /\ \A m \in bad : Min(bad) <= m
      BY <3>1, MinExists
    <3> QED BY <3>2
  <2>2. k \in 0..n /\ ~Good(k)
    OBVIOUS
  <2>3. k # 0
    <3>1. Good(0)
      BY <1>4 DEF ToSet
    <3> HIDE DEF Good
    <3> QED BY <2>2, <3>1
  <2>4. k \in 1..n /\ k - 1 \in 0..n /\ k - 1 \notin bad
    <3>1. k \in 1..n /\ k - 1 \in 0..n /\ ~ (k <= k - 1)
      BY <2>2, <2>3
    <3> HIDE DEF bad
    <3> QED BY <2>1, <3>1
  <2>5. Good(k - 1)
    BY <2>4
  <2>6. order[k] \in Pids
    BY <1>1, <2>4
  <2>7. (1..k) = (1..(k - 1)) \cup {k}
    BY <2>4
  <2> HIDE DEF bad
  <2>8. CASE graph_node_matches(order[k], filter)
    <3>1. h[k] = Append(h[k - 1], order[k])
      BY <1>5, <2>4, <2>8
    <3>2. PICK last : last = Len(h[k - 1]) + 1
      OBVIOUS
    <3>3. /\ h[k] \in Seq(Pids) /\ DOMAIN h[k] = DOMAIN h[k - 1] \cup {last}
          /\ h[k][last] = order[k]
          /\ \A j \in DOMAIN h[k - 1] : h[k][j] = h[k - 1][j]
      BY <2>5, <2>6, <3>1, <3>2, Appended
    <3>4. ToSet(h[k]) = ToSet(h[k - 1]) \cup {order[k]}
      BY <3>3 DEF ToSet
    <3>5. taken(k) = taken(k - 1) \cup {order[k]}
      BY <2>7, <2>8
    <3> QED BY <2>2, <2>5, <3>3, <3>4, <3>5
  <2>9. CASE ~graph_node_matches(order[k], filter)
    <3>1. h[k] = h[k - 1]
      BY <1>5, <2>4, <2>9
    <3>2. taken(k) = taken(k - 1)
      BY <2>7, <2>9
    <3> QED BY <2>2, <2>5, <3>1, <3>2
  <2> QED BY <2>8, <2>9
<1>7. Good(n)
  <2>1. n \in 0..n
    OBVIOUS
  <2>2. n \notin bad
    BY <1>6
  <2> QED BY <2>1, <2>2
<1>8. Matching(filter) = h[n]
  BY <1>3, MatchingIsFold DEF f
<1> QED BY <1>1, <1>7, <1>8

LEMMA LimitedIsPrefix ==
    ASSUME NEW S, NEW list \in Seq(S), NEW limit \in Nat
    PROVE  IsPrefixOf(Limited(list, limit), list)
<1>1. PICK n : n = IF Len(list) < limit THEN Len(list) ELSE limit
  OBVIOUS
<1>2. n \in Nat /\ n <= Len(list) /\ Len(list) \in Nat
  BY <1>1
<1>3. Len(SubSeq(list, 1, n)) = n
  BY <1>2
<1>4. SubSeq(list, 1, n) \o SubSeq(list, n + 1, Len(list)) = SubSeq(list, 1, Len(list))
  <2>1. /\ 1 \in 1..Len(list) + 1 /\ n \in 1 - 1..Len(list)
        /\ Len(list) \in n..Len(list)
    BY <1>2
  <2>2. \A m \in 1..Len(list) + 1 : \A k \in m - 1..Len(list) : \A j \in k..Len(list) :
          SubSeq(list, m, k) \o SubSeq(list, k + 1, j) = SubSeq(list, m, j)
    BY ConcatAdjacentSubSeq
  <2> QED BY <2>1, <2>2
<1>5. SubSeq(list, 1, Len(list)) = list
  OBVIOUS
<1>6. PICK l : l = Limited(list, limit)
  OBVIOUS
<1>7. l.shown = SubSeq(list, 1, n) /\ l.more = Len(list) - n
  BY <1>1, <1>6 DEF Limited
<1>8. l.shown \o SubSeq(list, Len(l.shown) + 1, Len(list)) = list
  BY <1>3, <1>4, <1>5, <1>7
<1>9. l.more = Len(list) - Len(l.shown)
  BY <1>3, <1>7
<1> QED BY <1>6, <1>8, <1>9 DEF IsPrefixOf

(***************************************************************************)
(* What the three commands on the graph share: the nodes printed are the   *)
(* first of those that are reported.                                       *)
(***************************************************************************)
FirstOfReported(shown, all, filter, view, written, notice, exit) ==
    /\ Len(shown) <= Len(all)
    /\ filter # [pid |-> -1, process |-> ""] \/ ~notice => Len(shown) = Len(all)
    /\ { all[i].pid : i \in DOMAIN all } =
         { p \in pids : /\ filter.pid \in {-1, p}
                        /\ filter.process \in {"", node[p].process} }
    /\ exit = 3 <=> all = <<>>
    /\ \A i \in DOMAIN shown : \E p \in pids :
         /\ shown[i].pid = p /\ all[i].pid = p
         /\ shown[i].view = view[p] /\ all[i].written = written[p]

LEMMA NodesShown ==
    ASSUME ReadInv, NEW filter \in [pid : PidFilters, process : ProcessFilters],
           NEW name, NEW view, NEW written, Show(name, filter, view, written),
           NEW shown, shown = console'.nodes, NEW all, all = report'.nodes
    PROVE  FirstOfReported(shown, all, filter, view, written, console'.notice, code')
<1> DEFINE cut == Cut(filter)
<1>1. PICK m : m = Matching(filter)
  OBVIOUS
<1>2. PICK s : s = Printed(filter)
  OBVIOUS
<1>3. order \in Seq(Pids) /\ ToSet(order) = pids
  BY DEF ReadInv, GraphInv, OrderInv
<1>4. /\ m \in Seq(Pids)
      /\ ToSet(m) = { order[i] : i \in { j \in DOMAIN order : graph_node_matches(order[j], filter) } }
  BY <1>1, <1>3, MatchingTakes
<1>5. ToSet(m) = { p \in pids : graph_node_matches(p, filter) }
  BY <1>3, <1>4 DEF ToSet
<1>6. filter.pid \in Nat \cup {-1} /\ filter = [pid |-> filter.pid, process |-> filter.process]
  BY FiltersAssumption
<1>7. PICK n \in Nat : n = Len(m) /\ DOMAIN m = 1..n
  BY <1>4
<1>8. GraphPrintLimit \in Nat
  BY LimitsAssumption
<1>9. PICK k \in 0..n : /\ DOMAIN s = 1..k /\ \A i \in 1..k : s[i] = m[i]
                        /\ ~cut => k = n
  <2>1. CASE cut
    <3>1. n >= GraphPrintLimit /\ s = SubSeq(m, 1, GraphPrintLimit)
      BY <1>1, <1>2, <1>7, <2>1 DEF Cut, Printed
    <3> QED BY <1>4, <1>7, <1>8, <2>1, <3>1
  <2>2. CASE ~cut
    <3>1. s = m
      BY <1>1, <1>2, <2>2 DEF Printed
    <3> QED BY <1>7, <3>1
  <2> QED BY <2>1, <2>2
<1>10. /\ shown = [i \in 1..k |-> [pid |-> s[i], view |-> view[s[i]]]]
       /\ all = [i \in 1..n |-> [pid |-> m[i], written |-> written[m[i]]]]
       /\ console'.notice = cut
       /\ code' = IF m = <<>> THEN 3 ELSE 0
  BY <1>1, <1>2, <1>7, <1>9 DEF Show
<1>11. Len(shown) = k /\ Len(all) = n
  BY <1>10
<1>12. filter # [pid |-> -1, process |-> ""] => ~cut
  <2>1. PICK a, b : a = filter.pid /\ b = filter.process
    OBVIOUS
  <2>2. cut => a = -1 /\ b = ""
    <3>1. cut => filter.pid < 0 /\ filter.process = ""
      BY DEF Cut
    <3> HIDE DEF cut
    <3>2. a \in Nat \cup {-1} /\ (cut => a < 0)
      BY <1>6, <2>1, <3>1
    <3>3. cut => a = -1
      BY <3>2
    <3> QED BY <2>1, <3>1, <3>3
  <2> HIDE DEF cut
  <2> QED BY <1>6, <2>1, <2>2
<1>13. { all[i].pid : i \in DOMAIN all } = ToSet(m)
  BY <1>7, <1>10 DEF ToSet
<1>14. \A p : graph_node_matches(p, filter) <=> /\ filter.pid \in {-1, p}
                                                /\ filter.process \in {"", node[p].process}
  <2> SUFFICES ASSUME NEW p PROVE graph_node_matches(p, filter)
                                    <=> /\ filter.pid \in {-1, p}
                                        /\ filter.process \in {"", node[p].process}
    OBVIOUS
  <2>1. PICK a \in Nat \cup {-1} : a = filter.pid
    BY <1>6
  <2>2. (a >= 0 => p = a) <=> a \in {-1, p}
    OBVIOUS
  <2>3. (filter.process # "" => node[p].process = filter.process)
          <=> filter.process \in {"", node[p].process}
    OBVIOUS
  <2> QED BY <2>1, <2>2, <2>3 DEF graph_node_matches
<1>15. code' = 3 <=> all = <<>>
  <2>1. m = <<>> <=> n = 0
    BY <1>4, <1>7
  <2>2. PICK A : all \in [1..n -> A]
    <3>1. DOMAIN all = 1..n /\ all = [i \in DOMAIN all |-> all[i]]
      BY <1>10
    <3>2. PICK A : A = { all[i] : i \in 1..n }
      OBVIOUS
    <3>3. all \in [1..n -> A]
      BY <3>1, <3>2
    <3> QED BY <3>3
  <2>3. all = <<>> <=> n = 0
    BY <1>11, <2>2
  <2>4. code' = IF m = <<>> THEN 3 ELSE 0
    BY <1>10
  <2> QED BY <2>1, <2>3, <2>4
<1>16. ASSUME NEW i \in DOMAIN shown
       PROVE  \E p \in pids : /\ shown[i].pid = p /\ all[i].pid = p
                              /\ shown[i].view = view[p] /\ all[i].written = written[p]
  <2>1. i \in 1..k /\ i \in 1..n
    BY <1>9, <1>10
  <2>2. m[i] \in pids /\ s[i] = m[i]
    BY <1>5, <1>7, <1>9, <2>1 DEF ToSet
  <2> QED BY <1>10, <2>1, <2>2
<1>17. Len(shown) <= Len(all)
  BY <1>11
<1>18. filter # [pid |-> -1, process |-> ""] \/ ~console'.notice => Len(shown) = Len(all)
  BY <1>9, <1>10, <1>11, <1>12
<1> QED BY <1>5, <1>13, <1>14, <1>15, <1>16, <1>17, <1>18 DEF FirstOfReported

\* The lists of a node are lists.
Reasons == { "watched_process", "sensitive_file_access", "blocked_ip_contact",
             "blocked_domain_contact", "network_after_file_access",
             "high_unique_destinations", "high_event_volume" }

LEMMA ReasonIsAList ==
    ASSUME NEW name \in Reasons PROVE <<name>> \in Seq(Reasons) /\ <<>> \in Seq(Reasons)
<1> HIDE DEF Reasons
<1> QED OBVIOUS

LEMMA ReasonsAreAList ==
    ASSUME NEW n PROVE risk_reasons(n) \in Seq(Reasons)
<1> DEFINE r(signal, name) == IF policy_loaded /\ signal THEN <<name>> ELSE <<>>
           a1 == r(n.watched, "watched_process")
           a2 == r(n.touched_sensitive, "sensitive_file_access")
           a3 == r(n.connected_blocked_ip, "blocked_ip_contact")
           a4 == r(n.connected_blocked_domain, "blocked_domain_contact")
           a5 == r(network_after_file(n), "network_after_file_access")
           a6 == r(AtThreshold(Cardinality(n.destinations),
                               Weights.high_unique_destination_threshold),
                   "high_unique_destinations")
           a7 == r(AtThreshold(n.events_seen, Weights.high_event_volume_threshold),
                   "high_event_volume")
<1>1. risk_reasons(n) = a1 \o a2 \o a3 \o a4 \o a5 \o a6 \o a7
  BY DEF risk_reasons
<1>2. \A name \in Reasons : <<name>> \in Seq(Reasons) /\ <<>> \in Seq(Reasons)
  BY ReasonIsAList
<1>3. /\ "watched_process" \in Reasons /\ "sensitive_file_access" \in Reasons
      /\ "blocked_ip_contact" \in Reasons /\ "blocked_domain_contact" \in Reasons
      /\ "network_after_file_access" \in Reasons /\ "high_unique_destinations" \in Reasons
      /\ "high_event_volume" \in Reasons
  BY DEF Reasons
<1>4. a1 \in Seq(Reasons)
  BY <1>2, <1>3
<1>5. a2 \in Seq(Reasons)
  BY <1>2, <1>3
<1>6. a3 \in Seq(Reasons)
  BY <1>2, <1>3
<1>7. a4 \in Seq(Reasons)
  BY <1>2, <1>3
<1>8. a5 \in Seq(Reasons)
  BY <1>2, <1>3
<1>9. a6 \in Seq(Reasons)
  BY <1>2, <1>3
<1>10. a7 \in Seq(Reasons)
  BY <1>2, <1>3
<1> HIDE DEF a1, a2, a3, a4, a5, a6, a7
<1> QED BY <1>1, <1>4, <1>5, <1>6, <1>7, <1>8, <1>9, <1>10

LEMMA ViewsArePrefixes ==
    ASSUME ReadInv, NEW p \in pids
    PROVE  /\ ListsArePrefixes(print_graph_node(p), write_graph_json_core(p))
           /\ IsPrefixOf(print_timeline_node(p), lists[p].timeline)
<1>1. ListsTell(p) /\ NodeTells(p)
  BY DEF ReadInv, GraphInv, OrderInv, ToSet
<1>2. /\ lists[p].event_types \in Seq(Text) /\ lists[p].files \in Seq(Text)
      /\ lists[p].destinations \in Seq(Text)
      /\ lists[p].timeline \in Seq(ToSet(lists[p].timeline))
  BY <1>1 DEF ListsTell, NodeTells, IsTexts, Counts, Tells
<1>3. GraphPrintLimit \in Nat /\ TimelinePrintLimit \in Nat /\ TopItemsPrint \in Nat
  BY LimitsAssumption
<1>4. /\ IsPrefixOf(Limited(lists[p].event_types, TopItemsPrint), lists[p].event_types)
      /\ IsPrefixOf(Limited(lists[p].files, GraphPrintLimit), lists[p].files)
      /\ IsPrefixOf(Limited(lists[p].destinations, GraphPrintLimit), lists[p].destinations)
      /\ IsPrefixOf(Limited(lists[p].timeline, TimelinePrintLimit), lists[p].timeline)
  BY <1>2, <1>3, LimitedIsPrefix
<1>5. IsPrefixOf(Limited(risk_reasons(node[p]), TopItemsPrint), risk_reasons(node[p]))
  BY <1>3, ReasonsAreAList, LimitedIsPrefix
<1> QED BY <1>4, <1>5 DEF ListsArePrefixes, print_graph_node, write_graph_json_core,
                          print_timeline_node

\* A command runs once the file is read, and nothing runs after it.
Settled == command.name # "" => ~reading

\* The last clauses of ConsoleIsPartOfReport for each command.
PartOf(name, view, written) ==
    /\ name = "graph" => ListsArePrefixes(view, written)
    /\ name = "graph --timeline" => /\ ListsArePrefixes(view.lists, written.lists)
                                    /\ IsPrefixOf(view.timeline, written.timeline)
    /\ name = "timeline" => IsPrefixOf(view, written.timeline)

LEMMA ShowIsPart ==
    ASSUME ReadInv, NEW filter \in [pid : PidFilters, process : ProcessFilters],
           NEW name, NEW vw, NEW wr, Show(name, filter, vw, wr),
           \A p \in pids : PartOf(name, vw[p], wr[p])
    PROVE  ConsoleIsPartOfReport'
<1>1. PICK shown : shown = console'.nodes
  OBVIOUS
<1>2. PICK all : all = report'.nodes
  OBVIOUS
<1>3. command'.filter = filter /\ command'.name = name /\ pids' = pids /\ node' = node
  BY DEF Show, readVars, graphVars
<1>4. FirstOfReported(shown, all, filter, vw, wr, console'.notice, code')
  BY <1>1, <1>2, NodesShown
<1>5. /\ Len(shown) <= Len(all)
      /\ filter # [pid |-> -1, process |-> ""] \/ ~console'.notice => Len(shown) = Len(all)
      /\ code' = 3 <=> all = <<>>
  BY <1>4 DEF FirstOfReported
<1>6. { all[i].pid : i \in DOMAIN all } =
        { p \in pids : /\ filter.pid \in {-1, p}
                       /\ filter.process \in {"", node[p].process} }
  BY <1>4 DEF FirstOfReported
<1>8. \A i \in DOMAIN shown : \E p \in pids :
           /\ shown[i].pid = p /\ all[i].pid = p
           /\ shown[i].view = vw[p] /\ all[i].written = wr[p]
  BY <1>4 DEF FirstOfReported
<1>9. ASSUME NEW i \in DOMAIN shown
      PROVE  /\ shown[i].pid = all[i].pid
             /\ PartOf(name, shown[i].view, all[i].written)
  BY <1>8
<1>10. ASSUME NEW i \in DOMAIN shown
       PROVE  /\ shown[i].pid = all[i].pid
              /\ PartOf(command'.name, shown[i].view, all[i].written)
  BY <1>3, <1>9
<1>11. { all[i].pid : i \in DOMAIN all } =
         { p \in pids' : /\ command'.filter.pid \in {-1, p}
                         /\ command'.filter.process \in {"", node'[p].process} }
  BY <1>3, <1>6
<1>12. command'.filter # [pid |-> -1, process |-> ""] \/ ~console'.notice => Len(shown) = Len(all)
  BY <1>3, <1>5
<1> QED
  <2> SUFFICES ASSUME Shows' PROVE ConsoleIsPartOfReport'
    BY DEF ConsoleIsPartOfReport
  <2>1. /\ Len(console'.nodes) <= Len(report'.nodes)
        /\ code' = 3 <=> report'.nodes = <<>>
    BY <1>1, <1>2, <1>5
  <2>2. command'.filter # [pid |-> -1, process |-> ""] \/ ~console'.notice
          => Len(console'.nodes) = Len(report'.nodes)
    BY <1>1, <1>2, <1>12
  <2>3. { report'.nodes[i].pid : i \in DOMAIN report'.nodes } =
          { p \in pids' : /\ command'.filter.pid \in {-1, p}
                          /\ command'.filter.process \in {"", node'[p].process} }
    <3>1. { report'.nodes[i].pid : i \in DOMAIN report'.nodes }
            = { all[i].pid : i \in DOMAIN all }
      BY <1>2
    <3>2. PICK A : A = { all[i].pid : i \in DOMAIN all }
      OBVIOUS
    <3>3. A = { p \in pids' : /\ command'.filter.pid \in {-1, p}
                              /\ command'.filter.process \in {"", node'[p].process} }
      BY <1>11, <3>2, Zenon
    <3> QED BY <3>1, <3>2, <3>3, Zenon
  <2>4. \A i \in DOMAIN console'.nodes :
          /\ console'.nodes[i].pid = report'.nodes[i].pid
          /\ PartOf(command'.name, console'.nodes[i].view, report'.nodes[i].written)
    BY <1>1, <1>2, <1>10
  <2> QED BY <2>1, <2>2, <2>3, <2>4, Zenon DEF ConsoleIsPartOfReport, PartOf

LEMMA CommandShows ==
    ASSUME ReadInv, NEW filter \in [pid : PidFilters, process : ProcessFilters],
           GraphCommand(filter) \/ GraphTimelineCommand(filter) \/ TimelineCommand(filter)
    PROVE  ConsoleIsPartOfReport'
<1>1. \A p \in pids : /\ ListsArePrefixes(print_graph_node(p), write_graph_json_core(p))
                      /\ IsPrefixOf(print_timeline_node(p), lists[p].timeline)
  BY ViewsArePrefixes
<1>2. CASE GraphCommand(filter)
  <2> DEFINE view == [p \in pids |-> print_graph_node(p)]
             written == [p \in pids |-> write_graph_json_core(p)]
  <2>1. Show("graph", filter, view, written)
    BY <1>2 DEF GraphCommand
  <2>2. \A p \in pids : PartOf("graph", view[p], written[p])
    BY <1>1 DEF PartOf
  <2> HIDE DEF view, written
  <2> QED BY <2>1, <2>2, ShowIsPart
<1>3. CASE GraphTimelineCommand(filter)
  <2> DEFINE view == [p \in pids |-> [ lists |-> print_graph_node(p),
                                       timeline |-> print_timeline_node(p) ]]
             written == [p \in pids |-> [ lists |-> write_graph_json_core(p),
                                          timeline |-> lists[p].timeline ]]
  <2>1. Show("graph --timeline", filter, view, written)
    BY <1>3 DEF GraphTimelineCommand
  <2>2. \A p \in pids : PartOf("graph --timeline", view[p], written[p])
    BY <1>1 DEF PartOf
  <2> HIDE DEF view, written
  <2> QED BY <2>1, <2>2, ShowIsPart
<1>4. CASE TimelineCommand(filter)
  <2> DEFINE view == [p \in pids |-> print_timeline_node(p)]
             written == [p \in pids |-> [ lists |-> write_graph_json_core(p),
                                          timeline |-> lists[p].timeline ]]
  <2>1. Show("timeline", filter, view, written)
    BY <1>4 DEF TimelineCommand
  <2>2. \A p \in pids : PartOf("timeline", view[p], written[p])
    BY <1>1 DEF PartOf
  <2> HIDE DEF view, written
  <2> QED BY <2>1, <2>2, ShowIsPart
<1> QED BY <1>2, <1>3, <1>4

ConsoleInv == Settled /\ ConsoleIsPartOfReport

LEMMA InitConsole == Init => ConsoleInv
<1> SUFFICES ASSUME Init PROVE ConsoleInv
  OBVIOUS
<1>1. command.name = ""
  BY DEF Init
<1> QED BY <1>1 DEF ConsoleInv, Settled, ConsoleIsPartOfReport, Shows

LEMMA StepConsole == ReadInv /\ ConsoleInv /\ [Next]_vars => ConsoleInv'
<1> SUFFICES ASSUME ReadInv, ConsoleInv, [Next]_vars PROVE ConsoleInv'
  OBVIOUS
<1>1. CASE Read
  <2>1. reading /\ command' = command
    BY <1>1 DEF Read, ReadNext, ReadLine, NextLine, EndOfFile, GraphEnd, outVars
  <2>2. command'.name = ""
    BY <2>1 DEF ConsoleInv, Settled
  <2> QED BY <2>2 DEF ConsoleInv, Settled, ConsoleIsPartOfReport, Shows
<1>2. ASSUME NEW filter \in [pid : PidFilters, process : ProcessFilters],
             GraphCommand(filter) \/ GraphTimelineCommand(filter) \/ TimelineCommand(filter)
      PROVE  ConsoleInv'
  <2>1. ConsoleIsPartOfReport'
    BY <1>2, CommandShows
  <2>2. ~reading'
    BY <1>2 DEF GraphCommand, GraphTimelineCommand, TimelineCommand, Show, Waiting,
                readVars, graphVars
  <2> QED BY <2>1, <2>2 DEF ConsoleInv, Settled
<1>3. ASSUME NEW a, NEW b, SimilarityCommand(a, b) PROVE ConsoleInv'
  <2>1. ~reading' /\ command'.name = "similarity"
    BY <1>3 DEF SimilarityCommand, Waiting, readVars, graphVars
  <2> QED BY <2>1 DEF ConsoleInv, Settled, ConsoleIsPartOfReport, Shows
<1>4. CASE UNCHANGED vars
  <2>1. /\ command' = command /\ console' = console /\ report' = report /\ code' = code
        /\ reading' = reading /\ pids' = pids /\ node' = node
    BY <1>4 DEF vars, outVars, readVars, graphVars
  <2>2. Settled' /\ (Shows' <=> Shows)
    BY <2>1 DEF ConsoleInv, Settled, Shows
  <2>3. ASSUME Shows' PROVE ConsoleIsPartOfReport'
    <3>1. Shows /\ ConsoleIsPartOfReport
      BY <2>2, <2>3 DEF ConsoleInv
    <3>2. /\ Len(console.nodes) <= Len(report.nodes)
          /\ code = 3 <=> report.nodes = <<>>
      BY <3>1, Zenon DEF ConsoleIsPartOfReport
    <3>3. command.filter # [pid |-> -1, process |-> ""] \/ ~console.notice
            => Len(console.nodes) = Len(report.nodes)
      BY <3>1, Zenon DEF ConsoleIsPartOfReport
    <3>4. { report.nodes[i].pid : i \in DOMAIN report.nodes } =
            { p \in pids : /\ command.filter.pid \in {-1, p}
                           /\ command.filter.process \in {"", node[p].process} }
      BY <3>1, Zenon DEF ConsoleIsPartOfReport
    <3>5. \A i \in DOMAIN console.nodes :
            /\ console.nodes[i].pid = report.nodes[i].pid
            /\ PartOf(command.name, console.nodes[i].view, report.nodes[i].written)
      BY <3>1, Zenon DEF ConsoleIsPartOfReport, PartOf
    <3>6. /\ Len(console'.nodes) <= Len(report'.nodes)
          /\ code' = 3 <=> report'.nodes = <<>>
      BY <2>1, <3>2
    <3>7. command'.filter # [pid |-> -1, process |-> ""] \/ ~console'.notice
            => Len(console'.nodes) = Len(report'.nodes)
      BY <2>1, <3>3
    <3>8. { report'.nodes[i].pid : i \in DOMAIN report'.nodes } =
            { p \in pids' : /\ command'.filter.pid \in {-1, p}
                            /\ command'.filter.process \in {"", node'[p].process} }
      <4>1. { report'.nodes[i].pid : i \in DOMAIN report'.nodes }
              = { report.nodes[i].pid : i \in DOMAIN report.nodes }
        BY <2>1
      <4>2. { p \in pids' : /\ command'.filter.pid \in {-1, p}
                            /\ command'.filter.process \in {"", node'[p].process} }
              = { p \in pids : /\ command.filter.pid \in {-1, p}
                               /\ command.filter.process \in {"", node[p].process} }
        BY <2>1, Zenon
      <4> QED BY <3>4, <4>1, <4>2
    <3>9. \A i \in DOMAIN console'.nodes :
            /\ console'.nodes[i].pid = report'.nodes[i].pid
            /\ PartOf(command'.name, console'.nodes[i].view, report'.nodes[i].written)
      BY <2>1, <3>5
    <3> QED BY <3>6, <3>7, <3>8, <3>9, Zenon DEF ConsoleIsPartOfReport, PartOf
  <2> QED BY <2>2, <2>3 DEF ConsoleInv, ConsoleIsPartOfReport
<1> QED BY <1>1, <1>2, <1>3, <1>4 DEF Next

\* What the console shows is the beginning of what the report holds, and the
\* report holds the nodes that satisfy the filter and no other
\* (run_graph_command, run_timeline_command), for every limit and filter.
THEOREM ConsoleBeginsReport == Spec => []ConsoleIsPartOfReport
<1>1. Spec => []ConsoleInv
  BY AlwaysRead, InitConsole, StepConsole, PTL DEF Spec
<1>2. ConsoleInv => ConsoleIsPartOfReport
  BY DEF ConsoleInv
<1> QED BY <1>1, <1>2, PTL

(***************************************************************************)
(* The Odd Sketch of a set of values has the bits of an odd number of them *)
(* The sketches of two sets differ by the sketch of their difference: what *)
(* both have is not seen, whatever the bits.                               *)
(***************************************************************************)
Sym(A, B) == (A \ B) \cup (B \ A)

OfBit(A, b) == { v \in A : Bit[v] = b }

Odd(n) == n % 2 = 1

Sketch(A) == { b \in Bits : Odd(Cardinality(OfBit(A, b))) }

LEMMA OddNext == ASSUME NEW n \in Nat PROVE Odd(n + 1) <=> ~Odd(n)
BY DEF Odd

LEMMA OddPrevious == ASSUME NEW n \in Nat, n > 0 PROVE Odd(n - 1) <=> ~Odd(n)
BY DEF Odd

LEMMA OddSum ==
    ASSUME NEW a \in Nat, NEW b \in Nat PROVE Odd(a + b) <=> ~(Odd(a) <=> Odd(b))
BY DEF Odd

LEMMA OddDifference ==
    ASSUME NEW a \in Nat, NEW b \in Nat, a <= b, Odd(a) <=> Odd(b) PROVE (b - a) % 2 = 0
BY DEF Odd

LEMMA DisjointCardinality ==
    ASSUME NEW A, IsFiniteSet(A), NEW B, IsFiniteSet(B), A \cap B = {}
    PROVE  /\ IsFiniteSet(A \cup B) /\ Cardinality(A) \in Nat /\ Cardinality(B) \in Nat
           /\ Cardinality(A \cup B) = Cardinality(A) + Cardinality(B)
<1>1. Cardinality(A \cap B) = 0
  BY FS_EmptySet
<1>2. Cardinality(A) \in Nat /\ Cardinality(B) \in Nat
  BY FS_CardinalityType
<1>3. /\ IsFiniteSet(A \cup B)
      /\ Cardinality(A \cup B) = Cardinality(A) + Cardinality(B) - Cardinality(A \cap B)
  BY FS_Union
<1> QED BY <1>1, <1>2, <1>3

\* A set is the part that another one has and the part that it has not.
LEMMA SplitCardinality ==
    ASSUME NEW A, IsFiniteSet(A), NEW B
    PROVE  /\ IsFiniteSet(A \ B) /\ IsFiniteSet(A \cap B)
           /\ Cardinality(A \ B) \in Nat /\ Cardinality(A \cap B) \in Nat
           /\ Cardinality(A) = Cardinality(A \ B) + Cardinality(A \cap B)
<1>1. IsFiniteSet(A \ B) /\ IsFiniteSet(A \cap B)
  BY FS_Subset
<1>2. (A \ B) \cap (A \cap B) = {} /\ (A \ B) \cup (A \cap B) = A
  OBVIOUS
<1>3. /\ Cardinality(A \ B) \in Nat /\ Cardinality(A \cap B) \in Nat
      /\ Cardinality((A \ B) \cup (A \cap B)) = Cardinality(A \ B) + Cardinality(A \cap B)
  BY <1>1, <1>2, DisjointCardinality
<1> QED BY <1>1, <1>2, <1>3

LEMMA SymCardinality ==
    ASSUME NEW A, IsFiniteSet(A), NEW B, IsFiniteSet(B)
    PROVE  /\ IsFiniteSet(Sym(A, B)) /\ Cardinality(Sym(A, B)) \in Nat
           /\ Cardinality(Sym(A, B)) = Cardinality(A \ B) + Cardinality(B \ A)
           /\ Cardinality(Sym(A, B)) <= Cardinality(A) + Cardinality(B)
           /\ Odd(Cardinality(Sym(A, B))) <=> Odd(Cardinality(A) + Cardinality(B))
<1>1. PICK a, b, c : a = Cardinality(A \ B) /\ b = Cardinality(B \ A) /\ c = Cardinality(A \cap B)
  OBVIOUS
<1>2. IsFiniteSet(A \ B) /\ a \in Nat /\ c \in Nat /\ Cardinality(A) = a + c
  BY <1>1, SplitCardinality
<1>3. IsFiniteSet(B \ A) /\ b \in Nat /\ Cardinality(B) = b + c
  <2>1. B \cap A = A \cap B
    OBVIOUS
  <2>2. /\ IsFiniteSet(B \ A) /\ Cardinality(B \ A) \in Nat
        /\ Cardinality(B) = Cardinality(B \ A) + Cardinality(B \cap A)
    BY SplitCardinality
  <2> QED BY <1>1, <2>1, <2>2
<1>4. IsFiniteSet(Sym(A, B)) /\ Cardinality(Sym(A, B)) = a + b
  <2>1. (A \ B) \cap (B \ A) = {}
    OBVIOUS
  <2> QED BY <1>1, <1>2, <1>3, <2>1, DisjointCardinality DEF Sym
<1>5. Odd(a + b) <=> Odd((a + c) + (b + c))
  BY <1>2, <1>3 DEF Odd
<1>6. a + b <= (a + c) + (b + c) /\ a + b \in Nat
  BY <1>2, <1>3
<1> QED BY <1>1, <1>2, <1>3, <1>4, <1>5, <1>6

LEMMA SketchAdd ==
    ASSUME NEW A, A \subseteq Text, IsFiniteSet(A), NEW v \in Text, v \notin A
    PROVE  Sketch(A \cup {v}) = odd_sketch_add(Sketch(A), v)
<1>1. Bit[v] \in Bits
  BY BitAssumption
<1>2. ASSUME NEW b \in Bits
      PROVE  Odd(Cardinality(OfBit(A \cup {v}, b)))
               <=> IF b = Bit[v] THEN ~Odd(Cardinality(OfBit(A, b)))
                                 ELSE Odd(Cardinality(OfBit(A, b)))
  <2>1. CASE b = Bit[v]
    <3>1. OfBit(A \cup {v}, b) = OfBit(A, b) \cup {v} /\ v \notin OfBit(A, b)
      BY <2>1 DEF OfBit
    <3>2. IsFiniteSet(OfBit(A, b))
      BY FS_Subset DEF OfBit
    <3>3. Cardinality(OfBit(A, b)) \in Nat
      BY <3>2, FS_CardinalityType
    <3>4. Cardinality(OfBit(A \cup {v}, b)) = Cardinality(OfBit(A, b)) + 1
      BY <3>1, <3>2, FS_AddElement
    <3> QED BY <2>1, <3>3, <3>4, OddNext
  <2>2. CASE b # Bit[v]
    <3>1. OfBit(A \cup {v}, b) = OfBit(A, b)
      BY <2>2 DEF OfBit
    <3> QED BY <2>2, <3>1
  <2> QED BY <2>1, <2>2
<1>3. \A b \in Bits : b \in Sketch(A \cup {v}) <=> IF b = Bit[v] THEN b \notin Sketch(A)
                                                                ELSE b \in Sketch(A)
  BY <1>2 DEF Sketch
<1>4. Sketch(A) \subseteq Bits /\ Sketch(A \cup {v}) \subseteq Bits
  BY DEF Sketch
<1> QED BY <1>1, <1>3, <1>4 DEF odd_sketch_add

LEMMA SketchOfDifference ==
    ASSUME NEW A, IsFiniteSet(A), NEW B, IsFiniteSet(B)
    PROVE  Sym(Sketch(A), Sketch(B)) = Sketch(Sym(A, B))
<1> SUFFICES ASSUME NEW b \in Bits
             PROVE  Odd(Cardinality(OfBit(Sym(A, B), b)))
                      <=> ~ (Odd(Cardinality(OfBit(A, b))) <=> Odd(Cardinality(OfBit(B, b))))
  BY DEF Sketch, Sym
<1> DEFINE X == OfBit(A, b)
           Y == OfBit(B, b)
<1>1. IsFiniteSet(X) /\ IsFiniteSet(Y)
  BY FS_Subset DEF OfBit
<1>2. OfBit(Sym(A, B), b) = Sym(X, Y)
  BY DEF OfBit, Sym
<1> HIDE DEF X, Y
<1>3. Odd(Cardinality(Sym(X, Y))) <=> Odd(Cardinality(X) + Cardinality(Y))
  BY <1>1, SymCardinality
<1>4. Cardinality(X) \in Nat /\ Cardinality(Y) \in Nat
  BY <1>1, FS_CardinalityType
<1> QED BY <1>2, <1>3, <1>4, OddSum DEF X, Y

LEMMA SketchOfNone == Sketch({}) = {}
<1>1. \A b : Cardinality(OfBit({}, b)) = 0
  BY FS_EmptySet DEF OfBit
<1> QED BY <1>1 DEF Sketch, Odd

\* A sketch has at most one bit for each value, and misses them in pairs.
LEMMA SketchIsSmaller ==
    ASSUME NEW A, A \subseteq Text, IsFiniteSet(A)
    PROVE  /\ IsFiniteSet(Sketch(A)) /\ Cardinality(Sketch(A)) <= Cardinality(A)
           /\ Odd(Cardinality(Sketch(A))) <=> Odd(Cardinality(A))
<1> DEFINE Good(T) == /\ Cardinality(Sketch(T)) <= Cardinality(T)
                      /\ Odd(Cardinality(Sketch(T))) <=> Odd(Cardinality(T))
           B == { T \in SUBSET A : ~Good(T) }
<1>1. ASSUME NEW T \in SUBSET A
      PROVE  /\ IsFiniteSet(Sketch(T)) /\ Cardinality(Sketch(T)) \in Nat
             /\ IsFiniteSet(T) /\ Cardinality(T) \in Nat
  <2>1. IsFiniteSet(T) /\ IsFiniteSet(Sketch(T))
    BY BitAssumption, FS_Subset DEF Sketch
  <2> QED BY <2>1, FS_CardinalityType
<1>2. B = {}
  <2> SUFFICES ASSUME B # {} PROVE FALSE
    OBVIOUS
  <2>1. PICK T \in B : \A V \in B : V \subseteq T => V = T
    <3>1. B \subseteq SUBSET A
      OBVIOUS
    <3> HIDE DEF B
    <3> QED BY <3>1, SmallestSet
  <2>2. T \in SUBSET A /\ ~Good(T)
    OBVIOUS
  <2>3. T # {}
    <3>1. Good({})
      BY SketchOfNone, FS_EmptySet
    <3> HIDE DEF Good
    <3> QED BY <2>2, <3>1
  <2>4. PICK v \in T : TRUE
    BY <2>3
  <2>5. PICK W : W = T \ {v}
    OBVIOUS
  <2>6. W \in SUBSET A /\ W # T /\ W \subseteq T /\ v \notin W /\ T = W \cup {v} /\ v \in Text
    BY <2>2, <2>4, <2>5
  <2>7. Good(W)
    BY <2>1, <2>6
  <2>8. Sketch(T) = odd_sketch_add(Sketch(W), v)
    BY <1>1, <2>6, SketchAdd
  <2>9. PICK n, m : n = Cardinality(W) /\ m = Cardinality(Sketch(W))
    OBVIOUS
  <2>10. n \in Nat /\ m \in Nat /\ m <= n /\ (Odd(m) <=> Odd(n)) /\ IsFiniteSet(Sketch(W))
    BY <1>1, <2>6, <2>7, <2>9
  <2>11. Cardinality(T) = n + 1
    BY <1>1, <2>6, <2>9, FS_AddElement
  <2> HIDE DEF B, Good
  <2>12. CASE Bit[v] \in Sketch(W)
    <3>1. Cardinality(Sketch(T)) = m - 1 /\ m > 0
      <4>1. Sketch(T) = Sketch(W) \ {Bit[v]}
        BY <2>8, <2>12 DEF odd_sketch_add
      <4>2. Sketch(W) # {}
        BY <2>12
      <4>3. Cardinality(Sketch(T)) = Cardinality(Sketch(W)) - 1
        BY <2>10, <2>12, <4>1, FS_RemoveElement
      <4>4. m # 0
        BY <2>9, <2>10, <4>2, FS_EmptySet
      <4> QED BY <2>9, <2>10, <4>3, <4>4
    <3>2. Odd(m - 1) <=> Odd(n + 1)
      BY <2>10, <3>1, OddNext, OddPrevious
    <3>3. Good(T)
      BY <2>10, <2>11, <3>1, <3>2 DEF Good
    <3> QED BY <2>2, <3>3
  <2>13. CASE Bit[v] \notin Sketch(W)
    <3>1. Cardinality(Sketch(T)) = m + 1
      <4>1. Sketch(T) = Sketch(W) \cup {Bit[v]}
        BY <2>8, <2>13 DEF odd_sketch_add
      <4> QED BY <2>9, <2>10, <2>13, <4>1, FS_AddElement
    <3>2. Odd(m + 1) <=> Odd(n + 1)
      BY <2>10, OddNext
    <3>3. Good(T)
      BY <2>10, <2>11, <3>1, <3>2 DEF Good
    <3> QED BY <2>2, <3>3
  <2> QED BY <2>12, <2>13
<1>3. A \notin B /\ A \in SUBSET A
  BY <1>2
<1> QED BY <1>1, <1>3

\* Adding the values of a list to a sketch, one after the other.
LEMMA SketchRun ==
    ASSUME NEW c, NEW V, Counts(c, V), NEW h, NEW X, NEW o \in Nat, h[o] = X,
           \A k \in 1..Len(c) : h[o + k] = odd_sketch_add(h[o + (k - 1)], c[k])
    PROVE  h[o + Len(c)] = Sym(X, Sketch(V))
<1> DEFINE first(k) == { c[i] : i \in 1..k }
<1>1. PICK n \in Nat : n = Len(c) /\ DOMAIN c = 1..n
  BY DEF Counts, IsTexts
<1>2. /\ \A k \in 1..n : c[k] \in Text
      /\ \A j, k \in 1..n : c[j] = c[k] => j = k
      /\ V = first(n) /\ IsFiniteSet(V)
  <2>1. c \in Seq(Text) /\ V = ToSet(c) /\ IsFiniteSet(V)
        /\ \A j, k \in DOMAIN c : c[j] = c[k] => j = k
    BY DEF Counts, IsTexts
  <2>2. V = first(n)
    BY <1>1, <2>1 DEF ToSet
  <2>3. \A k \in 1..n : c[k] \in Text
    BY <1>1, <2>1
  <2> QED BY <1>1, <2>1, <2>2, <2>3, Zenon
<1>3. \A k \in 1..n : h[o + k] = odd_sketch_add(h[o + (k - 1)], c[k])
  BY <1>1
<1> DEFINE bad == { k \in 0..n : h[o + k] # Sym(X, Sketch(first(k))) }
<1>4. bad = {}
  <2> SUFFICES ASSUME bad # {} PROVE FALSE
    OBVIOUS
  <2>1. PICK k \in bad : \A m \in bad : k <= m
    <3>1. bad \subseteq Nat
      OBVIOUS
    <3> HIDE DEF bad
    <3>2. Min(bad) \in bad /\ \A m \in bad : Min(bad) <= m
      BY <3>1, MinExists
    <3> QED BY <3>2
  <2>2. k \in 0..n /\ h[o + k] # Sym(X, Sketch(first(k)))
    OBVIOUS
  <2>3. k # 0
    <3>1. first(0) = {} /\ o + 0 = o
      OBVIOUS
    <3>2. Sym(X, {}) = X
      BY DEF Sym
    <3> QED BY <2>2, <3>1, <3>2, SketchOfNone
  <2>4. k \in 1..n /\ k - 1 \in 0..n /\ k - 1 \notin bad
    <3>1. k \in 1..n /\ k - 1 \in 0..n /\ ~ (k <= k - 1)
      BY <2>2, <2>3
    <3> HIDE DEF bad
    <3> QED BY <2>1, <3>1
  <2>5. PICK A : A = first(k - 1)
    OBVIOUS
  <2>6. h[o + (k - 1)] = Sym(X, Sketch(A))
    BY <2>4, <2>5
  <2>7. PICK v : v = c[k]
    OBVIOUS
  <2>8. v \in Text /\ v \notin A /\ first(k) = A \cup {v} /\ A \subseteq Text /\ A \subseteq V
    <3>1. \A i \in 1..(k - 1) : i \in 1..n /\ i # k
      BY <2>4
    <3>2. 1..k = (1..(k - 1)) \cup {k}
      BY <2>4
    <3> QED BY <1>2, <2>4, <2>5, <2>7, <3>1, <3>2
  <2>9. IsFiniteSet(A)
    BY <1>2, <2>8, FS_Subset
  <2>10. Sketch(first(k)) = odd_sketch_add(Sketch(A), v)
    BY <2>8, <2>9, SketchAdd
  <2>11. h[o + k] = odd_sketch_add(Sym(X, Sketch(A)), v)
    BY <1>3, <2>4, <2>6, <2>7
  <2>12. odd_sketch_add(Sym(X, Sketch(A)), v) = Sym(X, odd_sketch_add(Sketch(A), v))
    BY DEF odd_sketch_add, Sym
  <2> QED BY <2>2, <2>10, <2>11, <2>12
<1>5. n \in 0..n
  OBVIOUS
<1>6. h[o + n] = Sym(X, Sketch(first(n)))
  BY <1>4, <1>5
<1> QED BY <1>1, <1>2, <1>6

LEMMA SketchOfLists ==
    ASSUME NEW a, NEW A, Counts(a, A), NEW b, NEW B, Counts(b, B), NEW no
    PROVE  Fold(TheFold("sketch", no, {}, a \o b)) = Sym(Sketch(A), Sketch(B))
<1> DEFINE f == TheFold("sketch", no, {}, a \o b)
<1>1. PICK na \in Nat, nb \in Nat : na = Len(a) /\ nb = Len(b)
  BY DEF Counts, IsTexts
<1>2. a \in Seq(Text) /\ b \in Seq(Text)
  BY DEF Counts, IsTexts
<1>3. PICK seq : seq = a \o b
  OBVIOUS
<1>4. /\ na + nb \in Nat /\ Len(seq) = na + nb /\ DOMAIN seq = 1..(na + nb)
      /\ \A i \in 1..na : seq[i] = a[i]
      /\ \A i \in 1..nb : seq[na + i] = b[i]
  BY <1>1, <1>2, <1>3
<1>5. f.seq = seq /\ f.base = {} /\ f.of = "sketch"
  BY <1>3 DEF TheFold
<1> HIDE DEF f
<1>6. PICK h : Steps(h, f) /\ Fold(f) = h[na + nb]
  BY <1>4, <1>5, FoldSteps
<1>7. h[0] = {} /\ \A k \in 1..(na + nb) : h[k] = odd_sketch_add(h[k - 1], seq[k])
  BY <1>4, <1>5, <1>6 DEF Steps, Folded
<1>8. h[na] = Sketch(A)
  <2>1. 0 \in Nat /\ \A k \in 1..Len(a) : h[0 + k] = odd_sketch_add(h[0 + (k - 1)], a[k])
    <3> SUFFICES ASSUME NEW k \in 1..Len(a)
                 PROVE  h[0 + k] = odd_sketch_add(h[0 + (k - 1)], a[k])
      OBVIOUS
    <3>1. k \in 1..na /\ k \in 1..(na + nb) /\ 0 + k = k /\ 0 + (k - 1) = k - 1
      BY <1>1
    <3> QED BY <1>4, <1>7, <3>1
  <2>2. h[0 + Len(a)] = Sym({}, Sketch(A))
    <3>1. PICK o, X : o \in Nat /\ o = 0 /\ X = {}
      OBVIOUS
    <3>2. o \in Nat /\ h[o] = X /\ \A k \in 1..Len(a) : h[o + k] = odd_sketch_add(h[o + (k - 1)], a[k])
      BY <1>7, <2>1, <3>1
    <3>3. h[o + Len(a)] = Sym(X, Sketch(A))
      BY <3>2, SketchRun
    <3> QED BY <3>1, <3>3
  <2>3. Sym({}, Sketch(A)) = Sketch(A)
    BY DEF Sym
  <2> QED BY <1>1, <2>2, <2>3
<1>9. h[na + Len(b)] = Sym(Sketch(A), Sketch(B))
  <2>1. ASSUME NEW k \in 1..Len(b) PROVE h[na + k] = odd_sketch_add(h[na + (k - 1)], b[k])
    <3>1. k \in 1..nb /\ na + k \in 1..(na + nb) /\ na + (k - 1) = (na + k) - 1
      BY <1>1
    <3> QED BY <1>4, <1>7, <3>1
  <2> QED BY <1>8, <2>1, SketchRun
<1> QED BY <1>1, <1>6, <1>9 DEF f

LEMMA NodeRelations ==
    ASSUME ReadInv, NEW p \in pids
    PROVE  /\ Counts(lists[p].files, ToSet(lists[p].files))
           /\ Counts(lists[p].destinations, ToSet(lists[p].destinations))
<1>1. ListsTell(p) /\ NodeTells(p)
  BY DEF ReadInv, GraphInv, OrderInv, ToSet
<1> QED BY <1>1 DEF ListsTell, NodeTells, Counts

LEMMA DistanceOfNodes ==
    ASSUME ReadInv, NEW p \in pids, NEW q \in pids, NEW c, c = Comparison(p, q)
    PROVE  c.hamming <= c.uni - c.inter /\ (c.uni - c.inter - c.hamming) % 2 = 0
<1>1. PICK F, G, D, E : /\ F = ToSet(lists[p].files) /\ G = ToSet(lists[q].files)
                        /\ D = ToSet(lists[p].destinations)
                        /\ E = ToSet(lists[q].destinations)
  OBVIOUS
<1>2. /\ Counts(lists[p].files, F) /\ Counts(lists[q].files, G)
      /\ Counts(lists[p].destinations, D) /\ Counts(lists[q].destinations, E)
  BY <1>1, NodeRelations
<1>3. /\ IsFiniteSet(F) /\ IsFiniteSet(G) /\ IsFiniteSet(D) /\ IsFiniteSet(E)
      /\ Len(lists[p].files) = Cardinality(F)
      /\ Len(lists[p].destinations) = Cardinality(D)
  BY <1>2 DEF Counts
<1>4. F \subseteq Text /\ G \subseteq Text /\ D \subseteq Text /\ E \subseteq Text
  <2>1. ASSUME NEW list, NEW S, Counts(list, S) PROVE S \subseteq Text
    BY <2>1 DEF Counts, IsTexts, ToSet
  <2> QED BY <1>2, <2>1
<1>5. PICK ff, dd : ff = Sym(F, G) /\ dd = Sym(D, E)
  OBVIOUS
<1>6. c.uni - c.inter = Cardinality(ff) + Cardinality(dd)
  <2>1. /\ c.inter = Cardinality(F \cap G) + Cardinality(D \cap E)
        /\ c.uni = Cardinality(F) + Cardinality(D) + Cardinality(G \ F) + Cardinality(E \ D)
    BY <1>1, <1>3 DEF Comparison, inter, uni
  <2>2. /\ Cardinality(F \ G) \in Nat /\ Cardinality(F \cap G) \in Nat
        /\ Cardinality(F) = Cardinality(F \ G) + Cardinality(F \cap G)
    BY <1>3, SplitCardinality
  <2>3. /\ Cardinality(D \ E) \in Nat /\ Cardinality(D \cap E) \in Nat
        /\ Cardinality(D) = Cardinality(D \ E) + Cardinality(D \cap E)
    BY <1>3, SplitCardinality
  <2>4. Cardinality(G \ F) \in Nat /\ Cardinality(E \ D) \in Nat
    BY <1>3, SplitCardinality
  <2>5. /\ Cardinality(ff) = Cardinality(F \ G) + Cardinality(G \ F)
        /\ Cardinality(dd) = Cardinality(D \ E) + Cardinality(E \ D)
    BY <1>3, <1>5, SymCardinality
  <2> QED BY <2>1, <2>2, <2>3, <2>4, <2>5
<1>7. c.hamming = Cardinality(Sym(Sketch(ff), Sketch(dd)))
  <2>1. /\ odd_sketch_from_node(p) = Sym(Sketch(F), Sketch(D))
        /\ odd_sketch_from_node(q) = Sym(Sketch(G), Sketch(E))
    <3>1. PICK no : no = 0
      OBVIOUS
    <3>2. /\ Fold(TheFold("sketch", no, {}, lists[p].files \o lists[p].destinations))
               = Sym(Sketch(F), Sketch(D))
          /\ Fold(TheFold("sketch", no, {}, lists[q].files \o lists[q].destinations))
               = Sym(Sketch(G), Sketch(E))
      BY <1>2, SketchOfLists
    <3> QED BY <3>2, SketchIsFold
  <2>2. Sym(Sym(Sketch(F), Sketch(D)), Sym(Sketch(G), Sketch(E)))
          = Sym(Sym(Sketch(F), Sketch(G)), Sym(Sketch(D), Sketch(E)))
    BY DEF Sym
  <2>3. Sym(Sketch(F), Sketch(G)) = Sketch(ff) /\ Sym(Sketch(D), Sketch(E)) = Sketch(dd)
    BY <1>3, <1>5, SketchOfDifference
  <2>4. c.hamming = Cardinality(Sym(odd_sketch_from_node(p), odd_sketch_from_node(q)))
    BY DEF Comparison, odd_sketch_hamming, Sym
  <2> QED BY <2>1, <2>2, <2>3, <2>4
<1>8. /\ IsFiniteSet(ff) /\ IsFiniteSet(dd) /\ ff \subseteq Text /\ dd \subseteq Text
      /\ Cardinality(ff) \in Nat /\ Cardinality(dd) \in Nat
  <2>1. /\ IsFiniteSet(ff) /\ IsFiniteSet(dd)
        /\ Cardinality(ff) \in Nat /\ Cardinality(dd) \in Nat
    BY <1>3, <1>5, SymCardinality
  <2> QED BY <1>4, <1>5, <2>1 DEF Sym
<1>9. /\ IsFiniteSet(Sketch(ff)) /\ Cardinality(Sketch(ff)) <= Cardinality(ff)
      /\ Odd(Cardinality(Sketch(ff))) <=> Odd(Cardinality(ff))
  BY <1>8, SketchIsSmaller
<1>10. /\ IsFiniteSet(Sketch(dd)) /\ Cardinality(Sketch(dd)) <= Cardinality(dd)
       /\ Odd(Cardinality(Sketch(dd))) <=> Odd(Cardinality(dd))
  BY <1>8, SketchIsSmaller
<1>11. PICK x, y, m, n : /\ x = Cardinality(Sketch(ff)) /\ y = Cardinality(Sketch(dd))
                         /\ m = Cardinality(ff) /\ n = Cardinality(dd)
  OBVIOUS
<1>12. /\ x \in Nat /\ y \in Nat /\ m \in Nat /\ n \in Nat /\ x <= m /\ y <= n
       /\ (Odd(x) <=> Odd(m)) /\ (Odd(y) <=> Odd(n))
  BY <1>8, <1>9, <1>10, <1>11, FS_CardinalityType
<1>13. PICK d : d = Cardinality(Sym(Sketch(ff), Sketch(dd)))
  OBVIOUS
<1>14. d \in Nat /\ d <= x + y /\ (Odd(d) <=> Odd(x + y))
  BY <1>9, <1>10, <1>11, <1>13, SymCardinality
<1>15. Odd(d) <=> Odd(m + n)
  BY <1>12, <1>14, OddSum
<1>16. d <= m + n /\ m + n \in Nat
  BY <1>12, <1>14
<1>17. ((m + n) - d) % 2 = 0
  BY <1>14, <1>15, <1>16, OddDifference
<1> QED BY <1>6, <1>7, <1>11, <1>13, <1>16, <1>17

\* The node found for a name is the first of that name.
LEMMA FoundIsFirst ==
    ASSUME ReadInv, NEW name, Found(name) # {}, NEW q, q = find_first_process_node(name)
    PROVE  /\ q \in pids
           /\ \A p \in pids : node[p].process = name => Min(OfPid(q)) <= Min(OfPid(p))
<1>1. PICK i \in Found(name) : q = order[i]
  BY DEF find_first_process_node
<1>2. /\ order \in Seq(Pids) /\ ToSet(order) = pids
      /\ \A j, k \in DOMAIN order : j < k => First[order[j]] < First[order[k]]
  BY DEF ReadInv, GraphInv, OrderInv
<1>3. i \in DOMAIN order /\ \A j \in DOMAIN order : node[order[j]].process = name => i <= j
  BY <1>1 DEF Found
<1>4. \A j \in DOMAIN order : order[j] \in Pids /\ j \in Nat
  BY <1>2
<1>5. ASSUME NEW p \in pids, node[p].process = name PROVE Min(OfPid(q)) <= Min(OfPid(p))
  <2>1. PICK j \in DOMAIN order : p = order[j]
    BY <1>2 DEF ToSet
  <2>2. i <= j
    BY <1>3, <1>5, <2>1
  <2>3. CASE i = j
    <3>1. PICK m : m = Min(OfPid(p))
      OBVIOUS
    <3>2. m \in Nat
      <4>1. OfPid(p) \subseteq Nat
        BY EventsOfPid DEF ReadInv
      <4>2. OfPid(p) # {}
        BY <1>4, <1>5, <2>1 DEF ReadInv, GraphInv, NodeTells
      <4> QED BY <3>1, <4>1, <4>2, MinExists
    <3> QED BY <1>1, <2>1, <2>3, <3>1, <3>2
  <2>4. CASE i < j
    <3>1. First[q] < First[p]
      BY <1>1, <1>2, <1>3, <2>1, <2>4
    <3>2. q \in Pids /\ p \in Pids
      BY <1>1, <1>3, <1>4, <2>1
    <3>3. First[q] \in Nat /\ First[p] \in Nat
      <4>1. ASSUME NEW r \in Pids, r \in pids PROVE First[r] \in Nat
        <5>1. OfPid(r) \subseteq Nat
          BY EventsOfPid DEF ReadInv
        <5>2. OfPid(r) # {}
          BY <4>1 DEF ReadInv, GraphInv, NodeTells
        <5>3. Min(OfPid(r)) \in OfPid(r)
          BY <5>1, <5>2, MinExists
        <5> QED BY <5>1, <5>3 DEF First
      <4>2. q \in pids
        BY <1>1, <1>2, <1>3 DEF ToSet
      <4> QED BY <1>5, <3>2, <4>1, <4>2
    <3>4. First[q] <= First[p]
      BY <3>1, <3>3
    <3> QED BY <3>2, <3>4 DEF First
  <2> QED BY <1>3, <1>4, <2>1, <2>2, <2>3, <2>4
<1> QED BY <1>1, <1>2, <1>3, <1>5 DEF ToSet

LEMMA SimilarityTells ==
    ASSUME ReadInv, NEW a, NEW b, SimilarityCommand(a, b)
    PROVE  DistanceTellsTheDifference'
<1>1. pids' = pids /\ node' = node /\ command'.a = a /\ command'.b = b
  BY DEF SimilarityCommand, readVars, graphVars
<1>2. \A p : OfPid(p)' = OfPid(p)
  <2>1. file' = file /\ pos' = pos
    BY DEF SimilarityCommand, readVars
  <2> QED BY <2>1, SamePosition
<1> SUFFICES ASSUME code' = 0 PROVE DistanceTellsTheDifference'
  BY DEF DistanceTellsTheDifference
<1>3. PICK p, q : p = find_first_process_node(a) /\ q = find_first_process_node(b)
  OBVIOUS
<1>4. Found(a) # {} /\ Found(b) # {} /\ report'.compared = Comparison(p, q)
  BY <1>3 DEF SimilarityCommand
<1>5. PICK c : c = report'.compared
  OBVIOUS
<1>6. c.a = p /\ c.b = q
  BY <1>4, <1>5 DEF Comparison
<1>7. p \in pids /\ \A r \in pids : node[r].process = a => Min(OfPid(p)) <= Min(OfPid(r))
  BY <1>3, <1>4, FoundIsFirst
<1>8. q \in pids /\ \A r \in pids : node[r].process = b => Min(OfPid(q)) <= Min(OfPid(r))
  BY <1>3, <1>4, FoundIsFirst
<1>9. c.hamming <= c.uni - c.inter /\ (c.uni - c.inter - c.hamming) % 2 = 0
  BY <1>4, <1>5, <1>7, <1>8, DistanceOfNodes
<1> QED BY <1>1, <1>2, <1>5, <1>6, <1>7, <1>8, <1>9 DEF DistanceTellsTheDifference

LEMMA StepDistance ==
    ReadInv /\ ConsoleInv /\ DistanceTellsTheDifference /\ [Next]_vars => DistanceTellsTheDifference'
<1> SUFFICES ASSUME ReadInv, ConsoleInv, DistanceTellsTheDifference, [Next]_vars
             PROVE  DistanceTellsTheDifference'
  OBVIOUS
<1>1. CASE Read
  <2>1. reading /\ command' = command
    BY <1>1 DEF Read, ReadNext, ReadLine, NextLine, EndOfFile, GraphEnd, outVars
  <2>2. command'.name = ""
    BY <2>1 DEF ConsoleInv, Settled
  <2> QED BY <2>2 DEF DistanceTellsTheDifference
<1>2. ASSUME NEW filter \in [pid : PidFilters, process : ProcessFilters],
             GraphCommand(filter) \/ GraphTimelineCommand(filter) \/ TimelineCommand(filter)
      PROVE  DistanceTellsTheDifference'
  <2>1. ASSUME NEW name, NEW view, NEW written, Show(name, filter, view, written)
        PROVE  command'.name = name
    BY <2>1, Zenon DEF Show
  <2>2. \/ command'.name = "graph" \/ command'.name = "graph --timeline"
        \/ command'.name = "timeline"
    BY <1>2, <2>1, Zenon DEF GraphCommand, GraphTimelineCommand, TimelineCommand
  <2> QED BY <2>2 DEF DistanceTellsTheDifference
<1>3. ASSUME NEW a, NEW b, SimilarityCommand(a, b) PROVE DistanceTellsTheDifference'
  BY <1>3, SimilarityTells
<1>4. CASE UNCHANGED vars
  <2>1. /\ command' = command /\ report' = report /\ code' = code
        /\ pids' = pids /\ node' = node /\ file' = file /\ pos' = pos
    BY <1>4 DEF vars, outVars, readVars, graphVars
  <2>2. \A p : OfPid(p)' = OfPid(p)
    BY <2>1, SamePosition
  <2> SUFFICES ASSUME command'.name = "similarity", code' = 0
               PROVE  DistanceTellsTheDifference'
    BY DEF DistanceTellsTheDifference
  <2>3. command.name = "similarity" /\ code = 0
    BY <2>1
  <2>4. PICK c : c = report.compared
    OBVIOUS
  <2>5. /\ c.hamming <= c.uni - c.inter /\ (c.uni - c.inter - c.hamming) % 2 = 0
        /\ \A p \in pids : node[p].process = command.a => Min(OfPid(c.a)) <= Min(OfPid(p))
        /\ \A p \in pids : node[p].process = command.b => Min(OfPid(c.b)) <= Min(OfPid(p))
    BY <2>3, <2>4 DEF DistanceTellsTheDifference
  <2>6. report'.compared = c
    BY <2>1, <2>4
  <2> QED BY <2>1, <2>2, <2>5, <2>6 DEF DistanceTellsTheDifference
<1> QED BY <1>1, <1>2, <1>3, <1>4 DEF Next

(***************************************************************************)
(* agfast similarity reports no more difference than there is between the  *)
(* first processes of the two names, and the right parity, for every set   *)
(* of bits of the sketch and every way the values fall on them.            *)
(***************************************************************************)
THEOREM DistanceIsADifference == Spec => []DistanceTellsTheDifference
<1>1. Init => DistanceTellsTheDifference
  <2> SUFFICES ASSUME Init PROVE command.name = ""
    BY DEF DistanceTellsTheDifference
  <2> QED BY DEF Init
<1>2. Spec => []ConsoleInv
  BY AlwaysRead, InitConsole, StepConsole, PTL DEF Spec
<1> QED BY <1>1, <1>2, AlwaysRead, StepDistance, PTL DEF Spec

-----------------------------------------------------------------------------
(***************************************************************************)
(* What the parser makes of a line.  A key is found where the line has it, *)
(* when no value is spelled like it.                                       *)
(***************************************************************************)
LEMMA ValueFound ==
    ASSUME NEW pairs, DOMAIN pairs \subseteq Nat, NEW key,
           \A k \in DOMAIN pairs : ~pairs[k].quoted \/ pairs[k].value # key
    PROVE  json_get_string(pairs, key) = ValueOf(pairs, key)
<1> DEFINE keys == { i \in DOMAIN pairs : pairs[i].key = key }
<1>1. Mentions(pairs, key) = keys
  BY DEF Mentions
<1>2. CASE keys = {}
  <2>1. Located(pairs, key) = {}
    BY <1>1, <1>2 DEF Located
  <2> QED BY <1>2, <2>1 DEF json_get_string, ValueOf
<1>3. CASE keys # {}
  <2>1. PICK m \in keys : m = Min(keys) /\ \A i \in keys : m <= i
    <3>1. keys \subseteq Nat
      OBVIOUS
    <3> HIDE DEF keys
    <3> QED BY <1>3, <3>1, MinExists
  <2>2. { j \in keys : \A k \in keys : j <= k } = {m}
    <3>1. \A i \in keys : i \in Nat
      OBVIOUS
    <3> HIDE DEF keys
    <3> QED BY <2>1, <3>1
  <2>3. Located(pairs, key) = {m}
    BY <1>1, <2>2 DEF Located
  <2>4. json_get_string(pairs, key) = IF pairs[m].quoted THEN pairs[m].value ELSE ""
    <3>1. CASE pairs[m].quoted
      <4>1. { i \in Located(pairs, key) : pairs[i].quoted } = {m}
        BY <2>3, <3>1
      <4>2. (CHOOSE i \in {m} : TRUE) = m
        OBVIOUS
      <4>3. PICK strings : strings = { i \in Located(pairs, key) : pairs[i].quoted }
        OBVIOUS
      <4>4. json_get_string(pairs, key)
              = IF strings = {} THEN "" ELSE pairs[CHOOSE i \in strings : TRUE].value
        BY <4>3 DEF json_get_string
      <4>5. strings = {m} /\ strings # {}
        BY <4>1, <4>3
      <4> QED BY <3>1, <4>2, <4>4, <4>5
    <3>2. CASE ~pairs[m].quoted
      BY <2>3, <3>2 DEF json_get_string
    <3> QED BY <3>1, <3>2
  <2> QED BY <1>3, <2>1, <2>4 DEF ValueOf
<1> QED BY <1>2, <1>3

(***************************************************************************)
(* The row of cells.  Between two parts of the row, the reader is inside a *)
(* quoted cell exactly when the quotes so far are odd in number, and has a *)
(* cell for every separator.                                               *)
(***************************************************************************)
IsCsv(s) == s = [mode |-> s.mode, cell |-> s.cell, cells |-> s.cells]

LEMMA QuoteStep ==
    ASSUME NEW s, IsCsv(s), NEW r, r = CsvStep(s, Q),
           s.mode \in {"start", "quoted", "quote"}
    PROVE  /\ IsCsv(r) /\ r.cells = s.cells
           /\ s.mode = "quoted" => r.mode = "quote"
           /\ s.mode # "quoted" => r.mode = "quoted"
BY DEF CsvStep, IsCsv

LEMMA CommaStep ==
    ASSUME NEW s, IsCsv(s), NEW r, r = CsvStep(s, C)
    PROVE  /\ IsCsv(r)
           /\ s.mode = "quoted" => r.mode = "quoted" /\ r.cells = s.cells
           /\ s.mode # "quoted" => r.mode = "start" /\ r.cells = Append(s.cells, s.cell)
BY DEF CsvStep, IsCsv, Q, C

LEMMA OtherStep ==
    ASSUME NEW s, IsCsv(s), NEW token, token \notin {Q, C}, NEW r, r = CsvStep(s, token),
           s.mode \in {"start", "plain", "quoted"}
    PROVE  /\ IsCsv(r) /\ r.cells = s.cells
           /\ r.mode = IF s.mode = "start" THEN "plain" ELSE s.mode
BY DEF CsvStep, IsCsv

LEMMA QuotesAdd ==
    ASSUME NEW t, NEW k \in Nat, k >= 1
    PROVE  /\ QuotesBefore(t, 1) = 0 /\ QuotesBefore(t, k) \in Nat
           /\ t[k] = Q => QuotesBefore(t, k + 1) = QuotesBefore(t, k) + 1
           /\ t[k] # Q => QuotesBefore(t, k + 1) = QuotesBefore(t, k)
<1> DEFINE at(i) == { j \in 1..(i - 1) : t[j] = Q }
<1>1. at(1) = {}
  OBVIOUS
<1>2. IsFiniteSet(at(k))
  <2>1. IsFiniteSet(1..(k - 1))
    BY FS_Interval
  <2> QED BY <2>1, FS_Subset
<1>3. k \notin at(k) /\ at(k + 1) = IF t[k] = Q THEN at(k) \cup {k} ELSE at(k)
  OBVIOUS
<1>4. \A i : QuotesBefore(t, i) = Cardinality(at(i))
  BY DEF QuotesBefore
<1> HIDE DEF at
<1>5. Cardinality(at(k)) \in Nat /\ Cardinality(at(k) \cup {k}) = Cardinality(at(k)) + 1
  BY <1>2, <1>3, FS_AddElement, FS_CardinalityType
<1>6. Cardinality({}) = 0
  BY FS_EmptySet
<1> QED BY <1>1, <1>3, <1>4, <1>5, <1>6

SeparatorsTo(t, k) == { i \in Separators(t) : i <= k }

LEMMA SeparatorsAdd ==
    ASSUME NEW t, NEW n \in Nat, DOMAIN t = 1..n, NEW k \in 1..n
    PROVE  /\ SeparatorsTo(t, 0) = {} /\ SeparatorsTo(t, n) = Separators(t)
           /\ Cardinality(SeparatorsTo(t, k - 1)) \in Nat
           /\ k \in Separators(t) => Cardinality(SeparatorsTo(t, k))
                                       = Cardinality(SeparatorsTo(t, k - 1)) + 1
           /\ k \notin Separators(t) => SeparatorsTo(t, k) = SeparatorsTo(t, k - 1)
<1>1. Separators(t) \subseteq 1..n
  BY DEF Separators
<1>2. SeparatorsTo(t, 0) = {} /\ SeparatorsTo(t, n) = Separators(t)
  BY <1>1 DEF SeparatorsTo
<1>3. PICK A : A = SeparatorsTo(t, k - 1)
  OBVIOUS
<1>4. IsFiniteSet(A) /\ k \notin A
  <2>1. IsFiniteSet(1..n)
    BY FS_Interval
  <2>2. A \subseteq 1..n /\ k \notin A
    BY <1>1, <1>3 DEF SeparatorsTo
  <2> QED BY <2>1, <2>2, FS_Subset
<1>5. SeparatorsTo(t, k) = IF k \in Separators(t) THEN A \cup {k} ELSE A
  BY <1>1, <1>3 DEF SeparatorsTo
<1>6. Cardinality(A) \in Nat /\ Cardinality(A \cup {k}) = Cardinality(A) + 1
  BY <1>4, FS_AddElement, FS_CardinalityType
<1> QED BY <1>2, <1>3, <1>5, <1>6

\* After k parts of a well quoted row.
Between(s, t, k) ==
    /\ s.mode \in {"start", "plain", "quoted", "quote"}
    /\ s.mode = "quoted" <=> Odd(QuotesBefore(t, k + 1))
    /\ s.mode = "start" <=> k = 0 \/ k \in Separators(t)
    /\ s.mode = "plain" => k > 0 /\ t[k] # Q /\ t[k] # C
    /\ s.mode = "quote" => k > 0 /\ t[k] = Q
    /\ Len(s.cells) = Cardinality(SeparatorsTo(t, k))

LEMMA CellsGrow ==
    ASSUME NEW t, NEW n \in Nat, DOMAIN t = 1..n, Len(t) = n, WellQuoted(t),
           NEW k \in 1..n, NEW s, IsCsv(s), NEW S, s.cells \in Seq(S), s.cell \in S,
           Between(s, t, k - 1), NEW r, r = CsvStep(s, t[k])
    PROVE  IsCsv(r) /\ r.cells \in Seq(S) /\ Between(r, t, k)
<1>1. /\ QuotesBefore(t, k) \in Nat
      /\ t[k] = Q => QuotesBefore(t, k + 1) = QuotesBefore(t, k) + 1
      /\ t[k] # Q => QuotesBefore(t, k + 1) = QuotesBefore(t, k)
  BY QuotesAdd
<1>2. /\ Cardinality(SeparatorsTo(t, k - 1)) \in Nat
      /\ k \in Separators(t) => Cardinality(SeparatorsTo(t, k))
                                  = Cardinality(SeparatorsTo(t, k - 1)) + 1
      /\ k \notin Separators(t) => SeparatorsTo(t, k) = SeparatorsTo(t, k - 1)
  BY SeparatorsAdd
<1>3. s.mode = "quoted" <=> Odd(QuotesBefore(t, k))
  BY DEF Between
<1>4. k \in Separators(t) <=> t[k] = C /\ ~Odd(QuotesBefore(t, k))
  BY <1>1 DEF Separators, Odd
<1>5. Q # C
  BY DEF Q, C
<1>6. k # 0 /\ k - 1 \in Nat /\ (k - 1 > 0 => k - 1 \in 1..n)
  OBVIOUS
<1>7. CASE t[k] = Q
  <2>1. s.mode \in {"start", "quoted", "quote"}
    <3> SUFFICES ASSUME s.mode = "plain" PROVE FALSE
      BY DEF Between
    <3>1. k - 1 > 0 /\ t[k - 1] # Q /\ t[k - 1] # C /\ ~Odd(QuotesBefore(t, k))
      BY <1>3 DEF Between
    <3>2. k = 1 \/ t[k - 1] \in {Q, C}
      BY <1>1, <1>7, <3>1 DEF WellQuoted, Odd
    <3> QED BY <3>1, <3>2
  <2>2. /\ IsCsv(r) /\ r.cells = s.cells
        /\ s.mode = "quoted" => r.mode = "quote"
        /\ s.mode # "quoted" => r.mode = "quoted"
    BY <1>7, <2>1, QuoteStep
  <2>3. k \notin Separators(t)
    BY <1>4, <1>5, <1>7
  <2>4. Odd(QuotesBefore(t, k + 1)) <=> ~Odd(QuotesBefore(t, k))
    BY <1>1, <1>7, OddNext
  <2>5. Len(r.cells) = Cardinality(SeparatorsTo(t, k))
    BY <1>2, <2>2, <2>3 DEF Between
  <2>6. k > 0
    OBVIOUS
  <2> QED BY <1>3, <1>6, <1>7, <2>1, <2>2, <2>3, <2>4, <2>5, <2>6 DEF Between
<1>8. CASE t[k] = C
  <2>1. /\ IsCsv(r)
        /\ s.mode = "quoted" => r.mode = "quoted" /\ r.cells = s.cells
        /\ s.mode # "quoted" => r.mode = "start" /\ r.cells = Append(s.cells, s.cell)
    BY <1>8, CommaStep
  <2>2. k \in Separators(t) <=> s.mode # "quoted"
    BY <1>3, <1>4, <1>8
  <2>3. Odd(QuotesBefore(t, k + 1)) <=> Odd(QuotesBefore(t, k))
    BY <1>1, <1>5, <1>8
  <2>4. r.cells \in Seq(S)
    <3>1. Append(s.cells, s.cell) \in Seq(S)
      OBVIOUS
    <3> QED BY <2>1, <3>1
  <2>5. Len(r.cells) = Cardinality(SeparatorsTo(t, k))
    <3>1. Len(s.cells) = Cardinality(SeparatorsTo(t, k - 1))
      BY DEF Between
    <3>2. Len(Append(s.cells, s.cell)) = Len(s.cells) + 1
      OBVIOUS
    <3> QED BY <1>2, <2>1, <2>2, <3>1, <3>2
  <2> QED BY <1>3, <1>6, <2>1, <2>2, <2>3, <2>4, <2>5 DEF Between
<1>9. CASE t[k] \notin {Q, C}
  <2>1. s.mode \in {"start", "plain", "quoted"}
    <3> SUFFICES ASSUME s.mode = "quote" PROVE FALSE
      BY DEF Between
    <3>1. k - 1 \in 1..n /\ t[k - 1] = Q /\ ~Odd(QuotesBefore(t, k))
      BY <1>3, <1>6 DEF Between
    <3>2. (k - 1) + 1 = k
      OBVIOUS
    <3>3. Odd(QuotesBefore(t, k - 1))
      <4>1. QuotesBefore(t, k - 1) \in Nat /\ QuotesBefore(t, (k - 1) + 1) = QuotesBefore(t, k - 1) + 1
        BY <3>1, QuotesAdd
      <4> QED BY <3>1, <3>2, <4>1, OddNext
    <3>4. k - 1 = Len(t) \/ t[k] \in {Q, C}
      <4>1. QuotesBefore(t, k - 1) % 2 # 0
        BY <3>3 DEF Odd
      <4> QED BY <3>1, <3>2, <4>1 DEF WellQuoted
    <3> QED BY <1>9, <3>1, <3>4
  <2>2. /\ IsCsv(r) /\ r.cells = s.cells
        /\ r.mode = IF s.mode = "start" THEN "plain" ELSE s.mode
    BY <1>9, <2>1, OtherStep
  <2>3. k \notin Separators(t)
    BY <1>4, <1>9
  <2>4. Odd(QuotesBefore(t, k + 1)) <=> Odd(QuotesBefore(t, k))
    BY <1>1, <1>9
  <2>5. Len(r.cells) = Cardinality(SeparatorsTo(t, k))
    BY <1>2, <2>2, <2>3 DEF Between
  <2>6. k > 0
    OBVIOUS
  <2> QED BY <1>3, <1>6, <1>9, <2>1, <2>2, <2>3, <2>4, <2>5, <2>6 DEF Between
<1> QED BY <1>7, <1>8, <1>9

\* The cells of a well quoted row, before they are cut to MaxFields.
CellsOf(s) == IF s.mode = "start" THEN s.cells ELSE Append(s.cells, s.cell)

LEMMA RowRead ==
    ASSUME NEW t, t \in Seq(ToSet(t)), WellQuoted(t), NEW no, NEW s,
           s = Fold(TheFold("cells", no, Start, t))
    PROVE  \E S : /\ s.cells \in Seq(S) /\ s.cell \in S
                  /\ Between(s, t, Len(t)) /\ s.mode # "quoted"
<1>1. PICK n \in Nat : n = Len(t) /\ DOMAIN t = 1..n
  OBVIOUS
<1> DEFINE f == TheFold("cells", no, Start, t)
<1>2. f.seq = t /\ f.base = Start /\ f.of = "cells"
  BY DEF TheFold
<1> HIDE DEF f
<1>3. PICK h : Steps(h, f) /\ Fold(f) = h[n]
  BY <1>1, <1>2, FoldSteps
<1>4. h[0] = Start /\ \A k \in 1..n : h[k] = CsvStep(h[k - 1], t[k])
  BY <1>1, <1>2, <1>3 DEF Steps, Folded
<1>5. PICK S : S = { h[k].cell : k \in 0..n }
  OBVIOUS
<1> DEFINE Good(k) == IsCsv(h[k]) /\ h[k].cells \in Seq(S) /\ Between(h[k], t, k)
           bad == { k \in 0..n : ~Good(k) }
<1>6. Good(0)
  <2>1. IsCsv(Start) /\ Start.mode = "start" /\ Start.cells = <<>>
    BY DEF IsCsv, Start
  <2>2. ~Odd(QuotesBefore(t, 0 + 1))
    <3>1. QuotesBefore(t, 1) = 0
      BY QuotesAdd
    <3> QED BY <3>1 DEF Odd
  <2>3. Len(<<>>) = Cardinality(SeparatorsTo(t, 0))
    <3>1. SeparatorsTo(t, 0) = {}
      BY <1>1 DEF SeparatorsTo, Separators
    <3> QED BY <3>1, FS_EmptySet
  <2>4. Start.cells \in Seq(S)
    BY <2>1
  <2> QED BY <1>4, <2>1, <2>2, <2>3, <2>4 DEF Between
<1>7. bad = {}
  <2> SUFFICES ASSUME bad # {} PROVE FALSE
    OBVIOUS
  <2>1. PICK k \in bad : \A m \in bad : k <= m
    <3>1. bad \subseteq Nat
      OBVIOUS
    <3> HIDE DEF bad
    <3>2. Min(bad) \in bad /\ \A m \in bad : Min(bad) <= m
      BY <3>1, MinExists
    <3> QED BY <3>2
  <2>2. k \in 0..n /\ ~Good(k)
    OBVIOUS
  <2>3. k \in 1..n /\ k - 1 \in 0..n
    <3> HIDE DEF Good
    <3>1. k # 0
      BY <1>6, <2>2
    <3> QED BY <2>2, <3>1
  <2>4. Good(k - 1)
    <3>1. ~ (k <= k - 1)
      BY <2>3
    <3>2. k - 1 \notin bad
      <4> HIDE DEF bad
      <4> QED BY <2>1, <3>1
    <3> HIDE DEF Good
    <3> QED BY <2>3, <3>2
  <2>5. h[k - 1].cell \in S
    BY <1>5, <2>3
  <2>6. h[k] = CsvStep(h[k - 1], t[k])
    BY <1>4, <2>3
  <2>7. Good(k)
    BY <1>1, <2>3, <2>4, <2>5, <2>6, CellsGrow
  <2> HIDE DEF Good
  <2> QED BY <2>2, <2>7
<1>8. s = h[n] /\ Good(n)
  <2>1. n \in 0..n /\ n \notin bad
    BY <1>7
  <2> HIDE DEF Good
  <2>2. Good(n)
    BY <2>1
  <2> QED BY <1>3, <2>2 DEF f
<1>9. s.cell \in S
  <2>1. n \in 0..n
    OBVIOUS
  <2> QED BY <1>5, <1>8, <2>1
<1>10. ~Odd(QuotesBefore(t, n + 1))
  BY <1>1 DEF WellQuoted, Odd
<1>11. s.mode # "quoted"
  BY <1>8, <1>10 DEF Between
<1> QED BY <1>1, <1>8, <1>9, <1>11

LEMMA CellsCounted ==
    ASSUME NEW t, t \in Seq(ToSet(t)), WellQuoted(t), NEW last,
           last = IF t = <<>> \/ Len(t) \in Separators(t) THEN 0 ELSE 1
    PROVE  Len(parse_csv_fields(t)) = Min({MaxFields, Cardinality(Separators(t)) + last})
<1>1. PICK n \in Nat : n = Len(t) /\ DOMAIN t = 1..n
  OBVIOUS
<1>2. PICK no, s : no = 0 /\ s = Fold(TheFold("cells", no, Start, t))
  OBVIOUS
<1>3. PICK S : /\ s.cells \in Seq(S) /\ s.cell \in S
               /\ Between(s, t, n) /\ s.mode # "quoted"
  BY <1>1, <1>2, RowRead
<1>4. SeparatorsTo(t, n) = Separators(t)
  BY <1>1 DEF SeparatorsTo, Separators
<1>5. Len(s.cells) = Cardinality(Separators(t))
  BY <1>3, <1>4 DEF Between
<1>6. s.mode = "start" <=> n = 0 \/ n \in Separators(t)
  BY <1>3 DEF Between
<1>7. n = 0 <=> t = <<>>
  BY <1>1
<1>8. PICK cells : cells = CellsOf(s)
  OBVIOUS
<1>9. cells \in Seq(S) /\ Len(cells) = Cardinality(Separators(t)) + last
  <2>1. CASE s.mode = "start"
    <3>1. cells = s.cells /\ last = 0
      BY <1>1, <1>6, <1>7, <1>8, <2>1 DEF CellsOf
    <3>2. Len(s.cells) \in Nat
      BY <1>3
    <3> QED BY <1>3, <1>5, <3>1, <3>2
  <2>2. CASE s.mode # "start"
    <3>1. cells = Append(s.cells, s.cell) /\ last = 1
      BY <1>1, <1>6, <1>7, <1>8, <2>2 DEF CellsOf
    <3>2. Append(s.cells, s.cell) \in Seq(S) /\ Len(Append(s.cells, s.cell)) = Len(s.cells) + 1
      BY <1>3
    <3> QED BY <1>5, <3>1, <3>2
  <2> QED BY <2>1, <2>2
<1>10. PICK m \in Nat : m = Len(cells)
  BY <1>9
<1>11. PICK k \in Nat : k = (IF m < MaxFields THEN m ELSE MaxFields) /\ k <= m
  BY DEF MaxFields
<1>12. parse_csv_fields(t) = SubSeq(cells, 1, k)
  <2>1. FoldLeft(CsvStep, Start, t) = s
    BY <1>2, CellsIsFold
  <2> QED BY <1>8, <1>10, <1>11, <2>1 DEF parse_csv_fields, CellsOf, Start
<1>13. Len(SubSeq(cells, 1, k)) = k
  BY <1>9, <1>10, <1>11
<1>14. k = Min({MaxFields, m})
  <2>1. MaxFields \in Nat
    BY DEF MaxFields
  <2>2. k <= m /\ k <= MaxFields /\ (k = m \/ k = MaxFields)
    BY <1>10, <1>11, <2>1
  <2>3. PICK A : A = {MaxFields, m}
    OBVIOUS
  <2>4. A \subseteq Nat /\ k \in A /\ \A i \in A : k <= i
    BY <1>10, <2>1, <2>2, <2>3
  <2> QED BY <2>3, <2>4, MinIs
<1> QED BY <1>9, <1>10, <1>12, <1>13, <1>14

\* The file read is one of the files, whose lines have a form.
OneOfFiles == file \in AllFiles

LEMMA OneOfFilesStays == /\ Init => OneOfFiles
                         /\ ReadInv /\ OneOfFiles /\ [Next]_vars => OneOfFiles'
<1>1. ASSUME Init PROVE OneOfFiles
  BY <1>1 DEF Init, OneOfFiles, AllFiles
<1>2. ASSUME OneOfFiles, [Next]_vars PROVE OneOfFiles'
  <2>1. CASE Read
    BY <1>2, <2>1 DEF Read, ReadNext, ReadLine, NextLine, EndOfFile, OneOfFiles
  <2>2. CASE Next /\ ~Read
    BY <1>2, <2>2 DEF Next, GraphCommand, GraphTimelineCommand, TimelineCommand,
                      SimilarityCommand, Show, readVars, OneOfFiles
  <2>3. CASE UNCHANGED vars
    BY <1>2, <2>3 DEF vars, readVars, OneOfFiles
  <2> QED BY <1>2, <2>1, <2>2, <2>3
<1> QED BY <1>1, <1>2

\* A line is read as it is written, whatever was read before it.
LEMMA LineRead ==
    ASSUME ReadInv, OneOfFiles
    PROVE  LinesAreReadAsWritten
<1> SUFFICES ASSUME pos > 0, ~Skipped(file[pos]) PROVE LinesAreReadAsWritten
  BY DEF LinesAreReadAsWritten
<1>1. PICK text : text = file[pos]
  OBVIOUS
<1>2. \/ text.kind = "json" /\ text.pairs \in Seq(ToSet(text.pairs))
      \/ text.kind = "csv" /\ text.tokens \in Seq(ToSet(text.tokens))
  <2>1. file \in Seq(ToSet(file)) /\ pos \in 1..Len(file)
    BY DEF ReadInv, FileInv
  <2>2. text \in UNION { ToSet(f) : f \in AllFiles }
    BY <1>1, <2>1 DEF OneOfFiles, ToSet
  <2> QED BY <1>1, <2>2, TextsAssumption
<1>3. CASE text.kind = "json"
  <2>1. DOMAIN text.pairs \subseteq Nat
    BY <1>2, <1>3
  <2> SUFFICES ASSUME \A k \in DOMAIN text.pairs :
                        ~text.pairs[k].quoted \/ text.pairs[k].value \notin FieldNames,
                      NEW key \in FieldNames \ {"pid", "time"}
               PROVE  FieldsOf(text)[key] = ValueOf(text.pairs, key)
    BY <1>1, <1>3 DEF LinesAreReadAsWritten
  <2>2. \A k \in DOMAIN text.pairs : ~text.pairs[k].quoted \/ text.pairs[k].value # key
    OBVIOUS
  <2>3. json_get_string(text.pairs, key) = ValueOf(text.pairs, key)
    BY <2>1, <2>2, ValueFound
  <2>4. FieldsOf(text) = JsonFields(text.pairs)
    BY <1>3 DEF FieldsOf
  <2>5. key \in {"process", "event", "file", "dst", "domain", "ip"}
    BY DEF FieldNames
  <2>6. JsonFields(text.pairs)[key] = json_get_string(text.pairs, key)
    BY <2>5 DEF JsonFields
  <2> QED BY <2>3, <2>4, <2>6
<1>4. CASE text.kind = "csv"
  <2> SUFFICES ASSUME WellQuoted(text.tokens)
               PROVE  Len(parse_csv_fields(text.tokens))
                        = Min({MaxFields, Cardinality(Separators(text.tokens))
                                 + IF text.tokens = <<>> \/ Len(text.tokens) \in Separators(text.tokens)
                                     THEN 0 ELSE 1})
    BY <1>1, <1>4 DEF LinesAreReadAsWritten
  <2> QED BY <1>2, <1>4, CellsCounted
<1> QED BY <1>2, <1>3, <1>4

(***************************************************************************)
(* json_get_string finds a field where the line has it, and               *)
(* parse_csv_fields makes as many cells as a well quoted row separates.    *)
(***************************************************************************)
THEOREM LinesRead == Spec => []LinesAreReadAsWritten
<1>1. Spec => []OneOfFiles
  BY AlwaysRead, OneOfFilesStays, PTL DEF Spec
<1>2. ReadInv /\ OneOfFiles => LinesAreReadAsWritten
  BY LineRead
<1> QED BY <1>1, <1>2, AlwaysRead, PTL

-----------------------------------------------------------------------------
(***************************************************************************)
(* What agfast generate writes, read back.  First the generated events:    *)
(* none of their texts is a separator or the name of a field.              *)
(***************************************************************************)
Separates == FieldNames \cup {Q, C}
Clean(text) == text \notin Separates

LEMMA LiteralsAreClean ==
    /\ \A s \in {"nginx", "postgres", "sshd", "bash", "python", "node", "agent", "curl"} : Clean(s)
    /\ \A s \in {"open", "read", "write", "connect", "exec", "spawn"} : Clean(s)
    /\ \A s \in {"", "/etc/passwd", "/home/alice/.ssh/id_rsa", "45.90.10.2",
                 "malicious.example"} : Clean(s)
BY DEF Clean, Separates, FieldNames, Q, C

LEMMA PickedNames ==
    ASSUME NEW i \in Nat
    PROVE  Clean(Pick(Procs, i)) /\ Clean(Pick(Events, i))
<1>1. PICK k \in 1..8 : Pick(Procs, i) = Procs[k]
  <2>1. Len(Procs) = 8 /\ (i % 8) + 1 \in 1..8
    BY DEF Procs
  <2> QED BY <2>1 DEF Pick
<1>2. PICK m \in 1..6 : Pick(Events, i) = Events[m]
  <2>1. Len(Events) = 6 /\ (i % 6) + 1 \in 1..6
    BY DEF Events
  <2> QED BY <2>1 DEF Pick
<1>3. Procs[k] \in {"nginx", "postgres", "sshd", "bash", "python", "node", "agent", "curl"}
  <2>1. k = 1 \/ k = 2 \/ k = 3 \/ k = 4 \/ k = 5 \/ k = 6 \/ k = 7 \/ k = 8
    OBVIOUS
  <2> QED BY <2>1 DEF Procs
<1>4. Events[m] \in {"open", "read", "write", "connect", "exec", "spawn"}
  <2>1. m = 1 \/ m = 2 \/ m = 3 \/ m = 4 \/ m = 5 \/ m = 6
    OBVIOUS
  <2> QED BY <2>1 DEF Events
<1>5. Clean(Procs[k])
  BY <1>3, LiteralsAreClean
<1>6. Clean(Events[m])
  BY <1>4, LiteralsAreClean
<1> QED BY <1>1, <1>2, <1>5, <1>6

\* The pids generated, and the number of digits strtol reads of one.
GeneratedPids == {MaliciousPid} \cup 1000..(999 + PidRange)

IsEvent(e) ==
    /\ e.pid \in GeneratedPids
    /\ Clean(e.process) /\ Clean(e.event) /\ Clean(e.file) /\ Clean(e.dst)

LEMMA EventsAreClean ==
    ASSUME NEW o \in GeneratorOptions, NEW i \in 0..(o.count - 1)
    PROVE  IsEvent(GeneratedEvent(i, o.ratio)) /\ Clean(GeneratedTime(i))
<1>1. i \in Nat
  BY GeneratedAssumption
<1>2. /\ Clean(GeneratedTime(i))
      /\ Clean(OrdinaryEvent(i).file) /\ Clean(OrdinaryEvent(i).dst)
  <2>1. {GeneratedTime(i), OrdinaryEvent(i).file, OrdinaryEvent(i).dst} \cap Separates = {}
    BY GeneratedAssumption DEF Separates
  <2> QED BY <2>1 DEF Clean
<1>3. IsEvent(OrdinaryEvent(i))
  <2>1. OrdinaryEvent(i).pid \in GeneratedPids
    <3>1. 1000 + (i % PidRange) \in 1000..(999 + PidRange)
      BY <1>1, PidRangeAssumption
    <3>2. OrdinaryEvent(i).pid = 1000 + (i % PidRange)
      BY DEF OrdinaryEvent
    <3> QED BY <3>1, <3>2 DEF GeneratedPids
  <2>2. OrdinaryEvent(i).process = Pick(Procs, i) /\ OrdinaryEvent(i).event = Pick(Events, i)
    BY DEF OrdinaryEvent
  <2> QED BY <1>1, <1>2, <2>1, <2>2, PickedNames DEF IsEvent
<1>4. ASSUME NEW turn PROVE IsEvent(MaliciousEvent(turn))
  <2>1. PICK e : e = MaliciousEvent(turn)
    OBVIOUS
  <2>2. e.pid = MaliciousPid /\ e.process = "python"
    BY <2>1 DEF MaliciousEvent
  <2>3. e.event \in {"open", "connect"}
    BY <2>1 DEF MaliciousEvent
  <2>4. e.file \in {"", "/etc/passwd", "/home/alice/.ssh/id_rsa"}
    BY <2>1 DEF MaliciousEvent
  <2>5. e.dst \in {"", "45.90.10.2", "malicious.example"}
    BY <2>1 DEF MaliciousEvent
  <2>6. Clean(e.process) /\ Clean(e.event) /\ Clean(e.file) /\ Clean(e.dst)
    BY <2>2, <2>3, <2>4, <2>5, LiteralsAreClean
  <2> QED BY <2>1, <2>2, <2>6 DEF IsEvent, GeneratedPids
<1> QED BY <1>2, <1>3, <1>4 DEF GeneratedEvent

LEMMA PidsAreRead ==
    ASSUME NEW p \in GeneratedPids
    PROVE  /\ p \in Nat /\ Clean(ToString(p)) /\ ToString(p) # "pid"
           /\ ToString(p) \notin DOMAIN Lower
           /\ ToString(p) \in DOMAIN Long /\ Long[ToString(p)] = p
<1>1. p \in Nat
  BY PidRangeAssumption DEF GeneratedPids, MaliciousPid
<1>2. /\ ToString(p) \in DOMAIN Long \ (DOMAIN Lower \cup Separates)
      /\ Long[ToString(p)] = p
  BY GeneratedAssumption DEF GeneratedPids, Separates
<1>3. "pid" \in Separates
  BY DEF Separates, FieldNames
<1> QED BY <1>1, <1>2, <1>3 DEF Clean

-----------------------------------------------------------------------------
\* A key that one pair has is located there, and its value is read.
OnlyAt(pairs, key, k) ==
    /\ DOMAIN pairs \subseteq Nat
    /\ k \in DOMAIN pairs
    /\ \A j \in DOMAIN pairs : pairs[j].key = key <=> j = k
    /\ \A j \in DOMAIN pairs : ~pairs[j].quoted \/ pairs[j].value # key

LEMMA LocatedAt ==
    ASSUME NEW pairs, NEW key, NEW k, OnlyAt(pairs, key, k)
    PROVE  Located(pairs, key) = {k}
<1>1. Mentions(pairs, key) = {k}
  BY DEF Mentions, OnlyAt
<1>2. { j \in {k} : \A m \in {k} : j <= m } = {k}
  BY DEF OnlyAt
<1> QED BY <1>1, <1>2 DEF Located, OnlyAt

LEMMA StringAt ==
    ASSUME NEW pairs, NEW key, NEW k, OnlyAt(pairs, key, k), pairs[k].quoted
    PROVE  json_get_string(pairs, key) = pairs[k].value
<1>1. PICK strings : strings = { i \in Located(pairs, key) : pairs[i].quoted }
  OBVIOUS
<1>2. strings = {k} /\ strings # {}
  BY <1>1, LocatedAt
<1>3. json_get_string(pairs, key) = IF strings = {} THEN "" ELSE pairs[CHOOSE i \in strings : TRUE].value
  BY <1>1 DEF json_get_string
<1> QED BY <1>2, <1>3

LEMMA NumberAt ==
    ASSUME NEW pairs, NEW key, NEW k, OnlyAt(pairs, key, k), ~pairs[k].quoted,
           pairs[k].value \in DOMAIN Long, NEW default
    PROVE  json_get_long(pairs, key, default) = Long[pairs[k].value]
<1>1. PICK numbers : numbers = { i \in Located(pairs, key) : /\ ~pairs[i].quoted
                                                             /\ pairs[i].value \in DOMAIN Long }
  OBVIOUS
<1>2. numbers = {k} /\ numbers # {}
  BY <1>1, LocatedAt
<1>3. json_get_long(pairs, key, default)
        = IF numbers = {} THEN default ELSE Long[pairs[CHOOSE i \in numbers : TRUE].value]
  BY <1>1 DEF json_get_long
<1> QED BY <1>2, <1>3

LEMMA NotGiven ==
    ASSUME NEW pairs, NEW key,
           \A j \in DOMAIN pairs : /\ pairs[j].key # key
                                   /\ ~pairs[j].quoted \/ pairs[j].value # key
    PROVE  json_get_string(pairs, key) = ""
<1>1. Mentions(pairs, key) = {}
  BY DEF Mentions
<1>2. Located(pairs, key) = {}
  BY <1>1 DEF Located
<1> QED BY <1>2 DEF json_get_string

\* The pairs of a JSON line: the first four, and a file and a destination
\* where the event has one.
LEMMA OneMore ==
    ASSUME NEW T, NEW s \in Seq(T), NEW n \in Nat, n = Len(s), NEW x \in T
    PROVE  /\ s \o <<x>> \in Seq(T) /\ DOMAIN (s \o <<x>>) = 1..(n + 1)
           /\ (s \o <<x>>)[n + 1] = x /\ \A k \in 1..n : (s \o <<x>>)[k] = s[k]
<1>1. <<x>> \in Seq(T) /\ Len(<<x>>) = 1 /\ <<x>>[1] = x
  OBVIOUS
<1>2. s \o <<x>> \in Seq(T) /\ Len(s \o <<x>>) = n + 1
  BY <1>1
<1> QED BY <1>1, <1>2

Longer(all, T, s, n, part, x) ==
    /\ all \in Seq(T) /\ Len(all) \in {n, n + 1}
    /\ DOMAIN all = 1..n \cup (IF part = <<>> THEN {} ELSE {n + 1})
    /\ part # <<>> => all[n + 1] = x
    /\ \A k \in 1..n : all[k] = s[k]

LEMMA LastPart ==
    ASSUME NEW T, NEW s \in Seq(T), NEW n \in Nat, n = Len(s), NEW x \in T,
           NEW part \in {<<>>, <<x>>}, NEW all, all = s \o part
    PROVE  Longer(all, T, s, n, part, x)
<1>1. CASE part = <<>>
  <2>1. all = s
    BY <1>1
  <2> QED BY <1>1, <2>1 DEF Longer
<1>2. CASE part = <<x>>
  <2>1. all = s \o <<x>> /\ part # <<>>
    BY <1>2
  <2>2. all \in Seq(T) /\ DOMAIN all = 1..(n + 1)
    BY <2>1, OneMore
  <2>3. all[n + 1] = x /\ \A k \in 1..n : all[k] = s[k]
    BY <2>1, OneMore
  <2>4. Len(all) = n + 1 /\ 1..(n + 1) = 1..n \cup {n + 1}
    BY <2>2
  <2> QED BY <2>1, <2>2, <2>3, <2>4 DEF Longer
<1> QED BY <1>1, <1>2

\* Where the pairs of a line are: four places, and one for either part.
Places(pairs, a, f, x, d, y, at, pf, pd) ==
    /\ DOMAIN pairs \subseteq Nat
    /\ DOMAIN pairs = { at[1], at[2], at[3], at[4] } \cup (IF f = <<>> THEN {} ELSE {pf})
                                                    \cup (IF d = <<>> THEN {} ELSE {pd})
    /\ /\ at[1] # at[2] /\ at[1] # at[3] /\ at[1] # at[4]
       /\ at[2] # at[3] /\ at[2] # at[4] /\ at[3] # at[4]
    /\ pf \notin { at[1], at[2], at[3], at[4] } /\ pd \notin { at[1], at[2], at[3], at[4] }
    /\ f # <<>> => pd # pf
    /\ /\ pairs[at[1]] = a[1] /\ pairs[at[2]] = a[2]
       /\ pairs[at[3]] = a[3] /\ pairs[at[4]] = a[4]
    /\ f # <<>> => pairs[pf] = x
    /\ d # <<>> => pairs[pd] = y

MadeOf(pairs, T, a, f, x, d, y) ==
    /\ a \in Seq(T) /\ Len(a) = 4 /\ x \in T /\ y \in T
    /\ f \in {<<>>, <<x>>} /\ d \in {<<>>, <<y>>}
    /\ pairs = a \o f \o d

LEMMA SomePlaces ==
    ASSUME NEW pairs, NEW T, NEW a, NEW f, NEW x, NEW d, NEW y, MadeOf(pairs, T, a, f, x, d, y)
    PROVE  \E at, pf, pd : Places(pairs, a, f, x, d, y, at, pf, pd)
<1>0. /\ a \in Seq(T) /\ Len(a) = 4 /\ x \in T /\ y \in T
      /\ f \in {<<>>, <<x>>} /\ d \in {<<>>, <<y>>}
      /\ pairs = a \o f \o d
  BY DEF MadeOf
<1>1. PICK b : b = a \o f
  OBVIOUS
<1>2. /\ b \in Seq(T) /\ Len(b) \in {4, 5}
      /\ DOMAIN b = 1..4 \cup (IF f = <<>> THEN {} ELSE {5})
      /\ f # <<>> => b[5] = x
      /\ \A k \in 1..4 : b[k] = a[k]
  <2>1. PICK n \in Nat : n = 4
    OBVIOUS
  <2>2. n = Len(a) /\ n + 1 = 5
    BY <1>0, <2>1
  <2>3. Longer(b, T, a, n, f, x)
    BY <1>0, <1>1, <2>2, LastPart
  <2> QED BY <2>1, <2>2, <2>3 DEF Longer
<1>3. PICK m \in Nat : m = Len(b) /\ m \in {4, 5} /\ DOMAIN b = 1..m
  <2>1. b \in Seq(T) /\ Len(b) \in {4, 5}
    BY <1>2
  <2>2. Len(b) \in Nat /\ DOMAIN b = 1..Len(b)
    BY <2>1
  <2> QED BY <2>1, <2>2
<1>4. /\ DOMAIN pairs = 1..m \cup (IF d = <<>> THEN {} ELSE {m + 1})
      /\ d # <<>> => pairs[m + 1] = y
      /\ \A k \in 1..m : pairs[k] = b[k]
  <2>1. pairs = b \o d
    BY <1>0, <1>1
  <2>2. b \in Seq(T)
    BY <1>2
  <2>3. Longer(pairs, T, b, m, d, y)
    BY <1>0, <1>3, <2>1, <2>2, LastPart
  <2> QED BY <2>3 DEF Longer
<1>5. PICK at : at = <<1, 2, 3, 4>>
  OBVIOUS
<1>6. at[1] = 1 /\ at[2] = 2 /\ at[3] = 3 /\ at[4] = 4
  BY <1>5
<1>7. 1..4 = {1, 2, 3, 4}
  OBVIOUS
<1>8. Places(pairs, a, f, x, d, y, at, 5, m + 1)
  <2>1. DOMAIN pairs = {1, 2, 3, 4} \cup (IF f = <<>> THEN {} ELSE {5})
                                    \cup (IF d = <<>> THEN {} ELSE {m + 1})
    BY <1>2, <1>3, <1>4, <1>7
  <2>2. DOMAIN pairs \subseteq Nat
    BY <1>3, <2>1
  <2>3. \A k \in 1..4 : pairs[k] = a[k]
    BY <1>2, <1>3, <1>4
  <2>4. f # <<>> => pairs[5] = x
    BY <1>2, <1>3, <1>4
  <2>5. m + 1 \notin {1, 2, 3, 4}
    BY <1>3
  <2>6. f # <<>> => m = 5
    <3>1. f # <<>> => 5 \in DOMAIN b
      BY <1>2
    <3> QED BY <1>3, <3>1
  <2>7. pairs[1] = a[1] /\ pairs[2] = a[2] /\ pairs[3] = a[3] /\ pairs[4] = a[4]
    <3>1. 1 \in 1..4 /\ 2 \in 1..4 /\ 3 \in 1..4 /\ 4 \in 1..4
      OBVIOUS
    <3> QED BY <2>3, <3>1
  <2>8. 5 \notin {1, 2, 3, 4} /\ (f # <<>> => m + 1 # 5)
    BY <2>6
  <2> QED BY <1>4, <1>6, <2>1, <2>2, <2>4, <2>5, <2>7, <2>8 DEF Places
<1> QED BY <1>8

\* What a line tells when it is read: the event it was written for.
IsReadAs(text, i, e) ==
    /\ ~Skipped(text)
    /\ FieldsOf(text).kind = "fields" /\ FieldsOf(text).pid = e.pid
    /\ FieldsOf(text).process = e.process /\ FieldsOf(text).event = e.event
    /\ FieldsOf(text).file = e.file /\ FieldsOf(text).dst = e.dst
    /\ FieldsOf(text).ip = "" /\ FieldsOf(text).domain = ""
    /\ TimeOf(text) = GeneratedTime(i)

LEMMA JsonIsReadBack ==
    ASSUME NEW i, NEW e, IsEvent(e), Clean(GeneratedTime(i)), NEW text, text = json_emit_event(i, e)
    PROVE  IsReadAs(text, i, e)
<1>1. PICK a : a = FirstPairs(i, e)
  OBVIOUS
<1>2. PICK x, y : x = Pair("file", e.file) /\ y = Pair("dst", e.dst)
  OBVIOUS
<1>3. PICK f, d : f = Given("file", e.file) /\ d = Given("dst", e.dst)
  OBVIOUS
<1>4. PICK pairs : pairs = a \o f \o d
  OBVIOUS
<1>5. text.kind = "json" /\ text.pairs = pairs
  BY <1>1, <1>3, <1>4 DEF json_emit_event
<1>6. PICK at, pf, pd : Places(pairs, a, f, x, d, y, at, pf, pd)
  <2>1. PICK T : T = {a[1], a[2], a[3], a[4], x, y}
    OBVIOUS
  <2>2. a \in Seq(T) /\ Len(a) = 4
    <3>1. PICK t1, t2, t3, t4 : a = <<t1, t2, t3, t4>>
      BY <1>1 DEF FirstPairs
    <3> QED BY <2>1, <3>1
  <2>3. f \in {<<>>, <<x>>} /\ d \in {<<>>, <<y>>}
    BY <1>2, <1>3 DEF Given
  <2>4. x \in T /\ y \in T
    BY <2>1
  <2>5. MadeOf(pairs, T, a, f, x, d, y)
    BY <1>4, <2>2, <2>3, <2>4 DEF MadeOf
  <2> QED BY <2>5, SomePlaces
<1>7. /\ a[1] = Pair("time", GeneratedTime(i))
      /\ a[2] = [key |-> "pid", value |-> ToString(e.pid), quoted |-> FALSE]
      /\ a[3] = Pair("process", e.process)
      /\ a[4] = Pair("event", e.event)
  BY <1>1 DEF FirstPairs
<1>8. /\ f = <<>> <=> e.file = ""
      /\ d = <<>> <=> e.dst = ""
  <2>1. \A z : <<z>> # <<>>
    OBVIOUS
  <2> QED BY <1>3, <2>1 DEF Given
<1>9. ASSUME NEW j \in DOMAIN pairs
      PROVE  /\ ~pairs[j].quoted \/ Clean(pairs[j].value)
             /\ pairs[j].key = "time" <=> j = at[1]
             /\ pairs[j].key = "pid" <=> j = at[2]
             /\ pairs[j].key = "process" <=> j = at[3]
             /\ pairs[j].key = "event" <=> j = at[4]
             /\ pairs[j].key = "file" <=> j = pf /\ f # <<>>
             /\ pairs[j].key = "dst" <=> j = pd /\ d # <<>>
             /\ pairs[j].key # "domain" /\ pairs[j].key # "ip"
  <2>1. CASE j = at[1]
    BY <1>6, <1>7, <2>1 DEF Places, Pair
  <2>2. CASE j = at[2]
    BY <1>6, <1>7, <2>2 DEF Places
  <2>3. CASE j = at[3]
    BY <1>6, <1>7, <2>3 DEF Places, Pair, IsEvent
  <2>4. CASE j = at[4]
    BY <1>6, <1>7, <2>4 DEF Places, Pair, IsEvent
  <2>5. CASE j = pf /\ f # <<>>
    BY <1>2, <1>6, <2>5 DEF Places, Pair, IsEvent
  <2>6. CASE j = pd /\ d # <<>>
    BY <1>2, <1>6, <2>6 DEF Places, Pair, IsEvent
  <2> QED BY <1>6, <2>1, <2>2, <2>3, <2>4, <2>5, <2>6 DEF Places
<1>10. DOMAIN pairs \subseteq Nat
  BY <1>6 DEF Places
<1>11. \A key \in FieldNames : \A j \in DOMAIN pairs : ~pairs[j].quoted \/ pairs[j].value # key
  BY <1>9 DEF Clean, Separates
<1>12. {"time", "pid", "process", "event", "file", "dst", "domain", "ip"} \subseteq FieldNames
  BY DEF FieldNames
<1>13. OnlyAt(pairs, "time", at[1]) /\ json_get_string(pairs, "time") = GeneratedTime(i)
  <2>1. at[1] \in DOMAIN pairs /\ pairs[at[1]] = a[1]
    BY <1>6 DEF Places
  <2>2. OnlyAt(pairs, "time", at[1])
    BY <1>9, <1>10, <1>11, <1>12, <2>1 DEF OnlyAt
  <2>3. pairs[at[1]].quoted /\ pairs[at[1]].value = GeneratedTime(i)
    BY <1>7, <2>1 DEF Pair
  <2> QED BY <2>2, <2>3, StringAt
<1>14. json_get_string(pairs, "process") = e.process
  <2>1. at[3] \in DOMAIN pairs /\ pairs[at[3]] = a[3]
    BY <1>6 DEF Places
  <2>2. OnlyAt(pairs, "process", at[3])
    BY <1>9, <1>10, <1>11, <1>12, <2>1 DEF OnlyAt
  <2>3. pairs[at[3]].quoted /\ pairs[at[3]].value = e.process
    BY <1>7, <2>1 DEF Pair
  <2> QED BY <2>2, <2>3, StringAt
<1>15. json_get_string(pairs, "event") = e.event
  <2>1. at[4] \in DOMAIN pairs /\ pairs[at[4]] = a[4]
    BY <1>6 DEF Places
  <2>2. OnlyAt(pairs, "event", at[4])
    BY <1>9, <1>10, <1>11, <1>12, <2>1 DEF OnlyAt
  <2>3. pairs[at[4]].quoted /\ pairs[at[4]].value = e.event
    BY <1>7, <2>1 DEF Pair
  <2> QED BY <2>2, <2>3, StringAt
<1>16. json_get_string(pairs, "file") = e.file
  <2>1. CASE f = <<>>
    <3>1. \A j \in DOMAIN pairs : /\ pairs[j].key # "file"
                                  /\ ~pairs[j].quoted \/ pairs[j].value # "file"
      BY <1>9, <1>11, <1>12, <2>1
    <3> QED BY <1>8, <2>1, <3>1, NotGiven
  <2>2. CASE f # <<>>
    <3>1. pf \in DOMAIN pairs /\ pairs[pf] = x
      BY <1>6, <2>2 DEF Places
    <3>2. OnlyAt(pairs, "file", pf)
      BY <1>9, <1>10, <1>11, <1>12, <2>2, <3>1 DEF OnlyAt
    <3>3. pairs[pf].quoted /\ pairs[pf].value = e.file
      BY <1>2, <3>1 DEF Pair
    <3> QED BY <3>2, <3>3, StringAt
  <2> QED BY <2>1, <2>2
<1>17. json_get_string(pairs, "dst") = e.dst
  <2>1. CASE d = <<>>
    <3>1. \A j \in DOMAIN pairs : /\ pairs[j].key # "dst"
                                  /\ ~pairs[j].quoted \/ pairs[j].value # "dst"
      BY <1>9, <1>11, <1>12, <2>1
    <3> QED BY <1>8, <2>1, <3>1, NotGiven
  <2>2. CASE d # <<>>
    <3>1. pd \in DOMAIN pairs /\ pairs[pd] = y
      BY <1>6, <2>2 DEF Places
    <3>2. OnlyAt(pairs, "dst", pd)
      BY <1>9, <1>10, <1>11, <1>12, <2>2, <3>1 DEF OnlyAt
    <3>3. pairs[pd].quoted /\ pairs[pd].value = e.dst
      BY <1>2, <3>1 DEF Pair
    <3> QED BY <3>2, <3>3, StringAt
  <2> QED BY <2>1, <2>2
<1>18. json_get_string(pairs, "domain") = "" /\ json_get_string(pairs, "ip") = ""
  <2>1. ASSUME NEW key \in {"domain", "ip"} PROVE json_get_string(pairs, key) = ""
    <3>1. \A j \in DOMAIN pairs : /\ pairs[j].key # key
                                  /\ ~pairs[j].quoted \/ pairs[j].value # key
      BY <1>9, <1>11, <1>12
    <3> QED BY <3>1, NotGiven
  <2> QED BY <2>1
<1>19. json_get_long(pairs, "pid", NoPid) = e.pid
  <2>1. at[2] \in DOMAIN pairs /\ pairs[at[2]] = a[2]
    BY <1>6 DEF Places
  <2>2. OnlyAt(pairs, "pid", at[2])
    BY <1>9, <1>10, <1>11, <1>12, <2>1 DEF OnlyAt
  <2>3. ~pairs[at[2]].quoted /\ pairs[at[2]].value = ToString(e.pid)
    BY <1>7, <2>1
  <2>4. ToString(e.pid) \in DOMAIN Long /\ Long[ToString(e.pid)] = e.pid
    BY PidsAreRead DEF IsEvent
  <2> QED BY <2>2, <2>3, <2>4, NumberAt
<1>20. FieldsOf(text) = JsonFields(pairs) /\ TimeOf(text) = json_get_string(pairs, "time")
  BY <1>5 DEF FieldsOf, TimeOf
<1>21. ~Skipped(text)
  BY <1>5 DEF Skipped
<1>22. PICK r : r = FieldsOf(text)
  OBVIOUS
<1>23. /\ r.kind = "fields" /\ r.pid = e.pid /\ r.process = e.process /\ r.event = e.event
       /\ r.file = e.file /\ r.dst = e.dst /\ r.ip = "" /\ r.domain = ""
  <2>1. r = JsonFields(pairs)
    BY <1>20, <1>22
  <2>2. /\ r.kind = "fields" /\ r.pid = json_get_long(pairs, "pid", NoPid)
        /\ r.process = json_get_string(pairs, "process")
        /\ r.event = json_get_string(pairs, "event")
        /\ r.file = json_get_string(pairs, "file")
        /\ r.dst = json_get_string(pairs, "dst")
        /\ r.domain = json_get_string(pairs, "domain")
        /\ r.ip = json_get_string(pairs, "ip")
    BY <2>1 DEF JsonFields
  <2>3. r.pid = e.pid
    BY <1>19, <2>2
  <2> QED BY <1>14, <1>15, <1>16, <1>17, <1>18, <2>2, <2>3
<1> QED
  BY <1>13, <1>20, <1>21, <1>22, <1>23 DEF IsReadAs

-----------------------------------------------------------------------------
\* The reader of a row after the parts t, from the state s.
After(s, t) == Fold(TheFold("cells", 0, s, t))

LEMMA AfterIsFold ==
    ASSUME NEW s, NEW t PROVE FoldLeft(CsvStep, s, t) = After(s, t)
BY DEF After, FoldLeft, MapThenFoldSet, Fold, FoldTable, Folded, TheFold, Before

IsRun(h, s, t, n) == h[0] = s /\ \A k \in 1..n : h[k] = CsvStep(h[k - 1], t[k])

LEMMA SomeRun ==
    ASSUME NEW s, NEW t, NEW n \in Nat, n = Len(t), DOMAIN t = 1..n
    PROVE  \E h : IsRun(h, s, t, n) /\ After(s, t) = h[n]
<1> DEFINE f == TheFold("cells", 0, s, t)
<1>1. f.seq = t /\ f.base = s /\ f.of = "cells"
  BY DEF TheFold
<1> HIDE DEF f
<1>2. PICK h : Steps(h, f) /\ Fold(f) = h[n]
  BY <1>1, FoldSteps
<1>3. IsRun(h, s, t, n)
  BY <1>1, <1>2 DEF Steps, Folded, IsRun
<1> QED BY <1>2, <1>3 DEF After, f

LEMMA RunsAgree ==
    ASSUME NEW s, NEW t, NEW n \in Nat, NEW g, NEW h, IsRun(g, s, t, n), IsRun(h, s, t, n)
    PROVE  g[n] = h[n]
<1> DEFINE bad == { k \in 0..n : g[k] # h[k] }
<1>1. 0 \notin bad
  BY DEF IsRun
<1>2. bad = {}
  <2> SUFFICES ASSUME bad # {} PROVE FALSE
    OBVIOUS
  <2>1. PICK k \in bad : \A m \in bad : k <= m
    <3>1. bad \subseteq Nat
      OBVIOUS
    <3> HIDE DEF bad
    <3>2. Min(bad) \in bad /\ \A m \in bad : Min(bad) <= m
      BY <3>1, MinExists
    <3> QED BY <3>2
  <2>2. k \in 1..n /\ k - 1 \in 0..n /\ ~(k <= k - 1)
    <3>1. k \in 0..n /\ k # 0
      BY <1>1
    <3> QED BY <3>1
  <2>3. g[k - 1] = h[k - 1]
    <3>1. k - 1 \notin bad
      <4> HIDE DEF bad
      <4> QED BY <2>1, <2>2
    <3> QED BY <2>2, <3>1
  <2>4. g[k] = h[k]
    BY <2>2, <2>3 DEF IsRun
  <2> QED BY <2>4
<1> QED BY <1>2

LEMMA AfterRun ==
    ASSUME NEW s, NEW t, NEW n \in Nat, n = Len(t), DOMAIN t = 1..n, NEW h, IsRun(h, s, t, n)
    PROVE  After(s, t) = h[n]
<1>1. PICK g : IsRun(g, s, t, n) /\ After(s, t) = g[n]
  BY SomeRun
<1> QED BY <1>1, RunsAgree

IsParts(t, T) == t \in Seq(T)

AreGlued(a, b, c, T) == IsParts(a, T) /\ IsParts(b, T) /\ c = a \o b

LEMMA GluedParts ==
    ASSUME NEW T, NEW a, NEW b, NEW c, AreGlued(a, b, c, T) PROVE IsParts(c, T)
BY DEF AreGlued, IsParts

LEMMA AfterBoth ==
    ASSUME NEW T, NEW a, NEW b, NEW c, AreGlued(a, b, c, T), NEW s
    PROVE  After(s, c) = After(After(s, a), b)
<1>1. a \in Seq(T) /\ b \in Seq(T)
  BY DEF AreGlued, IsParts
<1>2. PICK m, n \in Nat : m = Len(a) /\ n = Len(b) /\ DOMAIN a = 1..m /\ DOMAIN b = 1..n
  BY <1>1
<1>3. c = a \o b
  BY DEF AreGlued
<1>4. c \in Seq(T) /\ Len(c) = m + n
  BY <1>1, <1>2, <1>3
<1>5. /\ \A k \in 1..m : c[k] = a[k]
      /\ \A k \in (m + 1)..(m + n) : c[k] = b[k - m]
  BY <1>1, <1>2, <1>3
<1>6. PICK g : IsRun(g, s, a, m) /\ After(s, a) = g[m]
  BY <1>2, SomeRun
<1>7. PICK h : IsRun(h, g[m], b, n) /\ After(g[m], b) = h[n]
  BY <1>2, SomeRun
<1>8. PICK r : r = [k \in 0..(m + n) |-> IF k <= m THEN g[k] ELSE h[k - m]]
  OBVIOUS
<1>9. IsRun(r, s, c, m + n)
  <2>1. r[0] = s
    BY <1>6, <1>8 DEF IsRun
  <2>2. ASSUME NEW k \in 1..m PROVE r[k] = CsvStep(r[k - 1], c[k])
    <3>1. r[k] = g[k] /\ r[k - 1] = g[k - 1]
      BY <1>8
    <3> QED BY <1>5, <1>6, <3>1 DEF IsRun
  <2>3. ASSUME NEW k \in (m + 1)..(m + n) PROVE r[k] = CsvStep(r[k - 1], c[k])
    <3>1. k - m \in 1..n /\ (k - m) - 1 = (k - 1) - m
      OBVIOUS
    <3>2. r[k] = h[k - m]
      BY <1>8
    <3>3. r[k - 1] = h[(k - m) - 1]
      <4>1. CASE k - 1 > m
        BY <1>8, <4>1
      <4>2. CASE k - 1 = m
        BY <1>7, <1>8, <4>2 DEF IsRun
      <4> QED BY <4>1, <4>2
    <3>4. h[k - m] = CsvStep(h[(k - m) - 1], b[k - m])
      BY <1>7, <3>1 DEF IsRun
    <3> QED BY <1>5, <3>2, <3>3, <3>4
  <2>4. \A k \in 1..(m + n) : k \in 1..m \/ k \in (m + 1)..(m + n)
    OBVIOUS
  <2> QED BY <2>1, <2>2, <2>3, <2>4 DEF IsRun
<1>10. r[m + n] = h[n]
  <2>1. CASE n > 0
    BY <1>8, <2>1
  <2>2. CASE n = 0
    BY <1>7, <1>8, <2>2 DEF IsRun
  <2> QED BY <2>1, <2>2
<1>11. After(s, c) = r[m + n]
  <2>1. PICK len \in Nat : len = m + n
    OBVIOUS
  <2>2. len = Len(c) /\ DOMAIN c = 1..len
    BY <1>4, <2>1
  <2>3. IsRun(r, s, c, len)
    BY <1>9, <2>1
  <2> QED BY <2>1, <2>2, <2>3, AfterRun
<1> QED BY <1>6, <1>7, <1>10, <1>11

-----------------------------------------------------------------------------
LEMMA AfterOne ==
    ASSUME NEW s, NEW x PROVE After(s, <<x>>) = CsvStep(s, x)
<1>1. PICK t : t = <<x>>
  OBVIOUS
<1>2. Len(t) = 1 /\ DOMAIN t = 1..1 /\ t[1] = x
  BY <1>1
<1>3. PICK h : IsRun(h, s, t, 1) /\ After(s, t) = h[1]
  BY <1>2, SomeRun
<1>4. h[0] = s /\ h[1] = CsvStep(h[0], t[1])
  BY <1>3 DEF IsRun
<1> QED BY <1>1, <1>2, <1>3, <1>4

LEMMA AfterTwo ==
    ASSUME NEW s, NEW x, NEW y PROVE After(s, <<x, y>>) = CsvStep(CsvStep(s, x), y)
<1>1. PICK t : t = <<x, y>>
  OBVIOUS
<1>2. Len(t) = 2 /\ DOMAIN t = 1..2 /\ t[1] = x /\ t[2] = y
  BY <1>1
<1>3. PICK h : IsRun(h, s, t, 2) /\ After(s, t) = h[2]
  BY <1>2, SomeRun
<1>4. h[0] = s /\ h[1] = CsvStep(h[0], t[1]) /\ h[2] = CsvStep(h[1], t[2])
  BY <1>3 DEF IsRun
<1> QED BY <1>1, <1>2, <1>3, <1>4

LEMMA AfterThree ==
    ASSUME NEW s, NEW x, NEW y, NEW z
    PROVE  After(s, <<x, y, z>>) = CsvStep(CsvStep(CsvStep(s, x), y), z)
<1>1. PICK t : t = <<x, y, z>>
  OBVIOUS
<1>2. Len(t) = 3 /\ DOMAIN t = 1..3 /\ t[1] = x /\ t[2] = y /\ t[3] = z
  BY <1>1
<1>3. PICK h : IsRun(h, s, t, 3) /\ After(s, t) = h[3]
  BY <1>2, SomeRun
<1>4. /\ h[0] = s /\ h[1] = CsvStep(h[0], t[1]) /\ h[2] = CsvStep(h[1], t[2])
      /\ h[3] = CsvStep(h[2], t[3])
  BY <1>3 DEF IsRun
<1> QED BY <1>1, <1>2, <1>3, <1>4

LEMMA AfterFour ==
    ASSUME NEW s, NEW x, NEW y, NEW z, NEW w
    PROVE  After(s, <<x, y, z, w>>) = CsvStep(CsvStep(CsvStep(CsvStep(s, x), y), z), w)
<1>1. PICK t : t = <<x, y, z, w>>
  OBVIOUS
<1>2. Len(t) = 4 /\ DOMAIN t = 1..4 /\ t[1] = x /\ t[2] = y /\ t[3] = z /\ t[4] = w
  BY <1>1
<1>3. PICK h : IsRun(h, s, t, 4) /\ After(s, t) = h[4]
  BY <1>2, SomeRun
<1>4. /\ h[0] = s /\ h[1] = CsvStep(h[0], t[1]) /\ h[2] = CsvStep(h[1], t[2])
      /\ h[3] = CsvStep(h[2], t[3]) /\ h[4] = CsvStep(h[3], t[4])
  BY <1>3 DEF IsRun
<1> QED BY <1>1, <1>2, <1>3, <1>4

\* The reader between two cells, and inside of one.
NewCell(cells) == [mode |-> "start", cell |-> "", cells |-> cells]
InCell(mode, v, cells) == [mode |-> mode, cell |-> v, cells |-> cells]

OneCell(v) == v # Q /\ v # C

LEMMA CleanIsOneCell == ASSUME NEW v, Clean(v) PROVE OneCell(v)
BY DEF Clean, Separates, OneCell

LEMMA CellSteps ==
    ASSUME NEW cells, NEW v, OneCell(v)
    PROVE  /\ CsvStep(NewCell(cells), Q) = InCell("quoted", "", cells)
           /\ CsvStep(InCell("quoted", "", cells), v) = InCell("quoted", v, cells)
           /\ CsvStep(InCell("quoted", v, cells), Q) = InCell("quote", v, cells)
           /\ CsvStep(InCell("quote", v, cells), C) = NewCell(Append(cells, v))
           /\ CsvStep(NewCell(cells), v) = InCell("plain", v, cells)
           /\ CsvStep(InCell("plain", v, cells), C) = NewCell(Append(cells, v))
           /\ CsvStep(NewCell(cells), C) = NewCell(Append(cells, ""))
<1>1. v # Q /\ v # C /\ Q # C
  BY DEF OneCell, Q, C
<1>2. /\ CsvStep(NewCell(cells), Q) = InCell("quoted", "", cells)
      /\ CsvStep(InCell("quoted", v, cells), Q) = InCell("quote", v, cells)
  BY DEF CsvStep, NewCell, InCell
<1>3. /\ CsvStep(InCell("quoted", "", cells), v) = InCell("quoted", v, cells)
      /\ CsvStep(NewCell(cells), v) = InCell("plain", v, cells)
  BY <1>1 DEF CsvStep, NewCell, InCell, Joined
<1>4. /\ CsvStep(InCell("quote", v, cells), C) = NewCell(Append(cells, v))
      /\ CsvStep(InCell("plain", v, cells), C) = NewCell(Append(cells, v))
      /\ CsvStep(NewCell(cells), C) = NewCell(Append(cells, ""))
  BY <1>1 DEF CsvStep, NewCell, InCell
<1> QED BY <1>2, <1>3, <1>4

LEMMA QuotedCell ==
    ASSUME NEW cells, NEW v, OneCell(v)
    PROVE  After(NewCell(cells), Quoted(v)) = NewCell(Append(cells, v))
<1>1. CASE v = ""
  <2>1. CsvStep(InCell("quoted", "", cells), Q) = InCell("quote", "", cells)
    BY <1>1, CellSteps
  <2>2. After(NewCell(cells), <<Q, Q, C>>) = NewCell(Append(cells, ""))
    <3>1. CsvStep(NewCell(cells), Q) = InCell("quoted", "", cells)
      BY <1>1, CellSteps
    <3>2. CsvStep(InCell("quote", "", cells), C) = NewCell(Append(cells, ""))
      BY <1>1, CellSteps
    <3>3. After(NewCell(cells), <<Q, Q, C>>) = CsvStep(CsvStep(CsvStep(NewCell(cells), Q), Q), C)
      BY AfterThree
    <3> QED BY <2>1, <3>1, <3>2, <3>3
  <2> QED BY <1>1, <2>2 DEF Quoted
<1>2. CASE v # ""
  <2>1. After(NewCell(cells), <<Q, v, Q, C>>) = NewCell(Append(cells, v))
    <3>1. CsvStep(NewCell(cells), Q) = InCell("quoted", "", cells)
      BY CellSteps
    <3>2. CsvStep(InCell("quoted", "", cells), v) = InCell("quoted", v, cells)
      BY CellSteps
    <3>3. CsvStep(InCell("quoted", v, cells), Q) = InCell("quote", v, cells)
      BY CellSteps
    <3>4. CsvStep(InCell("quote", v, cells), C) = NewCell(Append(cells, v))
      BY CellSteps
    <3>5. After(NewCell(cells), <<Q, v, Q, C>>)
            = CsvStep(CsvStep(CsvStep(CsvStep(NewCell(cells), Q), v), Q), C)
      BY AfterFour
    <3> QED BY <3>1, <3>2, <3>3, <3>4, <3>5
  <2> QED BY <1>2, <2>1 DEF Quoted
<1> QED BY <1>1, <1>2

LEMMA PlainCell ==
    ASSUME NEW cells, NEW v, OneCell(v)
    PROVE  CsvStep(CsvStep(NewCell(cells), v), C) = NewCell(Append(cells, v))
BY CellSteps

\* The cells of a generated row, and of the header.
LEMMA CellsOfRow ==
    ASSUME NEW i, NEW e, IsEvent(e), Clean(GeneratedTime(i))
    PROVE  After(Start, CsvRow(i, e).tokens)
             = NewCell(Append(Append(Append(Append(Append(Append(Append(<<>>, GeneratedTime(i)),
                 ToString(e.pid)), e.process), e.event), e.file), e.dst), ""))
<1>1. PICK T : T = {GeneratedTime(i), ToString(e.pid), e.process, e.event, e.file, e.dst, Q, C}
  OBVIOUS
<1>2. ASSUME NEW v \in T PROVE IsParts(Quoted(v), T)
  <2>1. Q \in T /\ C \in T
    BY <1>1
  <2>2. <<Q, Q, C>> \in Seq(T) /\ <<Q, v, Q, C>> \in Seq(T)
    BY <2>1
  <2> QED BY <2>2 DEF IsParts, Quoted
<1>3. IsParts(<<ToString(e.pid), C>>, T) /\ IsParts(<<C>>, T)
  BY <1>1 DEF IsParts
<1>4. PICK w, p, x, y, z, d, l :
        /\ w = Quoted(GeneratedTime(i)) /\ p = <<ToString(e.pid), C>> /\ x = Quoted(e.process)
        /\ y = Quoted(e.event) /\ z = Quoted(e.file) /\ d = Quoted(e.dst) /\ l = <<C>>
  OBVIOUS
<1>5. /\ IsParts(w, T) /\ IsParts(p, T) /\ IsParts(x, T) /\ IsParts(y, T)
      /\ IsParts(z, T) /\ IsParts(d, T) /\ IsParts(l, T)
  BY <1>1, <1>2, <1>3, <1>4
<1>6. CsvRow(i, e).tokens = w \o p \o x \o y \o z \o d \o l
  BY <1>4 DEF CsvRow
<1>7. PICK b2, b3, b4, b5, b6 : /\ b2 = w \o p /\ b3 = b2 \o x /\ b4 = b3 \o y
                                /\ b5 = b4 \o z /\ b6 = b5 \o d
  OBVIOUS
<1>8. After(Start, b2) = After(After(Start, w), p) /\ IsParts(b2, T)
  <2>1. AreGlued(w, p, b2, T)
    BY <1>5, <1>7 DEF AreGlued
  <2> QED BY <2>1, AfterBoth, GluedParts
<1>9. After(Start, b3) = After(After(Start, b2), x) /\ IsParts(b3, T)
  <2>1. AreGlued(b2, x, b3, T)
    BY <1>5, <1>8, <1>7 DEF AreGlued
  <2> QED BY <2>1, AfterBoth, GluedParts
<1>10. After(Start, b4) = After(After(Start, b3), y) /\ IsParts(b4, T)
  <2>1. AreGlued(b3, y, b4, T)
    BY <1>5, <1>9, <1>7 DEF AreGlued
  <2> QED BY <2>1, AfterBoth, GluedParts
<1>11. After(Start, b5) = After(After(Start, b4), z) /\ IsParts(b5, T)
  <2>1. AreGlued(b4, z, b5, T)
    BY <1>5, <1>10, <1>7 DEF AreGlued
  <2> QED BY <2>1, AfterBoth, GluedParts
<1>12. After(Start, b6) = After(After(Start, b5), d) /\ IsParts(b6, T)
  <2>1. AreGlued(b5, d, b6, T)
    BY <1>5, <1>11, <1>7 DEF AreGlued
  <2> QED BY <2>1, AfterBoth, GluedParts
<1>13. After(Start, b6 \o l) = After(After(Start, b6), l)
  <2>1. AreGlued(b6, l, b6 \o l, T)
    BY <1>5, <1>12 DEF AreGlued
  <2> QED BY <2>1, AfterBoth
<1>14. PICK c1, c2, c3, c4, c5, c6, c7 :
        /\ c1 = Append(<<>>, GeneratedTime(i)) /\ c2 = Append(c1, ToString(e.pid))
        /\ c3 = Append(c2, e.process) /\ c4 = Append(c3, e.event) /\ c5 = Append(c4, e.file)
        /\ c6 = Append(c5, e.dst) /\ c7 = Append(c6, "")
  OBVIOUS
<1>15. /\ OneCell(GeneratedTime(i)) /\ OneCell(e.process) /\ OneCell(e.event)
       /\ OneCell(e.file) /\ OneCell(e.dst)
  BY CleanIsOneCell DEF IsEvent
<1>16. After(Start, w) = NewCell(c1)
  <2>1. Start = NewCell(<<>>)
    BY DEF Start, NewCell
  <2> QED BY <1>4, <1>14, <1>15, <2>1, QuotedCell
<1>17. After(Start, b2) = NewCell(c2)
  <2>1. OneCell(ToString(e.pid))
    BY PidsAreRead, CleanIsOneCell DEF IsEvent
  <2>2. After(NewCell(c1), p) = CsvStep(CsvStep(NewCell(c1), ToString(e.pid)), C)
    BY <1>4, AfterTwo
  <2>3. CsvStep(CsvStep(NewCell(c1), ToString(e.pid)), C) = NewCell(c2)
    BY <1>14, <2>1, PlainCell
  <2> QED BY <1>8, <1>16, <2>2, <2>3
<1>18. After(Start, b3) = NewCell(c3)
  <2>1. After(NewCell(c2), x) = NewCell(c3)
    BY <1>4, <1>14, <1>15, QuotedCell
  <2> QED BY <1>9, <1>17, <2>1
<1>19. After(Start, b4) = NewCell(c4)
  <2>1. After(NewCell(c3), y) = NewCell(c4)
    BY <1>4, <1>14, <1>15, QuotedCell
  <2> QED BY <1>10, <1>18, <2>1
<1>20. After(Start, b5) = NewCell(c5)
  <2>1. After(NewCell(c4), z) = NewCell(c5)
    BY <1>4, <1>14, <1>15, QuotedCell
  <2> QED BY <1>11, <1>19, <2>1
<1>21. After(Start, b6) = NewCell(c6)
  <2>1. After(NewCell(c5), d) = NewCell(c6)
    BY <1>4, <1>14, <1>15, QuotedCell
  <2> QED BY <1>12, <1>20, <2>1
<1>22. After(NewCell(c6), l) = NewCell(c7)
  <2>1. After(NewCell(c6), l) = CsvStep(NewCell(c6), C)
    BY <1>4, AfterOne
  <2>2. CsvStep(NewCell(c6), C) = NewCell(Append(c6, ""))
    <3>1. OneCell("")
      BY LiteralsAreClean, CleanIsOneCell
    <3> QED BY <3>1, CellSteps
  <2> QED BY <1>14, <2>1, <2>2
<1>23. CsvRow(i, e).tokens = b6 \o l
  BY <1>6, <1>7
<1>24. After(Start, CsvRow(i, e).tokens) = NewCell(c7)
  BY <1>13, <1>21, <1>22, <1>23
<1> QED BY <1>14, <1>24

-----------------------------------------------------------------------------
HasCells(b, T, n) == IsParts(b, T) /\ Len(b) = n

OneLonger(c, b, n, x) == c[n + 1] = x /\ \A k \in 1..n : c[k] = b[k]

AreAdded(T, b, n, x, c) == n \in Nat /\ HasCells(b, T, n) /\ x \in T /\ c = Append(b, x)

LEMMA CellAdded ==
    ASSUME NEW T, NEW b, NEW n, NEW x, NEW c, AreAdded(T, b, n, x, c)
    PROVE  HasCells(c, T, n + 1) /\ OneLonger(c, b, n, x)
<1>1. b \in Seq(T) /\ n \in Nat /\ Len(b) = n /\ x \in T /\ c = Append(b, x)
  BY DEF IsParts, HasCells, AreAdded
<1> QED BY <1>1 DEF IsParts, HasCells, OneLonger

SevenCells(c, a, p, x, y, z, d, l) ==
    /\ c[1] = a /\ c[2] = p /\ c[3] = x /\ c[4] = y /\ c[5] = z /\ c[6] = d /\ c[7] = l

LEMMA CellsInOrder ==
    ASSUME NEW a, NEW p, NEW x, NEW y, NEW z, NEW d, NEW l, NEW c,
           c = Append(Append(Append(Append(Append(Append(Append(<<>>, a), p), x), y), z), d), l)
    PROVE  \E T : IsParts(c, T) /\ Len(c) = 7 /\ SevenCells(c, a, p, x, y, z, d, l)
<1>1. PICK T : T = {a, p, x, y, z, d, l}
  OBVIOUS
<1>2. PICK c1, c2, c3, c4, c5, c6 :
        /\ c1 = Append(<<>>, a) /\ c2 = Append(c1, p) /\ c3 = Append(c2, x)
        /\ c4 = Append(c3, y) /\ c5 = Append(c4, z) /\ c6 = Append(c5, d)
  OBVIOUS
<1>3. c = Append(c6, l)
  BY <1>2
<1>4. HasCells(c1, T, 1) /\ c1[1] = a
  BY <1>1, <1>2 DEF IsParts, HasCells
<1>5. HasCells(c2, T, 2) /\ OneLonger(c2, c1, 1, p)
  <2>1. AreAdded(T, c1, 1, p, c2)
    BY <1>1, <1>2, <1>4 DEF AreAdded
  <2>2. HasCells(c2, T, 1 + 1) /\ OneLonger(c2, c1, 1, p)
    BY <2>1, CellAdded
  <2>3. 1 + 1 = 2
    OBVIOUS
  <2> QED BY <2>2, <2>3
<1>6. HasCells(c3, T, 3) /\ OneLonger(c3, c2, 2, x)
  <2>1. AreAdded(T, c2, 2, x, c3)
    BY <1>1, <1>2, <1>5 DEF AreAdded
  <2>2. HasCells(c3, T, 2 + 1) /\ OneLonger(c3, c2, 2, x)
    BY <2>1, CellAdded
  <2>3. 2 + 1 = 3
    OBVIOUS
  <2> QED BY <2>2, <2>3
<1>7. HasCells(c4, T, 4) /\ OneLonger(c4, c3, 3, y)
  <2>1. AreAdded(T, c3, 3, y, c4)
    BY <1>1, <1>2, <1>6 DEF AreAdded
  <2>2. HasCells(c4, T, 3 + 1) /\ OneLonger(c4, c3, 3, y)
    BY <2>1, CellAdded
  <2>3. 3 + 1 = 4
    OBVIOUS
  <2> QED BY <2>2, <2>3
<1>8. HasCells(c5, T, 5) /\ OneLonger(c5, c4, 4, z)
  <2>1. AreAdded(T, c4, 4, z, c5)
    BY <1>1, <1>2, <1>7 DEF AreAdded
  <2>2. HasCells(c5, T, 4 + 1) /\ OneLonger(c5, c4, 4, z)
    BY <2>1, CellAdded
  <2>3. 4 + 1 = 5
    OBVIOUS
  <2> QED BY <2>2, <2>3
<1>9. HasCells(c6, T, 6) /\ OneLonger(c6, c5, 5, d)
  <2>1. AreAdded(T, c5, 5, d, c6)
    BY <1>1, <1>2, <1>8 DEF AreAdded
  <2>2. HasCells(c6, T, 5 + 1) /\ OneLonger(c6, c5, 5, d)
    BY <2>1, CellAdded
  <2>3. 5 + 1 = 6
    OBVIOUS
  <2> QED BY <2>2, <2>3
<1>10. HasCells(c, T, 7) /\ OneLonger(c, c6, 6, l)
  <2>1. AreAdded(T, c6, 6, l, c)
    BY <1>1, <1>3, <1>9 DEF AreAdded
  <2>2. HasCells(c, T, 6 + 1) /\ OneLonger(c, c6, 6, l)
    BY <2>1, CellAdded
  <2>3. 6 + 1 = 7
    OBVIOUS
  <2> QED BY <2>2, <2>3
<1>11. Len(c) = 7 /\ SevenCells(c, a, p, x, y, z, d, l)
  BY <1>4, <1>5, <1>6, <1>7, <1>8, <1>9, <1>10 DEF OneLonger, HasCells, SevenCells
<1> QED BY <1>10, <1>11 DEF HasCells

\* The cells of a row that has eight at most.
LEMMA RowCells ==
    ASSUME NEW t, NEW T, NEW c, c = CellsOf(After(Start, t)), NEW n \in 1..8, HasCells(c, T, n)
    PROVE  \A k \in 1..n : 1..n = DOMAIN parse_csv_fields(t) /\ parse_csv_fields(t)[k] = c[k]
<1>1. FoldLeft(CsvStep, Start, t) = After(Start, t)
  BY AfterIsFold
<1>2. parse_csv_fields(t) = SubSeq(c, 1, IF Len(c) < MaxFields THEN Len(c) ELSE MaxFields)
  BY <1>1 DEF parse_csv_fields, Start, CellsOf
<1>3. c \in Seq(T) /\ Len(c) = n
  BY DEF HasCells, IsParts
<1>4. parse_csv_fields(t) = SubSeq(c, 1, n)
  BY <1>2, <1>3 DEF MaxFields
<1> QED BY <1>3, <1>4

LEMMA RowIsReadBack ==
    ASSUME NEW i, NEW e, IsEvent(e), Clean(GeneratedTime(i)), NEW text, text = CsvRow(i, e)
    PROVE  IsReadAs(text, i, e)
<1>1. PICK c : c = Append(Append(Append(Append(Append(Append(Append(<<>>, GeneratedTime(i)),
                     ToString(e.pid)), e.process), e.event), e.file), e.dst), "")
  OBVIOUS
<1>2. PICK T : /\ IsParts(c, T) /\ Len(c) = 7
               /\ SevenCells(c, GeneratedTime(i), ToString(e.pid), e.process, e.event, e.file,
                             e.dst, "")
  BY <1>1, CellsInOrder
<1>3. PICK t : t = text.tokens
  OBVIOUS
<1>4. After(Start, t) = NewCell(c)
  BY <1>1, <1>3, CellsOfRow
<1>5. text.kind = "csv"
  BY DEF CsvRow
<1>6. PICK cells : cells = parse_csv_fields(t)
  OBVIOUS
<1>7. DOMAIN cells = 1..7 /\ \A k \in 1..7 : cells[k] = c[k]
  <2>0. CellsOf(NewCell(c)) = c /\ HasCells(c, T, 7)
    BY <1>2 DEF CellsOf, NewCell, HasCells
  <2>3. 7 \in 1..8
    OBVIOUS
  <2>1. \A k \in 1..7 : 1..7 = DOMAIN cells /\ cells[k] = c[k]
    BY <1>4, <1>6, <2>0, <2>3, RowCells
  <2>2. 1 \in 1..7
    OBVIOUS
  <2> QED BY <2>1, <2>2
<1>8. SevenCells(cells, GeneratedTime(i), ToString(e.pid), e.process, e.event, e.file, e.dst, "")
  <2>1. 1 \in 1..7 /\ 2 \in 1..7 /\ 3 \in 1..7 /\ 4 \in 1..7 /\ 5 \in 1..7 /\ 6 \in 1..7 /\ 7 \in 1..7
    OBVIOUS
  <2> QED BY <1>2, <1>7, <2>1 DEF SevenCells
<1>9. /\ Cell(cells, 1) = GeneratedTime(i) /\ Cell(cells, 2) = ToString(e.pid)
      /\ Cell(cells, 3) = e.process /\ Cell(cells, 4) = e.event /\ Cell(cells, 5) = e.file
      /\ Cell(cells, 6) = e.dst /\ Cell(cells, 7) = ""
  <2>1. 1 \in 1..7 /\ 2 \in 1..7 /\ 3 \in 1..7 /\ 4 \in 1..7 /\ 5 \in 1..7 /\ 6 \in 1..7 /\ 7 \in 1..7
    OBVIOUS
  <2> QED BY <1>7, <1>8, <2>1 DEF Cell, SevenCells
<1>10. Cell(cells, 8) = ""
  <2>1. 8 \notin DOMAIN cells
    BY <1>7
  <2> QED BY <2>1 DEF Cell
<1>11. ~is_csv_header_fields(cells)
  <2>1. ToString(e.pid) # "pid" /\ ToString(e.pid) \notin DOMAIN Lower
    BY PidsAreRead DEF IsEvent
  <2>2. ~str_ieq(ToString(e.pid), "pid")
    BY <2>1 DEF str_ieq
  <2> QED BY <1>9, <2>2 DEF is_csv_header_fields
<1>12. PICK r : r = FieldsOf(text)
  OBVIOUS
<1>13. r = CsvFields(cells) /\ TimeOf(text) = Cell(cells, 1)
  BY <1>3, <1>5, <1>6, <1>12 DEF FieldsOf, TimeOf
<1>14. /\ r.kind = "fields" /\ r.process = Cell(cells, 3) /\ r.event = Cell(cells, 4)
       /\ r.file = Cell(cells, 5) /\ r.dst = Cell(cells, 6)
       /\ r.domain = Cell(cells, 7) /\ r.ip = Cell(cells, 8)
  BY <1>11, <1>13 DEF CsvFields
<1>15. r.pid = e.pid
  <2>1. ToString(e.pid) \in DOMAIN Long /\ Long[ToString(e.pid)] = e.pid
    BY PidsAreRead DEF IsEvent
  <2>2. r.pid = IF Cell(cells, 2) \in DOMAIN Long THEN Long[Cell(cells, 2)] ELSE NoPid
    BY <1>13 DEF CsvFields
  <2>3. Cell(cells, 2) = ToString(e.pid)
    BY <1>9
  <2> QED BY <2>1, <2>2, <2>3
<1>16. ~Skipped(text)
  BY <1>5 DEF Skipped
<1> QED BY <1>9, <1>10, <1>12, <1>13, <1>14, <1>15, <1>16 DEF IsReadAs

PairOf(s, x, m) == CsvStep(CsvStep(s, x), m)

LEMMA AfterHeader ==
    ASSUME NEW s, NEW m, NEW a, NEW p, NEW x, NEW y, NEW z, NEW d, NEW l, NEW last
    PROVE  After(s, <<a, m, p, m, x, m, y, m, z, m, d, m, l, m, last>>)
             = CsvStep(PairOf(PairOf(PairOf(PairOf(PairOf(PairOf(PairOf(s, a, m), p, m), x, m),
                 y, m), z, m), d, m), l, m), last)
<1>1. PICK t : t = <<a, m, p, m, x, m, y, m, z, m, d, m, l, m, last>>
  OBVIOUS
<1>2. Len(t) = 15 /\ DOMAIN t = 1..15
  BY <1>1
<1>3. /\ t[1] = a /\ t[3] = p /\ t[5] = x /\ t[7] = y /\ t[9] = z /\ t[11] = d /\ t[13] = l
      /\ t[2] = m /\ t[4] = m /\ t[6] = m /\ t[8] = m /\ t[10] = m /\ t[12] = m /\ t[14] = m
      /\ t[15] = last
  BY <1>1
<1>4. PICK h : IsRun(h, s, t, 15) /\ After(s, t) = h[15]
  <2>1. PICK n \in Nat : n = 15
    OBVIOUS
  <2>2. n = Len(t) /\ DOMAIN t = 1..n
    BY <1>2, <2>1
  <2>3. PICK h : IsRun(h, s, t, n) /\ After(s, t) = h[n]
    BY <2>2, SomeRun
  <2> QED BY <2>1, <2>3
<1>5. /\ h[0] = s /\ h[1] = CsvStep(h[0], t[1]) /\ h[2] = CsvStep(h[1], t[2])
      /\ h[3] = CsvStep(h[2], t[3]) /\ h[4] = CsvStep(h[3], t[4]) /\ h[5] = CsvStep(h[4], t[5])
      /\ h[6] = CsvStep(h[5], t[6]) /\ h[7] = CsvStep(h[6], t[7]) /\ h[8] = CsvStep(h[7], t[8])
  BY <1>4 DEF IsRun
<1>6. /\ h[9] = CsvStep(h[8], t[9]) /\ h[10] = CsvStep(h[9], t[10])
      /\ h[11] = CsvStep(h[10], t[11]) /\ h[12] = CsvStep(h[11], t[12])
      /\ h[13] = CsvStep(h[12], t[13]) /\ h[14] = CsvStep(h[13], t[14])
      /\ h[15] = CsvStep(h[14], t[15])
  BY <1>4 DEF IsRun
<1>7. h[2] = PairOf(s, a, m) /\ h[4] = PairOf(h[2], p, m) /\ h[6] = PairOf(h[4], x, m)
  BY <1>3, <1>5 DEF PairOf
<1>8. h[8] = PairOf(h[6], y, m)
  BY <1>3, <1>5 DEF PairOf
<1>9. h[10] = PairOf(h[8], z, m) /\ h[12] = PairOf(h[10], d, m) /\ h[14] = PairOf(h[12], l, m)
  BY <1>3, <1>6 DEF PairOf
<1>10. h[15] = CsvStep(h[14], last)
  BY <1>3, <1>6
<1> QED BY <1>1, <1>4, <1>7, <1>8, <1>9, <1>10

LEMMA HeaderIsRead == ~Skipped(CsvHeader) /\ is_header(FieldsOf(CsvHeader))
<1>1. PICK t : t = CsvHeader.tokens
  OBVIOUS
<1>2. /\ OneCell("time") /\ OneCell("pid") /\ OneCell("process") /\ OneCell("event")
      /\ OneCell("file") /\ OneCell("dst") /\ OneCell("domain") /\ OneCell("ip")
  BY DEF OneCell, Q, C
<1>3. t = <<"time", C, "pid", C, "process", C, "event", C, "file", C, "dst", C, "domain", C, "ip">>
  BY <1>1 DEF CsvHeader
<1>4. PICK c1, c2, c3, c4, c5, c6, c7 :
        /\ c1 = Append(<<>>, "time") /\ c2 = Append(c1, "pid") /\ c3 = Append(c2, "process")
        /\ c4 = Append(c3, "event") /\ c5 = Append(c4, "file") /\ c6 = Append(c5, "dst")
        /\ c7 = Append(c6, "domain")
  OBVIOUS
<1>5. /\ PairOf(NewCell(<<>>), "time", C) = NewCell(c1)
      /\ PairOf(NewCell(c1), "pid", C) = NewCell(c2)
      /\ PairOf(NewCell(c2), "process", C) = NewCell(c3)
  BY <1>2, <1>4, PlainCell DEF PairOf
<1>6. /\ PairOf(NewCell(c3), "event", C) = NewCell(c4)
      /\ PairOf(NewCell(c4), "file", C) = NewCell(c5)
      /\ PairOf(NewCell(c5), "dst", C) = NewCell(c6)
      /\ PairOf(NewCell(c6), "domain", C) = NewCell(c7)
  BY <1>2, <1>4, PlainCell DEF PairOf
<1>7. CsvStep(NewCell(c7), "ip") = InCell("plain", "ip", c7)
  BY <1>2, CellSteps
<1>8. After(Start, t) = InCell("plain", "ip", c7)
  <2>1. Start = NewCell(<<>>)
    BY DEF Start, NewCell
  <2>2. After(Start, t)
          = CsvStep(PairOf(PairOf(PairOf(PairOf(PairOf(PairOf(PairOf(Start, "time", C), "pid", C),
              "process", C), "event", C), "file", C), "dst", C), "domain", C), "ip")
    BY <1>3, AfterHeader
  <2> QED BY <1>5, <1>6, <1>7, <2>1, <2>2
<1>9. PICK T : /\ IsParts(c7, T) /\ Len(c7) = 7
               /\ SevenCells(c7, "time", "pid", "process", "event", "file", "dst", "domain")
  <2>1. PICK a, p, x, y, z, d, l :
          /\ a = "time" /\ p = "pid" /\ x = "process" /\ y = "event" /\ z = "file"
          /\ d = "dst" /\ l = "domain"
    OBVIOUS
  <2>2. c7 = Append(Append(Append(Append(Append(Append(Append(<<>>, a), p), x), y), z), d), l)
    BY <1>4, <2>1
  <2>3. PICK T : IsParts(c7, T) /\ Len(c7) = 7 /\ SevenCells(c7, a, p, x, y, z, d, l)
    BY <2>2, CellsInOrder
  <2> QED BY <2>1, <2>3
<1>10. PICK c : c = Append(c7, "ip")
  OBVIOUS
<1>11. HasCells(c, T \cup {"ip"}, 8) /\ OneLonger(c, c7, 7, "ip")
  <2>1. c7 \in Seq(T)
    BY <1>9 DEF IsParts
  <2>2. AreAdded(T \cup {"ip"}, c7, 7, "ip", c)
    BY <1>9, <1>10, <2>1 DEF AreAdded, HasCells, IsParts
  <2>3. HasCells(c, T \cup {"ip"}, 7 + 1) /\ OneLonger(c, c7, 7, "ip")
    BY <2>2, CellAdded
  <2>4. 7 + 1 = 8
    OBVIOUS
  <2> QED BY <2>3, <2>4
<1>12. PICK cells : cells = parse_csv_fields(t)
  OBVIOUS
<1>13. \A k \in 1..8 : k \in DOMAIN cells /\ cells[k] = c[k]
  <2>1. c = CellsOf(After(Start, t)) /\ 8 \in 1..8
    BY <1>8, <1>10 DEF CellsOf, InCell
  <2>2. \A k \in 1..8 : 1..8 = DOMAIN cells /\ cells[k] = c[k]
    BY <1>11, <1>12, <2>1, RowCells
  <2> QED BY <2>2
<1>14. Cell(cells, 1) = "time" /\ Cell(cells, 2) = "pid" /\ Cell(cells, 3) = "process"
  <2>1. 1 \in 1..8 /\ 2 \in 1..8 /\ 3 \in 1..8 /\ 1 \in 1..7 /\ 2 \in 1..7 /\ 3 \in 1..7
    OBVIOUS
  <2> QED BY <1>9, <1>11, <1>13, <2>1 DEF Cell, SevenCells, OneLonger
<1>15. is_csv_header_fields(cells)
  BY <1>14 DEF is_csv_header_fields, str_ieq
<1>16. CsvHeader.kind = "csv"
  BY DEF CsvHeader
<1>17. FieldsOf(CsvHeader) = CsvFields(cells)
  BY <1>1, <1>12, <1>16 DEF FieldsOf
<1> QED BY <1>15, <1>16, <1>17 DEF CsvFields, is_header, Skipped

-----------------------------------------------------------------------------
(***************************************************************************)
(* The lines read are counted: events and malformed ones, and the end of   *)
(* the file is met after the last of them.                                 *)
(***************************************************************************)
MalformedRead == { i \in 1..pos : ~Skipped(file[i]) /\ malformed(FieldsOf(file[i])) }

GeneratedFile == generated = NoFile \/ (generated \in GeneratorOptions /\ file = Generated(generated))

CountInv ==
    /\ events_processed = Cardinality(EventsRead)
    /\ malformed_lines = Cardinality(MalformedRead)
    /\ ~reading => pos = Len(file)

LEMMA ReadSetsAreFinite ==
    ASSUME FileInv
    PROVE  /\ IsFiniteSet(EventsRead) /\ IsFiniteSet(MalformedRead)
           /\ Cardinality(EventsRead) \in Nat /\ Cardinality(MalformedRead) \in Nat
           /\ pos + 1 \notin EventsRead /\ pos + 1 \notin MalformedRead
<1>1. pos \in Nat
  BY DEF FileInv
<1>2. IsFiniteSet(1..pos) /\ pos + 1 \notin 1..pos
  BY <1>1, FS_Interval
<1>3. EventsRead \subseteq 1..pos /\ MalformedRead \subseteq 1..pos
  BY DEF EventsRead, MalformedRead
<1>4. IsFiniteSet(EventsRead) /\ IsFiniteSet(MalformedRead)
  BY <1>2, <1>3, FS_Subset
<1> QED BY <1>2, <1>3, <1>4, FS_CardinalityType

LEMMA SetsReadNext ==
    ASSUME FileInv, NextLine, NEW i, i = pos + 1, NEW line, line = FieldsOf(file[i])
    PROVE  /\ EventsRead' = IF ~Skipped(file[i]) /\ parse_event_line(line)
                              THEN EventsRead \cup {i} ELSE EventsRead
           /\ MalformedRead' = IF ~Skipped(file[i]) /\ malformed(line)
                                 THEN MalformedRead \cup {i} ELSE MalformedRead
<1>1. pos' = pos + 1 /\ file' = file /\ pos \in Nat
  BY DEF NextLine, FileInv
<1>2. 1..pos' = (1..pos) \cup {i}
  BY <1>1
<1>3. EventsRead' = { j \in (1..pos) \cup {i} : ~Skipped(file[j]) /\ parse_event_line(FieldsOf(file[j])) }
  BY <1>1, <1>2 DEF EventsRead
<1>4. MalformedRead' = { j \in (1..pos) \cup {i} : ~Skipped(file[j]) /\ malformed(FieldsOf(file[j])) }
  BY <1>1, <1>2 DEF MalformedRead
<1>5. EventsRead' = IF ~Skipped(file[i]) /\ parse_event_line(line)
                      THEN EventsRead \cup {i} ELSE EventsRead
  BY <1>3 DEF EventsRead
<1>6. MalformedRead' = IF ~Skipped(file[i]) /\ malformed(line)
                         THEN MalformedRead \cup {i} ELSE MalformedRead
  BY <1>4 DEF MalformedRead
<1> QED BY <1>5, <1>6

LEMMA InitCount == Init => CountInv /\ GeneratedFile
<1> SUFFICES ASSUME Init PROVE CountInv /\ GeneratedFile
  OBVIOUS
<1>1. pos = 0 /\ events_processed = 0 /\ malformed_lines = 0 /\ reading
  BY DEF Init, ReadInit, GraphInit
<1>2. EventsRead = {} /\ MalformedRead = {}
  BY <1>1 DEF EventsRead, MalformedRead
<1>3. Cardinality({}) = 0
  BY FS_EmptySet
<1>4. GeneratedFile
  BY DEF Init, GeneratedFile
<1> QED BY <1>1, <1>2, <1>3, <1>4 DEF CountInv

LEMMA StepCount ==
    ReadInv /\ CountInv /\ GeneratedFile /\ [Next]_vars => CountInv' /\ GeneratedFile'
<1> SUFFICES ASSUME ReadInv, CountInv, GeneratedFile, [Next]_vars
             PROVE  CountInv' /\ GeneratedFile'
  OBVIOUS
<1>1. FileInv
  BY DEF ReadInv
<1>2. generated' = generated /\ file' = file
  <2>1. CASE Read
    BY <2>1 DEF Read, ReadNext, ReadLine, NextLine, EndOfFile
  <2>2. CASE Next /\ ~Read
    BY <2>2 DEF Next, GraphCommand, GraphTimelineCommand, TimelineCommand, SimilarityCommand,
                Show, readVars
  <2>3. CASE UNCHANGED vars
    BY <2>3 DEF vars, readVars
  <2> QED BY <2>1, <2>2, <2>3
<1>3. GeneratedFile'
  BY <1>2 DEF GeneratedFile
<1>4. PICK i, line : i = pos + 1 /\ line = FieldsOf(file[i])
  OBVIOUS
<1>5. /\ IsFiniteSet(EventsRead) /\ IsFiniteSet(MalformedRead)
      /\ i \notin EventsRead /\ i \notin MalformedRead
      /\ Cardinality(EventsRead) \in Nat /\ Cardinality(MalformedRead) \in Nat
  BY <1>1, <1>4, ReadSetsAreFinite
<1>6. /\ Cardinality(EventsRead \cup {i}) = Cardinality(EventsRead) + 1
      /\ Cardinality(MalformedRead \cup {i}) = Cardinality(MalformedRead) + 1
  BY <1>5, FS_AddElement
<1>7. ASSUME NextLine
      PROVE  /\ EventsRead' = IF ~Skipped(file[i]) /\ parse_event_line(line)
                                THEN EventsRead \cup {i} ELSE EventsRead
             /\ MalformedRead' = IF ~Skipped(file[i]) /\ malformed(line)
                                   THEN MalformedRead \cup {i} ELSE MalformedRead
  BY <1>1, <1>4, <1>7, SetsReadNext
<1>8. ASSUME NextLine, ReadEvent(file[i]) PROVE CountInv'
  <2>1. /\ ~Skipped(file[i]) /\ parse_event_line(line) /\ ~malformed(line)
        /\ events_processed' = events_processed + 1 /\ malformed_lines' = malformed_lines
        /\ reading' = reading /\ reading
    BY <1>4, <1>8 DEF ReadEvent, GraphIngest, malformed, CanRead
  <2>2. EventsRead' = EventsRead \cup {i} /\ MalformedRead' = MalformedRead
    BY <1>7, <1>8, <2>1
  <2> QED BY <1>6, <2>1, <2>2 DEF CountInv
<1>9. ASSUME NextLine, ReadMalformed(file[i]) PROVE CountInv'
  <2>1. /\ ~Skipped(file[i]) /\ ~parse_event_line(line) /\ malformed(line)
        /\ events_processed' = events_processed /\ malformed_lines' = malformed_lines + 1
        /\ reading' = reading /\ reading
    BY <1>4, <1>9 DEF ReadMalformed, GraphMalformed, malformed, CanRead
  <2>2. EventsRead' = EventsRead /\ MalformedRead' = MalformedRead \cup {i}
    BY <1>7, <1>9, <2>1
  <2> QED BY <1>6, <2>1, <2>2 DEF CountInv
<1>10. ASSUME NextLine, ReadNothing(file[i]) PROVE CountInv'
  <2>1. /\ Skipped(file[i]) \/ (~parse_event_line(line) /\ ~malformed(line))
        /\ events_processed' = events_processed /\ malformed_lines' = malformed_lines
        /\ reading' = reading /\ reading
    BY <1>4, <1>10 DEF ReadNothing, graphVars, malformed, parse_event_line, NextLine
  <2>2. EventsRead' = EventsRead /\ MalformedRead' = MalformedRead
    BY <1>7, <1>10, <2>1
  <2> QED BY <2>1, <2>2 DEF CountInv
<1>11. ASSUME EndOfFile PROVE CountInv'
  <2>1. /\ pos = Len(file) /\ pos' = pos
        /\ events_processed' = events_processed /\ malformed_lines' = malformed_lines
    BY <1>11 DEF EndOfFile, GraphEnd
  <2>2. EventsRead' = EventsRead /\ MalformedRead' = MalformedRead
    BY <1>2, <2>1 DEF EventsRead, MalformedRead
  <2> QED BY <1>2, <2>1, <2>2 DEF CountInv
<1>12. ASSUME UNCHANGED readVars PROVE CountInv'
  <2>1. /\ pos' = pos /\ reading' = reading
        /\ events_processed' = events_processed /\ malformed_lines' = malformed_lines
    BY <1>12 DEF readVars, graphVars
  <2>2. EventsRead' = EventsRead /\ MalformedRead' = MalformedRead
    BY <1>2, <2>1 DEF EventsRead, MalformedRead
  <2> QED BY <1>2, <2>1, <2>2 DEF CountInv
<1>13. Read \/ UNCHANGED readVars
  BY DEF Next, GraphCommand, GraphTimelineCommand, TimelineCommand, SimilarityCommand,
         Show, vars
<1>14. CountInv'
  BY <1>4, <1>8, <1>9, <1>10, <1>11, <1>12, <1>13 DEF Read, ReadNext, ReadLine
<1> QED BY <1>3, <1>14

-----------------------------------------------------------------------------
(***************************************************************************)
(* The lines of a generated file, and what is made of them.                *)
(***************************************************************************)
IsWritten(f, o, h) ==
    /\ Len(f) = o.count + h
    /\ h = 1 => f[1] = CsvHeader
    /\ \A i \in 0..(o.count - 1) : IsReadAs(f[i + 1 + h], i, GeneratedEvent(i, o.ratio))

LEMMA OptionsHaveTypes ==
    ASSUME NEW o \in GeneratorOptions
    PROVE  o.count \in Nat /\ o.format \in {"csv", "jsonl"}
BY GeneratedAssumption

LEMMA LineIsReadBack ==
    ASSUME NEW o \in GeneratorOptions, NEW i \in 0..(o.count - 1), NEW e,
           e = GeneratedEvent(i, o.ratio)
    PROVE  /\ e.pid >= 0
           /\ IsReadAs(CsvRow(i, e), i, e) /\ IsReadAs(json_emit_event(i, e), i, e)
<1>1. IsEvent(e) /\ Clean(GeneratedTime(i))
  BY EventsAreClean
<1>2. e.pid \in Nat
  BY <1>1, PidsAreRead DEF IsEvent
<1>3. IsReadAs(CsvRow(i, e), i, e)
  BY <1>1, RowIsReadBack
<1>4. IsReadAs(json_emit_event(i, e), i, e)
  BY <1>1, JsonIsReadBack
<1> QED BY <1>2, <1>3, <1>4

LEMMA AfterFirst ==
    ASSUME NEW n \in Nat, NEW rows, DOMAIN rows = 1..n, rows = [k \in 1..n |-> rows[k]],
           NEW first, NEW f, f = <<first>> \o rows
    PROVE  Len(f) = n + 1 /\ f[1] = first /\ \A k \in 1..n : f[k + 1] = rows[k]
<1>1. PICK T : T = { rows[k] : k \in 1..n } \cup {first}
  OBVIOUS
<1>2. \A k \in 1..n : rows[k] \in T
  BY <1>1
<1>3. rows \in Seq(T) /\ Len(rows) = n
  BY <1>2
<1>4. <<first>> \in Seq(T) /\ Len(<<first>>) = 1
  BY <1>1
<1> QED BY <1>3, <1>4

LEMMA FileIsWritten ==
    ASSUME NEW o \in GeneratorOptions, NEW f, f = Generated(o)
    PROVE  \E h \in {0, 1} : IsWritten(f, o, h)
<1>1. PICK n \in Nat : n = o.count
  BY OptionsHaveTypes
<1>2. PICK e : e = [i \in 0..(n - 1) |-> GeneratedEvent(i, o.ratio)]
  OBVIOUS
<1>3. \A k \in 1..n : e[k - 1] = GeneratedEvent(k - 1, o.ratio)
  BY <1>2
<1>4. \A i \in 0..(n - 1) : i + 1 \in 1..n /\ (i + 1) - 1 = i
  OBVIOUS
<1>5. CASE o.format = "csv"
  <2>1. PICK rows : rows = [k \in 1..n |-> CsvRow(k - 1, GeneratedEvent(k - 1, o.ratio))]
    OBVIOUS
  <2>2. f = <<CsvHeader>> \o rows
    BY <1>1, <1>5, <2>1 DEF Generated
  <2>3. DOMAIN rows = 1..n /\ rows = [k \in 1..n |-> rows[k]]
    BY <2>1
  <2>4. Len(f) = n + 1 /\ f[1] = CsvHeader /\ \A k \in 1..n : f[k + 1] = rows[k]
    BY <2>2, <2>3, AfterFirst
  <2>5. ASSUME NEW i \in 0..(n - 1) PROVE IsReadAs(f[i + 1 + 1], i, GeneratedEvent(i, o.ratio))
    <3>1. f[i + 1 + 1] = rows[i + 1]
      BY <1>4, <2>4
    <3>2. rows[i + 1] = CsvRow(i, GeneratedEvent(i, o.ratio))
      BY <1>4, <2>1
    <3> QED BY <1>1, <3>1, <3>2, LineIsReadBack
  <2> QED BY <1>1, <2>4, <2>5 DEF IsWritten
<1>6. CASE o.format # "csv"
  <2>1. f = [k \in 1..n |-> json_emit_event(k - 1, GeneratedEvent(k - 1, o.ratio))]
    BY <1>1, <1>6 DEF Generated
  <2>2. Len(f) = n + 0
    BY <2>1
  <2>3. ASSUME NEW i \in 0..(n - 1) PROVE IsReadAs(f[i + 1 + 0], i, GeneratedEvent(i, o.ratio))
    <3>1. i + 1 + 0 = i + 1
      OBVIOUS
    <3>2. f[i + 1] = json_emit_event(i, GeneratedEvent(i, o.ratio))
      BY <1>4, <2>1
    <3> QED BY <1>1, <3>1, <3>2, LineIsReadBack
  <2> QED BY <1>1, <2>2, <2>3 DEF IsWritten
<1> QED BY <1>5, <1>6

Shifted(S, d) == { i + d : i \in S }

LEMMA ShiftedCardinality ==
    ASSUME NEW S, S \subseteq Nat, IsFiniteSet(S), NEW d \in Nat
    PROVE  IsFiniteSet(Shifted(S, d)) /\ Cardinality(Shifted(S, d)) = Cardinality(S)
<1> DEFINE g == [i \in S |-> i + d]
<1>1. g \in Bijection(S, Shifted(S, d))
  BY DEF Bijection, Injection, Surjection, IsInjective, Shifted
<1>2. ExistsBijection(S, Shifted(S, d))
  BY <1>1 DEF ExistsBijection
<1> QED BY <1>2, FS_Bijection

-----------------------------------------------------------------------------
\* The events generated for a pid.
Of(p) == { i \in 0..(generated.count - 1) : GeneratedEvent(i, generated.ratio).pid = p }

EntryOf(i) ==
    [ time |-> GeneratedTime(i), event |-> GeneratedEvent(i, generated.ratio).event,
      file |-> GeneratedEvent(i, generated.ratio).file,
      dst  |-> GeneratedEvent(i, generated.ratio).dst ]

LEMMA WrittenLine ==
    ASSUME NEW text, NEW i, NEW e, e.pid >= 0, IsReadAs(text, i, e)
    PROVE  /\ ~Skipped(text) /\ parse_event_line(FieldsOf(text)) /\ ~malformed(FieldsOf(text))
           /\ FieldsOf(text).pid = e.pid
           /\ [ time |-> TimeOf(text), event |-> FieldsOf(text).event,
                file |-> FieldsOf(text).file, dst |-> EventOf(FieldsOf(text)).dst ]
                = [ time |-> GeneratedTime(i), event |-> e.event, file |-> e.file, dst |-> e.dst ]
<1>1. ~Skipped(text) /\ FieldsOf(text).pid = e.pid
  BY DEF IsReadAs
<1>2. ~is_header(FieldsOf(text))
  BY DEF IsReadAs, is_header
<1>3. parse_event_line(FieldsOf(text)) /\ ~malformed(FieldsOf(text))
  BY <1>1, <1>2 DEF parse_event_line, malformed
<1>4. EventOf(FieldsOf(text)).dst = e.dst
  BY DEF IsReadAs, EventOf
<1>5. /\ TimeOf(text) = GeneratedTime(i) /\ FieldsOf(text).event = e.event
      /\ FieldsOf(text).file = e.file
  BY DEF IsReadAs
<1> QED BY <1>1, <1>3, <1>4, <1>5

LEMMA LinesOfFile ==
    ASSUME ReadInv, CountInv, GeneratedFile, ReadFile
    PROVE  \E h \in {0, 1} :
             /\ generated.count \in Nat /\ pos = generated.count + h /\ pos = Len(file)
             /\ EventsRead = (1 + h)..(generated.count + h) /\ MalformedRead = {}
             /\ \A i \in 0..(generated.count - 1) :
                  /\ FieldsOf(file[i + 1 + h]).pid = GeneratedEvent(i, generated.ratio).pid
                  /\ EntryAt[i + 1 + h] = EntryOf(i)
             /\ IsWritten(file, generated, h)
<1>1. PICK o : o = generated /\ o \in GeneratorOptions /\ file = Generated(o)
  BY DEF ReadFile, GeneratedFile
<1>2. PICK n \in Nat : n = o.count
  BY <1>1, OptionsHaveTypes
<1>3. PICK h \in {0, 1} : IsWritten(file, o, h)
  BY <1>1, FileIsWritten
<1>4. pos = Len(file) /\ pos = n + h
  BY <1>2, <1>3 DEF ReadFile, CountInv, IsWritten
<1>5. ASSUME NEW i \in 0..(n - 1)
      PROVE  /\ ~Skipped(file[i + 1 + h]) /\ parse_event_line(FieldsOf(file[i + 1 + h]))
             /\ ~malformed(FieldsOf(file[i + 1 + h]))
             /\ FieldsOf(file[i + 1 + h]).pid = GeneratedEvent(i, o.ratio).pid
             /\ EntryAt[i + 1 + h] = EntryOf(i)
  <2>1. PICK e, text, k : e = GeneratedEvent(i, o.ratio) /\ k = i + 1 + h /\ text = file[k]
    OBVIOUS
  <2>2. IsReadAs(text, i, e) /\ e.pid >= 0
    <3>1. i \in 0..(o.count - 1)
      BY <1>2
    <3>2. IsReadAs(text, i, e)
      BY <1>3, <2>1, <3>1 DEF IsWritten
    <3> QED BY <1>1, <2>1, <3>1, <3>2, LineIsReadBack
  <2>3. /\ ~Skipped(text) /\ parse_event_line(FieldsOf(text)) /\ ~malformed(FieldsOf(text))
        /\ FieldsOf(text).pid = e.pid
    BY <2>2, WrittenLine
  <2>4. [ time |-> TimeOf(text), event |-> FieldsOf(text).event,
          file |-> FieldsOf(text).file, dst |-> EventOf(FieldsOf(text)).dst ]
          = [ time |-> GeneratedTime(i), event |-> e.event, file |-> e.file, dst |-> e.dst ]
    BY <2>2, WrittenLine
  <2>5. k \in 1..Len(file)
    BY <1>4, <2>1
  <2>6. EntryAt[k] = EntryOf(i)
    BY <1>1, <2>1, <2>4, <2>5 DEF EntryAt, EntryOf
  <2> QED BY <2>1, <2>3, <2>6
<1>6. \A j \in 1..h : is_header(FieldsOf(file[j]))
  <2> SUFFICES ASSUME NEW j \in 1..h PROVE is_header(FieldsOf(file[j]))
    OBVIOUS
  <2>1. j = 1 /\ h = 1
    OBVIOUS
  <2> QED BY <1>3, <2>1, HeaderIsRead DEF IsWritten
<1>7. \A j \in 1..pos : j \in 1..h \/ (j - 1 - h \in 0..(n - 1) /\ (j - 1 - h) + 1 + h = j)
  BY <1>4
<1>8. EventsRead = (1 + h)..(n + h)
  <2>1. ASSUME NEW j \in 1..pos
        PROVE  j \in EventsRead <=> j \in (1 + h)..(n + h)
    <3>1. CASE j \in 1..h
      <4>1. ~parse_event_line(FieldsOf(file[j]))
        BY <1>6, <3>1 DEF parse_event_line
      <4> QED BY <3>1, <4>1 DEF EventsRead
    <3>2. CASE j \notin 1..h
      <4>1. PICK i \in 0..(n - 1) : i + 1 + h = j
        BY <1>7, <3>2
      <4>2. ~Skipped(file[j]) /\ parse_event_line(FieldsOf(file[j]))
        BY <1>5, <4>1
      <4> QED BY <4>1, <4>2 DEF EventsRead
    <3> QED BY <3>1, <3>2
  <2>2. (1 + h)..(n + h) \subseteq 1..pos
    BY <1>4
  <2>3. EventsRead \subseteq 1..pos
    BY DEF EventsRead
  <2> QED BY <2>1, <2>2, <2>3
<1>9. MalformedRead = {}
  <2> SUFFICES ASSUME NEW j \in 1..pos PROVE ~malformed(FieldsOf(file[j]))
    BY DEF MalformedRead
  <2>1. CASE j \in 1..h
    BY <1>6, <2>1 DEF malformed
  <2>2. CASE j \notin 1..h
    <3>1. PICK i \in 0..(n - 1) : i + 1 + h = j
      BY <1>7, <2>2
    <3> QED BY <1>5, <3>1
  <2> QED BY <2>1, <2>2
<1> QED BY <1>1, <1>2, <1>3, <1>4, <1>5, <1>8, <1>9

LEMMA FileReadBack ==
    ASSUME ReadInv, CountInv, GeneratedFile
    PROVE  GeneratedFileIsReadBack
<1> SUFFICES ASSUME ReadFile PROVE GeneratedFileIsReadBack
  BY DEF GeneratedFileIsReadBack
<1>1. PICK h \in {0, 1} :
        /\ generated.count \in Nat /\ pos = generated.count + h /\ pos = Len(file)
        /\ EventsRead = (1 + h)..(generated.count + h) /\ MalformedRead = {}
        /\ \A i \in 0..(generated.count - 1) :
             /\ FieldsOf(file[i + 1 + h]).pid = GeneratedEvent(i, generated.ratio).pid
             /\ EntryAt[i + 1 + h] = EntryOf(i)
  BY LinesOfFile
<1>2. PICK n \in Nat : n = generated.count
  BY <1>1
<1>3. PICK d \in Nat : d = 1 + h
  OBVIOUS
<1>4. events_processed = n /\ malformed_lines = 0
  <2>1. Cardinality((1 + h)..(n + h)) = n
    <3>1. 1 + h \in Int /\ n + h \in Int
      OBVIOUS
    <3>2. Cardinality((1 + h)..(n + h)) = IF 1 + h > n + h THEN 0 ELSE (n + h) - (1 + h) + 1
      BY <3>1, FS_Interval
    <3> QED BY <3>2
  <2>2. Cardinality({}) = 0
    BY FS_EmptySet
  <2> QED BY <1>1, <1>2, <2>1, <2>2 DEF CountInv
<1>5. ASSUME NEW p \in Pids
      PROVE  /\ Len(lists[p].timeline) = Cardinality(Of(p))
             /\ \A i \in Of(p) :
                  lists[p].timeline[Cardinality({ j \in Of(p) : j <= i })] = EntryOf(i)
  <2>1. PICK S : S = Of(p)
    OBVIOUS
  <2>2. S \subseteq 0..(n - 1) /\ S \subseteq Nat /\ IsFiniteSet(S)
    <3>1. IsFiniteSet(0..(n - 1))
      BY FS_Interval
    <3>2. S \subseteq 0..(n - 1)
      BY <1>2, <2>1 DEF Of
    <3>3. S \subseteq Nat
      BY <3>2
    <3>4. IsFiniteSet(S)
      BY <3>1, <3>2, FS_Subset
    <3> QED BY <3>2, <3>3, <3>4
  <2>3. OfPid(p) = Shifted(S, d)
    <3>1. \A j \in OfPid(p) : \E i \in S : j = i + d
      <4> SUFFICES ASSUME NEW j \in OfPid(p) PROVE \E i \in S : j = i + d
        OBVIOUS
      <4>1. j \in (1 + h)..(n + h) /\ FieldsOf(file[j]).pid = p
        BY <1>1, <1>2 DEF OfPid
      <4>2. PICK i \in 0..(n - 1) : j = i + 1 + h
        <5>1. j - 1 - h \in 0..(n - 1) /\ j = (j - 1 - h) + 1 + h
          BY <4>1
        <5> QED BY <5>1
      <4>3. GeneratedEvent(i, generated.ratio).pid = p
        BY <1>1, <1>2, <4>1, <4>2
      <4>4. i \in S
        BY <1>2, <2>1, <4>3 DEF Of
      <4>5. j = i + d
        BY <1>3, <4>2
      <4> QED BY <4>4, <4>5
    <3>2. \A i \in S : i + d \in OfPid(p)
      <4> SUFFICES ASSUME NEW i \in S PROVE i + d \in OfPid(p)
        OBVIOUS
      <4>1. i \in 0..(n - 1) /\ GeneratedEvent(i, generated.ratio).pid = p
        BY <1>2, <2>1 DEF Of
      <4>2. FieldsOf(file[i + 1 + h]).pid = p
        BY <1>1, <1>2, <4>1
      <4>3. i + d = i + 1 + h /\ i + 1 + h \in (1 + h)..(n + h)
        BY <1>3, <4>1
      <4>4. i + 1 + h \in EventsRead
        BY <1>1, <1>2, <4>3
      <4> QED BY <4>2, <4>3, <4>4 DEF OfPid
    <3> QED BY <3>1, <3>2 DEF Shifted
  <2>4. Tells(lists[p].timeline, OfPid(p), EntryAt)
    BY DEF ReadInv, GraphInv, ListsTell
  <2>5. Len(lists[p].timeline) = Cardinality(S)
    <3>1. Cardinality(Shifted(S, d)) = Cardinality(S)
      BY <2>2, ShiftedCardinality
    <3> QED BY <2>3, <2>4, <3>1 DEF Tells
  <2>6. ASSUME NEW i \in S
        PROVE  lists[p].timeline[Cardinality({ j \in S : j <= i })] = EntryOf(i)
    <3>1. PICK U : U = { j \in S : j <= i }
      OBVIOUS
    <3>2. U \subseteq Nat /\ IsFiniteSet(U)
      BY <2>2, <3>1, FS_Subset
    <3>3. UpTo(OfPid(p), i + d) = Shifted(U, d)
      <4>1. UpTo(OfPid(p), i + d) = { x \in Shifted(S, d) : x <= i + d }
        BY <2>3 DEF UpTo
      <4>2. i \in Nat /\ \A j \in S : j \in Nat /\ (j + d <= i + d <=> j <= i)
        BY <2>2
      <4> QED BY <3>1, <4>1, <4>2 DEF Shifted
    <3>4. Cardinality(UpTo(OfPid(p), i + d)) = Cardinality(U)
      BY <3>2, <3>3, ShiftedCardinality
    <3>5. i + d \in OfPid(p)
      BY <2>3 DEF Shifted
    <3>6. lists[p].timeline[Cardinality(UpTo(OfPid(p), i + d))] = EntryAt[i + d]
      BY <2>4, <3>5 DEF Tells
    <3>7. EntryAt[i + d] = EntryOf(i)
      <4>1. i \in 0..(n - 1) /\ i + d = i + 1 + h
        BY <1>3, <2>2
      <4> QED BY <1>1, <1>2, <4>1
    <3> QED BY <3>1, <3>4, <3>6, <3>7
  <2> QED BY <2>1, <2>5, <2>6
<1> QED BY <1>2, <1>4, <1>5 DEF GeneratedFileIsReadBack, Of, EntryOf

\* In both forms, agfast reads back every event agfast generate wrote: it is
\* accepted, for the pid it was written for, and the timelines of the nodes
\* are made of the generated events (run_generate_command,
\* load_graph_from_events).
THEOREM GeneratedIsReadBack == Spec => []GeneratedFileIsReadBack
<1>1. Spec => [](CountInv /\ GeneratedFile)
  BY AlwaysRead, InitCount, StepCount, PTL DEF Spec
<1>2. ReadInv /\ CountInv /\ GeneratedFile => GeneratedFileIsReadBack
  BY FileReadBack
<1> QED BY <1>1, <1>2, AlwaysRead, PTL

-----------------------------------------------------------------------------
(***************************************************************************)
(* The flags of a node are those of the events of its pid, and its score,  *)
(* once the file is read, is that of its flags.                            *)
(***************************************************************************)
SensitiveLines == { i \in 1..Len(file) : sensitive_access(EventOf(FieldsOf(file[i]))) }
BlockedLines   == { i \in 1..Len(file) : destination_blocked(EventOf(FieldsOf(file[i]))) }

Touches(p)  == policy_loaded /\ OfPid(p) \cap SensitiveLines # {}
Contacts(p) == policy_loaded /\ OfPid(p) \cap BlockedLines # {}

\* A node that has touched a sensitive file or not, and contacted a blocked
\* destination or not.
Marked(n, touches, contacts) ==
    /\ IsNode(n)
    /\ n.touched_sensitive <=> touches
    /\ n.connected_blocked <=> contacts
    /\ (n.connected_blocked_ip \/ n.connected_blocked_domain) <=> contacts
    /\ contacts => n.connected

Score(n) == IF risk_sum(n) > 100 THEN 100 ELSE risk_sum(n)

MarkInv  == \A p \in Pids : Marked(node[p], Touches(p), Contacts(p))
ScoreInv == ~reading /\ policy_loaded => \A p \in pids : node[p].risk_score = Score(node[p])

LEMMA FoundMarked ==
    ASSUME NEW n, NEW t, NEW c, Marked(n, t, c), NEW ev, NEW ps,
           ev.pid \notin ps => ~t /\ ~c
    PROVE  Marked(graph_get_or_add(ps, n, ev), t, c)
<1>1. CASE ev.pid \in ps
  BY <1>1 DEF graph_get_or_add, Marked, IsNode, NodeFields
<1>2. CASE ev.pid \notin ps
  BY <1>2 DEF graph_get_or_add, Marked, IsNode, NodeFields, ZeroNode
<1> QED BY <1>1, <1>2

LEMMA TouchMarked ==
    ASSUME NEW n, NEW t, NEW c, Marked(n, t, c), NEW ev
    PROVE  Marked(TouchSensitive(n, ev), TRUE, c)
BY DEF TouchSensitive, Marked, IsNode, NodeFields

LEMMA ConnectMarked ==
    ASSUME NEW n, NEW t, NEW c, Marked(n, t, c), NEW dst
    PROVE  Marked(Connect(n, dst), t, c) /\ Connect(n, dst).connected
BY DEF Connect, Marked, IsNode, NodeFields

LEMMA DestinationMarked ==
    ASSUME NEW n, NEW t, NEW c, Marked(n, t, c), NEW S
    PROVE  Marked([n EXCEPT !.destinations = S], t, c)
BY DEF Marked, IsNode, NodeFields

LEMMA MatchTypes ==
    ASSUME NEW ev PROVE match_type(ev) \in {"DEST_BLOCKED_IP", "DEST_BLOCKED_DOMAIN"}
BY DEF match_type

LEMMA ContactMarked ==
    ASSUME NEW n, NEW t, NEW c, Marked(n, t, c), NEW ev
    PROVE  Marked(ContactBlocked(n, ev), t, TRUE)
<1>1. PICK m : m = Connect(n, matched_dst(ev))
  OBVIOUS
<1>2. Marked(m, t, c) /\ m.connected
  BY <1>1, ConnectMarked
<1>3. PICK k : k = match_type(ev) /\ k \in {"DEST_BLOCKED_IP", "DEST_BLOCKED_DOMAIN"}
  BY MatchTypes
<1>4. ContactBlocked(n, ev) =
        [m EXCEPT !.connected_blocked = TRUE,
                  !.connected_blocked_ip     = @ \/ k = "DEST_BLOCKED_IP",
                  !.connected_blocked_domain = @ \/ k = "DEST_BLOCKED_DOMAIN"]
  BY <1>1, <1>3 DEF ContactBlocked
<1> QED BY <1>2, <1>3, <1>4 DEF Marked, IsNode, NodeFields

LEMMA IngestMarked ==
    ASSUME NEW n, NEW t, NEW c, Marked(n, t, c), NEW ev
    PROVE  Marked(graph_ingest_event(n, ev), t \/ (policy_loaded /\ sensitive_access(ev)),
                                             c \/ (policy_loaded /\ destination_blocked(ev)))
<1> DEFINE seen1 == [n EXCEPT !.events_seen = @ + 1]
           f == IngestFile(seen1, ev)
           d == IngestDst(f, ev)
           w == IngestWatched(d, ev)
           k == IngestBlocked(w, ev)
           touches  == t \/ (policy_loaded /\ sensitive_access(ev))
           contacts == c \/ (policy_loaded /\ destination_blocked(ev))
<1>1. Marked(seen1, t, c)
  BY DEF Marked, IsNode, NodeFields
<1> HIDE DEF seen1
<1>2. Marked(f, touches, c)
  <2>1. CASE policy_loaded /\ sensitive_access(ev)
    <3>1. Marked(f, TRUE, c)
      BY <1>1, <2>1, TouchMarked DEF IngestFile
    <3> QED BY <2>1, <3>1 DEF Marked
  <2>2. CASE ~ (policy_loaded /\ sensitive_access(ev))
    BY <1>1, <2>2 DEF IngestFile, Marked
  <2> QED BY <2>1, <2>2
<1> HIDE DEF f, touches
<1>3. Marked(d, touches, c)
  BY <1>2, ConnectMarked, DestinationMarked DEF IngestDst
<1> HIDE DEF d
<1>4. Marked(w, touches, c)
  BY <1>3 DEF IngestWatched, Marked, IsNode, NodeFields
<1> HIDE DEF w
<1>5. Marked(k, touches, contacts)
  <2>1. CASE policy_loaded /\ destination_blocked(ev)
    <3>1. Marked(ContactBlocked(w, ev), touches, TRUE)
      BY <1>4, ContactMarked
    <3>2. Marked(k, touches, TRUE)
      BY <2>1, <3>1, DestinationMarked DEF IngestBlocked
    <3> QED BY <2>1, <3>2 DEF Marked
  <2>2. CASE ~ (policy_loaded /\ destination_blocked(ev))
    BY <1>4, <2>2 DEF IngestBlocked, Marked
  <2> QED BY <2>1, <2>2
<1> QED BY <1>5 DEF graph_ingest_event, k, w, d, f, seen1, touches

LEMMA RiskMarked ==
    ASSUME NEW n, NEW t, NEW c, Marked(n, t, c), NEW r, r = compute_risk_for_node(n)
    PROVE  Marked(r, t, c) /\ r.risk_score = Score(r)
<1>1. r = [n EXCEPT !.risk_score = Score(n), !.risk_level = risk_level_from_score(Score(n))]
  BY DEF compute_risk_for_node, Score
<1>2. IsNode(n) /\ Marked(r, t, c)
  BY <1>1 DEF Marked, IsNode, NodeFields
<1>3. /\ r.watched = n.watched /\ r.touched_sensitive = n.touched_sensitive
      /\ r.connected = n.connected
      /\ r.connected_blocked_ip = n.connected_blocked_ip
      /\ r.connected_blocked_domain = n.connected_blocked_domain
      /\ r.destinations = n.destinations /\ r.events_seen = n.events_seen
      /\ r.risk_score = Score(n)
  BY <1>1, <1>2 DEF IsNode, NodeFields
<1>4. risk_sum(r) = risk_sum(n)
  BY <1>3 DEF risk_sum, network_after_file
<1> QED BY <1>2, <1>3, <1>4 DEF Score

-----------------------------------------------------------------------------
LEMMA InitMark == Init => MarkInv /\ ScoreInv
<1> SUFFICES ASSUME Init PROVE MarkInv /\ ScoreInv
  OBVIOUS
<1>1. pos = 0 /\ node = [p \in Pids |-> ZeroNode] /\ reading
  BY DEF Init, ReadInit, GraphInit
<1>2. \A p : OfPid(p) = {}
  BY <1>1 DEF OfPid, EventsRead
<1>3. \A p : ~Touches(p) /\ ~Contacts(p)
  BY <1>2 DEF Touches, Contacts
<1>4. ASSUME NEW p \in Pids PROVE Marked(node[p], Touches(p), Contacts(p))
  <2>1. node[p] = ZeroNode
    BY <1>1
  <2>2. PICK t, c : t = Touches(p) /\ c = Contacts(p)
    OBVIOUS
  <2>3. ~t /\ ~c
    BY <1>3, <2>2
  <2>4. Marked(ZeroNode, t, c)
    BY <2>3 DEF Marked, IsNode, NodeFields, ZeroNode
  <2> QED BY <2>1, <2>2, <2>4
<1> QED BY <1>1, <1>4 DEF MarkInv, ScoreInv

LEMMA MarkedEventStep ==
    ASSUME ReadInv, MarkInv, NextLine, NEW i, i = pos + 1, ReadEvent(file[i])
    PROVE  MarkInv'
<1>1. PICK line : line = FieldsOf(file[i])
  OBVIOUS
<1>2. PICK P : P = line.pid
  OBVIOUS
<1>3. i \in Nat /\ i \in 1..Len(file) /\ ~Skipped(file[i]) /\ parse_event_line(line)
  <2>1. pos \in Nat /\ pos < Len(file) /\ Len(file) \in Nat
    BY DEF ReadInv, FileInv, NextLine
  <2> QED BY <1>1, <2>1 DEF ReadEvent, GraphIngest
<1>4. line \in Lines
  BY <1>1, <1>3 DEF ReadInv, FileInv
<1>5. PICK ev : ev = EventOf(line)
  OBVIOUS
<1>6. P \in Pids /\ ev.pid = P
  BY <1>2, <1>4, <1>5, LineFields
<1>7. /\ policy_loaded' = policy_loaded /\ file' = file
      /\ node' = [node EXCEPT ![P] = graph_ingest_event(graph_get_or_add(pids, @, ev), ev)]
  BY <1>1, <1>2, <1>5, <1>6 DEF ReadEvent, GraphIngest, NextLine
<1>8. SensitiveLines' = SensitiveLines /\ BlockedLines' = BlockedLines
  BY <1>7 DEF SensitiveLines, BlockedLines
<1>9. \A q : OfPid(q)' = IF q = P THEN OfPid(q) \cup {i} ELSE OfPid(q)
  <2>1. FileInv
    BY DEF ReadInv
  <2> QED BY <1>1, <1>2, <1>3, <2>1, AnEvent
<1>10. /\ DOMAIN node = Pids /\ (P \notin pids => OfPid(P) = {})
  BY <1>6 DEF ReadInv, GraphInv, NodeTells
<1>11. /\ i \in SensitiveLines <=> sensitive_access(ev)
       /\ i \in BlockedLines <=> destination_blocked(ev)
  BY <1>1, <1>3, <1>5 DEF SensitiveLines, BlockedLines
<1>12. ASSUME NEW q \in Pids, q # P PROVE Marked(node[q], Touches(q), Contacts(q))'
  <2>1. OfPid(q)' = OfPid(q) /\ node'[q] = node[q]
    BY <1>6, <1>7, <1>9, <1>10, <1>12
  <2>2. Touches(q)' = Touches(q) /\ Contacts(q)' = Contacts(q)
    BY <1>7, <1>8, <2>1 DEF Touches, Contacts
  <2>3. Marked(node[q], Touches(q), Contacts(q))
    BY DEF MarkInv
  <2> QED BY <2>1, <2>2, <2>3
<1>13. Marked(node[P], Touches(P), Contacts(P))'
  <2>1. PICK t, c : t = Touches(P) /\ c = Contacts(P)
    OBVIOUS
  <2>2. Marked(node[P], t, c)
    BY <1>6, <2>1 DEF MarkInv
  <2>3. P \notin pids => ~t /\ ~c
    BY <1>10, <2>1 DEF Touches, Contacts
  <2>4. Marked(graph_get_or_add(pids, node[P], ev), t, c)
    BY <1>6, <2>2, <2>3, FoundMarked
  <2>5. Marked(graph_ingest_event(graph_get_or_add(pids, node[P], ev), ev),
               t \/ (policy_loaded /\ sensitive_access(ev)),
               c \/ (policy_loaded /\ destination_blocked(ev)))
    BY <2>4, IngestMarked
  <2>6. node'[P] = graph_ingest_event(graph_get_or_add(pids, node[P], ev), ev)
    BY <1>6, <1>7, <1>10
  <2>7. OfPid(P)' = OfPid(P) \cup {i}
    BY <1>9
  <2>8. Touches(P)' <=> t \/ (policy_loaded /\ sensitive_access(ev))
    BY <1>7, <1>8, <1>11, <2>1, <2>7 DEF Touches
  <2>9. Contacts(P)' <=> c \/ (policy_loaded /\ destination_blocked(ev))
    BY <1>7, <1>8, <1>11, <2>1, <2>7 DEF Contacts
  <2> QED BY <2>5, <2>6, <2>8, <2>9 DEF Marked
<1> QED BY <1>12, <1>13 DEF MarkInv

LEMMA MarkedSame ==
    ASSUME MarkInv, UNCHANGED <<policy_loaded, file>>, \A p : OfPid(p)' = OfPid(p),
           DOMAIN node = Pids, node' = node \/ node' = compute_risk_all
    PROVE  MarkInv'
<1>1. SensitiveLines' = SensitiveLines /\ BlockedLines' = BlockedLines
  BY DEF SensitiveLines, BlockedLines
<1>2. ASSUME NEW p \in Pids PROVE Marked(node[p], Touches(p), Contacts(p))'
  <2>1. Touches(p)' = Touches(p) /\ Contacts(p)' = Contacts(p)
    BY <1>1 DEF Touches, Contacts
  <2>2. PICK t, c, n : t = Touches(p) /\ c = Contacts(p) /\ n = node[p]
    OBVIOUS
  <2>3. Marked(n, t, c)
    BY <2>2 DEF MarkInv
  <2>4. Marked(compute_risk_for_node(n), t, c)
    BY <2>3, RiskMarked
  <2>5. node'[p] = n \/ node'[p] = compute_risk_for_node(n)
    BY <2>2 DEF compute_risk_all
  <2> QED BY <2>1, <2>2, <2>3, <2>4, <2>5
<1> QED BY <1>2 DEF MarkInv

LEMMA StepMark ==
    ReadInv /\ MarkInv /\ ScoreInv /\ [Next]_vars => MarkInv' /\ ScoreInv'
<1> SUFFICES ASSUME ReadInv, MarkInv, ScoreInv, [Next]_vars PROVE MarkInv' /\ ScoreInv'
  OBVIOUS
<1>1. DOMAIN node = Pids /\ pids \subseteq Pids
  BY DEF ReadInv, GraphInv, OrderInv, ToSet
<1>2. ASSUME NextLine, ReadEvent(file[pos + 1]) PROVE MarkInv' /\ ScoreInv'
  <2>1. MarkInv'
    BY <1>2, MarkedEventStep
  <2>2. reading' = reading /\ reading
    BY <1>2 DEF ReadEvent, GraphIngest, CanRead
  <2> QED BY <2>1, <2>2 DEF ScoreInv
<1>3. ASSUME NextLine, ReadMalformed(file[pos + 1]) PROVE MarkInv' /\ ScoreInv'
  <2>1. /\ ~parse_event_line(FieldsOf(file[pos + 1]))
        /\ UNCHANGED <<policy_loaded, file>> /\ node' = node /\ reading' = reading /\ reading
    BY <1>3 DEF ReadMalformed, GraphMalformed, malformed, NextLine, CanRead
  <2>2. \A p : OfPid(p)' = OfPid(p)
    BY <1>3, <2>1, NoEvent DEF ReadInv
  <2>3. MarkInv'
    BY <1>1, <2>1, <2>2, MarkedSame
  <2> QED BY <2>1, <2>3 DEF ScoreInv
<1>4. ASSUME NextLine, ReadNothing(file[pos + 1]) PROVE MarkInv' /\ ScoreInv'
  <2>1. /\ Skipped(file[pos + 1]) \/ ~parse_event_line(FieldsOf(file[pos + 1]))
        /\ UNCHANGED <<policy_loaded, file>> /\ node' = node /\ reading' = reading /\ reading
    BY <1>4 DEF ReadNothing, parse_event_line, graphVars, NextLine
  <2>2. \A p : OfPid(p)' = OfPid(p)
    BY <1>4, <2>1, NoEvent DEF ReadInv
  <2>3. MarkInv'
    BY <1>1, <2>1, <2>2, MarkedSame
  <2> QED BY <2>1, <2>3 DEF ScoreInv
<1>5. ASSUME EndOfFile PROVE MarkInv' /\ ScoreInv'
  <2>1. /\ UNCHANGED <<policy_loaded, file, pos, pids>>
        /\ node' = IF policy_loaded THEN compute_risk_all ELSE node
    BY <1>5 DEF EndOfFile, GraphEnd
  <2>2. \A p : OfPid(p)' = OfPid(p)
    BY <2>1, SamePosition
  <2>3. MarkInv'
    BY <1>1, <2>1, <2>2, MarkedSame
  <2>4. ASSUME policy_loaded', NEW p \in pids' PROVE node'[p].risk_score = Score(node'[p])
    <3>1. PICK n : n = node[p]
      OBVIOUS
    <3>2. p \in pids /\ p \in Pids /\ node'[p] = compute_risk_for_node(n)
      BY <1>1, <2>1, <2>4, <3>1 DEF compute_risk_all
    <3>3. Marked(n, Touches(p), Contacts(p))
      BY <3>1, <3>2 DEF MarkInv
    <3> QED BY <3>2, <3>3, RiskMarked
  <2> QED BY <2>3, <2>4 DEF ScoreInv
<1>6. ASSUME UNCHANGED readVars PROVE MarkInv' /\ ScoreInv'
  <2>1. policy_loaded' = policy_loaded /\ file' = file /\ pos' = pos
    BY <1>6 DEF readVars, graphVars
  <2>2. pids' = pids /\ node' = node /\ reading' = reading
    BY <1>6 DEF readVars, graphVars
  <2>3. \A p : OfPid(p)' = OfPid(p)
    BY <2>1, SamePosition
  <2>4. MarkInv'
    BY <1>1, <2>1, <2>2, <2>3, MarkedSame
  <2> QED BY <2>1, <2>2, <2>4 DEF ScoreInv
<1>7. Read \/ UNCHANGED readVars
  BY DEF Next, GraphCommand, GraphTimelineCommand, TimelineCommand, SimilarityCommand,
         Show, vars
<1> QED BY <1>2, <1>3, <1>4, <1>5, <1>6, <1>7 DEF Read, ReadNext, ReadLine

-----------------------------------------------------------------------------
(***************************************************************************)
(* What the policy says of the lines of a generated file.                  *)
(***************************************************************************)
LEMMA WrittenSuspicion ==
    ASSUME NEW text, NEW i, NEW e, IsReadAs(text, i, e), NEW ev, ev = EventOf(FieldsOf(text))
    PROVE  /\ sensitive_access(ev) <=> sensitive_access(e)
           /\ destination_blocked(ev) <=> Blocked(e.dst)
<1>1. ev.file = e.file /\ ev.dst = e.dst /\ ev.ip = "" /\ ev.domain = ""
  BY DEF IsReadAs, EventOf
<1>2. sensitive_access(ev) <=> sensitive_access(e)
  BY <1>1 DEF sensitive_access
<1>3. ~Blocked("")
  BY DEF Blocked, policy_is_blocked_ip, policy_is_blocked_domain, policy_match_exact_with_bloom
<1>4. Candidates(ev)[1] = e.dst /\ Candidates(ev)[2] = "" /\ Candidates(ev)[3] = ""
  BY <1>1 DEF Candidates
<1>5. \A k : k \in BlockedCandidates(ev) <=> k \in 1..3 /\ Blocked(Candidates(ev)[k])
  BY DEF BlockedCandidates, Blocked
<1>6. \A k : k \in 1..3 <=> k = 1 \/ k = 2 \/ k = 3
  OBVIOUS
<1>7. destination_blocked(ev) <=> Blocked(e.dst)
  BY <1>3, <1>4, <1>5, <1>6 DEF destination_blocked
<1> QED BY <1>2, <1>7

EventNumbers(n) == 0..(n - 1)

LEMMA MarksOfFile ==
    ASSUME ReadInv, CountInv, GeneratedFile, ReadFile, NEW p
    PROVE  /\ OfPid(p) # {} <=> Of(p) # {}
           /\ OfPid(p) \cap SensitiveLines # {}
                <=> \E i \in Of(p) : sensitive_access(GeneratedEvent(i, generated.ratio))
           /\ OfPid(p) \cap BlockedLines # {}
                <=> \E i \in Of(p) : Blocked(GeneratedEvent(i, generated.ratio).dst)
<1>1. PICK h \in {0, 1} :
        /\ generated.count \in Nat /\ pos = generated.count + h /\ pos = Len(file)
        /\ EventsRead = (1 + h)..(generated.count + h) /\ MalformedRead = {}
        /\ \A i \in 0..(generated.count - 1) :
             /\ FieldsOf(file[i + 1 + h]).pid = GeneratedEvent(i, generated.ratio).pid
             /\ EntryAt[i + 1 + h] = EntryOf(i)
        /\ IsWritten(file, generated, h)
  BY LinesOfFile
<1>2. PICK n \in Nat, r \in {generated.ratio} : n = generated.count /\ r = generated.ratio
  BY <1>1
<1>3. ASSUME NEW i \in EventNumbers(n), NEW j, j = i + 1 + h
      PROVE  /\ i \in Of(p) <=> j \in OfPid(p)
             /\ j \in SensitiveLines <=> sensitive_access(GeneratedEvent(i, r))
             /\ j \in BlockedLines <=> Blocked(GeneratedEvent(i, r).dst)
  <2>1. i \in 0..(n - 1) /\ j \in (1 + h)..(n + h) /\ j \in 1..Len(file)
    BY <1>1, <1>2, <1>3 DEF EventNumbers
  <2>2. PICK e, text : e = GeneratedEvent(i, r) /\ text = file[j]
    OBVIOUS
  <2>3. IsReadAs(text, i, e)
    BY <1>1, <1>2, <1>3, <2>1, <2>2 DEF IsWritten
  <2>4. FieldsOf(text).pid = e.pid
    BY <2>3 DEF IsReadAs
  <2>5. /\ sensitive_access(EventOf(FieldsOf(text))) <=> sensitive_access(e)
        /\ destination_blocked(EventOf(FieldsOf(text))) <=> Blocked(e.dst)
    BY <2>3, WrittenSuspicion
  <2>6. j \in EventsRead
    BY <1>1, <1>2, <2>1
  <2>7. i \in Of(p) <=> j \in OfPid(p)
    BY <1>2, <2>1, <2>2, <2>4, <2>6 DEF Of, OfPid
  <2>8. j \in SensitiveLines <=> sensitive_access(e)
    BY <2>1, <2>2, <2>5 DEF SensitiveLines
  <2>9. j \in BlockedLines <=> Blocked(e.dst)
    BY <2>1, <2>2, <2>5 DEF BlockedLines
  <2> QED BY <2>2, <2>7, <2>8, <2>9
<1>4. \A j \in OfPid(p) : \E i \in EventNumbers(n) : j = i + 1 + h
  <2> SUFFICES ASSUME NEW j \in OfPid(p) PROVE \E i \in EventNumbers(n) : j = i + 1 + h
    OBVIOUS
  <2>1. j \in (1 + h)..(n + h)
    BY <1>1, <1>2 DEF OfPid
  <2>2. j - 1 - h \in 0..(n - 1) /\ j = (j - 1 - h) + 1 + h
    BY <2>1
  <2> QED BY <2>2 DEF EventNumbers
<1>5. Of(p) \subseteq EventNumbers(n)
  BY <1>2 DEF Of, EventNumbers
<1>6. OfPid(p) # {} <=> Of(p) # {}
  BY <1>3, <1>4, <1>5
<1>7. OfPid(p) \cap SensitiveLines # {} <=> \E i \in Of(p) : sensitive_access(GeneratedEvent(i, r))
  BY <1>3, <1>4, <1>5
<1>8. OfPid(p) \cap BlockedLines # {} <=> \E i \in Of(p) : Blocked(GeneratedEvent(i, r).dst)
  BY <1>3, <1>4, <1>5
<1> QED BY <1>2, <1>6, <1>7, <1>8

-----------------------------------------------------------------------------
\* The turns of the malicious events are sensitive and blocked, one after the
\* other, and no ordinary event is.
Planted == { i \in 0..(generated.count - 1) : malicious(i, generated.ratio) }

LEMMA MaliciousEveryIs ==
    ASSUME NEW ratio \in Int PROVE malicious_every(ratio) \in Int
BY DEF malicious_every

LEMMA PlantedEvent ==
    ASSUME KnowsWhatIsPlanted, NEW turn \in Nat, NEW e, e = MaliciousEvent(turn)
    PROVE  /\ e.pid = MaliciousPid
           /\ sensitive_access(e) <=> turn % 2 = 0
           /\ Blocked(e.dst) <=> turn % 2 # 0
<1>1. e.pid = MaliciousPid
  BY DEF MaliciousEvent
<1>2. ~Blocked("")
  BY DEF Blocked, policy_is_blocked_ip, policy_is_blocked_domain, policy_match_exact_with_bloom
<1>3. CASE turn % 2 = 0
  <2>1. e.file \in {"/etc/passwd", "/home/alice/.ssh/id_rsa"} /\ e.dst = ""
    BY <1>3 DEF MaliciousEvent
  <2>2. policy_is_sensitive_file(e.file) /\ e.file # ""
    BY <2>1 DEF KnowsWhatIsPlanted
  <2> QED BY <1>1, <1>2, <1>3, <2>1, <2>2 DEF sensitive_access
<1>4. CASE turn % 2 # 0
  <2>1. turn % 4 # 0
    BY <1>4
  <2>2. e.file = "" /\ e.dst = "malicious.example"
    BY <1>4, <2>1 DEF MaliciousEvent
  <2>3. Blocked("malicious.example")
    BY DEF KnowsWhatIsPlanted
  <2> QED BY <1>1, <1>4, <2>2, <2>3 DEF sensitive_access
<1> QED BY <1>3, <1>4

LEMMA OrdinaryPid ==
    ASSUME NEW i \in Nat PROVE OrdinaryEvent(i).pid # MaliciousPid
<1>1. i % PidRange \in Nat
  BY PidRangeAssumption
<1>2. OrdinaryEvent(i).pid = 1000 + (i % PidRange)
  BY DEF OrdinaryEvent
<1> QED BY <1>1, <1>2 DEF MaliciousPid

-----------------------------------------------------------------------------
LEMMA TurnsDivide ==
    ASSUME NEW m \in Nat, m > 0
    PROVE  /\ 0 % m = 0 /\ 0 \div m = 0
           /\ m % m = 0 /\ m \div m = 1
           /\ \A i \in Nat : i \div m \in Nat
           /\ \A i \in Nat : i > 0 /\ i % m = 0 => m <= i
<1>1. 0 % m = 0 /\ 0 \div m = 0
  OBVIOUS
<1>2. m % m = 0 /\ m \div m = 1
  OBVIOUS
<1>3. \A i \in Nat : i \div m \in Nat
  OBVIOUS
<1>4. \A i \in Nat : i < m => i % m = i
  OBVIOUS
<1> QED BY <1>1, <1>2, <1>3, <1>4

LEMMA TwoElements ==
    ASSUME NEW S, IsFiniteSet(S), NEW a
    PROVE  /\ \A b : a \in S /\ b \in S /\ a # b => Cardinality(S) >= 2
           /\ Cardinality(S) >= 2 => \E b \in S : b # a
<1>1. ASSUME NEW b, a \in S, b \in S, a # b PROVE Cardinality(S) >= 2
  <2>1. IsFiniteSet({a}) /\ Cardinality({a}) = 1
    BY FS_Singleton
  <2>2. IsFiniteSet({a} \cup {b}) /\ Cardinality({a} \cup {b}) = 2
    <3>1. PICK A : A = {a}
      OBVIOUS
    <3>2. IsFiniteSet(A) /\ Cardinality(A) = 1 /\ b \notin A
      BY <1>1, <2>1, <3>1
    <3>3. IsFiniteSet(A \cup {b}) /\ Cardinality(A \cup {b}) = Cardinality(A) + 1
      BY <3>2, FS_AddElement
    <3> QED BY <3>1, <3>2, <3>3
  <2>3. Cardinality({a} \cup {b}) <= Cardinality(S)
    BY <1>1, FS_Subset
  <2>4. Cardinality(S) \in Nat
    BY FS_CardinalityType
  <2> QED BY <2>2, <2>3, <2>4
<1>2. ASSUME Cardinality(S) >= 2, \A b \in S : b = a PROVE FALSE
  <2>1. IsFiniteSet({a}) /\ Cardinality({a}) = 1
    BY FS_Singleton
  <2>2. S \subseteq {a}
    BY <1>2
  <2>3. Cardinality(S) <= Cardinality({a}) /\ Cardinality(S) \in Nat
    BY <2>1, <2>2, FS_Subset, FS_CardinalityType
  <2> QED BY <1>2, <2>1, <2>3
<1> QED BY <1>1, <1>2

\* Two malicious events are one of each sort: they come in turns.
LEMMA TurnsAreBoth ==
    ASSUME GeneratedFile, ReadFile
    PROVE  Cardinality(Planted) >= 2 <=>
             /\ \E i \in Planted : Turn(i, generated.ratio) % 2 = 0
             /\ \E i \in Planted : Turn(i, generated.ratio) % 2 # 0
<1>1. PICK o : o = generated /\ o \in GeneratorOptions
  BY DEF ReadFile, GeneratedFile
<1>2. PICK n \in Nat, r \in Int : n = o.count /\ r = o.ratio
  BY <1>1, GeneratedAssumption
<1>3. PICK m \in Int : m = malicious_every(r)
  BY <1>2, MaliciousEveryIs
<1>4. \A i : i \in Planted <=> i \in 0..(n - 1) /\ m > 0 /\ i % m = 0
  BY <1>1, <1>2, <1>3 DEF Planted, malicious
<1>5. \A i : Turn(i, r) = i \div m
  BY <1>3 DEF Turn
<1>6. IsFiniteSet(Planted)
  <2>1. IsFiniteSet(0..(n - 1))
    BY FS_Interval
  <2>2. Planted \subseteq 0..(n - 1)
    BY <1>4
  <2> QED BY <2>1, <2>2, FS_Subset
<1>7. ASSUME Cardinality(Planted) >= 2
      PROVE  /\ \E i \in Planted : Turn(i, r) % 2 = 0
             /\ \E i \in Planted : Turn(i, r) % 2 # 0
  <2>1. PICK i \in Planted : i # 0
    BY <1>6, <1>7, TwoElements
  <2>2. i \in 0..(n - 1) /\ i \in Nat /\ i > 0 /\ m > 0 /\ m \in Nat /\ i % m = 0
    BY <1>4, <2>1
  <2>3. 0 % m = 0 /\ 0 \div m = 0 /\ m % m = 0 /\ m \div m = 1
    BY <2>2, TurnsDivide
  <2>4. m <= i
    BY <2>2, TurnsDivide
  <2>5. 0 \in 0..(n - 1) /\ m \in 0..(n - 1)
    BY <2>2, <2>4
  <2>6. 0 \in Planted /\ m \in Planted
    BY <1>4, <2>2, <2>3, <2>5
  <2>7. Turn(0, r) = 0 /\ Turn(m, r) = 1
    BY <1>5, <2>3
  <2>8. 0 % 2 = 0 /\ 1 % 2 # 0
    OBVIOUS
  <2> QED BY <2>6, <2>7, <2>8
<1>8. ASSUME NEW i \in Planted, Turn(i, r) % 2 = 0, NEW j \in Planted, Turn(j, r) % 2 # 0
      PROVE  Cardinality(Planted) >= 2
  <2>1. i # j
    BY <1>8
  <2> QED BY <1>6, <2>1, TwoElements
<1> QED BY <1>1, <1>2, <1>7, <1>8

LEMMA GeneratedEventIs ==
    ASSUME GeneratedFile, ReadFile, KnowsWhatIsPlanted, NEW i \in 0..(generated.count - 1),
           NEW e, e = GeneratedEvent(i, generated.ratio), NEW turn, turn = Turn(i, generated.ratio)
    PROVE  /\ e.pid = MaliciousPid <=> i \in Planted
           /\ i \in Planted => /\ sensitive_access(e) <=> turn % 2 = 0
                               /\ Blocked(e.dst) <=> turn % 2 # 0
           /\ i \notin Planted => ~sensitive_access(e) /\ ~Blocked(e.dst)
<1>1. PICK o : o = generated /\ o \in GeneratorOptions
  BY DEF ReadFile, GeneratedFile
<1>2. PICK n \in Nat, r \in Int : n = o.count /\ r = o.ratio
  BY <1>1, GeneratedAssumption
<1>3. i \in Nat
  BY <1>1, <1>2
<1>4. CASE i \in Planted
  <2>1. malicious(i, r)
    BY <1>1, <1>2, <1>4 DEF Planted
  <2>2. PICK m \in Int : m = malicious_every(r) /\ m > 0
    BY <1>2, <2>1, MaliciousEveryIs DEF malicious
  <2>3. m \in Nat /\ turn = i \div m
    BY <1>1, <1>2, <2>2 DEF Turn
  <2>4. turn \in Nat
    BY <1>3, <2>2, <2>3, TurnsDivide
  <2>5. e = MaliciousEvent(turn)
    BY <1>1, <1>2, <2>1 DEF GeneratedEvent
  <2> QED BY <1>4, <2>4, <2>5, PlantedEvent
<1>5. CASE i \notin Planted
  <2>1. ~malicious(i, r)
    BY <1>1, <1>2, <1>5 DEF Planted
  <2>2. e = OrdinaryEvent(i)
    BY <1>1, <1>2, <2>1 DEF GeneratedEvent
  <2>3. e.pid # MaliciousPid
    BY <1>3, <2>2, OrdinaryPid
  <2>4. ~sensitive_access(e) /\ ~Blocked(e.dst)
    BY <2>2 DEF KnowsWhatIsPlanted
  <2> QED BY <1>5, <2>3, <2>4
<1> QED BY <1>4, <1>5

-----------------------------------------------------------------------------
(***************************************************************************)
(* What the scores of such a policy compare.                               *)
(***************************************************************************)
Noise == Weights.watched_process + Weights.high_unique_destinations + Weights.high_event_volume

LEMMA WeightsArePoints ==
    ASSUME KnowsWhatIsPlanted
    PROVE  /\ \A w \in {"watched_process", "sensitive_file", "blocked_ip", "blocked_domain",
                        "network_after_file", "high_unique_destinations", "high_event_volume"} :
                Weights[w] \in Nat
           /\ Noise \in Nat /\ Noise < 100
<1>1. ASSUME NEW w \in {"watched_process", "sensitive_file", "blocked_ip", "blocked_domain",
                        "network_after_file", "high_unique_destinations", "high_event_volume"}
      PROVE  Weights[w] \in Nat
  <2>1. w \in WeightNames \ {"high_unique_destination_threshold", "high_event_volume_threshold"}
    BY DEF WeightNames
  <2>2. Weights[w] \in Int
    BY <2>1, WeightsAssumption
  <2>3. Weights[w] >= 0
    BY <2>1 DEF KnowsWhatIsPlanted
  <2> QED BY <2>2, <2>3
<1>2. /\ Weights.watched_process \in Nat /\ Weights.high_unique_destinations \in Nat
      /\ Weights.high_event_volume \in Nat
  BY <1>1
<1>3. Noise \in Nat
  BY <1>2 DEF Noise
<1>4. Noise < 100
  BY DEF Noise, KnowsWhatIsPlanted
<1> QED BY <1>1, <1>3, <1>4

\* The points of a signal.
Points(signal, weight) == IF signal THEN weight ELSE 0

LEMMA PointsAre ==
    ASSUME NEW signal, NEW w \in Nat
    PROVE  /\ Points(signal, w) \in Nat /\ Points(signal, w) <= w
           /\ signal => Points(signal, w) = w
           /\ ~signal => Points(signal, w) = 0
BY DEF Points

\* The points of a node: those of noise and of the four other signals.
SumsTo(n, noise, s, i, d, k) ==
    /\ risk_sum(n) = noise + s + i + d + k
    /\ noise \in Nat /\ noise <= Noise
    /\ s = Points(n.touched_sensitive, Weights.sensitive_file)
    /\ i = Points(n.connected_blocked_ip, Weights.blocked_ip)
    /\ d = Points(n.connected_blocked_domain, Weights.blocked_domain)
    /\ k = Points(network_after_file(n), Weights.network_after_file)

LEMMA SumOfPoints ==
    ASSUME KnowsWhatIsPlanted, NEW n
    PROVE  \E noise, s, i, d, k : SumsTo(n, noise, s, i, d, k)
<1> DEFINE high == AtThreshold(Cardinality(n.destinations), Weights.high_unique_destination_threshold)
           many == AtThreshold(n.events_seen, Weights.high_event_volume_threshold)
<1>1. PICK w, s, i, d, k, u, v :
        /\ w = Points(n.watched, Weights.watched_process)
        /\ s = Points(n.touched_sensitive, Weights.sensitive_file)
        /\ i = Points(n.connected_blocked_ip, Weights.blocked_ip)
        /\ d = Points(n.connected_blocked_domain, Weights.blocked_domain)
        /\ k = Points(network_after_file(n), Weights.network_after_file)
        /\ u = Points(high, Weights.high_unique_destinations)
        /\ v = Points(many, Weights.high_event_volume)
  OBVIOUS
<1>2. risk_sum(n) = w + s + i + d + k + u + v
  BY <1>1 DEF risk_sum, Points
<1> HIDE DEF high, many
<1>3. /\ Weights.watched_process \in Nat /\ Weights.sensitive_file \in Nat
      /\ Weights.blocked_ip \in Nat /\ Weights.blocked_domain \in Nat
      /\ Weights.network_after_file \in Nat /\ Weights.high_unique_destinations \in Nat
      /\ Weights.high_event_volume \in Nat
  BY WeightsArePoints
<1>4. s \in Nat /\ i \in Nat /\ d \in Nat /\ k \in Nat
  BY <1>1, <1>3, PointsAre
<1>5. /\ w \in Nat /\ w <= Weights.watched_process
      /\ u \in Nat /\ u <= Weights.high_unique_destinations
      /\ v \in Nat /\ v <= Weights.high_event_volume
  BY <1>1, <1>3, PointsAre
<1>6. PICK noise \in Nat : noise = w + u + v /\ noise <= Noise
  BY <1>3, <1>5 DEF Noise
<1>7. risk_sum(n) = noise + s + i + d + k
  BY <1>2, <1>4, <1>5, <1>6
<1>8. SumsTo(n, noise, s, i, d, k)
  BY <1>1, <1>6, <1>7 DEF SumsTo
<1> QED BY <1>8

LEMMA ScoresCompare ==
    ASSUME KnowsWhatIsPlanted,
           NEW n, Marked(n, TRUE, TRUE), NEW q, Marked(q, FALSE, FALSE)
    PROVE  Score(q) < Score(n)
<1>1. /\ Weights.sensitive_file \in Nat /\ Weights.network_after_file \in Nat
      /\ Weights.blocked_ip \in Nat /\ Weights.blocked_domain \in Nat
      /\ Noise \in Nat /\ Noise < 100
  BY WeightsArePoints
<1>2. PICK w, s, i, d, k : SumsTo(n, w, s, i, d, k)
  BY SumOfPoints
<1>3. /\ n.touched_sensitive /\ network_after_file(n)
      /\ n.connected_blocked_ip \/ n.connected_blocked_domain
  BY DEF Marked, network_after_file
<1>4. s = Weights.sensitive_file /\ k = Weights.network_after_file
  BY <1>1, <1>2, <1>3, PointsAre DEF SumsTo
<1>5. i = Weights.blocked_ip \/ d = Weights.blocked_domain
  BY <1>1, <1>2, <1>3, PointsAre DEF SumsTo
<1>6. /\ Noise < Weights.sensitive_file + Weights.network_after_file + Weights.blocked_ip
      /\ Noise < Weights.sensitive_file + Weights.network_after_file + Weights.blocked_domain
  BY DEF KnowsWhatIsPlanted, Noise
<1>7. risk_sum(n) \in Nat /\ Noise < risk_sum(n)
  <2>1. i \in Nat /\ d \in Nat
    BY <1>1, <1>2, PointsAre DEF SumsTo
  <2>2. risk_sum(n) = w + s + i + d + k /\ w \in Nat
    BY <1>2 DEF SumsTo
  <2> QED BY <1>1, <1>4, <1>5, <1>6, <2>1, <2>2
<1>8. PICK x, t, b, c, l : SumsTo(q, x, t, b, c, l)
  BY SumOfPoints
<1>9. /\ ~q.touched_sensitive /\ ~network_after_file(q)
      /\ ~q.connected_blocked_ip /\ ~q.connected_blocked_domain
  BY DEF Marked, network_after_file
<1>10. t = 0 /\ b = 0 /\ c = 0 /\ l = 0
  BY <1>1, <1>8, <1>9, PointsAre DEF SumsTo
<1>11. risk_sum(q) \in Nat /\ risk_sum(q) <= Noise
  BY <1>1, <1>8, <1>10 DEF SumsTo
<1> QED BY <1>1, <1>7, <1>11 DEF Score

-----------------------------------------------------------------------------
LEMMA RiskFound ==
    ASSUME ReadInv, CountInv, GeneratedFile, MarkInv, ScoreInv
    PROVE  GeneratedRiskIsFound
<1> SUFFICES ASSUME ReadFile, policy_loaded, KnowsWhatIsPlanted PROVE GeneratedRiskIsFound
  BY DEF GeneratedRiskIsFound
<1> DEFINE e(i)    == GeneratedEvent(i, generated.ratio)
           turn(i) == Turn(i, generated.ratio)
           X       == MaliciousPid
<1>1. /\ pids \subseteq Pids
      /\ \A p \in Pids : p \in pids <=> OfPid(p) # {}
  BY DEF ReadInv, GraphInv, OrderInv, NodeTells, ToSet
<1>2. \A i \in Of(X) : i \in Planted
  BY GeneratedEventIs DEF Of
<1>3. \A i \in Planted : i \in Of(X) /\ i \in 0..(generated.count - 1)
  BY GeneratedEventIs DEF Of, Planted
<1>4. \A i \in Planted : /\ sensitive_access(e(i)) <=> turn(i) % 2 = 0
                         /\ Blocked(e(i).dst) <=> turn(i) % 2 # 0
  BY <1>3, GeneratedEventIs
<1>5. Touches(X) <=> \E i \in Planted : turn(i) % 2 = 0
  BY <1>2, <1>3, <1>4, MarksOfFile DEF Touches
<1>6. Contacts(X) <=> \E i \in Planted : turn(i) % 2 # 0
  BY <1>2, <1>3, <1>4, MarksOfFile DEF Contacts
<1>7. X \in pids => (node[X].touched_sensitive <=> Touches(X))
                    /\ (node[X].connected_blocked <=> Contacts(X))
  BY <1>1 DEF MarkInv, Marked
<1>8. (\E i \in Planted : turn(i) % 2 = 0) => X \in pids
  <2> SUFFICES ASSUME Planted # {} PROVE X \in pids
    OBVIOUS
  <2>1. Of(X) # {}
    BY <1>3
  <2>2. OfPid(X) # {}
    BY <2>1, MarksOfFile
  <2>3. PICK j \in OfPid(X) : TRUE
    BY <2>2
  <2>4. j \in 1..Len(file) /\ ~Skipped(file[j]) /\ FieldsOf(file[j]).pid = X
    BY EventsOfPid DEF ReadInv, OfPid, EventsRead
  <2>5. FieldsOf(file[j]) \in Lines
    BY <2>4 DEF ReadInv, FileInv
  <2>6. X \in Pids
    BY <2>4, <2>5 DEF Pids
  <2> QED BY <1>1, <2>2, <2>6
<1>9. (X \in pids /\ node[X].touched_sensitive /\ node[X].connected_blocked)
        <=> Cardinality(Planted) >= 2
  BY <1>5, <1>6, <1>7, <1>8, TurnsAreBoth
<1>10. ASSUME NEW p \in pids, p # X
       PROVE  /\ ~node[p].touched_sensitive /\ ~node[p].connected_blocked
              /\ Marked(node[p], FALSE, FALSE)
  <2>1. \A i \in Of(p) : ~sensitive_access(e(i)) /\ ~Blocked(e(i).dst)
    <3> SUFFICES ASSUME NEW i \in Of(p) PROVE ~sensitive_access(e(i)) /\ ~Blocked(e(i).dst)
      OBVIOUS
    <3>1. i \in 0..(generated.count - 1) /\ e(i).pid # X
      BY <1>10 DEF Of
    <3> QED BY <3>1, GeneratedEventIs
  <2>2. ~Touches(p) /\ ~Contacts(p)
    BY <2>1, MarksOfFile DEF Touches, Contacts
  <2>3. PICK n, t, c : n = node[p] /\ t = Touches(p) /\ c = Contacts(p)
    OBVIOUS
  <2>4. Marked(n, t, c) /\ ~t /\ ~c
    BY <1>1, <2>2, <2>3 DEF MarkInv
  <2> QED BY <2>3, <2>4 DEF Marked
<1>11. ASSUME X \in pids, node[X].touched_sensitive, node[X].connected_blocked
       PROVE  Marked(node[X], TRUE, TRUE)
  <2>1. PICK n, t, c : n = node[X] /\ t = Touches(X) /\ c = Contacts(X)
    OBVIOUS
  <2>2. Marked(n, t, c)
    BY <1>1, <1>11, <2>1 DEF MarkInv
  <2> QED BY <1>11, <2>1, <2>2 DEF Marked
<1>12. \A p \in pids : node[p].risk_score = Score(node[p])
  BY DEF ScoreInv, ReadFile
<1>13. ASSUME NEW p \in pids, p # X, X \in pids,
              node[X].touched_sensitive, node[X].connected_blocked
       PROVE  node[p].risk_score < node[X].risk_score
  <2>1. Marked(node[X], TRUE, TRUE) /\ Marked(node[p], FALSE, FALSE)
    BY <1>10, <1>11, <1>13
  <2>2. Score(node[p]) < Score(node[X])
    BY <2>1, ScoresCompare
  <2> QED BY <1>12, <1>13, <2>2
<1>14. Planted = { i \in 0..(generated.count - 1) : malicious(i, generated.ratio) }
  BY DEF Planted
<1> HIDE DEF X
<1>15. GeneratedRiskIsFound
  BY <1>9, <1>10, <1>13, <1>14 DEF GeneratedRiskIsFound, X
<1> QED BY <1>15

\* Of the malicious events agfast generate hides among ordinary ones nothing is
\* lost on the way through the file and the graph: under any policy that knows
\* what is planted their pid is the only one with a correlation, it has one as
\* soon as two of them were written, and its score is above all others
\* (run_generate_command, load_graph_from_events, compute_risk_for_node).
THEOREM PlantedRiskIsFound == Spec => []GeneratedRiskIsFound
<1>1. Spec => [](CountInv /\ GeneratedFile)
  BY AlwaysRead, InitCount, StepCount, PTL DEF Spec
<1>2. Spec => [](MarkInv /\ ScoreInv)
  BY AlwaysRead, InitMark, StepMark, PTL DEF Spec
<1>3. ReadInv /\ CountInv /\ GeneratedFile /\ MarkInv /\ ScoreInv => GeneratedRiskIsFound
  BY RiskFound
<1> QED BY <1>1, <1>2, <1>3, AlwaysRead, PTL
=============================================================================
