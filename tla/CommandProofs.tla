---------------------------- MODULE CommandProofs ----------------------------
(***************************************************************************)
(* Theorems about two commands of agfast that put single names and lines   *)
(* to the policy, check-* and tail, for every policy.                      *)
(***************************************************************************)
EXTENDS TailProperties, PolicyCheckProperties, FiniteSetTheorems, TLAPS

(***************************************************************************)
(* check-*, for every layout of the buckets, every hash and every limit of *)
(* evictions: the Cuckoo filter keeps its types, a fingerprint is only in  *)
(* a bucket of its own, no item of the list is lost before an insertion    *)
(* runs out of kicks, a deletion takes one copy of one item away, and the  *)
(* answer is the one analyze would give.                                   *)
(***************************************************************************)

HandIsAtHome ==
    pc = "kick" => \E i \in DOMAIN list : hand = Fingerprint[list[i]] /\ idx \in Pair(list[i])

KickedBucketIsFull == pc = "kick" => ~ bucket_contains(idx, Empty)

\* The inductive invariant.  An eviction keeps an item findable only because
\* the fingerprint in hand is at home too, and Alt its own inverse; and it has
\* a fingerprint to take out only because the bucket is full.
CInv == /\ CheckTypeOK
        /\ FingerprintsAreAtHome
        /\ HandIsAtHome
        /\ KickedBucketIsFull
        /\ NoFalseNegatives

-----------------------------------------------------------------------------
LEMMA PairType ==
    ASSUME NEW v \in Values
    PROVE  /\ Fingerprint[v] \in Fingerprints /\ Fingerprint[v] # Empty
           /\ Pair(v) \subseteq Buckets
           /\ Index1[v] \in Pair(v) /\ index2(v) \in Pair(v)
           /\ \A b \in Pair(v) : Alt[Fingerprint[v]][b] \in Pair(v)
BY CuckooAssumption DEF Pair, index2

LEMMA ListType ==
    ASSUME kind \in {"file", "ip", "domain"}
    PROVE  \A i \in DOMAIN list : i \in Nat \ {0} /\ list[i] \in Values
<1> DEFINE Array == list_name
<1>1. Array \in DOMAIN PolicyFile
  BY ListAssumption DEF list_name
<1>2. exact[Array] \subseteq Values
  BY <1>1, ListAssumption DEF ListedValues
<1> HIDE DEF Array
<1>3. \A i \in DOMAIN ListOf(Array) : i \in Nat \ {0} /\ ListOf(Array)[i] \in Values
  BY <1>1, <1>2, ListAssumption DEF ListOf
<1> QED BY <1>3 DEF list, Array

LEMMA InitCInv == Init => CInv
<1> SUFFICES ASSUME Init PROVE CInv
  OBVIOUS
<1>1. CheckTypeOK
  <2>1. idx \in Buckets /\ kick \in 0..MaxKicks /\ buckets \in Cells /\ count \in Nat /\ next \in Nat
    BY CuckooAssumption DEF Init, Cells
  <2> QED BY <2>1 DEF Init, CheckTypeOK
<1>2. \A i \in DOMAIN list : i \in Nat \ {0}
  BY ListType DEF Init
<1>3. FingerprintsAreAtHome /\ HandIsAtHome /\ KickedBucketIsFull
  BY DEF Init, FingerprintsAreAtHome, HandIsAtHome, KickedBucketIsFull
<1>4. Inserted = {}
  BY <1>2 DEF Init, Inserted, Reached
<1> QED BY <1>1, <1>3, <1>4 DEF CInv, NoFalseNegatives

\* The list depends on the arguments only.
LEMMA SameList ==
    ASSUME UNCHANGED args
    PROVE  list' = list
BY DEF args, list, list_name, ListOf

-----------------------------------------------------------------------------
\* An item that goes into an empty cell of one of its buckets.
LEMMA InsertKeepsCInv ==
    ASSUME CInv, NEW i \in DOMAIN list, InsertDirectly(i)
    PROVE  CInv'
<1>1. list' = list
  BY SameList DEF InsertDirectly
<1>2. /\ \A j \in DOMAIN list : j \in Nat \ {0} /\ list[j] \in Values
      /\ kind' \in {"file", "ip", "domain"}
  BY ListType DEF CInv, CheckTypeOK, InsertDirectly, args
<1> DEFINE v == list[i]
           fp == Fingerprint[v]
<1>3. /\ v \in Values /\ fp \in Fingerprints /\ fp # Empty
      /\ Pair(v) \subseteq Buckets /\ Index1[v] \in Pair(v) /\ index2(v) \in Pair(v)
  BY <1>2, PairType
<1>4. PICK b \in Pair(v), s \in Slots :
        /\ buckets[b][s] = Empty
        /\ buckets' = [buckets EXCEPT ![b][s] = fp]
        /\ count' = count + 1
  BY <1>3 DEF InsertDirectly, bucket_insert, IsFirst
<1>5. /\ buckets' \in Cells
      /\ \A c \in Buckets, t \in Slots :
            buckets'[c][t] = IF c = b /\ t = s THEN fp ELSE buckets[c][t]
  BY <1>3, <1>4 DEF CInv, CheckTypeOK, Cells
<1>6. pc = "load" /\ pc' = "load" /\ next' = i + 1 /\ dropped' = dropped
  BY DEF InsertDirectly
<1>7. CheckTypeOK'
  BY <1>2, <1>4, <1>5, <1>6 DEF CInv, CheckTypeOK, InsertDirectly, args, loop
<1>8. FingerprintsAreAtHome'
  BY <1>1, <1>4, <1>5 DEF CInv, FingerprintsAreAtHome
<1>9. \A w \in Inserted' : w = v \/ w \in Inserted
  BY <1>1, <1>2, <1>6 DEF CInv, CheckTypeOK, InsertDirectly, IsNext, Inserted, Reached
<1>10. NoFalseNegatives'
  <2> SUFFICES ASSUME ~ dropped, NEW w \in Inserted'
               PROVE  cuckoo_contains(w)'
    BY <1>6 DEF NoFalseNegatives
  <2>1. CASE w = v
    BY <1>3, <1>4, <1>5, <2>1 DEF cuckoo_contains, bucket_contains
  <2>2. CASE w \in Inserted
    <3>1. w \in Values /\ Pair(w) \subseteq Buckets /\ Fingerprint[w] # Empty
      BY <1>2, <2>2, PairType DEF Inserted, Reached
    <3>2. cuckoo_contains(w)
      BY <1>6, <2>2 DEF CInv, NoFalseNegatives
    <3> QED BY <1>4, <1>5, <3>1, <3>2 DEF cuckoo_contains, bucket_contains
  <2> QED BY <1>9, <2>1, <2>2
<1> QED BY <1>6, <1>7, <1>8, <1>10 DEF CInv, HandIsAtHome, KickedBucketIsFull

\* An item whose two buckets are full becomes the fingerprint in hand.
LEMMA StartKeepsCInv ==
    ASSUME CInv, NEW i \in DOMAIN list, StartKicking(i)
    PROVE  CInv'
<1>1. list' = list
  BY SameList DEF StartKicking
<1>2. \A j \in DOMAIN list : j \in Nat \ {0} /\ list[j] \in Values
  BY ListType DEF CInv, CheckTypeOK
<1> DEFINE v == list[i]
<1>3. /\ v \in Values /\ Fingerprint[v] \in Fingerprints /\ Fingerprint[v] # Empty
      /\ Pair(v) \subseteq Buckets /\ Index1[v] \in Pair(v) /\ index2(v) \in Pair(v)
  BY <1>2, PairType
<1>4. hand' = Fingerprint[v] /\ idx' \in Pair(v) /\ pc' = "kick" /\ pc = "load"
  BY <1>3 DEF StartKicking
<1>5. buckets' = buckets /\ next' = i + 1 /\ dropped' = dropped
  BY DEF StartKicking
<1>6. CheckTypeOK'
  <2>1. CheckTypeOK
    BY DEF CInv
  <2>2. kick' = 0 /\ count' = count /\ UNCHANGED args
    BY DEF StartKicking
  <2>3. next' \in Nat /\ kick' \in 0..MaxKicks /\ idx' \in Buckets
    BY <1>2, <1>3, <1>4, <1>5, <2>2, CuckooAssumption
  <2>4. hand' \in Fingerprints /\ hand' # Empty
    BY <1>3, <1>4
  <2> QED BY <1>4, <1>5, <2>1, <2>2, <2>3, <2>4 DEF CheckTypeOK, args
<1>7. FingerprintsAreAtHome' /\ HandIsAtHome'
  BY <1>1, <1>4, <1>5 DEF CInv, FingerprintsAreAtHome, HandIsAtHome
<1>8. KickedBucketIsFull'
  BY <1>4, <1>5 DEF StartKicking, KickedBucketIsFull, bucket_contains
<1>9. \A w \in Inserted' : w = v \/ w \in Inserted
  BY <1>1, <1>2, <1>5 DEF CInv, CheckTypeOK, StartKicking, IsNext, Inserted, Reached
<1>10. NoFalseNegatives'
  <2> SUFFICES ASSUME ~ dropped, NEW w \in Inserted'
               PROVE  cuckoo_contains(w)' \/ (hand' = Fingerprint[w] /\ idx' \in Pair(w))
    BY <1>4, <1>5 DEF NoFalseNegatives
  <2>1. CASE w = v
    BY <1>4, <2>1
  <2>2. CASE w \in Inserted
    <3>1. cuckoo_contains(w)
      BY <1>4, <2>2 DEF CInv, NoFalseNegatives
    <3> QED BY <1>5, <3>1 DEF cuckoo_contains, bucket_contains
  <2> QED BY <1>9, <2>1, <2>2
<1> QED BY <1>6, <1>7, <1>8, <1>10 DEF CInv

\* One eviction.  The cell that held old now holds the fingerprint in hand,
\* which is at home there; old is in hand or in the other bucket, its own too.
LEMMA KickKeepsCInv ==
    ASSUME CInv, Kick
    PROVE  CInv'
<1>1. list' = list
  BY SameList DEF Kick
<1>2. \A j \in DOMAIN list : j \in Nat \ {0} /\ list[j] \in Values
  BY ListType DEF CInv, CheckTypeOK
<1> DEFINE s == KickSlot[hand][kick]
           old == buckets[idx][s]
           home == Alt[old][idx]
           swapped == [buckets EXCEPT ![idx][s] = hand]
<1>3. /\ pc = "kick" /\ next' = next /\ dropped' = dropped /\ hand # Empty
      /\ hand \in Fingerprints /\ idx \in Buckets /\ kick \in 0..MaxKicks
      /\ buckets \in Cells
  BY DEF Kick, CInv, CheckTypeOK
<1>4. s \in Slots
  BY <1>3, CuckooAssumption
<1>5. old \in Fingerprints /\ old # Empty
  BY <1>3, <1>4 DEF CInv, KickedBucketIsFull, bucket_contains, Cells
<1>6. home \in Buckets /\ Alt[old][home] = idx
  BY <1>3, <1>5, CuckooAssumption
<1>7. /\ swapped \in Cells
      /\ \A c \in Buckets, t \in Slots :
            swapped[c][t] = IF c = idx /\ t = s THEN hand ELSE buckets[c][t]
  BY <1>3, <1>4 DEF Cells
<1> HIDE DEF s, swapped
<1>8. PICK i \in DOMAIN list : hand = Fingerprint[list[i]] /\ idx \in Pair(list[i])
  BY <1>3 DEF CInv, HandIsAtHome
<1>9. \A w \in Values : old = Fingerprint[w] /\ idx \in Pair(w) => home \in Pair(w)
  BY PairType
<1>10. PICK j \in DOMAIN list :
         old = Fingerprint[list[j]] /\ idx \in Pair(list[j]) /\ home \in Pair(list[j])
  BY <1>2, <1>3, <1>4, <1>5, <1>9 DEF CInv, FingerprintsAreAtHome
<1> HIDE DEF old, home
<1>11. ASSUME NEW w \in Inserted, ~ dropped
       PROVE  \/ \E b \in Pair(w), t \in Slots : swapped[b][t] = Fingerprint[w]
              \/ old = Fingerprint[w] /\ home \in Pair(w)
  <2>1. w \in Values /\ Pair(w) \subseteq Buckets
    BY <1>2, PairType DEF Inserted, Reached
  <2>2. \/ \E b \in Pair(w), t \in Slots : buckets[b][t] = Fingerprint[w]
        \/ hand = Fingerprint[w] /\ idx \in Pair(w)
    BY <1>3, <1>11 DEF CInv, NoFalseNegatives, cuckoo_contains, bucket_contains
  <2>3. CASE hand = Fingerprint[w] /\ idx \in Pair(w)
    BY <1>3, <1>4, <1>7, <2>3
  <2>4. CASE \E b \in Pair(w), t \in Slots : buckets[b][t] = Fingerprint[w]
    <3>1. PICK b \in Pair(w), t \in Slots : buckets[b][t] = Fingerprint[w]
      BY <2>4
    <3>2. CASE b = idx /\ t = s
      BY <1>9, <2>1, <3>1, <3>2 DEF old
    <3>3. CASE ~ (b = idx /\ t = s)
      BY <1>7, <2>1, <3>1, <3>3
    <3> QED BY <3>2, <3>3
  <2> QED BY <2>2, <2>3, <2>4
<1>12. \A c \in Buckets, t \in Slots : swapped[c][t] # Empty =>
         \E k \in DOMAIN list : swapped[c][t] = Fingerprint[list[k]] /\ c \in Pair(list[k])
  BY <1>7, <1>8 DEF CInv, FingerprintsAreAtHome
<1>13. Inserted' = Inserted
  BY <1>1, <1>3 DEF Inserted, Reached
<1>14. CASE Place(swapped, home, old) /\ pc' = "load" /\ UNCHANGED loop
  <2>1. PICK t \in Slots :
          /\ swapped[home][t] = Empty
          /\ buckets' = [swapped EXCEPT ![home][t] = old]
          /\ count' = count + 1
    BY <1>14 DEF Place, IsFirst
  <2>2. /\ buckets' \in Cells
        /\ \A c \in Buckets, u \in Slots :
              buckets'[c][u] = IF c = home /\ u = t THEN old ELSE swapped[c][u]
    BY <1>5, <1>6, <1>7, <2>1 DEF Cells
  <2>3. CheckTypeOK'
    BY <1>14, <2>1, <2>2 DEF CInv, CheckTypeOK, Kick, args, loop
  <2>4. FingerprintsAreAtHome'
    BY <1>1, <1>10, <1>12, <2>2 DEF FingerprintsAreAtHome
  <2>5. NoFalseNegatives'
    <3> SUFFICES ASSUME ~ dropped, NEW w \in Inserted
                 PROVE  \E b \in Pair(w), u \in Slots : buckets'[b][u] = Fingerprint[w]
      BY <1>3, <1>13, <1>14 DEF NoFalseNegatives, cuckoo_contains, bucket_contains
    <3>1. w \in Values /\ Pair(w) \subseteq Buckets /\ Fingerprint[w] # Empty
      BY <1>2, PairType DEF Inserted, Reached
    <3> QED BY <1>6, <1>11, <2>1, <2>2, <3>1
  <2> QED BY <1>14, <2>3, <2>4, <2>5 DEF CInv, HandIsAtHome, KickedBucketIsFull
<1>15. CASE /\ \A t \in Slots : swapped[home][t] # Empty
            /\ buckets' = swapped /\ hand' = old /\ idx' = home /\ kick' = kick + 1
            /\ UNCHANGED <<count, pc>>
  <2>1. kick' \in 0..MaxKicks
    BY <1>3, <1>15, CuckooAssumption DEF Kick, MayKick
  <2>2. CheckTypeOK'
    BY <1>3, <1>5, <1>6, <1>7, <1>15, <2>1 DEF CInv, CheckTypeOK, Kick, args
  <2>3. FingerprintsAreAtHome' /\ HandIsAtHome'
    BY <1>1, <1>10, <1>12, <1>15 DEF FingerprintsAreAtHome, HandIsAtHome
  <2>4. KickedBucketIsFull'
    BY <1>15 DEF KickedBucketIsFull, bucket_contains
  <2>5. NoFalseNegatives'
    BY <1>3, <1>11, <1>13, <1>15 DEF NoFalseNegatives, cuckoo_contains, bucket_contains
  <2> QED BY <2>2, <2>3, <2>4, <2>5 DEF CInv
<1>16. \/ Place(swapped, home, old) /\ pc' = "load" /\ UNCHANGED loop
       \/ /\ \A t \in Slots : swapped[home][t] # Empty
          /\ buckets' = swapped /\ hand' = old /\ idx' = home /\ kick' = kick + 1
          /\ UNCHANGED <<count, pc>>
  BY Zenon DEF Kick, Home, TakeOut, s, old, home, swapped
<1> QED BY <1>14, <1>15, <1>16

\* What the deletion leaves are fingerprints at home, and nothing is promised
\* of the items after it.
LEMMA DeleteKeepsCInv ==
    ASSUME CInv, LookupAndDelete
    PROVE  CInv'
<1>1. list' = list
  BY SameList DEF LookupAndDelete
<1>2. value \in Values /\ Pair(value) \subseteq Buckets
  BY PairType DEF CInv, CheckTypeOK
<1>3. PICK b \in Buckets, s \in Slots : buckets' = [buckets EXCEPT ![b][s] = Empty]
  BY <1>2 DEF LookupAndDelete, cuckoo_delete
<1>4. /\ buckets' \in Cells
      /\ \A c \in Buckets, t \in Slots :
            buckets'[c][t] = IF c = b /\ t = s THEN Empty ELSE buckets[c][t]
  BY <1>3 DEF CInv, CheckTypeOK, Cells
<1>5. count' \in Nat
  BY DEF CInv, CheckTypeOK, LookupAndDelete, cuckoo_delete
<1>6. CheckTypeOK'
  BY <1>4, <1>5 DEF CInv, CheckTypeOK, LookupAndDelete, args, loop
<1>7. FingerprintsAreAtHome'
  BY <1>1, <1>4 DEF CInv, FingerprintsAreAtHome
<1> QED BY <1>6, <1>7 DEF CInv, LookupAndDelete, HandIsAtHome, KickedBucketIsFull, NoFalseNegatives

\* The steps that leave the filter alone.
LEMMA RestKeepsCInv ==
    ASSUME CInv, GiveUp \/ EndOfList \/ Lookup \/ UNCHANGED vars
    PROVE  CInv'
<1>1. list' = list
  BY SameList DEF GiveUp, EndOfList, Lookup, vars
<1>2. UNCHANGED <<args, buckets, count, next, loop>>
  BY DEF GiveUp, EndOfList, Lookup, vars
<1>3. /\ pc' \in {"load", "kick", "lookup", "done"}
      /\ dropped' \in BOOLEAN
      /\ pc' = "kick" => pc = "kick"
      /\ pc' # "done" /\ ~ dropped' => pc # "done" /\ ~ dropped /\ (pc = "kick" => pc' = "kick")
  BY DEF CInv, CheckTypeOK, GiveUp, EndOfList, Lookup, vars
<1>4. CheckTypeOK'
  BY <1>2, <1>3 DEF CInv, CheckTypeOK, args, loop
<1>5. FingerprintsAreAtHome' /\ HandIsAtHome' /\ KickedBucketIsFull'
  BY <1>1, <1>2, <1>3 DEF CInv, FingerprintsAreAtHome, HandIsAtHome, KickedBucketIsFull,
                          bucket_contains, loop
<1>6. NoFalseNegatives'
  BY <1>1, <1>2, <1>3 DEF CInv, NoFalseNegatives, cuckoo_contains, bucket_contains,
                          Inserted, Reached, loop
<1> QED BY <1>4, <1>5, <1>6 DEF CInv

-----------------------------------------------------------------------------
\* The conjunction is an invariant of the check commands.
THEOREM CuckooInvariant == Spec => []CInv
<1>1. CInv /\ [Next]_vars => CInv'
  BY InsertKeepsCInv, StartKeepsCInv, KickKeepsCInv, DeleteKeepsCInv, RestKeepsCInv
     DEF Next, Done
<1> QED BY <1>1, InitCInv, PTL DEF Spec

\* Every variable of the check commands keeps its type, for every bound on the
\* evictions and every layout of the buckets.
THEOREM CheckTypeCorrect == Spec => []CheckTypeOK
<1>1. CInv => CheckTypeOK
  BY DEF CInv
<1> QED BY <1>1, CuckooInvariant, PTL

\* However cuckoo_insert moves fingerprints about, each is in a bucket where
\* the lookup of an item of the list looks for it.
THEOREM EvictionsGoHome == Spec => []FingerprintsAreAtHome
<1>1. CInv => FingerprintsAreAtHome
  BY DEF CInv
<1> QED BY <1>1, CuckooInvariant, PTL

\* No item that was inserted is lost to an eviction as long as no insertion
\* ran out of kicks.
THEOREM CuckooHasNoFalseNegatives == Spec => []NoFalseNegatives
<1>1. CInv => NoFalseNegatives
  BY DEF CInv
<1> QED BY <1>1, CuckooInvariant, PTL

-----------------------------------------------------------------------------
(***************************************************************************)
(* Counting copies.  The items of the list that the filter cannot tell     *)
(* from the value under check have as many copies in the two buckets of    *)
(* the value, one of which may be in hand.                                 *)
(***************************************************************************)
InClass(fp, b)  == fp = Fingerprint[value] /\ b \in Pair(value)
One(fp, b) == IF InClass(fp, b) THEN 1 ELSE 0
CopiesIn(cells) == { c \in Pair(value) \X Slots : cells[c[1]][c[2]] = Fingerprint[value] }
Copies == CopiesIn(buckets)
Held   == IF pc = "kick" THEN One(hand, idx) ELSE 0
Items  == { i \in Reached : SameEntry(list[i], value) }

CopiesAreCounted ==
    ~ dropped /\ pc # "done" =>
        /\ IsFiniteSet(Items) /\ IsFiniteSet(Copies)
        /\ Cardinality(Items) = Cardinality(Copies) + Held

WholeListIsIn == pc \in {"lookup", "done"} => Reached = DOMAIN list

\* Values with one fingerprint and one bucket in common have both in common.
LEMMA SamePair ==
    ASSUME NEW v \in Values, NEW w \in Values, Fingerprint[v] = Fingerprint[w],
           NEW b \in Pair(v) \cap Pair(w)
    PROVE  Pair(v) = Pair(w)
<1>1. ASSUME NEW u \in Values, b \in Pair(u)
      PROVE  Pair(u) = {b, Alt[Fingerprint[u]][b]}
  <2>1. /\ Fingerprint[u] \in Fingerprints /\ Index1[u] \in Buckets
        /\ Alt[Fingerprint[u]][Alt[Fingerprint[u]][Index1[u]]] = Index1[u]
    BY CuckooAssumption
  <2> QED BY <1>1, <2>1 DEF Pair, index2
<1> QED BY <1>1

\* new has fp where old has was, in slot s of bucket b, and is old everywhere else.
OneCellSet(old, new, b, s, was, fp) ==
    /\ old[b][s] = was
    /\ \A c \in Buckets, t \in Slots : new[c][t] = IF c = b /\ t = s THEN fp ELSE old[c][t]

\* What one cell that changes does to the number of copies.
LEMMA PutIn ==
    ASSUME value \in Values, NEW old, NEW new, NEW b \in Buckets, NEW s \in Slots,
           NEW was, NEW fp, OneCellSet(old, new, b, s, was, fp), IsFiniteSet(CopiesIn(old))
    PROVE  /\ IsFiniteSet(CopiesIn(new))
           /\ Cardinality(CopiesIn(new)) \in Nat /\ Cardinality(CopiesIn(old)) \in Nat
           /\ Cardinality(CopiesIn(new)) + One(was, b)
                = Cardinality(CopiesIn(old)) + One(fp, b)
<1> DEFINE rest == CopiesIn(old) \ {<<b, s>>}
<1>1. Pair(value) \subseteq Buckets
  BY PairType
<1>2. /\ InClass(was, b) => CopiesIn(old) = rest \cup {<<b, s>>}
      /\ ~ InClass(was, b) => CopiesIn(old) = rest
  BY DEF CopiesIn, InClass, OneCellSet
<1>3. \A c \in Pair(value) \X Slots :
         c # <<b, s>> => new[c[1]][c[2]] = old[c[1]][c[2]]
  <2>1. \A c \in Pair(value) \X Slots : c = <<c[1], c[2]>> /\ c[1] \in Buckets /\ c[2] \in Slots
    BY <1>1
  <2> QED BY <2>1 DEF OneCellSet
<1>4. new[b][s] = fp
  BY DEF OneCellSet
<1>5. /\ InClass(fp, b) => CopiesIn(new) = rest \cup {<<b, s>>}
      /\ ~ InClass(fp, b) => CopiesIn(new) = rest
  BY <1>3, <1>4 DEF CopiesIn, InClass
<1>6. <<b, s>> \notin rest
  OBVIOUS
<1>7. IsFiniteSet(rest)
  BY FS_RemoveElement
<1> HIDE DEF rest
<1>8. /\ Cardinality(rest) \in Nat
      /\ IsFiniteSet(rest \cup {<<b, s>>})
      /\ Cardinality(rest \cup {<<b, s>>}) = Cardinality(rest) + 1
  BY <1>6, <1>7, FS_AddElement, FS_CardinalityType
<1> DEFINE had == InClass(was, b)
           has == InClass(fp, b)
           full == rest \cup {<<b, s>>}
<1>9. /\ CopiesIn(old) = IF had THEN full ELSE rest
      /\ CopiesIn(new) = IF has THEN full ELSE rest
  BY <1>2, <1>5
<1> HIDE DEF had, has, full
<1>10. /\ Cardinality(full) = Cardinality(rest) + 1
       /\ IsFiniteSet(full) /\ Cardinality(full) \in Nat
  BY <1>8 DEF full
<1>11. Cardinality(CopiesIn(new)) + (IF had THEN 1 ELSE 0) = Cardinality(CopiesIn(old)) + (IF has THEN 1 ELSE 0)
  <2>1. CASE had /\ has
    BY <1>8, <1>9, <1>10, <2>1 DEF One
  <2>2. CASE had /\ ~ has
    BY <1>8, <1>9, <1>10, <2>2 DEF One
  <2>3. CASE ~ had /\ has
    BY <1>8, <1>9, <1>10, <2>3 DEF One
  <2>4. CASE ~ had /\ ~ has
    BY <1>8, <1>9, <1>10, <2>4 DEF One
  <2> QED BY <2>1, <2>2, <2>3, <2>4
<1> QED BY <1>7, <1>8, <1>9, <1>10, <1>11 DEF had, has, One

\* One more item of the list, of the class or not.
LEMMA OneMoreItem ==
    ASSUME CInv, NEW i \in DOMAIN list, IsNext(i), next' = i + 1, UNCHANGED args,
           IsFiniteSet(Items)
    PROVE  /\ IsFiniteSet(Items')
           /\ Cardinality(Items) \in Nat
           /\ Cardinality(Items') = Cardinality(Items) + (IF SameEntry(list[i], value) THEN 1 ELSE 0)
<1>1. list' = list /\ value' = value
  BY SameList DEF args
<1>2. \A j \in DOMAIN list : j \in Nat \ {0}
  BY ListType DEF CInv, CheckTypeOK
<1>3. Reached' = Reached \cup {i} /\ i \notin Reached
  BY <1>1, <1>2 DEF CInv, CheckTypeOK, IsNext, Reached
<1>4. Items' = { j \in Reached' : SameEntry(list[j], value) }
  BY <1>1 DEF Items, SameEntry, Pair, index2
<1>5. IF SameEntry(list[i], value) THEN Items' = Items \cup {i} ELSE Items' = Items
  BY <1>3, <1>4 DEF Items
<1>6. i \notin Items
  BY <1>3 DEF Items
<1> QED BY <1>5, <1>6, FS_AddElement, FS_CardinalityType DEF One

\* The fingerprint of an item is of the class, in a bucket of the item, exactly
\* when the item is.
LEMMA ClassOfItem ==
    ASSUME value \in Values, NEW v \in Values, NEW b \in Pair(v)
    PROVE  InClass(Fingerprint[v], b) <=> SameEntry(v, value)
BY SamePair DEF InClass, SameEntry

LEMMA InsertKeepsCount ==
    ASSUME CInv, CopiesAreCounted, NEW i \in DOMAIN list, InsertDirectly(i)
    PROVE  CopiesAreCounted'
<1> SUFFICES ASSUME ~ dropped
             PROVE  /\ IsFiniteSet(Items') /\ IsFiniteSet(Copies')
                    /\ Cardinality(Items') = Cardinality(Copies') + Held'
  BY DEF CopiesAreCounted, InsertDirectly
<1> DEFINE v == list[i]
<1>1. v \in Values /\ value \in Values
  BY ListType DEF CInv, CheckTypeOK
<1>2. /\ Fingerprint[v] \in Fingerprints /\ Pair(v) \subseteq Buckets
      /\ Index1[v] \in Pair(v) /\ index2(v) \in Pair(v)
  BY <1>1, PairType
<1> HIDE DEF v
<1>3. PICK b \in Pair(v), s \in Slots :
        buckets[b][s] = Empty /\ buckets' = [buckets EXCEPT ![b][s] = Fingerprint[v]]
  BY <1>2 DEF InsertDirectly, bucket_insert, IsFirst, v
<1>4. OneCellSet(buckets, buckets', b, s, Empty, Fingerprint[v])
  BY <1>2, <1>3 DEF CInv, CheckTypeOK, Cells, OneCellSet
<1>5. /\ IsFiniteSet(Items) /\ IsFiniteSet(Copies)
      /\ Cardinality(Items) = Cardinality(Copies)
      /\ value' = value /\ Held' = 0
  <2>1. Held = 0 /\ Held' = 0 /\ value' = value
    BY DEF InsertDirectly, Held, One, args
  <2> QED BY <2>1, FS_CardinalityType DEF CopiesAreCounted, InsertDirectly
<1>6. ~ InClass(Empty, b)
  BY <1>1, <1>3, PairType DEF InClass
<1>7. /\ IsFiniteSet(CopiesIn(buckets'))
      /\ Cardinality(CopiesIn(buckets)) \in Nat
      /\ Cardinality(CopiesIn(buckets')) + One(Empty, b)
           = Cardinality(CopiesIn(buckets)) + One(Fingerprint[v], b)
      /\ Cardinality(CopiesIn(buckets')) \in Nat
  <2>1. b \in Buckets /\ IsFiniteSet(CopiesIn(buckets))
    BY <1>2, <1>5 DEF Copies
  <2> QED BY <1>1, <1>4, <2>1, PutIn
<1>8. Copies' = CopiesIn(buckets')
  BY <1>5 DEF Copies, CopiesIn, Pair, index2
<1>9. /\ IsFiniteSet(Items')
      /\ Cardinality(Items') = Cardinality(Items) + (IF SameEntry(v, value) THEN 1 ELSE 0)
  BY <1>5, OneMoreItem DEF InsertDirectly, v
<1>10. One(Empty, b) = 0
       /\ (InClass(Fingerprint[v], b) <=> SameEntry(v, value))
  BY <1>1, <1>3, <1>6, ClassOfItem DEF One
<1>11. One(Fingerprint[v], b) = (IF SameEntry(v, value) THEN 1 ELSE 0)
  BY <1>10 DEF One
<1> QED BY <1>5, <1>7, <1>8, <1>9, <1>10, <1>11 DEF Copies

LEMMA StartKeepsCount ==
    ASSUME CInv, CopiesAreCounted, NEW i \in DOMAIN list, StartKicking(i)
    PROVE  CopiesAreCounted'
<1> SUFFICES ASSUME ~ dropped
             PROVE  /\ IsFiniteSet(Items') /\ IsFiniteSet(Copies')
                    /\ Cardinality(Items') = Cardinality(Copies') + Held'
  BY DEF CopiesAreCounted, StartKicking
<1> DEFINE v == list[i]
<1>1. v \in Values /\ value \in Values /\ Index1[v] \in Pair(v) /\ index2(v) \in Pair(v)
  BY ListType, PairType DEF CInv, CheckTypeOK
<1> HIDE DEF v
<1>2. hand' = Fingerprint[v] /\ idx' \in Pair(v) /\ pc' = "kick" /\ buckets' = buckets
      /\ value' = value
  BY <1>1 DEF StartKicking, v, args
<1>3. /\ IsFiniteSet(Items) /\ IsFiniteSet(Copies)
      /\ Cardinality(Items) = Cardinality(Copies)
  <2>1. Held = 0
    BY DEF StartKicking, Held, One
  <2> QED BY <2>1, FS_CardinalityType DEF CopiesAreCounted, StartKicking
<1>4. Copies' = Copies
  BY <1>2 DEF Copies, CopiesIn, Pair, index2
<1>5. /\ IsFiniteSet(Items')
      /\ Cardinality(Items') = Cardinality(Items) + (IF SameEntry(v, value) THEN 1 ELSE 0)
  BY <1>3, OneMoreItem DEF StartKicking, v
<1>6. InClass(hand, idx)' <=> SameEntry(v, value)
  <2>1. InClass(hand', idx') <=> SameEntry(v, value)
    BY <1>1, <1>2, ClassOfItem
  <2> QED BY <1>2, <2>1 DEF InClass, Pair, index2
<1>7. Held' = (IF SameEntry(v, value) THEN 1 ELSE 0)
  BY <1>2, <1>6 DEF Held, One
<1> QED BY <1>3, <1>4, <1>5, <1>7

\* An eviction only changes which copy is in hand.
LEMMA KickKeepsCount ==
    ASSUME CInv, CopiesAreCounted, Kick
    PROVE  CopiesAreCounted'
<1> SUFFICES ASSUME ~ dropped
             PROVE  /\ IsFiniteSet(Items') /\ IsFiniteSet(Copies')
                    /\ Cardinality(Items') = Cardinality(Copies') + Held'
  BY DEF CopiesAreCounted, Kick
<1> DEFINE s == KickSlot[hand][kick]
           old == buckets[idx][s]
           home == Alt[old][idx]
           swapped == [buckets EXCEPT ![idx][s] = hand]
<1>1. /\ pc = "kick" /\ next' = next /\ hand \in Fingerprints /\ idx \in Buckets
      /\ kick \in 0..MaxKicks /\ buckets \in Cells /\ value \in Values /\ value' = value
      /\ UNCHANGED args
  BY DEF Kick, CInv, CheckTypeOK, args
<1>2. s \in Slots
  BY <1>1, CuckooAssumption
<1>3. old \in Fingerprints
  BY <1>1, <1>2 DEF CInv, KickedBucketIsFull, bucket_contains, Cells
<1>4. home \in Buckets /\ Alt[old][home] = idx
  BY <1>1, <1>3, CuckooAssumption
<1>5. OneCellSet(buckets, swapped, idx, s, old, hand)
  BY <1>1, <1>2 DEF Cells, OneCellSet
<1>6. swapped \in [Buckets -> [Slots -> Fingerprints \cup {Empty}]]
  BY <1>1, <1>2 DEF Cells
<1>7. InClass(old, idx) <=> InClass(old, home)
  BY <1>1, <1>4, PairType DEF InClass
<1> HIDE DEF s, home, swapped
<1>8. /\ IsFiniteSet(Items) /\ IsFiniteSet(Copies)
      /\ Cardinality(Items) = Cardinality(Copies) + One(hand, idx)
  <2>1. Held = One(hand, idx)
    BY <1>1 DEF Held, One
  <2> QED BY <1>1, <2>1 DEF CopiesAreCounted
<1>9. /\ IsFiniteSet(CopiesIn(swapped)) /\ Cardinality(CopiesIn(swapped)) \in Nat
      /\ Cardinality(CopiesIn(swapped)) + One(old, idx)
           = Cardinality(Copies) + One(hand, idx)
  BY <1>1, <1>2, <1>5, <1>8, PutIn DEF Copies
<1> HIDE DEF old
<1>10. One(old, home) = One(old, idx)
  BY <1>7 DEF One
<1>11. Items' = Items
  <2>1. list' = list
    BY SameList DEF Kick
  <2> QED BY <1>1, <2>1 DEF Items, Reached, SameEntry, Pair, index2
<1>12. Copies' = CopiesIn(buckets')
  BY <1>1 DEF Copies, CopiesIn, Pair, index2
<1>13. CASE Place(swapped, home, old) /\ pc' = "load" /\ UNCHANGED loop
  <2>1. PICK t \in Slots :
          /\ swapped[home][t] = Empty
          /\ buckets' = [swapped EXCEPT ![home][t] = old]
    BY <1>13 DEF Place, IsFirst
  <2>2. OneCellSet(swapped, buckets', home, t, Empty, old)
    BY <1>4, <1>6, <2>1 DEF OneCellSet
  <2>3. One(Empty, home) = 0
    BY <1>1, <2>1, PairType DEF InClass, One
  <2>4. /\ IsFiniteSet(CopiesIn(buckets')) /\ Cardinality(CopiesIn(buckets')) \in Nat
        /\ Cardinality(CopiesIn(buckets')) + One(Empty, home)
             = Cardinality(CopiesIn(swapped)) + One(old, home)
    BY <1>1, <1>4, <1>9, <2>2, PutIn
  <2>5. Held' = 0
    BY <1>13 DEF Held, One
  <2> QED BY <1>8, <1>9, <1>10, <1>11, <1>12, <2>3, <2>4, <2>5
<1>14. CASE buckets' = swapped /\ hand' = old /\ idx' = home /\ pc' = pc
  <2>1. InClass(hand, idx)' <=> InClass(old, home)
    BY <1>1, <1>14 DEF InClass, Pair, index2
  <2>2. Held' = One(old, home)
    BY <1>1, <1>14, <2>1 DEF Held, One
  <2> QED BY <1>8, <1>9, <1>10, <1>11, <1>12, <1>14, <2>2
<1>15. \/ Place(swapped, home, old) /\ pc' = "load" /\ UNCHANGED loop
       \/ buckets' = swapped /\ hand' = old /\ idx' = home /\ pc' = pc
  BY Zenon DEF Kick, Home, TakeOut, s, old, home, swapped
<1> QED BY <1>13, <1>14, <1>15

LEMMA RestKeepsCount ==
    ASSUME CInv, CopiesAreCounted,
           GiveUp \/ EndOfList \/ Lookup \/ LookupAndDelete \/ UNCHANGED vars
    PROVE  CopiesAreCounted'
<1> SUFFICES ASSUME ~ dropped', pc' # "done"
             PROVE  CopiesAreCounted'
  BY DEF CopiesAreCounted
<1>1. EndOfList \/ UNCHANGED vars
  BY DEF GiveUp, Lookup, LookupAndDelete
<1>2. list' = list
  BY <1>1, SameList DEF EndOfList, vars
<1>3. /\ UNCHANGED <<args, buckets, next, loop, dropped>>
      /\ pc # "done" /\ (pc' = "kick" <=> pc = "kick")
  BY <1>1 DEF EndOfList, vars
<1>4. value' = value /\ hand' = hand /\ idx' = idx
  BY <1>3 DEF args, loop
<1>5. Items' = Items /\ Copies' = Copies
  BY <1>2, <1>3, <1>4 DEF Items, Reached, Copies, CopiesIn, SameEntry, Pair, index2
<1>6. Held' = Held
  BY <1>3, <1>4 DEF Held, One, InClass, Pair, index2
<1> QED BY <1>3, <1>5, <1>6 DEF CopiesAreCounted

\* The look-up starts once every item of the list was reached.
LEMMA LookupSeesWholeList ==
    ASSUME CInv, WholeListIsIn, [Next]_vars
    PROVE  WholeListIsIn'
<1>1. CASE EndOfList \/ Lookup \/ LookupAndDelete \/ UNCHANGED vars
  <2>1. list' = list /\ next' = next
    BY <1>1, SameList DEF EndOfList, Lookup, LookupAndDelete, vars
  <2>2. Reached' = Reached
    BY <2>1 DEF Reached
  <2>3. CASE EndOfList
    BY <2>1, <2>2, <2>3 DEF WholeListIsIn, EndOfList, Reached
  <2>4. CASE Lookup \/ LookupAndDelete \/ UNCHANGED vars
    BY <2>1, <2>2, <2>4 DEF WholeListIsIn, Lookup, LookupAndDelete, vars
  <2> QED BY <1>1, <2>3, <2>4
<1>2. CASE \E i \in DOMAIN list : InsertDirectly(i) \/ StartKicking(i)
  BY <1>2 DEF WholeListIsIn, InsertDirectly, StartKicking
<1>3. CASE Kick \/ GiveUp
  BY <1>3 DEF WholeListIsIn, Kick, GiveUp
<1> QED BY <1>1, <1>2, <1>3 DEF Next, Done

\* cuckoo_delete: with one copy less the value is found exactly when there was
\* a second one, and an item that is not of its class stays.
LEMMA DeleteTakesOneCopy ==
    ASSUME CInv, CopiesAreCounted, WholeListIsIn, LookupAndDelete, ~ dropped
    PROVE  /\ outcome'.after_delete <=>
                 Cardinality({ i \in DOMAIN list : SameEntry(list[i], value) }) > 1
           /\ \A v \in Inserted : SameEntry(v, value) \/ cuckoo_contains(v)'
<1>1. /\ value \in Values /\ Pair(value) \subseteq Buckets /\ Fingerprint[value] # Empty
      /\ buckets \in Cells /\ pc = "lookup" /\ value' = value
      /\ outcome'.after_delete = cuckoo_contains(value)'
  BY PairType DEF CInv, CheckTypeOK, LookupAndDelete, Report, args
<1>2. PICK b \in Pair(value), s \in Slots :
        buckets[b][s] = Fingerprint[value] /\ buckets' = [buckets EXCEPT ![b][s] = Empty]
  BY DEF LookupAndDelete, cuckoo_delete, IsFirst
<1>3. OneCellSet(buckets, buckets', b, s, Fingerprint[value], Empty)
  BY <1>1, <1>2 DEF Cells, OneCellSet
<1>4. /\ { i \in DOMAIN list : SameEntry(list[i], value) } = Items
      /\ IsFiniteSet(Copies) /\ Cardinality(Items) = Cardinality(Copies)
  <2>1. Held = 0
    BY <1>1 DEF Held
  <2> QED BY <1>1, <2>1, FS_CardinalityType DEF CopiesAreCounted, WholeListIsIn, Items
<1>5. One(Fingerprint[value], b) = 1 /\ One(Empty, b) = 0
  BY <1>1 DEF One, InClass
<1>6. /\ IsFiniteSet(CopiesIn(buckets')) /\ Cardinality(CopiesIn(buckets')) \in Nat
      /\ Cardinality(CopiesIn(buckets')) + One(Fingerprint[value], b)
           = Cardinality(CopiesIn(buckets)) + One(Empty, b)
      /\ Cardinality(CopiesIn(buckets)) \in Nat
  BY <1>1, <1>3, <1>4, PutIn DEF Copies
<1>7. cuckoo_contains(value)' <=> CopiesIn(buckets') # {}
  <2>1. cuckoo_contains(value)' <=>
          \E c \in Pair(value), t \in Slots : buckets'[c][t] = Fingerprint[value]
    BY <1>1 DEF cuckoo_contains, bucket_contains, Pair, index2
  <2>2. ASSUME NEW c \in Pair(value), NEW t \in Slots, buckets'[c][t] = Fingerprint[value]
        PROVE  <<c, t>> \in CopiesIn(buckets')
    BY <2>2 DEF CopiesIn
  <2>3. ASSUME NEW d \in CopiesIn(buckets')
        PROVE  \E c \in Pair(value), t \in Slots : buckets'[c][t] = Fingerprint[value]
    BY DEF CopiesIn
  <2> QED BY <2>1, <2>2, <2>3
<1>8. CopiesIn(buckets') # {} <=> Cardinality(CopiesIn(buckets')) # 0
  BY <1>6, FS_EmptySet
<1>9. outcome'.after_delete <=> Cardinality(Items) > 1
  BY <1>1, <1>4, <1>5, <1>6, <1>7, <1>8 DEF Copies
<1>10. ASSUME NEW v \in Inserted, ~ SameEntry(v, value)
       PROVE  cuckoo_contains(v)'
  <2>1. v \in Values /\ Pair(v) \subseteq Buckets
    BY ListType, PairType DEF CInv, CheckTypeOK, Inserted, Reached
  <2>2. PICK c \in Pair(v), t \in Slots : buckets[c][t] = Fingerprint[v]
    BY <1>1 DEF CInv, NoFalseNegatives, cuckoo_contains, bucket_contains
  <2>3. ~ (c = b /\ t = s)
    BY <1>1, <1>2, <1>10, <2>1, <2>2, SamePair DEF SameEntry
  <2>4. buckets'[c][t] = Fingerprint[v]
    BY <1>3, <2>1, <2>2, <2>3 DEF OneCellSet
  <2> QED BY <2>2, <2>4 DEF cuckoo_contains, bucket_contains, Pair, index2
<1> QED BY <1>4, <1>9, <1>10

LEMMA DeletionInvariant == Spec => [](CInv /\ CopiesAreCounted /\ WholeListIsIn)
<1>1. Init => CopiesAreCounted /\ WholeListIsIn
  <2> SUFFICES ASSUME Init PROVE CopiesAreCounted /\ WholeListIsIn
    OBVIOUS
  <2>1. \A i \in DOMAIN list : i \in Nat \ {0}
    BY ListType DEF Init
  <2>2. Items = {}
    BY <2>1 DEF Init, Items, Reached
  <2>3. value \in Values /\ Pair(value) \subseteq Buckets /\ Fingerprint[value] # Empty
    BY PairType DEF Init
  <2>4. Copies = {}
    BY <2>3 DEF Init, Copies, CopiesIn
  <2>5. Held = 0
    BY DEF Init, Held
  <2> QED BY <2>2, <2>4, <2>5, FS_EmptySet DEF Init, CopiesAreCounted, WholeListIsIn
<1>2. CInv /\ CopiesAreCounted /\ WholeListIsIn /\ [Next]_vars
        => (CopiesAreCounted /\ WholeListIsIn)'
  BY InsertKeepsCount, StartKeepsCount, KickKeepsCount, RestKeepsCount, LookupSeesWholeList
     DEF Next, Done
<1> QED BY <1>1, <1>2, CuckooInvariant, PTL DEF Spec

\* --delete-test forgets exactly one copy of the value: it stays possible when
\* the list has another item of its class, and no other item is lost.
THEOREM DeletionForgetsOneCopy == Spec => []DeleteForgetsOneCopy
<1>1. Init => DeleteForgetsOneCopy
  BY DEF Init, DeleteForgetsOneCopy
<1>2. ASSUME CInv /\ CopiesAreCounted /\ WholeListIsIn, DeleteForgetsOneCopy, [Next]_vars
      PROVE  DeleteForgetsOneCopy'
  <2> SUFFICES ASSUME pc' = "done", delete_test', outcome'.possible, ~ dropped'
               PROVE  DeleteForgetsOneCopy'
    BY DEF DeleteForgetsOneCopy
  <2>1. CASE LookupAndDelete
    <3>1. list' = list /\ value' = value /\ next' = next /\ dropped' = dropped
      BY <2>1, SameList DEF LookupAndDelete, args
    <3>2. Inserted' = Inserted
      BY <3>1 DEF Inserted, Reached
    <3>3. \A v : SameEntry(v, value)' <=> SameEntry(v, value)
      BY <3>1 DEF SameEntry, Pair, index2
    <3>4. { i \in DOMAIN list : SameEntry(list[i], value) }'
            = { i \in DOMAIN list : SameEntry(list[i], value) }
      BY <3>1, <3>3
    <3> QED BY <1>2, <2>1, <3>1, <3>2, <3>3, <3>4, DeleteTakesOneCopy DEF DeleteForgetsOneCopy
  <2>2. CASE UNCHANGED vars
    <3>1. list' = list /\ value' = value /\ next' = next
      BY <2>2, SameList DEF vars, args
    <3> QED BY <1>2, <2>2, <3>1 DEF DeleteForgetsOneCopy, vars, args, SameEntry, Pair, index2,
                                   Inserted, Reached, cuckoo_contains, bucket_contains
  <2>3. CASE Lookup
    BY <2>3 DEF Lookup, Report, args
  <2> QED BY <1>2, <2>1, <2>2, <2>3
          DEF Next, Done, InsertDirectly, StartKicking, Kick, GiveUp, EndOfList, CInv, CheckTypeOK
<1> QED BY <1>1, <1>2, DeletionInvariant, PTL DEF Spec

-----------------------------------------------------------------------------
\* What the analysis of a policy with the same arrays decides of the value.
AnalysisHit == CASE kind = "file"   -> policy_is_sensitive_file(value)
                 [] kind = "ip"     -> policy_is_blocked_ip(value)
                 [] kind = "domain" -> policy_is_blocked_domain(value)

LEMMA ArrayOfKind ==
    ASSUME CheckTypeOK
    PROVE  list_name \in DOMAIN PolicyFile /\ value # "" /\ (AnalysisHit <=> matched)
<1>1. list_name \in DOMAIN PolicyFile /\ value # ""
  BY ListAssumption DEF CheckTypeOK, list_name
<1>2. CASE kind = "file"
  BY <1>1, <1>2 DEF AnalysisHit, matched, bloom_possible, pattern_match, list_name,
                    policy_is_sensitive_file, policy_match_exact_with_bloom
<1>3. CASE kind = "ip"
  BY <1>1, <1>3 DEF AnalysisHit, matched, bloom_possible, pattern_match, list_name,
                    policy_is_blocked_ip, policy_match_exact_with_bloom
<1>4. CASE kind = "domain"
  BY <1>1, <1>4 DEF AnalysisHit, matched, bloom_possible, pattern_match, list_name,
                    policy_is_blocked_domain, policy_match_exact_with_bloom
<1> QED BY <1>1, <1>2, <1>3, <1>4 DEF CheckTypeOK

\* A name of the exact list is an item that the loading reaches, and the bits of
\* its hashes are set.
LEMMA ListedIsLoaded ==
    ASSUME CheckTypeOK, value \in exact[list_name], Reached = DOMAIN list
    PROVE  value \in Inserted /\ bloom_possible
<1>1. list_name \in DOMAIN PolicyFile /\ value # ""
  BY ArrayOfKind
<1>2. value \in TokensRead[list_name]
  BY <1>1 DEF exact
<1>3. PICK i \in DOMAIN PolicyFile[list_name] :
        /\ PolicyFile[list_name][i] = value
        /\ \A k \in 1..i : PolicyFile[list_name][k] # BadToken
  BY <1>1, <1>2 DEF TokensRead
<1>4. i \in DOMAIN list /\ list[i] = value
  BY <1>3 DEF list, ListOf
<1>5. BloomBits[value] \subseteq bloom[list_name]
  BY <1>1 DEF bloom, bloom_add_all
<1> QED BY <1>1, <1>4, <1>5 DEF Inserted, bloom_possible, bloom_might_contain

\* check answers as the analysis of the same policy does, and neither filter
\* hides a value of the exact list from it.
THEOREM CheckAgrees == Spec => []CheckAgreesWithAnalysis
<1>1. Init => CheckAgreesWithAnalysis
  BY DEF Init, CheckAgreesWithAnalysis
<1>2. ASSUME CInv /\ CopiesAreCounted /\ WholeListIsIn, CheckAgreesWithAnalysis, [Next]_vars
      PROVE  CheckAgreesWithAnalysis'
  <2> DEFINE code == outcome.code
             answer == (code = 0) <=> AnalysisHit
             possible == outcome.matched /\ ~ outcome.pattern =>
                       outcome.bloom /\ (outcome.possible \/ dropped)
  <2>1. CheckAgreesWithAnalysis <=> (pc = "done" => answer /\ possible)
    BY DEF CheckAgreesWithAnalysis, AnalysisHit
  <2>2. CheckAgreesWithAnalysis' <=> (pc' = "done" => answer' /\ possible')
    BY DEF CheckAgreesWithAnalysis, AnalysisHit
  <2> SUFFICES ASSUME pc' = "done" PROVE (answer /\ possible)'
    BY <2>2
  <2>3. CASE Lookup \/ LookupAndDelete
    <3>1. PICK found, after :
            /\ found \in BOOLEAN /\ pc = "lookup" /\ UNCHANGED <<kind, value, dropped>>
            /\ Report(found, after) /\ (cuckoo_contains(value) => found)
      BY <2>3 DEF Lookup, LookupAndDelete, args, cuckoo_contains
    <3>2. /\ outcome'.code = (IF matched THEN 0 ELSE 4)
          /\ outcome'.matched = matched /\ outcome'.pattern = pattern_match
          /\ outcome'.bloom = bloom_possible /\ outcome'.possible = found
      BY <3>1 DEF Report
    <3>3. AnalysisHit' = AnalysisHit
      BY <3>1 DEF AnalysisHit
    <3>4. answer'
      <4>1. AnalysisHit <=> matched
        BY <1>2, ArrayOfKind DEF CInv
      <4>2. (outcome'.code = 0) <=> matched
        BY <3>2
      <4>3. (outcome'.code = 0) <=> AnalysisHit'
        BY <3>3, <4>1, <4>2
      <4> QED BY <4>3
    <3>5. ASSUME matched, ~ pattern_match PROVE bloom_possible /\ (found \/ dropped)
      <4>1. value \in exact[list_name]
        BY <3>5 DEF matched
      <4>2. value \in Inserted /\ bloom_possible
        BY <1>2, <3>1, <4>1, ListedIsLoaded DEF CInv, WholeListIsIn
      <4> QED BY <1>2, <3>1, <4>2 DEF CInv, NoFalseNegatives
    <3> QED BY <3>1, <3>2, <3>4, <3>5
  <2>4. CASE UNCHANGED vars
    <3>1. AnalysisHit' = AnalysisHit
      BY <2>4 DEF AnalysisHit, vars, args
    <3> QED BY <1>2, <2>1, <2>4, <3>1 DEF vars
  <2> QED BY <1>2, <2>3, <2>4
          DEF Next, Done, InsertDirectly, StartKicking, Kick, GiveUp, EndOfList, CInv, CheckTypeOK
<1> QED BY <1>1, <1>2, DeletionInvariant, PTL DEF Spec

-----------------------------------------------------------------------------
(***************************************************************************)
(* tail, for every set of lines, however they parse when torn, and any     *)
(* number of lines: the reader between the writes of its writer misses     *)
(* nothing unless a read ended inside a line, its alerts follow the events *)
(* it has read, and it builds the graph of EventGraph.                     *)
(***************************************************************************)

Event == [pid : Pids, process : Text, file : Text, dst : Text, domain : Text, ip : Text]

LEMMA EventType ==
    ASSUME NEW line \in Lines
    PROVE  EventOf(line) \in Event /\ EventOf(line).pid \in Pids
BY LinesAssumption DEF EventOf, Event, Pids

-----------------------------------------------------------------------------
(***************************************************************************)
(* The file and the reader.  A rest always follows the head of its line,   *)
(* so a reader that no read has left behind a head is at the beginning of  *)
(* a line, and the events it has seen are those of the pieces before it.   *)
(***************************************************************************)
PieceSet == [line : Lines, part : {"whole", "head", "rest"}]

FileInv ==
    /\ file \in Seq(PieceSet)
    /\ \A i \in 1..Len(file) : file[i].part = "rest" <=> i > 1 /\ file[i - 1].part = "head"

ReadInv ==
    /\ pos \in 0..Len(file)
    /\ split \in BOOLEAN
    /\ seen \in Seq(Event)
    /\ ~split => /\ pos > 0 => file[pos].part # "head"
                 /\ SeenUpTo(pos)

\* The events among the first pieces, when the file grows.
LEMMA SameEventsWritten ==
    ASSUME FileInv, NEW piece, file' = file \/ file' = Append(file, piece)
    PROVE  \A n \in 0..Len(file) : EventsWritten(n)' = EventsWritten(n)
<1>1. /\ Len(file) \in Nat /\ DOMAIN file = 1..Len(file)
      /\ \A i \in 1..Len(file) : i \in DOMAIN file' /\ file'[i] = file[i]
  BY DEF FileInv
<1>2. ASSUME NEW n \in 0..Len(file) PROVE EventsWritten(n)' = EventsWritten(n)
  <2>1. 1..n \subseteq 1..Len(file)
    BY <1>1
  <2> QED BY <1>1, <2>1 DEF EventsWritten, LinesWritten
<1> QED BY <1>2

LEMMA SameSeenUpTo ==
    ASSUME FileInv, NEW n \in 0..Len(file), SeenUpTo(n), seen' = seen,
           NEW piece, file' = file \/ file' = Append(file, piece)
    PROVE  SeenUpTo(n)'
<1>1. /\ Len(file) \in Nat /\ DOMAIN file = 1..Len(file)
      /\ \A i \in 1..Len(file) : file'[i] = file[i]
  BY DEF FileInv
<1>2. \A i \in EventsWritten(n) : i \in 0..Len(file) /\ i \in 1..Len(file)
  BY <1>1 DEF EventsWritten
<1>3. EventsWritten(n)' = EventsWritten(n)
  BY SameEventsWritten
<1>4. \A i \in EventsWritten(n) : EventsWritten(i)' = EventsWritten(i)
  BY <1>2, SameEventsWritten
<1> QED BY <1>1, <1>2, <1>3, <1>4 DEF SeenUpTo

LEMMA WriterKeeps ==
    ASSUME FileInv, ReadInv, NEW line \in Lines, NEW part \in {"whole", "head", "rest"},
           part = "rest" <=> HalfWritten, file' = Append(file, Piece(line, part)),
           pos' = pos, split' = split, seen' = seen
    PROVE  FileInv' /\ ReadInv'
<1> DEFINE piece == Piece(line, part)
           n == Len(file)
<1>1. piece \in PieceSet /\ piece.part = part
  BY DEF PieceSet, Piece
<1> HIDE DEF piece
<1>2. /\ file' \in Seq(PieceSet) /\ n \in Nat /\ Len(file') = n + 1 /\ file'[n + 1] = piece
      /\ \A i \in 1..n : file'[i] = file[i]
  BY <1>1 DEF FileInv, piece
<1>3. \A i \in 1..(n + 1) : file'[i].part = "rest" <=> i > 1 /\ file'[i - 1].part = "head"
  <2> SUFFICES ASSUME NEW i \in 1..(n + 1)
               PROVE  file'[i].part = "rest" <=> i > 1 /\ file'[i - 1].part = "head"
    OBVIOUS
  <2>1. CASE i \in 1..n
    <3>1. i > 1 => i - 1 \in 1..n
      BY <1>2, <2>1
    <3> QED BY <1>2, <2>1, <3>1 DEF FileInv
  <2>2. CASE i = n + 1
    <3>1. i > 1 <=> n # 0
      BY <1>2, <2>2
    <3>2. n # 0 => i - 1 = n /\ n \in 1..n
      BY <1>2, <2>2
    <3>3. HalfWritten <=> n # 0 /\ file[n].part = "head"
      <4>1. file # <<>> <=> n # 0
        BY DEF FileInv
      <4> QED BY <4>1 DEF HalfWritten
    <3> QED BY <1>1, <1>2, <2>2, <3>1, <3>2, <3>3
  <2>3. i \in 1..n \/ i = n + 1
    BY <1>2
  <2> QED BY <2>1, <2>2, <2>3
<1>4. FileInv'
  BY <1>2, <1>3 DEF FileInv
<1>5. ~split => SeenUpTo(pos)'
  <2>1. \A k \in 0..Len(file) : SeenUpTo(k) => SeenUpTo(k)'
    BY SameSeenUpTo
  <2>2. pos \in 0..Len(file) /\ pos' = pos
    BY DEF ReadInv
  <2>3. PICK m : m = pos
    OBVIOUS
  <2>4. ~split => SeenUpTo(m)'
    BY <2>1, <2>2, <2>3 DEF ReadInv
  <2> QED BY <2>2, <2>3, <2>4 DEF SeenUpTo
<1>6. pos > 0 => file'[pos] = file[pos]
  BY <1>2 DEF ReadInv
<1>7. pos \in 0..Len(file')
  BY <1>2 DEF ReadInv
<1> QED BY <1>4, <1>5, <1>6, <1>7 DEF ReadInv

\* One more piece of the file, which begins a line.
LEMMA OneMorePiece ==
    ASSUME FileInv, NEW n \in 0..Len(file), n + 1 \in 1..Len(file), SeenUpTo(n),
           file[n + 1].part # "rest", file' = file, seen \in Seq(Event),
           LET ev == EventOf(file[n + 1].line)
           IN  IF parse_event_line(file[n + 1].line)
                 THEN ev \in Event /\ seen' = Append(seen, ev)
                 ELSE seen' = seen
    PROVE  SeenUpTo(n + 1)'
<1> DEFINE E(k) == EventsWritten(k)
           ev == EventOf(file[n + 1].line)
<1>1. n \in Nat /\ DOMAIN file = 1..Len(file) /\ Len(file) \in Nat
  BY DEF FileInv
<1>2. 1..(n + 1) = (1..n) \cup {n + 1} /\ n + 1 \notin 1..n /\ n + 1 \in DOMAIN file
  BY <1>1
<1>3. E(n + 1) = E(n) \cup (IF parse_event_line(file[n + 1].line) THEN {n + 1} ELSE {})
  BY <1>2 DEF EventsWritten, LinesWritten
<1>4. \A k : E(k)' = E(k)
  BY DEF EventsWritten, LinesWritten
<1>5. IsFiniteSet(E(n)) /\ n + 1 \notin E(n)
  <2>1. E(n) \subseteq 1..n
    BY DEF EventsWritten
  <2>2. IsFiniteSet(1..n)
    BY <1>1, FS_Interval
  <2> QED BY <1>2, <2>1, <2>2, FS_Subset
<1>6. Len(seen) = Cardinality(E(n)) /\ \A i \in E(n) : seen[Cardinality(E(i))] = EventOf(file[i].line)
  BY DEF SeenUpTo
<1>7. CASE ~ parse_event_line(file[n + 1].line)
  <2>1. E(n + 1) = E(n) /\ seen' = seen
    BY <1>3, <1>7
  <2>2. \A i \in E(n + 1)' : seen'[Cardinality(E(i)')] = EventOf(file[i].line)
    BY <1>4, <1>6, <2>1
  <2>3. Len(seen') = Cardinality(E(n + 1)')
    BY <1>4, <1>6, <2>1
  <2> QED BY <2>2, <2>3 DEF SeenUpTo
<1>8. CASE parse_event_line(file[n + 1].line)
  <2>1. E(n + 1) = E(n) \cup {n + 1} /\ seen' = Append(seen, ev) /\ ev \in Event
    BY <1>3, <1>8
  <2>2. Cardinality(E(n + 1)) = Cardinality(E(n)) + 1 /\ Cardinality(E(n)) \in Nat
    BY <1>5, <2>1, FS_AddElement, FS_CardinalityType
  <2>3. \A i \in E(n) : Cardinality(E(i)) \in 1..Len(seen)
    <3> SUFFICES ASSUME NEW i \in E(n) PROVE Cardinality(E(i)) \in 1..Len(seen)
      OBVIOUS
    <3>1. i \in 1..n /\ E(i) \subseteq E(n) /\ i \in E(i)
      BY <1>1 DEF EventsWritten
    <3>2. IsFiniteSet(E(i)) /\ Cardinality(E(i)) <= Cardinality(E(n))
      BY <1>5, <3>1, FS_Subset
    <3>3. Cardinality(E(i)) \in Nat /\ Cardinality(E(i)) # 0
      BY <3>1, <3>2, FS_CardinalityType, FS_EmptySet
    <3> HIDE DEF E
    <3> QED BY <1>6, <2>2, <3>2, <3>3
  <2> HIDE DEF ev
  <2>4. /\ Len(seen') = Len(seen) + 1 /\ seen'[Len(seen) + 1] = ev
        /\ \A k \in 1..Len(seen) : seen'[k] = seen[k]
    BY <2>1
  <2>5. Len(seen') = Cardinality(E(n + 1))
    BY <1>6, <2>2, <2>4
  <2>6. \A i \in E(n + 1) : seen'[Cardinality(E(i))] = EventOf(file[i].line)
    <3> SUFFICES ASSUME NEW i \in E(n + 1) PROVE seen'[Cardinality(E(i))] = EventOf(file[i].line)
      OBVIOUS
    <3>1. CASE i \in E(n)
      <4> HIDE DEF E
      <4> QED BY <1>6, <2>3, <2>4, <3>1
    <3>2. CASE i = n + 1
      BY <1>6, <2>2, <2>4, <3>2 DEF ev
    <3> QED BY <2>1, <3>1, <3>2
  <2> QED BY <1>4, <2>5, <2>6 DEF SeenUpTo
<1> QED BY <1>7, <1>8

LEMMA GetLineInLines ==
    ASSUME FileInv, pos \in 0..Len(file), pos < Len(file)
    PROVE  GetLine \in Lines
<1> DEFINE line == file[pos + 1].line
<1>1. Len(file) \in Nat /\ pos + 1 \in 1..Len(file)
  BY DEF FileInv
<1>2. file[pos + 1] \in PieceSet
  BY <1>1 DEF FileInv
<1>3. line \in Lines
  BY <1>2 DEF PieceSet
<1>4. Torn[line].head \in Lines /\ Torn[line].rest \in Lines
  BY <1>3, TornAssumption
<1> QED BY <1>3, <1>4 DEF GetLine

LEMMA ReadKeeps ==
    ASSUME FileInv, ReadInv, Read
    PROVE  FileInv' /\ ReadInv'
<1> DEFINE n == Len(file)
           part == file[pos + 1].part
           line == file[pos + 1].line
<1>1. /\ pos < n /\ file' = file /\ pos' = pos + Pieces
      /\ eof' = (pos' = Len(file) /\ file[pos'].part = "head") /\ split' = (split \/ eof')
  BY DEF Read
<1>2. /\ n \in Nat /\ DOMAIN file = 1..n /\ pos \in Nat /\ pos + 1 \in 1..n
      /\ pos \in 0..n
  BY <1>1 DEF FileInv, ReadInv
<1>3. file[pos + 1] \in PieceSet
  BY <1>2 DEF FileInv
<1>4. FileInv'
  BY <1>1 DEF FileInv
<1>5. Pieces = IF part = "head" /\ pos + 1 < n THEN 2 ELSE 1
  BY DEF Pieces
<1>6. pos' \in 0..n
  <2>1. Pieces = 1 \/ (Pieces = 2 /\ pos + 1 < n)
    BY <1>5
  <2>2. pos' = pos + Pieces
    BY <1>1
  <2> HIDE DEF n
  <2> QED BY <1>2, <2>1, <2>2
<1>7. split' \in BOOLEAN
  BY <1>1 DEF ReadInv
<1>8. GetLine \in Lines
  BY <1>1, <1>2, GetLineInLines
<1>9. seen' \in Seq(Event)
  <2>1. EventOf(GetLine) \in Event /\ seen \in Seq(Event)
    BY <1>8, EventType DEF ReadInv
  <2>2. seen' = Append(seen, EventOf(GetLine)) \/ seen' = seen
    BY DEF Read, TailEvent
  <2> QED BY <2>1, <2>2
<1>10. ASSUME ~ split' PROVE (pos' > 0 => file'[pos'].part # "head") /\ SeenUpTo(pos)'
  <2>1. /\ ~ split /\ ~ (pos' = n /\ file[pos'].part = "head")
        /\ SeenUpTo(pos) /\ (pos > 0 => file[pos].part # "head")
    BY <1>1, <1>10 DEF ReadInv
  <2>2. part \in {"whole", "head"}
    <3>1. part = "rest" <=> pos + 1 > 1 /\ file[(pos + 1) - 1].part = "head"
      BY <1>2 DEF FileInv
    <3>2. (pos + 1) - 1 = pos /\ (pos + 1 > 1 <=> pos > 0)
      BY <1>2
    <3> QED BY <1>3, <2>1, <3>1, <3>2 DEF PieceSet
  <2>3. part = "head" => Pieces = 2 /\ pos + 2 \in 1..n
    <3>1. ASSUME part = "head", ~ (pos + 1 < n) PROVE FALSE
      <4>1. Pieces = 1
        BY <1>5, <3>1
      <4>2. pos + 1 = n
        <5>1. pos + 1 \in Nat /\ pos + 1 <= n /\ n \in Nat
          BY <1>2
        <5> HIDE DEF n
        <5> QED BY <3>1, <5>1
      <4>3. pos' = n
        BY <1>1, <4>1, <4>2
      <4> QED BY <2>1, <3>1, <4>2, <4>3
    <3> QED BY <1>2, <1>5, <3>1
  <2>4. GetLine = line
    <3>1. part # "rest" /\ ~ (part = "head" /\ Pieces = 1)
      BY <2>2, <2>3
    <3> QED BY <3>1 DEF GetLine
  <2>5. IF parse_event_line(line) THEN EventOf(line) \in Event /\ seen' = Append(seen, EventOf(line))
                                  ELSE seen' = seen
    <3>1. EventOf(line) \in Event
      BY <1>8, <2>4, EventType
    <3> HIDE DEF line
    <3> QED BY <2>4, <3>1 DEF Read, TailEvent
  <2>6. PICK k \in 0..n : k = pos
    BY <1>2
  <2>7. SeenUpTo(k + 1)'
    <3>1. /\ k + 1 \in 1..n /\ SeenUpTo(k) /\ file[k + 1].part # "rest"
          /\ seen \in Seq(Event)
      BY <1>2, <2>1, <2>2, <2>6 DEF ReadInv
    <3>2. LET ev == EventOf(file[k + 1].line)
          IN  IF parse_event_line(file[k + 1].line)
                THEN ev \in Event /\ seen' = Append(seen, ev) ELSE seen' = seen
      BY <2>5, <2>6
    <3> HIDE DEF n
    <3> QED BY <1>1, <2>6, <3>1, <3>2, OneMorePiece DEF n
  <2>8. CASE part = "whole"
    <3>1. pos' = k + 1
      BY <1>1, <1>5, <2>6, <2>8
    <3>2. file'[pos'].part # "head"
      BY <1>1, <2>6, <2>8, <3>1
    <3>3. SeenUpTo(pos)'
      BY <2>7, <3>1 DEF SeenUpTo
    <3> QED BY <3>2, <3>3
  <2>9. CASE part = "head"
    <3>1. pos' = k + 2 /\ k + 2 \in 1..n /\ (k + 2) - 1 = k + 1 /\ k + 2 > 1
      <4>1. Pieces = 2 /\ pos + 2 \in 1..n /\ pos' = pos + Pieces
        BY <1>1, <2>3, <2>9
      <4> HIDE DEF n
      <4> QED BY <1>2, <2>6, <4>1
    <3>2. file[k + 2].part = "rest"
      <4>1. file[k + 2].part = "rest" <=> k + 2 > 1 /\ file[(k + 2) - 1].part = "head"
        BY <3>1 DEF FileInv
      <4> QED BY <2>6, <2>9, <3>1, <4>1
    <3>3. EventsWritten(k + 2)' = EventsWritten(k + 1)'
      <4>1. 1..(k + 2) = (1..(k + 1)) \cup {k + 2}
        BY <2>6
      <4>2. k + 2 \notin LinesWritten'
        BY <1>1, <3>2 DEF LinesWritten
      <4> QED BY <4>1, <4>2 DEF EventsWritten
    <3>4. SeenUpTo(k + 2)'
      BY <2>7, <3>3 DEF SeenUpTo
    <3>5. file'[pos'].part # "head"
      BY <1>1, <3>1, <3>2
    <3> QED BY <3>1, <3>4, <3>5 DEF SeenUpTo
  <2> QED BY <2>2, <2>8, <2>9
<1> QED BY <1>1, <1>4, <1>6, <1>7, <1>9, <1>10 DEF ReadInv

FileAndRead == FileInv /\ ReadInv

LEMMA InitFileAndRead == TailInit => FileAndRead
<1> SUFFICES ASSUME TailInit PROVE FileAndRead
  OBVIOUS
<1>1. file = <<>> /\ pos = 0 /\ seen = <<>> /\ split = FALSE
  BY DEF TailInit
<1>2. Len(file) = 0 /\ Len(seen) = 0 /\ DOMAIN file = {}
  BY <1>1
<1>3. EventsWritten(0) = {}
  BY <1>2 DEF EventsWritten, LinesWritten
<1>4. SeenUpTo(0)
  BY <1>2, <1>3, FS_EmptySet DEF SeenUpTo
<1>5. FileInv
  BY <1>1, <1>2 DEF FileInv
<1>6. SeenUpTo(pos)
  BY <1>1, <1>4
<1>7. seen \in Seq(Event) /\ pos \in 0..Len(file) /\ ~ (pos > 0) /\ split \in BOOLEAN
  <2>1. <<>> \in Seq(Event) /\ 0 \in 0..0 /\ ~ (0 > 0)
    OBVIOUS
  <2> QED BY <1>1, <1>2, <2>1
<1> QED BY <1>5, <1>6, <1>7 DEF FileAndRead, ReadInv

LEMMA StepFileAndRead ==
    ASSUME FileAndRead, [TailNext]_tailVars PROVE FileAndRead'
<1>0. FileInv /\ ReadInv
  BY DEF FileAndRead
<1>1. ASSUME NEW line \in Lines, AppendLine(line) PROVE FileAndRead'
  <2>1. PICK part \in {"whole", "head"} : file' = Append(file, Piece(line, part))
    BY <1>1 DEF AppendLine
  <2>2. ~ HalfWritten /\ pos' = pos /\ split' = split /\ seen' = seen
    BY <1>1 DEF AppendLine, WriterOnly
  <2>3. part \in {"whole", "head", "rest"} /\ (part = "rest" <=> HalfWritten)
    BY <2>1, <2>2 DEF HalfWritten
  <2> QED BY <1>0, <1>1, <2>1, <2>2, <2>3, WriterKeeps DEF FileAndRead
<1>2. CASE AppendRest
  <2>1. /\ HalfWritten /\ pos' = pos /\ split' = split /\ seen' = seen
        /\ file' = Append(file, Piece(file[Len(file)].line, "rest"))
    BY <1>2 DEF AppendRest, WriterOnly
  <2>2. file[Len(file)].line \in Lines
    <3>1. file[Len(file)] \in PieceSet
      BY <1>0, <2>1 DEF FileInv, HalfWritten
    <3> QED BY <3>1 DEF PieceSet
  <2>3. PICK line \in Lines : line = file[Len(file)].line
    BY <2>2
  <2>4. "rest" \in {"whole", "head", "rest"} /\ ("rest" = "rest" <=> HalfWritten)
    BY <2>1
  <2> QED BY <1>0, <2>1, <2>3, <2>4, WriterKeeps DEF FileAndRead
<1>3. CASE Read
  BY <1>0, <1>3, ReadKeeps DEF FileAndRead
<1>4. CASE EndOfFile \/ AfterEnd \/ UNCHANGED tailVars
  <2>1. file' = file /\ pos' = pos /\ split' = split /\ seen' = seen
    BY <1>4 DEF EndOfFile, AfterEnd, tailVars
  <2>2. FileInv'
    BY <1>0, <2>1 DEF FileInv
  <2>3. PICK n \in 0..Len(file) : n = pos
    BY <1>0 DEF ReadInv
  <2>4. ~ split => SeenUpTo(n)'
    BY <1>0, <2>1, <2>3, SameSeenUpTo DEF ReadInv
  <2>5. ~ split => SeenUpTo(pos)'
    BY <2>1, <2>3, <2>4 DEF SeenUpTo
  <2> QED BY <1>0, <2>1, <2>2, <2>5 DEF FileAndRead, ReadInv
<1> QED BY <1>1, <1>2, <1>3, <1>4 DEF TailNext, TailRead

\* However the two writes of a line and the reads interleave, a reader at the end
\* of complete lines has processed their events in order, unless a read ended
\* inside a line.
THEOREM SeesEveryEventUnlessSplit == TailSpec => []TailSeesEveryEvent
<1>1. FileAndRead => TailSeesEveryEvent
  BY DEF FileAndRead, ReadInv, TailSeesEveryEvent, SeesEveryEvent
<1>2. FileAndRead /\ [TailNext]_tailVars => FileAndRead'
  BY StepFileAndRead
<1> QED BY <1>1, <1>2, InitFileAndRead, PTL DEF TailSpec

-----------------------------------------------------------------------------
(***************************************************************************)
(* The alerts.  CRITICAL is printed from the flags of the node, which      *)
(* follow the events of its pid read so far.                               *)
(***************************************************************************)
NodeFields ==
    { "process", "watched", "touched_sensitive", "connected", "connected_blocked",
      "connected_blocked_ip", "connected_blocked_domain", "first_sensitive_file",
      "first_dst", "events_seen", "destinations", "risk_score", "risk_level" }

IsNode(n) == n = [f \in NodeFields |-> n[f]]

\* The two flags an alert depends on.
Flags(n, touched, blocked) ==
    /\ IsNode(n)
    /\ n.touched_sensitive = touched /\ n.connected_blocked = blocked

LEMMA FoundFlags ==
    ASSUME NEW n, IsNode(n), NEW ev, NEW ps
    PROVE  LET m == graph_get_or_add(ps, n, ev)
           IN  IF ev.pid \in ps THEN Flags(m, n.touched_sensitive, n.connected_blocked)
                                ELSE Flags(m, FALSE, FALSE)
<1>1. CASE ev.pid \in ps
  BY <1>1 DEF graph_get_or_add, Flags, IsNode, NodeFields
<1>2. CASE ev.pid \notin ps
  BY <1>2 DEF graph_get_or_add, Flags, IsNode, NodeFields, ZeroNode
<1> QED BY <1>1, <1>2

LEMMA IngestFlags ==
    ASSUME NEW n, NEW t \in BOOLEAN, NEW b \in BOOLEAN, Flags(n, t, b), NEW ev, policy_loaded
    PROVE  Flags(graph_ingest_event(n, ev), t \/ sensitive_access(ev), b \/ destination_blocked(ev))
<1> DEFINE seen1 == [n EXCEPT !.events_seen = @ + 1]
           f == IngestFile(seen1, ev)
           d == IngestDst(f, ev)
           w == IngestWatched(d, ev)
           k == IngestBlocked(w, ev)
           t1 == t \/ sensitive_access(ev)
           b1 == b \/ destination_blocked(ev)
<1>1. Flags(seen1, t, b)
  BY DEF Flags, IsNode, NodeFields
<1> HIDE DEF seen1
<1>2. Flags(f, t1, b)
  <2>1. CASE sensitive_access(ev)
    BY <1>1, <2>1 DEF IngestFile, TouchSensitive, Flags, IsNode, NodeFields
  <2>2. CASE ~ sensitive_access(ev)
    BY <1>1, <2>2 DEF IngestFile
  <2> QED BY <2>1, <2>2
<1> HIDE DEF f, t1
<1>3. Flags(d, t1, b)
  BY <1>2 DEF IngestDst, Connect, Flags, IsNode, NodeFields
<1> HIDE DEF d
<1>4. Flags(w, t1, b)
  BY <1>3 DEF IngestWatched, Flags, IsNode, NodeFields
<1> HIDE DEF w
<1>5. Flags(k, t1, b1)
  <2>1. CASE destination_blocked(ev)
    <3> DEFINE c == ContactBlocked(w, ev)
    <3>1. Flags(c, t1, TRUE)
      BY <1>4 DEF ContactBlocked, Connect, Flags, IsNode, NodeFields
    <3>2. k = [c EXCEPT !.destinations = @ \cup {matched_dst(ev)}]
      BY <2>1 DEF IngestBlocked
    <3> HIDE DEF c, k
    <3> QED BY <2>1, <3>1, <3>2 DEF Flags, IsNode, NodeFields
  <2>2. CASE ~ destination_blocked(ev)
    BY <1>4, <2>2 DEF IngestBlocked
  <2> QED BY <2>1, <2>2
<1> QED BY <1>5 DEF graph_ingest_event, k, w, d, f, seen1, t1

LEMMA RiskFlags ==
    ASSUME NEW n, NEW t, NEW b, Flags(n, t, b)
    PROVE  Flags(compute_risk_for_node(n), t, b)
BY DEF compute_risk_for_node, Flags, IsNode, NodeFields

Levels == {"LOW", "MEDIUM", "HIGH", "CRITICAL"}

Touched(p) == \E j \in DOMAIN seen : seen[j].pid = p /\ sensitive_access(seen[j])
Blocked(p) == \E j \in DOMAIN seen : seen[j].pid = p /\ destination_blocked(seen[j])

GraphInv ==
    /\ policy_loaded = TRUE /\ malformed_lines = 0
    /\ events_processed = Len(seen)
    /\ pids \subseteq Pids /\ DOMAIN node = Pids
    /\ node = [p \in Pids |-> node[p]]
    /\ \A p \in Pids : /\ Flags(node[p], Touched(p), Blocked(p))
                       /\ p \notin pids => \A j \in DOMAIN seen : seen[j].pid # p

PrintedInv == printed \subseteq Levels \X (1..Len(seen)) /\ AlertsTellTheHistory

LEMMA DecisionsAreBoolean ==
    ASSUME NEW ev
    PROVE  sensitive_access(ev) \in BOOLEAN /\ destination_blocked(ev) \in BOOLEAN
BY DEF sensitive_access, destination_blocked

\* The node an event leaves.
LEMMA IngestedFlags ==
    ASSUME GraphInv, NEW ev \in Event
    PROVE  Flags(Ingested(ev), Touched(ev.pid) \/ sensitive_access(ev),
                               Blocked(ev.pid) \/ destination_blocked(ev))
<1> DEFINE p == ev.pid
           found == graph_get_or_add(pids, node[p], ev)
<1>1. p \in Pids /\ policy_loaded
  BY DEF Event, GraphInv
<1>2. Flags(node[p], Touched(p), Blocked(p)) /\ Touched(p) \in BOOLEAN /\ Blocked(p) \in BOOLEAN
  BY <1>1 DEF GraphInv, Touched, Blocked
<1>3. p \notin pids => Touched(p) = FALSE /\ Blocked(p) = FALSE
  BY <1>1 DEF GraphInv, Touched, Blocked
<1>4. Flags(found, Touched(p), Blocked(p))
  <2> HIDE DEF p
  <2>1. IsNode(node[p])
    BY <1>2 DEF Flags
  <2>2. CASE p \in pids
    <3>1. Flags(found, node[p].touched_sensitive, node[p].connected_blocked)
      BY <2>1, <2>2, FoundFlags DEF p
    <3> QED BY <1>2, <3>1 DEF Flags
  <2>3. CASE p \notin pids
    <3>1. Flags(found, FALSE, FALSE)
      BY <2>1, <2>3, FoundFlags DEF p
    <3> QED BY <1>3, <2>3, <3>1
  <2> QED BY <2>2, <2>3
<1> HIDE DEF found
<1>5. Flags(graph_ingest_event(found, ev), Touched(p) \/ sensitive_access(ev),
                                           Blocked(p) \/ destination_blocked(ev))
  BY <1>1, <1>2, <1>4, IngestFlags
<1> QED BY <1>5 DEF Ingested, found

LEMMA TailEventKeeps ==
    ASSUME GraphInv, PrintedInv, seen \in Seq(Event), NEW ev \in Event, TailEvent(ev),
           policy_loaded' = policy_loaded, malformed_lines' = malformed_lines
    PROVE  GraphInv' /\ PrintedInv'
<1> DEFINE n == Ingested(ev)
           t == sensitive_access(ev)
           b == destination_blocked(ev)
<1>0. PICK last : last = Len(seen) + 1
  OBVIOUS
<1>1. /\ pids' = pids \cup {ev.pid} /\ events_processed' = events_processed + 1
      /\ node' = [node EXCEPT ![ev.pid] = IF Correlated(n, ev) THEN compute_risk_for_node(n) ELSE n]
      /\ printed' = printed \cup (Alerts(n, ev) \X {events_processed'})
      /\ seen' = Append(seen, ev)
  BY DEF TailEvent
<1>2. /\ Len(seen) \in Nat /\ Len(seen') = last /\ DOMAIN seen = 1..Len(seen)
      /\ DOMAIN seen' = DOMAIN seen \cup {last} /\ last \notin DOMAIN seen
      /\ seen'[last] = ev /\ \A j \in DOMAIN seen : seen'[j] = seen[j]
  BY <1>0, <1>1
<1>3. ev.pid \in Pids
  BY DEF Event
<1>4. /\ \A p : Touched(p)' = (Touched(p) \/ (p = ev.pid /\ t))
      /\ \A p : Blocked(p)' = (Blocked(p) \/ (p = ev.pid /\ b))
  BY <1>2 DEF Touched, Blocked
<1>5. Flags(n, Touched(ev.pid)', Blocked(ev.pid)')
  BY <1>4, IngestedFlags
<1> HIDE DEF n
<1>6. PICK m : m = IF Correlated(n, ev) THEN compute_risk_for_node(n) ELSE n
  OBVIOUS
<1>7. Flags(m, Touched(ev.pid)', Blocked(ev.pid)')
  BY <1>5, <1>6, RiskFlags
<1>8. events_processed' = last
  BY <1>0, <1>1 DEF GraphInv
<1>9. GraphInv'
  <2>1. /\ DOMAIN node' = Pids /\ node'[ev.pid] = m
        /\ \A p \in Pids : p # ev.pid => node'[p] = node[p]
        /\ node' = [p \in Pids |-> node'[p]]
    BY <1>1, <1>3, <1>6 DEF GraphInv
  <2>2. ASSUME NEW p \in Pids
        PROVE  /\ Flags(node[p], Touched(p), Blocked(p))'
               /\ p \notin pids' => \A j \in DOMAIN seen' : seen'[j].pid # p
    <3>1. CASE p = ev.pid
      <4>1. Flags(node'[p], Touched(p)', Blocked(p)')
        BY <1>7, <2>1, <3>1
      <4> QED BY <1>1, <3>1, <4>1 DEF Flags, IsNode
    <3>2. CASE p # ev.pid
      <4>1. Touched(p)' = Touched(p) /\ Blocked(p)' = Blocked(p) /\ node'[p] = node[p]
        BY <1>4, <2>1, <3>2 DEF Touched, Blocked
      <4>2. Flags(node[p], Touched(p), Blocked(p))
        BY DEF GraphInv
      <4>3. p \notin pids' => \A j \in DOMAIN seen' : seen'[j].pid # p
        BY <1>1, <1>2, <3>2 DEF GraphInv
      <4> QED BY <4>1, <4>2, <4>3 DEF Flags, IsNode
    <3> QED BY <3>1, <3>2
  <2>3. pids' \subseteq Pids
    BY <1>1, <1>3 DEF GraphInv
  <2>4. policy_loaded' = TRUE /\ malformed_lines' = 0
    BY DEF GraphInv
  <2> QED BY <1>2, <1>8, <2>1, <2>2, <2>3, <2>4 DEF GraphInv
<1>10. \A level, i : <<level, i>> \in printed' <=>
          <<level, i>> \in printed \/ (level \in Alerts(n, ev) /\ i = last)
  BY <1>1, <1>8
<1>11. Alerts(n, ev) \subseteq Levels
  BY DEF Alerts, Levels
<1>12. printed' \subseteq Levels \X (1..Len(seen'))
  <2>1. 1..Len(seen) \subseteq 1..last /\ last \in 1..last
    BY <1>0, <1>2
  <2>2. printed \subseteq Levels \X (1..last)
    BY <2>1 DEF PrintedInv
  <2>3. Alerts(n, ev) \X {last} \subseteq Levels \X (1..last)
    BY <1>11, <2>1
  <2> QED BY <1>1, <1>2, <1>8, <2>2, <2>3
<1>13. \A level : <<level, last>> \notin printed
  BY <1>2 DEF PrintedInv
<1>14. /\ "MEDIUM" \in Alerts(n, ev) <=> t
       /\ "HIGH" \in Alerts(n, ev) <=> b
       /\ "CRITICAL" \in Alerts(n, ev) <=> n.touched_sensitive /\ n.connected_blocked
  BY DEF Alerts, Correlated
<1>15. ASSUME NEW i \in DOMAIN seen'
       PROVE  /\ <<"MEDIUM", i>> \in printed' <=> sensitive_access(seen'[i])
              /\ <<"HIGH", i>> \in printed' <=> destination_blocked(seen'[i])
              /\ <<"CRITICAL", i>> \in printed' <=>
                    /\ \E j \in Before(i)' : sensitive_access(seen'[j])
                    /\ \E j \in Before(i)' : destination_blocked(seen'[j])
  <2>1. CASE i = last
    <3>1. 1..last = DOMAIN seen'
      BY <1>0, <1>2
    <3>2. Before(i)' = { j \in DOMAIN seen' : seen'[j].pid = ev.pid }
      BY <1>2, <2>1, <3>1 DEF Before
    <3>3. /\ (\E j \in Before(i)' : sensitive_access(seen'[j])) <=> Touched(ev.pid)'
          /\ (\E j \in Before(i)' : destination_blocked(seen'[j])) <=> Blocked(ev.pid)'
      BY <3>2 DEF Touched, Blocked
    <3>4. n.touched_sensitive = Touched(ev.pid)' /\ n.connected_blocked = Blocked(ev.pid)'
      BY <1>5 DEF Flags
    <3>5. \A level : <<level, i>> \in printed' <=> level \in Alerts(n, ev)
      BY <1>10, <1>13, <2>1
    <3>6. seen'[i] = ev
      BY <1>2, <2>1
    <3> QED BY <1>14, <3>3, <3>4, <3>5, <3>6
  <2>2. CASE i # last
    <3>1. i \in DOMAIN seen /\ i \in 1..Len(seen)
      BY <1>2, <2>2
    <3>2. 1..i \subseteq DOMAIN seen
      BY <1>2, <3>1
    <3>3. Before(i)' = Before(i) /\ Before(i) \subseteq DOMAIN seen
      BY <1>2, <3>1, <3>2 DEF Before
    <3>4. \A level : <<level, i>> \in printed' <=> <<level, i>> \in printed
      BY <1>10, <2>2
    <3>5. \A j \in Before(i) : seen'[j] = seen[j]
      BY <1>2, <3>3
    <3>6. seen'[i] = seen[i]
      BY <1>2, <3>1
    <3> QED BY <3>1, <3>3, <3>4, <3>5, <3>6 DEF PrintedInv, AlertsTellTheHistory
  <2> QED BY <2>1, <2>2
<1>16. AlertsTellTheHistory'
  BY <1>15 DEF AlertsTellTheHistory
<1> QED BY <1>9, <1>12, <1>16 DEF PrintedInv

LEMMA GraphStays ==
    ASSUME GraphInv, PrintedInv,
           UNCHANGED <<policy_loaded, pids, node, events_processed, malformed_lines,
                       seen, printed>>
    PROVE  GraphInv' /\ PrintedInv'
<1>1. \A p \in Pids : Flags(node[p], Touched(p), Blocked(p))' = Flags(node[p], Touched(p), Blocked(p))
  BY DEF Flags, IsNode, Touched, Blocked
<1>2. GraphInv'
  BY <1>1 DEF GraphInv
<1>3. AlertsTellTheHistory' = AlertsTellTheHistory
  BY DEF AlertsTellTheHistory, Before
<1> QED BY <1>2, <1>3 DEF PrintedInv

LEMMA ReadKeepsGraph ==
    ASSUME FileAndRead, GraphInv, PrintedInv, Read PROVE GraphInv' /\ PrintedInv'
<1>1. FileInv /\ pos \in 0..Len(file) /\ pos < Len(file) /\ seen \in Seq(Event)
  BY DEF FileAndRead, ReadInv, Read
<1>2. PICK ev \in Event : ev = EventOf(GetLine)
  BY <1>1, GetLineInLines, EventType
<1>3. policy_loaded' = policy_loaded /\ malformed_lines' = malformed_lines
  BY DEF Read
<1>4. CASE parse_event_line(GetLine)
  <2>1. TailEvent(ev)
    BY <1>2, <1>4 DEF Read
  <2> QED BY <1>1, <1>3, <2>1, TailEventKeeps
<1>5. CASE ~ parse_event_line(GetLine)
  <2>1. UNCHANGED <<pids, node, events_processed, seen, printed>>
    BY <1>5 DEF Read
  <2> QED BY <1>3, <2>1, GraphStays
<1> QED BY <1>4, <1>5

LEMMA InitGraph == TailInit => GraphInv /\ PrintedInv
<1> SUFFICES ASSUME TailInit PROVE GraphInv /\ PrintedInv
  OBVIOUS
<1>1. /\ policy_loaded = TRUE /\ pids = {} /\ node = [p \in Pids |-> ZeroNode]
      /\ events_processed = 0 /\ malformed_lines = 0 /\ seen = <<>> /\ printed = {}
  BY DEF TailInit, GraphInit
<1>2. Len(seen) = 0 /\ DOMAIN seen = {}
  BY <1>1
<1>3. Flags(ZeroNode, FALSE, FALSE)
  BY DEF Flags, IsNode, NodeFields, ZeroNode
<1>4. \A p : Touched(p) = FALSE /\ Blocked(p) = FALSE
  BY <1>2 DEF Touched, Blocked
<1>5. \A p \in Pids : Flags(node[p], Touched(p), Blocked(p))
  BY <1>1, <1>3, <1>4
<1>6. GraphInv
  BY <1>1, <1>2, <1>5 DEF GraphInv
<1> QED BY <1>1, <1>2, <1>6 DEF PrintedInv, AlertsTellTheHistory

FileAndGraph == FileAndRead /\ GraphInv /\ PrintedInv

LEMMA StepFileAndGraph ==
    ASSUME FileAndGraph, [TailNext]_tailVars PROVE FileAndGraph'
<1>1. FileAndRead /\ GraphInv /\ PrintedInv
  BY DEF FileAndGraph
<1>2. FileAndRead'
  BY <1>1, StepFileAndRead
<1>3. CASE Read
  BY <1>1, <1>2, <1>3, ReadKeepsGraph DEF FileAndGraph
<1>4. CASE \/ \E line \in Lines : AppendLine(line)
           \/ AppendRest \/ EndOfFile \/ AfterEnd \/ UNCHANGED tailVars
  <2>1. UNCHANGED <<policy_loaded, pids, node, events_processed, malformed_lines, seen, printed>>
    BY <1>4 DEF AppendLine, AppendRest, WriterOnly, EndOfFile, AfterEnd, tailVars, graphVars
  <2> QED BY <1>1, <1>2, <2>1, GraphStays DEF FileAndGraph
<1> QED BY <1>3, <1>4 DEF TailNext, TailRead

\* Each event that is read prints the alerts its own fields call for, and CRITICAL
\* from the event on with which its pid has both touched a sensitive file and
\* contacted a blocked destination, in either order and in whatever events.
THEOREM TailAlerts == TailSpec => []AlertsTellTheHistory
<1>1. TailInit => FileAndGraph
  BY InitFileAndRead, InitGraph DEF FileAndGraph
<1>2. FileAndGraph /\ [TailNext]_tailVars => FileAndGraph'
  BY StepFileAndGraph
<1>3. FileAndGraph => AlertsTellTheHistory
  BY DEF FileAndGraph, PrintedInv
<1> QED BY <1>1, <1>2, <1>3, PTL DEF TailSpec

-----------------------------------------------------------------------------
(***************************************************************************)
(* The graph.  A score that is computed early is never read: the updates   *)
(* of a node are the same with and without it.                             *)
(***************************************************************************)
U(n) == [n EXCEPT !.risk_score = 0, !.risk_level = "none"]

LEMMA UnscoredFile ==
    ASSUME NEW n, IsNode(n), NEW ev
    PROVE  IsNode(IngestFile(n, ev)) /\ U(IngestFile(n, ev)) = IngestFile(U(n), ev)
BY DEF IngestFile, TouchSensitive, IsNode, NodeFields, U

LEMMA UnscoredConnect ==
    ASSUME NEW n, IsNode(n), NEW dst
    PROVE  IsNode(Connect(n, dst)) /\ U(Connect(n, dst)) = Connect(U(n), dst)
BY DEF Connect, IsNode, NodeFields, U

Contacted(n, dst) == [n EXCEPT !.destinations = @ \cup {dst}]

LEMMA UnscoredContacted ==
    ASSUME NEW n, IsNode(n), NEW dst
    PROVE  IsNode(Contacted(n, dst)) /\ U(Contacted(n, dst)) = Contacted(U(n), dst)
BY DEF Contacted, IsNode, NodeFields, U

LEMMA UnscoredDst ==
    ASSUME NEW n, IsNode(n), NEW ev
    PROVE  IsNode(IngestDst(n, ev)) /\ U(IngestDst(n, ev)) = IngestDst(U(n), ev)
<1>1. \A m : IngestDst(m, ev) =
               IF ev.dst # "" THEN Contacted(Connect(m, ev.dst), ev.dst) ELSE m
  BY DEF IngestDst, Contacted
<1>2. CASE ev.dst # ""
  <2>1. IsNode(Connect(n, ev.dst)) /\ U(Connect(n, ev.dst)) = Connect(U(n), ev.dst)
    BY UnscoredConnect
  <2>2. /\ IsNode(Contacted(Connect(n, ev.dst), ev.dst))
        /\ U(Contacted(Connect(n, ev.dst), ev.dst)) = Contacted(U(Connect(n, ev.dst)), ev.dst)
    BY <2>1, UnscoredContacted
  <2> QED BY <1>1, <1>2, <2>1, <2>2
<1>3. CASE ev.dst = ""
  BY <1>1, <1>3
<1> QED BY <1>2, <1>3

LEMMA UnscoredWatched ==
    ASSUME NEW n, IsNode(n), NEW ev
    PROVE  IsNode(IngestWatched(n, ev)) /\ U(IngestWatched(n, ev)) = IngestWatched(U(n), ev)
BY DEF IngestWatched, IsNode, NodeFields, U

LEMMA UnscoredBlocked ==
    ASSUME NEW n, IsNode(n), NEW ev
    PROVE  IsNode(IngestBlocked(n, ev)) /\ U(IngestBlocked(n, ev)) = IngestBlocked(U(n), ev)
<1> DEFINE dst == matched_dst(ev)
           type == match_type(ev)
           Marked(m) == [m EXCEPT
                !.connected_blocked = TRUE,
                !.connected_blocked_ip     = @ \/ type = "DEST_BLOCKED_IP",
                !.connected_blocked_domain = @ \/ type = "DEST_BLOCKED_DOMAIN"]
<1>1. \A m : IngestBlocked(m, ev) =
               IF policy_loaded /\ destination_blocked(ev)
                 THEN Contacted(Marked(Connect(m, dst)), dst) ELSE m
  BY DEF IngestBlocked, ContactBlocked, Contacted
<1>2. ASSUME NEW m, IsNode(m) PROVE IsNode(Marked(m)) /\ U(Marked(m)) = Marked(U(m))
  <2> HIDE DEF type
  <2> QED BY <1>2 DEF IsNode, NodeFields, U
<1> HIDE DEF Marked
<1>3. CASE policy_loaded /\ destination_blocked(ev)
  <2>1. IsNode(Connect(n, dst)) /\ U(Connect(n, dst)) = Connect(U(n), dst)
    BY UnscoredConnect
  <2>2. /\ IsNode(Marked(Connect(n, dst)))
        /\ U(Marked(Connect(n, dst))) = Marked(Connect(U(n), dst))
    BY <1>2, <2>1
  <2> QED BY <1>1, <1>3, <2>2, UnscoredContacted
<1>4. CASE ~ (policy_loaded /\ destination_blocked(ev))
  BY <1>1, <1>4
<1> QED BY <1>3, <1>4

LEMMA UnscoredIngest ==
    ASSUME NEW n, IsNode(n), NEW ev
    PROVE  /\ IsNode(graph_ingest_event(n, ev))
           /\ U(graph_ingest_event(n, ev)) = graph_ingest_event(U(n), ev)
<1> DEFINE Counted(m) == [m EXCEPT !.events_seen = @ + 1]
<1>1. IsNode(Counted(n)) /\ U(Counted(n)) = Counted(U(n))
  BY DEF IsNode, NodeFields, U
<1>2. \A m : graph_ingest_event(m, ev) =
               IngestBlocked(IngestWatched(IngestDst(IngestFile(Counted(m), ev), ev), ev), ev)
  BY DEF graph_ingest_event
<1> HIDE DEF Counted
<1> QED BY <1>1, <1>2, UnscoredFile, UnscoredDst, UnscoredWatched, UnscoredBlocked

LEMMA UnscoredRisk ==
    ASSUME NEW n, IsNode(n)
    PROVE  U(compute_risk_for_node(n)) = U(n)
BY DEF compute_risk_for_node, IsNode, NodeFields, U

\* A node before its event, in the mapped graph.
Old(n, known) == [n EXCEPT !.risk_score = 0, !.risk_level = IF known THEN "none" ELSE ""]

LEMMA UnscoredFound ==
    ASSUME NEW n, IsNode(n), NEW ps, NEW ev
    PROVE  graph_get_or_add(ps, Old(n, ev.pid \in ps), ev) = U(graph_get_or_add(ps, n, ev))
<1>1. CASE ev.pid \in ps
  BY <1>1 DEF graph_get_or_add, IsNode, NodeFields, U, Old
<1>2. CASE ev.pid \notin ps
  <2> DEFINE new == [ZeroNode EXCEPT !.process = safe_str(ev.process), !.risk_level = "none"]
  <2>1. IsNode(new) /\ new.risk_score = 0 /\ new.risk_level = "none"
    BY DEF ZeroNode, IsNode, NodeFields
  <2>2. graph_get_or_add(ps, Old(n, ev.pid \in ps), ev) = new /\ graph_get_or_add(ps, n, ev) = new
    BY <1>2 DEF graph_get_or_add
  <2> HIDE DEF new
  <2>3. U(new) = new
    BY <2>1 DEF U, IsNode, NodeFields
  <2> QED BY <2>2, <2>3
<1> QED BY <1>1, <1>2

(* The operators of the instance are the plain ones. *)

LEMMA SamePolicy ==
    /\ \A f : Graph!policy_is_sensitive_file(f) <=> policy_is_sensitive_file(f)
    /\ \A d : Graph!policy_is_blocked_domain(d) <=> policy_is_blocked_domain(d)
    /\ \A ip : Graph!policy_is_blocked_ip(ip) <=> policy_is_blocked_ip(ip)
    /\ \A p : Graph!policy_is_watched_process(p) <=> policy_is_watched_process(p)
<1>1. Graph!TokensRead = TokensRead
  BY DEF Graph!TokensRead, TokensRead
<1>2. Graph!patterns = patterns
  BY <1>1 DEF Graph!patterns, patterns, Graph!contains_glob, contains_glob
<1>3. Graph!exact = exact
  BY <1>1, <1>2 DEF Graph!exact, exact
<1>4. Graph!bloom = bloom
  BY <1>3 DEF Graph!bloom, bloom, Graph!bloom_add_all, bloom_add_all
<1>5. \A array, v :
        /\ Graph!policy_match_exact_with_bloom(array, v) <=> policy_match_exact_with_bloom(array, v)
        /\ Graph!list_matches_pattern(array, v) <=> list_matches_pattern(array, v)
  BY <1>2, <1>3, <1>4
     DEF Graph!policy_match_exact_with_bloom, policy_match_exact_with_bloom,
         Graph!list_matches_pattern, list_matches_pattern,
         Graph!bloom_might_contain, bloom_might_contain
<1>6. QED
  BY <1>5 DEF Graph!policy_is_sensitive_file, policy_is_sensitive_file,
              Graph!policy_is_blocked_domain, policy_is_blocked_domain,
              Graph!policy_is_blocked_ip, policy_is_blocked_ip,
              Graph!policy_is_watched_process, policy_is_watched_process

LEMMA SameDecisions ==
    ASSUME NEW ev
    PROVE  /\ Graph!sensitive_access(ev) <=> sensitive_access(ev)
           /\ Graph!destination_blocked(ev) <=> destination_blocked(ev)
           /\ Graph!matched_dst(ev) = matched_dst(ev)
           /\ Graph!match_type(ev) = match_type(ev)
<1>1. Graph!Candidates(ev) = Candidates(ev)
  BY DEF Graph!Candidates, Candidates
<1>2. Graph!BlockedCandidates(ev) = BlockedCandidates(ev)
  BY <1>1, SamePolicy DEF Graph!BlockedCandidates, BlockedCandidates
<1>3. Graph!matched_dst(ev) = matched_dst(ev)
  BY <1>1, <1>2 DEF Graph!matched_dst, matched_dst
<1>4. Graph!match_type(ev) = match_type(ev)
  BY <1>3, SamePolicy DEF Graph!match_type, match_type, Graph!looks_like_ip, looks_like_ip,
                          Graph!looks_like_domain, looks_like_domain
<1>5. QED
  BY <1>2, <1>3, <1>4, SamePolicy
     DEF Graph!sensitive_access, sensitive_access, Graph!destination_blocked, destination_blocked

LEMMA SameUpdates ==
    ASSUME NEW n, NEW ev
    PROVE  /\ \A dst : Graph!Connect(n, dst) = Connect(n, dst)
           /\ Graph!TouchSensitive(n, ev) = TouchSensitive(n, ev)
           /\ Graph!ContactBlocked(n, ev) = ContactBlocked(n, ev)
<1>1. \A dst : Graph!Connect(n, dst) = Connect(n, dst)
  BY DEF Graph!Connect, Connect
<1>2. Graph!TouchSensitive(n, ev) = TouchSensitive(n, ev)
  BY DEF Graph!TouchSensitive, TouchSensitive
<1>3. Graph!ContactBlocked(n, ev) = ContactBlocked(n, ev)
  <2> DEFINE Marked(c, type) ==
               [c EXCEPT
                  !.connected_blocked = TRUE,
                  !.connected_blocked_ip     = @ \/ type = "DEST_BLOCKED_IP",
                  !.connected_blocked_domain = @ \/ type = "DEST_BLOCKED_DOMAIN"]
  <2>1. Graph!ContactBlocked(n, ev) =
          Marked(Graph!Connect(n, Graph!matched_dst(ev)), Graph!match_type(ev))
    BY DEF Graph!ContactBlocked
  <2>2. ContactBlocked(n, ev) = Marked(Connect(n, matched_dst(ev)), match_type(ev))
    BY DEF ContactBlocked
  <2> HIDE DEF Marked
  <2>3. QED
    BY <1>1, <2>1, <2>2, SameDecisions
<1>4. QED
  BY <1>1, <1>2, <1>3

LEMMA SameIngest ==
    ASSUME NEW n, NEW ev
    PROVE  Graph!graph_ingest_event(n, ev) = graph_ingest_event(n, ev)
<1>1. \A k : Graph!IngestFile(k, ev) = IngestFile(k, ev)
  BY SameDecisions, SameUpdates DEF Graph!IngestFile, IngestFile
<1>2. \A k : Graph!IngestDst(k, ev) = IngestDst(k, ev)
  BY SameUpdates DEF Graph!IngestDst, IngestDst
<1>3. \A k : Graph!IngestWatched(k, ev) = IngestWatched(k, ev)
  BY SamePolicy DEF Graph!IngestWatched, IngestWatched
<1>4. \A k : Graph!IngestBlocked(k, ev) = IngestBlocked(k, ev)
  BY SameDecisions, SameUpdates DEF Graph!IngestBlocked, IngestBlocked
<1>5. QED
  BY <1>1, <1>2, <1>3, <1>4 DEF Graph!graph_ingest_event, graph_ingest_event

LEMMA SameFound ==
    ASSUME NEW ps, NEW n, NEW ev
    PROVE  Graph!graph_get_or_add(ps, n, ev) = graph_get_or_add(ps, n, ev)
<1>1. Graph!ZeroNode = ZeroNode
  BY DEF Graph!ZeroNode, ZeroNode
<1>2. Graph!safe_str(ev.process) = safe_str(ev.process)
  BY DEF Graph!safe_str, safe_str
<1>3. QED
  BY <1>1, <1>2 DEF Graph!graph_get_or_add, graph_get_or_add

\* The node an event leaves in the mapped graph.
LEMMA UnscoredEvent ==
    ASSUME GraphInv, seen \in Seq(Event), NEW ev \in Event, TailEvent(ev)
    PROVE  Unscored' = [Unscored EXCEPT ![ev.pid] =
                          Graph!graph_ingest_event(Graph!graph_get_or_add(pids, @, ev), ev)]
<1> DEFINE p == ev.pid
           n == Ingested(ev)
           m == IF Correlated(n, ev) THEN compute_risk_for_node(n) ELSE n
           found == graph_get_or_add(pids, node[p], ev)
<1>1. p \in Pids /\ DOMAIN node = Pids /\ IsNode(node[p])
  BY DEF Event, GraphInv, Flags
<1>2. pids' = pids \cup {p} /\ node' = [node EXCEPT ![p] = m]
  BY DEF TailEvent
<1>3. node'[p] = m /\ \A q \in Pids : q # p => node'[q] = node[q]
  BY <1>1, <1>2
<1>4. IsNode(found) /\ IsNode(n) /\ n = graph_ingest_event(found, ev)
  <2>1. IsNode(found)
    BY <1>1, FoundFlags DEF Flags
  <2> QED BY <2>1, UnscoredIngest DEF Ingested
<1>5. Unscored[p] = Old(node[p], p \in pids)
  BY <1>1 DEF Unscored, Old
<1>6. graph_get_or_add(pids, Unscored[p], ev) = U(found)
  BY <1>1, <1>5, UnscoredFound
<1>7. graph_ingest_event(graph_get_or_add(pids, Unscored[p], ev), ev) = U(n)
  BY <1>4, <1>6, UnscoredIngest
<1> HIDE DEF found, n
<1>8. U(m) = U(n)
  BY <1>4, UnscoredRisk
<1> HIDE DEF m, p
<1>9. Unscored'[p] = U(m)
  BY <1>1, <1>2, <1>3 DEF Unscored, U
<1>10. ASSUME NEW q \in Pids, q # p PROVE Unscored'[q] = Unscored[q]
  <2>1. node'[q] = node[q] /\ (q \in pids' <=> q \in pids)
    BY <1>2, <1>3, <1>10
  <2>2. Unscored'[q] = Old(node'[q], q \in pids') /\ Unscored[q] = Old(node[q], q \in pids)
    BY DEF Unscored, Old
  <2>3. Old(node'[q], q \in pids') = Old(node[q], q \in pids)
    BY <2>1 DEF Old
  <2> QED BY <2>2, <2>3
<1>11. Graph!graph_ingest_event(Graph!graph_get_or_add(pids, Unscored[p], ev), ev) = U(m)
  BY <1>7, <1>8, SameIngest, SameFound DEF p
<1>12. Unscored' = [Unscored EXCEPT ![p] = U(m)]
  <2>1. /\ Unscored = [q \in Pids |-> Unscored[q]] /\ Unscored' = [q \in Pids |-> Unscored'[q]]
    BY DEF Unscored
  <2> QED BY <1>1, <1>9, <1>10, <2>1
<1> QED BY <1>11, <1>12 DEF p

(***************************************************************************)
(* The bound: a read takes a piece at least, and a line is two pieces at   *)
(* most, so the events stay below twice the lines that can be written.     *)
(***************************************************************************)
CountsInv ==
    /\ events_processed \in Nat /\ events_processed <= pos
    /\ Cardinality(LinesWritten) <= MaxLines
    /\ Len(file) + (IF HalfWritten THEN 1 ELSE 0) <= 2 * Cardinality(LinesWritten)

LEMMA LinesWrittenFinite ==
    ASSUME FileInv
    PROVE  /\ IsFiniteSet(LinesWritten) /\ Cardinality(LinesWritten) \in Nat
           /\ Len(file) + 1 \notin LinesWritten
<1>1. LinesWritten \subseteq 1..Len(file) /\ Len(file) \in Nat
  BY DEF FileInv, LinesWritten
<1>2. IsFiniteSet(LinesWritten)
  <2>1. IsFiniteSet(1..Len(file))
    BY <1>1, FS_Interval
  <2> QED BY <1>1, <2>1, FS_Subset
<1> QED BY <1>1, <1>2, FS_CardinalityType

LEMMA LineAppended ==
    ASSUME FileInv, NEW line, NEW part, file' = Append(file, Piece(line, part))
    PROVE  /\ Len(file') = Len(file) + 1
           /\ HalfWritten' <=> part = "head"
           /\ LinesWritten' = IF part = "rest" THEN LinesWritten ELSE LinesWritten \cup {Len(file) + 1}
<1> DEFINE last == Len(file) + 1
           piece == Piece(line, part)
<1>1. file \in Seq(PieceSet) /\ Len(file) \in Nat /\ piece.part = part
  BY DEF FileInv, Piece
<1> HIDE DEF piece
<1>2. /\ Len(file') = last /\ DOMAIN file' = DOMAIN file \cup {last} /\ last \notin DOMAIN file
      /\ file'[last] = piece /\ \A i \in DOMAIN file : file'[i] = file[i]
  BY <1>1 DEF piece
<1>3. HalfWritten' <=> part = "head"
  <2>1. file' # <<>>
    BY <1>1, <1>2
  <2> QED BY <1>1, <1>2, <2>1 DEF HalfWritten
<1>4. LinesWritten' = { i \in DOMAIN file' : file'[i].part # "rest" }
  BY DEF LinesWritten
<1> QED BY <1>1, <1>2, <1>3, <1>4 DEF LinesWritten

LEMMA AppendKeepsCounts ==
    ASSUME FileInv, CountsInv, pos \in Nat, NEW line, NEW part,
           file' = Append(file, Piece(line, part)), WriterOnly,
           part = "rest" => HalfWritten,
           part # "rest" => ~ HalfWritten /\ Cardinality(LinesWritten) < MaxLines
    PROVE  CountsInv'
<1> DEFINE c == Cardinality(LinesWritten)
<1>1. /\ IsFiniteSet(LinesWritten) /\ c \in Nat /\ Len(file) + 1 \notin LinesWritten
      /\ Len(file) \in Nat /\ MaxLines \in Nat
  BY LinesWrittenFinite, MaxLinesAssumption DEF FileInv
<1>2. /\ Len(file') = Len(file) + 1 /\ (HalfWritten' <=> part = "head")
      /\ LinesWritten' = IF part = "rest" THEN LinesWritten ELSE LinesWritten \cup {Len(file) + 1}
  BY LineAppended
<1>3. events_processed' = events_processed /\ pos' = pos
  BY DEF WriterOnly, graphVars
<1>4. CASE part = "rest"
  <2>1. Cardinality(LinesWritten)' = c /\ HalfWritten /\ ~ HalfWritten'
    BY <1>2, <1>4
  <2> HIDE DEF c
  <2>2. c <= MaxLines /\ Len(file) + 1 <= 2 * c
    BY <2>1 DEF CountsInv, c
  <2> QED BY <1>1, <1>2, <1>3, <2>1, <2>2 DEF CountsInv
<1>5. CASE part # "rest"
  <2>1. Cardinality(LinesWritten') = c + 1
    BY <1>1, <1>2, <1>5, FS_AddElement
  <2>2. ~ HalfWritten /\ c < MaxLines /\ Len(file) <= 2 * c
    BY <1>1, <1>5 DEF CountsInv
  <2> HIDE DEF c
  <2>3. c + 1 <= MaxLines /\ Len(file) + 2 <= 2 * (c + 1)
    BY <1>1, <2>2
  <2>4. Len(file') + (IF HalfWritten' THEN 1 ELSE 0) <= 2 * (c + 1)
    BY <1>1, <1>2, <2>3
  <2> QED BY <1>3, <2>1, <2>3, <2>4 DEF CountsInv
<1> QED BY <1>4, <1>5

LEMMA StepCounts ==
    ASSUME FileAndGraph, CountsInv, [TailNext]_tailVars PROVE CountsInv'
<1>1. FileInv /\ pos \in Nat /\ pos <= Len(file) /\ Len(file) \in Nat
  BY DEF FileAndGraph, FileAndRead, FileInv, ReadInv
<1>2. ASSUME NEW line \in Lines, AppendLine(line) PROVE CountsInv'
  <2>1. PICK part \in {"whole", "head"} : file' = Append(file, Piece(line, part))
    BY <1>2 DEF AppendLine
  <2>2. WriterOnly /\ ~ HalfWritten /\ Cardinality(LinesWritten) < MaxLines /\ part # "rest"
    BY <1>2, <2>1 DEF AppendLine
  <2> QED BY <1>1, <2>1, <2>2, AppendKeepsCounts
<1>3. CASE AppendRest
  <2>1. PICK line : line = file[Len(file)].line
    OBVIOUS
  <2>2. HalfWritten /\ WriterOnly /\ file' = Append(file, Piece(line, "rest"))
    BY <1>3, <2>1 DEF AppendRest
  <2> QED BY <1>1, <2>2, AppendKeepsCounts
<1>4. CASE Read
  <2>1. file' = file /\ pos' = pos + Pieces /\ Pieces \in {1, 2}
    BY <1>4 DEF Read, Pieces
  <2>2. events_processed' \in {events_processed, events_processed + 1}
    BY <1>4 DEF Read, TailEvent
  <2>3. LinesWritten' = LinesWritten /\ HalfWritten' = HalfWritten
    BY <2>1 DEF LinesWritten, HalfWritten
  <2>4. events_processed' \in Nat /\ events_processed' <= pos'
    <3>1. events_processed \in Nat /\ events_processed <= pos
      BY DEF CountsInv
    <3> HIDE DEF Pieces
    <3> QED BY <1>1, <2>1, <2>2, <3>1
  <2> QED BY <2>1, <2>3, <2>4 DEF CountsInv
<1>5. CASE EndOfFile \/ AfterEnd \/ UNCHANGED tailVars
  <2>1. file' = file /\ pos' = pos /\ events_processed' = events_processed
    BY <1>5 DEF EndOfFile, AfterEnd, tailVars, graphVars
  <2>2. LinesWritten' = LinesWritten /\ HalfWritten' = HalfWritten
    BY <2>1 DEF LinesWritten, HalfWritten
  <2> QED BY <2>1, <2>2 DEF CountsInv
<1> QED BY <1>2, <1>3, <1>4, <1>5 DEF TailNext, TailRead

LEMMA InitCounts == TailInit => CountsInv
<1> SUFFICES ASSUME TailInit PROVE CountsInv
  OBVIOUS
<1>1. file = <<>> /\ pos = 0 /\ events_processed = 0
  BY DEF TailInit, GraphInit
<1>2. LinesWritten = {} /\ ~ HalfWritten
  BY <1>1 DEF LinesWritten, HalfWritten
<1>3. Cardinality(LinesWritten) = 0 /\ Len(file) = 0 /\ MaxLines \in Nat
  BY <1>1, <1>2, FS_EmptySet, MaxLinesAssumption
<1> QED BY <1>1, <1>2, <1>3 DEF CountsInv

\* There is room for a line where a piece is left to read.
LEMMA RoomToRead ==
    ASSUME FileAndGraph, CountsInv, pos < Len(file) PROVE Graph!CanRead
<1> DEFINE c == Cardinality(LinesWritten)
<1>1. /\ pos \in Nat /\ Len(file) \in Nat /\ c \in Nat /\ MaxLines \in Nat /\ malformed_lines = 0
  BY LinesWrittenFinite, MaxLinesAssumption
     DEF FileAndGraph, FileAndRead, FileInv, ReadInv, GraphInv
<1>2. events_processed \in Nat /\ events_processed <= pos /\ c <= MaxLines
  BY DEF CountsInv
<1>3. Len(file) <= 2 * c
  <2>1. Len(file) + (IF HalfWritten THEN 1 ELSE 0) <= 2 * c
    BY DEF CountsInv
  <2> HIDE DEF c
  <2> QED BY <1>1, <2>1
<1> HIDE DEF c
<1> QED BY <1>1, <1>2, <1>3 DEF Graph!CanRead

LEMMA ReadStep ==
    ASSUME FileAndGraph, CountsInv, Read
    PROVE  [Graph!GraphNext]_(Graph!graphVars)
<1>1. /\ FileInv /\ pos \in 0..Len(file) /\ pos < Len(file) /\ seen \in Seq(Event)
      /\ GraphInv /\ node = [p \in Pids |-> node[p]]
  BY DEF FileAndGraph, FileAndRead, ReadInv, Read, GraphInv
<1>2. PICK line \in Lines : line = GetLine
  BY <1>1, GetLineInLines
<1>3. UNCHANGED <<policy_loaded, malformed_lines>>
  BY DEF Read
<1>4. CASE parse_event_line(line)
  <2>1. PICK ev \in Event : ev = EventOf(line)
    BY EventType
  <2>2. TailEvent(ev)
    BY <1>2, <1>4, <2>1 DEF Read
  <2>3. Unscored' = [Unscored EXCEPT ![ev.pid] =
                       Graph!graph_ingest_event(Graph!graph_get_or_add(pids, @, ev), ev)]
    BY <1>1, <2>2, UnscoredEvent
  <2>4. Graph!EventOf(line) = ev /\ Graph!parse_event_line(line)
    BY <1>4, <2>1 DEF Graph!EventOf, EventOf, Graph!parse_event_line, parse_event_line,
                      Graph!is_header, is_header
  <2>5. Graph!CanRead
    BY <1>1, RoomToRead
  <2>6. pids' = pids \cup {ev.pid} /\ events_processed' = events_processed + 1
    BY <2>2 DEF TailEvent
  <2>7. Graph!GraphIngest(line)
    BY <1>3, <2>3, <2>4, <2>5, <2>6 DEF Graph!GraphIngest
  <2> QED BY <2>7 DEF Graph!GraphNext
<1>5. CASE ~ parse_event_line(line)
  <2>1. UNCHANGED <<pids, node, events_processed>>
    BY <1>2, <1>5 DEF Read
  <2> QED BY <1>3, <2>1 DEF Graph!graphVars, Unscored
<1> QED BY <1>4, <1>5

\* tail builds the graph that analyze, graph, timeline and similarity build: the
\* same nodes, but for the scores it computes early, from the lines it reads.
THEOREM TailGraph == TailSpec => TailBuildsTheGraph
<1>1. TailInit => Graph!GraphInit
  <2> SUFFICES ASSUME TailInit PROVE Graph!GraphInit
    OBVIOUS
  <2>1. /\ policy_loaded = TRUE /\ pids = {} /\ node = [p \in Pids |-> ZeroNode]
        /\ events_processed = 0 /\ malformed_lines = 0
    BY DEF TailInit, GraphInit
  <2>2. PICK zero : zero = ZeroNode
    OBVIOUS
  <2>3. IsNode(zero) /\ zero.risk_score = 0 /\ zero.risk_level = ""
    BY <2>2 DEF ZeroNode, IsNode, NodeFields
  <2>4. [zero EXCEPT !.risk_score = 0, !.risk_level = ""] = zero
    BY <2>3 DEF IsNode, NodeFields
  <2>5. Unscored = [p \in Pids |-> ZeroNode]
    BY <2>1, <2>2, <2>4 DEF Unscored
  <2>6. Graph!ZeroNode = ZeroNode /\ Graph!Pids = Pids
    BY DEF Graph!ZeroNode, ZeroNode, Graph!Pids, Pids
  <2> QED BY <2>1, <2>5, <2>6 DEF Graph!GraphInit
<1>2. TailInit => FileAndGraph /\ CountsInv
  BY InitFileAndRead, InitGraph, InitCounts DEF FileAndGraph
<1>3. FileAndGraph /\ CountsInv /\ [TailNext]_tailVars => FileAndGraph' /\ CountsInv'
  BY StepFileAndGraph, StepCounts
<1>4. FileAndGraph /\ CountsInv /\ [TailNext]_tailVars => [Graph!GraphNext]_(Graph!graphVars)
  <2> SUFFICES ASSUME FileAndGraph, CountsInv, [TailNext]_tailVars
               PROVE  [Graph!GraphNext]_(Graph!graphVars)
    OBVIOUS
  <2>1. CASE Read
    BY <2>1, ReadStep
  <2>2. CASE \/ \E line \in Lines : AppendLine(line)
             \/ AppendRest \/ EndOfFile \/ AfterEnd \/ UNCHANGED tailVars
    <3>1. UNCHANGED <<policy_loaded, pids, node, events_processed, malformed_lines>>
      BY <2>2 DEF AppendLine, AppendRest, WriterOnly, EndOfFile, AfterEnd, tailVars, graphVars
    <3> QED BY <3>1 DEF Graph!graphVars, Unscored
  <2> QED BY <2>1, <2>2 DEF TailNext, TailRead
<1> QED BY <1>1, <1>2, <1>3, <1>4, PTL DEF TailSpec, TailBuildsTheGraph, Graph!GraphSpec
=============================================================================
