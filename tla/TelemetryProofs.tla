-------------------------- MODULE TelemetryProofs --------------------------
(***************************************************************************)
(* For every hash, size and stream of events: the count-min sketch never   *)
(* underestimates, the HyperLogLog registers depend only on the set of     *)
(* keys, the candidates are the first keys, the bounds of Space-Saving are *)
(* bounds, and a key that is more than its share of the events is kept.    *)
(*                                                                         *)
(* Each summary is related to the exact counts t of its field by an        *)
(* operator of its own, which the update by one key preserves; the bounds  *)
(* of Space-Saving need, besides, that its counts add up to the events.    *)
(***************************************************************************)
EXTENDS TelemetryProperties, RankingProofs, SequenceTheorems, TLAPS

Counts == [Keys -> Nat]
Count(t, k) == [t EXCEPT ![k] = @ + 1]

CmsOK(table, t) ==
    /\ table \in [Rows -> [Columns -> Nat]]
    /\ \A r \in Rows, k \in Keys : table[r][Column[r][k]] >= t[k]

HllOK(registers, t) ==
    /\ registers \in [Registers -> Nat]
    /\ \A k \in Keys : t[k] > 0 => Rank[k] <= registers[Register[k]]
    /\ \A g \in Registers :
          \/ registers[g] = 0
          \/ \E k \in Keys : t[k] > 0 /\ Register[k] = g /\ Rank[k] = registers[g]

ListOK(list, t) ==
    /\ list \in Seq(Keys)
    /\ Len(list) <= MaxCandidates
    /\ \A i, j \in 1..Len(list) : list[i] = list[j] => i = j
    /\ \A i \in 1..Len(list) : t[list[i]] > 0
    /\ Len(list) < MaxCandidates =>
          \A k \in Keys : t[k] > 0 => \E i \in 1..Len(list) : list[i] = k

\* An item counts at least what came and at most its error more; a key without an
\* item came no more often than any item counts.
SummaryOK(s, t) ==
    /\ s \in [used : 0..K, items : [1..K -> ItemSet]]
    /\ \A i \in Used(s) :
          /\ s.items[i].key \in Keys
          /\ t[s.items[i].key] <= s.items[i].count
          /\ s.items[i].count <= t[s.items[i].key] + s.items[i].error
          /\ \A j \in Used(s) : s.items[j].key = s.items[i].key => i = j
    /\ \A k \in Keys : (\A i \in Used(s) : s.items[i].key # k) =>
          /\ \A i \in Used(s) : t[k] <= s.items[i].count
          /\ s.used < K => t[k] = 0

TInv ==
    /\ truth \in [Fields -> Counts] /\ updates \in 0..MaxUpdates
    /\ freq \in [InCms -> [Rows -> [Columns -> Nat]]]
    /\ unique \in [InHll -> [Registers -> Nat]]
    /\ candidates \in [InCms -> Seq(Keys)]
    /\ ss \in [InSpaceSaving -> [used : 0..K, items : [1..K -> ItemSet]]]
    /\ \A f \in InCms : CmsOK(freq[f], truth[f]) /\ ListOK(candidates[f], truth[f])
    /\ \A f \in InHll : HllOK(unique[f], truth[f])
    /\ \A f \in InSpaceSaving : SummaryOK(ss[f], truth[f])

-----------------------------------------------------------------------------
LEMMA CountOf ==
    ASSUME NEW t \in Counts, NEW key \in Keys
    PROVE  /\ Count(t, key) \in Counts
           /\ \A k \in Keys : t[k] \in Nat /\ Count(t, key)[k] = IF k = key THEN t[k] + 1 ELSE t[k]
BY DEF Counts, Count

LEMMA FirstIsIn ==
    ASSUME NEW S, S \subseteq Nat, S # {}
    PROVE  First(S) \in S
BY LeastOf DEF First

-----------------------------------------------------------------------------
LEMMA CmsUpdate ==
    ASSUME NEW t \in Counts, NEW table, CmsOK(table, t), NEW key \in Keys
    PROVE  CmsOK(cms_add(table, key), Count(t, key))
<1>1. \A r \in Rows, k \in Keys : Column[r][k] \in Columns
  BY SketchAssumption
<1>2. \A r \in Rows, c \in Columns :
          table[r][c] \in Nat
          /\ cms_add(table, key)[r][c] = IF c = Column[r][key] THEN table[r][c] + 1 ELSE table[r][c]
  BY DEF cms_add, CmsOK
<1>3. cms_add(table, key) \in [Rows -> [Columns -> Nat]]
  BY <1>1 DEF cms_add, CmsOK
<1>4. \A r \in Rows, k \in Keys : cms_add(table, key)[r][Column[r][k]] >= Count(t, key)[k]
  <2> SUFFICES ASSUME NEW r \in Rows, NEW k \in Keys
               PROVE  cms_add(table, key)[r][Column[r][k]] >= Count(t, key)[k]
    OBVIOUS
  <2>1. table[r][Column[r][k]] \in Nat /\ table[r][Column[r][k]] >= t[k]
    BY <1>1, <1>2 DEF CmsOK
  <2>2. cms_add(table, key)[r][Column[r][k]] =
          IF Column[r][k] = Column[r][key] THEN table[r][Column[r][k]] + 1 ELSE table[r][Column[r][k]]
    BY <1>1, <1>2
  <2>3. t[k] \in Nat /\ Count(t, key)[k] = IF k = key THEN t[k] + 1 ELSE t[k]
    BY CountOf
  <2>. QED
    BY <2>1, <2>2, <2>3
<1>. QED
  BY <1>3, <1>4 DEF CmsOK

LEMMA HllUpdate ==
    ASSUME NEW t \in Counts, NEW registers, HllOK(registers, t), NEW key \in Keys
    PROVE  HllOK(hll_add(registers, key), Count(t, key))
<1> DEFINE after == hll_add(registers, key)
           u == Count(t, key)
<1>1. Register[key] \in Registers /\ \A k \in Keys : Rank[k] \in Nat /\ Register[k] \in Registers
  BY HllAssumption
<1>2. \A g \in Registers : /\ registers[g] \in Nat
                           /\ after[g] = IF g = Register[key] /\ Rank[key] > registers[g]
                                           THEN Rank[key] ELSE registers[g]
  BY DEF hll_add, HllOK
<1>3. after \in [Registers -> Nat]
  BY <1>1 DEF hll_add, HllOK
<1>4. \A k \in Keys : t[k] \in Nat /\ u[k] = IF k = key THEN t[k] + 1 ELSE t[k]
  BY CountOf
<1>. HIDE DEF after, u
<1>5. \A k \in Keys : u[k] > 0 => Rank[k] <= after[Register[k]]
  <2> SUFFICES ASSUME NEW k \in Keys, u[k] > 0 PROVE Rank[k] <= after[Register[k]]
    OBVIOUS
  <2>1. k = key \/ Rank[k] <= registers[Register[k]]
    BY <1>4 DEF HllOK
  <2>. QED
    BY <1>1, <1>2, <2>1
<1>6. \A g \in Registers : after[g] = 0
          \/ \E k \in Keys : u[k] > 0 /\ Register[k] = g /\ Rank[k] = after[g]
  <2> SUFFICES ASSUME NEW g \in Registers, after[g] # 0
               PROVE  \E k \in Keys : u[k] > 0 /\ Register[k] = g /\ Rank[k] = after[g]
    OBVIOUS
  <2>1. CASE g = Register[key] /\ Rank[key] > registers[g]
    BY <1>2, <1>4, <2>1
  <2>2. CASE ~(g = Register[key] /\ Rank[key] > registers[g])
    <3>1. after[g] = registers[g]
      BY <1>2, <2>2
    <3>2. PICK k \in Keys : t[k] > 0 /\ Register[k] = g /\ Rank[k] = registers[g]
      BY <3>1 DEF HllOK
    <3>3. u[k] > 0
      BY <1>4, <3>2
    <3>. QED
      BY <3>1, <3>2, <3>3
  <2>. QED
    BY <2>1, <2>2
<1>7. HllOK(after, u)
  BY <1>3, <1>5, <1>6 DEF HllOK
<1>. QED
  BY <1>7 DEF after, u

LEMMA ListUpdate ==
    ASSUME NEW t \in Counts, NEW list, ListOK(list, t), NEW key \in Keys
    PROVE  ListOK(candidates_add_unique(list, key), Count(t, key))
<1> DEFINE u == Count(t, key)
<1>1. \A k \in Keys : t[k] \in Nat /\ u[k] = IF k = key THEN t[k] + 1 ELSE t[k]
  BY CountOf
<1>2. list \in Seq(Keys) /\ Len(list) \in Nat /\ MaxCandidates \in Nat /\ DOMAIN list = 1..Len(list)
  BY SizesAssumption DEF ListOK
<1>3. \A i \in 1..Len(list) : list[i] \in Keys
  BY <1>2
<1>. HIDE DEF u
<1>4. CASE Len(list) >= MaxCandidates \/ key \in Listed(list)
  <2>1. candidates_add_unique(list, key) = list
    BY <1>4 DEF candidates_add_unique
  <2>2. \A i \in 1..Len(list) : u[list[i]] > 0
    BY <1>1, <1>3 DEF ListOK
  <2>3. Len(list) < MaxCandidates =>
          \A k \in Keys : u[k] > 0 => \E i \in 1..Len(list) : list[i] = k
    BY <1>1, <1>2, <1>4 DEF ListOK, Listed
  <2>4. ListOK(list, u)
    BY <2>2, <2>3 DEF ListOK
  <2>. QED
    BY <2>1, <2>4 DEF u
<1>5. CASE ~(Len(list) >= MaxCandidates \/ key \in Listed(list))
  <2> DEFINE longer == Append(list, key)
  <2>1. candidates_add_unique(list, key) = longer
    BY <1>5 DEF candidates_add_unique
  <2>2. /\ longer \in Seq(Keys) /\ Len(longer) = Len(list) + 1
        /\ \A i \in 1..Len(list) : longer[i] = list[i]
        /\ longer[Len(list) + 1] = key
    BY <1>2
  <2>3. \A i \in 1..Len(list) : list[i] # key
    BY <1>2, <1>5 DEF Listed
  <2>. HIDE DEF longer
  <2>4. Len(longer) <= MaxCandidates
    BY <1>2, <1>5, <2>2
  <2>5. \A i \in 1..Len(longer) : i \in 1..Len(list) \/ i = Len(list) + 1
    BY <1>2, <2>2
  <2>6. \A i, j \in 1..Len(longer) : longer[i] = longer[j] => i = j
    BY <2>2, <2>3, <2>5 DEF ListOK
  <2>7. \A i \in 1..Len(longer) : u[longer[i]] > 0
    BY <1>1, <1>3, <2>2, <2>5 DEF ListOK
  <2>8. \A k \in Keys : u[k] > 0 => \E i \in 1..Len(longer) : longer[i] = k
    <3> SUFFICES ASSUME NEW k \in Keys, u[k] > 0
                 PROVE  \E i \in 1..Len(longer) : longer[i] = k
      OBVIOUS
    <3>1. Len(list) + 1 \in 1..Len(longer) /\ \A i \in 1..Len(list) : i \in 1..Len(longer)
      BY <1>2, <2>2
    <3>2. CASE k = key
      BY <2>2, <3>1, <3>2
    <3>3. CASE k # key
      <4>1. t[k] > 0 /\ Len(list) < MaxCandidates
        BY <1>1, <1>2, <1>5, <3>3
      <4>2. PICK i \in 1..Len(list) : list[i] = k
        BY <4>1 DEF ListOK
      <4>. QED
        BY <2>2, <3>1, <4>2
    <3>. QED
      BY <3>2, <3>3
  <2>9. ListOK(longer, u)
    BY <2>2, <2>4, <2>6, <2>7, <2>8 DEF ListOK
  <2>. QED
    BY <2>1, <2>9 DEF u
<1>. QED
  BY <1>4, <1>5

-----------------------------------------------------------------------------
SummarySet == [used : 0..K, items : [1..K -> ItemSet]]

LEMMA ItemType ==
    ASSUME NEW key \in Keys, NEW count \in Nat, NEW error \in Nat
    PROVE  /\ Item(key, count, error) \in ItemSet
           /\ Item(key, count, error).key = key
           /\ Item(key, count, error).count = count
           /\ Item(key, count, error).error = error
BY DEF Item, ItemSet

LEMMA SummaryType ==
    ASSUME NEW s \in SummarySet
    PROVE  /\ K \in Nat \ {0} /\ s.used \in 0..K /\ Used(s) \subseteq 1..K /\ Used(s) \subseteq Nat
           /\ \A i \in 1..K : /\ s.items[i] \in ItemSet
                              /\ s.items[i].count \in Nat /\ s.items[i].error \in Nat
BY SizesAssumption DEF SummarySet, ItemSet, Used

\* What each case of ss_update leaves: one item changed, the others as they were.
LEMMA HitSummary ==
    ASSUME NEW t \in Counts, NEW s \in SummarySet, SummaryOK(s, t), NEW key \in Keys,
           HoldersOf(s, key) # {}
    PROVE  SummaryOK(Hit(s, key), Count(t, key))
<1> DEFINE h == First(HoldersOf(s, key))
           item == Item(key, s.items[h].count + 1, s.items[h].error)
           z == Hit(s, key)
           u == Count(t, key)
<1>1. h \in Used(s) /\ s.items[h].key = key
  <2>1. HoldersOf(s, key) \subseteq Nat
    BY SummaryType DEF HoldersOf
  <2>2. h \in HoldersOf(s, key)
    BY <2>1, FirstIsIn
  <2>. QED
    BY <2>2 DEF HoldersOf
<1>2. \A k \in Keys : t[k] \in Nat /\ u[k] = IF k = key THEN t[k] + 1 ELSE t[k]
  BY CountOf
<1>3. /\ K \in Nat \ {0} /\ s.used \in 0..K /\ Used(s) \subseteq 1..K
      /\ \A i \in 1..K : s.items[i] \in ItemSet
                         /\ s.items[i].count \in Nat /\ s.items[i].error \in Nat
  BY SummaryType
<1>4. item \in ItemSet /\ item.key = key /\ item.count = s.items[h].count + 1
      /\ item.error = s.items[h].error
  BY <1>1, <1>3, ItemType
<1>5. z = [used |-> s.used, items |-> [s.items EXCEPT ![h] = item]]
  BY DEF Hit
<1>6. s.items \in [1..K -> ItemSet]
  BY DEF SummarySet
<1>. HIDE DEF h, item, z, u
<1>7. z.used = s.used /\ z.items = [s.items EXCEPT ![h] = item] /\ Used(z) = Used(s)
  BY <1>5 DEF Used
<1>8. z.items \in [1..K -> ItemSet] /\ z.items[h] = item
      /\ \A i \in 1..K : i # h => z.items[i] = s.items[i]
  BY <1>1, <1>3, <1>4, <1>6, <1>7
<1>9. z \in [used : 0..K, items : [1..K -> ItemSet]]
  BY <1>3, <1>5, <1>7, <1>8
<1>10. ASSUME NEW i \in Used(z)
       PROVE  /\ z.items[i].key = s.items[i].key /\ z.items[i].key \in Keys
              /\ u[z.items[i].key] <= z.items[i].count
              /\ z.items[i].count <= u[z.items[i].key] + z.items[i].error
              /\ s.items[i].count <= z.items[i].count
  <2>1. /\ i \in 1..K /\ i \in Used(s) /\ s.items[i].key \in Keys
        /\ t[s.items[i].key] <= s.items[i].count
        /\ s.items[i].count <= t[s.items[i].key] + s.items[i].error
    BY <1>3, <1>7 DEF SummaryOK
  <2>2. CASE i = h
    <3>1. z.items[i].key = key /\ z.items[i].count = s.items[i].count + 1
          /\ z.items[i].error = s.items[i].error /\ s.items[i].key = key
      BY <1>1, <1>4, <1>8, <2>2
    <3>2. u[key] = t[key] + 1 /\ t[key] \in Nat
      BY <1>2
    <3>3. s.items[i].count \in Nat /\ s.items[i].error \in Nat
      BY <1>3, <2>1
    <3>4. t[key] <= s.items[i].count /\ s.items[i].count <= t[key] + s.items[i].error
      BY <2>1, <3>1
    <3>. QED
      BY <3>1, <3>2, <3>3, <3>4
  <2>3. CASE i # h
    <3>1. s.items[i].key # key
      BY <1>1, <1>7, <2>3 DEF SummaryOK
    <3>. QED
      BY <1>2, <1>3, <1>8, <2>1, <2>3, <3>1
  <2>. QED
    BY <2>2, <2>3
<1>11. ASSUME NEW k \in Keys, \A i \in Used(z) : z.items[i].key # k
       PROVE  (\A i \in Used(z) : u[k] <= z.items[i].count) /\ (z.used < K => u[k] = 0)
  <2>1. \A i \in Used(s) : s.items[i].key # k
    BY <1>7, <1>10, <1>11
  <2>2. k # key /\ u[k] = t[k] /\ t[k] \in Nat
    BY <1>1, <1>2, <2>1
  <2>3. ASSUME NEW i \in Used(z) PROVE u[k] <= z.items[i].count
    <3>1. i \in Used(s) /\ i \in 1..K /\ t[k] <= s.items[i].count
      BY <1>3, <1>7, <2>1 DEF SummaryOK
    <3>2. z.items[i] \in ItemSet /\ z.items[i].count \in Nat
      BY <1>8, <3>1 DEF ItemSet
    <3>. QED
      BY <1>3, <1>10, <2>2, <3>1, <3>2
  <2>4. z.used < K => u[k] = 0
    BY <1>7, <2>1, <2>2 DEF SummaryOK
  <2>. QED
    BY <2>3, <2>4
<1>12. \A i, j \in Used(z) : z.items[j].key = z.items[i].key => i = j
  BY <1>7, <1>10 DEF SummaryOK
<1>. QED
  BY <1>9, <1>10, <1>11, <1>12 DEF SummaryOK, z, u

LEMMA FreshSummary ==
    ASSUME NEW t \in Counts, NEW s \in SummarySet, SummaryOK(s, t), NEW key \in Keys,
           HoldersOf(s, key) = {}, s.used < K
    PROVE  SummaryOK(Fresh(s, key), Count(t, key))
<1> DEFINE h == s.used + 1
           item == Item(key, 1, 0)
           z == Fresh(s, key)
           u == Count(t, key)
<1>1. \A k \in Keys : t[k] \in Nat /\ u[k] = IF k = key THEN t[k] + 1 ELSE t[k]
  BY CountOf
<1>2. /\ K \in Nat \ {0} /\ s.used \in 0..K /\ Used(s) \subseteq 1..K
      /\ \A i \in 1..K : s.items[i] \in ItemSet /\ s.items[i].count \in Nat
  BY SummaryType
<1>3. h \in 1..K /\ h \notin Used(s)
  BY <1>2 DEF Used
<1>4. item \in ItemSet /\ item.key = key /\ item.count = 1 /\ item.error = 0
  BY ItemType
<1>5. z = [used |-> h, items |-> [s.items EXCEPT ![h] = item]]
  BY DEF Fresh
<1>6. s.items \in [1..K -> ItemSet]
  BY DEF SummarySet
<1>7. \A i \in Used(s) : s.items[i].key # key
  BY DEF HoldersOf
<1>8. h = s.used + 1
  OBVIOUS
<1>. HIDE DEF h, item, z, u
<1>9. z.used = h /\ z.items = [s.items EXCEPT ![h] = item]
      /\ \A i : i \in Used(z) <=> i \in Used(s) \/ i = h
  BY <1>2, <1>5, <1>8 DEF Used
<1>10. z.items \in [1..K -> ItemSet] /\ z.items[h] = item
       /\ \A i \in 1..K : i # h => z.items[i] = s.items[i]
  <2>1. z.items = [s.items EXCEPT ![h] = item] /\ item \in ItemSet /\ h \in 1..K
    BY <1>3, <1>4, <1>9
  <2>. QED
    BY <1>6, <2>1
<1>11. z \in [used : 0..K, items : [1..K -> ItemSet]]
  BY <1>2, <1>3, <1>5, <1>9, <1>10
<1>12. \A i \in Used(s) : z.items[i] = s.items[i]
  BY <1>2, <1>3, <1>10
<1>13. t[key] = 0
  BY <1>7 DEF SummaryOK
<1>14. ASSUME NEW i \in Used(z)
       PROVE  /\ z.items[i].key \in Keys
              /\ u[z.items[i].key] <= z.items[i].count
              /\ z.items[i].count <= u[z.items[i].key] + z.items[i].error
              /\ \A j \in Used(z) : z.items[j].key = z.items[i].key => i = j
  <2>1. CASE i = h
    <3>1. \A j \in Used(z) : j # h => z.items[j].key # key
      BY <1>7, <1>9, <1>12
    <3>. QED
      BY <1>1, <1>4, <1>10, <1>13, <2>1, <3>1
  <2>2. CASE i # h
    <3>1. i \in Used(s) /\ z.items[i] = s.items[i] /\ s.items[i].key # key
      BY <1>7, <1>9, <1>12, <2>2
    <3>2. \A j \in Used(z) : z.items[j].key = z.items[i].key => i = j
      BY <1>4, <1>9, <1>10, <1>12, <3>1 DEF SummaryOK
    <3>. QED
      BY <1>1, <3>1, <3>2 DEF SummaryOK
  <2>. QED
    BY <2>1, <2>2
<1>15. ASSUME NEW k \in Keys, \A i \in Used(z) : z.items[i].key # k
       PROVE  (\A i \in Used(z) : u[k] <= z.items[i].count) /\ (z.used < K => u[k] = 0)
  <2>1. k # key /\ \A i \in Used(s) : s.items[i].key # k
    BY <1>4, <1>9, <1>10, <1>12, <1>15
  <2>2. u[k] = 0
    BY <1>1, <2>1 DEF SummaryOK
  <2>3. \A i \in Used(z) : z.items[i].count \in Nat
    BY <1>2, <1>4, <1>9, <1>10, <1>12
  <2>. QED
    BY <2>2, <2>3
<1>. QED
  BY <1>11, <1>14, <1>15 DEF SummaryOK, z, u

LEMMA EvictSummary ==
    ASSUME NEW t \in Counts, NEW s \in SummarySet, SummaryOK(s, t), NEW key \in Keys,
           HoldersOf(s, key) = {}, ~(s.used < K)
    PROVE  SummaryOK(Evict(s, key), Count(t, key))
<1> DEFINE h == First(Least(s))
           old == s.items[h].count
           item == Item(key, old + 1, old)
           z == Evict(s, key)
           u == Count(t, key)
<1>1. \A k \in Keys : t[k] \in Nat /\ u[k] = IF k = key THEN t[k] + 1 ELSE t[k]
  BY CountOf
<1>2. /\ K \in Nat \ {0} /\ s.used \in 0..K /\ Used(s) \subseteq 1..K /\ Used(s) \subseteq Nat
      /\ \A i \in 1..K : s.items[i] \in ItemSet /\ s.items[i].count \in Nat
  BY SummaryType
<1>3. h \in Used(s) /\ \A j \in Used(s) : old <= s.items[j].count
  <2> DEFINE used == { s.items[i].count : i \in Used(s) }
  <2>1. used \subseteq Nat /\ used # {}
    <3>1. 1 \in Used(s)
      BY <1>2 DEF Used
    <3>. QED
      BY <1>2, <3>1
  <2>2. \E c \in used : \A d \in used : c <= d
    <3>. HIDE DEF used
    <3>. QED
      BY <2>1, LeastOf
  <2>3. Least(s) # {} /\ Least(s) \subseteq Nat
    BY <1>2, <2>2 DEF Least
  <2>4. h \in Least(s)
    BY <2>3, FirstIsIn
  <2>. QED
    BY <2>4 DEF Least
<1>4. h \in 1..K /\ old \in Nat
  BY <1>2, <1>3
<1>5. item \in ItemSet /\ item.key = key /\ item.count = old + 1 /\ item.error = old
  BY <1>4, ItemType
<1>6. z = [used |-> s.used, items |-> [s.items EXCEPT ![h] = item]]
  BY DEF Evict
<1>7. s.items \in [1..K -> ItemSet]
  BY DEF SummarySet
<1>8. \A i \in Used(s) : s.items[i].key # key
  BY DEF HoldersOf
<1>9. old = s.items[h].count
  OBVIOUS
<1>. HIDE DEF h, old, item, z, u
<1>10. z.used = s.used /\ z.items = [s.items EXCEPT ![h] = item] /\ Used(z) = Used(s)
  BY <1>6 DEF Used
<1>11. z.items \in [1..K -> ItemSet] /\ z.items[h] = item
       /\ \A i \in 1..K : i # h => z.items[i] = s.items[i]
  BY <1>4, <1>5, <1>7, <1>10
<1>12. z \in [used : 0..K, items : [1..K -> ItemSet]]
  BY <1>2, <1>6, <1>10, <1>11
<1>13. t[key] <= old
  BY <1>3, <1>8, <1>9 DEF SummaryOK
<1>14. ASSUME NEW i \in Used(z)
       PROVE  /\ z.items[i].key \in Keys
              /\ u[z.items[i].key] <= z.items[i].count
              /\ z.items[i].count <= u[z.items[i].key] + z.items[i].error
              /\ \A j \in Used(z) : z.items[j].key = z.items[i].key => i = j
              /\ old <= z.items[i].count /\ z.items[i].count \in Nat
  <2>1. \A j \in Used(z) : j # h => z.items[j] = s.items[j] /\ s.items[j].key # key
    BY <1>2, <1>8, <1>10, <1>11
  <2>2. CASE i = h
    <3>1. z.items[i].key = key /\ z.items[i].count = old + 1 /\ z.items[i].error = old
      BY <1>5, <1>11, <2>2
    <3>2. u[key] = t[key] + 1 /\ t[key] \in Nat
      BY <1>1
    <3>3. \A j \in Used(z) : z.items[j].key = z.items[i].key => i = j
      BY <2>1, <2>2, <3>1
    <3>. QED
      BY <1>4, <1>13, <3>1, <3>2, <3>3
  <2>3. CASE i # h
    <3>1. i \in Used(s) /\ i \in 1..K /\ z.items[i] = s.items[i] /\ s.items[i].key # key
      BY <1>2, <1>10, <2>1, <2>3
    <3>2. \A j \in Used(z) : z.items[j].key = z.items[i].key => i = j
      BY <1>5, <1>10, <1>11, <2>1, <3>1 DEF SummaryOK
    <3>. QED
      BY <1>1, <1>2, <1>3, <3>1, <3>2 DEF SummaryOK
  <2>. QED
    BY <2>2, <2>3
<1>15. ASSUME NEW k \in Keys, \A i \in Used(z) : z.items[i].key # k
       PROVE  (\A i \in Used(z) : u[k] <= z.items[i].count) /\ (z.used < K => u[k] = 0)
  <2>1. k # key
    BY <1>3, <1>5, <1>10, <1>11, <1>15
  <2>2. t[k] \in Nat /\ u[k] = t[k]
    BY <1>1, <2>1
  <2>3. t[k] <= old
    <3>1. CASE s.items[h].key = k
      BY <1>3, <1>9, <3>1 DEF SummaryOK
    <3>2. CASE s.items[h].key # k
      <4>1. \A i \in Used(s) : s.items[i].key # k
        BY <1>2, <1>10, <1>11, <1>15, <3>2
      <4>. QED
        BY <1>3, <1>9, <4>1 DEF SummaryOK
    <3>. QED
      BY <3>1, <3>2
  <2>4. \A i \in Used(z) : u[k] <= z.items[i].count
    BY <1>4, <1>14, <2>2, <2>3
  <2>. QED
    BY <1>10, <2>4
<1>. QED
  BY <1>12, <1>14, <1>15 DEF SummaryOK, z, u

LEMMA SummaryUpdate ==
    ASSUME NEW t \in Counts, NEW s, SummaryOK(s, t), NEW key \in Keys
    PROVE  SummaryOK(ss_update(s, key), Count(t, key))
<1>1. s \in SummarySet
  BY DEF SummaryOK, SummarySet
<1>2. CASE HoldersOf(s, key) # {}
  BY <1>1, <1>2, HitSummary DEF ss_update
<1>3. CASE HoldersOf(s, key) = {} /\ s.used < K
  BY <1>1, <1>3, FreshSummary DEF ss_update
<1>4. CASE HoldersOf(s, key) = {} /\ ~(s.used < K)
  BY <1>1, <1>4, EvictSummary DEF ss_update
<1>. QED
  BY <1>2, <1>3, <1>4

-----------------------------------------------------------------------------
LEMMA FieldsOf == InCms \subseteq Fields /\ InHll \subseteq Fields /\ InSpaceSaving \subseteq Fields
BY DEF InCms, InHll, InSpaceSaving, Fields

LEMMA InitTInv == telemetry_init => TInv
<1> SUFFICES ASSUME telemetry_init PROVE TInv
  OBVIOUS
<1>1. truth \in [Fields -> Counts] /\ \A f \in Fields, k \in Keys : truth[f][k] = 0
  BY DEF telemetry_init, Counts
<1>2. freq \in [InCms -> [Rows -> [Columns -> Nat]]]
      /\ \A f \in InCms, r \in Rows, c \in Columns : freq[f][r][c] = 0
  BY DEF telemetry_init
<1>3. unique \in [InHll -> [Registers -> Nat]]
      /\ \A f \in InHll, g \in Registers : unique[f][g] = 0
  BY DEF telemetry_init
<1>4. candidates \in [InCms -> Seq(Keys)] /\ \A f \in InCms : candidates[f] = <<>>
  BY DEF telemetry_init
<1>5. ss \in [InSpaceSaving -> SummarySet] /\ \A f \in InSpaceSaving : ss[f].used = 0
  <2>1. NoItem \in ItemSet
    BY DEF NoItem, ItemSet
  <2>2. [used |-> 0, items |-> [i \in 1..K |-> NoItem]] \in SummarySet
    BY <2>1, SizesAssumption DEF SummarySet
  <2>. QED
    BY <2>2 DEF telemetry_init
<1>6. \A f \in InCms : CmsOK(freq[f], truth[f])
  BY <1>1, <1>2, SketchAssumption, FieldsOf DEF CmsOK
<1>7. \A f \in InCms : ListOK(candidates[f], truth[f])
  <2> SUFFICES ASSUME NEW f \in InCms PROVE ListOK(candidates[f], truth[f])
    OBVIOUS
  <2>1. candidates[f] = <<>> /\ Len(candidates[f]) = 0 /\ candidates[f] \in Seq(Keys)
    BY <1>4
  <2>2. \A k \in Keys : ~(truth[f][k] > 0)
    BY <1>1, FieldsOf
  <2>. QED
    BY <2>1, <2>2, SizesAssumption DEF ListOK
<1>8. \A f \in InHll : HllOK(unique[f], truth[f])
  BY <1>1, <1>3, FieldsOf DEF HllOK
<1>9. \A f \in InSpaceSaving : SummaryOK(ss[f], truth[f])
  <2> SUFFICES ASSUME NEW f \in InSpaceSaving PROVE SummaryOK(ss[f], truth[f])
    OBVIOUS
  <2>1. ss[f] \in SummarySet /\ Used(ss[f]) = {}
    BY <1>5 DEF Used
  <2>2. \A k \in Keys : truth[f][k] = 0
    BY <1>1, FieldsOf
  <2>. QED
    BY <2>1, <2>2 DEF SummaryOK, SummarySet
<1>10. updates \in 0..MaxUpdates
  BY SizesAssumption DEF telemetry_init
<1>. QED
  BY <1>1, <1>2, <1>3, <1>4, <1>5, <1>6, <1>7, <1>8, <1>9, <1>10 DEF TInv, SummarySet

\* One event, one field at a time: a field that is empty keeps its summaries and
\* its counts, another is updated by one key in all of them.
LEMMA StepTInv == TInv /\ [Next]_vars => TInv'
<1> SUFFICES ASSUME TInv, [Next]_vars PROVE TInv'
  OBVIOUS
<1>1. CASE UNCHANGED vars
  BY <1>1 DEF vars, TInv, CmsOK, HllOK, ListOK, SummaryOK, Used
<1>2. CASE Next
  <2>1. PICK ev \in Events : telemetry_update(ev)
    BY <1>2 DEF Next
  <2>2. \A f \in Fields : ev[f] # Empty => ev[f] \in Keys
    BY EventsAssumption
  <2>3. \A f \in Fields : /\ truth[f] \in Counts
                          /\ truth'[f] = IF ev[f] # Empty THEN Count(truth[f], ev[f]) ELSE truth[f]
    BY <2>1 DEF telemetry_update, Count, TInv
  <2>4. truth' \in [Fields -> Counts]
    <3>1. \A f \in Fields : truth'[f] \in Counts
      BY <2>2, <2>3, CountOf
    <3>2. truth' = [f \in Fields |-> truth'[f]]
      BY <2>1 DEF telemetry_update
    <3>. QED
      BY <3>1, <3>2
  <2>5. ASSUME NEW f \in InCms PROVE CmsOK(freq'[f], truth'[f])
    <3>1. freq'[f] = IF ev[f] # Empty THEN cms_add(freq[f], ev[f]) ELSE freq[f]
      BY <2>1, FieldsOf DEF telemetry_update
    <3>2. CmsOK(freq[f], truth[f])
      BY DEF TInv
    <3>. QED
      BY <2>2, <2>3, <3>1, <3>2, CmsUpdate, FieldsOf
  <2>6. ASSUME NEW f \in InCms PROVE ListOK(candidates'[f], truth'[f])
    <3>1. candidates'[f] = IF ev[f] # Empty THEN candidates_add_unique(candidates[f], ev[f])
                                            ELSE candidates[f]
      BY <2>1, FieldsOf DEF telemetry_update
    <3>2. ListOK(candidates[f], truth[f])
      BY DEF TInv
    <3>. QED
      BY <2>2, <2>3, <3>1, <3>2, ListUpdate, FieldsOf
  <2>7. ASSUME NEW f \in InHll PROVE HllOK(unique'[f], truth'[f])
    <3>1. unique'[f] = IF ev[f] # Empty THEN hll_add(unique[f], ev[f]) ELSE unique[f]
      BY <2>1, FieldsOf DEF telemetry_update
    <3>2. HllOK(unique[f], truth[f])
      BY DEF TInv
    <3>. QED
      BY <2>2, <2>3, <3>1, <3>2, HllUpdate, FieldsOf
  <2>8. ASSUME NEW f \in InSpaceSaving PROVE SummaryOK(ss'[f], truth'[f])
    <3>1. ss'[f] = IF ev[f] # Empty THEN ss_update(ss[f], ev[f]) ELSE ss[f]
      BY <2>1, FieldsOf DEF telemetry_update
    <3>2. SummaryOK(ss[f], truth[f])
      BY DEF TInv
    <3>. QED
      BY <2>2, <2>3, <3>1, <3>2, SummaryUpdate, FieldsOf
  <2>9. freq' = [f \in InCms |-> freq'[f]] /\ unique' = [f \in InHll |-> unique'[f]]
        /\ candidates' = [f \in InCms |-> candidates'[f]]
        /\ ss' = [f \in InSpaceSaving |-> ss'[f]]
    BY <2>1 DEF telemetry_update
  <2>10. freq' \in [InCms -> [Rows -> [Columns -> Nat]]]
    BY <2>5, <2>9 DEF CmsOK
  <2>11. unique' \in [InHll -> [Registers -> Nat]]
    BY <2>7, <2>9 DEF HllOK
  <2>12. candidates' \in [InCms -> Seq(Keys)]
    BY <2>6, <2>9 DEF ListOK
  <2>13. ss' \in [InSpaceSaving -> [used : 0..K, items : [1..K -> ItemSet]]]
    BY <2>8, <2>9 DEF SummaryOK
  <2>14. updates' \in 0..MaxUpdates
    BY <2>1, SizesAssumption DEF telemetry_update, TInv
  <2>. QED
    BY <2>4, <2>5, <2>6, <2>7, <2>8, <2>10, <2>11, <2>12, <2>13, <2>14
       DEF TInv, CmsOK, HllOK, ListOK, SummaryOK, Used
<1>. QED
  BY <1>1, <1>2

\* Every summary agrees with the exact counts in every reachable state.
THEOREM SummariesAgree == Spec => []TInv
<1>1. telemetry_init => TInv
  BY InitTInv
<1>2. TInv /\ [Next]_vars => TInv'
  BY StepTInv
<1>. QED
  BY <1>1, <1>2, PTL DEF Spec

\* For every size and hash each variable keeps its type.
THEOREM TelemetryTypeCorrect == Spec => []TelemetryTypeOK
<1>1. TInv => TelemetryTypeOK
  BY DEF TInv, TelemetryTypeOK, Counts
<1>. QED
  BY <1>1, SummariesAgree, PTL

\* For every depth, width and hash an estimate is at least the exact count.
THEOREM FrequencyIsUpperBound == Spec => []FrequencyNeverTooLow
<1>1. ASSUME TInv PROVE FrequencyNeverTooLow
  <2> SUFFICES ASSUME NEW f \in InCms, NEW k \in Keys
               PROVE  cms_estimate(freq[f], k) >= truth[f][k]
    BY DEF FrequencyNeverTooLow
  <2> DEFINE S == cms_cells(freq[f], k)
  <2>1. CmsOK(freq[f], truth[f])
    BY <1>1 DEF TInv
  <2>2. S \subseteq Nat /\ S # {} /\ \A c \in S : c >= truth[f][k]
    BY <2>1, SketchAssumption DEF CmsOK, cms_cells
  <2>3. cms_estimate(freq[f], k) = CHOOSE c \in S : \A d \in S : c <= d
    BY DEF cms_estimate
  <2>. HIDE DEF S
  <2>4. cms_estimate(freq[f], k) \in S
    BY <2>2, <2>3, LeastOf
  <2>. QED
    BY <2>2, <2>4
<1>. QED
  BY <1>1, SummariesAgree, PTL

\* For every hash the registers are a function of the set of keys seen.
THEOREM RegistersAreOfTheSet == Spec => []RegistersForgetOrder
<1>1. TInv => RegistersForgetOrder
  BY DEF TInv, HllOK, RegistersForgetOrder
<1>. QED
  BY <1>1, SummariesAgree, PTL

\* For every capacity the candidates are the first distinct keys.
THEOREM CandidatesAreFirst == Spec => []CandidatesAreTheFirstKeys
<1>1. ASSUME TInv PROVE CandidatesAreTheFirstKeys
  <2> SUFFICES ASSUME NEW f \in InCms
               PROVE  /\ Len(candidates[f]) <= MaxCandidates
                      /\ \A i, j \in DOMAIN candidates[f] :
                            candidates[f][i] = candidates[f][j] => i = j
                      /\ \A k \in Keys : k \in Listed(candidates[f]) => truth[f][k] > 0
                      /\ Len(candidates[f]) < MaxCandidates =>
                            \A k \in Keys : truth[f][k] > 0 => k \in Listed(candidates[f])
    BY DEF CandidatesAreTheFirstKeys
  <2>1. ListOK(candidates[f], truth[f])
    BY <1>1 DEF TInv
  <2>2. DOMAIN candidates[f] = 1..Len(candidates[f])
    BY <2>1 DEF ListOK
  <2>. QED
    BY <2>1, <2>2 DEF ListOK, Listed
<1>. QED
  BY <1>1, SummariesAgree, PTL

\* For every K the two numbers printed of an item bound its exact count.
THEOREM PrintedBoundsHold == Spec => []BoundsAreBounds
<1>1. ASSUME TInv PROVE BoundsAreBounds
  <2> SUFFICES ASSUME NEW f \in InSpaceSaving, NEW i \in Used(ss[f])
               PROVE  LET item == ss[f].items[i] IN
                      /\ item.key \in Keys
                      /\ lower_bound(item) <= truth[f][item.key]
                      /\ truth[f][item.key] <= upper_bound(item)
                      /\ \A j \in Used(ss[f]) : ss[f].items[j].key = item.key => i = j
    BY DEF BoundsAreBounds
  <2> DEFINE item == ss[f].items[i]
  <2>1. SummaryOK(ss[f], truth[f]) /\ ss[f] \in SummarySet /\ truth[f] \in Counts
    BY <1>1, FieldsOf DEF TInv, SummarySet
  <2>2. item.count \in Nat /\ item.error \in Nat
    BY <2>1, SummaryType
  <2>3. /\ item.key \in Keys /\ truth[f][item.key] <= item.count
        /\ item.count <= truth[f][item.key] + item.error
        /\ \A j \in Used(ss[f]) : ss[f].items[j].key = item.key => i = j
    BY <2>1 DEF SummaryOK
  <2>4. truth[f][item.key] \in Nat
    BY <2>1, <2>3 DEF Counts
  <2>. HIDE DEF item
  <2>5. lower_bound(item) <= truth[f][item.key] /\ truth[f][item.key] <= upper_bound(item)
    BY <2>2, <2>3, <2>4 DEF lower_bound, upper_bound
  <2>. QED
    BY <2>3, <2>5 DEF item
<1>. QED
  BY <1>1, SummariesAgree, PTL

\* For every K a key that has no item is not a frequent one.
THEOREM MissedKeysStayRare == Spec => []MissedKeysAreRare
<1>1. TInv => MissedKeysAreRare
  BY DEF TInv, SummaryOK, MissedKeysAreRare, HoldersOf
<1>. QED
  BY <1>1, SummariesAgree, PTL

\* The keys of a list are finitely many.
LEMMA ListedIsFinite ==
    ASSUME NEW list \in Seq(Keys)
    PROVE  IsFiniteSet(Listed(list)) /\ Listed(list) \subseteq Keys
<1> DEFINE f == [i \in 1..Len(list) |-> list[i]]
<1>1. f \in Surjection(1..Len(list), Listed(list))
  BY DEF Surjection, Listed
<1>2. IsFiniteSet(1..Len(list))
  BY FS_Interval
<1>3. IsFiniteSet(Listed(list))
  <2>. HIDE DEF f
  <2>. QED
    BY <1>1, <1>2, FS_Surjection
<1>. QED
  BY <1>3 DEF Listed

LEMMA EstimateType ==
    ASSUME NEW table \in [Rows -> [Columns -> Nat]], NEW k \in Keys
    PROVE  cms_estimate(table, k) \in Nat
<1> DEFINE S == cms_cells(table, k)
<1>1. S \subseteq Nat /\ S # {}
  BY SketchAssumption DEF cms_cells
<1>2. cms_estimate(table, k) = CHOOSE c \in S : \A d \in S : c <= d
  BY DEF cms_estimate
<1>. HIDE DEF S
<1>. QED
  BY <1>1, <1>2, LeastOf

\* A summary's table: what it leaves out is no more frequent.
LEMMA SummaryTable ==
    ASSUME NEW s, NEW t \in Counts, SummaryOK(s, t), NEW k \in Keys,
           \A i \in top_of_summary(s) : s.items[i].key # k
    PROVE  /\ \A i \in top_of_summary(s) : t[k] <= s.items[i].count
           /\ t[k] > 0 => Cardinality(top_of_summary(s)) >= TopItems \/ s.used = K
<1> DEFINE U == Used(s)
           score == [i \in U |-> s.items[i].count]
           order == [i \in U |-> KeyOrder[s.items[i].key]]
           shown == Shown(U, score, order, TopItems)
<1>1. s \in SummarySet
  BY DEF SummaryOK, SummarySet
<1>2. IsFiniteSet(U) /\ U \subseteq 1..K
  <2>1. s.used \in 0..K
    BY <1>1 DEF SummarySet
  <2>2. K \in Nat
    BY SizesAssumption
  <2>3. U = 1..s.used
    BY DEF Used
  <2>4. \A n \in 0..K : 1..n \subseteq 1..K
    BY <2>2
  <2>5. \A n \in Int : IsFiniteSet(1..n)
    BY FS_Interval
  <2>. HIDE DEF U
  <2>. QED
    BY <2>1, <2>2, <2>3, <2>4, <2>5
<1>3. \A i \in U : s.items[i].count \in Nat /\ s.items[i].key \in Keys
  BY <1>1, <1>2, SummaryType DEF SummaryOK
<1>4. score \in [U -> Int] /\ order \in [U -> Int] /\ TopItems \in Nat
  BY <1>3, TablesAssumption
<1>5. shown = top_of_summary(s) /\ shown \subseteq U
  BY DEF top_of_summary, Shown
<1>6. t[k] \in Nat
  BY DEF Counts
<1>7. CASE \E i \in U : s.items[i].key = k
  <2>1. PICK i \in U : s.items[i].key = k
    BY <1>7
  <2>2. i \notin shown /\ t[k] <= score[i]
    BY <1>5, <2>1 DEF SummaryOK
  <2>. HIDE DEF shown, score, order, U
  <2>3. \A j \in shown : score[i] <= score[j]
    BY <1>2, <1>4, <2>1, <2>2, LeftOutScoresLess DEF shown
  <2>4. Cardinality(shown) >= TopItems
    BY <1>2, <1>4, <2>1, <2>2, LeftOutOfFullTable DEF shown
  <2>5. \A j \in shown : t[k] <= score[j]
    BY <1>4, <1>5, <1>6, <2>1, <2>2, <2>3
  <2>6. \A j \in shown : score[j] = s.items[j].count
    BY <1>5 DEF score
  <2>. QED
    BY <1>5, <2>4, <2>5, <2>6
<1>8. CASE \A i \in U : s.items[i].key # k
  <2>1. /\ \A i \in U : t[k] <= s.items[i].count
        /\ s.used < K => t[k] = 0
    BY <1>8 DEF SummaryOK
  <2>2. s.used \in 0..K /\ K \in Nat
    BY <1>1, SizesAssumption DEF SummarySet
  <2>. QED
    BY <1>5, <1>6, <2>1, <2>2
<1>. QED
  BY <1>7, <1>8

\* The table of a count-min sketch leaves out no listed key that is more frequent.
LEMMA CmsTable ==
    ASSUME NEW table, NEW list, NEW t \in Counts, CmsOK(table, t), ListOK(list, t),
           NEW k \in Keys, t[k] <= cms_estimate(table, k),
           k \notin top_from_cms(table, list),
           k \in Listed(list) \/ Len(list) < MaxCandidates
    PROVE  /\ \A x \in top_from_cms(table, list) : t[k] <= cms_estimate(table, x)
           /\ t[k] > 0 => Cardinality(top_from_cms(table, list)) >= TopItems
<1> DEFINE L == Listed(list)
           score == [x \in L |-> cms_estimate(table, x)]
           order == [x \in L |-> KeyOrder[x]]
           shown == Shown(L, score, order, TopItems)
<1>1. IsFiniteSet(L) /\ L \subseteq Keys
  BY ListedIsFinite DEF ListOK
<1>2. \A x \in Keys : cms_estimate(table, x) \in Nat
  BY EstimateType DEF CmsOK
<1>3. score \in [L -> Int] /\ order \in [L -> Int] /\ TopItems \in Nat
  BY <1>1, <1>2, TablesAssumption
<1>4. shown = top_from_cms(table, list) /\ shown \subseteq L
  BY DEF top_from_cms, Shown
<1>5. t[k] \in Nat
  BY DEF Counts
<1>6. CASE k \in L
  <2>1. k \notin shown /\ t[k] <= score[k]
    BY <1>4, <1>6
  <2>. HIDE DEF shown, score, order, L
  <2>2. \A x \in shown : score[k] <= score[x]
    BY <1>1, <1>3, <1>6, <2>1, LeftOutScoresLess DEF shown
  <2>3. Cardinality(shown) >= TopItems
    BY <1>1, <1>3, <1>6, <2>1, LeftOutOfFullTable DEF shown
  <2>4. \A x \in shown : t[k] <= score[x]
    BY <1>3, <1>4, <1>5, <1>6, <2>1, <2>2
  <2>5. \A x \in shown : score[x] = cms_estimate(table, x)
    BY <1>4 DEF score
  <2>. QED
    BY <1>4, <2>3, <2>4, <2>5
<1>7. CASE k \notin L
  <2>1. Len(list) < MaxCandidates
    BY <1>7
  <2>2. ~(t[k] > 0)
    BY <1>7, <2>1 DEF ListOK, Listed
  <2>3. t[k] = 0
    BY <1>5, <2>2
  <2>4. \A x \in shown : cms_estimate(table, x) \in Nat
    BY <1>1, <1>2, <1>4
  <2>. QED
    BY <1>4, <2>3, <2>4
<1>. QED
  BY <1>6, <1>7

\* For every K, table length, hash and stream the tables of the report show the
\* most frequent of what is kept.
THEOREM MostFrequentShown == Spec => []MostFrequentAreShown
<1>1. FrequencyNeverTooLow /\ TInv => MostFrequentAreShown
  <2> SUFFICES ASSUME FrequencyNeverTooLow, TInv, NEW k \in Keys
               PROVE
        /\ \A f \in InSpaceSaving :
              (\A i \in top_of_summary(ss[f]) : ss[f].items[i].key # k) =>
                  /\ \A i \in top_of_summary(ss[f]) : truth[f][k] <= upper_bound(ss[f].items[i])
                  /\ truth[f][k] > 0 =>
                        Cardinality(top_of_summary(ss[f])) >= TopItems \/ ss[f].used = K
        /\ \A f \in InCms :
              k \notin top_from_cms(freq[f], candidates[f])
              /\ (k \in Listed(candidates[f]) \/ Len(candidates[f]) < MaxCandidates) =>
                  /\ \A x \in top_from_cms(freq[f], candidates[f]) :
                        truth[f][k] <= cms_estimate(freq[f], x)
                  /\ truth[f][k] > 0 =>
                        Cardinality(top_from_cms(freq[f], candidates[f])) >= TopItems
    BY DEF MostFrequentAreShown
  <2>1. ASSUME NEW f \in InSpaceSaving,
               \A i \in top_of_summary(ss[f]) : ss[f].items[i].key # k
        PROVE  /\ \A i \in top_of_summary(ss[f]) : truth[f][k] <= upper_bound(ss[f].items[i])
               /\ truth[f][k] > 0 =>
                     Cardinality(top_of_summary(ss[f])) >= TopItems \/ ss[f].used = K
    <3>1. SummaryOK(ss[f], truth[f]) /\ truth[f] \in Counts
      BY FieldsOf DEF TInv
    <3>. QED
      BY <2>1, <3>1, SummaryTable DEF upper_bound
  <2>2. ASSUME NEW f \in InCms, k \notin top_from_cms(freq[f], candidates[f]),
               k \in Listed(candidates[f]) \/ Len(candidates[f]) < MaxCandidates
        PROVE  /\ \A x \in top_from_cms(freq[f], candidates[f]) :
                     truth[f][k] <= cms_estimate(freq[f], x)
               /\ truth[f][k] > 0 =>
                     Cardinality(top_from_cms(freq[f], candidates[f])) >= TopItems
    <3>1. CmsOK(freq[f], truth[f]) /\ ListOK(candidates[f], truth[f]) /\ truth[f] \in Counts
      BY FieldsOf DEF TInv
    <3>2. truth[f][k] <= cms_estimate(freq[f], k)
      <4>1. cms_estimate(freq[f], k) >= truth[f][k]
        BY DEF FrequencyNeverTooLow
      <4>2. truth[f][k] \in Nat /\ cms_estimate(freq[f], k) \in Nat
        BY <3>1, EstimateType DEF CmsOK, Counts
      <4>. QED
        BY <4>1, <4>2
    <3>. QED
      BY <2>2, <3>1, <3>2, CmsTable
  <2>. QED
    BY <2>1, <2>2
<1>. QED
  BY <1>1, SummariesAgree, FrequencyIsUpperBound, PTL

-----------------------------------------------------------------------------
(***************************************************************************)
(* The counts of a summary add up to those of its field: an eviction hands *)
(* its count down.                                                         *)
(***************************************************************************)
AddsUp(s, t) ==
    /\ IsFiniteSet(Came(t))
    /\ SumOver(t, Came(t)) = SumOver(ItemCounts(s), Used(s))

CountsAddUp == \A f \in InSpaceSaving : AddsUp(ss[f], truth[f])

LEMMA OneKeyMore ==
    ASSUME NEW t \in Counts, NEW key \in Keys, IsFiniteSet(Came(t))
    PROVE  /\ IsFiniteSet(Came(Count(t, key)))
           /\ SumOver(Count(t, key), Came(Count(t, key))) = SumOver(t, Came(t)) + 1
<1> DEFINE u == Count(t, key)
<1>1. \A k \in Keys : t[k] \in Nat /\ u[k] = IF k = key THEN t[k] + 1 ELSE t[k]
  BY CountOf
<1> HIDE DEF u
<1>2. \A k \in Came(t) : k \in Keys /\ t[k] \in Int
  BY <1>1 DEF Came
<1>3. CASE t[key] > 0
  <2>1. key \in Came(t) /\ Came(u) = Came(t)
    BY <1>1, <1>3 DEF Came
  <2>2. \A k \in Came(t) : u[k] = IF k = key THEN t[k] + 1 ELSE t[k]
    BY <1>1, <1>2
  <2> QED BY <1>2, <2>1, <2>2, SumRaise DEF u
<1>4. CASE ~ (t[key] > 0)
  <2>1. t[key] = 0 /\ u[key] = 1
    BY <1>1, <1>4
  <2>2. key \notin Came(t) /\ Came(u) = Came(t) \cup {key}
    BY <1>1, <2>1 DEF Came
  <2>3. \A k \in Came(t) : u[k] = t[k] /\ u[k] \in Int
    BY <1>1, <1>2, <2>2
  <2>4. SumOver(u, Came(t)) = SumOver(t, Came(t))
    BY <2>3, SumSame
  <2>5. SumOver(u, Came(u)) = SumOver(u, Came(t)) + u[key]
    BY <2>1, <2>2, <2>3, SumPut
  <2>6. IsFiniteSet(Came(u))
    BY <2>2, FS_AddElement
  <2> QED BY <2>1, <2>4, <2>5, <2>6 DEF u
<1> QED BY <1>3, <1>4

LEMMA UsedIsFinite ==
    ASSUME NEW s \in SummarySet
    PROVE  IsFiniteSet(Used(s)) /\ Cardinality(Used(s)) = s.used
<1>1. PICK n \in Nat : n = s.used /\ Used(s) = 1..n
  BY SummaryType DEF Used
<1>2. IsFiniteSet(1..n) /\ Cardinality(1..n) = n
  <2>1. IsFiniteSet(1..n) /\ Cardinality(1..n) = IF 1 > n THEN 0 ELSE n - 1 + 1
    BY FS_Interval
  <2> QED BY <2>1
<1> QED BY <1>1, <1>2

\* One item of a summary counts one more.
LEMMA OneItemRaised ==
    ASSUME NEW s \in SummarySet, NEW z, NEW h \in Used(s), Used(z) = Used(s),
           z.items[h].count = s.items[h].count + 1,
           \A i \in Used(s) : i # h => z.items[i] = s.items[i]
    PROVE  SumOver(ItemCounts(z), Used(z)) = SumOver(ItemCounts(s), Used(s)) + 1
<1> DEFINE f == ItemCounts(s)
           g == ItemCounts(z)
<1>1. \A i \in Used(s) : f[i] = s.items[i].count /\ g[i] = z.items[i].count
  BY DEF ItemCounts
<1>2. \A i \in Used(s) : s.items[i].count \in Nat
  BY SummaryType
<1> HIDE DEF f, g
<1>3. \A i \in Used(s) : f[i] \in Int /\ g[i] = IF i = h THEN f[i] + 1 ELSE f[i]
  BY <1>1, <1>2
<1>4. SumOver(g, Used(s)) = SumOver(f, Used(s)) + 1
  BY <1>3, UsedIsFinite, SumRaise
<1> QED BY <1>4 DEF f, g

LEMMA UpdateAddsOne ==
    ASSUME NEW t \in Counts, NEW s, SummaryOK(s, t), NEW key \in Keys
    PROVE  SumOver(ItemCounts(ss_update(s, key)), Used(ss_update(s, key)))
             = SumOver(ItemCounts(s), Used(s)) + 1
<1>1. s \in SummarySet
  BY DEF SummaryOK, SummarySet
<1>2. /\ K \in Nat \ {0} /\ s.used \in 0..K /\ Used(s) \subseteq 1..K /\ Used(s) \subseteq Nat
      /\ \A i \in 1..K : s.items[i] \in ItemSet
                         /\ s.items[i].count \in Nat /\ s.items[i].error \in Nat
  BY <1>1, SummaryType
<1>3. s.items \in [1..K -> ItemSet]
  BY <1>1 DEF SummarySet
<1>4. CASE HoldersOf(s, key) # {}
  <2> DEFINE h == First(HoldersOf(s, key))
             item == Item(key, s.items[h].count + 1, s.items[h].error)
             z == Hit(s, key)
  <2>1. h \in Used(s)
    <3>1. HoldersOf(s, key) \subseteq Nat
      BY <1>2 DEF HoldersOf
    <3>2. h \in HoldersOf(s, key)
      BY <1>4, <3>1, FirstIsIn
    <3> QED BY <3>2 DEF HoldersOf
  <2>2. item.count = s.items[h].count + 1
    BY <1>2, <2>1, ItemType
  <2>3. z = [used |-> s.used, items |-> [s.items EXCEPT ![h] = item]]
    BY DEF Hit
  <2>4. ss_update(s, key) = z
    BY <1>4 DEF ss_update
  <2> HIDE DEF h, item, z
  <2>5. Used(z) = Used(s) /\ z.items = [s.items EXCEPT ![h] = item]
    BY <2>3 DEF Used
  <2>6. z.items[h] = item /\ \A i \in Used(s) : i # h => z.items[i] = s.items[i]
    BY <1>2, <1>3, <2>1, <2>5
  <2>7. z.items[h].count = s.items[h].count + 1
    BY <2>2, <2>6
  <2> QED BY <1>1, <2>1, <2>4, <2>5, <2>6, <2>7, OneItemRaised
<1>5. CASE HoldersOf(s, key) = {} /\ ~(s.used < K)
  <2> DEFINE h == First(Least(s))
             old == s.items[h].count
             item == Item(key, old + 1, old)
             z == Evict(s, key)
  <2>1. h \in Used(s)
    <3> DEFINE used == { s.items[i].count : i \in Used(s) }
    <3>1. used \subseteq Nat /\ used # {}
      <4>1. 1 \in Used(s)
        BY <1>2, <1>5 DEF Used
      <4> QED BY <1>2, <4>1
    <3>2. \E c \in used : \A d \in used : c <= d
      <4> HIDE DEF used
      <4> QED BY <3>1, LeastOf
    <3>3. Least(s) # {} /\ Least(s) \subseteq Nat
      BY <1>2, <3>2 DEF Least
    <3>4. h \in Least(s)
      BY <3>3, FirstIsIn
    <3> QED BY <3>4 DEF Least
  <2>2. item.count = old + 1
    BY <1>2, <2>1, ItemType
  <2>3. z = [used |-> s.used, items |-> [s.items EXCEPT ![h] = item]]
    BY DEF Evict
  <2>4. ss_update(s, key) = z
    BY <1>5 DEF ss_update
  <2> HIDE DEF h, item, z
  <2>5. Used(z) = Used(s) /\ z.items = [s.items EXCEPT ![h] = item]
    BY <2>3 DEF Used
  <2>6. z.items[h] = item /\ \A i \in Used(s) : i # h => z.items[i] = s.items[i]
    BY <1>2, <1>3, <2>1, <2>5
  <2>7. z.items[h].count = s.items[h].count + 1
    BY <2>2, <2>6
  <2> QED BY <1>1, <2>1, <2>4, <2>5, <2>6, <2>7, OneItemRaised
<1>6. CASE HoldersOf(s, key) = {} /\ s.used < K
  <2> DEFINE h == s.used + 1
             item == Item(key, 1, 0)
             z == Fresh(s, key)
  <2>1. h \in 1..K /\ h \notin Used(s) /\ 1..h = (1..s.used) \cup {h}
    BY <1>2, <1>6 DEF Used
  <2>2. item.count = 1
    BY ItemType
  <2>3. z = [used |-> h, items |-> [s.items EXCEPT ![h] = item]]
    BY DEF Fresh
  <2>4. ss_update(s, key) = z
    BY <1>6 DEF ss_update
  <2> HIDE DEF h, item, z
  <2>5. Used(z) = Used(s) \cup {h} /\ z.items = [s.items EXCEPT ![h] = item]
    BY <2>1, <2>3 DEF Used
  <2>6. z.items[h] = item /\ \A i \in Used(s) : z.items[i] = s.items[i]
    BY <1>2, <1>3, <2>1, <2>5
  <2> DEFINE f == ItemCounts(s)
             g == ItemCounts(z)
  <2>7. \A i \in Used(s) : f[i] = s.items[i].count /\ g[i] = z.items[i].count
    BY <2>5 DEF ItemCounts
  <2>8. g[h] = 1
    BY <2>2, <2>5, <2>6 DEF ItemCounts
  <2> HIDE DEF f, g
  <2>9. \A i \in Used(s) : g[i] = f[i] /\ g[i] \in Int
    BY <1>2, <2>6, <2>7
  <2>10. SumOver(g, Used(s)) = SumOver(f, Used(s))
    BY <1>1, <2>9, UsedIsFinite, SumSame
  <2>11. SumOver(g, Used(z)) = SumOver(g, Used(s)) + g[h]
    BY <1>1, <2>1, <2>5, <2>8, <2>9, UsedIsFinite, SumPut
  <2> QED BY <2>4, <2>8, <2>10, <2>11 DEF f, g
<1> QED BY <1>4, <1>5, <1>6

\* The counts add up in every reachable state.
LEMMA AllAddUp == Spec => [](TInv /\ CountsAddUp)
<1>1. telemetry_init => CountsAddUp
  <2> SUFFICES ASSUME telemetry_init, NEW f \in InSpaceSaving PROVE AddsUp(ss[f], truth[f])
    BY DEF CountsAddUp
  <2>1. Came(truth[f]) = {}
    BY FieldsOf DEF telemetry_init, Came
  <2>2. Used(ss[f]) = {}
    BY DEF telemetry_init, Used
  <2> QED BY <2>1, <2>2, SumOfNone, FS_EmptySet DEF AddsUp
<1>2. TInv /\ CountsAddUp /\ [Next]_vars => CountsAddUp'
  <2> SUFFICES ASSUME TInv, CountsAddUp, [Next]_vars, NEW f \in InSpaceSaving
               PROVE  AddsUp(ss'[f], truth'[f])
    BY DEF CountsAddUp, AddsUp, ItemCounts, Used, Came
  <2>1. AddsUp(ss[f], truth[f]) /\ SummaryOK(ss[f], truth[f]) /\ truth[f] \in Counts
    BY FieldsOf DEF CountsAddUp, TInv
  <2>2. CASE UNCHANGED vars
    BY <2>1, <2>2 DEF vars
  <2>3. CASE Next
    <3>1. PICK ev \in Events : telemetry_update(ev)
      BY <2>3 DEF Next
    <3>2. /\ truth'[f] = IF ev[f] # Empty THEN Count(truth[f], ev[f]) ELSE truth[f]
          /\ ss'[f] = IF ev[f] # Empty THEN ss_update(ss[f], ev[f]) ELSE ss[f]
      BY <3>1, FieldsOf DEF telemetry_update, Count
    <3>3. CASE ev[f] = Empty
      BY <2>1, <3>2, <3>3
    <3>4. CASE ev[f] # Empty
      <4>1. ev[f] \in Keys
        BY <3>4, EventsAssumption, FieldsOf
      <4> QED BY <2>1, <3>2, <3>4, <4>1, OneKeyMore, UpdateAddsOne DEF AddsUp
    <3> QED BY <3>3, <3>4
  <2> QED BY <2>2, <2>3
<1> QED BY <1>1, <1>2, SummariesAgree, PTL DEF Spec

\* The counts of the items are those of the run, and a key with more than a K-th
\* of its events has an item, whatever came between and was evicted.
THEOREM HeavyHittersKept == Spec => []HeavyHittersAreKept
<1>1. TInv /\ CountsAddUp => HeavyHittersAreKept
  <2> SUFFICES ASSUME TInv, CountsAddUp, NEW f \in InSpaceSaving, NEW k \in Keys,
                      truth[f][k] * K > SumOver(truth[f], Came(truth[f])),
                      HoldersOf(ss[f], k) = {}
               PROVE  FALSE
    BY DEF HeavyHittersAreKept, CountsAddUp, AddsUp
  <2> DEFINE s == ss[f]
             c == truth[f][k]
             counts == ItemCounts(s)
             total == SumOver(counts, Used(s))
  <2>1. SummaryOK(s, truth[f]) /\ s \in SummarySet /\ c \in Nat /\ K \in Nat \ {0}
    BY FieldsOf, SizesAssumption DEF TInv, SummarySet, Counts
  <2>2. total = SumOver(truth[f], Came(truth[f]))
    BY DEF CountsAddUp, AddsUp
  <2>3. \A i \in Used(s) : s.items[i].key # k
    BY DEF HoldersOf
  <2>4. /\ \A i \in Used(s) : c <= s.items[i].count
        /\ s.used < K => c = 0
    BY <2>1, <2>3 DEF SummaryOK
  <2>5. \A i \in Used(s) : counts[i] \in Int /\ c <= counts[i]
    BY <2>1, <2>4, SummaryType DEF ItemCounts
  <2>6. IsFiniteSet(Used(s)) /\ Cardinality(Used(s)) = s.used /\ s.used \in 0..K
    BY <2>1, UsedIsFinite, SummaryType
  <2>7. c * K > total
    BY <2>2
  <2> HIDE DEF s, c, counts
  <2>8. c * s.used <= total /\ total \in Int
    BY <2>1, <2>5, <2>6, SumAtLeast, SumIsInt
  <2> HIDE DEF total
  <2>9. CASE s.used < K
    <3>1. c * K = 0 /\ c * s.used = 0
      BY <2>1, <2>4, <2>6, <2>9
    <3> QED BY <2>7, <2>8, <3>1
  <2>10. CASE s.used = K
    <3>1. c * K <= total
      BY <2>8, <2>10
    <3>2. c * K \in Int
      BY <2>1
    <3> QED BY <2>7, <2>8, <3>1, <3>2
  <2> QED BY <2>1, <2>6, <2>9, <2>10
<1> QED BY <1>1, AllAddUp, PTL
=============================================================================
