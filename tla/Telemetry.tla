----------------------------- MODULE Telemetry -----------------------------
(***************************************************************************)
(* The fixed-memory statistics of analyze and stats (telemetry.c, over     *)
(* sketches.c): for the fields of an event a count-min sketch, a           *)
(* HyperLogLog, the list of keys that the top lists are made from, and a   *)
(* Space-Saving summary.                                                   *)
(*                                                                         *)
(* The hash functions are parameters; the 64-bit counters do not overflow  *)
(* in a run.  Left out: the HyperLogLog estimate, a floating-point         *)
(* function of its registers, and the byte counts of telemetry_memory.     *)
(***************************************************************************)
EXTENDS Integers, Sequences, FiniteSets, Ranking

CONSTANTS
    Keys,           \* the texts of the fields
    Empty,          \* the empty text
    Events,         \* the events of a run: field -> text; no "pid" if it is negative
    Rows, Columns,  \* AGF_CMS_DEPTH, AGF_CMS_WIDTH
    Column,         \* the column of a key in a row
    Registers,      \* AGF_HLL_M
    Register,       \* the register of a key
    Rank,           \* hll_rank of the rest of its hash
    MaxCandidates,  \* AGF_MAX_CANDIDATES
    K,              \* AGF_SPACE_SAVING_K
    KeyOrder,       \* strcmp: the place of a key among all
    TopItems,       \* AGF_TOP_ITEMS_PRINT
    MaxUpdates      \* bound: events of a run

Fields == {"pid", "process", "file", "dst", "event"}
InCms == {"process", "file", "dst", "event"}
InHll == {"pid", "process", "file", "dst"}
InSpaceSaving == {"process", "file", "dst"}

ASSUME KeysAssumption == Empty \notin Keys
ASSUME EventsAssumption == Events \subseteq [Fields -> Keys \cup {Empty}]
ASSUME SketchAssumption == Rows # {} /\ Column \in [Rows -> [Keys -> Columns]]
ASSUME HllAssumption ==
    Register \in [Keys -> Registers] /\ Rank \in [Keys -> Nat \ {0}]
ASSUME SizesAssumption ==
    MaxCandidates \in Nat \ {0} /\ K \in Nat \ {0} /\ MaxUpdates \in Nat
ASSUME TablesAssumption == KeyOrder \in [Keys -> Int] /\ TopItems \in Nat

VARIABLES
    freq,           \* field -> table of the count-min sketch
    unique,         \* field -> registers of the HyperLogLog
    candidates,     \* field -> the first distinct keys
    ss,             \* field -> Space-Saving summary
    truth,          \* field -> exact counts; kept for the properties
    updates         \* events so far

vars == <<freq, unique, candidates, ss, truth, updates>>

-----------------------------------------------------------------------------
(* Count-min sketch. *)

\* Mutant of cms_add: only one row is raised.
cms_add_first(table, key) ==
    LET row == CHOOSE r \in Rows : TRUE
    IN  [table EXCEPT ![row][Column[row][key]] = @ + 1]

cms_add(table, key) ==
    [r \in Rows |-> [table[r] EXCEPT ![Column[r][key]] = @ + 1]]

cms_cells(table, key) == { table[r][Column[r][key]] : r \in Rows }

cms_estimate(table, key) ==
    CHOOSE c \in cms_cells(table, key) : \A d \in cms_cells(table, key) : c <= d

-----------------------------------------------------------------------------
(* HyperLogLog. *)

hll_add(registers, key) ==
    [registers EXCEPT ![Register[key]] = IF Rank[key] > @ THEN Rank[key] ELSE @]

-----------------------------------------------------------------------------
(* Candidates of the top lists. *)

Listed(list) == { list[i] : i \in DOMAIN list }

candidates_add_unique(list, key) ==
    IF Len(list) >= MaxCandidates \/ key \in Listed(list) THEN list ELSE Append(list, key)

-----------------------------------------------------------------------------
(* Space-Saving: the first "used" of K items, each an upper bound of how     *)
(* often its key came and the most it may be too high by.                    *)

NoItem == [key |-> Empty, count |-> 0, error |-> 0]
Item(key, count, error) == [key |-> key, count |-> count, error |-> error]
Used(s) == 1..s.used

\* The items that hold a key, and those with the least count.
HoldersOf(s, key) == { i \in Used(s) : s.items[i].key = key }
Least(s) == { i \in Used(s) : \A j \in Used(s) : s.items[i].count <= s.items[j].count }
First(S) == CHOOSE i \in S : \A j \in S : i <= j

\* Mutants of Evict: the new key starts anew; the last item is replaced.
EvictAnew(s, key) == [s EXCEPT !.items[First(Least(s))] = Item(key, 1, 0)]
EvictLast(s, key) == [s EXCEPT !.items[K] = Item(key, @.count + 1, @.count)]

\* The least item makes room and hands its count down.
Evict(s, key) ==
    LET old == s.items[First(Least(s))].count
    IN  [used |-> s.used,
         items |-> [s.items EXCEPT ![First(Least(s))] = Item(key, old + 1, old)]]

Hit(s, key) ==
    LET i == First(HoldersOf(s, key))
    IN  [used |-> s.used,
         items |-> [s.items EXCEPT ![i] = Item(key, s.items[i].count + 1, s.items[i].error)]]

Fresh(s, key) ==
    [used |-> s.used + 1, items |-> [s.items EXCEPT ![s.used + 1] = Item(key, 1, 0)]]

ss_update(s, key) ==
    CASE HoldersOf(s, key) # {}                  -> Hit(s, key)
      [] HoldersOf(s, key) = {} /\ s.used < K    -> Fresh(s, key)
      [] OTHER                                   -> Evict(s, key)

\* What is printed of an item: count and error, from below and from above.
lower_bound(item) == IF item.count > item.error THEN item.count - item.error ELSE 0
upper_bound(item) == item.count

-----------------------------------------------------------------------------
(* The tables of the report: keys of the candidates, items of a summary.     *)

top_from_cms(table, list) ==
    Shown(Listed(list), [k \in Listed(list) |-> cms_estimate(table, k)],
          [k \in Listed(list) |-> KeyOrder[k]], TopItems)

top_of_summary(s) ==
    Shown(Used(s), [i \in Used(s) |-> s.items[i].count],
          [i \in Used(s) |-> KeyOrder[s.items[i].key]], TopItems)

-----------------------------------------------------------------------------
telemetry_init ==
    /\ freq = [f \in InCms |-> [r \in Rows |-> [c \in Columns |-> 0]]]
    /\ unique = [f \in InHll |-> [g \in Registers |-> 0]]
    /\ candidates = [f \in InCms |-> <<>>]
    /\ ss = [f \in InSpaceSaving |-> [used |-> 0, items |-> [i \in 1..K |-> NoItem]]]
    /\ truth = [f \in Fields |-> [k \in Keys |-> 0]]
    /\ updates = 0

\* A field that is empty changes nothing.
telemetry_update(ev) ==
    LET given == { f \in Fields : ev[f] # Empty } IN
    /\ updates < MaxUpdates /\ updates' = updates + 1
    /\ freq' = [f \in InCms |-> IF f \in given THEN cms_add(freq[f], ev[f]) ELSE freq[f]]
    /\ unique' = [f \in InHll |-> IF f \in given THEN hll_add(unique[f], ev[f]) ELSE unique[f]]
    /\ candidates' =
          [f \in InCms |-> IF f \in given THEN candidates_add_unique(candidates[f], ev[f])
                                          ELSE candidates[f]]
    /\ ss' = [f \in InSpaceSaving |-> IF f \in given THEN ss_update(ss[f], ev[f]) ELSE ss[f]]
    /\ truth' = [f \in Fields |-> IF f \in given THEN [truth[f] EXCEPT ![ev[f]] = @ + 1]
                                                 ELSE truth[f]]

Next == \E ev \in Events : telemetry_update(ev)

Spec == telemetry_init /\ [][Next]_vars
=============================================================================
