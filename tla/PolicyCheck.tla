---------------------------- MODULE PolicyCheck ----------------------------
(***************************************************************************)
(* agfast check-file / check-ip / check-domain: run_check_command of       *)
(* commands.c with the Cuckoo filter of sketches.c.  The exact list of the *)
(* policy is loaded into the filter one insertion at a time and one        *)
(* eviction ("kick") at a time; then the value is looked up and, with      *)
(* --delete-test, deleted and looked up again.                             *)
(***************************************************************************)
EXTENDS Policy, FiniteSets

CONSTANTS
    Values,        \* the non-empty values that may be checked
    Buckets, Slots,
    Fingerprints,  \* the non-zero 16-bit fingerprints
    Fingerprint,   \* value -> its fingerprint
    Index1,        \* value -> its first bucket
    Alt,           \* fingerprint -> bucket -> the other bucket of the pair
    KickSlot,      \* fingerprint -> kick number -> the slot whose content is evicted
    StartsAtFirst, \* value -> whether its first eviction is from its first bucket
    MaxKicks

Empty == 0

ListedValues == UNION { exact[a] : a \in DOMAIN PolicyFile }

\* The arrays of a policy.json that are checked, and the values of its lists.
ASSUME ListAssumption ==
    /\ {"sensitive_files", "blocked_ips", "blocked_domains"} \subseteq DOMAIN PolicyFile
    /\ \A a \in DOMAIN PolicyFile : DOMAIN PolicyFile[a] \subseteq Nat \ {0}
    /\ ListedValues \subseteq Values
    /\ "" \notin Values

\* Alt is an exclusive or with a hash of the fingerprint, and the number of
\* buckets a power of two: it is its own inverse.
ASSUME CuckooAssumption ==
    /\ MaxKicks \in Nat
    /\ Empty \notin Fingerprints
    /\ Fingerprint \in [Values -> Fingerprints]
    /\ Index1 \in [Values -> Buckets]
    /\ Alt \in [Fingerprints -> [Buckets -> Buckets]]
    /\ \A fp \in Fingerprints, b \in Buckets : Alt[fp][Alt[fp][b]] = b
    /\ KickSlot \in [Fingerprints -> [0..MaxKicks -> Slots]]
    /\ StartsAtFirst \in [Values -> BOOLEAN]

VARIABLES
    kind,        \* "file", "ip" or "domain"
    value,       \* the value checked
    delete_test, \* --delete-test
    buckets, count,       \* cuckoo_filter_t
    next,        \* cuckoo_load_from_list has reached this position of the list
    pc,          \* "load", "kick", "lookup" or "done"
    hand, idx, kick,      \* fp, idx and kick of the loop of cuckoo_insert
    dropped,     \* history: some insertion returned false after its last kick
    outcome      \* what the report says, and the exit code

args  == <<kind, value, delete_test>>
loop  == <<hand, idx, kick>>
vars  == <<args, buckets, count, next, pc, loop, dropped, outcome>>

list_name == CASE kind = "file"   -> "sensitive_files"
               [] kind = "ip"     -> "blocked_ips"
               [] kind = "domain" -> "blocked_domains"

\* The string_list_t of an array: its items, by the position of their token.
ListOf(array) ==
    [ i \in { j \in DOMAIN PolicyFile[array] :
              /\ PolicyFile[array][j] \in exact[array]
              /\ \A k \in 1..j : PolicyFile[array][k] # BadToken }
      |-> PolicyFile[array][i] ]

list == ListOf(list_name)

NoOutcome == [bloom |-> FALSE, pattern |-> FALSE, matched |-> FALSE,
              possible |-> FALSE, after_delete |-> FALSE, code |-> 0]

-----------------------------------------------------------------------------
index2(v) == Alt[Fingerprint[v]][Index1[v]]
Pair(v)   == {Index1[v], index2(v)}

bucket_contains(b, fp) == \E s \in Slots : buckets[b][s] = fp
cuckoo_contains(v)     == \E b \in Pair(v) : bucket_contains(b, Fingerprint[v])

\* The loops over a bucket stop at the first slot with the fingerprint.
IsFirst(cells, b, fp, s) ==
    cells[b][s] = fp /\ \A t \in Slots : cells[b][t] = fp => s <= t

bucket_insert(b, fp) ==
    \E s \in Slots :
        /\ IsFirst(buckets, b, Empty, s)
        /\ buckets' = [buckets EXCEPT ![b][s] = fp]
        /\ count' = count + 1

-----------------------------------------------------------------------------
Init ==
    /\ kind \in {"file", "ip", "domain"}
    /\ value \in Values
    /\ delete_test \in BOOLEAN
    /\ buckets = [b \in Buckets |-> [s \in Slots |-> Empty]]
    /\ count = 0
    /\ next = 1
    /\ pc = "load"
    /\ hand = Empty
    /\ idx = Index1[value]
    /\ kick = 0
    /\ dropped = FALSE
    /\ outcome = NoOutcome

IsNext(i) == i >= next /\ \A j \in DOMAIN list : j >= next => i <= j

\* cuckoo_insert of the next item finds room in one of its two buckets.
InsertDirectly(i) ==
    /\ pc = "load" /\ IsNext(i)
    /\ \/ bucket_insert(Index1[list[i]], Fingerprint[list[i]])
       \/ /\ ~ bucket_contains(Index1[list[i]], Empty)
          /\ bucket_insert(index2(list[i]), Fingerprint[list[i]])
    /\ next' = i + 1
    /\ UNCHANGED <<args, pc, loop, dropped, outcome>>

\* Both buckets are full: the evictions begin at one of them.
StartKicking(i) ==
    /\ pc = "load" /\ IsNext(i)
    /\ \A b \in Pair(list[i]) : ~ bucket_contains(b, Empty)
    /\ hand' = Fingerprint[list[i]]
    /\ idx' = IF StartsAtFirst[list[i]] THEN Index1[list[i]] ELSE index2(list[i])
    /\ kick' = 0
    /\ next' = i + 1
    /\ pc' = "kick"
    /\ UNCHANGED <<args, buckets, count, dropped, outcome>>

MayKick == kick < MaxKicks

\* Mutant of Home: the other bucket of the fingerprint that was put in.
HomeOfHand(old) == Alt[hand][idx]
Home(old) == Alt[old][idx]

TakeOut(old) == hand' = old

Place(cells, b, old) ==
    \E s \in Slots :
        /\ IsFirst(cells, b, Empty, s)
        /\ buckets' = [cells EXCEPT ![b][s] = old]
        /\ count' = count + 1

\* One turn of the loop: swap the fingerprint in hand with the one of a slot,
\* and put that one in its other bucket if there is room.
Kick ==
    /\ pc = "kick" /\ MayKick
    /\ LET s       == KickSlot[hand][kick]
           old     == buckets[idx][s]
           swapped == [buckets EXCEPT ![idx][s] = hand]
       IN  \/ /\ Place(swapped, Home(old), old)
              /\ pc' = "load"
              /\ UNCHANGED loop
           \/ /\ \A t \in Slots : swapped[Home(old)][t] # Empty
              /\ buckets' = swapped
              /\ TakeOut(old)
              /\ idx' = Home(old)
              /\ kick' = kick + 1
              /\ UNCHANGED <<count, pc>>
    /\ UNCHANGED <<args, next, dropped, outcome>>

\* After the last kick cuckoo_insert returns false, which its caller ignores:
\* the fingerprint in hand is gone.
GiveUp ==
    /\ pc = "kick" /\ ~ MayKick
    /\ dropped' = TRUE
    /\ pc' = "load"
    /\ UNCHANGED <<args, buckets, count, next, loop, outcome>>

EndOfList ==
    /\ pc = "load" /\ \A i \in DOMAIN list : i < next
    /\ pc' = "lookup"
    /\ UNCHANGED <<args, buckets, count, next, loop, dropped, outcome>>

-----------------------------------------------------------------------------
\* policy_check_*_with_details: only files have patterns.
bloom_possible == bloom_might_contain(bloom[list_name], value)
pattern_match  == kind = "file" /\ list_matches_pattern(list_name, value)

\* Mutant of matched: the patterns are left out.
MatchedExactly == bloom_possible /\ value \in exact[list_name]
matched == (bloom_possible /\ value \in exact[list_name]) \/ pattern_match

Report(possible, after) ==
    outcome' = [bloom |-> bloom_possible, pattern |-> pattern_match, matched |-> matched,
                possible |-> possible, after_delete |-> after,
                code |-> IF matched THEN 0 ELSE 4]

Lookup ==
    /\ pc = "lookup"
    /\ ~ (delete_test /\ cuckoo_contains(value))
    /\ Report(cuckoo_contains(value), FALSE)
    /\ pc' = "done"
    /\ UNCHANGED <<args, buckets, count, next, loop, dropped>>

\* Mutant of cuckoo_delete: every copy in the first bucket is cleared.
DeleteAll ==
    /\ buckets' = [buckets EXCEPT ![Index1[value]] =
                     [s \in Slots |-> IF @[s] = Fingerprint[value] THEN Empty ELSE @[s]]]
    /\ count' = IF count > 0 THEN count - 1 ELSE count

\* cuckoo_delete clears one copy, and looks in the first bucket first.
cuckoo_delete ==
    LET fp == Fingerprint[value] IN
    /\ \E b \in Pair(value), s \in Slots :
         /\ bucket_contains(Index1[value], fp) => b = Index1[value]
         /\ IsFirst(buckets, b, fp, s)
         /\ buckets' = [buckets EXCEPT ![b][s] = Empty]
    /\ count' = IF count > 0 THEN count - 1 ELSE count

LookupAndDelete ==
    /\ pc = "lookup"
    /\ delete_test /\ cuckoo_contains(value)
    /\ UNCHANGED <<args, next, loop, dropped>>
    /\ cuckoo_delete
    /\ Report(TRUE, cuckoo_contains(value)')
    /\ pc' = "done"

Done == pc = "done" /\ UNCHANGED vars

Next == \/ \E i \in DOMAIN list : InsertDirectly(i) \/ StartKicking(i)
        \/ Kick \/ GiveUp \/ EndOfList
        \/ Lookup \/ LookupAndDelete \/ Done

Spec == Init /\ [][Next]_vars
=============================================================================
