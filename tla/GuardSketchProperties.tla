----------------------- MODULE GuardSketchProperties -----------------------
(***************************************************************************)
(* The GuardSketch table against the events it was given, and its          *)
(* estimates and rankings against the exact counters it keeps beside them. *)
(***************************************************************************)
EXTENDS GuardSketch

\* The values the variables take; no cell is above UINT32_MAX.
SketchTypeOK ==
    /\ slots \in [Slots -> [used : BOOLEAN, pid : Nat, exact : [Signals -> Nat],
                            cms : [Rows -> [Columns -> 0..CellMax]]]]
    /\ \A i \in Slots : slots[i].used => slots[i].pid \in Pids
    /\ pid_bloom \subseteq UNION { PidBits[p] : p \in Pids }
    /\ window_events \in 0..window_limit
    /\ dropped_events \in Nat /\ calls \in 0..MaxCalls

\* A pid has one slot, however often it was seen and whatever slots were taken
\* between its events (guardsketch.c:111-134).
OneSlotPerPid ==
    \A i, j \in Slots :
        slots[i].used /\ slots[j].used /\ slots[i].pid = slots[j].pid => i = j

\* "no deberia producir falsos negativos para PIDs insertados"
\* (docs/GUARDSKETCH.md:84): all the bits of a pid with a slot are set.
BloomKnowsItsPids ==
    \A i \in Slots : slots[i].used => PidBits[slots[i].pid] \subseteq pid_bloom

\* Some row still tells how often the signal was counted.
Unsaturated(slot, signal) == \E c \in Cells(slot, signal) : c < CellMax

\* A sketch overestimates or is exact, whatever collides, as long as its cells
\* are not saturated; so does the risk it gives.
NeverUnderestimates ==
    \A i \in Slots :
        LET slot == slots[i] IN
        slot.used /\ (\A s \in Signals : Unsaturated(slot, s)) =>
            /\ \A s \in Signals : CmsEstimate(slot, s) >= slot.exact[s]
            /\ ApproxRisk(slot) >= ExactRisk(slot)

\* The ranking lists each pid of the table once, by risk and then by pid, and
\* leaves out only pids that rank lower.
Ranked(approx) ==
    LET risk == Risks(approx)
        UsedSlots == { i \in Slots : slots[i].used }
        Before(i, j) == risk[i] > risk[j] \/ (risk[i] = risk[j] /\ slots[i].pid < slots[j].pid)
    IN  \A count \in 0..MaxPids :
            LET top == guardSketchTopPids(count, approx)
            IN  /\ Len(top) = IF count < Cardinality(UsedSlots) THEN count
                                                          ELSE Cardinality(UsedSlots)
                /\ \A k \in DOMAIN top : \E i \in UsedSlots :
                      /\ slots[i].pid = top[k]
                      /\ k - 1 = Cardinality({ j \in UsedSlots : Before(j, i) })
RankingIsByRisk == Ranked(TRUE) /\ Ranked(FALSE)

\* The table counts what its abstract specification counts.
CountOf(p) == IF \E i \in Slots : Holds(i, p)
                THEN slots[CHOOSE i \in Slots : Holds(i, p)].exact[EVENT] ELSE 0
Table == INSTANCE GuardWindow WITH
    Limit <- window_limit, count <- [p \in Pids |-> CountOf(p)],
    accepted <- window_events, dropped <- dropped_events
CountsAWindow == Table!WindowSpec
=============================================================================
