------------------------- MODULE GuardSketchProofs -------------------------
(***************************************************************************)
(* For every table size, sketch, hash and window: the table has one slot   *)
(* per pid, its Bloom filter knows them, and a sketch that is not          *)
(* saturated never underestimates; the report ranks by risk.  Below its    *)
(* capacity it implements the exact window of GuardWindow.                 *)
(***************************************************************************)
EXTENDS GuardSketchProperties, WellFoundedInduction, FiniteSetTheorems, TLAPS

Cms == [Rows -> [Columns -> 0..CellMax]]
SlotSet == [used : BOOLEAN, pid : Nat, exact : [Signals -> Nat], cms : Cms]

\* A cell covers the count of each signal that falls into it, or is saturated.
Covered(slot) ==
    \A r \in Rows, s \in Signals :
        LET cell == slot.cms[r][Column[r][<<slot.pid, s>>]]
        IN  cell >= slot.exact[s] \/ cell = CellMax

SlotsCovered == \A i \in Slots : slots[i].used => Covered(slots[i])

\* The inductive invariant.  NeverUnderestimates alone says nothing of a row
\* that another row is less than, so it does not survive the next event.
GInv == SketchTypeOK /\ OneSlotPerPid /\ BloomKnowsItsPids /\ SlotsCovered

-----------------------------------------------------------------------------
LEMMA ColumnType ==
    ASSUME NEW r \in Rows, NEW pid \in Pids, NEW s \in Signals
    PROVE  Column[r][<<pid, s>>] \in Columns
BY SketchAssumption

\* CmsAdd keeps the type of a sketch, lowers no cell, and raises the cells of
\* its signal unless they are saturated.
LEMMA AddRaises ==
    ASSUME NEW cms \in Cms, NEW pid \in Pids, NEW signal \in Signals
    PROVE  /\ CmsAdd(cms, pid, signal) \in Cms
           /\ \A r \in Rows, c \in Columns :
                 /\ cms[r][c] \in 0..CellMax
                 /\ CmsAdd(cms, pid, signal)[r][c] >= cms[r][c]
                 /\ CmsAdd(cms, pid, signal)[r][c] \in 0..CellMax
           /\ \A r \in Rows, c \in Columns : c = Column[r][<<pid, signal>>] =>
                 \/ cms[r][c] = CellMax
                 \/ CmsAdd(cms, pid, signal)[r][c] = cms[r][c] + 1
<1> DEFINE after == CmsAdd(cms, pid, signal)
<1>1. CellMax \in Nat
  BY SketchAssumption
<1>2. \A r \in Rows, c \in Columns :
          after[r][c] = IF c = Column[r][<<pid, signal>>] /\ cms[r][c] # CellMax
                          THEN cms[r][c] + 1 ELSE cms[r][c]
  BY DEF CmsAdd, Cms
<1>3. \A r \in Rows, c \in Columns : cms[r][c] \in 0..CellMax
  BY DEF Cms
<1>4. \A r \in Rows, c \in Columns : after[r][c] \in 0..CellMax /\ after[r][c] >= cms[r][c]
  BY <1>1, <1>2, <1>3
<1>5. after \in Cms
  <2>1. after = [r \in Rows |-> [c \in Columns |-> after[r][c]]]
    BY DEF CmsAdd, Cms
  <2>. HIDE DEF after
  <2>. QED
    BY <1>4, <2>1 DEF Cms
<1>6. \A r \in Rows, c \in Columns : c = Column[r][<<pid, signal>>] =>
          cms[r][c] = CellMax \/ after[r][c] = cms[r][c] + 1
  BY <1>2
<1>. QED
  BY <1>3, <1>4, <1>5, <1>6

\* Counting an event keeps a slot covered, whichever signals collide.
LEMMA CountedIsCovered ==
    ASSUME NEW slot \in SlotSet, slot.used, slot.pid \in Pids, Covered(slot),
           NEW signal \in Signals
    PROVE  /\ Counted(slot, signal) \in SlotSet
           /\ Counted(slot, signal).used /\ Counted(slot, signal).pid = slot.pid
           /\ Covered(Counted(slot, signal))
<1> DEFINE pid == slot.pid
           once == CmsAdd(slot.cms, pid, EVENT)
           twice == CmsAdd(once, pid, signal)
           exact == [s \in Signals |-> slot.exact[s] + IF s \in {EVENT, signal} THEN 1 ELSE 0]
           after == Counted(slot, signal)
<1>1. EVENT \in Signals /\ Signals \subseteq Nat /\ CellMax \in Nat
  BY SketchAssumption DEF EVENT, Signals, NETWORK_AFTER_FILE
<1>2. slot.cms \in Cms /\ slot.exact \in [Signals -> Nat]
  BY DEF SlotSet
<1>3. after = [used |-> slot.used, pid |-> pid, exact |-> exact, cms |-> twice]
  BY DEF Counted
<1>4. /\ once \in Cms
      /\ \A r \in Rows, c \in Columns :
            /\ slot.cms[r][c] \in 0..CellMax
            /\ once[r][c] >= slot.cms[r][c]
            /\ once[r][c] \in 0..CellMax
      /\ \A r \in Rows, c \in Columns : c = Column[r][<<pid, EVENT>>] =>
            slot.cms[r][c] = CellMax \/ once[r][c] = slot.cms[r][c] + 1
  BY <1>1, <1>2, AddRaises
<1>5. twice \in Cms
  <2>. HIDE DEF once
  <2>. QED
    BY <1>4, AddRaises
<1>6. after \in SlotSet /\ after.used /\ after.pid = pid /\ after.exact = exact /\ after.cms = twice
  <2>1. exact \in [Signals -> Nat]
    BY <1>2
  <2>2. slot.used \in BOOLEAN /\ pid \in Nat
    BY DEF SlotSet
  <2>. HIDE DEF exact, twice, after, pid
  <2>. QED
    BY <1>3, <1>5, <2>1, <2>2 DEF SlotSet, pid
<1>7. ASSUME NEW r \in Rows, NEW s \in Signals
      PROVE  LET cell == twice[r][Column[r][<<pid, s>>]]
             IN  cell >= exact[s] \/ cell = CellMax
  <2> DEFINE c == Column[r][<<pid, s>>]
  <2>1. c \in Columns
    BY ColumnType
  <2>2. slot.cms[r][c] >= slot.exact[s] \/ slot.cms[r][c] = CellMax
    BY DEF Covered
  <2>3. slot.cms[r][c] \in 0..CellMax /\ once[r][c] >= slot.cms[r][c] /\ once[r][c] \in 0..CellMax
    <3>. HIDE DEF once
    <3>. QED
      BY <1>4, <2>1
  <2>4. s = EVENT => slot.cms[r][c] = CellMax \/ once[r][c] = slot.cms[r][c] + 1
    <3>. HIDE DEF once
    <3>. QED
      BY <1>4, <2>1
  <2>5. twice[r][c] >= once[r][c] /\ twice[r][c] \in 0..CellMax
    <3>. HIDE DEF once
    <3>. QED
      BY <1>4, <2>1, AddRaises
  <2>6. s = signal => once[r][c] = CellMax \/ twice[r][c] = once[r][c] + 1
    <3>. HIDE DEF once
    <3>. QED
      BY <1>4, <2>1, AddRaises
  <2>7. exact[s] = slot.exact[s] + (IF s \in {EVENT, signal} THEN 1 ELSE 0)
        /\ slot.exact[s] \in Nat
    BY <1>2
  <2>. HIDE DEF once, twice, exact, c
  <2>8. twice[r][c] >= exact[s] \/ twice[r][c] = CellMax
    BY <1>1, <2>2, <2>3, <2>4, <2>5, <2>6, <2>7
  <2>. QED
    BY <2>8 DEF c
<1>8. Covered(after)
  <2>. HIDE DEF after, twice, exact
  <2>. QED
    BY <1>6, <1>7 DEF Covered
<1>. QED
  BY <1>6, <1>8

LEMMA NewSlotIsCovered ==
    ASSUME NEW pid \in Pids
    PROVE  NewSlot(pid) \in SlotSet /\ NewSlot(pid).used /\ NewSlot(pid).pid = pid
           /\ Covered(NewSlot(pid))
<1>1. pid \in Nat /\ CellMax \in Nat
  BY PidsAssumption, SketchAssumption
<1>2. NewSlot(pid) = [used |-> TRUE, pid |-> pid, exact |-> [s \in Signals |-> 0],
                      cms |-> [r \in Rows |-> [c \in Columns |-> 0]]]
  BY DEF NewSlot, NoCounts, EmptyCms
<1>3. NewSlot(pid) \in SlotSet
  BY <1>1, <1>2 DEF SlotSet, Cms
<1>4. Covered(NewSlot(pid))
  <2>1. \A r \in Rows, s \in Signals : Column[r][<<pid, s>>] \in Columns
    BY ColumnType
  <2>. QED
    BY <1>2, <2>1 DEF Covered
<1>. QED
  BY <1>2, <1>3, <1>4

-----------------------------------------------------------------------------
LEMMA InitGInv == Init => GInv
<1> SUFFICES ASSUME Init PROVE GInv
  OBVIOUS
<1>1. CellMax \in Nat /\ MaxPids \in Nat /\ window_limit \in Nat /\ MaxCalls \in Nat
  BY SketchAssumption, MaxPidsAssumption, WindowAssumption DEF window_limit
<1>2. FreeSlot \in SlotSet /\ ~FreeSlot.used
  BY <1>1 DEF FreeSlot, NoCounts, EmptyCms, SlotSet, Cms
<1>3. slots \in [Slots -> SlotSet] /\ \A i \in Slots : ~slots[i].used
  BY <1>2 DEF Init
<1>4. SketchTypeOK
  BY <1>1, <1>3 DEF Init, SketchTypeOK, SlotSet, Cms
<1>. QED
  BY <1>3, <1>4 DEF GInv, OneSlotPerPid, BloomKnowsItsPids, SlotsCovered

\* What Accept does to the table: one slot is counted in, the others stay.
LEMMA AcceptKeepsGInv ==
    ASSUME GInv, NEW pid \in Pids, NEW signal \in Signals, Accept(pid, signal)
    PROVE  GInv'
<1>1. PICK i \in Slots :
          /\ IsSlotFor(i, pid)
          /\ slots' = [slots EXCEPT ![i] = Counted(IF slots[i].used THEN slots[i]
                                                   ELSE NewSlot(pid), signal)]
          /\ pid_bloom' = IF slots[i].used THEN pid_bloom ELSE BloomSet(pid_bloom, pid)
  BY DEF Accept
<1> DEFINE before == IF slots[i].used THEN slots[i] ELSE NewSlot(pid)
<1>2. slots \in [Slots -> SlotSet]
  BY DEF GInv, SketchTypeOK, SlotSet, Cms
<1>3. slots[i].used => slots[i].pid = pid
  BY <1>1 DEF IsSlotFor, Holds, Free
<1>4. before \in SlotSet /\ before.used /\ before.pid = pid /\ Covered(before)
  BY <1>2, <1>3, NewSlotIsCovered DEF GInv, SlotsCovered
<1>5. /\ slots'[i] \in SlotSet /\ slots'[i].used /\ slots'[i].pid = pid
      /\ Covered(slots'[i])
  <2>1. slots'[i] = Counted(before, signal)
    BY <1>1, <1>2
  <2>. HIDE DEF before
  <2>. QED
    BY <1>4, <2>1, CountedIsCovered
<1>6. \A j \in Slots : j # i => slots'[j] = slots[j]
  BY <1>1, <1>2
<1>7. slots' \in [Slots -> SlotSet]
  <2>1. \A j \in Slots : slots'[j] \in SlotSet
    BY <1>2, <1>5, <1>6
  <2>2. slots' = [j \in Slots |-> slots'[j]]
    BY <1>1, <1>2
  <2>. QED
    BY <2>1, <2>2
<1>8. \A j \in Slots : j # i /\ slots[j].used => slots[j].pid # pid
  BY <1>1 DEF IsSlotFor, Holds, Tracked, GInv, OneSlotPerPid
<1>9. pid_bloom \subseteq pid_bloom' /\ PidBits[pid] \subseteq pid_bloom'
      /\ pid_bloom' \subseteq pid_bloom \cup PidBits[pid]
  <2>1. slots[i].used => PidBits[pid] \subseteq pid_bloom
    BY <1>3 DEF GInv, BloomKnowsItsPids
  <2>. QED
    BY <1>1, <2>1 DEF BloomSet
<1>10. SketchTypeOK'
  <2>1. \A j \in Slots : slots'[j].used => slots'[j].pid \in Pids
    BY <1>5, <1>6 DEF GInv, SketchTypeOK
  <2>2. pid_bloom' \subseteq UNION { PidBits[p] : p \in Pids }
    BY <1>9 DEF GInv, SketchTypeOK
  <2>3. window_limit \in Nat /\ MaxCalls \in Nat
    BY WindowAssumption DEF window_limit
  <2>4. window_events' \in 0..window_limit
    BY <2>3 DEF Accept, WindowOver, GInv, SketchTypeOK
  <2>5. dropped_events' \in Nat /\ calls' \in 0..MaxCalls
    BY <2>3 DEF Accept, Call, GInv, SketchTypeOK
  <2>. QED
    BY <1>7, <2>1, <2>2, <2>4, <2>5 DEF SketchTypeOK, SlotSet, Cms
<1>11. OneSlotPerPid'
  BY <1>5, <1>6, <1>8 DEF GInv, OneSlotPerPid
<1>12. BloomKnowsItsPids'
  BY <1>5, <1>6, <1>9 DEF GInv, BloomKnowsItsPids
<1>13. SlotsCovered'
  <2>1. \A j \in Slots : slots'[j].used => Covered(slots'[j])
    BY <1>5, <1>6 DEF GInv, SlotsCovered
  <2>. QED
    BY <2>1 DEF SlotsCovered, Covered
<1>. QED
  BY <1>10, <1>11, <1>12, <1>13 DEF GInv

LEMMA StepGInv == GInv /\ [Next]_vars => GInv'
<1> SUFFICES ASSUME GInv, [Next]_vars PROVE GInv'
  OBVIOUS
<1>1. ASSUME NEW pid \in Pids, NEW signal \in Signals, Accept(pid, signal) PROVE GInv'
  BY <1>1, AcceptKeepsGInv
<1>2. ASSUME NEW pid \in Pids, Drop(pid) PROVE GInv'
  <2>1. MaxCalls \in Nat
    BY WindowAssumption
  <2>. QED
    BY <1>2, <2>1 DEF Drop, Call, GInv, SketchTypeOK, OneSlotPerPid, BloomKnowsItsPids,
                      SlotsCovered, Covered
<1>3. CASE UNCHANGED vars
  BY <1>3 DEF vars, GInv, SketchTypeOK, OneSlotPerPid, BloomKnowsItsPids, SlotsCovered, Covered
<1>. QED
  BY <1>1, <1>2, <1>3 DEF Next, guardSketchRecord

\* Every reachable table has the inductive invariant.
THEOREM SketchInvariant == Spec => []GInv
<1>1. Init => GInv
  BY InitGInv
<1>2. GInv /\ [Next]_vars => GInv'
  BY StepGInv
<1>. QED
  BY <1>1, <1>2, PTL DEF Spec

\* For every table size and window each variable keeps its type, and no cell of a
\* sketch overflows.
THEOREM SketchTypeCorrect == Spec => []SketchTypeOK
BY SketchInvariant, PTL DEF GInv

\* For every table size a pid never gets a second slot.
THEOREM PidHasOneSlot == Spec => []OneSlotPerPid
BY SketchInvariant, PTL DEF GInv

\* For every hash the Bloom filter has no false negative.
THEOREM BloomHasNoFalseNegatives == Spec => []BloomKnowsItsPids
BY SketchInvariant, PTL DEF GInv

-----------------------------------------------------------------------------
LEMMA MinimumExists ==
    ASSUME NEW S, S \subseteq Nat, S # {}
    PROVE  \E c \in S : \A d \in S : c <= d
<1>1. PICK c \in S : \A d \in S : ~(<<d, c>> \in OpToRel(<, Nat))
  BY NatLessThanWellFounded, WFMin
<1>2. \A d \in S : ~(d < c)
  BY <1>1 DEF OpToRel
<1>. QED
  BY <1>2

\* What the search for the least cell returns.
LEMMA EstimateIsLeast ==
    ASSUME NEW slot \in SlotSet, slot.pid \in Pids, NEW s \in Signals
    PROVE  /\ CmsEstimate(slot, s) \in Nat
           /\ Unsaturated(slot, s) => CmsEstimate(slot, s) \in Cells(slot, s) \ {CellMax}
<1> DEFINE S == Cells(slot, s)
           best == CHOOSE c \in S : \A d \in S : c <= d
<1>1. S \subseteq 0..CellMax /\ S # {} /\ CellMax \in Nat
  BY SketchAssumption, ColumnType DEF Cells, SlotSet, Cms
<1>2. best \in S /\ \A d \in S : best <= d
  <2>1. \E c \in S : \A d \in S : c <= d
    BY <1>1, MinimumExists
  <2>. HIDE DEF S
  <2>. QED
    BY <2>1
<1>3. CmsEstimate(slot, s) = IF best = CellMax THEN 0 ELSE best
  BY DEF CmsEstimate
<1>4. Unsaturated(slot, s) => \E c \in S : c < CellMax
  BY DEF Unsaturated
<1>. HIDE DEF S, best
<1>5. CmsEstimate(slot, s) \in Nat
  BY <1>1, <1>2, <1>3
<1>6. Unsaturated(slot, s) => CmsEstimate(slot, s) \in S \ {CellMax}
  BY <1>1, <1>2, <1>3, <1>4
<1>. QED
  BY <1>5, <1>6 DEF S

\* The score grows with each of its counters.
LEMMA RiskIsMonotonic ==
    ASSUME NEW e \in Nat, NEW s \in Nat, NEW b \in Nat, NEW n \in Nat,
           NEW e2 \in Nat, NEW s2 \in Nat, NEW b2 \in Nat, NEW n2 \in Nat,
           e <= e2, s <= s2, b <= b2, n <= n2
    PROVE  Risk(e, s, b, n) <= Risk(e2, s2, b2, n2)
BY DEF Risk, Capped

\* For every number of rows, every hash and every sequence of events, a sketch
\* with an unsaturated row for each signal estimates no counter, and so no risk,
\* below its exact value.
THEOREM SketchNeverUnderestimates == Spec => []NeverUnderestimates
<1>1. ASSUME GInv PROVE NeverUnderestimates
  <2> SUFFICES ASSUME NEW i \in Slots, slots[i].used,
                      \A s \in Signals : Unsaturated(slots[i], s)
               PROVE  /\ \A s \in Signals : CmsEstimate(slots[i], s) >= slots[i].exact[s]
                      /\ ApproxRisk(slots[i]) >= ExactRisk(slots[i])
    BY DEF NeverUnderestimates
  <2>1. slots[i] \in SlotSet /\ slots[i].pid \in Pids /\ Covered(slots[i])
    BY <1>1 DEF GInv, SketchTypeOK, SlotSet, Cms, SlotsCovered
  <2>2. \A s \in Signals : CmsEstimate(slots[i], s) \in Nat /\ slots[i].exact[s] \in Nat
    BY <2>1, EstimateIsLeast DEF SlotSet
  <2>3. ASSUME NEW s \in Signals
        PROVE  CmsEstimate(slots[i], s) >= slots[i].exact[s]
    <3>1. CmsEstimate(slots[i], s) \in Cells(slots[i], s) /\ CmsEstimate(slots[i], s) # CellMax
      BY <2>1, EstimateIsLeast
    <3>2. \A c \in Cells(slots[i], s) : c >= slots[i].exact[s] \/ c = CellMax
      BY <2>1 DEF Covered, Cells
    <3>. QED
      BY <3>1, <3>2
  <2>4. {EVENT, SENSITIVE_FILE, BLOCKED_DESTINATION, NETWORK_AFTER_FILE} \subseteq Signals
    BY DEF Signals, EVENT, SENSITIVE_FILE, BLOCKED_DESTINATION, NETWORK_AFTER_FILE
  <2>5. \A s \in Signals : slots[i].exact[s] <= CmsEstimate(slots[i], s)
    BY <2>2, <2>3
  <2>6. ExactRisk(slots[i]) <= ApproxRisk(slots[i])
    BY <2>2, <2>4, <2>5, RiskIsMonotonic DEF ExactRisk, ApproxRisk
  <2>7. ExactRisk(slots[i]) \in Nat /\ ApproxRisk(slots[i]) \in Nat
    BY <2>2, <2>4 DEF ExactRisk, ApproxRisk, Risk, Capped
  <2>. QED
    BY <2>3, <2>6, <2>7
<1>. QED
  BY <1>1, SketchInvariant, PTL
-----------------------------------------------------------------------------
(* The table implements a window of exact counters (GuardWindow). *)

\* A slot is used from its first event on.
UsedIsCounted == \A i \in Slots : slots[i].used => slots[i].exact[EVENT] > 0

\* The invariant the refinement rests on.
WInv == GInv /\ UsedIsCounted

UsedSlots == { i \in Slots : slots[i].used }

\* Accept raises the count of the one slot guardSketchFindSlot gives it.
LEMMA AcceptCountsInOneSlot ==
    ASSUME WInv, NEW pid \in Pids, NEW signal \in Signals, Accept(pid, signal)
    PROVE  \E i \in Slots :
              /\ IsSlotFor(i, pid)
              /\ slots'[i].used /\ slots'[i].pid = pid
              /\ slots'[i].exact[EVENT] = (IF slots[i].used THEN slots[i].exact[EVENT] ELSE 0) + 1
              /\ \A j \in Slots : j # i => slots'[j] = slots[j]
<1>0. PICK i \in Slots :
        /\ IsSlotFor(i, pid)
        /\ slots' = [slots EXCEPT ![i] = Counted(IF slots[i].used THEN slots[i]
                                                 ELSE NewSlot(pid), signal)]
  BY DEF Accept
<1>1. slots \in [Slots -> SlotSet] /\ EVENT \in Signals
  BY DEF WInv, GInv, SketchTypeOK, SlotSet, Cms, EVENT, Signals, NETWORK_AFTER_FILE
<1>2. slots[i].used => slots[i].pid = pid
  BY <1>0 DEF IsSlotFor, Holds, Free
<1>3. /\ NewSlot(pid).used /\ NewSlot(pid).pid = pid /\ NewSlot(pid).exact[EVENT] = 0
  BY <1>1 DEF NewSlot, NoCounts
<1> DEFINE before == IF slots[i].used THEN slots[i] ELSE NewSlot(pid)
<1>4. before.used /\ before.pid = pid
      /\ before.exact[EVENT] = IF slots[i].used THEN slots[i].exact[EVENT] ELSE 0
  BY <1>2, <1>3
<1>5. slots'[i] = Counted(before, signal)
  BY <1>0, <1>1
<1>6. \A j \in Slots : j # i => slots'[j] = slots[j]
  BY <1>0, <1>1
<1>. HIDE DEF before
<1>7. Counted(before, signal).used = before.used /\ Counted(before, signal).pid = before.pid
      /\ Counted(before, signal).exact[EVENT] = before.exact[EVENT] + 1
  BY <1>1 DEF Counted
<1>8. slots'[i].exact[EVENT] = (IF slots[i].used THEN slots[i].exact[EVENT] ELSE 0) + 1
  BY <1>4, <1>5, <1>7
<1>9. slots'[i].used /\ slots'[i].pid = pid
  BY <1>4, <1>5, <1>7
<1>. QED
  BY <1>0, <1>6, <1>8, <1>9

LEMMA StepWInv == WInv /\ [Next]_vars => WInv'
<1> SUFFICES ASSUME WInv, [Next]_vars PROVE WInv'
  OBVIOUS
<1>1. GInv'
  BY StepGInv DEF WInv
<1>2. ASSUME NEW pid \in Pids, NEW signal \in Signals, Accept(pid, signal)
      PROVE  UsedIsCounted'
  <2>2. PICK i \in Slots :
          /\ slots'[i].exact[EVENT] = (IF slots[i].used THEN slots[i].exact[EVENT] ELSE 0) + 1
          /\ \A j \in Slots : j # i => slots'[j] = slots[j]
    BY <1>2, AcceptCountsInOneSlot
  <2>3. slots[i].exact[EVENT] \in Nat
    <3>1. slots \in [Slots -> SlotSet] /\ EVENT \in Signals
      BY DEF WInv, GInv, SketchTypeOK, SlotSet, Cms, EVENT, Signals, NETWORK_AFTER_FILE
    <3>. QED
      BY <3>1 DEF SlotSet
  <2>4. slots'[i].exact[EVENT] > 0
    BY <2>2, <2>3
  <2>. QED
    BY <2>2, <2>4 DEF WInv, UsedIsCounted
<1>3. ASSUME NEW pid \in Pids, Drop(pid) PROVE UsedIsCounted'
  BY <1>3 DEF Drop, WInv, UsedIsCounted
<1>4. ASSUME UNCHANGED vars PROVE UsedIsCounted'
  BY <1>4 DEF vars, WInv, UsedIsCounted
<1>5. UsedIsCounted'
  BY <1>2, <1>3, <1>4 DEF Next, guardSketchRecord
<1>. QED
  BY <1>1, <1>5 DEF WInv

\* What the abstract counter of a pid is.
LEMMA CountOfSlot ==
    ASSUME OneSlotPerPid, NEW i \in Slots, NEW pid, Holds(i, pid)
    PROVE  CountOf(pid) = slots[i].exact[EVENT]
<1>1. \A j \in Slots : Holds(j, pid) => j = i
  BY DEF OneSlotPerPid, Holds
<1>2. (CHOOSE j \in Slots : Holds(j, pid)) = i
  BY <1>1
<1>. QED
  BY <1>2 DEF CountOf

LEMMA NoCountWithoutSlot ==
    ASSUME NEW pid, \A i \in Slots : ~Holds(i, pid)
    PROVE  CountOf(pid) = 0
BY DEF CountOf

\* The pids with a count are those of the table.
LEMMA KnownIsTracked ==
    ASSUME WInv PROVE Table!Known = Tracked
<1>1. OneSlotPerPid /\ UsedIsCounted /\ \A i \in Slots : slots[i].used => slots[i].pid \in Pids
  BY DEF WInv, GInv, SketchTypeOK
<1>2. ASSUME NEW p \in Pids PROVE CountOf(p) > 0 <=> \E i \in Slots : Holds(i, p)
  <2>1. CASE \E i \in Slots : Holds(i, p)
    <3>1. PICK i \in Slots : Holds(i, p)
      BY <2>1
    <3>2. CountOf(p) = slots[i].exact[EVENT]
      BY <1>1, <3>1, CountOfSlot
    <3>. QED
      BY <1>1, <3>1, <3>2 DEF UsedIsCounted, Holds
  <2>2. CASE \A i \in Slots : ~Holds(i, p)
    BY <2>2, NoCountWithoutSlot
  <2>. QED
    BY <2>1, <2>2
<1>3. \A p \in Pids : (\E i \in Slots : Holds(i, p)) <=> p \in Tracked
  BY DEF Holds, Tracked
<1>4. Tracked \subseteq Pids
  BY <1>1 DEF Tracked
<1>5. Table!Known = { p \in Pids : CountOf(p) > 0 }
  BY DEF Table!Known
<1>. QED
  BY <1>2, <1>3, <1>4, <1>5

\* A pid has as many entries in the abstract window as it has slots: the table
\* is full when all MaxPids slots are.
LEMMA TrackedSize ==
    ASSUME WInv
    PROVE  Cardinality(Tracked) < MaxPids <=> Free # {}
<1>1. IsFiniteSet(Slots) /\ Cardinality(Slots) = MaxPids /\ MaxPids \in Nat
  BY MaxPidsAssumption, FS_Interval DEF Slots
<1>2. UsedSlots \in SUBSET Slots
  BY DEF UsedSlots
<1>3. IsFiniteSet(UsedSlots) /\ Cardinality(UsedSlots) <= MaxPids
      /\ (MaxPids = Cardinality(UsedSlots) => Slots = UsedSlots)
  BY <1>1, <1>2, FS_Subset
<1>4. Cardinality(Tracked) = Cardinality(UsedSlots)
  <2> DEFINE f == [i \in UsedSlots |-> slots[i].pid]
  <2>1. \A i, j \in UsedSlots : slots[i].pid = slots[j].pid => i = j
    BY DEF UsedSlots, WInv, GInv, OneSlotPerPid
  <2>2. Tracked = { slots[i].pid : i \in UsedSlots }
    BY DEF Tracked, UsedSlots
  <2>3. f \in Bijection(UsedSlots, Tracked)
    BY <2>1, <2>2 DEF Bijection, Injection, Surjection, IsInjective
  <2>4. ExistsBijection(UsedSlots, Tracked)
    BY <2>3 DEF ExistsBijection
  <2>. QED
    BY <1>3, <2>4, FS_Bijection
<1>5. Cardinality(UsedSlots) \in Nat
  BY <1>3, FS_CardinalityType
<1>6. Free = {} <=> Slots = UsedSlots
  BY DEF Free, UsedSlots
<1>. QED
  BY <1>1, <1>3, <1>4, <1>5, <1>6

\* guardSketchFindSlot finds a slot exactly when the abstract window has room.
LEMMA SlotIsRoom ==
    ASSUME WInv, NEW pid \in Pids
    PROVE  (\E i \in Slots : IsSlotFor(i, pid))
             <=> pid \in Table!Known \/ Table!Cardinality(Table!Known) < MaxPids
<1>1. Free # {} => \E i \in Free : \A j \in Free : i <= j
  <2>1. Free \subseteq Nat
    BY MaxPidsAssumption DEF Free, Slots
  <2>. QED
    BY <2>1, MinimumExists
<1>2. pid \in Tracked <=> \E i \in Slots : Holds(i, pid)
  BY DEF Holds, Tracked
<1>3. (\E i \in Slots : IsSlotFor(i, pid)) <=> pid \in Tracked \/ Free # {}
  BY <1>1, <1>2 DEF IsSlotFor, Free
<1>4. Table!Cardinality(Table!Known) = Cardinality(Table!Known)
  BY DEF Table!Cardinality, Cardinality
<1>. QED
  BY <1>3, <1>4, KnownIsTracked, TrackedSize

\* Each call counts its event in the abstract window, or drops it there too.
LEMMA AcceptCounts ==
    ASSUME WInv, WInv', NEW pid \in Pids, NEW signal \in Signals, Accept(pid, signal)
    PROVE  Table!CountEvent(pid)
<1>1. PICK i \in Slots :
        /\ IsSlotFor(i, pid)
        /\ slots'[i].used /\ slots'[i].pid = pid
        /\ slots'[i].exact[EVENT] = (IF slots[i].used THEN slots[i].exact[EVENT] ELSE 0) + 1
        /\ \A j \in Slots : j # i => slots'[j] = slots[j]
  BY AcceptCountsInOneSlot
<1>2. /\ slots'[i].used /\ slots'[i].pid = pid
      /\ slots'[i].exact[EVENT] = (IF slots[i].used THEN slots[i].exact[EVENT] ELSE 0) + 1
      /\ \A j \in Slots : j # i => slots'[j] = slots[j]
  BY <1>1
<1>3. OneSlotPerPid /\ OneSlotPerPid'
  BY DEF WInv, GInv
<1>4. CountOf(pid)' = CountOf(pid) + 1
  <2>1. CountOf(pid)' = slots'[i].exact[EVENT]
    <3>1. \A j \in Slots : Holds(j, pid)' <=> j = i
      BY <1>2, <1>3 DEF OneSlotPerPid, Holds
    <3>2. (CHOOSE j \in Slots : Holds(j, pid)') = i
      BY <3>1
    <3>. QED
      BY <3>1, <3>2 DEF CountOf
  <2>2. CASE slots[i].used
    <3>1. Holds(i, pid)
      BY <1>1, <2>2 DEF IsSlotFor, Free
    <3>2. CountOf(pid) = slots[i].exact[EVENT]
      BY <1>3, <3>1, CountOfSlot
    <3>. QED
      BY <1>2, <2>1, <2>2, <3>2
  <2>3. CASE ~slots[i].used
    <3>1. \A j \in Slots : ~Holds(j, pid)
      BY <1>1, <2>3 DEF IsSlotFor, Holds, Tracked
    <3>2. CountOf(pid) = 0
      BY <3>1, NoCountWithoutSlot
    <3>. QED
      BY <1>2, <2>1, <2>3, <3>2
  <2>. QED
    BY <2>2, <2>3
<1>5. ASSUME NEW p \in Pids, p # pid PROVE CountOf(p)' = CountOf(p)
  <2>1. \A j \in Slots : Holds(j, p)' <=> Holds(j, p)
    <3>1. slots[i].used => slots[i].pid = pid
      BY <1>1 DEF IsSlotFor, Holds, Free
    <3>. QED
      BY <1>2, <1>5, <3>1 DEF Holds
  <2>2. CASE \E j \in Slots : Holds(j, p)
    <3>1. PICK j \in Slots : Holds(j, p)
      BY <2>2
    <3>2. CountOf(p) = slots[j].exact[EVENT]
      BY <1>3, <3>1, CountOfSlot
    <3>3. \A k \in Slots : Holds(k, p)' <=> k = j
      BY <1>3, <2>1, <3>1 DEF OneSlotPerPid, Holds
    <3>4. (CHOOSE k \in Slots : Holds(k, p)') = j
      BY <3>3
    <3>5. CountOf(p)' = slots'[j].exact[EVENT]
      BY <3>3, <3>4 DEF CountOf
    <3>6. j # i
      BY <1>2, <1>5, <2>1, <3>1 DEF Holds
    <3>. QED
      BY <1>2, <3>2, <3>5, <3>6
  <2>3. CASE \A j \in Slots : ~Holds(j, p)
    BY <2>1, <2>3 DEF CountOf
  <2>. QED
    BY <2>2, <2>3
<1>6. [p \in Pids |-> CountOf(p)]'
        = [[p \in Pids |-> CountOf(p)] EXCEPT ![pid] = @ + 1]
  BY <1>4, <1>5
<1>7. Table!HasRoom(pid)
  <2>1. window_events < window_limit
    <3>1. window_events \in Nat /\ window_limit \in Nat
      BY WindowAssumption DEF WInv, GInv, SketchTypeOK, window_limit
    <3>. QED
      BY <3>1 DEF Accept, WindowOver
  <2>. QED
    BY <1>1, <2>1, SlotIsRoom DEF Table!HasRoom
<1>. QED
  BY <1>6, <1>7 DEF Accept, Table!CountEvent

LEMMA DropDrops ==
    ASSUME WInv, NEW pid \in Pids, Drop(pid)
    PROVE  Table!DropEvent(pid)
<1>1. ~Table!HasRoom(pid)
  <2>1. window_events \in Nat /\ window_limit \in Nat
    BY WindowAssumption DEF WInv, GInv, SketchTypeOK, window_limit
  <2>2. WindowOver => ~(window_events < window_limit)
    BY <2>1 DEF WindowOver
  <2>. QED
    BY <2>2, SlotIsRoom DEF Drop, NoRoomFor, Table!HasRoom
<1>2. [p \in Pids |-> CountOf(p)]' = [p \in Pids |-> CountOf(p)]
  BY DEF Drop, CountOf, Holds
<1>. QED
  BY <1>1, <1>2 DEF Drop, Table!DropEvent

LEMMA InitWindow == Init => WInv /\ Table!WindowInit
<1> SUFFICES ASSUME Init PROVE WInv /\ Table!WindowInit
  OBVIOUS
<1>1. \A i \in Slots : ~slots[i].used
  BY DEF Init, FreeSlot
<1>2. \A p \in Pids : CountOf(p) = 0
  BY <1>1 DEF CountOf, Holds
<1>3. WInv
  BY <1>1, InitGInv DEF WInv, UsedIsCounted
<1>. QED
  BY <1>2, <1>3 DEF Init, Table!WindowInit

LEMMA StepWindow ==
    WInv /\ WInv' /\ [Next]_vars => [Table!WindowNext]_(Table!windowVars)
<1> SUFFICES ASSUME WInv, WInv', [Next]_vars
             PROVE  [Table!WindowNext]_(Table!windowVars)
  OBVIOUS
<1>1. ASSUME NEW pid \in Pids, NEW signal \in Signals, Accept(pid, signal)
      PROVE  Table!WindowNext
  BY <1>1, AcceptCounts DEF Table!WindowNext
<1>2. ASSUME NEW pid \in Pids, Drop(pid) PROVE Table!WindowNext
  BY <1>2, DropDrops DEF Table!WindowNext
<1>3. CASE UNCHANGED vars
  <2>1. [p \in Pids |-> CountOf(p)]' = [p \in Pids |-> CountOf(p)]
    BY <1>3 DEF vars, CountOf, Holds
  <2>. QED
    BY <1>3, <2>1 DEF vars, Table!windowVars
<1>. QED
  BY <1>1, <1>2, <1>3 DEF Next, guardSketchRecord

\* For every table size and window the table counts exactly the events its
\* abstract specification counts and drops the others: no event is counted for
\* another pid, or dropped while there is room.
THEOREM TableImplementsWindow == Spec => CountsAWindow
<1>1. Init => WInv /\ Table!WindowInit
  BY InitWindow
<1>2. WInv /\ [Next]_vars => WInv'
  BY StepWInv
<1>3. WInv /\ WInv' /\ [Next]_vars => [Table!WindowNext]_(Table!windowVars)
  BY StepWindow
<1>. QED
  BY <1>1, <1>2, <1>3, PTL DEF Spec, CountsAWindow, Table!WindowSpec

-----------------------------------------------------------------------------
(***************************************************************************)
(* The ranking.  Both loops are recursive functions, over a prefix of the  *)
(* slots and over the rounds; each has its value on every prefix because a *)
(* shortest prefix without one would extend the one before it.             *)
(***************************************************************************)
LEMMA FirstFailure ==
    ASSUME NEW N \in Nat, NEW F \in SUBSET (0..N), 0 \notin F, F # {}
    PROVE  \E n \in F : n \in 1..N /\ n - 1 \in 0..N /\ n - 1 \notin F
<1>1. PICK n \in F : \A m \in F : n <= m
  <2>1. F \subseteq Nat
    OBVIOUS
  <2> QED BY <2>1, MinimumExists
<1>2. n \in 1..N /\ n - 1 \in 0..N
  BY <1>1
<1>3. n - 1 \notin F
  <2> SUFFICES ASSUME n - 1 \in F PROVE FALSE
    OBVIOUS
  <2>1. n <= n - 1
    BY <1>1
  <2> QED BY <1>2, <2>1
<1> QED BY <1>2, <1>3

RankedSlots(risk) ==
    /\ \A i \in Slots : slots[i].pid \in Nat /\ slots[i].used \in BOOLEAN
    /\ \A i \in UsedSlots : risk[i] \in Int
    /\ OneSlotPerPid

LEMMA BeatsIsOrder ==
    ASSUME NEW risk, RankedSlots(risk)
    PROVE  /\ \A i, j \in UsedSlots : i # j => Beats(risk, i, j) \/ Beats(risk, j, i)
           /\ \A i, j \in UsedSlots : ~ (Beats(risk, i, j) /\ Beats(risk, j, i))
           /\ \A i, j, k \in UsedSlots : Beats(risk, i, j) /\ Beats(risk, j, k) => Beats(risk, i, k)
<1>1. \A i \in UsedSlots : i \in Slots /\ risk[i] \in Int /\ slots[i].pid \in Int
  BY DEF UsedSlots, RankedSlots
<1>2. \A i, j \in UsedSlots : slots[i].pid = slots[j].pid => i = j
  BY DEF UsedSlots, RankedSlots, OneSlotPerPid
<1> QED BY <1>1, <1>2 DEF Beats

\* The slots 1..n the inner loop may take, and the one it should.
Candidates(selected, n) == { i \in 1..n : slots[i].used /\ i \notin selected }

IsBest(risk, i, S) == i \in S /\ \A j \in S : j # i => Beats(risk, i, j)

Best(risk, selected, n, v) ==
    \/ v = 0 /\ Candidates(selected, n) = {}
    \/ IsBest(risk, v, Candidates(selected, n))

Inspect(risk, selected, n, v) ==
    IF ~slots[n].used \/ n \in selected THEN v
    ELSE IF v = 0 \/ Beats(risk, n, v) THEN n
    ELSE v

LEMMA InspectFindsBest ==
    ASSUME NEW risk, RankedSlots(risk), NEW selected, NEW n \in 1..MaxPids, NEW v,
           Best(risk, selected, n - 1, v)
    PROVE  Best(risk, selected, n, Inspect(risk, selected, n, v))
<1> DEFINE C == Candidates(selected, n - 1)
           D == Candidates(selected, n)
           w == Inspect(risk, selected, n, v)
<1>1. n \in Slots /\ MaxPids \in Nat /\ n \in Nat
  BY MaxPidsAssumption DEF Slots
<1>2. 1..n = (1..(n - 1)) \cup {n} /\ n \notin 1..(n - 1) /\ 0 \notin 1..(n - 1)
  BY <1>1
<1>3. D = C \cup (IF slots[n].used /\ n \notin selected THEN {n} ELSE {})
  BY <1>2 DEF Candidates
<1>4. 1..n \subseteq Slots
  BY <1>1, MaxPidsAssumption DEF Slots
<1>5. D \subseteq UsedSlots /\ 0 \notin C /\ n \notin C
  BY <1>2, <1>4 DEF Candidates, UsedSlots
<1>6. (v = 0 /\ C = {}) \/ IsBest(risk, v, C)
  BY DEF Best
<1>7. slots[n].used \in BOOLEAN
  BY <1>1 DEF RankedSlots
<1>8. CASE ~slots[n].used \/ n \in selected
  <2>1. w = v /\ D = C
    BY <1>3, <1>8 DEF Inspect
  <2> QED BY <1>6, <2>1 DEF Best
<1>9. CASE slots[n].used /\ n \notin selected
  <2>1. D = C \cup {n} /\ w = IF v = 0 \/ Beats(risk, n, v) THEN n ELSE v
    BY <1>3, <1>9 DEF Inspect
  <2>2. n \in UsedSlots
    BY <1>5, <2>1
  <2> HIDE DEF C, D, w
  <2>3. CASE v = 0
    <3>1. C = {}
      BY <1>5, <1>6, <2>3 DEF IsBest
    <3>2. IsBest(risk, w, D)
      BY <2>1, <2>3, <3>1 DEF IsBest
    <3> QED BY <3>2 DEF Best, D, w
  <2>4. CASE v # 0 /\ Beats(risk, n, v)
    <3>1. IsBest(risk, v, C) /\ v \in UsedSlots /\ w = n
      BY <1>5, <1>6, <2>1, <2>4 DEF IsBest
    <3>2. \A j \in D : j # n => Beats(risk, n, j)
      <4> SUFFICES ASSUME NEW j \in C PROVE Beats(risk, n, j)
        BY <2>1
      <4>1. j = v \/ Beats(risk, v, j)
        BY <3>1 DEF IsBest
      <4>2. j \in UsedSlots
        BY <1>5, <2>1
      <4> QED BY <2>2, <2>4, <3>1, <4>1, <4>2, BeatsIsOrder
    <3>3. IsBest(risk, w, D)
      BY <2>1, <3>1, <3>2 DEF IsBest
    <3> QED BY <3>3 DEF Best, D, w
  <2>5. CASE v # 0 /\ ~ Beats(risk, n, v)
    <3>1. IsBest(risk, v, C) /\ v \in UsedSlots /\ w = v /\ v # n
      BY <1>5, <1>6, <2>1, <2>5 DEF IsBest
    <3>2. Beats(risk, v, n)
      BY <2>2, <2>5, <3>1, BeatsIsOrder
    <3>3. IsBest(risk, w, D)
      BY <2>1, <3>1, <3>2 DEF IsBest
    <3> QED BY <3>3 DEF Best, D, w
  <2> QED BY <2>3, <2>4, <2>5
<1> QED BY <1>7, <1>8, <1>9

BestTable(f, risk, selected, N) ==
    f = [n \in 0..N |-> IF n = 0 THEN 0
                        ELSE IF ~slots[n].used \/ n \in selected THEN f[n - 1]
                        ELSE IF f[n - 1] = 0 \/ Beats(risk, n, f[n - 1]) THEN n
                        ELSE f[n - 1]]

LEMMA BestTableAt ==
    ASSUME NEW f, NEW risk, NEW selected, NEW N \in Nat, BestTable(f, risk, selected, N),
           NEW n \in 0..N
    PROVE  f[n] = IF n = 0 THEN 0 ELSE Inspect(risk, selected, n, f[n - 1])
BY DEF BestTable, Inspect

LEMMA BestTableExists ==
    ASSUME NEW risk, NEW selected, NEW N \in Nat
    PROVE  \E f : BestTable(f, risk, selected, N)
<1> DEFINE F == { n \in 0..N : ~ \E f : BestTable(f, risk, selected, n) }
<1> SUFFICES ASSUME F # {} PROVE FALSE
  OBVIOUS
<1>1. 0 \notin F
  <2>1. BestTable([n \in 0..0 |-> 0], risk, selected, 0)
    BY DEF BestTable
  <2> QED BY <2>1
<1>2. PICK n \in F : n \in 1..N /\ n - 1 \in 0..N /\ n - 1 \notin F
  <2>1. F \in SUBSET (0..N)
    OBVIOUS
  <2> HIDE DEF F
  <2> QED BY <1>1, <2>1, FirstFailure
<1>3. PICK f : BestTable(f, risk, selected, n - 1)
  BY <1>2
<1> DEFINE g == [m \in 0..n |-> IF m = n THEN Inspect(risk, selected, n, f[n - 1]) ELSE f[m]]
<1>4. \A m \in 0..n : m # n => m \in 0..(n - 1) /\ (m # 0 => m - 1 \in 0..n /\ m - 1 # n)
  BY <1>2
<1>5. n \in 0..n /\ n - 1 \in 0..n /\ n - 1 # n /\ n # 0 /\ n - 1 \in Nat
  BY <1>2
<1>6. g[n] = Inspect(risk, selected, n, f[n - 1]) /\ \A m \in 0..n : m # n => g[m] = f[m]
  BY <1>5
<1>7. \A m \in 0..n : g[m] = IF m = 0 THEN 0 ELSE Inspect(risk, selected, m, g[m - 1])
  <2> SUFFICES ASSUME NEW m \in 0..n
               PROVE  g[m] = IF m = 0 THEN 0 ELSE Inspect(risk, selected, m, g[m - 1])
    OBVIOUS
  <2> HIDE DEF g
  <2>1. CASE m = n
    BY <1>5, <1>6, <2>1
  <2>2. CASE m # n
    <3>1. m \in 0..(n - 1) /\ f[m] = g[m] /\ (m # 0 => f[m - 1] = g[m - 1])
      BY <1>4, <1>6, <2>2
    <3>2. f[m] = IF m = 0 THEN 0 ELSE Inspect(risk, selected, m, f[m - 1])
      BY <1>3, <1>5, <3>1, BestTableAt
    <3> QED BY <3>1, <3>2
  <2> QED BY <2>1, <2>2
<1>8. g = [m \in 0..n |-> g[m]]
  OBVIOUS
<1> HIDE DEF g
<1>9. g = [m \in 0..n |-> IF m = 0 THEN 0 ELSE Inspect(risk, selected, m, g[m - 1])]
  BY <1>7, <1>8
<1>10. BestTable(g, risk, selected, n)
  BY <1>9 DEF BestTable, Inspect
<1> QED BY <1>2, <1>10

\* The inner loop finds the best slot not yet selected, or none.
LEMMA BestOfIsBest ==
    ASSUME NEW risk, RankedSlots(risk), NEW selected
    PROVE  Best(risk, selected, MaxPids, BestOf(risk, selected))
<1>1. MaxPids \in Nat /\ MaxPids \in 0..MaxPids
  BY MaxPidsAssumption
<1>2. PICK f : BestTable(f, risk, selected, MaxPids) /\ BestOf(risk, selected) = f[MaxPids]
  <2>1. \E f : BestTable(f, risk, selected, MaxPids)
    BY <1>1, BestTableExists
  <2>2. BestOf(risk, selected) = (CHOOSE f : BestTable(f, risk, selected, MaxPids))[MaxPids]
    BY DEF BestOf, BestTable
  <2> QED BY <2>1, <2>2
<1> DEFINE F == { n \in 0..MaxPids : ~ Best(risk, selected, n, f[n]) }
<1>3. F = {}
  <2> SUFFICES ASSUME F # {} PROVE FALSE
    OBVIOUS
  <2>1. 0 \notin F
    <3>1. f[0] = 0
      BY <1>1, <1>2, BestTableAt
    <3>2. Candidates(selected, 0) = {}
      BY DEF Candidates
    <3> QED BY <3>1, <3>2 DEF Best
  <2>2. PICK n \in F : n \in 1..MaxPids /\ n - 1 \in 0..MaxPids /\ n - 1 \notin F
    <3>1. F \in SUBSET (0..MaxPids)
      OBVIOUS
    <3> HIDE DEF F
    <3> QED BY <1>1, <2>1, <3>1, FirstFailure
  <2>3. Best(risk, selected, n - 1, f[n - 1])
    BY <2>2
  <2>4. f[n] = Inspect(risk, selected, n, f[n - 1])
    BY <1>1, <1>2, <2>2, BestTableAt
  <2>5. Best(risk, selected, n, f[n])
    BY <2>2, <2>3, <2>4, InspectFindsBest
  <2> QED BY <2>2, <2>5
<1> QED BY <1>1, <1>2, <1>3

Selected(s) == { s[k] : k \in DOMAIN s }

Extend(risk, s) ==
    LET next == BestOf(risk, Selected(s))
    IN  IF next = 0 THEN s ELSE Append(s, next)

\* The slots after n rounds: each beats all that come later or not at all.
Top(risk, n, s) ==
    /\ s \in Seq(UsedSlots) /\ Len(s) <= n
    /\ \A k, m \in DOMAIN s : m < k => s[m] # s[k]
    /\ \A k \in DOMAIN s : \A i \in UsedSlots :
          (\A m \in 1..k : s[m] # i) => Beats(risk, s[k], i)
    /\ Len(s) = n \/ UsedSlots \subseteq Selected(s)

LEMMA ExtendKeepsTop ==
    ASSUME NEW risk, RankedSlots(risk), NEW n \in Nat, n # 0, NEW s, Top(risk, n - 1, s)
    PROVE  Top(risk, n, Extend(risk, s))
<1> DEFINE sel == Selected(s)
           next == BestOf(risk, sel)
<1>1. /\ s \in Seq(UsedSlots) /\ Len(s) \in Nat /\ DOMAIN s = 1..Len(s) /\ Len(s) <= n - 1
      /\ Len(s) = n - 1 \/ UsedSlots \subseteq sel
  BY DEF Top
<1>2. Candidates(sel, MaxPids) = UsedSlots \ sel
  BY DEF Candidates, UsedSlots, Slots
<1>3. Best(risk, sel, MaxPids, next)
  BY BestOfIsBest
<1>4. CASE next = 0
  <2>1. Extend(risk, s) = s
    BY <1>4 DEF Extend
  <2>2. 0 \notin UsedSlots
    BY DEF UsedSlots, Slots
  <2>3. UsedSlots \subseteq sel
    BY <1>2, <1>3, <1>4, <2>2 DEF Best, IsBest
  <2>4. Len(s) <= n
    BY <1>1
  <2>5. Top(risk, n, s)
    <3> HIDE DEF next
    <3> QED BY <2>3, <2>4 DEF Top
  <2> QED BY <2>1, <2>5
<1>5. CASE next # 0
  <2> HIDE DEF next
  <2>1. /\ next \in UsedSlots /\ next \notin sel
        /\ \A i \in UsedSlots : i # next /\ i \notin sel => Beats(risk, next, i)
    BY <1>2, <1>3, <1>5 DEF Best, IsBest
  <2>2. Len(s) = n - 1
    BY <1>1, <2>1
  <2> DEFINE t == Append(s, next)
  <2>3. Extend(risk, s) = t
    BY <1>5 DEF Extend, next
  <2>4. /\ t \in Seq(UsedSlots) /\ Len(t) = n /\ DOMAIN t = 1..n /\ t[n] = next
        /\ \A k \in 1..Len(s) : t[k] = s[k]
    BY <1>1, <2>1, <2>2
  <2>5. \A k \in 1..n : k = n \/ k \in 1..Len(s)
    BY <2>2
  <2> HIDE DEF t
  <2>6. \A k \in 1..Len(s) : s[k] # next
    BY <1>1, <2>1 DEF Selected
  <2>7. \A k, m \in DOMAIN t : m < k => t[m] # t[k]
    <3> SUFFICES ASSUME NEW k \in 1..n, NEW m \in 1..n, m < k PROVE t[m] # t[k]
      BY <2>4
    <3>1. m \in 1..Len(s)
      BY <2>2
    <3>2. CASE k = n
      BY <2>4, <2>6, <3>1, <3>2
    <3>3. CASE k \in 1..Len(s)
      BY <1>1, <2>4, <3>1, <3>3 DEF Top
    <3> QED BY <2>5, <3>2, <3>3
  <2>8. ASSUME NEW k \in DOMAIN t, NEW i \in UsedSlots, \A m \in 1..k : t[m] # i
        PROVE  Beats(risk, t[k], i)
    <3>1. CASE k = n
      <4>1. i # next /\ \A m \in 1..Len(s) : s[m] # i
        <5>1. n \in 1..n /\ \A m \in 1..Len(s) : m \in 1..n
          BY <2>2
        <5> QED BY <2>4, <2>8, <3>1, <5>1
      <4>2. i \notin sel
        BY <1>1, <4>1 DEF Selected
      <4> QED BY <2>1, <2>4, <3>1, <4>1, <4>2
    <3>2. CASE k \in 1..Len(s)
      <4>1. \A m \in 1..k : m \in 1..Len(s)
        BY <1>1, <3>2
      <4>2. \A m \in 1..k : s[m] # i
        BY <2>4, <2>8, <4>1
      <4> QED BY <1>1, <2>4, <3>2, <4>2 DEF Top
    <3> QED BY <2>4, <2>5, <3>1, <3>2
  <2> QED BY <2>3, <2>4, <2>7, <2>8 DEF Top
<1> QED BY <1>4, <1>5

TopTable(f, risk, N) ==
    f = [n \in 0..N |-> IF n = 0 THEN <<>>
                        ELSE LET selected == { f[n - 1][k] : k \in DOMAIN f[n - 1] }
                                 next == BestOf(risk, selected)
                             IN  IF next = 0 THEN f[n - 1] ELSE Append(f[n - 1], next)]

LEMMA TopTableAt ==
    ASSUME NEW f, NEW risk, NEW N \in Nat, TopTable(f, risk, N), NEW n \in 0..N
    PROVE  f[n] = IF n = 0 THEN <<>> ELSE Extend(risk, f[n - 1])
BY DEF TopTable, Extend, Selected

LEMMA TopTableExists ==
    ASSUME NEW risk, NEW N \in Nat
    PROVE  \E f : TopTable(f, risk, N)
<1> DEFINE F == { n \in 0..N : ~ \E f : TopTable(f, risk, n) }
<1> SUFFICES ASSUME F # {} PROVE FALSE
  OBVIOUS
<1>1. 0 \notin F
  <2>1. TopTable([n \in 0..0 |-> <<>>], risk, 0)
    BY DEF TopTable
  <2> QED BY <2>1
<1>2. PICK n \in F : n \in 1..N /\ n - 1 \in 0..N /\ n - 1 \notin F
  <2>1. F \in SUBSET (0..N)
    OBVIOUS
  <2> HIDE DEF F
  <2> QED BY <1>1, <2>1, FirstFailure
<1>3. PICK f : TopTable(f, risk, n - 1)
  BY <1>2
<1> DEFINE g == [m \in 0..n |-> IF m = n THEN Extend(risk, f[n - 1]) ELSE f[m]]
<1>4. \A m \in 0..n : m # n => m \in 0..(n - 1) /\ (m # 0 => m - 1 \in 0..n /\ m - 1 # n)
  BY <1>2
<1>5. n \in 0..n /\ n - 1 \in 0..n /\ n - 1 # n /\ n # 0 /\ n - 1 \in Nat
  BY <1>2
<1>6. g[n] = Extend(risk, f[n - 1]) /\ \A m \in 0..n : m # n => g[m] = f[m]
  BY <1>5
<1>7. \A m \in 0..n : g[m] = IF m = 0 THEN <<>> ELSE Extend(risk, g[m - 1])
  <2> SUFFICES ASSUME NEW m \in 0..n
               PROVE  g[m] = IF m = 0 THEN <<>> ELSE Extend(risk, g[m - 1])
    OBVIOUS
  <2> HIDE DEF g
  <2>1. CASE m = n
    BY <1>5, <1>6, <2>1
  <2>2. CASE m # n
    <3>1. m \in 0..(n - 1) /\ f[m] = g[m] /\ (m # 0 => f[m - 1] = g[m - 1])
      BY <1>4, <1>6, <2>2
    <3>2. f[m] = IF m = 0 THEN <<>> ELSE Extend(risk, f[m - 1])
      BY <1>3, <1>5, <3>1, TopTableAt
    <3> QED BY <3>1, <3>2
  <2> QED BY <2>1, <2>2
<1>8. g = [m \in 0..n |-> g[m]]
  OBVIOUS
<1> HIDE DEF g
<1>9. g = [m \in 0..n |-> IF m = 0 THEN <<>> ELSE Extend(risk, g[m - 1])]
  BY <1>7, <1>8
<1>10. TopTable(g, risk, n)
  BY <1>9 DEF TopTable, Extend, Selected
<1> QED BY <1>2, <1>10

LEMMA TopSlotsAreTop ==
    ASSUME NEW risk, RankedSlots(risk), NEW count \in Nat
    PROVE  Top(risk, count, TopSlots(risk, count))
<1>1. PICK f : TopTable(f, risk, count) /\ TopSlots(risk, count) = f[count]
  <2>1. \E f : TopTable(f, risk, count)
    BY TopTableExists
  <2>2. TopSlots(risk, count) = (CHOOSE f : TopTable(f, risk, count))[count]
    BY DEF TopSlots, TopTable
  <2> QED BY <2>1, <2>2
<1> DEFINE F == { n \in 0..count : ~ Top(risk, n, f[n]) }
<1>2. F = {}
  <2> SUFFICES ASSUME F # {} PROVE FALSE
    OBVIOUS
  <2>1. 0 \notin F
    <3>1. f[0] = <<>>
      BY <1>1, TopTableAt
    <3>2. Top(risk, 0, <<>>)
      BY DEF Top
    <3> QED BY <3>1, <3>2
  <2>2. PICK n \in F : n \in 1..count /\ n - 1 \in 0..count /\ n - 1 \notin F
    <3>1. F \in SUBSET (0..count)
      OBVIOUS
    <3> HIDE DEF F
    <3> QED BY <2>1, <3>1, FirstFailure
  <2>3. Top(risk, n - 1, f[n - 1])
    BY <2>2
  <2>4. f[n] = Extend(risk, f[n - 1])
    BY <1>1, <2>2, TopTableAt
  <2>5. Top(risk, n, f[n])
    BY <2>2, <2>3, <2>4, ExtendKeepsTop
  <2> QED BY <2>2, <2>5
<1> QED BY <1>1, <1>2

\* A sequence without repetition has as many elements as places.
LEMMA PlacesAreCounted ==
    ASSUME NEW s, NEW n \in Nat, n <= Len(s), Len(s) \in Nat, DOMAIN s = 1..Len(s),
           \A k, m \in DOMAIN s : m < k => s[m] # s[k]
    PROVE  /\ IsFiniteSet({ s[k] : k \in 1..n })
           /\ Cardinality({ s[k] : k \in 1..n }) = n
<1> DEFINE T == { s[k] : k \in 1..n }
           f == [k \in 1..n |-> s[k]]
<1>1. \A k \in 1..n : k \in DOMAIN s
  OBVIOUS
<1>2. \A k, m \in 1..n : k # m => s[k] # s[m]
  <2> SUFFICES ASSUME NEW k \in 1..n, NEW m \in 1..n, k # m PROVE s[k] # s[m]
    OBVIOUS
  <2>1. k < m \/ m < k
    OBVIOUS
  <2> QED BY <1>1, <2>1
<1>3. f \in Bijection(1..n, T)
  BY <1>2 DEF Bijection, Injection, Surjection, IsInjective
<1>4. ExistsBijection(1..n, T)
  BY <1>3 DEF ExistsBijection
<1> QED BY <1>4, FS_NatBijection, FS_CountingElements

RankedBy(risk, count, top) ==
    LET Above(i, j) == risk[i] > risk[j] \/ (risk[i] = risk[j] /\ slots[i].pid < slots[j].pid)
    IN  /\ Len(top) = IF count < Cardinality(UsedSlots) THEN count ELSE Cardinality(UsedSlots)
        /\ \A k \in DOMAIN top : \E i \in UsedSlots :
              /\ slots[i].pid = top[k]
              /\ k - 1 = Cardinality({ j \in UsedSlots : Above(j, i) })

LEMMA TopIsRanked ==
    ASSUME NEW risk, RankedSlots(risk), NEW count \in Nat, NEW s, Top(risk, count, s)
    PROVE  RankedBy(risk, count, [k \in DOMAIN s |-> slots[s[k]].pid])
<1> DEFINE pidsOf == [k \in DOMAIN s |-> slots[s[k]].pid]
           prefix(k) == { s[m] : m \in 1..k }
           total == Cardinality(UsedSlots)
<1>0. PICK n \in Nat : n = Len(s) /\ DOMAIN s = 1..n /\ n <= count
  BY DEF Top
<1>1. /\ \A k \in 1..n : s[k] \in UsedSlots
      /\ \A k, m \in 1..n : m < k => s[m] # s[k]
      /\ n = count \/ UsedSlots \subseteq Selected(s)
  BY <1>0 DEF Top
<1>11. \A k \in 1..n : \A i \in UsedSlots : (\A m \in 1..k : s[m] # i) => Beats(risk, s[k], i)
  BY <1>0 DEF Top
<1>2. IsFiniteSet(UsedSlots) /\ total \in Nat
  <2>1. IsFiniteSet(Slots) /\ UsedSlots \in SUBSET Slots
    BY MaxPidsAssumption, FS_Interval DEF Slots, UsedSlots
  <2>2. IsFiniteSet(UsedSlots)
    BY <2>1, FS_Subset
  <2> QED BY <2>2, FS_CardinalityType
<1>3. \A m \in 0..n : Cardinality(prefix(m)) = m
  <2> SUFFICES ASSUME NEW m \in 0..n PROVE Cardinality(prefix(m)) = m
    OBVIOUS
  <2>1. m \in Nat /\ m <= Len(s) /\ Len(s) \in Nat /\ DOMAIN s = 1..Len(s)
    BY <1>0
  <2>2. \A k, l \in DOMAIN s : l < k => s[l] # s[k]
    BY <1>0, <1>1
  <2> QED BY <2>1, <2>2, PlacesAreCounted
<1>4. Selected(s) = prefix(n)
  BY <1>0 DEF Selected
<1>12. prefix(n) \subseteq UsedSlots
  BY <1>1
<1> HIDE DEF pidsOf, prefix, total
<1>5. n <= total
  <2>1. Cardinality(prefix(n)) = n
    BY <1>0, <1>3
  <2>2. Cardinality(prefix(n)) <= Cardinality(UsedSlots)
    BY <1>2, <1>12, FS_Subset
  <2> QED BY <2>1, <2>2 DEF total
<1>6. n = count \/ n = total
  <2>1. CASE UsedSlots \subseteq prefix(n)
    <3>1. prefix(n) = UsedSlots
      BY <1>12, <2>1
    <3>2. Cardinality(prefix(n)) = n
      BY <1>0, <1>3
    <3> QED BY <3>1, <3>2 DEF total
  <2> QED BY <1>1, <1>4, <2>1
<1>7. n = IF count < total THEN count ELSE total
  BY <1>0, <1>2, <1>5, <1>6
<1>8. Len(pidsOf) = n /\ DOMAIN pidsOf = 1..n
  BY <1>0 DEF pidsOf
<1>9. ASSUME NEW k \in 1..n
      PROVE  k - 1 = Cardinality({ j \in UsedSlots : Beats(risk, j, s[k]) })
  <2>1. /\ k \in Nat /\ k - 1 \in 0..n /\ s[k] \in UsedSlots
        /\ \A m \in 1..(k - 1) : m \in 1..n /\ m < k
        /\ 1..k = (1..(k - 1)) \cup {k}
    <3>1. s[k] \in UsedSlots
      BY <1>1
    <3> QED BY <1>0, <3>1
  <2>2. ASSUME NEW j \in UsedSlots, Beats(risk, j, s[k]) PROVE j \in prefix(k - 1)
    <3>1. ~ Beats(risk, s[k], j)
      BY <2>1, <2>2, BeatsIsOrder
    <3>2. PICK m \in 1..k : s[m] = j
      BY <1>11, <3>1
    <3>3. m # k
      BY <2>2, <3>1, <3>2
    <3> QED BY <2>1, <3>2, <3>3 DEF prefix
  <2>3. ASSUME NEW m \in 1..(k - 1) PROVE s[m] \in UsedSlots /\ Beats(risk, s[m], s[k])
    <3>1. m \in 1..n /\ m < k /\ s[m] \in UsedSlots
      BY <1>1, <2>1
    <3>2. \A l \in 1..m : l \in 1..n /\ l < k
      BY <1>0, <3>1
    <3>3. \A l \in 1..m : s[l] # s[k]
      BY <1>1, <3>2
    <3> QED BY <1>11, <2>1, <3>1, <3>3
  <2>4. { j \in UsedSlots : Beats(risk, j, s[k]) } = prefix(k - 1)
    BY <2>2, <2>3 DEF prefix
  <2>5. Cardinality(prefix(k - 1)) = k - 1
    BY <1>3, <2>1
  <2> QED BY <2>4, <2>5
<1>10. \A k \in DOMAIN pidsOf : \E i \in UsedSlots :
          /\ slots[i].pid = pidsOf[k]
          /\ k - 1 = Cardinality({ j \in UsedSlots : Beats(risk, j, i) })
  <2> SUFFICES ASSUME NEW k \in 1..n
               PROVE  \E i \in UsedSlots :
                        /\ slots[i].pid = pidsOf[k]
                        /\ k - 1 = Cardinality({ j \in UsedSlots : Beats(risk, j, i) })
    BY <1>8
  <2>1. s[k] \in UsedSlots /\ pidsOf[k] = slots[s[k]].pid
    BY <1>0, <1>1 DEF pidsOf
  <2> QED BY <1>9, <2>1
<1> QED BY <1>7, <1>8, <1>10 DEF RankedBy, Beats, total, pidsOf

LEMMA ExactRiskType ==
    ASSUME NEW slot \in SlotSet PROVE ExactRisk(slot) \in Int
<1>1. \A s \in {0, 1, 2, 3} : slot.exact[s] \in Nat
  BY DEF SlotSet, Signals, EVENT, NETWORK_AFTER_FILE
<1> QED BY <1>1 DEF ExactRisk, Risk, Capped, EVENT, SENSITIVE_FILE, BLOCKED_DESTINATION,
               NETWORK_AFTER_FILE

LEMMA ApproxRiskType ==
    ASSUME NEW slot \in SlotSet, slot.pid \in Pids PROVE ApproxRisk(slot) \in Int
<1>1. \A s \in Signals : CmsEstimate(slot, s) \in Nat
  BY EstimateIsLeast
<1>2. {0, 1, 2, 3} \subseteq Signals
  BY DEF Signals, EVENT, NETWORK_AFTER_FILE
<1>3. \A s \in {0, 1, 2, 3} : CmsEstimate(slot, s) \in Nat
  BY <1>1, <1>2
<1> QED BY <1>3 DEF ApproxRisk, Risk, Capped, EVENT, SENSITIVE_FILE, BLOCKED_DESTINATION,
               NETWORK_AFTER_FILE

\* Both rankings list the used slots in order of risk and pid, whatever the
\* sketch and however many are asked for.
THEOREM RankingByRisk == Spec => []RankingIsByRisk
<1>1. GInv => RankingIsByRisk
  <2> SUFFICES ASSUME GInv PROVE RankingIsByRisk
    OBVIOUS
  <2>1. \A i \in Slots : slots[i] \in SlotSet /\ (slots[i].used => slots[i].pid \in Pids)
    BY DEF GInv, SketchTypeOK, SlotSet, Cms
  <2>2. ASSUME NEW approx \in BOOLEAN PROVE Ranked(approx)
    <3> DEFINE risk == Risks(approx)
    <3>1. \A i \in UsedSlots : risk[i] \in Int /\ i \in Slots
      <4> SUFFICES ASSUME NEW i \in UsedSlots PROVE risk[i] \in Int
        BY DEF UsedSlots
      <4>1. i \in Slots /\ slots[i] \in SlotSet /\ slots[i].pid \in Pids
        BY <2>1 DEF UsedSlots
      <4>2. ApproxRisk(slots[i]) \in Int /\ ExactRisk(slots[i]) \in Int
        BY <4>1, ApproxRiskType, ExactRiskType
      <4> QED BY <4>1, <4>2 DEF Risks
    <3>2. RankedSlots(risk)
      BY <2>1, <3>1 DEF RankedSlots, SlotSet, GInv, UsedSlots
    <3> HIDE DEF risk
    <3>3. ASSUME NEW count \in 0..MaxPids
          PROVE  RankedBy(risk, count, guardSketchTopPids(count, approx))
      <4>1. count \in Nat
        BY <3>3, MaxPidsAssumption
      <4>2. guardSketchTopPids(count, approx)
              = [k \in DOMAIN TopSlots(risk, count) |-> slots[TopSlots(risk, count)[k]].pid]
        BY DEF guardSketchTopPids, risk
      <4> QED BY <3>2, <4>1, <4>2, TopSlotsAreTop, TopIsRanked
    <3> QED BY <3>3 DEF Ranked, RankedBy, risk, UsedSlots
  <2> QED BY <2>2 DEF RankingIsByRisk
<1> QED BY <1>1, SketchInvariant, PTL
=============================================================================
