---------------------------- MODULE GuardSketch ----------------------------
(***************************************************************************)
(* The GuardSketch prototype (agfast_parts/guardsketch.c): a table with a  *)
(* slot per pid, each holding exact counters and a count-min sketch of the *)
(* same counters, a Bloom filter of the pids, and a window after which     *)
(* events are dropped.                                                     *)
(*                                                                         *)
(* The hash functions are parameters.  The 64-bit counters do not overflow *)
(* within any window; the 32-bit cells of the sketch saturate.             *)
(***************************************************************************)
EXTENDS Integers, Sequences, FiniteSets

CONSTANTS
    Pids,       \* the pids recorded; negative ones are not
    MaxPids,    \* GS_MAX_PIDS
    Rows,       \* GS_CMS_DEPTH rows of the sketch
    Columns,    \* GS_CMS_WIDTH columns of it
    Column,     \* the column of a pid and a signal in a row
    PidBits,    \* the bits of a pid in the Bloom filter
    CellMax,    \* UINT32_MAX
    Window,     \* the window_limit given to guardSketchInit
    MaxCalls    \* bound: calls of guardSketchRecord

EVENT == 0
SENSITIVE_FILE == 1
BLOCKED_DESTINATION == 2
NETWORK_AFTER_FILE == 3
Signals == EVENT..NETWORK_AFTER_FILE

ASSUME PidsAssumption == Pids \subseteq Nat /\ Pids # {}
ASSUME MaxPidsAssumption == MaxPids \in Nat \ {0}
ASSUME SketchAssumption ==
    /\ Rows # {} /\ IsFiniteSet(Rows)
    /\ Column \in [Rows -> [Pids \X Signals -> Columns]]
    /\ CellMax \in Nat \ {0}
ASSUME BitsAssumption == \A p \in Pids : IsFiniteSet(PidBits[p])
ASSUME WindowAssumption == Window \in Nat /\ MaxCalls \in Nat

VARIABLES
    slots,              \* index -> slot
    pid_bloom,          \* the bits set
    window_events,
    dropped_events,
    calls               \* calls made so far; for the bound and the properties

vars == <<slots, pid_bloom, window_events, dropped_events, calls>>

Slots == 1..MaxPids
window_limit == IF Window = 0 THEN 64 ELSE Window   \* GS_DEFAULT_WINDOW

NoCounts == [s \in Signals |-> 0]
EmptyCms == [r \in Rows |-> [c \in Columns |-> 0]]
FreeSlot == [used |-> FALSE, pid |-> 0, exact |-> NoCounts, cms |-> EmptyCms]

-----------------------------------------------------------------------------
(* The sketch of a slot. *)

\* Mutant of CmsAdd: only one row is updated.
CmsAddOneRow(cms, pid, signal) ==
    LET row == CHOOSE r \in Rows : TRUE
    IN  [cms EXCEPT ![row][Column[row][<<pid, signal>>]] = IF @ = CellMax THEN @ ELSE @ + 1]

CmsAdd(cms, pid, signal) ==
    [r \in Rows |->
        [cms[r] EXCEPT ![Column[r][<<pid, signal>>]] = IF @ = CellMax THEN @ ELSE @ + 1]]

\* The cells a signal of the pid is counted in.
Cells(slot, signal) == { slot.cms[r][Column[r][<<slot.pid, signal>>]] : r \in Rows }

\* The least cell; CellMax is the value the search starts with, and means "none".
CmsEstimate(slot, signal) ==
    LET best == CHOOSE c \in Cells(slot, signal) : \A d \in Cells(slot, signal) : c <= d
    IN  IF best = CellMax THEN 0 ELSE best

-----------------------------------------------------------------------------
(* The risk of a slot, from its counters and from its sketch. *)

Capped(score) == IF score > 100 THEN 100 ELSE score

Risk(events, sensitive, blocked, network) ==
    Capped(25 * sensitive + 35 * blocked + 30 * network + IF events >= 8 THEN 10 ELSE 0)

ExactRisk(slot) ==
    Risk(slot.exact[EVENT], slot.exact[SENSITIVE_FILE],
         slot.exact[BLOCKED_DESTINATION], slot.exact[NETWORK_AFTER_FILE])

ApproxRisk(slot) ==
    Risk(CmsEstimate(slot, EVENT), CmsEstimate(slot, SENSITIVE_FILE),
         CmsEstimate(slot, BLOCKED_DESTINATION), CmsEstimate(slot, NETWORK_AFTER_FILE))

-----------------------------------------------------------------------------
(* The table of slots. *)

Holds(i, pid) == slots[i].used /\ slots[i].pid = pid
Tracked == { slots[i].pid : i \in { j \in Slots : slots[j].used } }
Free == { i \in Slots : ~slots[i].used }

\* The slot guardSketchFindSlot returns: the one of the pid, or the first free one.
IsSlotFor(i, pid) ==
    \/ Holds(i, pid)
    \/ /\ pid \notin Tracked
       /\ i \in Free /\ \A j \in Free : i <= j

BloomSet(bits, pid) == bits \cup PidBits[pid]

NewSlot(pid) == [used |-> TRUE, pid |-> pid, exact |-> NoCounts, cms |-> EmptyCms]

\* exact_events counts every event, and its cell is raised again by an EVENT.
Counted(slot, signal) ==
    [used |-> slot.used, pid |-> slot.pid,
     exact |-> [s \in Signals |-> slot.exact[s] + IF s \in {EVENT, signal} THEN 1 ELSE 0],
     cms |-> CmsAdd(CmsAdd(slot.cms, slot.pid, EVENT), slot.pid, signal)]

Init ==
    /\ slots = [i \in Slots |-> FreeSlot]
    /\ pid_bloom = {}
    /\ window_events = 0 /\ dropped_events = 0
    /\ calls = 0

\* Mutant of WindowOver: one event more than the window holds.
WindowOverLate == window_events > window_limit

WindowOver == window_events >= window_limit
NoRoomFor(pid) == ~\E i \in Slots : IsSlotFor(i, pid)

Call == calls < MaxCalls /\ calls' = calls + 1

Accept(pid, signal) ==
    /\ Call
    /\ ~WindowOver
    /\ \E i \in Slots :
          /\ IsSlotFor(i, pid)
          /\ slots' = [slots EXCEPT ![i] = Counted(IF @.used THEN @ ELSE NewSlot(pid), signal)]
          /\ pid_bloom' = IF slots[i].used THEN pid_bloom ELSE BloomSet(pid_bloom, pid)
    /\ window_events' = window_events + 1
    /\ UNCHANGED dropped_events

Drop(pid) ==
    /\ Call
    /\ WindowOver \/ NoRoomFor(pid)
    /\ dropped_events' = dropped_events + 1
    /\ UNCHANGED <<slots, pid_bloom, window_events>>

guardSketchRecord(pid, signal) == Accept(pid, signal) \/ Drop(pid)

Next == \E pid \in Pids, signal \in Signals : guardSketchRecord(pid, signal)

Spec == Init /\ [][Next]_vars

-----------------------------------------------------------------------------
(* The ranking.  best = 0 stands for best_pid < 0, which no slot has. *)

\* Mutant of Beats: equal scores are not ordered by pid.
BeatsAnyPid(risk, i, best) == risk[i] > risk[best]

Beats(risk, i, best) ==
    \/ risk[i] > risk[best]
    \/ risk[i] = risk[best] /\ slots[i].pid < slots[best].pid

\* The inner loop: the best of the slots 1..n that are used and not selected.
BestOf(risk, selected) ==
    LET best[n \in 0..MaxPids] ==
          IF n = 0 THEN 0
          ELSE IF ~slots[n].used \/ n \in selected THEN best[n - 1]
          ELSE IF best[n - 1] = 0 \/ Beats(risk, n, best[n - 1]) THEN n
          ELSE best[n - 1]
    IN  best[MaxPids]

\* The outer loop: the slots selected in n rounds, best first; it ends when no
\* slot is left.
TopSlots(risk, count) ==
    LET top[n \in 0..count] ==
          IF n = 0 THEN <<>>
          ELSE LET selected == { top[n - 1][k] : k \in DOMAIN top[n - 1] }
                   next == BestOf(risk, selected)
               IN  IF next = 0 THEN top[n - 1] ELSE Append(top[n - 1], next)
    IN  top[count]

Risks(approx) ==
    [i \in Slots |-> IF approx THEN ApproxRisk(slots[i]) ELSE ExactRisk(slots[i])]

guardSketchTopPids(count, approx) ==
    LET top == TopSlots(Risks(approx), count)
    IN  [k \in DOMAIN top |-> slots[top[k]].pid]
=============================================================================
