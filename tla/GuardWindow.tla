---------------------------- MODULE GuardWindow ----------------------------
(***************************************************************************)
(* What the GuardSketch table promises of the events it is given: a window *)
(* of Limit events of at most MaxPids pids is counted exactly, and every   *)
(* other event is counted as dropped.  GuardSketch implements it.          *)
(***************************************************************************)
EXTENDS Integers, FiniteSets

CONSTANTS Pids, MaxPids, Limit

VARIABLES
    count,      \* pid -> events counted
    accepted,   \* events counted
    dropped     \* events not counted

windowVars == <<count, accepted, dropped>>

Known == { p \in Pids : count[p] > 0 }

WindowInit == count = [p \in Pids |-> 0] /\ accepted = 0 /\ dropped = 0

HasRoom(p) == accepted < Limit /\ (p \in Known \/ Cardinality(Known) < MaxPids)

CountEvent(p) ==
    /\ HasRoom(p)
    /\ count' = [count EXCEPT ![p] = @ + 1]
    /\ accepted' = accepted + 1
    /\ UNCHANGED dropped

DropEvent(p) ==
    /\ ~HasRoom(p)
    /\ dropped' = dropped + 1
    /\ UNCHANGED <<count, accepted>>

WindowNext == \E p \in Pids : CountEvent(p) \/ DropEvent(p)

WindowSpec == WindowInit /\ [][WindowNext]_windowVars
=============================================================================
