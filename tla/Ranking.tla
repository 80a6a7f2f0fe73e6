------------------------------ MODULE Ranking ------------------------------
(***************************************************************************)
(* The tables agfast prints: entries sorted by qsort, of which the first   *)
(* "limit" are shown.  Each table has its score, which comes first, and    *)
(* its order among equals: strcmp of the keys, or the pid.                 *)
(***************************************************************************)
EXTENDS Integers, FiniteSets

\* Mutant of Before: the score is not compared.
BeforeInOrder(S, x, score, order) == { y \in S : order[y] < order[x] }

\* The entries of S that the comparator puts before x.
Before(S, x, score, order) ==
    { y \in S : score[y] > score[x] \/ (score[y] = score[x] /\ order[y] < order[x]) }

Shown(S, score, order, limit) ==
    { x \in S : Cardinality(Before(S, x, score, order)) < limit }
=============================================================================
