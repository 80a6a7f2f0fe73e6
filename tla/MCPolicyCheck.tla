--------------------------- MODULE MCPolicyCheck ---------------------------
(***************************************************************************)
(* Four buckets of two slots.  The files fit after some evictions, the ips *)
(* have duplicates and a fingerprint two values share, the domains are too *)
(* many for their buckets.                                                 *)
(***************************************************************************)
EXTENDS PolicyCheckProperties, TLC

MCPolicyFile ==
    [ sensitive_files   |-> <<"a", "b", "a*", "c", "d", "e", "f">>,
      blocked_ips       |-> <<"a", "twin", "b", "b", "d", "bad token", "f">>,
      blocked_domains   |-> <<"a", "b", "c", "d", "e", "g", "", "f", "h">>,
      watched_processes |-> << >> ]

MCValues == {"a", "b", "c", "d", "e", "f", "g", "h", "twin", "a*", "ab"}

MCBloomBits == [ v \in MCValues |->
    CASE v = "a" -> {1, 2} [] v = "b" -> {2, 3} [] v = "ab" -> {1, 3}
      [] v \in {"c", "twin"} -> {4} [] OTHER -> {5} ]
MCFnMatch == "a*" :> {"ab", "a"}

MCFingerprint == [ v \in MCValues |->
    CASE v \in {"a", "twin"} -> 1 [] v = "b" -> 2 [] v = "c" -> 3 [] v = "d" -> 4
      [] v = "e" -> 5 [] v = "f" -> 6 [] v = "g" -> 7 [] OTHER -> 8 ]

MCIndex1 == [ v \in MCValues |->
    CASE v \in {"a", "b", "c", "twin"} -> 0 [] v \in {"d", "e", "h"} -> 1
      [] v = "f" -> 0 [] OTHER -> 1 ]

\* Exclusive or with 1, 2, 3 and 0 on four buckets.
Xor == << [b \in 0..3 |-> IF b % 2 = 0 THEN b + 1 ELSE b - 1],
          [b \in 0..3 |-> (b + 2) % 4],
          [b \in 0..3 |-> 3 - b],
          [b \in 0..3 |-> b] >>
MCAlt == << Xor[1], Xor[2], Xor[1], Xor[1], Xor[3], Xor[1], Xor[1], Xor[4] >>

MCKickSlot == [ fp \in 1..8 |-> [ k \in 0..3 |-> ((fp + k) % 2) + 1 ] ]
MCStartsAtFirst == [ v \in MCValues |-> v \notin {"e", "g"} ]
=============================================================================
