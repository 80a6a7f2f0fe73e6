--------------------------- MODULE MCGuardSketch ---------------------------
(***************************************************************************)
(* Three pids for two slots.  In the sketch of pid 3 EVENT and             *)
(* NETWORK_AFTER_FILE collide in both rows; in those of 5 and 8 signals    *)
(* collide in one row.  The bits of 8 are those of 3 and 5 together.       *)
(***************************************************************************)
EXTENDS GuardSketchProperties, TLC

MCPids == {3, 5, 8}
MCColumns == 0..2
MCColumn == [r \in {1, 2} |-> [k \in MCPids \X Signals |->
                CASE k[1] = 3 -> (r * k[2]) % 3
                  [] k[1] = 5 -> (r * k[2] + k[2] \div 2) % 3
                  [] OTHER    -> IF r = 1 THEN k[2] \div 2 ELSE k[2] % 2]]
MCPidBits == (3 :> {0, 1} @@ 5 :> {1, 2} @@ 8 :> {0, 2})
=============================================================================
