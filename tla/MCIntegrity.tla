---------------------------- MODULE MCIntegrity ----------------------------
(***************************************************************************)
(* A directory, a directory in it and a file in that, which is there at    *)
(* the beginning or not; two contents of the same size and one of another; *)
(* one other mode and owner.                                               *)
(***************************************************************************)
EXTENDS IntegrityProperties, TLC

MCEntries == ("d" :> {"e"}) @@ ("e" :> {"f"})
MCSize == ("c1" :> 1) @@ ("c2" :> 1) @@ ("c3" :> 2)
MCBaseline == <<"f">>
Fresh == [content |-> "c1", mode |-> "m1", owner |-> "o1"]
MCAttributes ==
    { Fresh, [Fresh EXCEPT !.content = "c2"], [Fresh EXCEPT !.content = "c3"],
      [Fresh EXCEPT !.mode = "m2"], [Fresh EXCEPT !.owner = "o2"] }

There == [p \in {"d", "e", "f"} |-> Fresh]
MCInitialFs == {There, [There EXCEPT !["f"] = Gone]}
=============================================================================
