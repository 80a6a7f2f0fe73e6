---------------------------- MODULE MCTelemetry ----------------------------
(***************************************************************************)
(* Four keys for two columns, two registers, two items and three           *)
(* candidates; a run draws its events from six.                            *)
(***************************************************************************)
EXTENDS TelemetryProperties, TLC

MCKeys == {"a", "b", "c", "d"}
MCColumn == <<("a" :> 1 @@ "b" :> 1 @@ "c" :> 2 @@ "d" :> 2),
              ("a" :> 1 @@ "b" :> 2 @@ "c" :> 2 @@ "d" :> 2)>>
MCKeyOrder == ("a" :> 1 @@ "b" :> 2 @@ "c" :> 3 @@ "d" :> 4)
MCRegister == ("a" :> 1 @@ "b" :> 1 @@ "c" :> 2 @@ "d" :> 1)
MCRank == ("a" :> 2 @@ "b" :> 1 @@ "c" :> 1 @@ "d" :> 3)

Event(pid, process, file, dst, event) ==
    [pid |-> pid, process |-> process, file |-> file, dst |-> dst, event |-> event]
MCEvents == {Event("a", "a", "b", "", "d"), Event("", "b", "a", "", ""),
             Event("b", "c", "", "c", "d"), Event("a", "d", "d", "c", "a"),
             Event("d", "a", "c", "a", "b"), Event("", "", "d", "", "c")}
=============================================================================
