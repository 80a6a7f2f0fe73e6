--------------------------- MODULE TailProperties ---------------------------
(***************************************************************************)
(* agfast tail against the events it has read, the events its writer has   *)
(* written, and the graph the other commands build.                        *)
(***************************************************************************)
EXTENDS Tail

Before(i) == { j \in 1..i : seen[j].pid = seen[i].pid }

\* An alert is printed for exactly the events that deserve it.  Unlike analyze,
\* tail repeats CRITICAL at every event of a pid from the one on that completes
\* the pair of a sensitive access and a blocked contact (commands.c:564-567).
AlertsTellTheHistory ==
    \A i \in DOMAIN seen :
        /\ <<"MEDIUM", i>> \in printed <=> sensitive_access(seen[i])
        /\ <<"HIGH", i>> \in printed <=> destination_blocked(seen[i])
        /\ <<"CRITICAL", i>> \in printed <=>
              /\ \E j \in Before(i) : sensitive_access(seen[j])
              /\ \E j \in Before(i) : destination_blocked(seen[j])

\* The events among the first n pieces of the file.
EventsWritten(n) == { i \in LinesWritten \cap (1..n) : parse_event_line(file[i].line) }

\* The events read are those of the first n pieces, in their order.
SeenUpTo(n) ==
    /\ Len(seen) = Cardinality(EventsWritten(n))
    /\ \A i \in EventsWritten(n) :
          seen[Cardinality(EventsWritten(i))] = EventOf(file[i].line)

SeesEveryEvent == pos = Len(file) /\ ~HalfWritten => SeenUpTo(pos)

\* A reader at the end of a file of complete lines has processed each event in
\* it, in order and with all its fields, unless it once came to the end of the
\* file inside a line (commands.c:541).
TailSeesEveryEvent == ~split => SeesEveryEvent

\* "debe observar nuevos eventos cuando el archivo crece" (docs/STREAMING.md:104):
\* and so it does with --follow, however the file grows.
FollowSeesEveryEvent == follow => SeesEveryEvent

\* With --follow the reader always gets to the end again, however often it has
\* been there before.
FollowCatchesUp == follow => []<>(pos = Len(file))

\* tail builds the graph that the other commands build from the same lines; it
\* only scores a node earlier, and does not count the lines it cannot read.
\* (A line read in two parts may count twice.)
Unscored ==
    [p \in Pids |-> [node[p] EXCEPT !.risk_score = 0,
                                    !.risk_level = IF p \in pids THEN "none" ELSE ""]]
Graph == INSTANCE EventGraph WITH node <- Unscored, reading <- TRUE, MaxLines <- 2 * MaxLines
TailBuildsTheGraph == Graph!GraphSpec
=============================================================================
