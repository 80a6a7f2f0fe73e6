------------------------ MODULE IntegrityProperties ------------------------
(***************************************************************************)
(* What the integrity checks say, against what happened to the files since *)
(* they were recorded.                                                     *)
(***************************************************************************)
EXTENDS Integrity

Recorded(p) == Positions(records, p) # {}

\* The file has the attributes it had when it was first recorded, and its
\* content: of a directory the checks compare the attributes only.
SameAttributes(p) ==
    /\ fs[p] # Gone
    /\ fs[p].mode = known[p].st.mode /\ fs[p].owner = known[p].st.owner
    /\ Size[fs[p].content] = Size[known[p].st.content]
SameContent(p) == p \in Dirs \/ fs[p].content = known[p].st.content

Readable(hash) == hash \notin {Failed, Short}
RecordedWell(p) == p \in Dirs \/ Readable(RecordOf(records, p).hash)

\* OK means that the attributes are those of the first recording, for a file that
\* did not change since the stat of the check; the content too, if both hashes
\* could be read and the file did not change while it was recorded.
OkMeansUnchanged(v) ==
    v.result = "OK" /\ ~ v.stale =>
        /\ SameAttributes(v.path)
        /\ Readable(v.hash) /\ RecordedWell(v.path) /\ ~ known[v.path].mixed => SameContent(v.path)

\* A recorded file is reported only when somebody has changed it since its first
\* recording began, be it before, between or after the readings of both; and
\* when it kept still during both it is not as it was.  Apart from a check that
\* was denied its stat, a hash cut short by a read error, which ag_hash_file
\* does not notice (utils.c:244), and one that failed when the file was recorded
\* (integrity.c:57).
AlarmMeansChanged(v) ==
    v.result # "OK" /\ Recorded(v.path) /\ ~ v.denied /\ v.hash # Short /\ RecordedWell(v.path) =>
        /\ known[v.path].touched
        /\ ~ v.stale /\ ~ known[v.path].mixed => ~ (SameAttributes(v.path) /\ SameContent(v.path))

\* Each verdict of ag_integrity_check_file tells the truth about the time since a
\* file was first recorded, in both directions, whatever else was recorded,
\* however often it was recorded again, and whatever changed, and changed back,
\* between any two system calls.
VerdictsAreTrue ==
    \A i \in DOMAIN verdicts : OkMeansUnchanged(verdicts[i]) /\ AlarmMeansChanged(verdicts[i])

\* When add_directory has returned, or create_baseline has written its file, every
\* path is recorded that was there all the time, could be examined, and can be
\* reached from where the call began through directories of which the same is
\* true and that could be opened; unless the table is full.  Whatever else
\* changes meanwhile, or fails, leads to no other omission.
Entered(S) == \A d \in (S \cap Dirs) \ lost : Entries[d] \subseteq S
Reached(p) == { q \in Paths : \A S \in SUBSET Paths : p \in S /\ Entered(S) => q \in S }
Owed == CASE call = "add_directory"   -> IF recursive THEN Reached(root) ELSE {root}
          [] call = "create_baseline" -> { Baseline[i] : i \in DOMAIN Baseline }
          [] OTHER                    -> {}
Ended == ~ running /\ (call = "create_baseline" => saved # << >>)
TreeIsCovered ==
    LET table == IF call = "create_baseline" THEN saved ELSE records
    IN  Ended => \A p \in Owed \ lost : Positions(table, p) # {} \/ Len(table) >= MaxRecords

\* A check_all that ends without a violation has found every record in order: a
\* file that is not as it was when it was recorded has changed after check_all
\* looked at it, as far as its hashes could be read.
CheckAllMissesNothing ==
    call = "check_all" /\ ~ running /\ violations = 0 =>
        \A i \in DOMAIN records :
            LET p == records[i].path IN
            /\ i \in DOMAIN verdicts /\ verdicts[i].path = p /\ verdicts[i].result = "OK"
            /\ ~ verdicts[i].stale => SameAttributes(p)
            /\ ~ verdicts[i].stale /\ ~ known[p].mixed /\ Readable(verdicts[i].hash) /\ RecordedWell(p)
                 => SameContent(p)

=============================================================================
