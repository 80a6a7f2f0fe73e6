-------------------------- MODULE IntegrityProofs --------------------------
(***************************************************************************)
(* For every file system, table size and sequence of calls, of failures    *)
(* and of changes between any two system calls: the verdicts of check_file *)
(* and check_all are true, and what a tree that is added leaves out was    *)
(* away or refused, or the table is full.                                  *)
(***************************************************************************)
EXTENDS IntegrityProperties, SequenceTheorems, FiniteSetTheorems, TLAPS

FileSystem == [Paths -> {Gone} \cup Attributes]
HashValues == Contents \cup {Short, Failed, DirHash}
RecordSet  == { Record(p, st, hash) : p \in Paths, st \in Attributes, hash \in HashValues }
KnownSet   == [st : {Gone} \cup Attributes, mixed : BOOLEAN, touched : BOOLEAN]
Results    == {"OK", "MISSING", "HASH_MISMATCH", "OWNER_CHANGED", "PERMISSION_CHANGED", "MODIFIED"}
VerdictSet == [path : Paths, result : Results, hash : HashValues \cup {NoHash},
               denied : BOOLEAN, stale : BOOLEAN]
HandSet    == [step : {"none", "open", "add", "hash", "check", "compare"},
               path : Paths \cup {"none"}, st : {Gone} \cup Attributes,
               seen : SUBSET (Contents \cup {"gone"}), mid : BOOLEAN]
FrameSet   == [dir : Dirs, left : SUBSET Paths]

FilesOK   == fs \in FileSystem
TableOK   == records \in Seq(RecordSet) /\ saved \in Seq(RecordSet)
HandOK    == at \in HandSet /\ (at.step # "none" => at.path \in Paths)
                            /\ (at.step = "open" => at.path \in Dirs)
                            /\ (at.step \in {"hash", "compare"} => at.st \in Attributes)
KnownOK   == known \in [Paths -> KnownSet]
StackOK   == stack \in Seq(FrameSet)
VerdictOK == verdicts \in Seq(VerdictSet)
LoopOK    == /\ next \in Nat \ {0} /\ violations \in Nat
             /\ lost \subseteq Paths /\ root \in Dirs \cup {"none"}
             /\ recursive \in BOOLEAN /\ running \in BOOLEAN

IntegrityTypeOK ==
    FilesOK /\ TableOK /\ HandOK /\ KnownOK /\ StackOK /\ VerdictOK /\ LoopOK

-----------------------------------------------------------------------------
LEMMA AttributesAreThere ==
    \A a \in Attributes : a # Gone /\ a.content \in Contents /\ Size[a.content] \in Nat
  BY IntegrityAssumption DEF Gone

LEMMA NothingIsTyped == Nothing \in HandSet /\ Nothing.step = "none"
  BY DEF Nothing, HandSet

LEMMA UnknownIsTyped == Unknown \in KnownSet
  BY DEF Unknown, KnownSet

LEMMA HashesAreTyped ==
    ASSUME HandOK
    PROVE  Hashes \subseteq HashValues
  BY DEF HandOK, HandSet, Hashes, HashValues

LEMMA StartIsTyped ==
    ASSUME NEW step \in {"open", "add", "check"}, NEW p \in Paths, step = "open" => p \in Dirs,
           Start(step, p)
    PROVE  /\ HandOK'
           /\ at'.step = step /\ at'.path = p /\ at'.st = Gone /\ at'.mid = FALSE
  BY DEF Start, HandOK, HandSet, Nothing

LEMMA ResumeIsTyped ==
    ASSUME Resume
    PROVE  HandOK' /\ at' = Nothing /\ running' \in BOOLEAN
  BY NothingIsTyped DEF Resume, HandOK

LEMMA ResultIsTyped ==
    ASSUME NEW rec, NEW st, NEW hash
    PROVE  Result(rec, st, hash) \in Results
  BY DEF Result, Results

LEMMA ConcludeIsTyped ==
    ASSUME IntegrityTypeOK, NEW result \in Results, NEW hash \in HashValues \cup {NoHash},
           at.path \in Paths, Conclude(result, hash)
    PROVE  VerdictOK' /\ HandOK' /\ violations' \in Nat /\ running' \in BOOLEAN
  <1> DEFINE v == [path |-> at.path, result |-> result, hash |-> hash,
                   denied |-> at.st = Gone /\ fs[at.path] # Gone, stale |-> at.mid]
  <1>1. v \in VerdictSet
    BY DEF IntegrityTypeOK, HandOK, HandSet, VerdictSet
  <1>2. verdicts' = Append(verdicts, v) /\ Resume
    BY DEF Conclude
  <1>3. VerdictOK'
    BY <1>1, <1>2 DEF IntegrityTypeOK, VerdictOK
  <1>4. violations' \in Nat
    BY DEF Conclude, IntegrityTypeOK, LoopOK
  <1> QED
    BY <1>2, <1>3, <1>4, ResumeIsTyped

LEMMA BeginIsTyped ==
    ASSUME IntegrityTypeOK, NEW name, Begin(name)
    PROVE  /\ FilesOK' /\ saved' = saved /\ StackOK' /\ VerdictOK'
           /\ next' \in Nat \ {0} /\ violations' \in Nat /\ lost' \subseteq Paths
           /\ verdicts' = << >> /\ stack' = << >> /\ next' = 1 /\ violations' = 0
  <1>1. stack' = << >> /\ verdicts' = << >>
    BY DEF Begin
  <1> QED
    BY <1>1 DEF Begin, IntegrityTypeOK, FilesOK, StackOK, VerdictOK

LEMMA ForgetIsTyped ==
    ASSUME Forget
    PROVE  records' = << >> /\ records' \in Seq(RecordSet) /\ KnownOK'
  BY UnknownIsTyped DEF Forget, KnownOK

LEMMA PlainIsTyped ==
    ASSUME Plain
    PROVE  root' \in Dirs \cup {"none"} /\ recursive' \in BOOLEAN
  BY DEF Plain

LEMMA InitTypes == Init => IntegrityTypeOK
  <1> SUFFICES ASSUME Init PROVE IntegrityTypeOK
    OBVIOUS
  <1>1. FilesOK
    BY IntegrityAssumption DEF Init, FilesOK, FileSystem
  <1>2. TableOK /\ StackOK /\ VerdictOK
    BY DEF Init, TableOK, StackOK, VerdictOK
  <1>4. LoopOK
    <2>1. next \in Nat \ {0} /\ violations \in Nat
      BY DEF Init
    <2>2. /\ lost \subseteq Paths /\ root \in Dirs \cup {"none"}
          /\ recursive \in BOOLEAN /\ running \in BOOLEAN
      BY DEF Init
    <2> QED
      BY <2>1, <2>2 DEF LoopOK
  <1>3. HandOK /\ KnownOK
    BY NothingIsTyped, UnknownIsTyped DEF Init, HandOK, KnownOK
  <1> QED
    BY <1>1, <1>2, <1>3, <1>4 DEF IntegrityTypeOK

LEMMA CallsAreTyped ==
    ASSUME IntegrityTypeOK,
           \/ \E p \in Paths : AddFile(p) \/ AddDirectory(p) \/ CheckFile(p) \/ RunIntegrityCheck(p)
           \/ CheckAll \/ CreateBaseline
    PROVE  IntegrityTypeOK'
  <1>1. PICK name : Begin(name)
    BY DEF AddFile, AddDirectory, CheckFile, CheckAll, CreateBaseline, RunIntegrityCheck
  <1>2. running' \in BOOLEAN
    BY DEF AddFile, AddDirectory, CheckFile, CheckAll, CreateBaseline, RunIntegrityCheck
  <1>3. root' \in Dirs \cup {"none"} /\ recursive' \in BOOLEAN
    BY PlainIsTyped
    DEF AddFile, AddDirectory, CheckFile, CheckAll, CreateBaseline, RunIntegrityCheck
  <1>4. HandOK'
    <2>1. at' = Nothing => HandOK'
      BY NothingIsTyped DEF HandOK
    <2>2. ASSUME NEW p \in Paths, NEW step \in {"open", "add", "check"},
                 step = "open" => p \in Dirs, Start(step, p)
          PROVE  HandOK'
      BY <2>2, StartIsTyped
    <2> QED
      BY <2>1, <2>2
      DEF AddFile, AddDirectory, CheckFile, CheckAll, CreateBaseline, RunIntegrityCheck
  <1>5. records' \in Seq(RecordSet) /\ KnownOK'
    <2>1. UNCHANGED Table => records' \in Seq(RecordSet) /\ KnownOK'
      BY DEF Table, IntegrityTypeOK, TableOK, KnownOK
    <2> QED
      BY <2>1, ForgetIsTyped
      DEF AddFile, AddDirectory, CheckFile, CheckAll, CreateBaseline, RunIntegrityCheck
  <1>6. /\ FilesOK' /\ saved' = saved /\ StackOK' /\ VerdictOK'
        /\ next' \in Nat \ {0} /\ violations' \in Nat /\ lost' \subseteq Paths
    BY <1>1, BeginIsTyped
  <1> QED
    BY <1>2, <1>3, <1>4, <1>5, <1>6 DEF IntegrityTypeOK, TableOK, LoopOK

LEMMA ExaminedIsTyped ==
    ASSUME IntegrityTypeOK, at.path \in Paths, NEW step \in {"hash", "compare"},
           NEW st \in StatOf(at.path), st # Gone,
           at' = [at EXCEPT !.step = step, !.st = st, !.seen = {st.content}]
    PROVE  HandOK'
  <1>1. st \in Attributes /\ st.content \in Contents
    BY AttributesAreThere DEF StatOf, IntegrityTypeOK, FilesOK, FileSystem
  <1>2. at' \in HandSet /\ at'.step = step /\ at'.path = at.path /\ at'.st = st
    BY <1>1 DEF IntegrityTypeOK, HandOK, HandSet
  <1> QED
    BY <1>1, <1>2 DEF HandOK

LEMMA AddStatIsTyped ==
    ASSUME IntegrityTypeOK, AddStat
    PROVE  IntegrityTypeOK'
  <1>1. at.path \in Paths
    BY DEF AddStat, IntegrityTypeOK, HandOK
  <1>2. FilesOK' /\ TableOK' /\ KnownOK' /\ StackOK' /\ VerdictOK'
    BY DEF AddStat, IntegrityTypeOK, FilesOK, TableOK, KnownOK, StackOK, VerdictOK
  <1>3. LoopOK'
    BY <1>1, ResumeIsTyped DEF AddStat, IntegrityTypeOK, LoopOK, control
  <1>4. HandOK'
    BY <1>1, ResumeIsTyped, ExaminedIsTyped DEF AddStat
  <1> QED
    BY <1>2, <1>3, <1>4 DEF IntegrityTypeOK

LEMMA AddHashIsTyped ==
    ASSUME IntegrityTypeOK, AddHash
    PROVE  IntegrityTypeOK'
  <1>1. at.path \in Paths /\ at.st \in Attributes /\ at.mid \in BOOLEAN
    BY DEF AddHash, IntegrityTypeOK, HandOK, HandSet
  <1>2. PICK hash \in Hashes : records' = Append(records, Record(at.path, at.st, hash))
    BY DEF AddHash
  <1>3. Record(at.path, at.st, hash) \in RecordSet
    BY <1>1, <1>2, HashesAreTyped DEF IntegrityTypeOK, RecordSet
  <1>4. TableOK'
    BY <1>2, <1>3 DEF AddHash, IntegrityTypeOK, TableOK
  <1>5. KnownOK'
    BY <1>1 DEF AddHash, IntegrityTypeOK, KnownOK, KnownSet
  <1>6. FilesOK' /\ StackOK' /\ VerdictOK'
    BY DEF AddHash, IntegrityTypeOK, FilesOK, StackOK, VerdictOK
  <1>7. HandOK' /\ LoopOK'
    BY ResumeIsTyped DEF AddHash, IntegrityTypeOK, LoopOK, control
  <1> QED
    BY <1>4, <1>5, <1>6, <1>7 DEF IntegrityTypeOK

LEMMA OpenDirectoryIsTyped ==
    ASSUME IntegrityTypeOK, OpenDirectory
    PROVE  IntegrityTypeOK'
  <1>1. at.path \in Dirs /\ at.path \in Paths
    BY DEF OpenDirectory, IntegrityTypeOK, HandOK
  <1>2. FilesOK' /\ TableOK' /\ KnownOK' /\ VerdictOK'
    BY DEF OpenDirectory, IntegrityTypeOK, FilesOK, TableOK, KnownOK, VerdictOK
  <1>3. LoopOK'
    BY <1>1 DEF OpenDirectory, IntegrityTypeOK, LoopOK, control
  <1>4. HandOK'
    <2>1. at' = Nothing => HandOK'
      BY NothingIsTyped DEF HandOK, Nothing
    <2> QED
      BY <1>1, <2>1, StartIsTyped DEF OpenDirectory
  <1>5. StackOK'
    <2>1. EntriesOf(at.path) \in SUBSET Paths
      BY <1>1, IntegrityAssumption DEF EntriesOf
    <2>2. [dir |-> at.path, left |-> EntriesOf(at.path)] \in FrameSet
      BY <1>1, <2>1 DEF FrameSet
    <2> QED
      BY <2>2 DEF OpenDirectory, IntegrityTypeOK, StackOK
  <1> QED
    BY <1>2, <1>3, <1>4, <1>5 DEF IntegrityTypeOK

\* The open directory that is read.
LEMMA TopIsTyped ==
    ASSUME StackOK, stack # << >>
    PROVE  /\ Len(stack) \in Nat \ {0} /\ DOMAIN stack = 1..Len(stack)
           /\ Len(stack) \in DOMAIN stack /\ Top \in FrameSet
  BY DEF StackOK, Top

LEMMA NextEntryIsTyped ==
    ASSUME IntegrityTypeOK, NextEntry
    PROVE  IntegrityTypeOK'
  <1>1. PICK e \in Top.left :
            /\ stack' = [stack EXCEPT ![Len(stack)].left = @ \ {e}]
            /\ \E st \in StatOf(e) :
                 IF st = Gone
                   THEN lost' = lost \cup {e} /\ UNCHANGED at
                   ELSE Start(IF e \in Dirs THEN "open" ELSE "add", e) /\ UNCHANGED lost
    BY DEF NextEntry
  <1>2. e \in Paths /\ Top \in FrameSet /\ Len(stack) \in DOMAIN stack
    BY TopIsTyped DEF NextEntry, IntegrityTypeOK, FrameSet
  <1>3. FilesOK' /\ TableOK' /\ KnownOK' /\ VerdictOK'
    BY DEF NextEntry, IntegrityTypeOK, FilesOK, TableOK, KnownOK, VerdictOK
  <1>4. LoopOK'
    BY <1>1, <1>2 DEF NextEntry, IntegrityTypeOK, LoopOK, control
  <1>5. HandOK'
    <2>1. UNCHANGED at => HandOK'
      BY DEF IntegrityTypeOK, HandOK
    <2> QED
      BY <1>1, <1>2, <2>1, StartIsTyped
  <1>6. StackOK'
    <2>1. [Top EXCEPT !.left = @ \ {e}] \in FrameSet
      BY <1>2 DEF FrameSet
    <2>2. stack' = [stack EXCEPT ![Len(stack)] = [Top EXCEPT !.left = @ \ {e}]]
      BY <1>1, <1>2 DEF Top, IntegrityTypeOK, StackOK
    <2> QED
      BY <1>2, <2>1, <2>2 DEF IntegrityTypeOK, StackOK
  <1> QED
    BY <1>3, <1>4, <1>5, <1>6 DEF IntegrityTypeOK

LEMMA LoopStepsAreTyped ==
    ASSUME IntegrityTypeOK,
           EndOfDirectory \/ NextOfBaseline \/ SaveBaseline \/ NextRecord \/ EndOfRecords
    PROVE  IntegrityTypeOK'
  <1>1. FilesOK' /\ VerdictOK'
    BY DEF EndOfDirectory, NextOfBaseline, SaveBaseline, NextRecord, EndOfRecords, history,
           IntegrityTypeOK, FilesOK, VerdictOK
  <1>2. LoopOK'
    <2>1. next' \in Nat \ {0} /\ violations' \in Nat
      BY DEF EndOfDirectory, NextOfBaseline, SaveBaseline, NextRecord, EndOfRecords,
             IntegrityTypeOK, LoopOK
    <2>2. UNCHANGED control /\ lost' \subseteq Paths
      <3>1. UNCHANGED control /\ (lost' = lost \/ EndOfDirectory)
        BY DEF EndOfDirectory, NextOfBaseline, SaveBaseline, NextRecord, EndOfRecords, history
      <3>2. EndOfDirectory => lost' \subseteq Paths
        BY TopIsTyped DEF EndOfDirectory, FrameSet, IntegrityTypeOK, LoopOK
      <3> QED
        BY <3>1, <3>2 DEF IntegrityTypeOK, LoopOK
    <2>3. running' \in BOOLEAN
      <3>1. CASE EndOfDirectory
        BY <3>1 DEF EndOfDirectory
      <3>2. CASE SaveBaseline \/ EndOfRecords
        BY <3>2 DEF SaveBaseline, EndOfRecords
      <3>3. CASE NextOfBaseline \/ NextRecord
        BY <3>3 DEF NextOfBaseline, NextRecord, IntegrityTypeOK, LoopOK
      <3> QED
        BY <3>1, <3>2, <3>3
    <2> QED
      BY <2>1, <2>2, <2>3 DEF control, IntegrityTypeOK, LoopOK
  <1>3. TableOK' /\ KnownOK'
    <2>1. CASE SaveBaseline
      BY <2>1, ForgetIsTyped DEF SaveBaseline, IntegrityTypeOK, TableOK
    <2>2. CASE ~ SaveBaseline
      BY <2>2 DEF EndOfDirectory, NextOfBaseline, NextRecord, EndOfRecords, history,
             IntegrityTypeOK, TableOK, KnownOK
    <2> QED
      BY <2>1, <2>2
  <1>4. StackOK'
    <2>1. CASE EndOfDirectory
      BY <2>1, TopIsTyped DEF EndOfDirectory, IntegrityTypeOK, StackOK
    <2>2. CASE ~ EndOfDirectory
      BY <2>2 DEF NextOfBaseline, SaveBaseline, NextRecord, EndOfRecords, IntegrityTypeOK, StackOK
    <2> QED
      BY <2>1, <2>2
  <1>5. HandOK'
    <2>1. CASE NextOfBaseline
      <3>1. Baseline[next] \in Paths
        BY <2>1, IntegrityAssumption DEF NextOfBaseline, IntegrityTypeOK, LoopOK
      <3> QED
        BY <2>1, <3>1, StartIsTyped DEF NextOfBaseline
    <2>2. CASE NextRecord
      <3>1. records[next] \in RecordSet
        BY <2>2 DEF NextRecord, AllChecked, IntegrityTypeOK, LoopOK, TableOK
      <3>2. records[next].path \in Paths
        BY <3>1 DEF RecordSet, Record
      <3> QED
        BY <2>2, <3>2, StartIsTyped DEF NextRecord
    <2>3. CASE UNCHANGED at
      BY <2>3 DEF IntegrityTypeOK, HandOK
    <2> QED
      BY <2>1, <2>2, <2>3 DEF EndOfDirectory, SaveBaseline, EndOfRecords
  <1> QED
    BY <1>1, <1>2, <1>3, <1>4, <1>5 DEF IntegrityTypeOK

LEMMA CheckStepsAreTyped ==
    ASSUME IntegrityTypeOK, CheckStat \/ CheckHash
    PROVE  IntegrityTypeOK'
  <1>1. at.path \in Paths
    BY DEF CheckStat, CheckHash, IntegrityTypeOK, HandOK
  <1>2. FilesOK' /\ TableOK' /\ KnownOK' /\ StackOK'
    BY DEF CheckStat, CheckHash, IntegrityTypeOK, FilesOK, TableOK, KnownOK, StackOK
  <1>3. ASSUME Conclude("MISSING", NoHash)
        PROVE  VerdictOK' /\ HandOK' /\ violations' \in Nat /\ running' \in BOOLEAN
    BY <1>1, <1>3, ConcludeIsTyped DEF Results
  <1>4. ASSUME NEW hash \in Hashes, Conclude(Result(RecordOf(records, at.path), at.st, hash), hash)
        PROVE  VerdictOK' /\ HandOK' /\ violations' \in Nat /\ running' \in BOOLEAN
    <2>1. hash \in HashValues
      BY HashesAreTyped DEF IntegrityTypeOK
    <2> QED
      BY <1>1, <1>4, <2>1, ConcludeIsTyped, ResultIsTyped
  <1>5. VerdictOK' /\ HandOK' /\ violations' \in Nat /\ running' \in BOOLEAN
    <2>1. CASE CheckStat /\ UNCHANGED <<running, violations, verdicts>>
      <3>1. VerdictOK' /\ violations' \in Nat /\ running' \in BOOLEAN
        BY <2>1 DEF IntegrityTypeOK, VerdictOK, LoopOK
      <3> QED
        BY <1>1, <1>3, <2>1, <3>1, ExaminedIsTyped DEF CheckStat
    <2>2. CASE CheckStat /\ ~ UNCHANGED <<running, violations, verdicts>>
      BY <1>3, <2>2 DEF CheckStat
    <2>3. CASE CheckHash
      BY <1>4, <2>3 DEF CheckHash
    <2> QED
      BY <2>1, <2>2, <2>3
  <1>6. LoopOK'
    BY <1>5 DEF CheckStat, CheckHash, control, IntegrityTypeOK, LoopOK
  <1> QED
    BY <1>2, <1>5, <1>6 DEF IntegrityTypeOK

-----------------------------------------------------------------------------
\* What another program does to the files: only the paths of D change.
Disturbed(D) ==
    /\ D \subseteq Paths /\ fs' \in FileSystem
    /\ \A p \in Paths \ D : fs'[p] = fs[p]
    /\ Elsewhere /\ Notice(D)

LEMMA ChangesAreElsewhere ==
    ASSUME IntegrityTypeOK, NEW p \in Paths, Change(p) \/ Remove(p)
    PROVE  \E D \in SUBSET Paths : Disturbed(D)
  <1>1. CASE Change(p)
    <2>1. fs' \in FileSystem /\ \A q \in Paths \ {p} : fs'[q] = fs[q]
      BY <1>1 DEF Change, IntegrityTypeOK, FilesOK, FileSystem
    <2> QED
      BY <1>1, <2>1 DEF Change, Disturbed
  <1>2. CASE Remove(p)
    <2> DEFINE D == { q \in Tree[p] : fs[q] # Gone }
    <2>1. Tree[p] \subseteq Paths
      BY DEF Tree
    <2>2. fs' = [q \in Paths |-> IF q \in Tree[p] THEN Gone ELSE fs[q]]
      BY <1>2 DEF Remove
    <2>3. fs' \in FileSystem /\ \A q \in Paths \ D : fs'[q] = fs[q]
      BY <2>1, <2>2 DEF IntegrityTypeOK, FilesOK, FileSystem
    <2> QED
      BY <1>2, <2>1, <2>3 DEF Remove, Disturbed
  <1> QED
    BY <1>1, <1>2

LEMMA ElsewhereIsTyped ==
    ASSUME IntegrityTypeOK, NEW D \in SUBSET Paths, Disturbed(D)
    PROVE  IntegrityTypeOK'
  <1>1. FilesOK' /\ TableOK'
    BY DEF Disturbed, Elsewhere, IntegrityTypeOK, FilesOK, TableOK
  <1>2. LoopOK'
    BY DEF Disturbed, Elsewhere, Notice, control, IntegrityTypeOK, LoopOK
  <1>3. KnownOK'
    BY DEF Disturbed, Notice, IntegrityTypeOK, KnownOK, KnownSet
  <1>4. VerdictOK'
    <2>1. ASSUME NEW i \in DOMAIN verdicts PROVE verdicts'[i] \in VerdictSet
      <3>1. verdicts[i] \in VerdictSet
        BY <2>1 DEF IntegrityTypeOK, VerdictOK
      <3>2. verdicts'[i] = IF verdicts[i].path \in D THEN [verdicts[i] EXCEPT !.stale = TRUE]
                           ELSE verdicts[i]
        BY <2>1 DEF Disturbed, Notice
      <3> QED
        BY <3>1, <3>2 DEF VerdictSet
    <2>2. DOMAIN verdicts' = 1..Len(verdicts) /\ DOMAIN verdicts = 1..Len(verdicts)
          /\ Len(verdicts) \in Nat
      BY DEF Disturbed, Notice, IntegrityTypeOK, VerdictOK
    <2>3. verdicts' \in [1..Len(verdicts) -> VerdictSet]
      BY <2>1, <2>2 DEF Disturbed, Notice
    <2> QED
      BY <2>2, <2>3 DEF VerdictOK
  <1>5. StackOK'
    <2> DEFINE moved == { p \in D : fs[p] = Gone \/ fs'[p] = Gone }
    <2>1. PICK given \in [DOMAIN stack -> SUBSET moved] :
             stack' = [i \in DOMAIN stack |->
                         [stack[i] EXCEPT !.left = IF recursive
                            THEN (@ \ moved) \cup (given[i] \cap Entries[stack[i].dir]) ELSE @]]
      BY DEF Disturbed, Notice
    <2>2. moved \subseteq Paths
      OBVIOUS
    <2>3. DOMAIN stack = 1..Len(stack) /\ Len(stack) \in Nat
          /\ \A i \in DOMAIN stack : stack[i] \in FrameSet
      BY DEF IntegrityTypeOK, StackOK
    <2>4. \A i \in DOMAIN stack : stack'[i] \in FrameSet
      BY <2>1, <2>2, <2>3 DEF FrameSet
    <2>5. stack' \in [1..Len(stack) -> FrameSet]
      BY <2>1, <2>3, <2>4
    <2> QED
      BY <2>3, <2>5 DEF StackOK
  <1>6. HandOK'
    <2>1. CASE at' = at
      BY <2>1 DEF IntegrityTypeOK, HandOK
    <2>2. CASE at' # at
      <3>1. /\ at.path \in D
            /\ at' = [at EXCEPT !.seen = @ \cup {fs'[at.path].content}, !.mid = TRUE]
        BY <2>2 DEF Disturbed, Notice
      <3>2. fs'[at.path].content \in Contents \cup {"gone"}
        BY <3>1, AttributesAreThere DEF Disturbed, FileSystem, Gone
      <3> QED
        BY <3>1, <3>2 DEF IntegrityTypeOK, HandOK, HandSet
    <2> QED
      BY <2>1, <2>2
  <1> QED
    BY <1>1, <1>2, <1>3, <1>4, <1>5, <1>6 DEF IntegrityTypeOK

LEMMA StepTypes == IntegrityTypeOK /\ [Next]_vars => IntegrityTypeOK'
  <1> SUFFICES ASSUME IntegrityTypeOK, [Next]_vars PROVE IntegrityTypeOK'
    OBVIOUS
  <1>1. CASE UNCHANGED vars
    BY <1>1 DEF vars, control, history, IntegrityTypeOK, FilesOK, TableOK, HandOK, KnownOK, StackOK,
                VerdictOK, LoopOK
  <1>2. ASSUME NEW p \in Paths, Change(p) \/ Remove(p) PROVE IntegrityTypeOK'
    BY <1>2, ChangesAreElsewhere, ElsewhereIsTyped
  <1> QED
    BY <1>1, <1>2, CallsAreTyped, AddStatIsTyped, AddHashIsTyped, OpenDirectoryIsTyped,
       NextEntryIsTyped, LoopStepsAreTyped, CheckStepsAreTyped DEF Next

\* The table, the buffers of the calls and the histories keep their types.
THEOREM IntegrityTypeCorrect == Spec => []IntegrityTypeOK
  <1> QED
    BY InitTypes, StepTypes, PTL DEF Spec

-----------------------------------------------------------------------------
(* The verdicts.  Between stat and hash of a path that did not change the    *)
(* buffers tell what it is now; a path that did not change since it was      *)
(* first recorded is as it was; the first record tells how that was.         *)

AddCalls   == {"add_file", "add_directory", "create_baseline"}
CheckCalls == {"check_file", "check_all", "integrity"}

CallInv ==
    /\ call \in AddCalls \cup CheckCalls \cup {"none"}
    /\ at.step \in {"open", "add", "hash"} => call \in AddCalls
    /\ at.step = "open" => call = "add_directory"
    /\ at.step \in {"check", "compare"} => call \in CheckCalls
    /\ call \in AddCalls => verdicts = << >>
    /\ ~ running => at = Nothing /\ stack = << >>
    /\ stack # << >> => call = "add_directory"
    /\ call = "none" => ~ running /\ verdicts = << >>

Examined == at.step \in {"hash", "compare"}
ReadInv ==
    /\ ~ Examined => at.st = Gone /\ ~ at.mid
    /\ Examined /\ ~ at.mid => at.st = fs[at.path] /\ at.seen = {at.st.content}
    /\ at.step = "compare" => Recorded(at.path)
    /\ at.step = "compare" /\ at.mid => known[at.path].touched

IsFirst(recs, p, i) ==
    /\ i \in DOMAIN recs /\ recs[i].path = p
    /\ \A j \in DOMAIN recs : recs[j].path = p => i <= j
TellsFirst(recs, k, p) ==
    \E i \in DOMAIN recs, hash \in HashValues :
        /\ IsFirst(recs, p, i)
        /\ recs[i] = Record(p, k.st, hash)
        /\ p \notin Dirs /\ Readable(hash) /\ ~ k.mixed => hash = k.st.content
KnownInv ==
    \A p \in Paths :
        /\ ~ Recorded(p) => known[p] = Unknown
        /\ Recorded(p) =>
             /\ known[p].st \in Attributes
             /\ ~ known[p].touched => ~ known[p].mixed /\ fs[p] = known[p].st
             /\ TellsFirst(records, known[p], p)

\* The inductive invariant.
RInv == IntegrityTypeOK /\ CallInv /\ ReadInv /\ KnownInv /\ VerdictsAreTrue

\* The search of ag_integrity_check_file finds the first record.
LEMMA RecordOfFirst ==
    ASSUME TableOK, NEW p \in Paths, NEW i \in DOMAIN records, IsFirst(records, p, i)
    PROVE  RecordOf(records, p) = records[i]
  <1> DEFINE Least(k) == k \in Positions(records, p) /\ \A j \in Positions(records, p) : k <= j
  <1>1. Least(i)
    BY DEF IsFirst, Positions
  <1>2. \A k : Least(k) => k = i
    BY <1>1 DEF Positions, TableOK
  <1>3. (CHOOSE k \in Positions(records, p) : \A j \in Positions(records, p) : k <= j) = i
    BY <1>1, <1>2
  <1> QED
    BY <1>3 DEF RecordOf

\* What the record that a check looks at tells of the file it was made from.
LEMMA RecordTellsKnown ==
    ASSUME TableOK, KnownInv, NEW p \in Paths, Recorded(p)
    PROVE  /\ RecordOf(records, p).size = Size[known[p].st.content]
           /\ RecordOf(records, p).mode = known[p].st.mode
           /\ RecordOf(records, p).owner = known[p].st.owner
           /\ RecordOf(records, p).is_directory = (p \in Dirs)
           /\ p \notin Dirs /\ Readable(RecordOf(records, p).hash) /\ ~ known[p].mixed
                => RecordOf(records, p).hash = known[p].st.content
  <1>1. PICK i \in DOMAIN records, hash \in HashValues :
            /\ IsFirst(records, p, i) /\ records[i] = Record(p, known[p].st, hash)
            /\ p \notin Dirs /\ Readable(hash) /\ ~ known[p].mixed => hash = known[p].st.content
    BY DEF KnownInv, TellsFirst
  <1>2. RecordOf(records, p) = Record(p, known[p].st, hash)
    BY <1>1, RecordOfFirst
  <1> QED
    BY <1>1, <1>2 DEF Record

\* A verdict that is reached with a hash.
LEMMA ComparedIsTrue ==
    ASSUME RInv, at.step = "compare", NEW hash \in Hashes, NEW v \in VerdictSet,
           v.path = at.path, v.hash = hash, v.stale = at.mid,
           v.result = Result(RecordOf(records, at.path), at.st, hash)
    PROVE  OkMeansUnchanged(v) /\ AlarmMeansChanged(v)
  <1> DEFINE p == at.path
             rec == RecordOf(records, p)
  <1>1. p \in Paths /\ Recorded(p) /\ at.st \in Attributes /\ known[p].st \in Attributes
    BY DEF RInv, IntegrityTypeOK, HandOK, ReadInv, KnownInv
  <1>2. /\ rec.size = Size[known[p].st.content] /\ rec.mode = known[p].st.mode
        /\ rec.owner = known[p].st.owner /\ rec.is_directory = (p \in Dirs)
        /\ p \notin Dirs /\ Readable(rec.hash) /\ ~ known[p].mixed => rec.hash = known[p].st.content
    BY <1>1, RecordTellsKnown DEF RInv, IntegrityTypeOK
  <1>3. ~ at.mid => at.st = fs[p] /\ fs[p] # Gone /\ fs[p].content \in Contents
    BY <1>1, AttributesAreThere DEF RInv, ReadInv, Examined
  <1>4. ~ at.mid /\ p \notin Dirs => hash \in {fs[p].content, Short, Failed}
    BY <1>1, <1>3 DEF RInv, ReadInv, Examined, Hashes
  <1>5. ASSUME v.result = "OK", ~ v.stale
        PROVE  /\ SameAttributes(p)
               /\ Readable(hash) /\ RecordedWell(p) /\ ~ known[p].mixed => SameContent(p)
    <2>1. ~ HashDiffers(rec, hash) /\ at.st.owner = rec.owner /\ at.st.mode = rec.mode
          /\ Size[at.st.content] = rec.size
      BY <1>5 DEF Result
    <2>2. SameAttributes(p)
      BY <1>2, <1>3, <1>5, <2>1 DEF SameAttributes
    <2>3. ASSUME Readable(hash), RecordedWell(p), ~ known[p].mixed, p \notin Dirs
          PROVE  fs[p].content = known[p].st.content
      <3>1. hash = fs[p].content /\ rec.hash = known[p].st.content
        BY <1>2, <1>4, <1>5, <2>3 DEF Readable, RecordedWell
      <3>2. hash = rec.hash
        BY <1>2, <2>1, <2>3 DEF HashDiffers, Readable
      <3> QED
        BY <3>1, <3>2
    <2> QED
      BY <2>2, <2>3 DEF SameContent
  <1>6. ASSUME hash # Short, RecordedWell(p), ~ at.mid, ~ known[p].mixed,
               SameAttributes(p), SameContent(p)
        PROVE  v.result = "OK"
    <2>1. ~ HashDiffers(rec, hash)
      <3>1. CASE p \in Dirs
        BY <1>2, <3>1 DEF HashDiffers
      <3>2. CASE p \notin Dirs
        BY <1>2, <1>4, <1>6, <3>2 DEF HashDiffers, RecordedWell, SameContent
      <3> QED
        BY <3>1, <3>2
    <2> QED
      BY <1>2, <1>3, <1>6, <2>1 DEF Result, SameAttributes
  <1>7. ~ known[p].touched => /\ ~ at.mid /\ ~ known[p].mixed
                              /\ SameAttributes(p) /\ SameContent(p)
    <2>1. ~ known[p].touched => ~ at.mid /\ ~ known[p].mixed /\ fs[p] = known[p].st
      BY <1>1 DEF RInv, ReadInv, KnownInv
    <2> QED
      BY <1>1, <2>1, AttributesAreThere DEF SameAttributes, SameContent
  <1> QED
    BY <1>5, <1>6, <1>7 DEF OkMeansUnchanged, AlarmMeansChanged

\* A verdict that is reached without.
LEMMA MissingIsTrue ==
    ASSUME RInv, at.step = "check", NEW v \in VerdictSet,
           v.path = at.path, v.result = "MISSING", v.denied = (fs[at.path] # Gone)
    PROVE  OkMeansUnchanged(v) /\ AlarmMeansChanged(v)
  <1>1. at.path \in Paths
    BY DEF RInv, IntegrityTypeOK, HandOK
  <1>2. ASSUME Recorded(at.path), fs[at.path] = Gone PROVE known[at.path].touched
    BY <1>1, <1>2, AttributesAreThere DEF RInv, KnownInv
  <1> QED
    BY <1>2 DEF OkMeansUnchanged, AlarmMeansChanged, SameAttributes

-----------------------------------------------------------------------------
LEMMA KnownKept ==
    ASSUME KnownInv, UNCHANGED <<fs, records, known>>
    PROVE  KnownInv'
  BY DEF KnownInv, Recorded, Positions, TellsFirst, IsFirst, Record, Readable

LEMMA KnownForgotten ==
    ASSUME Forget
    PROVE  KnownInv'
  <1>1. \A p \in Paths : known'[p] = Unknown /\ ~ Recorded(p)'
    BY DEF Forget, Recorded, Positions
  <1> QED
    BY <1>1 DEF KnownInv

LEMMA VerdictsKept ==
    ASSUME VerdictsAreTrue, UNCHANGED <<fs, records, known, verdicts>>
    PROVE  VerdictsAreTrue'
  BY DEF VerdictsAreTrue, OkMeansUnchanged, AlarmMeansChanged, SameAttributes, SameContent,
         RecordedWell, Recorded, RecordOf, Positions, Readable

LEMMA NoVerdicts ==
    ASSUME verdicts' = << >>
    PROVE  VerdictsAreTrue'
  BY DEF VerdictsAreTrue

LEMMA InitRInv == Init => RInv
  <1> SUFFICES ASSUME Init PROVE RInv
    OBVIOUS
  <1>1. CallInv /\ ReadInv
    BY NothingIsTyped DEF Init, CallInv, ReadInv, Examined, Nothing
  <1>2. KnownInv /\ VerdictsAreTrue
    BY DEF Init, KnownInv, Recorded, Positions, VerdictsAreTrue
  <1> QED
    BY <1>1, <1>2, InitTypes DEF RInv

LEMMA CallsKeepRInv ==
    ASSUME RInv,
           \/ \E p \in Paths : AddFile(p) \/ AddDirectory(p) \/ CheckFile(p) \/ RunIntegrityCheck(p)
           \/ CheckAll \/ CreateBaseline
    PROVE  CallInv' /\ ReadInv' /\ KnownInv' /\ VerdictsAreTrue'
  <1>1. fs' = fs /\ verdicts' = << >> /\ stack' = << >>
    BY DEF AddFile, AddDirectory, CheckFile, CheckAll, CreateBaseline, RunIntegrityCheck, Begin
  <1>2. KnownInv'
    BY <1>1, KnownKept, KnownForgotten
    DEF AddFile, AddDirectory, CheckFile, CheckAll, CreateBaseline, RunIntegrityCheck, Table, RInv
  <1>3. CallInv'
    BY <1>1, NothingIsTyped, StartIsTyped
    DEF AddFile, AddDirectory, CheckFile, CheckAll, CreateBaseline, RunIntegrityCheck, Begin, Start,
        Nothing, CallInv, AddCalls, CheckCalls
  <1>4. ReadInv'
    <2>1. at' = Nothing => ReadInv'
      BY DEF Nothing, ReadInv, Examined
    <2>2. ASSUME NEW p, NEW step \in {"open", "add", "check"}, Start(step, p) PROVE ReadInv'
      <3>1. at'.step = step /\ at'.st = Gone /\ at'.mid = FALSE
        BY <2>2 DEF Start, Nothing
      <3> QED
        BY <3>1 DEF ReadInv, Examined
    <2> QED
      BY <2>1, <2>2
      DEF AddFile, AddDirectory, CheckFile, CheckAll, CreateBaseline, RunIntegrityCheck
  <1> QED
    BY <1>1, <1>2, <1>3, <1>4, NoVerdicts

LEMMA ResumeKeeps ==
    ASSUME RInv, Resume, at.step # "none", stack' = stack, call' = call,
           call \in AddCalls => verdicts' = << >>
    PROVE  CallInv' /\ ReadInv'
  <1>1. running /\ call # "none"
    BY NothingIsTyped DEF RInv, CallInv
  <1>2. at' = Nothing
    BY DEF Resume
  <1>3. CallInv'
    <2>1. at'.step = "none"
      BY <1>2 DEF Nothing
    <2>2. ~ running' => stack' = << >>
      BY DEF RInv, CallInv, Resume
    <2> QED
      BY <1>1, <1>2, <2>1, <2>2 DEF RInv, CallInv
  <1>4. ReadInv'
    BY <1>2 DEF ReadInv, Examined, Nothing
  <1> QED
    BY <1>3, <1>4

LEMMA AddStatKeepsRInv ==
    ASSUME RInv, AddStat
    PROVE  CallInv' /\ ReadInv' /\ KnownInv' /\ VerdictsAreTrue'
  <1>1. UNCHANGED <<fs, records, known, verdicts, stack, call>>
    BY DEF AddStat, control
  <1>2. KnownInv' /\ VerdictsAreTrue'
    BY <1>1, KnownKept, VerdictsKept DEF RInv
  <1>3. CASE Resume
    BY <1>1, <1>2, <1>3, ResumeKeeps DEF AddStat, RInv, CallInv
  <1>4. ASSUME NEW st \in StatOf(at.path), st # Gone, UNCHANGED running,
               at' = [at EXCEPT !.step = "hash", !.st = st, !.seen = {st.content}]
        PROVE  CallInv' /\ ReadInv'
    <2>1. /\ at'.step = "hash" /\ at'.path = at.path /\ at'.st = st /\ at'.seen = {st.content}
          /\ st = fs[at.path]
      BY <1>4 DEF StatOf, RInv, IntegrityTypeOK, HandOK, HandSet
    <2>2. running
      BY NothingIsTyped DEF AddStat, RInv, CallInv
    <2>3. CallInv'
      BY <1>1, <1>4, <2>1, <2>2 DEF AddStat, RInv, CallInv
    <2>4. ReadInv'
      BY <1>1, <2>1 DEF ReadInv, Examined
    <2> QED
      BY <2>3, <2>4
  <1> QED
    BY <1>2, <1>3, <1>4 DEF AddStat

LEMMA AddHashKeepsRInv ==
    ASSUME RInv, AddHash
    PROVE  CallInv' /\ ReadInv' /\ KnownInv' /\ VerdictsAreTrue'
  <1>0. PICK p \in Paths : p = at.path
    BY DEF AddHash, RInv, IntegrityTypeOK, HandOK
  <1>1. /\ at.st \in Attributes /\ call \in AddCalls
        /\ verdicts = << >> /\ at.mid \in BOOLEAN
    BY DEF AddHash, RInv, IntegrityTypeOK, HandOK, HandSet, CallInv
  <1>2. UNCHANGED <<fs, verdicts, stack, call>> /\ Resume
    BY DEF AddHash, control
  <1>3. CallInv' /\ ReadInv' /\ VerdictsAreTrue'
    BY <1>1, <1>2, ResumeKeeps, NoVerdicts DEF AddHash
  <1>4. PICK hash \in Hashes : records' = Append(records, Record(p, at.st, hash))
    BY <1>0 DEF AddHash
  <1> DEFINE rec == Record(p, at.st, hash)
  <1>5. rec.path = p /\ hash \in HashValues
    BY <1>4, HashesAreTyped DEF Record, RInv, IntegrityTypeOK
  <1>6. rec \in RecordSet
    BY <1>1, <1>5 DEF RecordSet
  <1> HIDE DEF rec
  <1>7. /\ DOMAIN records = 1..Len(records) /\ DOMAIN records' = 1..(Len(records) + 1)
        /\ Len(records) \in Nat
        /\ records'[Len(records) + 1] = rec
        /\ \A i \in DOMAIN records : records'[i] = records[i]
    BY <1>4, <1>6 DEF rec, RInv, IntegrityTypeOK, TableOK
  <1>8. ASSUME NEW q \in Paths, Recorded(q)
        PROVE  /\ known'[q] = known[q] /\ Recorded(q)' /\ TellsFirst(records', known[q], q)
    <2>1. known'[q] = known[q]
      BY <1>0, <1>8 DEF AddHash, Recorded, RInv, IntegrityTypeOK, KnownOK
    <2>2. PICK i \in DOMAIN records, h \in HashValues :
              /\ IsFirst(records, q, i) /\ records[i] = Record(q, known[q].st, h)
              /\ q \notin Dirs /\ Readable(h) /\ ~ known[q].mixed => h = known[q].st.content
      BY <1>8 DEF RInv, KnownInv, TellsFirst
    <2>3. i \in DOMAIN records' /\ records'[i] = records[i] /\ i <= Len(records)
      BY <1>7
    <2>4. IsFirst(records', q, i)
      BY <1>7, <2>2, <2>3 DEF IsFirst
    <2>5. Recorded(q)'
      BY <2>4 DEF IsFirst, Recorded, Positions
    <2> QED
      BY <2>1, <2>2, <2>3, <2>4, <2>5 DEF TellsFirst
  <1>9. ASSUME ~ Recorded(p)
        PROVE  /\ known'[p] = [st |-> at.st, mixed |-> at.mid, touched |-> at.mid]
               /\ Recorded(p)' /\ TellsFirst(records', known'[p], p)
    <2>1. known'[p] = [st |-> at.st, mixed |-> at.mid, touched |-> at.mid]
      BY <1>0, <1>1, <1>9 DEF AddHash, Recorded, RInv, IntegrityTypeOK, KnownOK
    <2>2. \A j \in DOMAIN records : records[j].path # p
      BY <1>9 DEF Recorded, Positions
    <2>3. IsFirst(records', p, Len(records) + 1)
      BY <1>5, <1>7, <2>2 DEF IsFirst, rec
    <2>4. p \notin Dirs /\ Readable(hash) /\ ~ at.mid => hash = at.st.content
      BY <1>0 DEF AddHash, Hashes, Readable, RInv, ReadInv, Examined
    <2>5. Recorded(p)'
      BY <2>3 DEF IsFirst, Recorded, Positions
    <2>6. Len(records) + 1 \in DOMAIN records'
      BY <1>7
    <2> QED
      BY <1>5, <1>7, <2>1, <2>3, <2>4, <2>5, <2>6 DEF TellsFirst, rec
  <1>10. ASSUME NEW q \in Paths, ~ Recorded(q), q # p
         PROVE  ~ Recorded(q)' /\ known'[q] = known[q]
    <2>1. ~ Recorded(q)'
      BY <1>5, <1>7, <1>10 DEF Recorded, Positions, rec
    <2> QED
      BY <1>0, <1>10, <2>1 DEF AddHash, RInv, IntegrityTypeOK, KnownOK
  <1>11. ~ at.mid => fs[p] = at.st
    BY <1>0 DEF AddHash, RInv, ReadInv, Examined
  <1>12. ASSUME NEW q \in Paths
         PROVE  /\ ~ Recorded(q)' => known'[q] = Unknown
                /\ Recorded(q)' =>
                     /\ known'[q].st \in Attributes
                     /\ ~ known'[q].touched => ~ known'[q].mixed /\ fs[q] = known'[q].st
                     /\ TellsFirst(records', known'[q], q)
    <2>1. CASE Recorded(q)
      BY <1>8, <2>1 DEF RInv, KnownInv
    <2>2. CASE ~ Recorded(q) /\ q = p
      BY <1>1, <1>9, <1>11, <2>2
    <2>3. CASE ~ Recorded(q) /\ q # p
      BY <1>10, <2>3 DEF RInv, KnownInv
    <2> QED
      BY <2>1, <2>2, <2>3
  <1>13. KnownInv'
    BY <1>2, <1>12 DEF KnownInv, TellsFirst, IsFirst, Record, Readable
  <1> QED
    BY <1>3, <1>13

LEMMA WalkStepsKeepRInv ==
    ASSUME RInv, OpenDirectory \/ NextEntry \/ EndOfDirectory
    PROVE  CallInv' /\ ReadInv' /\ KnownInv' /\ VerdictsAreTrue'
  <1>1. UNCHANGED <<fs, records, known, verdicts, call>>
    BY DEF OpenDirectory, NextEntry, EndOfDirectory, control, history
  <1>2. KnownInv' /\ VerdictsAreTrue'
    BY <1>1, KnownKept, VerdictsKept DEF RInv
  <1>3. running /\ call = "add_directory"
    BY NothingIsTyped DEF OpenDirectory, NextEntry, EndOfDirectory, RInv, CallInv
  <1>4. at' = at \/ at' = Nothing \/ \E p \in Paths : Start("open", p) \/ Start("add", p)
    <2>1. OpenDirectory => at.path \in Paths
      BY DEF OpenDirectory, RInv, IntegrityTypeOK, HandOK
    <2>2. NextEntry => Top.left \subseteq Paths
      BY TopIsTyped DEF NextEntry, RInv, IntegrityTypeOK, FrameSet
    <2> QED
      BY <2>1, <2>2 DEF OpenDirectory, NextEntry, EndOfDirectory
  <1>5. at' = at \/ (at'.step \in {"none", "open", "add"} /\ at'.st = Gone /\ at'.mid = FALSE)
    <2>1. ASSUME NEW p, NEW step \in {"open", "add"}, Start(step, p)
          PROVE  at'.step = step /\ at'.st = Gone /\ at'.mid = FALSE
      BY <2>1 DEF Start, Nothing
    <2>2. at' = Nothing => at'.step = "none" /\ at'.st = Gone /\ at'.mid = FALSE
      BY DEF Nothing
    <2>3. CASE at' = at
      BY <2>3
    <2>4. CASE at' = Nothing
      BY <2>2, <2>4
    <2>5. CASE \E p \in Paths : Start("open", p) \/ Start("add", p)
      BY <2>1, <2>5
    <2> QED
      BY <1>4, <2>3, <2>4, <2>5
  <1>6. ~ running' => at' = Nothing /\ stack' = << >>
    <2>1. CASE OpenDirectory
      BY <1>3, <2>1 DEF OpenDirectory
    <2>2. CASE NextEntry
      BY <1>3, <2>2 DEF NextEntry
    <2>3. CASE EndOfDirectory
      <3>1. at' = Nothing
        BY <2>3 DEF EndOfDirectory
      <3>2. Len(stack) = 1 \/ Len(stack) > 1
        <4>1. PICK n \in Nat \ {0} : n = Len(stack)
          BY <2>3, TopIsTyped DEF EndOfDirectory, RInv, IntegrityTypeOK
        <4>2. n = 1 \/ n > 1
          OBVIOUS
        <4> QED
          BY <4>1, <4>2
      <3>3. ASSUME ~ running' PROVE Len(stack) = 1
        BY <2>3, <3>2, <3>3, Zenon DEF EndOfDirectory
      <3>4. Len(stack) = 1 => stack' = << >>
        BY <2>3 DEF EndOfDirectory, RInv, IntegrityTypeOK, StackOK
      <3> QED
        BY <3>1, <3>3, <3>4
    <2> QED
      BY <2>1, <2>2, <2>3
  <1>7. CallInv'
    BY <1>1, <1>3, <1>5, <1>6 DEF RInv, CallInv, AddCalls
  <1>8. ReadInv'
    BY <1>1, <1>5 DEF RInv, ReadInv, Examined, Recorded, Positions
  <1> QED
    BY <1>2, <1>7, <1>8

LEMMA LoopStepsKeepRInv ==
    ASSUME RInv, NextOfBaseline \/ SaveBaseline \/ NextRecord \/ EndOfRecords
    PROVE  CallInv' /\ ReadInv' /\ KnownInv' /\ VerdictsAreTrue'
  <1>1. UNCHANGED <<fs, verdicts, call, stack>> /\ running /\ at = Nothing
    BY DEF NextOfBaseline, SaveBaseline, NextRecord, EndOfRecords, control, history
  <1>2. /\ call = "create_baseline" \/ call = "check_all"
        /\ call = "check_all" => ~ SaveBaseline /\ ~ NextOfBaseline
        /\ call = "create_baseline" => ~ NextRecord /\ ~ EndOfRecords
    BY DEF NextOfBaseline, SaveBaseline, NextRecord, EndOfRecords
  <1>3. KnownInv' /\ VerdictsAreTrue'
    <2>1. CASE SaveBaseline
      <3>1. verdicts = << >>
        BY <1>2, <2>1 DEF RInv, CallInv, AddCalls
      <3> QED
        BY <1>1, <2>1, <3>1, KnownForgotten, NoVerdicts DEF SaveBaseline
    <2>2. CASE ~ SaveBaseline
      <3>1. UNCHANGED <<fs, records, known, verdicts>>
        BY <2>2 DEF NextOfBaseline, NextRecord, EndOfRecords, history
      <3> QED
        BY <3>1, KnownKept, VerdictsKept DEF RInv
    <2> QED
      BY <2>1, <2>2
  <1>4. /\ at'.st = Gone /\ at'.mid = FALSE
        /\ at'.step = IF NextOfBaseline THEN "add" ELSE IF NextRecord THEN "check" ELSE "none"
    <2>1. CASE NextOfBaseline
      BY <2>1 DEF NextOfBaseline, Start, Nothing
    <2>2. CASE NextRecord
      BY <1>2, <2>2 DEF NextRecord, Start, Nothing
    <2>3. CASE (SaveBaseline \/ EndOfRecords) /\ ~ NextOfBaseline /\ ~ NextRecord
      BY <1>1, <2>3 DEF SaveBaseline, EndOfRecords, Nothing
    <2> QED
      BY <2>1, <2>2, <2>3
  <1>5. ~ running' => at' = Nothing /\ stack' = << >>
    <2>1. stack = << >>
      BY <1>2 DEF RInv, CallInv
    <2> QED
      BY <1>1, <2>1 DEF NextOfBaseline, SaveBaseline, NextRecord, EndOfRecords
  <1>6. CallInv'
    BY <1>1, <1>2, <1>4, <1>5 DEF RInv, CallInv, AddCalls, CheckCalls
  <1>7. ReadInv'
    BY <1>4 DEF ReadInv, Examined
  <1> QED
    BY <1>3, <1>6, <1>7

\* A verdict that is added is true, and those before it stay so.
LEMMA ConcludeKeeps ==
    ASSUME RInv, at.step \in {"check", "compare"}, UNCHANGED <<fs, records, known, stack, control>>,
           NEW result \in Results, NEW hash \in HashValues \cup {NoHash}, Conclude(result, hash),
           \A v \in VerdictSet :
              /\ v.path = at.path /\ v.result = result /\ v.hash = hash /\ v.stale = at.mid
              /\ v.denied = (at.st = Gone /\ fs[at.path] # Gone)
              => OkMeansUnchanged(v) /\ AlarmMeansChanged(v)
    PROVE  CallInv' /\ ReadInv' /\ KnownInv' /\ VerdictsAreTrue'
  <1> DEFINE v == [path |-> at.path, result |-> result, hash |-> hash,
                   denied |-> at.st = Gone /\ fs[at.path] # Gone, stale |-> at.mid]
  <1>1. v \in VerdictSet
    BY DEF RInv, IntegrityTypeOK, HandOK, HandSet, VerdictSet
  <1>2. verdicts' = Append(verdicts, v) /\ Resume
    BY DEF Conclude
  <1>3. OkMeansUnchanged(v) /\ AlarmMeansChanged(v)
    BY <1>1
  <1> HIDE DEF v
  <1>4. call \notin AddCalls
    BY DEF RInv, CallInv, AddCalls, CheckCalls
  <1>5. CallInv' /\ ReadInv' /\ KnownInv'
    BY <1>2, <1>4, ResumeKeeps, KnownKept DEF RInv, control
  <1>6. \A i \in DOMAIN verdicts' :
           OkMeansUnchanged(verdicts'[i]) /\ AlarmMeansChanged(verdicts'[i])
    <2>1. /\ DOMAIN verdicts' = DOMAIN verdicts \cup {Len(verdicts) + 1}
          /\ verdicts'[Len(verdicts) + 1] = v
          /\ \A i \in DOMAIN verdicts : verdicts'[i] = verdicts[i]
      BY <1>1, <1>2 DEF RInv, IntegrityTypeOK, VerdictOK
    <2> QED
      BY <1>3, <2>1 DEF RInv, VerdictsAreTrue
  <1>7. VerdictsAreTrue'
    <2>1. SUFFICES ASSUME NEW i \in DOMAIN verdicts'
                   PROVE  OkMeansUnchanged(verdicts[i])' /\ AlarmMeansChanged(verdicts[i])'
      BY DEF VerdictsAreTrue
    <2>2. OkMeansUnchanged(verdicts'[i]) /\ AlarmMeansChanged(verdicts'[i])
      BY <1>6
    <2>3. OkMeansUnchanged(verdicts[i])'
      BY <2>2 DEF OkMeansUnchanged, SameAttributes, SameContent, RecordedWell, RecordOf, Positions,
                  Readable
    <2>4. AlarmMeansChanged(verdicts[i])'
      BY <2>2 DEF AlarmMeansChanged, SameAttributes, SameContent, RecordedWell, Recorded, RecordOf,
                  Positions, Readable
    <2> QED
      BY <2>3, <2>4
  <1> QED
    BY <1>5, <1>7

LEMMA CheckStepsKeepRInv ==
    ASSUME RInv, CheckStat \/ CheckHash
    PROVE  CallInv' /\ ReadInv' /\ KnownInv' /\ VerdictsAreTrue'
  <1>1. UNCHANGED <<fs, records, known, stack, control>> /\ at.step \in {"check", "compare"}
    BY DEF CheckStat, CheckHash
  <1>2. CASE CheckHash
    <2>1. at.step = "compare"
      BY <1>2 DEF CheckHash
    <2>2. PICK hash \in Hashes : Conclude(Result(RecordOf(records, at.path), at.st, hash), hash)
      BY <1>2 DEF CheckHash
    <2>3. hash \in HashValues
      BY HashesAreTyped DEF RInv, IntegrityTypeOK
    <2>4. \A v \in VerdictSet :
            /\ v.path = at.path /\ v.result = Result(RecordOf(records, at.path), at.st, hash)
            /\ v.hash = hash /\ v.stale = at.mid
            => OkMeansUnchanged(v) /\ AlarmMeansChanged(v)
      BY <2>1, ComparedIsTrue
    <2> QED
      BY <1>1, <2>2, <2>3, <2>4, ConcludeKeeps, ResultIsTyped
  <1>3. CASE CheckStat /\ Conclude("MISSING", NoHash)
    <2>1. at.step = "check" /\ at.st = Gone
      BY <1>3 DEF CheckStat, RInv, ReadInv, Examined
    <2>2. \A v \in VerdictSet :
            /\ v.path = at.path /\ v.result = "MISSING"
            /\ v.denied = (at.st = Gone /\ fs[at.path] # Gone)
            => OkMeansUnchanged(v) /\ AlarmMeansChanged(v)
      <3>1. TAKE v \in VerdictSet
      <3>2. HAVE /\ v.path = at.path /\ v.result = "MISSING"
                 /\ v.denied = (at.st = Gone /\ fs[at.path] # Gone)
      <3>3. v.denied = (fs[at.path] # Gone)
        BY <2>1, <3>2
      <3> QED
        BY <2>1, <3>2, <3>3, MissingIsTrue
    <2>3. "MISSING" \in Results
      BY DEF Results
    <2> QED
      BY <1>1, <1>3, <2>2, <2>3, ConcludeKeeps
  <1>4. CASE CheckStat /\ ~ Conclude("MISSING", NoHash)
    <2>1. PICK st \in StatOf(at.path) :
            /\ Positions(records, at.path) # {} /\ st # Gone
            /\ at' = [at EXCEPT !.step = "compare", !.st = st, !.seen = {st.content}]
            /\ UNCHANGED <<running, violations, verdicts>>
      BY <1>4 DEF CheckStat
    <2>2. /\ at'.step = "compare" /\ at'.path = at.path /\ at'.st = st /\ at'.seen = {st.content}
          /\ at'.mid = at.mid /\ st = fs[at.path] /\ at.mid = FALSE
      BY <1>4, <2>1 DEF CheckStat, StatOf, RInv, IntegrityTypeOK, HandOK, HandSet, ReadInv, Examined
    <2>3. running
      BY <1>1, NothingIsTyped DEF RInv, CallInv
    <2>4. CallInv'
      BY <1>1, <2>1, <2>2, <2>3 DEF RInv, CallInv, control, AddCalls, CheckCalls
    <2>5. ReadInv'
      BY <1>1, <2>1, <2>2 DEF ReadInv, Examined, Recorded, Positions
    <2> QED
      BY <1>1, <2>1, <2>4, <2>5, KnownKept, VerdictsKept DEF RInv
  <1> QED
    BY <1>2, <1>3, <1>4

\* A change of the paths D.
LEMMA DisturbedKeepsRInv ==
    ASSUME RInv, NEW D \in SUBSET Paths, Disturbed(D)
    PROVE  CallInv' /\ ReadInv' /\ KnownInv' /\ VerdictsAreTrue'
  <1>1. /\ UNCHANGED <<records, running, call>>
        /\ \A p \in Paths \ D : fs'[p] = fs[p]
    BY DEF Disturbed, Elsewhere, control
  <1>2. /\ \A p \in Paths : known'[p] = IF p \in D /\ known[p].st # Gone
                                      THEN [known[p] EXCEPT !.touched = TRUE] ELSE known[p]
        /\ \A p \in Paths : known[p] \in KnownSet
    BY DEF Disturbed, Notice, RInv, IntegrityTypeOK, KnownOK
  <1>3. \A p \in Paths :
          /\ known'[p].st = known[p].st /\ known'[p].mixed = known[p].mixed
          /\ known[p].touched => known'[p].touched
          /\ p \notin D => known'[p] = known[p]
          /\ p \in D /\ known[p].st # Gone => known'[p].touched
    BY <1>2 DEF KnownSet
  <1>4. /\ at'.step = at.step /\ at'.path = at.path /\ at'.st = at.st
        /\ at' = IF at.path \in D /\ at.st # Gone
                    THEN [at EXCEPT !.seen = @ \cup {fs'[at.path].content}, !.mid = TRUE] ELSE at
        /\ at.path \in D /\ at.st # Gone => at'.mid
        /\ ~ (at.path \in D /\ at.st # Gone) => at' = at
    BY DEF Disturbed, Notice, RInv, IntegrityTypeOK, HandOK, HandSet
  <1>5. Len(stack') = Len(stack) /\ (stack = << >> => stack' = << >>)
        /\ (stack' # << >> => stack # << >>)
    BY DEF Disturbed, Notice, RInv, IntegrityTypeOK, StackOK
  <1>6. verdicts = << >> => verdicts' = << >>
    BY DEF Disturbed, Notice
  <1>7. CallInv'
    <2>1. at = Nothing => at' = Nothing
      BY <1>4 DEF Nothing
    <2> QED
      BY <1>1, <1>4, <1>5, <1>6, <2>1 DEF RInv, CallInv
  <1>8. ReadInv'
    <2>1. Examined' = Examined /\ (Examined => at.path \in Paths /\ at.st # Gone)
      BY <1>4, AttributesAreThere DEF Examined, RInv, IntegrityTypeOK, HandOK
    <2>2. Examined /\ ~ at'.mid => at' = at /\ fs'[at.path] = fs[at.path]
      BY <1>1, <1>4, <2>1
    <2>3. at.step = "compare" /\ at'.mid => known'[at.path].touched
      <3>1. at.step = "compare" => Recorded(at.path) /\ at.path \in Paths
        BY DEF RInv, IntegrityTypeOK, HandOK, ReadInv
      <3>2. at.step = "compare" => known[at.path].st # Gone
        BY <3>1, AttributesAreThere DEF RInv, KnownInv
      <3> QED
        BY <1>3, <1>4, <3>1, <3>2 DEF RInv, ReadInv
    <2>4. Recorded(at.path)' = Recorded(at.path)
      BY <1>1, <1>4 DEF Recorded, Positions
    <2>5. ~ Examined => at' = at
      BY <1>4 DEF RInv, ReadInv
    <2> QED
      BY <1>4, <2>1, <2>2, <2>3, <2>4, <2>5 DEF RInv, ReadInv
  <1>9. KnownInv'
    <2>1. \A p \in Paths : Recorded(p)' = Recorded(p)
      BY <1>1 DEF Recorded, Positions
    <2>2. ASSUME NEW p \in Paths, ~ Recorded(p) PROVE known'[p] = Unknown
      <3>1. known[p] = Unknown
        BY <2>2 DEF RInv, KnownInv
      <3>2. known[p].st = Gone
        BY <3>1 DEF Unknown
      <3> QED
        BY <1>2, <3>1, <3>2
    <2>3. ASSUME NEW p \in Paths, Recorded(p)
          PROVE  /\ known'[p].st \in Attributes
                 /\ ~ known'[p].touched => ~ known'[p].mixed /\ fs'[p] = known'[p].st
                 /\ TellsFirst(records', known'[p], p)
      <3>1. /\ known[p].st \in Attributes /\ known[p].st # Gone
            /\ ~ known[p].touched => ~ known[p].mixed /\ fs[p] = known[p].st
            /\ TellsFirst(records, known[p], p)
        BY <2>3, AttributesAreThere DEF RInv, KnownInv
      <3>2. ~ known'[p].touched => ~ known'[p].mixed /\ fs'[p] = known'[p].st
        BY <1>1, <1>3, <3>1
      <3>3. TellsFirst(records', known'[p], p)
        BY <1>1, <1>3, <3>1 DEF TellsFirst
      <3> QED
        BY <1>3, <3>1, <3>2, <3>3
    <2> QED
      BY <2>1, <2>2, <2>3 DEF KnownInv, TellsFirst, IsFirst, Record, Readable
  <1>10. VerdictsAreTrue'
    <2>1. DOMAIN verdicts' = DOMAIN verdicts
      BY DEF Disturbed, Notice
    <2>2. ASSUME NEW i \in DOMAIN verdicts
          PROVE  OkMeansUnchanged(verdicts[i])' /\ AlarmMeansChanged(verdicts[i])'
      <3>0. PICK w : w = verdicts[i]
        OBVIOUS
      <3>1. w \in VerdictSet /\ w.path \in Paths
        <4>1. verdicts[i] \in VerdictSet
          BY DEF RInv, IntegrityTypeOK, VerdictOK
        <4> QED
          BY <3>0, <4>1 DEF VerdictSet
      <3>2. verdicts'[i] = IF w.path \in D THEN [w EXCEPT !.stale = TRUE] ELSE w
        BY <3>0 DEF Disturbed, Notice
      <3>3. /\ verdicts'[i].path = w.path /\ verdicts'[i].result = w.result
            /\ verdicts'[i].hash = w.hash /\ verdicts'[i].denied = w.denied
            /\ ~ verdicts'[i].stale => w.path \notin D /\ ~ w.stale
        BY <3>1, <3>2 DEF VerdictSet
      <3>4. ~ verdicts'[i].stale => fs'[w.path] = fs[w.path] /\ known'[w.path] = known[w.path]
        BY <1>1, <1>3, <3>1, <3>3
      <3>5. OkMeansUnchanged(w) /\ AlarmMeansChanged(w)
        BY <3>0 DEF RInv, VerdictsAreTrue
      <3>6. OkMeansUnchanged(verdicts[i])'
        BY <1>1, <3>3, <3>4, <3>5
        DEF OkMeansUnchanged, SameAttributes, SameContent, RecordedWell, RecordOf, Positions, Readable
      <3>7. AlarmMeansChanged(verdicts[i])'
        BY <1>1, <1>3, <3>1, <3>3, <3>4, <3>5
        DEF AlarmMeansChanged, SameAttributes, SameContent, RecordedWell, Recorded, RecordOf,
            Positions, Readable
      <3> QED
        BY <3>6, <3>7
    <2> QED
      BY <2>1, <2>2 DEF VerdictsAreTrue
  <1> QED
    BY <1>7, <1>8, <1>9, <1>10

LEMMA StepRInv == RInv /\ [Next]_vars => RInv'
  <1> SUFFICES ASSUME RInv, [Next]_vars PROVE RInv'
    OBVIOUS
  <1>1. IntegrityTypeOK'
    BY StepTypes DEF RInv
  <1>2. CASE UNCHANGED vars
    <2>1. CallInv' /\ ReadInv'
      BY <1>2 DEF vars, control, history, RInv, CallInv, ReadInv, Examined, Recorded, Positions
    <2> QED
      BY <1>1, <1>2, <2>1, KnownKept, VerdictsKept DEF vars, history, RInv
  <1>3. ASSUME NEW p \in Paths, Change(p) \/ Remove(p) PROVE RInv'
    BY <1>1, <1>3, ChangesAreElsewhere, DisturbedKeepsRInv DEF RInv
  <1> QED
    BY <1>1, <1>2, <1>3, CallsKeepRInv, AddStatKeepsRInv, AddHashKeepsRInv, WalkStepsKeepRInv,
       LoopStepsKeepRInv, CheckStepsKeepRInv DEF Next, RInv

\* Every verdict of ag_integrity_check_file is right in both directions
\* (integrity.c:108-157), whatever was added, forgotten and changed, and when.
THEOREM VerdictsHold == Spec => []VerdictsAreTrue
  <1>1. RInv => VerdictsAreTrue
    BY DEF RInv
  <1> QED
    BY <1>1, InitRInv, StepRInv, PTL DEF Spec

-----------------------------------------------------------------------------
(* check_all: the verdicts are those of the records, in order, up to the one *)
(* that is looked at, and the counter of the loop tells how many there are.  *)

Checking == at.step \in {"check", "compare"}
Found(i) ==
    /\ i \in DOMAIN records /\ verdicts[i].path = records[i].path
    /\ violations = 0 => verdicts[i].result = "OK"
LoopInv ==
    call = "check_all" =>
        /\ \A i \in DOMAIN verdicts : Found(i)
        /\ running /\ ~ Checking => next = Len(verdicts) + 1
        /\ Checking => /\ next = Len(verdicts) + 2 /\ Len(verdicts) < Len(records)
                       /\ at.path = records[Len(verdicts) + 1].path
        /\ ~ running => Len(records) <= Len(verdicts)

LEMMA ConcludeKeepsLoopInv ==
    ASSUME RInv, LoopInv, Checking, call = "check_all", UNCHANGED <<records, control, next>>,
           NEW result \in Results, NEW hash \in HashValues \cup {NoHash}, Conclude(result, hash)
    PROVE  LoopInv'
  <1> DEFINE v == [path |-> at.path, result |-> result, hash |-> hash,
                   denied |-> at.st = Gone /\ fs[at.path] # Gone, stale |-> at.mid]
  <1>1. v \in VerdictSet
    BY DEF Checking, RInv, IntegrityTypeOK, HandOK, HandSet, VerdictSet
  <1>2. verdicts' = Append(verdicts, v) /\ v.path = at.path /\ v.result = result
    BY DEF Conclude
  <1> HIDE DEF v
  <1>3. /\ Len(verdicts) \in Nat /\ Len(verdicts') = Len(verdicts) + 1
        /\ DOMAIN verdicts' = DOMAIN verdicts \cup {Len(verdicts) + 1}
        /\ verdicts'[Len(verdicts) + 1] = v
        /\ \A i \in DOMAIN verdicts : verdicts'[i] = verdicts[i]
        /\ Len(records) \in Nat /\ DOMAIN records = 1..Len(records)
    BY <1>1, <1>2 DEF RInv, IntegrityTypeOK, VerdictOK, TableOK
  <1>4. at'.step = "none" /\ running' = TRUE
    BY DEF Conclude, Resume, Nothing
  <1>5. violations' = 0 => violations = 0 /\ result = "OK"
    <2>1. violations \in Nat
      BY DEF RInv, IntegrityTypeOK, LoopOK
    <2> QED
      BY <2>1 DEF Conclude
  <1>6. ASSUME NEW i \in DOMAIN verdicts' PROVE Found(i)'
    <2>1. CASE i \in DOMAIN verdicts
      BY <1>3, <1>5, <2>1 DEF LoopInv, Found
    <2>2. CASE i = Len(verdicts) + 1
      <3>1. Len(verdicts) < Len(records) /\ at.path = records[Len(verdicts) + 1].path
        BY DEF LoopInv
      <3>2. i \in DOMAIN records
        BY <1>3, <2>2, <3>1
      <3> QED
        BY <1>2, <1>3, <1>5, <2>2, <3>1, <3>2 DEF Found
    <2> QED
      BY <1>3, <2>1, <2>2
  <1>7. next' = Len(verdicts') + 1
    BY <1>3 DEF LoopInv
  <1> QED
    BY <1>4, <1>6, <1>7 DEF LoopInv, Checking

LEMMA StepLoopInv == RInv /\ LoopInv /\ [Next]_vars => LoopInv'
  <1> SUFFICES ASSUME RInv, LoopInv, [Next]_vars PROVE LoopInv'
    OBVIOUS
  <1>1. CASE UNCHANGED vars
    BY <1>1 DEF vars, control, history, LoopInv, Found, Checking
  <1>2. CASE \/ \E p \in Paths : AddFile(p) \/ AddDirectory(p) \/ CheckFile(p) \/ RunIntegrityCheck(p)
             \/ CreateBaseline
    <2>1. call' # "check_all"
      BY <1>2 DEF AddFile, AddDirectory, CheckFile, CreateBaseline, RunIntegrityCheck, Begin
    <2> QED
      BY <2>1 DEF LoopInv
  <1>3. CASE CheckAll
    <2>1. verdicts' = << >> /\ next' = 1 /\ at'.step = "none" /\ running' = TRUE
      BY <1>3 DEF CheckAll, Begin, Nothing
    <2> QED
      BY <2>1 DEF LoopInv, Checking
  <1>4. CASE \/ AddStat \/ AddHash \/ OpenDirectory \/ NextEntry \/ EndOfDirectory
             \/ NextOfBaseline \/ SaveBaseline
    <2>1. call' = call
      BY <1>4 DEF AddStat, AddHash, OpenDirectory, NextEntry, EndOfDirectory, NextOfBaseline,
                  SaveBaseline, control
    <2>2. call # "check_all"
      BY <1>4 DEF AddStat, AddHash, OpenDirectory, NextEntry, EndOfDirectory, NextOfBaseline,
                  SaveBaseline, RInv, CallInv, AddCalls
    <2> QED
      BY <2>1, <2>2 DEF LoopInv
  <1>5. ASSUME call = "check_all", NextRecord PROVE LoopInv'
    <2>1. /\ UNCHANGED <<records, verdicts, violations>> /\ running' = running /\ running
          /\ next' = next + 1 /\ ~ Checking /\ ~ (next > Len(records))
      BY <1>5 DEF NextRecord, history, Checking, Nothing, AllChecked
    <2>2. at'.step = "check" /\ at'.path = records[next].path
      BY <1>5 DEF NextRecord, Start, Nothing
    <2>3. next = Len(verdicts) + 1
      BY <1>5, <2>1 DEF LoopInv
    <2>4. Len(verdicts) \in Nat /\ Len(records) \in Nat
      BY DEF RInv, IntegrityTypeOK, VerdictOK, TableOK
    <2>5. next' = Len(verdicts') + 2 /\ Len(verdicts') < Len(records')
      BY <2>1, <2>3, <2>4
    <2>6. \A i \in DOMAIN verdicts' : Found(i)'
      BY <1>5, <2>1 DEF LoopInv, Found
    <2> QED
      BY <2>1, <2>2, <2>3, <2>5, <2>6 DEF LoopInv, Checking
  <1>6. ASSUME call = "check_all", EndOfRecords PROVE LoopInv'
    <2>1. /\ UNCHANGED <<records, verdicts, violations, at>> /\ running' = FALSE /\ running
          /\ ~ Checking /\ next > Len(records)
      BY <1>6 DEF EndOfRecords, history, Checking, Nothing, AllChecked
    <2>2. next = Len(verdicts) + 1
      BY <1>6, <2>1 DEF LoopInv
    <2>3. Len(verdicts) \in Nat /\ Len(records) \in Nat
      BY DEF RInv, IntegrityTypeOK, VerdictOK, TableOK
    <2>4. Len(records') <= Len(verdicts')
      BY <2>1, <2>2, <2>3
    <2>5. ~ Checking' /\ \A i \in DOMAIN verdicts' : Found(i)'
      BY <1>6, <2>1 DEF LoopInv, Found, Checking
    <2> QED
      BY <2>1, <2>4, <2>5 DEF LoopInv
  <1>7. ASSUME call = "check_all", CheckStat \/ CheckHash PROVE LoopInv'
    <2>1. UNCHANGED <<records, control, next>> /\ Checking
      BY <1>7 DEF CheckStat, CheckHash, Checking
    <2>2. CASE CheckHash
      <3>1. PICK hash \in Hashes : Conclude(Result(RecordOf(records, at.path), at.st, hash), hash)
        BY <2>2 DEF CheckHash
      <3>2. hash \in HashValues
        BY HashesAreTyped DEF RInv, IntegrityTypeOK
      <3> QED
        BY <1>7, <2>1, <3>1, <3>2, ConcludeKeepsLoopInv, ResultIsTyped
    <2>3. CASE CheckStat /\ Conclude("MISSING", NoHash)
      <3>1. "MISSING" \in Results
        BY DEF Results
      <3> QED
        BY <1>7, <2>1, <2>3, <3>1, ConcludeKeepsLoopInv
    <2>4. CASE CheckStat /\ ~ Conclude("MISSING", NoHash)
      <3>1. PICK st \in StatOf(at.path) :
              /\ at' = [at EXCEPT !.step = "compare", !.st = st, !.seen = {st.content}]
              /\ UNCHANGED <<running, violations, verdicts>>
        BY <2>4 DEF CheckStat
      <3>2. at'.step = "compare" /\ at'.path = at.path
        BY <3>1 DEF RInv, IntegrityTypeOK, HandOK, HandSet
      <3>3. running
        BY <2>1, NothingIsTyped DEF Checking, RInv, CallInv
      <3> QED
        BY <1>7, <2>1, <3>1, <3>2, <3>3 DEF LoopInv, Found, Checking
    <2> QED
      BY <1>7, <2>2, <2>3, <2>4
  <1>8. ASSUME NEW D \in SUBSET Paths, Disturbed(D) PROVE LoopInv'
    <2>1. UNCHANGED <<records, call, running, next, violations>>
      BY <1>8 DEF Disturbed, Elsewhere, control
    <2>2. at'.step = at.step /\ at'.path = at.path
      BY <1>8 DEF Disturbed, Notice, RInv, IntegrityTypeOK, HandOK, HandSet
    <2>3. DOMAIN verdicts' = DOMAIN verdicts
      BY <1>8 DEF Disturbed, Notice
    <2>4. Len(verdicts') = Len(verdicts)
      <3>1. verdicts' \in Seq(VerdictSet) /\ verdicts \in Seq(VerdictSet)
        BY <1>8, ElsewhereIsTyped DEF RInv, IntegrityTypeOK, VerdictOK
      <3> QED
        BY <2>3, <3>1
    <2>5. \A i \in DOMAIN verdicts :
             verdicts'[i].path = verdicts[i].path /\ verdicts'[i].result = verdicts[i].result
      BY <1>8 DEF Disturbed, Notice, RInv, IntegrityTypeOK, VerdictOK, VerdictSet
    <2> QED
      BY <2>1, <2>2, <2>3, <2>4, <2>5 DEF LoopInv, Found, Checking
  <1>9. ASSUME NEW p \in Paths, Change(p) \/ Remove(p) PROVE LoopInv'
    BY <1>8, <1>9, ChangesAreElsewhere DEF RInv
  <1> QED
    <2>1. call = "check_all" \/ ~ (NextRecord \/ EndOfRecords \/ CheckStat \/ CheckHash) \/ LoopInv'
      BY DEF NextRecord, EndOfRecords, CheckStat, CheckHash, control, LoopInv
    <2> QED
      BY <1>1, <1>2, <1>3, <1>4, <1>5, <1>6, <1>7, <1>9, <2>1 DEF Next

\* A check_all that ends without a violation has looked at every record, and what
\* is not as it was recorded changed after that (integrity.c:165-185).
THEOREM CheckAllHolds == Spec => []CheckAllMissesNothing
  <1>1. Init => LoopInv
    BY DEF Init, LoopInv
  <1>2. RInv /\ LoopInv => CheckAllMissesNothing
    <2> SUFFICES ASSUME RInv, LoopInv, call = "check_all", ~ running, violations = 0,
                        NEW i \in DOMAIN records
                 PROVE  /\ i \in DOMAIN verdicts /\ verdicts[i].path = records[i].path
                        /\ verdicts[i].result = "OK"
                        /\ ~ verdicts[i].stale => SameAttributes(records[i].path)
                        /\ /\ ~ verdicts[i].stale /\ ~ known[records[i].path].mixed
                           /\ Readable(verdicts[i].hash) /\ RecordedWell(records[i].path)
                           => SameContent(records[i].path)
      BY DEF CheckAllMissesNothing
    <2>1. i \in DOMAIN verdicts
      <3>1. /\ Len(records) <= Len(verdicts) /\ Len(verdicts) \in Nat /\ Len(records) \in Nat
            /\ DOMAIN records = 1..Len(records) /\ DOMAIN verdicts = 1..Len(verdicts)
        BY DEF LoopInv, RInv, IntegrityTypeOK, TableOK, VerdictOK
      <3> QED
        BY <3>1
    <2>2. verdicts[i].path = records[i].path /\ verdicts[i].result = "OK"
      BY <2>1 DEF LoopInv, Found
    <2>3. OkMeansUnchanged(verdicts[i])
      BY <2>1 DEF RInv, VerdictsAreTrue
    <2> QED
      BY <2>1, <2>2, <2>3 DEF OkMeansUnchanged
  <1> QED
    BY <1>1, <1>2, InitRInv, StepRInv, StepLoopInv, PTL DEF Spec

-----------------------------------------------------------------------------
(* add_directory and create_baseline: the paths that were recorded in this   *)
(* call, those that were away or refused, the one in hand and what the open  *)
(* directories have left are all that the call owes so far; and the entries  *)
(* of every directory among the first are among all of these.                *)

Walks  == {"add_directory", "create_baseline"}
Hand   == IF at.step \in {"open", "add", "hash"} THEN {at.path} ELSE {}
Adding == IF at.step \in {"add", "hash"} THEN {at.path} ELSE {}
Left   == UNION { stack[i].left : i \in DOMAIN stack }
Begun  == IF call = "add_directory" THEN {root}
          ELSE { Baseline[i] : i \in { j \in DOMAIN Baseline : j < next } }
Covered(done) ==
    /\ \A q \in done : Recorded(q)
    /\ Begun \subseteq done \cup lost \cup Hand
    /\ call = "add_directory" /\ recursive =>
         \A d \in ((done \cup Adding) \cap Dirs) \ lost :
            Entries[d] \subseteq done \cup lost \cup Hand \cup Left

AwayInv == call # "none" => \A q \in Paths : fs[q] = Gone => q \in lost
WalkInv == running /\ call \in Walks /\ ~ Full => \E done \in SUBSET Paths : Covered(done)
PInv    == RInv /\ AwayInv /\ WalkInv /\ TreeIsCovered

LEMMA InLeft == \A q : q \in Left <=> \E i \in DOMAIN stack : q \in stack[i].left
  BY DEF Left

LEMMA NothingLeft == (stack' = << >> => Left' = {}) /\ (stack = << >> => Left = {})
  BY DEF Left

LEMMA CoverStep ==
    ASSUME NEW done \in SUBSET Paths, NEW more \in SUBSET Paths, Covered(done),
           done \subseteq more, more \subseteq done \cup Adding, \A q \in more : Recorded(q)',
           UNCHANGED control, lost \subseteq lost',
           Begun' \subseteq Begun \cup Hand',
           Hand \subseteq more \cup lost' \cup Hand',
           Left \subseteq lost' \cup Hand' \cup Left',
           \A d \in (Adding' \cap Dirs) \ lost' :
              d \in done \cup Adding \/ Entries[d] \subseteq lost' \cup Left'
    PROVE  Covered(more)'
  <1>1. Begun' \subseteq more \cup lost' \cup Hand'
    BY DEF Covered
  <1>2. ASSUME call = "add_directory", recursive, NEW d \in ((more \cup Adding') \cap Dirs) \ lost'
        PROVE  Entries[d] \subseteq more \cup lost' \cup Hand' \cup Left'
    <2>1. CASE d \in done \cup Adding
      <3>1. Entries[d] \subseteq done \cup lost \cup Hand \cup Left
        BY <1>2, <2>1 DEF Covered
      <3> QED
        BY <3>1
    <2>2. CASE d \notin done \cup Adding
      BY <1>2, <2>2
    <2> QED
      BY <2>1, <2>2
  <1>3. call' = call /\ recursive' = recursive
    BY DEF control
  <1>4. \A q \in more : Recorded(q)'
    OBVIOUS
  <1> HIDE DEF Begun, Hand, Adding, Left
  <1> QED
    BY <1>1, <1>2, <1>3, <1>4 DEF Covered

\* A walk that ends has covered its tree.
LEMMA EndCovers ==
    ASSUME NEW done \in SUBSET Paths, Covered(done)', Hand' = {}, Left' = {}, call' = "add_directory",
           lost' \subseteq Paths
    PROVE  TreeIsCovered'
  <1>1. PICK gone : gone = lost'
    OBVIOUS
  <1>2. root' \in done \cup gone
    BY <1>1 DEF Covered, Begun
  <1>3. Owed' \subseteq done \cup gone
    <2>1. CASE recursive'
      <3>1. \A d \in (done \cap Dirs) \ gone : Entries[d] \subseteq done \cup gone
        BY <1>1, <2>1 DEF Covered
      <3>2. PICK S : S = (done \cup gone) \cap Paths
        OBVIOUS
      <3>3. \A d \in (S \cap Dirs) \ gone : Entries[d] \subseteq S
        BY <3>1, <3>2, IntegrityAssumption
      <3>4. Entered(S)'
        BY <1>1, <3>3 DEF Entered
      <3>5. root' \in S
        BY <1>1, <1>2, <3>2
      <3>6. Reached(root)' \subseteq S
        BY <3>2, <3>4, <3>5 DEF Reached
      <3>7. Owed' = Reached(root)'
        BY <2>1 DEF Owed
      <3> QED
        BY <3>2, <3>6, <3>7
    <2>2. CASE ~ recursive'
      <3>1. Owed' = {root'}
        BY <2>2 DEF Owed
      <3> QED
        BY <1>2, <3>1
    <2> QED
      BY <2>1, <2>2
  <1>4. \A p \in done : Recorded(p)'
    BY DEF Covered
  <1> QED
    BY <1>1, <1>3, <1>4 DEF TreeIsCovered, Recorded

\* Calls that add no tree, and walks that go on, owe nothing yet.
LEMMA NothingOwed ==
    ASSUME call' \notin Walks \/ running'
    PROVE  TreeIsCovered'
  <1>1. CASE call' \notin Walks
    <2>1. Owed' = {}
      BY <1>1 DEF Owed, Walks
    <2> QED
      BY <2>1 DEF TreeIsCovered
  <1>2. CASE running'
    BY <1>2 DEF TreeIsCovered, Ended
  <1> QED
    BY <1>1, <1>2

LEMMA CallsKeepWalk ==
    ASSUME PInv,
           \/ \E p \in Paths : AddFile(p) \/ AddDirectory(p) \/ CheckFile(p) \/ RunIntegrityCheck(p)
           \/ CheckAll \/ CreateBaseline
    PROVE  AwayInv' /\ WalkInv' /\ TreeIsCovered'
  <1>1. AwayInv'
    BY DEF AwayInv, AddFile, AddDirectory, CheckFile, RunIntegrityCheck, CheckAll, CreateBaseline,
           Begin
  <1>2. CASE call' \notin Walks
    BY <1>1, <1>2, NothingOwed DEF WalkInv
  <1>3. CASE call' \in Walks
    <2>1. CreateBaseline \/ \E p \in Paths : AddDirectory(p)
      BY <1>3 DEF AddFile, AddDirectory, CheckFile, RunIntegrityCheck, CheckAll, CreateBaseline,
                  Begin, Walks
    <2>2. running' = TRUE
      BY <2>1 DEF AddDirectory, CreateBaseline
    <2>3. Covered({})'
      <3>1. CASE CreateBaseline
        <4>1. call' = "create_baseline" /\ next' = 1
          BY <3>1 DEF CreateBaseline, Begin
        <4>2. \A j \in DOMAIN Baseline : ~ (j < next')
          BY <4>1, IntegrityAssumption
        <4>3. Begun' = {}
          BY <4>1, <4>2 DEF Begun
        <4> QED
          BY <4>1, <4>3 DEF Covered
      <3>2. ASSUME NEW p \in Paths, AddDirectory(p) PROVE Covered({})'
        <4>1. call' = "add_directory" /\ root' = p /\ at'.step = "open" /\ at'.path = p
          BY <3>2 DEF AddDirectory, Begin, Start, Nothing
        <4>2. Begun' = {p} /\ Hand' = {p} /\ Adding' = {}
          BY <4>1 DEF Begun, Hand, Adding
        <4> QED
          BY <4>2 DEF Covered
      <3> QED
        BY <2>1, <3>1, <3>2
    <2> QED
      BY <1>1, <2>2, <2>3, NothingOwed DEF WalkInv
  <1> QED
    BY <1>2, <1>3

\* The step of a walk that goes on.
LEMMA WalkGoesOn ==
    ASSUME PInv, running, running', UNCHANGED <<fs, call>>, lost \subseteq lost',
           Full => Full',
           ASSUME NEW done \in SUBSET Paths, call \in Walks, Covered(done), ~ Full'
           PROVE  \E more \in SUBSET Paths : Covered(more)'
    PROVE  AwayInv' /\ WalkInv' /\ TreeIsCovered'
  <1>1. AwayInv'
    BY DEF PInv, AwayInv
  <1>2. ASSUME call \in Walks, ~ Full' PROVE \E more \in SUBSET Paths : Covered(more)'
    BY <1>2 DEF PInv, WalkInv
  <1> QED
    BY <1>1, <1>2, NothingOwed DEF WalkInv

LEMMA AddsKeepWalk ==
    ASSUME PInv, AddStat \/ AddHash
    PROVE  AwayInv' /\ WalkInv' /\ TreeIsCovered'
  <1>0. PICK p : p = at.path
    OBVIOUS
  <1>1. /\ UNCHANGED <<fs, control, stack, next>> /\ at.step \in {"add", "hash"}
        /\ lost \subseteq lost' /\ p \in Paths /\ running /\ call \in AddCalls
    <2>1. p \in Paths /\ running /\ call \in AddCalls
      BY <1>0, NothingIsTyped DEF AddStat, AddHash, PInv, RInv, IntegrityTypeOK, HandOK, CallInv
    <2> QED
      BY <2>1 DEF AddStat, AddHash
  <1>2. Hand = {p} /\ Adding = {p} /\ Begun' = Begun /\ Left' = Left
    BY <1>0, <1>1 DEF Hand, Adding, Begun, Left, control
  <1>3. CASE call \notin Walks
    <2>1. call' \notin Walks
      BY <1>1, <1>3 DEF control
    <2>2. AwayInv'
      BY <1>1 DEF PInv, AwayInv, control
    <2> QED
      BY <2>1, <2>2, NothingOwed DEF WalkInv
  <1>4. CASE call \in Walks
    <2>1. running' = TRUE
      <3>1. Resume => running' = TRUE
        BY <1>4 DEF Resume, Walks
      <3>2. UNCHANGED running => running' = TRUE
        BY <1>1 DEF PInv, RInv, IntegrityTypeOK, LoopOK
      <3> QED
        BY <3>1, <3>2 DEF AddStat, AddHash
    <2>2. /\ Full => Full'
          /\ \A q : Recorded(q) => Recorded(q)'
          /\ AddHash => Recorded(p)'
      <3>1. CASE AddStat
        <4>1. records' = records /\ ~ AddHash
          BY <3>1 DEF AddStat, AddHash
        <4> QED
          BY <4>1 DEF Full, Recorded, Positions
      <3>2. CASE AddHash
        <4>1. PICK hash \in Hashes : records' = Append(records, Record(p, at.st, hash))
          BY <1>0, <3>2 DEF AddHash
        <4>2. Record(p, at.st, hash) \in RecordSet /\ Record(p, at.st, hash).path = p
          <5>1. at.st \in Attributes /\ hash \in HashValues
            BY <3>2, HashesAreTyped DEF AddHash, PInv, RInv, IntegrityTypeOK, HandOK
          <5> QED
            BY <1>1, <5>1 DEF RecordSet, Record
        <4> DEFINE rec == Record(p, at.st, hash)
        <4> HIDE DEF rec
        <4>3. /\ Len(records) \in Nat /\ Len(records') = Len(records) + 1
              /\ DOMAIN records' = DOMAIN records \cup {Len(records) + 1}
              /\ records'[Len(records) + 1] = rec
              /\ \A i \in DOMAIN records : records'[i] = records[i]
          BY <4>1, <4>2 DEF rec, PInv, RInv, IntegrityTypeOK, TableOK
        <4>4. Full => Full'
          BY <4>3, IntegrityAssumption DEF Full
        <4>5. rec.path = p
          BY <4>2 DEF rec
        <4> QED
          <5>1. ASSUME NEW q, Recorded(q) PROVE Recorded(q)'
            <6>1. PICK i \in DOMAIN records : records[i].path = q
              BY <5>1 DEF Recorded, Positions
            <6>2. i \in DOMAIN records' /\ records'[i].path = q
              BY <4>3, <6>1
            <6> QED
              BY <6>2 DEF Recorded, Positions
          <5>2. Recorded(p)'
            <6>1. Len(records) + 1 \in DOMAIN records' /\ records'[Len(records) + 1].path = p
              BY <4>3, <4>5
            <6> QED
              BY <6>1 DEF Recorded, Positions
          <5> QED
            BY <4>4, <5>1, <5>2
      <3> QED
        BY <3>1, <3>2
    <2>3. ASSUME NEW done \in SUBSET Paths, Covered(done), ~ Full'
          PROVE  \E more \in SUBSET Paths : Covered(more)'
      <3>1. \A q \in done : Recorded(q)'
        BY <2>2, <2>3 DEF Covered
      <3>2. CASE AddHash
        <4>1. \A q \in done \cup {p} : Recorded(q)'
          BY <2>2, <3>1, <3>2
        <4>2. Hand' = {} /\ Adding' = {} /\ lost' = lost
          BY <3>2 DEF AddHash, Resume, Nothing, Hand, Adding
        <4>3. done \cup {p} \in SUBSET Paths
          BY <1>1
        <4>4. Covered(done \cup {p})'
          BY <1>1, <1>2, <2>3, <4>1, <4>2, <4>3, CoverStep
        <4> QED
          BY <4>3, <4>4
      <3>3. CASE AddStat /\ Resume
        <4>1. ~ Full
          BY <2>2, <2>3
        <4>2. at' = Nothing /\ at'.step = "none"
          BY <3>3 DEF Resume, Nothing
        <4>3. Hand' = {} /\ Adding' = {}
          BY <4>2 DEF Hand, Adding
        <4>4. lost' = lost \cup {p}
          <5>1. \A st : [at EXCEPT !.step = "hash", !.st = st, !.seen = {st.content}] # at'
            BY <4>2 DEF PInv, RInv, IntegrityTypeOK, HandOK, HandSet
          <5> QED
            BY <1>0, <3>3, <4>1, <5>1 DEF AddStat
        <4> QED
          BY <1>1, <1>2, <2>3, <3>1, <4>3, <4>4, CoverStep
      <3>4. CASE AddStat /\ ~ Resume
        <4>1. at'.step = "hash" /\ at'.path = at.path
          BY <3>4 DEF AddStat, PInv, RInv, IntegrityTypeOK, HandOK, HandSet
        <4>2. Hand' = Hand /\ Adding' = Adding
          BY <1>2, <4>1 DEF Hand, Adding
        <4> QED
          BY <1>1, <1>2, <2>3, <3>1, <4>2, CoverStep
      <3> QED
        BY <3>2, <3>3, <3>4
    <2> QED
      BY <1>1, <2>1, <2>2, <2>3, WalkGoesOn DEF control
  <1> QED
    BY <1>3, <1>4

LEMMA OpensKeepWalk ==
    ASSUME PInv, OpenDirectory
    PROVE  AwayInv' /\ WalkInv' /\ TreeIsCovered'
  <1>0. PICK p : p = at.path
    OBVIOUS
  <1>1. /\ UNCHANGED <<fs, records, control, next>> /\ p \in Dirs /\ p \in Paths
        /\ running /\ call = "add_directory" /\ call \in Walks
        /\ Hand = {p} /\ Adding = {} /\ Begun' = Begun
    <2>1. p \in Dirs /\ p \in Paths
      BY <1>0, IntegrityAssumption DEF OpenDirectory, PInv, RInv, IntegrityTypeOK, HandOK
    <2>2. running /\ call = "add_directory"
      BY NothingIsTyped DEF OpenDirectory, PInv, RInv, CallInv
    <2>3. Hand = {p} /\ Adding = {} /\ Begun' = Begun
      BY <1>0 DEF OpenDirectory, Hand, Adding, Begun, control
    <2> QED
      BY <2>1, <2>2, <2>3 DEF OpenDirectory, Walks
  <1>2. Full' = Full /\ \A q : Recorded(q)' = Recorded(q)
    BY <1>1 DEF Full, Recorded, Positions
  <1>3. CASE /\ stack' = Append(stack, [dir |-> p, left |-> EntriesOf(p)])
             /\ Start("add", p) /\ UNCHANGED <<lost, running>>
    <2>1. Hand' = {p} /\ Adding' = {p}
      BY <1>3 DEF Start, Nothing, Hand, Adding
    <2>2. \A q : q \in Left' <=> q \in Left \/ q \in EntriesOf(p)
      <3>1. PICK frame : frame = [dir |-> p, left |-> EntriesOf(p)]
        OBVIOUS
      <3>2. frame \in FrameSet /\ frame.left = EntriesOf(p)
        BY <1>1, <3>1, IntegrityAssumption DEF FrameSet, EntriesOf
      <3>3. /\ DOMAIN stack' = DOMAIN stack \cup {Len(stack) + 1}
            /\ stack'[Len(stack) + 1] = frame
            /\ \A i \in DOMAIN stack : stack'[i] = stack[i]
        BY <1>3, <3>1, <3>2 DEF PInv, RInv, IntegrityTypeOK, StackOK
      <3> QED
        BY <3>2, <3>3 DEF Left
    <2>3. recursive => \A e \in Entries[p] : e \in lost \/ e \in EntriesOf(p)
      BY <1>1, IntegrityAssumption DEF EntriesOf, PInv, AwayInv, Walks
    <2>4. ASSUME NEW done \in SUBSET Paths, Covered(done) PROVE Covered(done)'
      <3>1. \A q \in done : Recorded(q)'
        BY <1>2, <2>4 DEF Covered
      <3>2. CASE recursive
        BY <1>1, <1>3, <2>1, <2>2, <2>3, <2>4, <3>1, <3>2, CoverStep
      <3>3. CASE ~ recursive
        BY <1>1, <1>3, <2>1, <2>4, <3>1, <3>3 DEF Covered, control
      <3> QED
        BY <3>2, <3>3
    <2>5. running'
      BY <1>1, <1>3
    <2> QED
      BY <1>1, <1>2, <1>3, <2>4, <2>5, WalkGoesOn DEF control
  <1>4. CASE lost' = lost \cup {p} /\ at' = Nothing /\ running' = (stack # << >>) /\ UNCHANGED stack
    <2>1. Hand' = {} /\ Adding' = {} /\ Left' = Left
      BY <1>4 DEF Nothing, Hand, Adding, Left
    <2>2. ASSUME NEW done \in SUBSET Paths, Covered(done) PROVE Covered(done)'
      <3>1. \A q \in done : Recorded(q)'
        BY <1>2, <2>2 DEF Covered
      <3> QED
        BY <1>1, <1>4, <2>1, <2>2, <3>1, CoverStep
    <2>3. CASE stack # << >>
      <3>1. running'
        BY <1>4, <2>3
      <3> QED
        BY <1>1, <1>2, <1>4, <2>2, <3>1, WalkGoesOn DEF control
    <2>4. CASE stack = << >>
      <3>1. Left' = {} /\ ~ running'
        BY <1>4, <2>1, <2>4, NothingLeft
      <3>2. TreeIsCovered'
        <4>1. CASE Full
          <5>1. call' # "create_baseline" /\ Full'
            BY <1>1, <1>2, <4>1 DEF control
          <5> QED
            BY <5>1 DEF TreeIsCovered, Full
        <4>2. CASE ~ Full
          <5>1. PICK done \in SUBSET Paths : Covered(done)
            BY <1>1, <4>2 DEF PInv, WalkInv
          <5>2. call' = "add_directory" /\ lost' \subseteq Paths
            BY <1>1, <1>4 DEF control, PInv, RInv, IntegrityTypeOK, LoopOK
          <5> QED
            BY <2>1, <2>2, <3>1, <5>1, <5>2, EndCovers
        <4> QED
          BY <4>1, <4>2
      <3>3. AwayInv' /\ WalkInv'
        BY <1>1, <1>4, <3>1 DEF PInv, AwayInv, WalkInv, control
      <3> QED
        BY <3>2, <3>3
    <2> QED
      BY <2>3, <2>4
  <1> QED
    BY <1>0, <1>3, <1>4 DEF OpenDirectory

LEMMA EntriesKeepWalk ==
    ASSUME PInv, NextEntry
    PROVE  AwayInv' /\ WalkInv' /\ TreeIsCovered'
  <1>1. PICK e \in Top.left :
            /\ stack' = [stack EXCEPT ![Len(stack)].left = @ \ {e}]
            /\ \E st \in StatOf(e) :
                 IF st = Gone
                   THEN lost' = lost \cup {e} /\ UNCHANGED at
                   ELSE Start(IF e \in Dirs THEN "open" ELSE "add", e) /\ UNCHANGED lost
    BY DEF NextEntry
  <1>2. /\ UNCHANGED <<fs, records, control, next, running>> /\ running /\ lost \subseteq lost'
        /\ Hand = {} /\ Adding = {} /\ Begun' = Begun
    BY <1>1 DEF NextEntry, Nothing, Hand, Adding, Begun, control
  <1>3. Full' = Full /\ \A q : Recorded(q)' = Recorded(q)
    BY <1>2 DEF Full, Recorded, Positions
  <1>4. \A q \in Left : q = e \/ q \in Left'
    <2>1. Len(stack) \in DOMAIN stack /\ \A i \in DOMAIN stack : stack[i] \in FrameSet
      BY TopIsTyped DEF NextEntry, PInv, RInv, IntegrityTypeOK, StackOK
    <2>2. /\ DOMAIN stack' = DOMAIN stack
          /\ \A i \in DOMAIN stack : stack[i].left \ {e} \subseteq stack'[i].left
      BY <1>1, <2>1 DEF FrameSet
    <2> QED
      BY <2>2 DEF Left
  <1>5. e \in lost' \cup Hand' /\ Adding' \cap Dirs = {}
    <2>1. CASE UNCHANGED at /\ lost' = lost \cup {e}
      <3>1. Adding' = Adding
        BY <2>1 DEF Adding
      <3> QED
        BY <1>2, <2>1, <3>1
    <2>2. CASE Start(IF e \in Dirs THEN "open" ELSE "add", e)
      <3>1. at'.path = e /\ at'.step = IF e \in Dirs THEN "open" ELSE "add"
        BY <2>2 DEF Start, Nothing
      <3> QED
        BY <3>1 DEF Hand, Adding
    <2> QED
      BY <1>1, <2>1, <2>2
  <1>6. ASSUME NEW done \in SUBSET Paths, Covered(done) PROVE Covered(done)'
    <2>1. \A q \in done : Recorded(q)'
      BY <1>3, <1>6 DEF Covered
    <2> QED
      BY <1>2, <1>4, <1>5, <1>6, <2>1, CoverStep
  <1>7. running'
    BY <1>2
  <1> QED
    BY <1>2, <1>3, <1>6, <1>7, WalkGoesOn DEF control

LEMMA EndsKeepWalk ==
    ASSUME PInv, EndOfDirectory
    PROVE  AwayInv' /\ WalkInv' /\ TreeIsCovered'
  <1>1. /\ UNCHANGED <<fs, records, control, next, at>> /\ running /\ lost' = lost \cup Top.left
        /\ call = "add_directory" /\ call \in Walks
        /\ Hand = {} /\ Adding = {} /\ Hand' = {} /\ Adding' = {} /\ Begun' = Begun
    <2>1. call = "add_directory"
      BY DEF EndOfDirectory, PInv, RInv, CallInv
    <2> QED
      BY <2>1 DEF EndOfDirectory, Nothing, Hand, Adding, Begun, control, history, Walks
  <1>2. Full' = Full /\ \A q : Recorded(q)' = Recorded(q)
    BY <1>1 DEF Full, Recorded, Positions
  <1>3. Left \subseteq lost' \cup Left'
    <2>1. /\ Len(stack) \in Nat \ {0} /\ DOMAIN stack = 1..Len(stack)
          /\ stack \in Seq(FrameSet) /\ stack' = SubSeq(stack, 1, Len(stack) - 1)
      BY TopIsTyped DEF EndOfDirectory, PInv, RInv, IntegrityTypeOK, StackOK
    <2>2. \A i \in DOMAIN stack : i # Len(stack) => i \in DOMAIN stack' /\ stack'[i] = stack[i]
      BY <2>1
    <2>3. stack[Len(stack)].left \subseteq lost'
      BY <1>1 DEF Top
    <2> QED
      BY <2>2, <2>3 DEF Left
  <1>4. ASSUME NEW done \in SUBSET Paths, Covered(done) PROVE Covered(done)'
    <2>1. \A q \in done : Recorded(q)'
      BY <1>2, <1>4 DEF Covered
    <2> QED
      BY <1>1, <1>3, <1>4, <2>1, CoverStep
  <1>5. CASE running'
    BY <1>1, <1>2, <1>4, <1>5, WalkGoesOn DEF control
  <1>6. CASE ~ running'
    <2>1. Left' = {}
      BY <1>6, WalkStepsKeepRInv, NothingLeft DEF PInv, CallInv
    <2>2. TreeIsCovered'
      <3>1. CASE Full
        <4>1. call' # "create_baseline" /\ Full'
          BY <1>1, <1>2, <3>1 DEF control
        <4> QED
          BY <4>1 DEF TreeIsCovered, Full
      <3>2. CASE ~ Full
        <4>1. PICK done \in SUBSET Paths : Covered(done)
          BY <1>1, <3>2 DEF PInv, WalkInv
        <4>2. call' = "add_directory" /\ lost' \subseteq Paths
          BY <1>1, TopIsTyped
          DEF control, EndOfDirectory, FrameSet, PInv, RInv, IntegrityTypeOK, LoopOK
        <4> QED
          BY <1>1, <1>4, <2>1, <4>1, <4>2, EndCovers
      <3> QED
        BY <3>1, <3>2
    <2>3. AwayInv' /\ WalkInv'
      BY <1>1, <1>6 DEF PInv, AwayInv, WalkInv, control
    <2> QED
      BY <2>2, <2>3
  <1> QED
    BY <1>5, <1>6

LEMMA BaselineKeepsWalk ==
    ASSUME PInv, NextOfBaseline \/ SaveBaseline
    PROVE  AwayInv' /\ WalkInv' /\ TreeIsCovered'
  <1>1. /\ UNCHANGED <<fs, control, stack, lost>> /\ running
        /\ call = "create_baseline" /\ call \in Walks /\ Hand = {} /\ Adding = {} /\ Left = Left'
    BY DEF NextOfBaseline, SaveBaseline, Nothing, Hand, Adding, Left, history, Walks
  <1>2. CASE NextOfBaseline
    <2>1. Full' = Full /\ \A q : Recorded(q)' = Recorded(q)
      BY <1>2 DEF NextOfBaseline, Full, Recorded, Positions
    <2>2. Hand' = {Baseline[next]} /\ next' = next + 1
      BY <1>2 DEF NextOfBaseline, Start, Nothing, Hand
    <2>3. Begun' \subseteq Begun \cup Hand'
      <3>1. \A j \in DOMAIN Baseline : j < next + 1 => j < next \/ j = next
        BY IntegrityAssumption DEF PInv, RInv, IntegrityTypeOK, LoopOK
      <3>2. call' = call
        BY <1>1 DEF control
      <3> QED
        BY <1>1, <2>2, <3>1, <3>2 DEF Begun
    <2>4. ASSUME NEW done \in SUBSET Paths, Covered(done) PROVE Covered(done)'
      <3>1. \A q \in done : Recorded(q)'
        BY <2>1, <2>4 DEF Covered
      <3>2. call' # "add_directory"
        BY <1>1 DEF control
      <3> QED
        BY <1>1, <2>3, <2>4, <3>1, <3>2 DEF Covered
    <2>5. running'
      BY <1>1, <1>2 DEF NextOfBaseline
    <2> QED
      BY <1>1, <2>1, <2>4, <2>5, WalkGoesOn DEF control
  <1>3. CASE SaveBaseline
    <2>1. saved' \in {records, << >>} /\ ~ running' /\ next > Len(Baseline)
      BY <1>3 DEF SaveBaseline
    <2>2. Owed' = Begun
      <3>1. \A j \in DOMAIN Baseline : j < next
        BY <2>1, IntegrityAssumption DEF PInv, RInv, IntegrityTypeOK, LoopOK
      <3>2. Owed' = { Baseline[i] : i \in DOMAIN Baseline }
        BY <1>1 DEF Owed, control
      <3> QED
        BY <1>1, <3>1, <3>2 DEF Begun
    <2>3. ASSUME saved' = records
          PROVE  \A p \in Owed' \ lost' : Positions(saved', p) # {} \/ Len(saved') >= MaxRecords
      <3>1. CASE Full
        BY <2>3, <3>1 DEF Full
      <3>2. CASE ~ Full
        <4>1. PICK done \in SUBSET Paths : Covered(done)
          BY <1>1, <3>2 DEF PInv, WalkInv
        <4>2. \A p \in Begun \ lost : Recorded(p)
          BY <1>1, <4>1 DEF Covered
        <4> QED
          BY <1>1, <2>2, <2>3, <4>2 DEF Recorded
      <3> QED
        BY <3>1, <3>2
    <2>4. TreeIsCovered'
      <3>1. call' = "create_baseline"
        BY <1>1 DEF control
      <3>2. CASE saved' = << >>
        BY <3>1, <3>2 DEF TreeIsCovered, Ended
      <3>3. CASE saved' = records
        BY <2>3, <3>1, <3>3 DEF TreeIsCovered
      <3> QED
        BY <2>1, <3>2, <3>3
    <2> QED
      BY <1>1, <2>1, <2>4 DEF PInv, AwayInv, WalkInv, control
  <1> QED
    BY <1>2, <1>3

\* A change adds what went away to the paths that are not owed.
LEMMA DisturbedKeepsWalk ==
    ASSUME PInv, NEW D \in SUBSET Paths, Disturbed(D)
    PROVE  AwayInv' /\ WalkInv' /\ TreeIsCovered'
  <1>1. /\ UNCHANGED <<records, saved, control, running, next>>
        /\ \A q \in Paths \ D : fs'[q] = fs[q]
        /\ lost' = lost \cup { q \in D : fs'[q] = Gone }
    BY DEF Disturbed, Elsewhere, Notice
  <1>2. AwayInv'
    BY <1>1 DEF PInv, AwayInv, control
  <1>3. /\ Full' = Full /\ Ended' = Ended
        /\ \A q : Recorded(q)' = Recorded(q)
    BY <1>1 DEF Full, Ended, Recorded, Positions, control
  <1>4. WalkInv'
    <2>1. Hand' = Hand /\ Adding' = Adding
      <3>1. at'.step = at.step /\ at'.path = at.path
        BY DEF Disturbed, Notice, PInv, RInv, IntegrityTypeOK, HandOK, HandSet
      <3> QED
        BY <3>1 DEF Hand, Adding
    <2>2. Begun' = Begun
      BY <1>1 DEF Begun, control
    <2>3. ASSUME call # "none", NEW q \in Left PROVE q \in Left' \/ q \in lost'
      <3> DEFINE moved == { p \in D : fs[p] = Gone \/ fs'[p] = Gone }
      <3>2. PICK given \in [DOMAIN stack -> SUBSET moved] :
               stack' = [i \in DOMAIN stack |->
                           [stack[i] EXCEPT !.left = IF recursive
                              THEN (@ \ moved) \cup (given[i] \cap Entries[stack[i].dir]) ELSE @]]
        BY DEF Disturbed, Notice
      <3>3. PICK i \in DOMAIN stack : q \in stack[i].left /\ stack[i] \in FrameSet
        BY <2>3 DEF Left, PInv, RInv, IntegrityTypeOK, StackOK
      <3>4. CASE q \in moved
        BY <1>1, <2>3, <3>4 DEF PInv, AwayInv
      <3>5. CASE q \notin moved
        <4>1. i \in DOMAIN stack' /\ q \in stack'[i].left
          BY <3>2, <3>3, <3>5 DEF FrameSet
        <4> QED
          BY <4>1 DEF Left
      <3> QED
        BY <3>4, <3>5
    <2>4. ASSUME NEW done \in SUBSET Paths, call \in Walks, Covered(done) PROVE Covered(done)'
      <3>1. \A q \in done : Recorded(q)'
        BY <1>3, <2>4 DEF Covered
      <3>2. Left \subseteq lost' \cup Hand' \cup Left'
        BY <2>3, <2>4 DEF Walks
      <3> QED
        BY <1>1, <2>1, <2>2, <2>4, <3>1, <3>2, CoverStep
    <2>5. call' = call
      BY <1>1 DEF control
    <2> QED
      BY <1>1, <1>3, <2>4, <2>5 DEF PInv, WalkInv
  <1>5. TreeIsCovered'
    <2>1. \A S : Entered(S) => Entered(S)'
      BY <1>1 DEF Entered
    <2>2. Reached(root)' \subseteq Reached(root)
      BY <1>1, <2>1 DEF Reached, control
    <2>3. Owed' \subseteq Owed
      BY <1>1, <2>2 DEF Owed, control
    <2>4. Owed' \ lost' \subseteq Owed \ lost
      BY <1>1, <2>3
    <2> QED
      BY <1>1, <1>3, <2>4 DEF PInv, TreeIsCovered, Positions, control
  <1> QED
    BY <1>2, <1>4, <1>5

LEMMA StepPInv == PInv /\ [Next]_vars => PInv'
  <1> SUFFICES ASSUME PInv, [Next]_vars PROVE AwayInv' /\ WalkInv' /\ TreeIsCovered'
    BY StepRInv DEF PInv
  <1>1. CASE UNCHANGED vars
    <2>1. AwayInv'
      BY <1>1 DEF vars, control, history, PInv, AwayInv
    <2>2. /\ Begun' = Begun /\ Hand' = Hand /\ Adding' = Adding /\ Left' = Left /\ Full' = Full
          /\ \A q : Recorded(q)' = Recorded(q)
      BY <1>1 DEF vars, control, history, Full, Begun, Hand, Adding, Left, Recorded, Positions
    <2>3. ASSUME NEW done \in SUBSET Paths, Covered(done) PROVE Covered(done)'
      BY <1>1, <2>2, <2>3 DEF vars, control, history, Covered
    <2>4. WalkInv'
      BY <1>1, <2>2, <2>3 DEF vars, control, PInv, WalkInv
    <2>5. TreeIsCovered'
      BY <1>1 DEF vars, control, history, PInv, TreeIsCovered, Ended, Owed, Reached, Entered, Positions
    <2> QED
      BY <2>1, <2>4, <2>5
  <1>2. ASSUME NextRecord \/ EndOfRecords \/ CheckStat \/ CheckHash
        PROVE  AwayInv' /\ WalkInv' /\ TreeIsCovered'
    <2>1. UNCHANGED <<fs, call, lost>> /\ call \in CheckCalls
      BY <1>2 DEF NextRecord, EndOfRecords, CheckStat, CheckHash, control, history, PInv, RInv,
                  CallInv, CheckCalls
    <2>2. call' \notin Walks
      BY <2>1 DEF CheckCalls, Walks
    <2> QED
      BY <2>1, <2>2, NothingOwed DEF PInv, AwayInv, WalkInv
  <1>3. ASSUME NEW p \in Paths, Change(p) \/ Remove(p)
        PROVE  AwayInv' /\ WalkInv' /\ TreeIsCovered'
    BY <1>3, ChangesAreElsewhere, DisturbedKeepsWalk DEF PInv, RInv
  <1> QED
    BY <1>1, <1>2, <1>3, CallsKeepWalk, AddsKeepWalk, OpensKeepWalk, EntriesKeepWalk, EndsKeepWalk,
       BaselineKeepsWalk DEF Next

\* What add_directory and create_baseline leave out was away or refused by the
\* system during the call, or the table is full (integrity.c:72-106, 206-217),
\* whatever changes while they run.
THEOREM TreesAreCovered == Spec => []TreeIsCovered
  <1>1. Init => PInv
    <2> SUFFICES ASSUME Init PROVE AwayInv /\ WalkInv /\ TreeIsCovered
      BY InitRInv DEF PInv
    <2>1. call = "none" /\ ~ running
      BY DEF Init
    <2>2. Owed = {}
      BY <2>1 DEF Owed
    <2> QED
      BY <2>1, <2>2 DEF AwayInv, WalkInv, TreeIsCovered
  <1>2. PInv => TreeIsCovered
    BY DEF PInv
  <1> QED
    BY <1>1, <1>2, StepPInv, PTL DEF Spec
=============================================================================
