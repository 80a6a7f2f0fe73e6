----------------------------- MODULE Integrity -----------------------------
(***************************************************************************)
(* integrity.c: the records of files and directories, and the checks that  *)
(* compare them with the file system.  Other programs change the files     *)
(* between any two system calls (stat, opendir, readdir, the reading of a  *)
(* file), each of which is a step and may fail.  A hash is the content it  *)
(* was computed from, Short stands for any other: ag_hash_file takes a     *)
(* read error for the end of the file, and a file that is written while it *)
(* is read gives a mixture.  A path that names a directory never names a   *)
(* file.                                                                   *)
(***************************************************************************)
EXTENDS Integers, Sequences, FiniteSets

CONSTANTS
    Paths, Dirs,    \* the paths, and those of them that are directories
    Entries,        \* directory -> the paths of its entries
    Baseline,       \* the list of files of ag_integrity_create_baseline
    Contents, Size, \* the contents of a file, and their sizes
    Attributes,     \* [content, mode, owner] a file may have
    InitialFs,      \* the file systems there may be at the beginning
    MaxRecords,     \* AG_MAX_INTEGRITY_FILES
    MaxEvents       \* bound on the calls and the changes of the file system together

Gone    == [content |-> "gone", mode |-> "none", owner |-> "none"]
Failed  == "ERROR"
Short   == "short"
DirHash == "DIRECTORIO"
NoHash  == "none"

ASSUME IntegrityAssumption ==
    /\ Dirs \subseteq Paths /\ "none" \notin Paths
    /\ Entries \in [Dirs -> SUBSET Paths]
    /\ Baseline \in Seq(Paths)
    /\ Size \in [Contents -> Nat]
    /\ InitialFs \subseteq [Paths -> {Gone} \cup Attributes]
    /\ \A a \in Attributes : a.content \in Contents
    /\ \A files \in InitialFs, d \in Dirs :
         files[d] = Gone => \A e \in Entries[d] : files[e] = Gone
    /\ Contents \cap {Failed, Short, DirHash, NoHash, "gone"} = {}
    /\ MaxRecords \in Nat \ {0} /\ MaxEvents \in Nat

VARIABLES
    fs,         \* path -> its attributes now, or Gone
    records,    \* g_integrity.records up to record_count
    saved,      \* the records in the file that ag_integrity_save_baseline wrote
    call,       \* the call that runs, or ran last
    running,
    root,       \* the directory it was asked to add, or "none"
    recursive,
    stack,      \* the open directories [dir, left], left: what readdir will give
    next,       \* the loop counter of create_baseline and of check_all
    at,         \* what is done with which path; st is its stat buffer
    violations,
    known,      \* history: path -> what was so when it was first recorded
    lost,       \* history: paths that were away, or refused by the system, in this call
    verdicts,   \* history: the checks of this call
    events

control == <<call, root, recursive>>
history == <<known, lost, verdicts>>
vars == <<fs, records, saved, control, running, stack, next, at, violations, history, events>>

\* seen, mid: the contents of the file since its stat, and whether it changed.
Nothing == [step |-> "none", path |-> "none", st |-> Gone, seen |-> {}, mid |-> FALSE]
Unknown == [st |-> Gone, mixed |-> FALSE, touched |-> FALSE]

-----------------------------------------------------------------------------
Positions(recs, p) == { i \in DOMAIN recs : recs[i].path = p }

Full == Len(records) >= MaxRecords

\* What stat and opendir may answer.
StatOf(p) == {fs[p], Gone}
Opens(p) == IF fs[p] = Gone THEN {FALSE} ELSE BOOLEAN

\* What ag_hash_file may answer of the path in hand; directories are not
\* hashed.  A file that was replaced while it was open still has its old content.
Hashes == IF at.path \in Dirs THEN {DirHash} ELSE (at.seen \ {"gone"}) \cup {Short, Failed}

Record(p, st, hash) ==
    [path |-> p, size |-> Size[st.content], mode |-> st.mode, owner |-> st.owner,
     is_directory |-> p \in Dirs, hash |-> hash]

\* Mutant of RecordOf: the search does not stop at the first record.
LastRecordOf(recs, p) == recs[CHOOSE i \in Positions(recs, p) : \A j \in Positions(recs, p) : i >= j]
RecordOf(recs, p) == recs[CHOOSE i \in Positions(recs, p) : \A j \in Positions(recs, p) : i <= j]

HashDiffers(rec, hash) == ~ rec.is_directory /\ hash # Failed /\ hash # rec.hash

\* ag_integrity_check_file: each test overwrites the result of those before it.
Result(rec, st, hash) ==
    IF HashDiffers(rec, hash) THEN "HASH_MISMATCH"
    ELSE IF st.owner # rec.owner THEN "OWNER_CHANGED"
    ELSE IF st.mode # rec.mode THEN "PERMISSION_CHANGED"
    ELSE IF Size[st.content] # rec.size THEN "MODIFIED"
    ELSE "OK"

-----------------------------------------------------------------------------
Init ==
    /\ fs \in InitialFs
    /\ records = << >> /\ saved = << >>
    /\ call = "none" /\ running = FALSE /\ root = "none" /\ recursive = FALSE
    /\ stack = << >> /\ next = 1 /\ at = Nothing /\ violations = 0
    /\ known = [p \in Paths |-> Unknown] /\ lost = {} /\ verdicts = << >>
    /\ events = 0

\* The calls are made one after the other.
Begin(name) ==
    /\ ~ running /\ events < MaxEvents
    /\ events' = events + 1 /\ call' = name /\ verdicts' = << >>
    /\ lost' = { p \in Paths : fs[p] = Gone }
    /\ stack' = << >> /\ next' = 1 /\ violations' = 0
    /\ UNCHANGED <<fs, saved>>

Plain == root' = "none" /\ recursive' = FALSE
Table == <<records, known>>
Start(step, p) == at' = [Nothing EXCEPT !.step = step, !.path = p]

AddFile(p) ==
    Begin("add_file") /\ Plain /\ Start("add", p) /\ running' = TRUE /\ UNCHANGED Table

CheckFile(p) ==
    Begin("check_file") /\ Plain /\ Start("check", p) /\ running' = TRUE /\ UNCHANGED Table

CheckAll ==
    Begin("check_all") /\ Plain /\ at' = Nothing /\ running' = TRUE /\ UNCHANGED Table

AddDirectory(p) ==
    /\ Begin("add_directory")
    /\ p \in Dirs /\ root' = p /\ recursive' \in BOOLEAN
    /\ Start("open", p) /\ running' = TRUE /\ UNCHANGED Table

\* ag_integrity_init and ag_integrity_free, around what main does.
Forget == records' = << >> /\ known' = [p \in Paths |-> Unknown]

\* main's -b.
CreateBaseline ==
    Begin("create_baseline") /\ Plain /\ at' = Nothing /\ running' = TRUE /\ Forget

\* main's -i: a check against an empty table, if ag_file_exists finds the file.
RunIntegrityCheck(p) ==
    /\ Begin("integrity") /\ Plain /\ Forget
    /\ \E exists \in Opens(p) :
         IF exists THEN Start("check", p) /\ running' = TRUE
                   ELSE at' = Nothing /\ running' = FALSE

-----------------------------------------------------------------------------
\* The path in hand is done with: its call goes on, or was about this path only.
Resume == at' = Nothing /\ running' = (call \notin {"add_file", "check_file", "integrity"})

\* ag_integrity_add_file up to its stat; a full table and a file that cannot be
\* examined are refused.
AddStat ==
    /\ at.step = "add"
    /\ \/ Full /\ Resume /\ UNCHANGED lost
       \/ /\ ~ Full
          /\ \E st \in StatOf(at.path) :
               \/ st = Gone /\ lost' = lost \cup {at.path} /\ Resume
               \/ /\ st # Gone
                  /\ at' = [at EXCEPT !.step = "hash", !.st = st, !.seen = {st.content}]
                  /\ UNCHANGED <<lost, running>>
    /\ UNCHANGED <<fs, records, saved, control, stack, next, violations, known, verdicts,
                   events>>

\* ag_integrity_add_file from ag_hash_file on.
AddHash ==
    /\ at.step = "hash"
    /\ \E hash \in Hashes : records' = Append(records, Record(at.path, at.st, hash))
    /\ known' = IF Positions(records, at.path) # {} THEN known
                ELSE [known EXCEPT ![at.path] =
                        [st |-> at.st, mixed |-> at.mid, touched |-> at.mid]]
    /\ Resume
    /\ UNCHANGED <<fs, saved, control, stack, next, violations, lost, verdicts, events>>

\* Mutant of EntriesOf: the directories below root are not entered.
EntriesOfRoot(d) == IF recursive /\ d = root THEN { e \in Entries[d] : fs[e] # Gone } ELSE {}
EntriesOf(d)     == IF recursive THEN { e \in Entries[d] : fs[e] # Gone } ELSE {}

\* ag_integrity_add_directory returns at once when opendir fails; nobody looks
\* at what it returns for a directory in a directory.
OpenDirectory ==
    /\ at.step = "open"
    /\ \E opened \in Opens(at.path) :
         IF opened
           THEN /\ stack' = Append(stack, [dir |-> at.path, left |-> EntriesOf(at.path)])
                /\ Start("add", at.path)
                /\ UNCHANGED <<lost, running>>
           ELSE /\ lost' = lost \cup {at.path}
                /\ at' = Nothing /\ running' = (stack # << >>)
                /\ UNCHANGED stack
    /\ UNCHANGED <<fs, records, saved, control, next, violations, known, verdicts, events>>

Top == stack[Len(stack)]

\* readdir gives an entry, in any order; it is left out if stat fails.
NextEntry ==
    /\ running /\ at = Nothing /\ stack # << >>
    /\ \E e \in Top.left :
         /\ stack' = [stack EXCEPT ![Len(stack)].left = @ \ {e}]
         /\ \E st \in StatOf(e) :
              IF st = Gone
                THEN lost' = lost \cup {e} /\ UNCHANGED at
                ELSE Start(IF e \in Dirs THEN "open" ELSE "add", e) /\ UNCHANGED lost
    /\ UNCHANGED <<fs, records, saved, control, running, next, violations, known, verdicts,
                   events>>

\* An error of readdir is taken for the end of the directory.
EndOfDirectory ==
    /\ running /\ at = Nothing /\ stack # << >>
    /\ lost' = lost \cup Top.left
    /\ stack' = SubSeq(stack, 1, Len(stack) - 1)
    /\ running' = (Len(stack) > 1)
    /\ UNCHANGED <<fs, records, saved, control, next, at, violations, known, verdicts, events>>

\* The loops over the files of the baseline and over the records.
NextOfBaseline ==
    /\ running /\ call = "create_baseline" /\ at = Nothing /\ next <= Len(Baseline)
    /\ Start("add", Baseline[next]) /\ next' = next + 1
    /\ UNCHANGED <<fs, records, saved, control, running, stack, violations, history, events>>

\* The file is written or not, nobody looks at the result; then main frees.
SaveBaseline ==
    /\ running /\ call = "create_baseline" /\ at = Nothing /\ next > Len(Baseline)
    /\ saved' \in {records, << >>}
    /\ Forget
    /\ running' = FALSE
    /\ UNCHANGED <<fs, control, stack, next, at, violations, lost, verdicts, events>>

\* Mutant of AllChecked: the loop ends one record early.
AllButOneChecked == next >= Len(records)
AllChecked       == next > Len(records)

NextRecord ==
    /\ running /\ call = "check_all" /\ at = Nothing /\ ~ AllChecked
    /\ Start("check", records[next].path) /\ next' = next + 1
    /\ UNCHANGED <<fs, records, saved, control, running, stack, violations, history, events>>

EndOfRecords ==
    /\ running /\ call = "check_all" /\ at = Nothing /\ AllChecked
    /\ running' = FALSE
    /\ UNCHANGED <<fs, records, saved, control, stack, next, at, violations, history, events>>

\* What a check found; stale: the file changed since its stat; denied: there
\* was no stat or it failed, although the file is there.
Conclude(result, hash) ==
    /\ verdicts' = Append(verdicts, [path |-> at.path, result |-> result, hash |-> hash,
                                     denied |-> at.st = Gone /\ fs[at.path] # Gone,
                                     stale |-> at.mid])
    /\ violations' = IF call = "check_all" /\ result # "OK" THEN violations + 1 ELSE violations
    /\ Resume

\* ag_integrity_check_file up to its stat: the search of the record comes first.
CheckStat ==
    /\ at.step = "check"
    /\ \/ Positions(records, at.path) = {} /\ Conclude("MISSING", NoHash)
       \/ /\ Positions(records, at.path) # {}
          /\ \E st \in StatOf(at.path) :
               \/ st = Gone /\ Conclude("MISSING", NoHash)
               \/ /\ st # Gone
                  /\ at' = [at EXCEPT !.step = "compare", !.st = st, !.seen = {st.content}]
                  /\ UNCHANGED <<running, violations, verdicts>>
    /\ UNCHANGED <<fs, records, saved, control, stack, next, known, lost, events>>

CheckHash ==
    /\ at.step = "compare"
    /\ \E hash \in Hashes : Conclude(Result(RecordOf(records, at.path), at.st, hash), hash)
    /\ UNCHANGED <<fs, records, saved, control, stack, next, known, lost, events>>

-----------------------------------------------------------------------------
\* A directory and all that is in it, at any depth.
Closed(S) == \A d \in S \cap Dirs : Entries[d] \subseteq S
Tree == [p \in Paths |-> { q \in Paths : \A S \in SUBSET Paths : p \in S /\ Closed(S) => q \in S }]

\* A file may be created where its directory is.
Creatable(p) == fs[p] = Gone /\ \A d \in Dirs : p \in Entries[d] => fs[d] # Gone

\* The history of a change of the paths D; what came or went while its
\* directory is read may still be given, or given again, or not.
Notice(D) ==
    LET moved == { p \in D : fs[p] = Gone \/ fs'[p] = Gone }
    IN  /\ \E given \in [DOMAIN stack -> SUBSET moved] :
             stack' = [i \in DOMAIN stack |->
                         [stack[i] EXCEPT !.left = IF recursive
                            THEN (@ \ moved) \cup (given[i] \cap Entries[stack[i].dir]) ELSE @]]
        /\ at' = IF at.path \in D /\ at.st # Gone
                   THEN [at EXCEPT !.seen = @ \cup {fs'[at.path].content}, !.mid = TRUE] ELSE at
        /\ known' = [p \in Paths |->
                       IF p \in D /\ known[p].st # Gone THEN [known[p] EXCEPT !.touched = TRUE]
                       ELSE known[p]]
        /\ verdicts' = [i \in DOMAIN verdicts |->
                          IF verdicts[i].path \in D THEN [verdicts[i] EXCEPT !.stale = TRUE]
                          ELSE verdicts[i]]
        /\ lost' = lost \cup { p \in D : fs'[p] = Gone }

Elsewhere ==
    /\ events < MaxEvents /\ events' = events + 1
    /\ UNCHANGED <<records, saved, control, running, next, violations>>

\* Another program writes, chmods, chowns or creates a file.
Change(p) ==
    /\ Elsewhere
    /\ fs[p] # Gone \/ Creatable(p)
    /\ \E now \in Attributes : now # fs[p] /\ fs' = [fs EXCEPT ![p] = now]
    /\ Notice({p})

\* It removes a file or an empty directory, or moves a full one elsewhere.
Remove(p) ==
    /\ Elsewhere
    /\ fs[p] # Gone
    /\ fs' = [q \in Paths |-> IF q \in Tree[p] THEN Gone ELSE fs[q]]
    /\ Notice({ q \in Tree[p] : fs[q] # Gone })

Next ==
    \/ \E p \in Paths : \/ AddFile(p) \/ AddDirectory(p) \/ CheckFile(p) \/ RunIntegrityCheck(p)
                        \/ Change(p) \/ Remove(p)
    \/ CheckAll \/ CreateBaseline
    \/ AddStat \/ AddHash \/ OpenDirectory \/ NextEntry \/ EndOfDirectory
    \/ NextOfBaseline \/ SaveBaseline
    \/ NextRecord \/ EndOfRecords \/ CheckStat \/ CheckHash

Spec == Init /\ [][Next]_vars
=============================================================================
