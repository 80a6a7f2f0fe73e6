# AgentGuard FastPath: TLA+ models and proofs

This directory verifies the two C programs of the repository:

* **agfast**, an offline analyser of event files (`src/agfast_parts/*.c`, one
  translation unit through `src/fastpath.c`), and
* **agentguard**, a ptrace monitor of a process (`src/main.c`, `monitor.c`,
  `config.c`, `audit.c`, `integrity.c`).

Paths below are relative to the repository root.  Every definition that stands for code is
listed with its lines in `PROJECT.json` (`map`).

## 1. Inventory

| Component | State | Operations | What is hard | What makes it correct |
|---|---|---|---|---|
| Event reader (parser.c, policy.c lookup) | none | one line of JSON or CSV to eight fields | names found as values, quotes, empty cells | a line as it is meant to be written is read as written |
| `process_events` (analyze, stats) | graph, alerts, hit counters, window, telemetry | one event, malformed line, final report | facts in any order and distance; double marking; late scores | one critical alert per correlated pid; counters, alerts, windows and nodes agree with the events |
| Process graph, risk | node per pid: flags, firsts, lists, timeline, score | ingest, score | same graph from every command; lists kept twice | node = function of its events |
| Policy | exact lists, patterns, Bloom filters, weights | load, four decisions | the filter is asked before the list | the filter never changes a decision |
| `tail` | file position, graph | read a line, end of file | a writer in the middle of a line; waiting for ever | no event lost; catches up |
| `graph`, `timeline` | graph | filter, print up to a limit, write the whole report | the console is cut, the report is not | the console shows a part of the report, and says so |
| `similarity` | two Odd Sketches | add, compare | cancelling collisions | distance and Jaccard measure one difference |
| `generate` | none | event i of a file, in two formats | two hand-made writers for one reader | read back unchanged, and its risk is found |
| `check-*` | Cuckoo filter | load with evictions, lookup, delete | evictions that fail or move a fingerprint away | no false negative; same answer as the analysis |
| Telemetry | Count-Min, HyperLogLog, candidates, Space-Saving | update, print the tables | fixed memory, evictions, collisions | the bounds printed are bounds; the tables show the most frequent |
| Ranked tables | none | sort, cut | ties, estimates, a full table | nobody left out has a higher score |
| GuardSketch | slots, Bloom bits, cells | record, rank | full table, saturation | an exact window of events; never underestimates |
| `ag_monitor_run` | where the loop is, counters | each kind of stop | two callers of `waitpid`; entry and exit look alike; fork, signals, kills | no blocked call runs; each counted and audited once; nobody stays stopped |
| Audit log | ring, file, ids | add | full ring, no file | the last entries, in order |
| Integrity | table of 256 records | add file, directory, check, baseline | files change between any two system calls, each of which may fail | OK means unchanged, an alarm means changed, nothing is left out without a cause |
| `main` of agentguard | signals, modes | dispatch, handlers | asynchronous handlers | see Monitor |

Components call each other directly in one process.  Two pairs are really concurrent: the
signal handlers and the loop of the monitor (with the kernel and the traced processes as
environment), and `tail` and whoever writes its file; the integrity checks also run beside
programs that change the files.  agfast itself is sequential, so its models are about
long sequences of legal calls, not about interleavings.

`PROJECT.json` lists every component, the ones not modelled too, and the hazards at their
lines.

## 2. Modules

### agfast

* `LineText` (parser.c, the lookup of policy.c): from the text of a line to its fields.  A JSON
  line is a sequence of pairs in which a field is *searched* by its quoted name; a CSV row
  is a sequence of quotes, commas and runs, walked by the automaton of parser.c.
* `EventLine` (parser.c): a line is a record of the fields read, a header or garbage.
* `Policy` (policy.c, Bloom filter): `PolicyFile` is the file as arrays of tokens.
  `TokensRead` is where `parse_policy_array` stops; `exact`, `patterns`, `bloom` are what
  it loads; the decisions are the four `policy_is_*`.  Hash positions, `fnmatch` and
  weights are parameters.
* `EventGraph` (graph.c, risk_reports.c, `load_graph_from_events`): the graph-only reader
  of `graph`, `timeline` and `similarity`; it is also the **abstract specification** of the other readers.
* `FastPath`: `process_events`.  `ProcessEvent` is one turn of the loop, second marking
  and window included; `Report` is everything after it, `compute_risk_all` and
  `update_alert_risks` included.  `history` records the events read for the properties.
* `Ranking`: the tables of the reports; `Shown` is what is left of a set of entries after
  sorting and cutting.  `FastPath` shows its riskiest processes with it and `Telemetry` its
  most frequent keys, each with the score and the tie-break of its own comparator.
* `Sums`: the sum of a function over a finite set, for the properties that count.
* `Tail`: `run_tail_command` and the writer of its file.  `file` is a sequence of pieces:
  a line is appended in one write or in two.  `GetLine` is what `getline` returns at the
  end of what has been written.
* `EventLists` **composes** `EventGraph` and `LineText`: the reader of a file of texts, which also keeps
  what the reports print of a node, its lists of files, destinations and event types, its timeline, and the
  order of the nodes.
* `Generator` (`run_generate_command`): event i of a file as a function of i and the ratio, and
  the text of its line in both formats.
* `Similarity`: the two Odd Sketches and the two comparisons, as operators on nodes.
* `GraphCommands` **composes** the three: a file, written by hand or by `Generator`, is read
  by `EventLists`, then `graph`, `timeline` or `similarity` shows it.
* `PolicyCheck`: `run_check_command` and the Cuckoo filter.  `InsertDirectly`,
  `StartKicking`, `Kick`, `GiveUp` are the paths of `cuckoo_insert`, one eviction at a time.
* `Telemetry`: `telemetry_update` with the four summaries; `truth` counts exactly.
* `GuardSketch`: guardsketch.c; `GuardWindow` is its abstract specification, a
  window of counters per pid.

### agentguard

* `AgentPolicy` (config.c): the default policy and the four decisions.
* `AuditLog` (audit.c): the ring.  `AuditTrail` is its abstract specification, a list of
  the last entries.
* `Monitor` (monitor.c, main.c) EXTENDS both and **composes** them: the loop
  (`MonitorStep`), the signal handlers (`HandlerStep`, `Shutdown`), the kernel and the traced processes
  (`KernelStep`, external).  A blocked call adds its audit entry in the same step, as in the
  code.  `performed`, `refused`, `stolen` and `late` are history variables for the properties.
* `Integrity` (integrity.c, `ag_hash_file`, the -b and -i modes of main.c).  A call is as many
  steps as it makes system calls: `AddStat` and `AddHash` are the two halves of
  `ag_integrity_add_file`, `CheckStat` and `CheckHash` those of `ag_integrity_check_file`,
  `OpenDirectory`, `NextEntry` and `EndOfDirectory` the recursion of `ag_integrity_add_directory`
  (`stack` is its open directories), `NextRecord` and `NextOfBaseline` the two loops.  Between any two of
  them `Change` and `Remove`, the environment, may write, chmod, create, remove or move.  A stat, an
  opendir, a readdir or a hash may fail.  `known`, `lost` and `verdicts` are histories for the properties:
  what was so when a path was first recorded, which paths were away or refused in this call,
  what each check said.

The `*Properties` modules hold the properties, `MC*` the values of the constants, and
`*Proofs` the theorems.  Definitions marked *Mutant of X* are plausible wrong versions of X;
`PROJECT.json` pairs each property with one that violates it, as evidence that the property
can fail.

## 3. Runs

| Run | Bounds | What it shows |
|---|---|---|
| `analyze` | 4 lines out of 11, 3 pids (one is "no pid"), windows off or 2, with and without policy and graph, a table of 1; 99,636 states | alerts, counters, windows and nodes agree with the events; final risk of a correlated pid and its place in the table; implements `EventGraph` |
| `tail` | 2 lines out of 7, each in one or two writes, `--follow` or not; 6,298 states | alerts tell the history; no event lost or cut unless a read ended inside a line; a follower always catches up; implements `EventGraph` |
| `tail_torn` | the same | **violation**: with `--follow` a half-written line is read as two |
| `policy_check` | 4 buckets of 2, 3 kicks, three lists (fits, duplicates and twins, overflows), 11 values; 880 states | no false negative, deletion of one copy and no other, agrees with the analysis |
| `graph_commands` | files of up to 4 handmade lines, 36 generated files, all filters, limits of 2; 74,834 states | lines are read as written, generated files read back, and the planted risk found under a policy that knows it; nodes tell the file; the console is a part of the report; the similarity counts measure one difference |
| `telemetry` | 6 updates out of 6 events, 4 keys, K = 2, tables of 1; 21,399 states | no estimate too low, printed bounds are bounds, heavy hitters kept, the tables show the most frequent |
| `guard_sketch` | 2 slots, 3 pids, 2 x 3 cells up to 6, 7 calls; 40,912 states | no underestimate while unsaturated, rankings, implements `GuardWindow` |
| `audit_ring` | 3 slots, 5 entries, with and without a file | agreement with the file, implements `AuditTrail` |
| `monitor` | 2 processes, 2 calls of 7 kinds, 1 signal, 1 audit entry, a shutdown at any time; 348,036 states | safety and liveness of the monitor |
| `handler_reaps` | 1 call | **violation**: the handler takes stops |
| `pid_mode` | 1 call | **violation**: -p never attaches |
| `integrity` | a directory, a directory in it and a file in that, a baseline of the file, 3 contents (two of one size), 5 combinations of attributes, 3 records, 4 calls and changes together; 2,824,553 states | verdicts are true in both directions; what a tree leaves out was away or refused; check_all misses only what changed after it looked |

Why the bounds are enough.  A correlation needs two events; four lines leave room for a
repetition, another pid and a malformed line, and one and a half windows.  Generated files of
nine events have more processes than any limit of the console, and the handmade ones hold each kind of pair and cell that
moves a field, alone and in pairs.  Five entries wrap a ring of
three with an entry to spare.  Two slots for three pids fill the table, and six counts reach
the cell limit.  Two Space-Saving items for four keys are evicted repeatedly, and a table of one entry
has to leave out every other.  Four buckets hold
eight fingerprints: one list needs evictions, one runs out of kicks.  Two calls and a
fork let one process be refused a call while the other is at any of its stops, and a log of
one entry overflows.  Four calls and changes let a file be recorded, change, change back and be checked, or
change between the stat and the hash of one call and stay still for the next.  Three records hold the tree
once and cannot hold it twice, so both the complete tree and the full table occur.  The theorems of section 5 remove the bounds for the invariants they prove.

### Fairness

* `Monitor`: weak fairness of the monitor's own steps and of its handler (they are scheduled), of
  the launched child's `raise(SIGSTOP)` and of the kernel finishing a step it has begun
  (`Proceed`).  *None* is assumed of what a traced process does: it may compute or sleep for ever,
  and need not call, fork or die.  The two liveness properties assume that the handler
  takes no stop (`stolen = {}`): this is exactly the case in which the code is
  wrong (below), and without it they are false.
* `Tail`: weak fairness of the reader, none of the writer.

Deadlock is checked in `policy_check`, whose end is an explicit stuttering
step.  The other programs stop by design: at the end of the input, when all processes have ended,
or at the bound on calls.

## 4. Divergences

Checked as runs:

* `handler_reaps` — `main.c:420`: "Recolecta procesos hijo terminados" (main.c:419), but
  `waitpid(-1, NULL, WNOHANG)` in a tracer also returns ptrace stops.  The loop never hears of
  such a stop and the process stays stopped.  `NoStopForgotten` shows that this is the only way.
* `pid_mode` — `monitor.c:149` is true for `-p` as well, so `ag_monitor_attach` is never called;
  "Monitorear proceso existente" (main.c:374).
* `tail_torn` — `commands.c:541`: a part of a line that ends the file is parsed as a line;
  "debe observar nuevos eventos cuando el archivo crece" (docs/STREAMING.md:104).
  `TailSeesEveryEvent` shows that it is the only way to lose an event.

Seen while modelling, modelled as coded, without a run:

* The `network_after_file` weight is given in either order (risk_reports.c:129); docs/TEORIA_MINIMA.md:121
  says the connection comes after the access.
* The windows printed as "Sliding windows por últimos N eventos" (commands.c:145) are
  consecutive blocks (commands.c:92-102): a burst across a boundary is in no window.
* The critical alert shows the first destination of the node, which may be an allowed one (commands.c:89).
* Nodes are keyed by pid alone, with -1 for none (parser.c:22): two programs under
  one pid, or without one, are correlated as one.
* The branch of `graph_get_or_add` that fills in a missing process name is never taken, because a missing one
  was stored as "-".
* A JSON field is the first occurrence of its quoted name anywhere in the line (policy.c:87): a value equal to
  a field name misdirects the lookup.  `LinesAreReadAsWritten` sets these lines apart.
* An array of the policy ends at its first token that is no string (policy.c:134).
* The generator never writes 45.90.10.2 (commands.c:620): its condition, a multiple of four, never
  holds where an odd number has chosen a connect event (commands.c:614).
* The console says that it is limited also when exactly as many nodes as the limit were printed.
* The tables of frequent keys choose among the first keys seen only, as many as the candidate list holds.
* A shutdown signal clears a flag (main.c:415) and `waitpid` is restarted: the monitor
  takes one more status before it leaves (`ShutdownTakesOneStatus`).
* A file that changes between the stat and the hash of `ag_integrity_add_file` (integrity.c:38, 57) is recorded
  as a mixture of the two, and reported for ever though nobody touches it again.  `VerdictsAreTrue` says
  what is left: the change came after its recording began (`touched`, `mixed`).
* `ag_integrity_check_all` looks at one file after the other (integrity.c:165-181): what changes after its own check
  is missed and no violation counted.  `CheckAllMissesNothing` shows that nothing else is.
* A directory in a directory that cannot be opened is left out, itself and all below it, and the call
  returns 0 (integrity.c:73-77, 96); an entry whose stat fails likewise (integrity.c:94), and the rest of a directory
  after an error of `readdir` (integrity.c:84).  `TreeIsCovered` shows that nothing else is left out.
* A check whose stat is refused says MISSING of a file that is there (integrity.c:126-128), and a read error of
  a file ends its hash early without a sign (utils.c:244).
* agentguard -i starts from an empty table (main.c:287) and finds every file MISSING.
* A saturated GuardSketch signal is estimated 0 (guardsketch.c:108), and an event whose signal is
  EVENT is counted twice in its cell (guardsketch.c:156, 166).

Outside the models, in the option handling of agentguard: `-f` after `-i` replaces the path to check, since both
are kept in one variable; `-j` is undone by the `memset` of `ag_config_set_defaults`; `-r` writes three
reports to one file, of which the last is left; an audit log without a path keeps descriptor 0.

## 5. Proofs

Eight modules hold theorems, checked by TLAPS; `PROJECT.json` lists the results.  Each invariance proof has
the same plan: the initial states satisfy the inductive invariant, every action
preserves it (one lemma per action), the property follows from it.

| Module | Inductive invariant | Why the properties alone are not inductive |
|---|---|---|
| `FastPathProofs` | `IInv`: types; without policy no alert; the flags of a node are those of its events; `critical_emitted` iff both facts; a critical alert iff `critical_emitted`; after the report scores are those of the nodes.  On top of it `HistoryInv`: all facts of a node are those of its events | "one critical alert" needs to know that `critical_emitted` was set by the earlier one, and the score needs the flags; that a first destination stays needs a node to have one exactly when it has connected |
| the same, counts | `CountInv`: the alerts are as many as the sum over the events of what is due at each, and as the four counters together, of which `correlated` is the number of pids with `critical_emitted`; `WindowInv`: the report's numbers are those of the closed windows, which are the whole blocks so far, and the open window has the sum of the events after them | the report gives the counters and the greatest window only; that they agree needs each event to have one place in one sum |
| the same, refinement | `IInv` | step simulation: `ProcessEvent` is `GraphIngest`, its second marking of the node changes nothing (`SecondMarkingAddsNothing`) |
| `RankingProofs` | none: facts about `Shown` and `SumOver` for any finite set | a cut keeps the first entries of a strict order: who is left out is preceded by a full table |
| `MonitorProofs` | `MInv`: types, where each process can be while the loop is at each of its points, what a status held says of its process, allowed calls only; `CInv`: counters, pending calls and audit entries | a call may run because it was allowed when it was evaluated, and that must survive forks, signals, kills and handlers up to its continuation |
| the same, progress | `MInv` and `EndInv`: the end of a process stays reported until it is taken | `NeverAllWaiting` is a statement about one state; that a status is there to be taken is the history of the process |
| the same, the audit ring | `AInv`: types, `RingShape`, `RingAgreesWithFile`, no more entries in the ring than accepted | the slot a new entry overwrites is the oldest only because of the shape |
| `GuardSketchProofs` | `GInv`: types, one slot per pid, Bloom bits, and that each unsaturated cell is at least the exact count of each signal that falls into it; for the refinement `WInv`, a slot is used from its first event on | the estimate is a minimum over rows, so every cell must be bounded; the abstract window has room exactly when a slot is free.  `RankingByRisk` follows the selection sort place by place: what it has taken is riskier than what is left |
| `TelemetryProofs` | `TInv`: types and, per summary, its relation to `truth` (`CmsOK`, `HllOK`, `ListOK`, `SummaryOK`) | a missed key is rare only because every eviction took a least item; a frequent one is kept only because, besides, the counts of the items add up to the events |
| `CommandProofs`, check | `CInv`: types, fingerprints at home, the one in hand too, the bucket it comes from full, no false negative; and the filter holds as many copies of a fingerprint as the list has items that cannot be told apart | an eviction removes an item from the filter; it is not lost because it is in hand with a bucket of its own next; a deletion takes one copy, so their number must be known |
| the same, tail | `FileAndRead`: a rest follows the head of its line, and a reader whose reads have all ended with a line has seen the events of the pieces before it; `GraphInv`: the flags of a node are those of the events seen; `PrintedInv`: what is printed, event by event | at the end of the file there may be a half line, of which nothing can be said until its rest is read |
| `GraphCommandsProofs` | `ReadInv`: at any place of the file the lists of a pid hold what its events so far have, and the order of the nodes is that of their first events; `ConsoleInv`: nothing is printed before the end of the file | the properties speak of the end of the file only, and a list keeps a value where it *first* came |
| the same, generated files | `GeneratedFile`: the file is the one the options give; `CountInv`: the two counters are the numbers of the lines read that are events and that are not; `MarkInv`: the flags of a node are those of its events; `ScoreInv`: after the end of the file each score is that of its node | the texts of a line must come back as the fields it was made of, then the events of a pid must come in their order, and only then the flags are those of the planted events |
| `IntegrityProofs` | `RInv`: types; which step belongs to which call; what the buffers of a call tell of a path that kept still; the *first* record of a path tells what was known of it, unless it is a mixture; a path not touched since is as it was | the verdict is reached in two steps with changes between them, and compares with the first recording, though a path may be recorded again |
| the same, check_all | `LoopInv`: the verdicts are those of the records in order, and the counter of the loop tells how many there are | that none is left out at the end is a statement about each round |
| the same, trees | `PInv`: `AwayInv`, what is away is in `lost`, and `WalkInv`: there is a set of paths already done, each recorded; it, `lost`, the path in hand and what the open directories have left hold all entries of its directories | the code keeps no list of what it has entered, and what is left of an open directory changes while it is read |

Four refinements are proved: `SameGraph`, `TailGraph`, `RingImplementsTrail` and `TableImplementsWindow`.

The assumptions are the named `ASSUME`s of the modules: sizes are positive, hashes are functions
into their ranges, `Alt` is an involution (an exclusive or, with a power of two of buckets), weights
are within the clamp of policy.c:110-111, `--pid` is no negative number (main_cli.c:106-107), the limits of the
console are natural numbers, a file is a finite sequence of lines in the form `LineText` gives them, the generator
chooses among one pid or more (`PidRangeAssumption`).  Numbers in digits and joined strings are not computed by the
provers, so `GeneratedAssumption` says what is needed of them, and TLC evaluates it: no generated time, file or
destination is a field name or a separator, and `strtol` reads the digits of a generated pid as that pid.  No assumption is made of the
quality of a hash: all results hold for any collisions, those of the bits of the Odd Sketch too.

What loops compute.  The installed provers cannot instantiate the induction theorems of the library, which take an
operator, so induction is replaced by a least counterexample: a set of natural numbers that is
not empty has a least element (`MinExists`), and the step that leads to it contradicts it.  A fold of the community
modules is a choice of a function defined by its own values.  `FoldTableExists` shows, by a
smallest subset without one, that there is such a function, and `FoldSteps` that it goes
through the sequence in order.  That gives the nodes that match a filter (`MatchingTakes`), the
sketch of a node (`SketchOfLists`) and the cells of a row (`RowRead`, for generated rows `CellsOfRow`) for any length.  The distance of two sketches
is then a fact about parity: the sketches of two sets differ by the sketch of their difference
(`SketchOfDifference`), and no sketch has more bits than its set has values (`SketchIsSmaller`).

The parts of these invariants that hold step by step are proved and not run a second time:
the type invariants, `RingShape`, `OneSlotPerPid`, `BloomKnowsItsPids`, `FingerprintsAreAtHome`,
`MissedKeysAreRare`, `RegistersForgetOrder` and `CandidatesAreTheFirstKeys`.

Every safety property, action property and refinement of the passing runs is so stated by a theorem.

`GeneratedRiskIsFound` has a condition on the policy, `KnowsWhatIsPlanted`: it names the two files and the domain the
generator plants and no other generated name, and all other weights of a process together are
less than those of a correlation.  The policy of the examples is such a policy, with the weights of
the code; for others the property does not hold, as a watched process or a volume of
events may then outweigh a correlation.

Only model-checked: liveness under fairness (`StopsAreContinued`, `EndsWithItsProcesses`,
`FollowCatchesUp`), which is out of the prover's reach as is ENABLED.  `NeverAllWaiting` is the part of
the first two that is about states, proved for any number of processes: while the handler
has taken no stop and every process is stopped, ended or away, the loop has a step.  Its `CanStep` is
written out, since the prover does not expand ENABLED; that each step leads closer to
the end of the wait is what TLC checks.  No module declares a RECURSIVE operator.

## 6. Not modelled

* Characters: escapes inside a JSON string, the cut of a field at 512 bytes, YAML, HTML, logging and
  report formatting; a string or a cell is one token.
* HyperLogLog's estimate, Jaccard and similarity quotients: floating point.
* `ag_monitor_attach`, `ag_monitor_detach`, failures to read a traced process's memory, and its threads.
* SIGUSR1 reinstalls the defaults that are in force already; SIGUSR2 prints.
* `sandbox.c`: the program calls only its empty init and free.
* Option parsing of both programs: each mode is one call.
* Integrity: a path that changes between directory and file, one that is cut at `AG_MAX_PATH_LEN`, symbolic
  links, and the functions integrity.h declares and the source does not define.
* The audit evidence report: four counters written to a file.
* eBPF check, Python experiments, data generators, bibliography audits, tests, vendored Unity.

## 7. Plan

Done: everything of section 2, first `FastPath`, then `Monitor`, the filters and sketches, the integrity
checks, then the text of lines, the graph commands, the generator and the ranked tables, and the
proofs of section 5.

Left: what each step towards the liveness of `Monitor` decreases, as an action property; attach and detach, once a
path of the program reaches them.
