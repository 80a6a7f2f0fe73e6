------------------------------ MODULE AuditLog ------------------------------
(***************************************************************************)
(* audit.c: the log of agentguard, a ring of AG_MAX_LOG_ENTRIES entries    *)
(* with a head, a tail and a count, a copy of every entry in the log file, *)
(* and the alert counter of the session.  An entry is its id and severity: *)
(* its texts and its hash are functions of the call and are left out.      *)
(***************************************************************************)
EXTENDS Integers, Sequences

CONSTANTS
    AG_MAX_LOG_ENTRIES,
    MaxAdds              \* bound: entries accepted in a session

ASSUME CapacityAssumption == AG_MAX_LOG_ENTRIES \in Nat \ {0} /\ MaxAdds \in Nat

Severities == 0..4          \* AG_SEV_INFO .. AG_SEV_CRITICAL
AG_SEV_HIGH == 3
AG_SEV_CRITICAL == 4

NoEntry == [id |-> -1, severity |-> 0]

VARIABLES
    entries, entry_count, head, tail, circular, total_entries,
    log_fd,             \* the log file is open
    log_file,           \* the ids of the lines written to it
    alert_count         \* g_ctx.alert_count

auditVars == <<entries, entry_count, head, tail, circular, total_entries, log_fd,
               log_file, alert_count>>

Slots == 0..(AG_MAX_LOG_ENTRIES - 1)

NextSlot(i) == (i + 1) % AG_MAX_LOG_ENTRIES

\* When the log file cannot be opened ag_audit_init returns before it sets
\* circular; main goes on with the log all the same.
ag_audit_init ==
    /\ log_fd \in BOOLEAN
    /\ circular = log_fd
    /\ entries = [i \in Slots |-> NoEntry]
    /\ entry_count = 0 /\ head = 0 /\ tail = 0 /\ total_entries = 0
    /\ log_file = <<>>
    /\ alert_count = 0

LogFull == entry_count >= AG_MAX_LOG_ENTRIES /\ ~circular

\* Mutant of MoveTail: the tail stays where it is when the ring is full.
MoveTailNever == entry_count' = entry_count + 1 /\ tail' = tail

MoveTail ==
    IF entry_count < AG_MAX_LOG_ENTRIES
      THEN entry_count' = entry_count + 1 /\ UNCHANGED tail
      ELSE tail' = NextSlot(tail) /\ UNCHANGED entry_count

\* ag_audit_add; a full log that is not circular returns -1.
ag_audit_add(severity) ==
    IF LogFull
      THEN UNCHANGED auditVars
      ELSE /\ entries' = [entries EXCEPT ![head] = [id |-> total_entries, severity |-> severity]]
           /\ total_entries' = total_entries + 1
           /\ log_file' = IF log_fd THEN Append(log_file, total_entries) ELSE log_file
           /\ head' = NextSlot(head)
           /\ MoveTail
           /\ alert_count' = alert_count + (IF severity >= AG_SEV_HIGH THEN 1 ELSE 0)
           /\ UNCHANGED <<circular, log_fd>>

AuditSpec ==
    ag_audit_init /\ [][total_entries < MaxAdds /\ \E s \in Severities : ag_audit_add(s)]_auditVars

-----------------------------------------------------------------------------
\* The entries of the ring, oldest first.
Recent == [ i \in 1..entry_count |-> entries[(tail + i - 1) % AG_MAX_LOG_ENTRIES] ]

Trail == INSTANCE AuditTrail WITH
            Capacity <- AG_MAX_LOG_ENTRIES, High <- AG_SEV_HIGH,
            wraps <- circular, recent <- Recent, accepted <- total_entries,
            alerts <- alert_count

\* The values the variables take.
AuditTypeOK ==
    /\ entries \in [Slots -> [id : Nat \cup {-1}, severity : Severities]]
    /\ entry_count \in 0..AG_MAX_LOG_ENTRIES
    /\ head \in Slots /\ tail \in Slots
    /\ circular \in BOOLEAN /\ log_fd \in BOOLEAN
    /\ total_entries \in Nat /\ alert_count \in Nat
    /\ log_file \in Seq(Nat)

\* Until the ring is full the tail rests and the head is the count; from then
\* on they move together (audit.c:129-134).
RingShape ==
    /\ entry_count < AG_MAX_LOG_ENTRIES => tail = 0 /\ head = entry_count
    /\ entry_count = AG_MAX_LOG_ENTRIES => tail = head

\* The ring, read from its tail, is the list of the last entries accepted, in
\* order and without a gap; a log that is not circular keeps the first ones.
KeepsTheLastEntries == Trail!TrailSpec

\* The ring holds consecutive ids that end with the last one given, and with a
\* log file every one of them is in it, at the place of its id.
RingAgreesWithFile ==
    /\ \A i \in 1..entry_count : Recent[i].id = total_entries - entry_count + i - 1
    /\ log_fd => /\ Len(log_file) = total_entries
                 /\ \A i \in 1..entry_count : log_file[Recent[i].id + 1] = Recent[i].id
=============================================================================
