----------------------------- MODULE AuditTrail -----------------------------
(***************************************************************************)
(* What the audit log of agentguard promises: the most recent Capacity     *)
(* entries in the order they were added, and a count of the serious ones.  *)
(* A log that cannot wrap stops at Capacity and refuses the rest.          *)
(* AuditLog.tla implements it with a ring buffer.                          *)
(***************************************************************************)
EXTENDS Integers, Sequences

CONSTANTS Capacity, Severities, High

VARIABLES wraps, recent, accepted, alerts

trailVars == <<wraps, recent, accepted, alerts>>

Entry(severity) == [id |-> accepted, severity |-> severity]

TrailInit ==
    /\ wraps \in BOOLEAN
    /\ recent = <<>>
    /\ accepted = 0
    /\ alerts = 0

Add(severity) ==
    /\ Len(recent) < Capacity \/ wraps
    /\ recent' = Append(IF Len(recent) < Capacity THEN recent ELSE Tail(recent),
                        Entry(severity))
    /\ accepted' = accepted + 1
    /\ alerts' = alerts + (IF severity >= High THEN 1 ELSE 0)
    /\ UNCHANGED wraps

TrailSpec == TrailInit /\ [][\E severity \in Severities : Add(severity)]_trailVars
=============================================================================
