------------------------------ MODULE AuditLog ------------------------------
(***************************************************************************)
(* What the evaluations table promises, whoever writes to it: an audit log *)
(* of decisions.  A decision enters once, under an ID of its own; it is    *)
(* never edited; it leaves when it is older than the retention window and  *)
(* not before, and never comes back.  A zero window keeps it for ever.     *)
(*                                                                         *)
(* docs/api.md: "id, stable and durable"; "The original evaluation is      *)
(* immutable"; docs/deployment.md: "VIBECHECK_EVALUATION_RETENTION=0 keeps *)
(* evaluations indefinitely".                                              *)
(***************************************************************************)
EXTENDS Naturals

CONSTANTS
    Decisions,  \* records with, at least, an id and the time createdAt
    Retention   \* the window, 0 for ever

VARIABLES
    log,        \* the decisions that can be fetched
    retired,    \* the IDs of those that are gone
    now         \* the clock

vars == <<log, retired, now>>

Init ==
    /\ log = {}
    /\ retired = {}
    /\ now = 0

IDs(decisions) == {d.id : d \in decisions}

\* A new decision, made in the past or just now.
Record ==
    \E d \in log' \ log :
      /\ d \in Decisions
      /\ d.id \notin IDs(log) \cup retired
      /\ d.createdAt <= now
      /\ log' = log \cup {d}
      /\ UNCHANGED <<retired, now>>

\* Some decisions whose window is over leave.
Retire ==
    \E old \in SUBSET log :
      /\ old # {}
      /\ Retention > 0
      /\ \A d \in old : d.createdAt + Retention < now
      /\ log' = log \ old
      /\ retired' = retired \cup IDs(old)
      /\ UNCHANGED now

Tick ==
    /\ now' = now + 1
    /\ UNCHANGED <<log, retired>>

Next == Record \/ Retire \/ Tick

Spec == Init /\ [][Next]_vars

=============================================================================
