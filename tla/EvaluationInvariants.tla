------------------------ MODULE EvaluationInvariants ------------------------
(***************************************************************************)
(* The inductive invariants behind the safety properties of Evaluations:   *)
(* what a call, a retention pass and the tables owe one another between    *)
(* two statements.                                                         *)
(***************************************************************************)
EXTENDS Evaluations

-----------------------------------------------------------------------------
(***************************************************************************)
(* Types.  TypeOK alone is not inductive: a step reads the request, the    *)
(* key record or the row of a call, so a call at such a step must have one.*)
(***************************************************************************)
HasInput == InFlight \cup {"answered", "conflict", "duplicate"}
HasRow   == {"provider", "persist", "respond", "answered"}

CallShape ==
    \A r \in Requests :
      /\ pc[r] \in HasInput => input[r] \in Inputs
      /\ pc[r] = "get" => lookup[r] \in KeyRecords
      /\ pc[r] \in HasRow => record[r] \in Rows

SubmissionShape ==
    \A f \in Submissions :
      submission[f].at = "create" =>
        /\ submission[f].evaluationID \in Requests
        /\ submission[f].expected \in Outcomes

Shape == TypeOK /\ CallShape /\ SubmissionShape

-----------------------------------------------------------------------------
(***************************************************************************)
(* Calls and the rows they make.                                           *)
(***************************************************************************)

\* A call that is deciding has its snapshot.
SnapshotTaken ==
    \A r \in Requests :
      pc[r] \in {"decide", "provider", "persist"} =>
        input[r].policy \in snapshots

\* The row a call builds is its own.
OwnRows ==
    \A r \in Requests :
      pc[r] \in {"provider", "persist"} =>
        /\ record[r].id = r
        /\ record[r].policy = input[r].policy
        /\ record[r].createdAt <= now

\* A call is billed for a request of the model phase, at the provider step
\* and not before.
Billing ==
    /\ \A r \in billed :
         /\ pc[r] \in {"provider", "persist", "respond", "answered",
                       "duplicate", "lost"}
         /\ input[r] \in Inputs
         /\ Phase[CanonicalHash(input[r])] = "model"
    /\ \A r \in Requests : pc[r] = "provider" => r \in billed
    /\ \A r \in Requests : pc[r] = "persist" => Verdict(record[r])

\* A committed row was made by a call that is past persist.
JournalRows ==
    \A j \in journal :
      /\ pc[j.row.id] \in {"respond", "answered", "lost"}
      /\ input[j.row.id] \in Inputs
      /\ j.row.policy \in snapshots
      /\ j.row.createdAt <= now
      /\ Verdict(j.row)

\* A committed key is the key of the row's call.
JournalGrants ==
    \A j \in journal :
      j.grant # None =>
        /\ j.grant.evaluationID = j.row.id
        /\ j.grant.key = input[j.row.id].key
        /\ j.grant.hash = CanonicalHash(input[j.row.id])
        /\ j.grant.expiresAt <= now + IdempotencyRetention

JournalUnique ==
    \A i, j \in journal : i.row.id = j.row.id => i = j

-----------------------------------------------------------------------------
(***************************************************************************)
(* The tables hold what was committed, less what retention may take.       *)
(***************************************************************************)
TableRows ==
    /\ \A e \in evaluations : \E j \in journal : j.row = e
    /\ \A j \in journal : j.row \in evaluations \/ Retirable(j.row)

TableKeys ==
    /\ \A k \in idempotency : \E j \in journal : j.grant = k
    /\ \A j \in journal :
         j.grant # None =>
           j.grant \in idempotency \/ j.grant.expiresAt < now
    /\ \A k, l \in idempotency : k.key = l.key => k = l

\* The IDs belong to rows of the journal J, all of them aged at time t.
AgedIDs(J, ids, t) ==
    \A id \in ids :
      /\ EvaluationRetention > 0
      /\ \E j \in J : j.row.id = id
      /\ \A j \in J : j.row.id = id => Aged(j.row, t)

\* A pass holds IDs of rows that were aged when it read the clock.
Passes ==
    \A c \in Cleaners :
      /\ pass[c].now <= now
      /\ pass[c].at \notin {"idle", "keys"} => EvaluationRetention > 0
      /\ AgedIDs(journal, pass[c].batch, pass[c].now)

-----------------------------------------------------------------------------
(***************************************************************************)
(* What replay, the responses and feedback refer to was committed.         *)
(***************************************************************************)
Lookups ==
    \A r \in Requests :
      pc[r] = "get" =>
        /\ \E j \in journal : j.grant = lookup[r]
        /\ lookup[r].key = input[r].key
        /\ lookup[r].hash = CanonicalHash(input[r])

Answers ==
    \A r \in Requests :
      pc[r] \in {"respond", "answered"} =>
        \E j \in journal :
          /\ j.row = record[r]
          /\ CanonicalHash(input[j.row.id]) = CanonicalHash(input[r])

\* Feedback, about to be written or written, judges a committed evaluation,
\* and is in the table once written until the evaluation's window is over.
Labels ==
    \A f \in Submissions :
      submission[f].at \in {"create", "done"} =>
        \E j \in journal :
          /\ j.row.id = submission[f].evaluationID
          /\ \/ submission[f].at = "create"
             \/ Retirable(j.row)
             \/ Label(f) \in feedback

Inductive ==
    /\ Shape
    /\ SnapshotTaken /\ OwnRows /\ Billing
    /\ JournalRows /\ JournalGrants /\ JournalUnique
    /\ TableRows /\ TableKeys /\ Passes
    /\ Lookups /\ Answers /\ Labels

-----------------------------------------------------------------------------
(***************************************************************************)
(* LiveKeyNeverBills.  The protection of a key follows a call from its     *)
(* arrival: replay either holds the record, or has found out that the key  *)
(* expired or that the row is gone.                                        *)
(***************************************************************************)

\* j's key was taken, and its caller answered, when r arrived with that key.
Holds(j, r) ==
    /\ j.grant # None
    /\ j.row.id \in prior[r]
    /\ input[r].key = j.grant.key

Released(j, r) ==
    \/ j.grant.expiresAt < now
    \/ CanonicalHash(input[r]) = j.grant.hash /\ Retirable(j.row)

PriorAnswered == \A r \in Requests : \A q \in prior[r] : pc[q] = "answered"

Protection ==
    \A r \in Requests : \A j \in journal :
      Holds(j, r) =>
        /\ pc[r] = "get" => lookup[r] = j.grant \/ j.grant.expiresAt < now
        /\ pc[r] \in {"snapshot", "decide"} \/ r \in billed => Released(j, r)

=============================================================================
