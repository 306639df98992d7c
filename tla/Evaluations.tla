---------------------------- MODULE Evaluations ----------------------------
(***************************************************************************)
(* The evaluation core of vibecheck: concurrent Create and SubmitFeedback  *)
(* calls of evaluations.Service, and the retention loops of the server     *)
(* processes, over the four tables of one database.                        *)
(*                                                                         *)
(* Every database statement, and every provider call, is one step; what a  *)
(* call does in memory between two of them belongs to the step before or   *)
(* after it.  All of a call's state but its database rows is lost when the *)
(* call is interrupted, so a crash of a process is one interruption of     *)
(* each of its calls and of its retention pass, and a restart needs no     *)
(* step of its own.  With PostgreSQL several processes share the tables:   *)
(* Requests and Submissions are the calls of all of them, Cleaners has one *)
(* retention loop for each.  Their clocks are taken to agree.              *)
(***************************************************************************)
EXTENDS Integers, FiniteSets

CONSTANTS
    Requests,             \* Create calls; newID makes a call's evaluation ID
                          \* unique, so the call itself stands for the ID
    Submissions,          \* SubmitFeedback calls, and their feedback IDs
    Cleaners,             \* retention loops, one per server process
    Keys,                 \* idempotency keys (as their hashes)
    Bodies,               \* state, facts and metadata of a request
    Policies,             \* compiled policies, one per policy hash
    Refs, RefOf,          \* RefOf[p] is the name and version p declares
    Outcomes, Declares,   \* Declares[p] is the set of outcomes p declares
    Phase,                \* what p makes of the facts of a body: see Phases
    Deployments,          \* the policy sets a start of the server may load
    InlinePolicies,       \* policies callers may send inline, {} if disabled
    EvaluationRetention,  \* age at which an evaluation may go, 0 for never
    IdempotencyRetention, \* life of an idempotency key
    BatchSize,            \* retentionBatchSize
    MaxTime,              \* bound on the clock
    None                  \* no key, no row, no record

(***************************************************************************)
(* ValidateFacts fails, a pre-rule matches, or the provider must be asked. *)
(***************************************************************************)
Phases == {"invalid", "pre_rule", "model"}

Kinds == {"named", "inline"}

Inputs == [kind: Kinds, policy: Policies, body: Bodies, key: Keys \cup {None}]

Hashes == Policies \X Bodies

Rows ==
    [id: Requests, policy: Policies, kind: Kinds, createdAt: Nat,
     status: {"pending", "completed", "provider_failed"},
     path: {"none", "pre_rule", "model"}]

KeyRecords ==
    [key: Keys, hash: Hashes, evaluationID: Requests, expiresAt: Nat]

FeedbackRows ==
    [id: Submissions, evaluationID: Requests, expected: Outcomes]

ASSUME ConstantsAssumption ==
    /\ RefOf \in [Policies -> Refs]
    /\ Declares \in [Policies -> SUBSET Outcomes]
    /\ Phase \in [Policies \X Bodies -> Phases]
    /\ Deployments \in SUBSET (SUBSET Policies)
    /\ Deployments # {}
    /\ InlinePolicies \in SUBSET Policies
    /\ EvaluationRetention \in Nat
    /\ IdempotencyRetention \in Nat
    /\ BatchSize \in Nat \ {0}
    /\ MaxTime \in Nat

\* A policy set holds one policy per reference.
ASSUME DeploymentAssumption ==
    \A d \in Deployments : \A p, q \in d : RefOf[p] = RefOf[q] => p = q

ASSUME NoneAssumption ==
    /\ None \notin Keys
    /\ None \notin Inputs
    /\ None \notin Rows
    /\ None \notin KeyRecords

VARIABLES
    now,          \* the clock
    loaded,       \* the policy set of the running servers
    snapshots,    \* table policy_snapshots, by hash
    evaluations,  \* table evaluations
    idempotency,  \* table idempotency_records, primary key key_hash
    feedback,     \* table evaluation_feedback
    pc,           \* where each Create call is
    input,        \* its request, with the policy it resolved to
    lookup,       \* the idempotency record its replay read
    record,       \* the row it builds, or the row it replays
    billed,       \* the calls that called the provider
    pass,         \* each retention loop: where it is, its clock, its batch
    submission,   \* each SubmitFeedback call: where it is, what it submits
    prior,        \* history: calls already answered when a call arrived
    journal       \* history: the transactions persist committed

tables == <<snapshots, evaluations, idempotency, feedback>>
calls  == <<pc, input, lookup, record, billed, prior>>
vars   == <<now, loaded, tables, calls, pass, submission, journal>>

InFlight ==
    {"replay", "get", "snapshot", "decide", "provider", "persist", "respond"}

Ended == {"answered", "refused", "conflict", "duplicate", "lost"}

NoPass == [at |-> "idle", now |-> 0, batch |-> {}]

NoSubmission == [at |-> "idle", evaluationID |-> None, expected |-> None]

TypeOK ==
    /\ now \in Nat
    /\ loaded \in Deployments
    /\ snapshots \in SUBSET Policies
    /\ evaluations \in SUBSET Rows
    /\ idempotency \in SUBSET KeyRecords
    /\ feedback \in SUBSET FeedbackRows
    /\ pc \in [Requests -> {"idle"} \cup InFlight \cup Ended]
    /\ input \in [Requests -> Inputs \cup {None}]
    /\ lookup \in [Requests -> KeyRecords \cup {None}]
    /\ record \in [Requests -> Rows \cup {None}]
    /\ billed \in SUBSET Requests
    /\ pass \in [Cleaners ->
                   [at: {"idle", "keys", "find", "feedback", "delete"},
                    now: Nat, batch: SUBSET Requests]]
    /\ submission \in [Submissions ->
                         [at: {"idle", "create", "done", "refused", "lost"},
                          evaluationID: Requests \cup {None},
                          expected: Outcomes \cup {None}]]
    /\ prior \in [Requests -> SUBSET Requests]
    /\ journal \in SUBSET [row: Rows, grant: KeyRecords \cup {None}]

Init ==
    /\ now = 0
    /\ loaded \in Deployments
    /\ snapshots = {}
    /\ evaluations = {}
    /\ idempotency = {}
    /\ feedback = {}
    /\ pc = [r \in Requests |-> "idle"]
    /\ input = [r \in Requests |-> None]
    /\ lookup = [r \in Requests |-> None]
    /\ record = [r \in Requests |-> None]
    /\ billed = {}
    /\ pass = [c \in Cleaners |-> NoPass]
    /\ submission = [f \in Submissions |-> NoSubmission]
    /\ prior = [r \in Requests |-> {}]
    /\ journal = {}

-----------------------------------------------------------------------------
(***************************************************************************)
(* Create.                                                                 *)
(***************************************************************************)

\* canonicalRequestHash: the policy hash and all of the input but the key.
CanonicalHash(in) == <<in.policy, in.body>>

Goto(r, from, to) ==
    /\ pc[r] = from
    /\ pc' = [pc EXCEPT ![r] = to]

\* resolvePolicy: a loaded policy by its reference, or a compiled inline one.
Resolvable(kind) == IF kind = "named" THEN loaded ELSE InlinePolicies

\* resolvePolicy and validateRequestShape accept the request.
Receive(r) ==
    /\ Goto(r, "idle", "replay")
    /\ \E kind \in Kinds, b \in Bodies, k \in Keys \cup {None} :
         \E p \in Resolvable(kind) :
           input' = [input EXCEPT ![r] =
                       [kind |-> kind, policy |-> p, body |-> b, key |-> k]]
    /\ prior' = [prior EXCEPT ![r] = {q \in Requests : pc[q] = "answered"}]
    /\ UNCHANGED <<now, loaded, tables, lookup, record, billed, pass,
                   submission, journal>>

\* resolvePolicy or validateRequestShape refuses it.
Refuse(r) ==
    /\ Goto(r, "idle", "refused")
    /\ UNCHANGED <<now, loaded, tables, input, lookup, record, billed, prior,
                   pass, submission, journal>>

ExpiredAtOnce(k, t) == k.expiresAt <= t

ExpiredWithEvaluation(k, t) == k.expiresAt + EvaluationRetention < t

Expired(k, t) == k.expiresAt < t

\* replay, its first query: no key, or no record of the key.
ReplayMiss(r) ==
    /\ Goto(r, "replay", "snapshot")
    /\ \A k \in idempotency : k.key # input[r].key
    /\ UNCHANGED <<now, loaded, tables, input, lookup, record, billed, prior,
                   pass, submission, journal>>

\* replay, its first query: the three ways to go on from a record found.
AfterLookupUnchecked(r, k) == IF Expired(k, now) THEN "snapshot" ELSE "get"

AfterLookup(r, k) ==
    IF Expired(k, now) THEN "snapshot"
    ELSE IF k.hash # CanonicalHash(input[r]) THEN "conflict"
    ELSE "get"

ReplayFound(r) ==
    /\ pc[r] = "replay"
    /\ \E k \in idempotency :
         /\ k.key = input[r].key
         /\ pc' = [pc EXCEPT ![r] = AfterLookup(r, k)]
         /\ lookup' = [lookup EXCEPT ![r] = k]
    /\ UNCHANGED <<now, loaded, tables, input, record, billed, prior, pass,
                   submission, journal>>

\* (Faulty: a recorded failure is not replayed.)
ReplayGetCompleted(r) ==
    /\ \/ /\ Goto(r, "get", "respond")
          /\ \E e \in evaluations :
               /\ e.id = lookup[r].evaluationID /\ e.status = "completed"
               /\ record' = [record EXCEPT ![r] = e]
       \/ /\ Goto(r, "get", "snapshot")
          /\ \A e \in evaluations :
               e.id = lookup[r].evaluationID => e.status # "completed"
          /\ UNCHANGED record
    /\ UNCHANGED <<now, loaded, tables, input, lookup, billed, prior, pass,
                   submission, journal>>

\* replay, its second query: Get(record.EvaluationID), a row or ErrNotFound.
ReplayGet(r) ==
    /\ \/ /\ Goto(r, "get", "respond")
          /\ \E e \in evaluations :
               /\ e.id = lookup[r].evaluationID
               /\ record' = [record EXCEPT ![r] = e]
       \/ /\ Goto(r, "get", "snapshot")
          /\ \A e \in evaluations : e.id # lookup[r].evaluationID
          /\ UNCHANGED record
    /\ UNCHANGED <<now, loaded, tables, input, lookup, billed, prior, pass,
                   submission, journal>>

\* (Faulty: only named policies get a snapshot.)
EnsureNamedSnapshot(r) ==
    /\ Goto(r, "snapshot", "decide")
    /\ snapshots' = snapshots \cup
         (IF input[r].kind = "named" THEN {input[r].policy} ELSE {})
    /\ UNCHANGED <<now, loaded, evaluations, idempotency, feedback, input,
                   lookup, record, billed, prior, pass, submission, journal>>

\* ensureSnapshot: insert the policy's row, on conflict do nothing.
EnsureSnapshot(r) ==
    /\ Goto(r, "snapshot", "decide")
    /\ snapshots' = snapshots \cup {input[r].policy}
    /\ UNCHANGED <<now, loaded, evaluations, idempotency, feedback, input,
                   lookup, record, billed, prior, pass, submission, journal>>

\* newRecord
NewRecord(r) ==
    [id |-> r, policy |-> input[r].policy, kind |-> input[r].kind,
     createdAt |-> now, status |-> "pending", path |-> "none"]

\* applyResult and the status: how an evaluation ended, the rest unchanged.
Settle(row, status, path) ==
    [id |-> row.id, policy |-> row.policy, kind |-> row.kind,
     createdAt |-> row.createdAt, status |-> status, path |-> path]

\* ValidateFacts and EvaluatePreRules, on the facts alone.
PhaseSkippingPreRules(r) ==
    IF Phase[CanonicalHash(input[r])] = "invalid" THEN "invalid" ELSE "model"

FactsPhase(r) == Phase[CanonicalHash(input[r])]

\* decide up to the provider call: ValidateFacts, then the pre-rules, then
\* askProvider, the one call the evaluation is allowed.
Decide(r) ==
    /\ \/ /\ Goto(r, "decide", "refused")
          /\ FactsPhase(r) = "invalid"
          /\ UNCHANGED <<record, billed>>
       \/ /\ Goto(r, "decide", "persist")
          /\ FactsPhase(r) = "pre_rule"
          /\ record' = [record EXCEPT ![r] =
               Settle(NewRecord(r), "completed", "pre_rule")]
          /\ UNCHANGED billed
       \/ /\ Goto(r, "decide", "provider")
          /\ FactsPhase(r) = "model"
          /\ record' = [record EXCEPT ![r] = NewRecord(r)]
          /\ billed' = billed \cup {r}
    /\ UNCHANGED <<now, loaded, tables, input, lookup, prior, pass,
                   submission, journal>>

\* The provider's answers satisfy the question contract: a rule decides.
ProviderAnswers(r) ==
    /\ Goto(r, "provider", "persist")
    /\ record' = [record EXCEPT ![r] = Settle(record[r], "completed", "model")]
    /\ UNCHANGED <<now, loaded, tables, input, lookup, billed, prior, pass,
                   submission, journal>>

\* recordProviderFailure, recordProtocolFailure: the failure is the record.
\* (A cancelled call is not recorded: see Interrupt.)
ProviderFails(r) ==
    /\ Goto(r, "provider", "persist")
    /\ record' = [record EXCEPT ![r] =
                    Settle(record[r], "provider_failed", "none")]
    /\ UNCHANGED <<now, loaded, tables, input, lookup, billed, prior, pass,
                   submission, journal>>

\* (Faulty: a key record even for a caller that sent no key.)
GrantAlways(r) ==
    [key |-> input[r].key, hash |-> CanonicalHash(input[r]),
     evaluationID |-> r, expiresAt |-> now + IdempotencyRetention]

\* The idempotency record persist writes, if the caller sent a key.
Grant(r) ==
    IF input[r].key = None THEN None
    ELSE [key |-> input[r].key, hash |-> CanonicalHash(input[r]),
          evaluationID |-> r, expiresAt |-> now + IdempotencyRetention]

\* (Faulty: no transaction, and the key is written first.)
PersistKeyFirst(r) ==
    /\ Goto(r, "persist", "lost")
    /\ \A k \in idempotency : k.key # input[r].key
    /\ idempotency' = idempotency \cup ({Grant(r)} \ {None})
    /\ UNCHANGED <<now, loaded, snapshots, evaluations, feedback, input, lookup,
                   record, billed, prior, pass, submission, journal>>

\* persist: one transaction, the evaluation and its key.
Persist(r) ==
    /\ Goto(r, "persist", "respond")
    /\ \A k \in idempotency : k.key # input[r].key
    /\ evaluations' = evaluations \cup {record[r]}
    /\ idempotency' = idempotency \cup ({Grant(r)} \ {None})
    /\ journal' = journal \cup {[row |-> record[r], grant |-> Grant(r)]}
    /\ UNCHANGED <<now, loaded, snapshots, feedback, input, lookup, record,
                   billed, prior, pass, submission>>

\* persist: key_hash is taken, the transaction rolls back, Create fails.
PersistDuplicate(r) ==
    /\ Goto(r, "persist", "duplicate")
    /\ \E k \in idempotency : k.key = input[r].key
    /\ record' = [record EXCEPT ![r] = None]
    /\ UNCHANGED <<now, loaded, tables, input, lookup, billed, prior, pass,
                   submission, journal>>

\* The caller gets the evaluation, created or replayed.
Respond(r) ==
    /\ Goto(r, "respond", "answered")
    /\ UNCHANGED <<now, loaded, tables, input, lookup, record, billed, prior,
                   pass, submission, journal>>

\* The caller goes away, a statement fails, or the process dies: the call
\* ends where it is, without a response and without a further statement, and
\* what it held in memory is gone.
Interrupt(r) ==
    /\ pc[r] \in InFlight
    /\ pc' = [pc EXCEPT ![r] = "lost"]
    /\ lookup' = [lookup EXCEPT ![r] = None]
    /\ record' = [record EXCEPT ![r] = None]
    /\ UNCHANGED <<now, loaded, tables, input, billed, prior, pass,
                   submission, journal>>

Create(r) ==
    \/ Receive(r) \/ Refuse(r)
    \/ ReplayMiss(r) \/ ReplayFound(r) \/ ReplayGet(r)
    \/ EnsureSnapshot(r) \/ Decide(r)
    \/ ProviderAnswers(r) \/ ProviderFails(r)
    \/ Persist(r) \/ PersistDuplicate(r) \/ Respond(r)
    \/ Interrupt(r)

-----------------------------------------------------------------------------
(***************************************************************************)
(* SubmitFeedback.                                                         *)
(***************************************************************************)

\* validateExpectedOutcome: the loaded policy with the name and version of
\* the judged one must declare the outcome; if none is loaded, anything goes.
OutcomeAccepted(e, expected) ==
    \A p \in loaded : RefOf[p] = RefOf[e.policy] => expected \in Declares[p]

\* validateFeedback, findEvaluation and validateExpectedOutcome.
SubmitFeedback(f) ==
    /\ submission[f].at = "idle"
    /\ \/ /\ submission' = [submission EXCEPT ![f].at = "refused"]
       \/ \E e \in evaluations, o \in Outcomes :
            /\ OutcomeAccepted(e, o)
            /\ submission' = [submission EXCEPT ![f] =
                 [at |-> "create", evaluationID |-> e.id, expected |-> o]]
    /\ UNCHANGED <<now, loaded, tables, calls, pass, journal>>

\* The feedback row of a submission.
Label(f) ==
    [id |-> f, evaluationID |-> submission[f].evaluationID,
     expected |-> submission[f].expected]

\* The insert, in a statement of its own.
CreateFeedback(f) ==
    /\ submission[f].at = "create"
    /\ submission' = [submission EXCEPT ![f].at = "done"]
    /\ feedback' = feedback \cup {Label(f)}
    /\ UNCHANGED <<now, loaded, snapshots, evaluations, idempotency, calls,
                   pass, journal>>

InterruptFeedback(f) ==
    /\ submission[f].at = "create"
    /\ submission' = [submission EXCEPT ![f].at = "lost"]
    /\ UNCHANGED <<now, loaded, tables, calls, pass, journal>>

Submit(f) == SubmitFeedback(f) \/ CreateFeedback(f) \/ InterruptFeedback(f)

-----------------------------------------------------------------------------
(***************************************************************************)
(* The retention loop of one process.                                      *)
(***************************************************************************)

\* CreatedAt < cutoff, with cutoff = t - EvaluationRetention
AgedInclusive(e, t) == e.createdAt + EvaluationRetention <= t

Aged(e, t) == e.createdAt + EvaluationRetention < t

\* runRetention, a tick: cleanup reads the clock.
StartPass(c) ==
    /\ pass[c].at = "idle"
    /\ pass' = [pass EXCEPT ![c] = [at |-> "keys", now |-> now, batch |-> {}]]
    /\ UNCHANGED <<now, loaded, tables, calls, submission, journal>>

\* expireIdempotency.  Neither database driver renders a LIMIT on a DELETE:
\* one statement removes every expired record.  With a zero evaluation window
\* the pass ends here.
ExpireIdempotency(c) ==
    /\ pass[c].at = "keys"
    /\ idempotency' = {k \in idempotency : ~Expired(k, pass[c].now)}
    /\ pass' = IF EvaluationRetention = 0
                 THEN [pass EXCEPT ![c] = NoPass]
                 ELSE [pass EXCEPT ![c].at = "find"]
    /\ UNCHANGED <<now, loaded, snapshots, evaluations, feedback, calls,
                   submission, journal>>

\* (Faulty: a backlog larger than a batch is left alone.)
BatchesThatFit(t) ==
    LET aged == {e.id : e \in {x \in evaluations : Aged(x, t)}} IN
    IF Cardinality(aged) <= BatchSize THEN {aged} ELSE {{}}

\* What the Find of expireEvaluations may return: up to BatchSize aged rows,
\* in no particular order.
Batches(t) ==
    LET aged == {e.id : e \in {x \in evaluations : Aged(x, t)}} IN
    {b \in SUBSET aged :
       \/ Cardinality(b) = BatchSize
       \/ b = aged /\ Cardinality(b) < BatchSize}

\* expireEvaluations, the query; an empty result ends the pass.
FindExpired(c) ==
    /\ pass[c].at = "find"
    /\ \E b \in Batches(pass[c].now) :
         pass' = IF b = {} THEN [pass EXCEPT ![c] = NoPass]
                 ELSE [pass EXCEPT ![c] =
                         [at |-> "feedback", now |-> pass[c].now, batch |-> b]]
    /\ UNCHANGED <<now, loaded, tables, calls, submission, journal>>

\* (Faulty: the delete has lost its filter.)
DeleteEveryFeedback(c) ==
    /\ pass[c].at = "feedback"
    /\ feedback' = {}
    /\ pass' = [pass EXCEPT ![c].at = "delete"]
    /\ UNCHANGED <<now, loaded, snapshots, evaluations, idempotency, calls,
                   submission, journal>>

\* expireEvaluations, the first delete: feedback by evaluation ID.
DeleteFeedback(c) ==
    /\ pass[c].at = "feedback"
    /\ feedback' = {g \in feedback : g.evaluationID \notin pass[c].batch}
    /\ pass' = [pass EXCEPT ![c].at = "delete"]
    /\ UNCHANGED <<now, loaded, snapshots, evaluations, idempotency, calls,
                   submission, journal>>

\* expireEvaluations, the second delete: the evaluations.
DeleteEvaluations(c) ==
    /\ pass[c].at = "delete"
    /\ evaluations' = {e \in evaluations : e.id \notin pass[c].batch}
    /\ pass' = [pass EXCEPT ![c] = NoPass]
    /\ UNCHANGED <<now, loaded, snapshots, idempotency, feedback, calls,
                   submission, journal>>

\* A statement fails, or the process stops: the pass is over, and the next
\* tick starts another.
InterruptPass(c) ==
    /\ pass[c].at # "idle"
    /\ pass' = [pass EXCEPT ![c] = NoPass]
    /\ UNCHANGED <<now, loaded, tables, calls, submission, journal>>

Clean(c) ==
    \/ StartPass(c) \/ ExpireIdempotency(c) \/ FindExpired(c)
    \/ DeleteFeedback(c) \/ DeleteEvaluations(c) \/ InterruptPass(c)

-----------------------------------------------------------------------------
Tick ==
    /\ now < MaxTime
    /\ now' = now + 1
    /\ UNCHANGED <<loaded, tables, calls, pass, submission, journal>>

\* A start of the server loads the policy directory, which may have changed.
Redeploy ==
    /\ \E d \in Deployments \ {loaded} : loaded' = d
    /\ UNCHANGED <<now, tables, calls, pass, submission, journal>>

Next ==
    \/ \E r \in Requests : Create(r)
    \/ \E f \in Submissions : Submit(f)
    \/ \E c \in Cleaners : Clean(c)
    \/ Tick
    \/ Redeploy

Spec == Init /\ [][Next]_vars

(***************************************************************************)
(* The clock runs; the ticker fires; a statement of the retention loop     *)
(* does not fail for ever ("a transient database error must not take the   *)
(* service down, and the next tick retries the same work").  Callers owe   *)
(* nothing.                                                                *)
(***************************************************************************)
Fairness ==
    /\ WF_vars(Tick)
    /\ \A c \in Cleaners :
         /\ WF_vars(StartPass(c))
         /\ SF_vars(ExpireIdempotency(c))
         /\ SF_vars(FindExpired(c))
         /\ SF_vars(DeleteFeedback(c))
         /\ SF_vars(DeleteEvaluations(c))

FairSpec == Spec /\ Fairness

-----------------------------------------------------------------------------
(***************************************************************************)
(* Safety.                                                                 *)
(***************************************************************************)

\* Retention may have removed e by now: the window is not zero, and over.
Retirable(e) ==
    EvaluationRetention > 0 /\ e.createdAt + EvaluationRetention < now

Grants == {j.grant : j \in journal} \ {None}

\* Every evaluation resolves to the policy that decided it: ensureSnapshot
\* runs before persist and no snapshot is ever removed, so no interleaving
\* of calls, failures and retention leaves a row whose snapshot is missing.
SnapshotsCover == \A e \in evaluations : e.policy \in snapshots

\* persist's transaction: an idempotency record always names an evaluation
\* made by a call that sent this key and this canonical request, and the
\* evaluation is there unless its own retention window is over.
KeysNameTheirRow ==
    \A k \in idempotency :
      /\ input[k.evaluationID] # None
      /\ k.key = input[k.evaluationID].key
      /\ k.hash = CanonicalHash(input[k.evaluationID])
      /\ \E j \in journal :
           /\ j.grant = k
           /\ j.row.id = k.evaluationID
           /\ j.row \in evaluations \/ Retirable(j.row)

\* "The evaluation is persisted before this returns, so a caller that got a
\* response can always find the audit row": whatever was answered, created or
\* replayed, is in the table, unchanged, until its retention window is over.
AnsweredIsDurable ==
    \A r \in Requests :
      pc[r] = "answered" => record[r] \in evaluations \/ Retirable(record[r])

\* A replay hands out the decision on the very same policy and input, never
\* the decision on another request that used the key.
ReplayIsFaithful ==
    \A r \in Requests :
      pc[r] = "answered" =>
        CanonicalHash(input[record[r].id]) = CanonicalHash(input[r])

\* One call owns a key: two calls that both committed with the same key did
\* so in windows that do not overlap.
OneOwnerPerKey ==
    \A g, h \in Grants :
      g # h /\ g.key = h.key =>
        \/ g.expiresAt + IdempotencyRetention < h.expiresAt
        \/ h.expiresAt + IdempotencyRetention < g.expiresAt

\* A key whose evaluation was already answered when a call arrived protects
\* that call from billing the provider: with the same request until the key
\* expires or the row is retired, with another one until the key expires.
LiveKeyNeverBills ==
    \A r \in billed : \A j \in journal :
      /\ j.grant # None
      /\ j.row.id \in prior[r]
      /\ input[r].key = j.grant.key
      =>
      \/ j.grant.expiresAt < now
      \/ CanonicalHash(input[r]) = j.grant.hash /\ Retirable(j.row)

\* What a settled row says of how it came about.
Verdict(e) ==
    \/ e.path = "pre_rule" /\ e.status = "completed" /\ e.id \notin billed
    \/ e.path = "model" /\ e.status = "completed" /\ e.id \in billed
    \/ e.path = "none" /\ e.status = "provider_failed" /\ e.id \in billed

\* Facts settle before the model: a request that a pre-rule decides, or that
\* the fact contract refuses, never reaches the provider, and a committed
\* row carries the verdict of the phase that produced it.
FactsBeforeModel ==
    /\ \A r \in billed : Phase[CanonicalHash(input[r])] = "model"
    /\ \A e \in evaluations : Verdict(e)

\* A label that was accepted is kept, with the decision it judges unchanged,
\* until the decision's retention window is over.  SubmitFeedback reads the row
\* and inserts the label in two statements; a pass deletes labels and rows in
\* two others, from a batch it found earlier, and may stop between them: no
\* order of these takes the label, or the row, of a decision that is not due.
LabelsAreDurable ==
    \A f \in Submissions :
      submission[f].at = "done" =>
        \E j \in journal :
          /\ j.row.id = submission[f].evaluationID
          /\ \/ Retirable(j.row)
             \/ j.row \in evaluations /\ Label(f) \in feedback

-----------------------------------------------------------------------------
(***************************************************************************)
(* The evaluations table as an audit log: what is committed and no longer  *)
(* in the table is retired.                                                *)
(***************************************************************************)
Retired == {j.row.id : j \in journal} \ {e.id : e \in evaluations}

Audit == INSTANCE AuditLog WITH
    Decisions <- Rows, Retention <- EvaluationRetention,
    log <- evaluations, retired <- Retired, now <- now

\* Nothing the calls, their failures and the retention loops do to the table
\* is anything but recording a new decision or retiring old ones.
ImplementsAuditLog == Audit!Spec

-----------------------------------------------------------------------------
(***************************************************************************)
(* Liveness, under FairSpec.                                               *)
(***************************************************************************)

\* Retention drains a backlog larger than one batch: an evaluation whose
\* window is over is removed, although a pass takes one batch and may fail.
AgedRowsAreRetired ==
    \A r \in Requests :
      (\E e \in evaluations : e.id = r /\ Retirable(e))
        ~> (\A e \in evaluations : e.id # r)

\* A key is not held beyond its window for ever: its record is removed and
\* the key can be used again.
ExpiredKeysArePurged ==
    \A k \in Keys, r \in Requests :
      (\E i \in idempotency :
         i.key = k /\ i.evaluationID = r /\ i.expiresAt < now)
        ~> (\A i \in idempotency : i.key # k \/ i.evaluationID # r)

=============================================================================
