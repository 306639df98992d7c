------------------------- MODULE EvaluationsProofs -------------------------
(***************************************************************************)
(* Proofs about Evaluations, for every number of calls, retention loops,   *)
(* keys and policies and every retention window: type correctness first,   *)
(* then the safety properties from the invariants of EvaluationInvariants. *)
(***************************************************************************)
EXTENDS EvaluationInvariants, TLAPS

-----------------------------------------------------------------------------
(* Type correctness. *)

LEMMA InitShape == Init => Shape
  BY ConstantsAssumption, NoneAssumption
  DEF Init, Shape, TypeOK, CallShape, SubmissionShape, HasInput, HasRow,
      InFlight, Ended, NoPass, NoSubmission

\* A Create call keeps types.
LEMMA CreateShape ==
  ASSUME Shape, NEW r \in Requests, Create(r)
  PROVE  Shape'
<1> USE ConstantsAssumption, NoneAssumption
    DEF Shape, TypeOK, CallShape, SubmissionShape, HasInput, HasRow, InFlight,
        Ended, Goto, tables, Inputs, CanonicalHash
<1>1. CASE Receive(r)
  <2>1. PICK in \in Inputs : input' = [input EXCEPT ![r] = in]
    BY <1>1 DEF Receive, Resolvable
  <2> QED  BY <1>1, <2>1 DEF Receive
<1>2. CASE Refuse(r)
  BY <1>2 DEF Refuse
<1>3. CASE ReplayMiss(r)
  BY <1>3 DEF ReplayMiss
<1>4. CASE ReplayFound(r)
  <2>1. PICK k \in idempotency :
          /\ pc' = [pc EXCEPT ![r] = AfterLookup(r, k)]
          /\ lookup' = [lookup EXCEPT ![r] = k]
    BY <1>4 DEF ReplayFound
  <2>2. AfterLookup(r, k) \in {"snapshot", "conflict", "get"}
    BY DEF AfterLookup
  <2> QED  BY <1>4, <2>1, <2>2 DEF ReplayFound
<1>5. CASE ReplayGet(r)
  <2>1. CASE pc'[r] = "respond"
    <3>1. PICK e \in evaluations : record' = [record EXCEPT ![r] = e]
      BY <1>5, <2>1 DEF ReplayGet
    <3> QED  BY <1>5, <2>1, <3>1 DEF ReplayGet
  <2>2. CASE pc'[r] = "snapshot"
    BY <1>5, <2>2 DEF ReplayGet
  <2> QED  BY <1>5, <2>1, <2>2 DEF ReplayGet
<1>6. CASE EnsureSnapshot(r)
  BY <1>6 DEF EnsureSnapshot
<1>7. CASE Decide(r)
  <2>1. NewRecord(r) \in Rows
    BY <1>7 DEF Decide, NewRecord, Rows
  <2>2. Settle(NewRecord(r), "completed", "pre_rule") \in Rows
    BY <2>1 DEF Settle, Rows
  <2>3. CASE FactsPhase(r) = "invalid"
    BY <1>7, <2>3 DEF Decide
  <2>4. CASE FactsPhase(r) = "pre_rule"
    <3>1. PICK row \in Rows : record' = [record EXCEPT ![r] = row]
      BY <1>7, <2>2, <2>4 DEF Decide
    <3>2. Goto(r, "decide", "persist")
      BY <1>7, <2>4 DEF Decide
    <3> QED  BY <1>7, <2>4, <3>1, <3>2 DEF Decide
  <2>5. CASE FactsPhase(r) = "model"
    BY <1>7, <2>1, <2>5 DEF Decide
  <2> QED  BY <1>7, <2>3, <2>4, <2>5 DEF Decide
<1>8. CASE ProviderAnswers(r)
  <2>1. record[r] \in Rows
    BY <1>8 DEF ProviderAnswers
  <2>2. Settle(record[r], "completed", "model") \in Rows
    BY <2>1 DEF Settle, Rows
  <2> QED  BY <1>8, <2>1, <2>2 DEF ProviderAnswers
<1>9. CASE ProviderFails(r)
  <2>1. record[r] \in Rows
    BY <1>9 DEF ProviderFails
  <2>2. Settle(record[r], "provider_failed", "none") \in Rows
    BY <2>1 DEF Settle, Rows
  <2> QED  BY <1>9, <2>1, <2>2 DEF ProviderFails
<1>10. CASE Persist(r)
  <2>1. Grant(r) \in KeyRecords \cup {None}
    BY <1>10 DEF Persist, Grant, KeyRecords, Hashes
  <2> QED  BY <1>10, <2>1 DEF Persist
<1>11. CASE PersistDuplicate(r)
  BY <1>11 DEF PersistDuplicate
<1>12. CASE Respond(r)
  BY <1>12 DEF Respond
<1>13. CASE Interrupt(r)
  BY <1>13 DEF Interrupt
<1> QED
  BY <1>1, <1>2, <1>3, <1>4, <1>5, <1>6, <1>7, <1>8, <1>9, <1>10, <1>11,
     <1>12, <1>13 DEF Create

\* So does a SubmitFeedback call.
LEMMA SubmitShape ==
  ASSUME Shape, NEW f \in Submissions, Submit(f)
  PROVE  Shape'
<1> USE ConstantsAssumption, NoneAssumption
    DEF Shape, TypeOK, CallShape, SubmissionShape, tables, calls
<1>1. CASE SubmitFeedback(f)
  <2>1. CASE submission' = [submission EXCEPT ![f].at = "refused"]
    BY <1>1, <2>1 DEF SubmitFeedback
  <2>2. CASE submission' # [submission EXCEPT ![f].at = "refused"]
    <3>1. PICK e \in evaluations, o \in Outcomes :
            submission' = [submission EXCEPT ![f] =
              [at |-> "create", evaluationID |-> e.id, expected |-> o]]
      BY <1>1, <2>2 DEF SubmitFeedback
    <3>2. e.id \in Requests
      BY DEF Rows
    <3> QED  BY <1>1, <3>1, <3>2 DEF SubmitFeedback
  <2> QED  BY <2>1, <2>2
<1>2. CASE CreateFeedback(f)
  BY <1>2 DEF CreateFeedback, FeedbackRows, Label
<1>3. CASE InterruptFeedback(f)
  BY <1>3 DEF InterruptFeedback
<1> QED  BY <1>1, <1>2, <1>3 DEF Submit

\* What the Find of a retention pass returns.
LEMMA BatchesAreRequests ==
  ASSUME TypeOK, NEW t \in Nat, NEW b \in Batches(t)
  PROVE  b \subseteq Requests
BY DEF Batches, TypeOK, Rows

\* And so does a retention loop.
LEMMA CleanShape ==
  ASSUME Shape, NEW c \in Cleaners, Clean(c)
  PROVE  Shape'
<1> USE ConstantsAssumption
    DEF Shape, TypeOK, CallShape, SubmissionShape, NoPass, tables, calls
<1>1. CASE StartPass(c)
  BY <1>1 DEF StartPass
<1>2. CASE ExpireIdempotency(c)
  BY <1>2 DEF ExpireIdempotency
<1>3. CASE FindExpired(c)
  <2>1. PICK b \in Batches(pass[c].now) :
          pass' = IF b = {} THEN [pass EXCEPT ![c] = NoPass]
                  ELSE [pass EXCEPT ![c] =
                          [at |-> "feedback", now |-> pass[c].now, batch |-> b]]
    BY <1>3 DEF FindExpired
  <2>2. b \subseteq Requests
    BY BatchesAreRequests
  <2> QED  BY <1>3, <2>1, <2>2 DEF FindExpired
<1>4. CASE DeleteFeedback(c)
  <2>1. feedback' \subseteq feedback
    BY <1>4 DEF DeleteFeedback
  <2> QED  BY <1>4, <2>1, SMTT(20) DEF DeleteFeedback
<1>5. CASE DeleteEvaluations(c)
  BY <1>5 DEF DeleteEvaluations
<1>6. CASE InterruptPass(c)
  BY <1>6 DEF InterruptPass
<1> QED  BY <1>1, <1>2, <1>3, <1>4, <1>5, <1>6 DEF Clean

LEMMA NextShape == Shape /\ [Next]_vars => Shape'
<1> SUFFICES ASSUME Shape, [Next]_vars PROVE Shape'
  OBVIOUS
<1>1. CASE \E r \in Requests : Create(r)
  BY <1>1, CreateShape
<1>2. CASE \E f \in Submissions : Submit(f)
  BY <1>2, SubmitShape
<1>3. CASE \E c \in Cleaners : Clean(c)
  BY <1>3, CleanShape
<1>4. CASE Tick
  BY <1>4 DEF Tick, Shape, TypeOK, CallShape, SubmissionShape, tables, calls
<1>5. CASE Redeploy
  BY <1>5 DEF Redeploy, Shape, TypeOK, CallShape, SubmissionShape, tables, calls
<1>6. CASE UNCHANGED vars
  BY <1>6 DEF vars, Shape, TypeOK, CallShape, SubmissionShape, tables, calls
<1> QED  BY <1>1, <1>2, <1>3, <1>4, <1>5, <1>6 DEF Next

\* Every variable keeps its type, and a call never reads a request, a key
\* record or a row it does not have.
THEOREM TypeCorrect == Spec => []TypeOK
<1>1. Shape => TypeOK
  BY DEF Shape
<1> QED  BY <1>1, InitShape, NextShape, PTL DEF Spec

-----------------------------------------------------------------------------
(* Safety.  Most properties speak of calls that are past persist and of    *)
(* committed rows, which no later step changes: Growth says so once, and   *)
(* leaves Persist, the one step that commits.                              *)

Past == {"respond", "answered", "lost"}

\* Time, snapshots, billing and the journal only grow, and no step changes
\* what a call that has its request sent, or wakes a call that ended.
Growth ==
    /\ now <= now'
    /\ snapshots \subseteq snapshots'
    /\ billed \subseteq billed'
    /\ journal \subseteq journal'
    /\ \A q \in Requests :
         /\ pc[q] # "idle" => input'[q] = input[q] /\ prior'[q] = prior[q]
         /\ pc[q] # "idle" => pc'[q] # "idle"
         /\ pc[q] \in Past => pc'[q] \in Past
         /\ pc[q] = "answered" => pc'[q] = "answered"
         /\ pc[q] \in Ended => pc'[q] = pc[q]
         /\ pc[q] # "decide" => (q \in billed' <=> q \in billed)

LEMMA CreateGrowth ==
  ASSUME Shape, NEW r \in Requests, Create(r)
  PROVE  Growth
<1> USE DEF Shape, TypeOK, Growth, Past, InFlight, Ended, Goto, tables
<1>1. CASE Receive(r)
  <2>1. PICK in \in Inputs : input' = [input EXCEPT ![r] = in]
    BY <1>1, ConstantsAssumption DEF Receive, Resolvable, Inputs
  <2> QED  BY <1>1, <2>1 DEF Receive
<1>2. CASE Refuse(r)
  BY <1>2 DEF Refuse
<1>3. CASE ReplayMiss(r)
  BY <1>3 DEF ReplayMiss
<1>4. CASE ReplayFound(r)
  <2>1. PICK k \in idempotency : pc' = [pc EXCEPT ![r] = AfterLookup(r, k)]
    BY <1>4 DEF ReplayFound
  <2>2. AfterLookup(r, k) \in {"snapshot", "conflict", "get"}
    BY DEF AfterLookup
  <2> QED  BY <1>4, <2>1, <2>2 DEF ReplayFound
<1>5. CASE ReplayGet(r)
  BY <1>5 DEF ReplayGet
<1>6. CASE EnsureSnapshot(r)
  BY <1>6 DEF EnsureSnapshot
<1>7. CASE Decide(r)
  BY <1>7 DEF Decide
<1>8. CASE ProviderAnswers(r)
  BY <1>8 DEF ProviderAnswers
<1>9. CASE ProviderFails(r)
  BY <1>9 DEF ProviderFails
<1>10. CASE Persist(r)
  BY <1>10 DEF Persist
<1>11. CASE PersistDuplicate(r)
  BY <1>11 DEF PersistDuplicate
<1>12. CASE Respond(r)
  BY <1>12 DEF Respond
<1>13. CASE Interrupt(r)
  BY <1>13 DEF Interrupt
<1> QED
  BY <1>1, <1>2, <1>3, <1>4, <1>5, <1>6, <1>7, <1>8, <1>9, <1>10, <1>11,
     <1>12, <1>13 DEF Create

LEMMA Monotone == Shape /\ [Next]_vars => Growth
<1> SUFFICES ASSUME Shape, [Next]_vars PROVE Growth
  OBVIOUS
<1>1. CASE \E r \in Requests : Create(r)
  BY <1>1, CreateGrowth
<1>2. CASE \E f \in Submissions : Submit(f)
  BY <1>2 DEF Submit, SubmitFeedback, CreateFeedback, InterruptFeedback, Growth,
              calls, tables, Shape, TypeOK
<1>3. CASE \E c \in Cleaners : Clean(c)
  BY <1>3 DEF Clean, StartPass, ExpireIdempotency, FindExpired, DeleteFeedback,
              DeleteEvaluations, InterruptPass, Growth, calls, tables, Shape, TypeOK
<1>4. CASE Tick
  BY <1>4 DEF Tick, Growth, calls, tables, Shape, TypeOK
<1>5. CASE Redeploy
  BY <1>5 DEF Redeploy, Growth, calls, tables, Shape, TypeOK
<1>6. CASE UNCHANGED vars
  BY <1>6 DEF vars, Growth, calls, tables, Shape, TypeOK
<1> QED  BY <1>1, <1>2, <1>3, <1>4, <1>5, <1>6 DEF Next

-----------------------------------------------------------------------------
(* Calls: the snapshot, the row and the bill of a call that is deciding. *)

CallInv == Shape /\ SnapshotTaken /\ OwnRows /\ Billing

LEMMA CreateCalls ==
  ASSUME CallInv, NEW r \in Requests, Create(r)
  PROVE  SnapshotTaken' /\ OwnRows' /\ Billing'
<1> USE DEF CallInv, Shape, TypeOK, CallShape, SnapshotTaken, OwnRows, Billing,
            HasInput, HasRow, InFlight, Ended, Goto, tables, CanonicalHash
<1>1. CASE Receive(r)
  <2>1. PICK in \in Inputs : input' = [input EXCEPT ![r] = in]
    BY <1>1, ConstantsAssumption DEF Receive, Resolvable, Inputs
  <2>2. r \notin billed
    BY <1>1 DEF Receive
  <2>3. \A q \in Requests \ {r} : input'[q] = input[q]
    BY <2>1
  <2>4. /\ pc' = [pc EXCEPT ![r] = "replay"]
        /\ UNCHANGED <<now, snapshots, record, billed>>
    BY <1>1 DEF Receive
  <2> QED  BY <2>2, <2>3, <2>4 DEF Verdict
<1>2. CASE Refuse(r)
  BY <1>2 DEF Refuse, Verdict
<1>3. CASE ReplayMiss(r)
  BY <1>3 DEF ReplayMiss, Verdict
<1>4. CASE ReplayFound(r)
  <2>1. PICK k \in idempotency : pc' = [pc EXCEPT ![r] = AfterLookup(r, k)]
    BY <1>4 DEF ReplayFound
  <2>2. AfterLookup(r, k) \in {"snapshot", "conflict", "get"}
    BY DEF AfterLookup
  <2> QED  BY <1>4, <2>1, <2>2 DEF ReplayFound, Verdict
<1>5. CASE ReplayGet(r)
  <2>1. /\ \/ pc' = [pc EXCEPT ![r] = "respond"]
           \/ pc' = [pc EXCEPT ![r] = "snapshot"]
        /\ \A q \in Requests \ {r} : record'[q] = record[q]
        /\ pc[r] = "get"
        /\ UNCHANGED <<now, snapshots, input, billed>>
    BY <1>5 DEF ReplayGet
  <2> QED  BY <2>1 DEF Verdict
<1>6. CASE EnsureSnapshot(r)
  BY <1>6 DEF EnsureSnapshot, Verdict
<1>7. CASE Decide(r)
  <2>1. CASE Goto(r, "decide", "refused")
    BY <1>7, <2>1 DEF Decide, Verdict
  <2>2. CASE Goto(r, "decide", "persist")
    <3>1. PICK row : /\ row = Settle(NewRecord(r), "completed", "pre_rule")
                     /\ record' = [record EXCEPT ![r] = row]
      BY <1>7, <2>2 DEF Decide
    <3>2. /\ row.id = r
          /\ row.policy = input[r].policy
          /\ row.createdAt = now
          /\ row.status = "completed"
          /\ row.path = "pre_rule"
      BY <3>1 DEF Settle, NewRecord
    <3>3. UNCHANGED <<now, snapshots, input, billed>>
      BY <1>7, <2>2 DEF Decide
    <3>4. r \notin billed
      BY <2>2
    <3>5. Verdict(row)
      BY <3>2, <3>4 DEF Verdict
    <3>6. ASSUME NEW q \in Requests, pc'[q] = "persist"
          PROVE  Verdict(record[q])'
      BY <2>2, <3>1, <3>3, <3>5, <3>6 DEF Verdict
    <3> QED  BY <2>2, <3>1, <3>2, <3>3, <3>6
  <2>3. CASE Goto(r, "decide", "provider")
    <3>1. PICK row : row = NewRecord(r) /\ record' = [record EXCEPT ![r] = row]
      BY <1>7, <2>3 DEF Decide
    <3>2. /\ row.id = r
          /\ row.policy = input[r].policy
          /\ row.createdAt = now
      BY <3>1 DEF NewRecord
    <3>3. /\ UNCHANGED <<now, snapshots, input>>
          /\ billed' = billed \cup {r}
          /\ Phase[CanonicalHash(input[r])] = "model"
      BY <1>7, <2>3 DEF Decide, FactsPhase
    <3>4. SnapshotTaken' /\ OwnRows'
      BY <2>3, <3>1, <3>2, <3>3
    <3>5. ASSUME NEW q \in Requests, pc'[q] = "persist"
          PROVE  Verdict(record[q])'
      <4>1. q # r /\ pc[q] = "persist" /\ record'[q] = record[q]
        BY <2>3, <3>1, <3>5
      <4>2. record[q].id = q /\ Verdict(record[q])
        BY <4>1
      <4> QED  BY <3>3, <4>1, <4>2 DEF Verdict
    <3>6. \A q \in Requests : pc'[q] = "provider" => q \in billed'
      BY <2>3, <3>3
    <3>7. ASSUME NEW q \in billed'
          PROVE  /\ pc'[q] \in {"provider", "persist", "respond", "answered",
                                "duplicate", "lost"}
                 /\ input'[q] \in Inputs
                 /\ Phase[CanonicalHash(input'[q])] = "model"
      BY <2>3, <3>3, <3>7, ZenonT(30)
    <3> QED  BY <3>3, <3>4, <3>5, <3>6, <3>7
  <2> QED  BY <1>7, <2>1, <2>2, <2>3 DEF Decide
<1>8. CASE ProviderAnswers(r)
  BY <1>8 DEF ProviderAnswers, Settle, Verdict
<1>9. CASE ProviderFails(r)
  BY <1>9 DEF ProviderFails, Settle, Verdict
<1>10. CASE Persist(r)
  BY <1>10 DEF Persist, Verdict
<1>11. CASE PersistDuplicate(r)
  BY <1>11 DEF PersistDuplicate, Verdict
<1>12. CASE Respond(r)
  BY <1>12 DEF Respond, Verdict
<1>13. CASE Interrupt(r)
  BY <1>13 DEF Interrupt, Verdict
<1> QED
  BY <1>1, <1>2, <1>3, <1>4, <1>5, <1>6, <1>7, <1>8, <1>9, <1>10, <1>11,
     <1>12, <1>13 DEF Create

LEMMA NextCalls == CallInv /\ [Next]_vars => CallInv'
<1> SUFFICES ASSUME CallInv, [Next]_vars PROVE CallInv'
  OBVIOUS
<1>1. Shape'
  BY NextShape DEF CallInv
<1>2. CASE \E r \in Requests : Create(r)
  BY <1>1, <1>2, CreateCalls DEF CallInv
<1>3. CASE /\ UNCHANGED <<calls, snapshots>>
           /\ now <= now'
  BY <1>1, <1>3
  DEF CallInv, calls, SnapshotTaken, OwnRows, Billing, Verdict, Shape, TypeOK,
      CallShape, HasRow, Rows
<1>4. UNCHANGED <<calls, snapshots>> \/ \E r \in Requests : Create(r)
  BY DEF Next, vars, tables, calls, Submit, SubmitFeedback, CreateFeedback, InterruptFeedback,
     Clean, StartPass, ExpireIdempotency, FindExpired, DeleteFeedback,
     DeleteEvaluations, InterruptPass, Tick, Redeploy
<1>5. now <= now'
  BY Monotone DEF CallInv, Growth
<1> QED  BY <1>2, <1>3, <1>4, <1>5

-----------------------------------------------------------------------------
(* The journal: what persist committed stays true. *)

\* Which steps write which table.
LEMMA Writers ==
  ASSUME [Next]_vars
  PROVE  /\ UNCHANGED journal \/ \E r \in Requests : Persist(r)
         /\ \/ UNCHANGED evaluations
            \/ \E r \in Requests : Persist(r)
            \/ \E c \in Cleaners : DeleteEvaluations(c)
         /\ \/ UNCHANGED idempotency
            \/ \E r \in Requests : Persist(r)
            \/ \E c \in Cleaners : ExpireIdempotency(c)
<1>1. CASE \E r \in Requests : Create(r)
  BY <1>1 DEF Create, Receive, Refuse, ReplayMiss, ReplayFound, ReplayGet,
     EnsureSnapshot, Decide, ProviderAnswers, ProviderFails, PersistDuplicate,
     Respond, Interrupt, tables
<1>2. CASE \E f \in Submissions : Submit(f)
  BY <1>2 DEF Submit, SubmitFeedback, CreateFeedback, InterruptFeedback, tables
<1>3. CASE \E c \in Cleaners : Clean(c)
  BY <1>3 DEF Clean, StartPass, ExpireIdempotency, FindExpired, DeleteFeedback,
     DeleteEvaluations, InterruptPass, tables
<1>4. CASE Tick \/ Redeploy \/ UNCHANGED vars
  BY <1>4 DEF Tick, Redeploy, vars, tables
<1> QED  BY <1>1, <1>2, <1>3, <1>4 DEF Next

JournalInv == CallInv /\ JournalRows /\ JournalGrants /\ JournalUnique

LEMMA NextJournal == JournalInv /\ [Next]_vars => JournalInv'
<1> SUFFICES ASSUME JournalInv, [Next]_vars PROVE JournalInv'
  OBVIOUS
<1>1. CallInv'
  BY NextCalls DEF JournalInv
<1>2. Growth /\ now \in Nat /\ now' \in Nat
  BY <1>1, Monotone DEF JournalInv, CallInv, Shape, TypeOK
<1>3. ASSUME NEW j \in journal
      PROVE  /\ j.row \in Rows
             /\ j.grant \in KeyRecords \cup {None}
  BY DEF JournalInv, CallInv, Shape, TypeOK
<1>4. ASSUME NEW j \in journal
      PROVE  /\ j.row.id \in Requests
             /\ j.row.createdAt \in Nat
             /\ j.grant # None => j.grant.expiresAt \in Nat
  BY <1>3 DEF Rows, KeyRecords
\* What was committed stays as it was.
<1>5. ASSUME NEW j \in journal
      PROVE  /\ pc'[j.row.id] \in Past
             /\ input'[j.row.id] = input[j.row.id]
             /\ input[j.row.id] \in Inputs
             /\ j.row.policy \in snapshots'
             /\ j.row.createdAt <= now'
             /\ Verdict(j.row)'
  <2>1. /\ pc[j.row.id] \in Past
        /\ input[j.row.id] \in Inputs
        /\ j.row.policy \in snapshots
        /\ j.row.createdAt <= now
        /\ Verdict(j.row)
    BY DEF JournalInv, JournalRows, Past
  <2>2. /\ pc'[j.row.id] \in Past
        /\ input'[j.row.id] = input[j.row.id]
        /\ j.row.id \in billed' <=> j.row.id \in billed
    BY <1>2, <1>4, <2>1 DEF Growth, Past
  <2>3. j.row.createdAt <= now'
    BY <1>2, <1>4, <2>1 DEF Growth
  <2> QED  BY <1>2, <2>1, <2>2, <2>3 DEF Growth, Verdict
<1>6. ASSUME NEW j \in journal, j.grant # None
      PROVE  /\ j.grant.evaluationID = j.row.id
             /\ j.grant.key = input[j.row.id].key
             /\ j.grant.hash = CanonicalHash(input[j.row.id])
             /\ j.grant.expiresAt <= now' + IdempotencyRetention
  BY <1>2, <1>4, <1>6, ConstantsAssumption DEF Growth, JournalInv, JournalGrants
<1>7. CASE UNCHANGED journal
  <2>1. JournalRows'
    BY <1>5, <1>7 DEF JournalRows, Past
  <2>2. JournalGrants'
    BY <1>5, <1>6, <1>7 DEF JournalGrants, CanonicalHash
  <2>3. JournalUnique'
    BY <1>7 DEF JournalUnique, JournalInv
  <2> QED  BY <1>1, <2>1, <2>2, <2>3 DEF JournalInv
<1>8. CASE \E r \in Requests : Persist(r)
  <2>1. PICK r \in Requests : Persist(r)
    BY <1>8
  <2> DEFINE new == [row |-> record[r], grant |-> Grant(r)]
  <2>2. journal' = journal \cup {new}
    BY <2>1 DEF Persist
  <2>3. /\ pc[r] = "persist"
        /\ pc'[r] = "respond"
        /\ UNCHANGED <<now, snapshots, input, record, billed>>
    BY <2>1 DEF Persist, Goto, JournalInv, CallInv, Shape, TypeOK
  <2>4. /\ record[r].id = r
        /\ record[r].policy = input[r].policy
        /\ record[r].createdAt <= now
        /\ input[r] \in Inputs
        /\ input[r].policy \in snapshots
        /\ Verdict(record[r])
    BY <2>3 DEF JournalInv, CallInv, Shape, CallShape, HasInput, InFlight,
                SnapshotTaken, OwnRows, Billing
  <2>5. \A j \in journal : j.row.id # r
    BY <2>3 DEF JournalInv, JournalRows
  <2>6. JournalRows'
    BY <1>5, <2>2, <2>3, <2>4 DEF JournalRows, Past, Verdict
  <2>7. JournalGrants'
    <3>1. Grant(r) # None =>
            /\ Grant(r).evaluationID = r
            /\ Grant(r).key = input[r].key
            /\ Grant(r).hash = CanonicalHash(input[r])
            /\ Grant(r).expiresAt = now + IdempotencyRetention
      BY DEF Grant
    <3>2. ASSUME NEW j \in journal', j.grant # None
          PROVE  /\ j.grant.evaluationID = j.row.id
                 /\ j.grant.key = input'[j.row.id].key
                 /\ j.grant.hash = CanonicalHash(input'[j.row.id])
                 /\ j.grant.expiresAt <= now' + IdempotencyRetention
      <4>1. CASE j \in journal
        BY <1>5, <1>6, <3>2, <4>1
      <4>2. CASE j = new
        <5> HIDE DEF Grant
        <5>1. j.grant = Grant(r) /\ j.row = record[r]
          BY <4>2
        <5>2. now + IdempotencyRetention <= now + IdempotencyRetention
          BY <1>2, ConstantsAssumption
        <5> QED  BY <2>3, <2>4, <3>1, <3>2, <5>1, <5>2
      <4> QED  BY <2>2, <4>1, <4>2
    <3> QED  BY <3>2 DEF JournalGrants, CanonicalHash
  <2>8. JournalUnique'
    <3>1. new.row.id = r
      BY <2>4
    <3> HIDE DEF new
    <3> QED  BY <2>2, <2>5, <3>1 DEF JournalUnique, JournalInv
  <2> QED  BY <1>1, <2>6, <2>7, <2>8 DEF JournalInv
<1> QED  BY <1>7, <1>8, Writers

-----------------------------------------------------------------------------
(* The tables and the retention passes. *)

TableInv == JournalInv /\ TableRows /\ TableKeys /\ Passes

\* Types that the proofs below need of the journal.
LEMMA JournalTypes ==
  ASSUME Shape, NEW j \in journal
  PROVE  /\ j.row \in Rows
         /\ j.row.id \in Requests
         /\ j.row.createdAt \in Nat
         /\ j.grant \in KeyRecords \cup {None}
         /\ j.grant # None => j.grant.expiresAt \in Nat
<1>1. j.row \in Rows /\ j.grant \in KeyRecords \cup {None}
  BY DEF Shape, TypeOK
<1> QED  BY <1>1 DEF Rows, KeyRecords

\* The windows that are over stay over.
LEMMA WindowsStayOver ==
  ASSUME Shape, Shape', Growth, NEW j \in journal
  PROVE  /\ Retirable(j.row) => Retirable(j.row)'
         /\ j.grant # None /\ j.grant.expiresAt < now => j.grant.expiresAt < now'
<1>1. now \in Nat /\ now' \in Nat /\ now <= now'
  BY DEF Shape, TypeOK, Growth
<1> QED  BY <1>1, JournalTypes, ConstantsAssumption DEF Retirable

\* A pass holds the IDs of rows whose window is over.
LEMMA PassesTakeAged ==
  ASSUME TableInv, NEW c \in Cleaners, NEW j \in journal,
         j.row.id \in pass[c].batch
  PROVE  Retirable(j.row)
<1>1. /\ Aged(j.row, pass[c].now)
      /\ pass[c].now <= now
      /\ EvaluationRetention > 0
  BY DEF TableInv, Passes, AgedIDs
<1>2. Shape /\ now \in Nat /\ pass[c].now \in Nat
  BY DEF TableInv, JournalInv, CallInv, Shape, TypeOK
<1> QED
  BY <1>1, <1>2, JournalTypes, ConstantsAssumption DEF Retirable, Aged

LEMMA NextTableRows ==
  ASSUME TableInv, [Next]_vars, Shape', Growth
  PROVE  TableRows'
<1>0. Shape
  BY DEF TableInv, JournalInv, CallInv
<1>1. CASE UNCHANGED evaluations /\ UNCHANGED journal
  BY <1>0, <1>1, WindowsStayOver DEF TableInv, TableRows
<1>2. CASE \E r \in Requests : Persist(r)
  <2>1. PICK r \in Requests : Persist(r)
    BY <1>2
  <2>2. PICK new : /\ new.row = record[r]
                   /\ journal' = journal \cup {new}
                   /\ evaluations' = evaluations \cup {record[r]}
    <3> WITNESS [row |-> record[r], grant |-> Grant(r)]
    <3> QED  BY <2>1 DEF Persist
  <2> QED  BY <1>0, <2>2, WindowsStayOver DEF TableInv, TableRows
<1>3. CASE \E c \in Cleaners : DeleteEvaluations(c)
  <2>1. PICK c \in Cleaners : DeleteEvaluations(c)
    BY <1>3
  <2>2. /\ evaluations' = {e \in evaluations : e.id \notin pass[c].batch}
        /\ UNCHANGED <<now, journal>>
    BY <2>1 DEF DeleteEvaluations
  <2>3. ASSUME NEW j \in journal, j.row.id \in pass[c].batch
        PROVE  Retirable(j.row)
    BY <2>3, PassesTakeAged
  <2>4. ASSUME NEW j \in journal
        PROVE  j.row \in evaluations' \/ Retirable(j.row)'
    <3>1. Retirable(j.row) => Retirable(j.row)'
      BY <2>2 DEF Retirable
    <3> QED  BY <2>2, <2>3, <3>1 DEF TableInv, TableRows
  <2> QED  BY <2>2, <2>4 DEF TableInv, TableRows
<1> QED
  <2>1. UNCHANGED journal \/ \E r \in Requests : Persist(r)
    BY Writers
  <2>2. \/ UNCHANGED evaluations
        \/ \E r \in Requests : Persist(r)
        \/ \E c \in Cleaners : DeleteEvaluations(c)
    BY Writers
  <2> QED  BY <1>1, <1>2, <1>3, <2>1, <2>2

LEMMA NextTableKeys ==
  ASSUME TableInv, [Next]_vars, Shape', Growth
  PROVE  TableKeys'
<1>0. Shape
  BY DEF TableInv, JournalInv, CallInv
<1>1. CASE UNCHANGED idempotency /\ UNCHANGED journal
  BY <1>0, <1>1, WindowsStayOver DEF TableInv, TableKeys
<1>2. CASE \E r \in Requests : Persist(r)
  <2>1. PICK r \in Requests : Persist(r)
    BY <1>2
  <2>2. PICK new : /\ new.grant = Grant(r)
                   /\ journal' = journal \cup {new}
                   /\ idempotency' = idempotency \cup ({Grant(r)} \ {None})
                   /\ \A k \in idempotency : k.key # input[r].key
    <3> WITNESS [row |-> record[r], grant |-> Grant(r)]
    <3> QED  BY <2>1 DEF Persist
  <2>3. Grant(r) # None => Grant(r).key = input[r].key
    BY DEF Grant
  <2> QED  BY <1>0, <2>2, <2>3, WindowsStayOver DEF TableInv, TableKeys
<1>3. CASE \E c \in Cleaners : ExpireIdempotency(c)
  <2>1. PICK c \in Cleaners : ExpireIdempotency(c)
    BY <1>3
  <2>2. /\ idempotency' = {k \in idempotency : ~Expired(k, pass[c].now)}
        /\ UNCHANGED <<now, journal>>
    BY <2>1 DEF ExpireIdempotency
  <2>3. /\ now \in Nat /\ pass[c].now \in Nat /\ pass[c].now <= now
        /\ \A k \in idempotency : k.expiresAt \in Nat
    BY <1>0 DEF Shape, TypeOK, KeyRecords, TableInv, Passes
  <2>4. \A k \in idempotency : k \in idempotency' \/ k.expiresAt < now
    BY <2>2, <2>3 DEF Expired
  <2> QED  BY <2>2, <2>4 DEF TableInv, TableKeys
<1> QED
  <2>1. UNCHANGED journal \/ \E r \in Requests : Persist(r)
    BY Writers
  <2>2. \/ UNCHANGED idempotency
        \/ \E r \in Requests : Persist(r)
        \/ \E c \in Cleaners : ExpireIdempotency(c)
    BY Writers
  <2> QED  BY <1>1, <1>2, <1>3, <2>1, <2>2

\* No commit adds a second row under an ID that a pass holds.
LEMMA AgedIDsStay ==
  ASSUME NEW J, NEW K, J \subseteq K,
         \A i, j \in K : i.row.id = j.row.id => i = j,
         NEW ids, NEW t, AgedIDs(J, ids, t)
  PROVE  AgedIDs(K, ids, t)
<1> SUFFICES ASSUME NEW id \in ids
             PROVE  /\ EvaluationRetention > 0
                    /\ \E j \in K : j.row.id = id
                    /\ \A j \in K : j.row.id = id => Aged(j.row, t)
  BY DEF AgedIDs
<1>1. PICK j \in J : j.row.id = id
  BY DEF AgedIDs
<1> QED  BY <1>1 DEF AgedIDs

\* What Find returns are such IDs.
LEMMA FoundIDs ==
  ASSUME TableInv, EvaluationRetention > 0, NEW t, NEW b \in Batches(t)
  PROVE  AgedIDs(journal, b, t)
<1> SUFFICES ASSUME NEW id \in b
             PROVE  /\ \E j \in journal : j.row.id = id
                    /\ \A j \in journal : j.row.id = id => Aged(j.row, t)
  BY DEF AgedIDs
<1>1. PICK e \in evaluations : e.id = id /\ Aged(e, t)
  BY DEF Batches
<1>2. PICK j \in journal : j.row = e
  BY DEF TableInv, TableRows
<1> QED  BY <1>1, <1>2 DEF TableInv, JournalInv, JournalUnique

LEMMA NextPasses ==
  ASSUME TableInv, [Next]_vars, JournalInv', Growth
  PROVE  Passes'
<1>0. /\ Shape /\ Shape' /\ journal \subseteq journal'
      /\ now \in Nat /\ now' \in Nat /\ now <= now'
  BY DEF TableInv, JournalInv, CallInv, Shape, TypeOK, Growth
<1> SUFFICES ASSUME NEW c \in Cleaners
             PROVE  /\ pass'[c].now <= now'
                    /\ pass'[c].at \notin {"idle", "keys"} =>
                         EvaluationRetention > 0
                    /\ AgedIDs(journal', pass'[c].batch, pass'[c].now)
  BY DEF Passes
<1>1. /\ pass[c].now <= now
      /\ pass[c].at \notin {"idle", "keys"} => EvaluationRetention > 0
      /\ AgedIDs(journal, pass[c].batch, pass[c].now)
      /\ pass[c].now \in Nat
  BY <1>0 DEF TableInv, Passes, Shape, TypeOK
<1> DEFINE Kept  == /\ \/ pass'[c].at \in {"idle", pass[c].at}
                       \/ EvaluationRetention > 0
                    /\ pass'[c].batch = pass[c].batch
                    /\ pass'[c].now = pass[c].now
           Fresh == /\ pass'[c].at \in {"idle", "keys"}
                    /\ pass'[c].batch = {}
                    /\ pass'[c].now <= now
<1>2. CASE Kept
  <2>1. AgedIDs(journal', pass[c].batch, pass[c].now)
    BY <1>0, <1>1, AgedIDsStay DEF JournalInv, JournalUnique
  <2> QED  BY <1>0, <1>1, <1>2, <2>1
<1>3. CASE Fresh
  BY <1>0, <1>3 DEF AgedIDs, Shape, TypeOK
<1>4. CASE FindExpired(c)
  <2>1. /\ pass[c].at = "find"
        /\ UNCHANGED <<now, journal>>
    BY <1>4 DEF FindExpired
  <2>2. EvaluationRetention > 0
    BY <1>1, <2>1
  <2>3. PICK b \in Batches(pass[c].now) :
          pass' = IF b = {} THEN [pass EXCEPT ![c] = NoPass]
                  ELSE [pass EXCEPT ![c] =
                          [at |-> "feedback", now |-> pass[c].now, batch |-> b]]
    BY <1>4 DEF FindExpired
  <2>4. CASE b = {}
    BY <1>0, <1>3, <2>3, <2>4 DEF NoPass, Shape, TypeOK
  <2>5. CASE b # {}
    <3>1. /\ pass'[c].at = "feedback"
          /\ pass'[c].now = pass[c].now
          /\ pass'[c].batch = b
      BY <1>0, <2>3, <2>5 DEF Shape, TypeOK
    <3>2. AgedIDs(journal, b, pass[c].now)
      BY <2>2, FoundIDs
    <3> QED  BY <1>1, <2>1, <2>2, <3>1, <3>2
  <2> QED  BY <2>4, <2>5
<1>5. CASE \E d \in Cleaners : Clean(d)
  <2>1. PICK d \in Cleaners : Clean(d)
    BY <1>5
  <2>2. CASE d # c
    <3>1. pass'[c] = pass[c]
      BY <1>0, <2>1, <2>2
      DEF Clean, StartPass, ExpireIdempotency, FindExpired, DeleteFeedback,
          DeleteEvaluations, InterruptPass, Shape, TypeOK
    <3> QED  BY <1>2, <3>1
  <2>3. CASE StartPass(c)
    BY <1>0, <1>3, <2>3 DEF StartPass, Shape, TypeOK
  <2>4. CASE ExpireIdempotency(c)
    <3>1. CASE EvaluationRetention = 0
      BY <1>0, <1>3, <2>4, <3>1 DEF ExpireIdempotency, NoPass, Shape, TypeOK
    <3>2. CASE EvaluationRetention # 0
      BY <1>0, <1>2, <2>4, <3>2, ConstantsAssumption
      DEF ExpireIdempotency, Shape, TypeOK
    <3> QED  BY <3>1, <3>2
  <2>5. CASE DeleteFeedback(c)
    BY <1>0, <1>1, <1>2, <2>5 DEF DeleteFeedback, Shape, TypeOK
  <2>6. CASE DeleteEvaluations(c) \/ InterruptPass(c)
    BY <1>0, <1>3, <2>6 DEF DeleteEvaluations, InterruptPass, NoPass, Shape, TypeOK
  <2> QED  BY <1>4, <2>1, <2>2, <2>3, <2>4, <2>5, <2>6 DEF Clean
<1>6. CASE UNCHANGED pass
  BY <1>2, <1>6
<1>7. UNCHANGED pass \/ \E d \in Cleaners : Clean(d)
  BY DEF Next, vars, Create, Receive, Refuse, ReplayMiss, ReplayFound, ReplayGet,
     EnsureSnapshot, Decide, ProviderAnswers, ProviderFails, Persist,
     PersistDuplicate, Respond, Interrupt, Submit, SubmitFeedback,
     CreateFeedback, InterruptFeedback, Tick, Redeploy
<1> QED  BY <1>5, <1>6, <1>7

LEMMA NextTables == TableInv /\ [Next]_vars => TableInv'
<1> SUFFICES ASSUME TableInv, [Next]_vars PROVE TableInv'
  OBVIOUS
<1>1. JournalInv'
  BY NextJournal DEF TableInv
<1>2. Growth /\ Shape'
  BY <1>1, Monotone DEF TableInv, JournalInv, CallInv
<1> QED
  BY <1>1, <1>2, NextTableRows, NextTableKeys, NextPasses DEF TableInv

-----------------------------------------------------------------------------
(* What replay, the responses and feedback refer to. *)

LEMMA CreateReferences ==
  ASSUME TableInv, Lookups, Answers, NEW r \in Requests, Create(r),
         Shape', Growth
  PROVE  Lookups' /\ Answers'
<1>0. Shape /\ pc \in [Requests -> {"idle"} \cup InFlight \cup Ended]
  BY DEF TableInv, JournalInv, CallInv, Shape, TypeOK
\* The other calls stay where they are.
<1>1. ASSUME NEW q \in Requests, q # r
      PROVE  /\ pc'[q] = pc[q] /\ input'[q] = input[q]
             /\ lookup'[q] = lookup[q] /\ record'[q] = record[q]
  BY <1>0, <1>1
  DEF Create, Receive, Refuse, ReplayMiss, ReplayFound, ReplayGet,
      EnsureSnapshot, Decide, ProviderAnswers, ProviderFails, Persist,
      PersistDuplicate, Respond, Interrupt, Goto, Shape, TypeOK
\* What was committed keeps its request.
<1>2. \A j \in journal :
        j \in journal' /\ input'[j.row.id] = input[j.row.id]
  <2>1. \A j \in journal : j.row.id \in Requests /\ pc[j.row.id] # "idle"
    BY <1>0, JournalTypes DEF TableInv, JournalInv, JournalRows
  <2> QED  BY <2>1 DEF Growth
<1>3. Lookups'
  <2> SUFFICES ASSUME NEW q \in Requests, pc'[q] = "get"
               PROVE  /\ \E j \in journal' : j.grant = lookup'[q]
                      /\ lookup'[q].key = input'[q].key
                      /\ lookup'[q].hash = CanonicalHash(input'[q])
    BY DEF Lookups, CanonicalHash
  <2>1. CASE q # r
    BY <1>1, <1>2, <2>1 DEF Lookups
  <2>2. CASE q = r
    <3>1. ReplayFound(r)
      BY <1>0, <2>2
      DEF Create, Receive, Refuse, ReplayMiss, ReplayGet, EnsureSnapshot,
          Decide, ProviderAnswers, ProviderFails, Persist, PersistDuplicate,
          Respond, Interrupt, Goto
    <3>2. PICK k \in idempotency :
            /\ k.key = input[r].key
            /\ pc' = [pc EXCEPT ![r] = AfterLookup(r, k)]
            /\ lookup' = [lookup EXCEPT ![r] = k]
      BY <3>1 DEF ReplayFound
    <3>3. k.hash = CanonicalHash(input[r])
      BY <1>0, <2>2, <3>2 DEF AfterLookup
    <3>4. lookup'[r] = k /\ input' = input /\ journal' = journal
      BY <1>0, <3>1, <3>2 DEF ReplayFound, Shape, TypeOK
    <3> QED  BY <2>2, <3>2, <3>3, <3>4 DEF TableInv, TableKeys
  <2> QED  BY <2>1, <2>2
<1>4. Answers'
  <2> SUFFICES ASSUME NEW q \in Requests, pc'[q] \in {"respond", "answered"}
               PROVE  \E j \in journal' :
                        /\ j.row = record'[q]
                        /\ CanonicalHash(input'[j.row.id]) =
                             CanonicalHash(input'[q])
    BY DEF Answers, CanonicalHash
  <2>1. CASE q # r
    <3>1. PICK j \in journal :
            /\ j.row = record[q]
            /\ CanonicalHash(input[j.row.id]) = CanonicalHash(input[q])
      BY <1>1, <2>1 DEF Answers
    <3> QED  BY <1>1, <1>2, <2>1, <3>1
  <2>2. CASE q = r
    <3>1. Respond(r) \/ ReplayGet(r) \/ Persist(r)
      <4>1. ~ReplayFound(r)
        BY <1>0, <2>2 DEF ReplayFound, AfterLookup
      <4> QED
        BY <1>0, <2>2, <4>1
        DEF Create, Receive, Refuse, ReplayMiss, EnsureSnapshot, Decide,
            ProviderAnswers, ProviderFails, PersistDuplicate, Interrupt, Goto
    <3>2. CASE Respond(r)
      <4>1. /\ pc[r] = "respond"
            /\ UNCHANGED <<record, input, journal>>
        BY <3>2 DEF Respond, Goto
      <4> QED  BY <2>2, <4>1 DEF Answers
    <3>3. CASE ReplayGet(r)
      <4>1. /\ pc[r] = "get"
            /\ UNCHANGED <<input, journal>>
        BY <3>3 DEF ReplayGet, Goto
      <4>2. PICK e \in evaluations :
              /\ e.id = lookup[r].evaluationID
              /\ record'[r] = e
        BY <1>0, <2>2, <3>3 DEF ReplayGet, Goto, Shape, TypeOK
      <4>3. PICK j \in journal : j.row = e
        BY DEF TableInv, TableRows
      <4>4. PICK i \in journal : i.grant = lookup[r]
        BY <4>1 DEF Lookups
      <4>5. lookup[r] # None
        BY <1>0, <4>1, NoneAssumption DEF Shape, CallShape
      <4>6. /\ i.row.id = j.row.id
            /\ lookup[r].hash = CanonicalHash(input[i.row.id])
        BY <4>2, <4>3, <4>4, <4>5 DEF TableInv, JournalInv, JournalGrants
      <4>7. lookup[r].hash = CanonicalHash(input[r])
        BY <4>1 DEF Lookups
      <4> QED  BY <2>2, <4>1, <4>2, <4>3, <4>6, <4>7
    <3>4. CASE Persist(r)
      <4>1. PICK j \in journal' : j.row = record[r]
        <5>1. [row |-> record[r], grant |-> Grant(r)] \in journal'
          BY <3>4 DEF Persist
        <5> QED  BY <5>1
      <4>2. UNCHANGED <<record, input>> /\ pc[r] = "persist"
        BY <3>4 DEF Persist, Goto
      <4>3. record[r].id = r
        BY <4>2 DEF TableInv, JournalInv, CallInv, OwnRows
      <4> QED  BY <2>2, <4>1, <4>2, <4>3
    <3> QED  BY <3>1, <3>2, <3>3, <3>4
  <2> QED  BY <2>1, <2>2
<1> QED  BY <1>3, <1>4

\* What a submission at create or done owes.
Labelled(f) ==
    submission[f].at \in {"create", "done"} =>
      \E j \in journal :
        /\ j.row.id = submission[f].evaluationID
        /\ \/ submission[f].at = "create"
           \/ Retirable(j.row)
           \/ Label(f) \in feedback

\* Feedback, written or about to be, keeps the committed evaluation it judges,
\* and is kept until that evaluation's window is over.
LEMMA NextLabels ==
  ASSUME TableInv, Labels, [Next]_vars, Shape', Growth
  PROVE  Labels'
<1>0. /\ Shape /\ journal \subseteq journal'
      /\ submission \in [Submissions ->
                           [at: {"idle", "create", "done", "refused", "lost"},
                            evaluationID: Requests \cup {None},
                            expected: Outcomes \cup {None}]]
  BY DEF TableInv, JournalInv, CallInv, Shape, TypeOK, Growth
<1> SUFFICES ASSUME NEW f \in Submissions PROVE Labelled(f)'
  BY DEF Labels, Labelled
<1>1. Labelled(f)
  BY DEF Labels, Labelled
\* A submission that does not move keeps its label unless a pass takes it.
<1>2. ASSUME submission'[f] = submission[f],
             \A g \in feedback :
               \/ g \in feedback'
               \/ \E c \in Cleaners : g.evaluationID \in pass[c].batch
      PROVE  Labelled(f)'
  <2> SUFFICES ASSUME submission[f].at \in {"create", "done"}
               PROVE  \E j \in journal' :
                        /\ j.row.id = submission[f].evaluationID
                        /\ \/ submission[f].at = "create"
                           \/ Retirable(j.row)'
                           \/ Label(f) \in feedback'
    BY <1>2 DEF Labelled, Label
  <2>1. PICK j \in journal :
          /\ j.row.id = submission[f].evaluationID
          /\ \/ submission[f].at = "create"
             \/ Retirable(j.row)
             \/ Label(f) \in feedback
    BY <1>1 DEF Labelled
  <2>2. Retirable(j.row) => Retirable(j.row)'
    BY <1>0, WindowsStayOver
  <2>3. Label(f).evaluationID = submission[f].evaluationID
    BY DEF Label
  <2>4. Label(f) \in feedback => Label(f) \in feedback' \/ Retirable(j.row)
    BY <1>2, <2>1, <2>3, PassesTakeAged
  <2> QED  BY <1>0, <2>1, <2>2, <2>4
<1>3. CASE SubmitFeedback(f)
  <2>1. CASE submission' = [submission EXCEPT ![f].at = "refused"]
    BY <1>0, <2>1 DEF Labelled
  <2>2. CASE submission' # [submission EXCEPT ![f].at = "refused"]
    <3>1. PICK e \in evaluations, o \in Outcomes :
            submission' = [submission EXCEPT ![f] =
              [at |-> "create", evaluationID |-> e.id, expected |-> o]]
      BY <1>3, <2>2 DEF SubmitFeedback
    <3>2. PICK j \in journal : j.row = e
      BY DEF TableInv, TableRows
    <3> QED  BY <1>0, <3>1, <3>2 DEF Labelled
  <2> QED  BY <2>1, <2>2
<1>4. CASE CreateFeedback(f)
  <2>1. /\ submission[f].at = "create"
        /\ submission'[f].at = "done"
        /\ submission'[f].evaluationID = submission[f].evaluationID
        /\ submission'[f].expected = submission[f].expected
        /\ Label(f) \in feedback'
    BY <1>0, <1>4 DEF CreateFeedback
  <2>2. PICK j \in journal : j.row.id = submission[f].evaluationID
    BY <1>1, <2>1 DEF Labelled
  <2>3. Label(f)' = Label(f)
    BY <2>1 DEF Label
  <2> QED  BY <1>0, <2>1, <2>2, <2>3 DEF Labelled
<1>5. CASE InterruptFeedback(f)
  BY <1>0, <1>5 DEF InterruptFeedback, Labelled
<1>6. CASE \E g \in Submissions \ {f} : Submit(g)
  <2>1. submission'[f] = submission[f] /\ feedback \subseteq feedback'
    BY <1>0, <1>6 DEF Submit, SubmitFeedback, CreateFeedback,
                      InterruptFeedback, tables
  <2> QED  BY <1>2, <2>1
<1>7. CASE \E c \in Cleaners : DeleteFeedback(c)
  <2>1. /\ UNCHANGED submission
        /\ \A g \in feedback :
             \/ g \in feedback'
             \/ \E c \in Cleaners : g.evaluationID \in pass[c].batch
    BY <1>7 DEF DeleteFeedback
  <2> QED  BY <1>2, <2>1
<1>8. CASE UNCHANGED <<submission, feedback>>
  BY <1>2, <1>8
<1>9. \/ UNCHANGED <<submission, feedback>>
      \/ \E g \in Submissions : Submit(g)
      \/ \E c \in Cleaners : DeleteFeedback(c)
  <2>1. CASE \E r \in Requests : Create(r)
    BY <2>1
    DEF Create, Receive, Refuse, ReplayMiss, ReplayFound, ReplayGet,
        EnsureSnapshot, Decide, ProviderAnswers, ProviderFails, Persist,
        PersistDuplicate, Respond, Interrupt, tables
  <2>2. CASE \E c \in Cleaners : Clean(c)
    BY <2>2
    DEF Clean, StartPass, ExpireIdempotency, FindExpired,
        DeleteEvaluations, InterruptPass, tables
  <2>3. CASE Tick \/ Redeploy \/ UNCHANGED vars
    BY <2>3 DEF Tick, Redeploy, vars, tables
  <2> QED  BY <2>1, <2>2, <2>3 DEF Next
<1> QED
  BY <1>3, <1>4, <1>5, <1>6, <1>7, <1>8, <1>9 DEF Submit

LEMMA NextReferences ==
  ASSUME TableInv, Lookups, Answers, [Next]_vars, Shape', Growth
  PROVE  Lookups' /\ Answers'
<1>1. CASE \E r \in Requests : Create(r)
  BY <1>1, CreateReferences
<1>2. CASE UNCHANGED <<calls, journal>>
  BY <1>2 DEF Lookups, Answers, CanonicalHash, calls
<1>3. UNCHANGED <<calls, journal>> \/ \E r \in Requests : Create(r)
  BY DEF Next, vars, Submit, SubmitFeedback, CreateFeedback, InterruptFeedback,
     Clean, StartPass, ExpireIdempotency, FindExpired, DeleteFeedback,
     DeleteEvaluations, InterruptPass, Tick, Redeploy
<1> QED  BY <1>1, <1>2, <1>3

-----------------------------------------------------------------------------
(* The invariant, and the properties it implies. *)

LEMMA InitInductive == Init => Inductive
<1> SUFFICES ASSUME Init PROVE Inductive
  OBVIOUS
<1>1. Shape
  BY InitShape
<1>2. SnapshotTaken /\ OwnRows /\ Billing
  BY DEF Init, SnapshotTaken, OwnRows, Billing
<1>3. JournalRows /\ JournalGrants /\ JournalUnique /\ TableRows /\ TableKeys
  BY DEF Init, JournalRows, JournalGrants, JournalUnique, TableRows, TableKeys
<1>4. Passes
  BY DEF Init, Passes, NoPass, AgedIDs
<1>5. Lookups /\ Answers /\ Labels
  BY DEF Init, Lookups, Answers, Labels, NoSubmission
<1> QED  BY <1>1, <1>2, <1>3, <1>4, <1>5 DEF Inductive

LEMMA NextInductive == Inductive /\ [Next]_vars => Inductive'
<1> SUFFICES ASSUME Inductive, [Next]_vars PROVE Inductive'
  OBVIOUS
<1>1. TableInv /\ Lookups /\ Answers /\ Labels
  BY DEF Inductive, TableInv, JournalInv, CallInv
<1>2. TableInv'
  BY <1>1, NextTables
<1>3. Shape' /\ Growth
  BY <1>1, <1>2, Monotone DEF TableInv, JournalInv, CallInv
<1>4. Lookups' /\ Answers' /\ Labels'
  BY <1>1, <1>3, NextReferences, NextLabels
<1> QED  BY <1>2, <1>4 DEF Inductive, TableInv, JournalInv, CallInv

\* The invariant holds of every reachable state of every instance.
THEOREM AlwaysInductive == Spec => []Inductive
  BY InitInductive, NextInductive, PTL DEF Spec

\* Whatever calls, failures and retention passes do, the policy of an
\* evaluation has its snapshot.
THEOREM AlwaysSnapshotsCover == Spec => []SnapshotsCover
<1>1. Inductive => SnapshotsCover
  BY DEF Inductive, TableRows, JournalRows, SnapshotsCover
<1> QED  BY <1>1, AlwaysInductive, PTL

\* An idempotency record names a committed evaluation of the call that sent
\* this key with this request; the row is there unless its window is over.
THEOREM AlwaysKeysNameTheirRow == Spec => []KeysNameTheirRow
<1>1. ASSUME Inductive PROVE KeysNameTheirRow
  <2> SUFFICES ASSUME NEW k \in idempotency
               PROVE  /\ input[k.evaluationID] # None
                      /\ k.key = input[k.evaluationID].key
                      /\ k.hash = CanonicalHash(input[k.evaluationID])
                      /\ \E j \in journal :
                           /\ j.grant = k
                           /\ j.row.id = k.evaluationID
                           /\ j.row \in evaluations \/ Retirable(j.row)
    BY DEF KeysNameTheirRow
  <2>1. PICK j \in journal : j.grant = k
    BY <1>1 DEF Inductive, TableKeys
  <2>2. k # None
    BY <1>1, NoneAssumption DEF Inductive, Shape, TypeOK
  <2>3. /\ k.evaluationID = j.row.id
        /\ k.key = input[j.row.id].key
        /\ k.hash = CanonicalHash(input[j.row.id])
    BY <1>1, <2>1, <2>2 DEF Inductive, JournalGrants
  <2>4. input[j.row.id] \in Inputs
    BY <1>1 DEF Inductive, JournalRows
  <2>5. j.row \in evaluations \/ Retirable(j.row)
    BY <1>1 DEF Inductive, TableRows
  <2> QED  BY <2>1, <2>3, <2>4, <2>5, NoneAssumption
<1> QED  BY <1>1, AlwaysInductive, PTL

\* What a caller was answered with stays in the table, unchanged, until its
\* retention window is over.
THEOREM AlwaysAnsweredIsDurable == Spec => []AnsweredIsDurable
<1>1. Inductive => AnsweredIsDurable
  BY DEF Inductive, Answers, TableRows, AnsweredIsDurable
<1> QED  BY <1>1, AlwaysInductive, PTL

\* A caller is answered with a decision on its own policy and input.
THEOREM AlwaysReplayIsFaithful == Spec => []ReplayIsFaithful
<1>1. ASSUME Inductive PROVE ReplayIsFaithful
  <2> SUFFICES ASSUME NEW r \in Requests, pc[r] = "answered"
               PROVE  CanonicalHash(input[record[r].id]) =
                        CanonicalHash(input[r])
    BY DEF ReplayIsFaithful
  <2> QED  BY <1>1 DEF Inductive, Answers
<1> QED  BY <1>1, AlwaysInductive, PTL

\* No request that facts alone settle is billed, and rows say so.
THEOREM AlwaysFactsBeforeModel == Spec => []FactsBeforeModel
<1>1. Inductive => FactsBeforeModel
  BY DEF Inductive, Billing, TableRows, JournalRows, FactsBeforeModel
<1> QED  BY <1>1, AlwaysInductive, PTL

\* A label that was accepted stays in the table, with the decision it judges,
\* until the retention window of that decision is over.
THEOREM AlwaysLabelsAreDurable == Spec => []LabelsAreDurable
<1>1. ASSUME Inductive, NEW f \in Submissions, submission[f].at = "done"
      PROVE  \E j \in journal :
               /\ j.row.id = submission[f].evaluationID
               /\ \/ Retirable(j.row)
                  \/ j.row \in evaluations /\ Label(f) \in feedback
  <2>1. PICK j \in journal :
          /\ j.row.id = submission[f].evaluationID
          /\ Retirable(j.row) \/ Label(f) \in feedback
    BY <1>1 DEF Inductive, Labels
  <2>2. j.row \in evaluations \/ Retirable(j.row)
    BY <1>1 DEF Inductive, TableRows
  <2> QED  BY <2>1, <2>2
<1>2. Inductive => LabelsAreDurable
  BY <1>1 DEF LabelsAreDurable
<1> QED  BY <1>2, AlwaysInductive, PTL

=============================================================================
