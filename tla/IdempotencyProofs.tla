------------------------- MODULE IdempotencyProofs -------------------------
(***************************************************************************)
(* What an idempotency key protects, proved from the invariant of          *)
(* EvaluationsProofs.  OneOwnerPerKey is inductive relative to it.         *)
(* LiveKeyNeverBills is not: replay decides in two queries, and Protection *)
(* carries what the first one learned to the second and on to the bill.    *)
(***************************************************************************)
EXTENDS EvaluationsProofs

\* The unexpired records of a key are all in the table, and persist fails on
\* any of them: a new owner's window begins after every earlier one's ended.
LEMMA NextOneOwner ==
  Inductive /\ OneOwnerPerKey /\ [Next]_vars => OneOwnerPerKey'
<1> SUFFICES ASSUME Inductive, OneOwnerPerKey, [Next]_vars
             PROVE  OneOwnerPerKey'
  OBVIOUS
<1>1. CASE UNCHANGED journal
  BY <1>1 DEF OneOwnerPerKey, Grants
<1>2. CASE \E r \in Requests : Persist(r)
  <2>1. PICK r \in Requests : Persist(r)
    BY <1>2
  <2>2. /\ \A k \in idempotency : k.key # input[r].key
        /\ Grants' \subseteq Grants \cup {Grant(r)}
        /\ None \notin Grants'
    BY <2>1 DEF Persist, Grants
  <2>3. Grant(r) # None =>
          /\ Grant(r).key = input[r].key
          /\ Grant(r).expiresAt = now + IdempotencyRetention
    BY DEF Grant
  <2>4. ASSUME NEW g \in Grants, g.key = input[r].key
        PROVE  g.expiresAt + IdempotencyRetention < now + IdempotencyRetention
    <3>1. PICK j \in journal : j.grant = g /\ g # None
      BY DEF Grants
    <3>2. g.expiresAt < now
      BY <2>2, <2>4, <3>1 DEF Inductive, TableKeys
    <3>3. g.expiresAt \in Nat /\ now \in Nat
      BY <3>1, JournalTypes DEF Inductive, Shape, TypeOK
    <3> QED  BY <3>2, <3>3, ConstantsAssumption
  <2>5. SUFFICES ASSUME NEW g \in Grants', NEW h \in Grants',
                        g # h, g.key = h.key
                 PROVE  \/ g.expiresAt + IdempotencyRetention < h.expiresAt
                        \/ h.expiresAt + IdempotencyRetention < g.expiresAt
    BY DEF OneOwnerPerKey
  <2>6. CASE g \in Grants /\ h \in Grants
    BY <2>5, <2>6 DEF OneOwnerPerKey
  <2>7. CASE g \in Grants /\ h = Grant(r)
    BY <2>2, <2>3, <2>4, <2>5, <2>7
  <2>8. CASE g = Grant(r) /\ h \in Grants
    BY <2>2, <2>3, <2>4, <2>5, <2>8
  <2> QED  BY <2>2, <2>5, <2>6, <2>7, <2>8
<1> QED  BY <1>1, <1>2, Writers

\* Two calls that committed with the same key did so in disjoint windows,
\* however many calls raced for the key.
THEOREM AlwaysOneOwnerPerKey == Spec => []OneOwnerPerKey
<1>1. Init => OneOwnerPerKey
  BY DEF Init, OneOwnerPerKey, Grants
<1> QED  BY <1>1, NextOneOwner, AlwaysInductive, PTL DEF Spec

-----------------------------------------------------------------------------

KeyInv == Inductive /\ PriorAnswered /\ Protection

\* A key released stays released.
LEMMA ReleasedStays ==
  ASSUME Inductive, Shape', Growth, NEW r \in Requests, NEW j \in journal,
         j.grant # None, input'[r] = input[r], Released(j, r)
  PROVE  Released(j, r)'
BY WindowsStayOver DEF Inductive, Released, CanonicalHash

\* A commit is not yet answered, so it holds no key against any call.
LEMMA OldHolders ==
  ASSUME KeyInv, [Next]_vars, Growth, NEW r \in Requests, pc[r] # "idle",
         NEW j \in journal', Holds(j, r)'
  PROVE  j \in journal /\ Holds(j, r)
<1>1. prior'[r] = prior[r] /\ input'[r] = input[r]
  BY DEF Growth
<1>2. pc[j.row.id] = "answered"
  BY <1>1 DEF KeyInv, PriorAnswered, Holds
<1>3. CASE \E q \in Requests : Persist(q)
  <2>1. PICK q \in Requests : Persist(q)
    BY <1>3
  <2>2. /\ pc[q] = "persist"
        /\ journal' = journal \cup {[row |-> record[q], grant |-> Grant(q)]}
    BY <2>1 DEF Persist, Goto
  <2>3. record[q].id = q
    BY <2>2 DEF KeyInv, Inductive, OwnRows
  <2> QED  BY <1>1, <1>2, <2>2, <2>3 DEF Holds
<1> QED  BY <1>1, <1>3, Writers DEF Holds

LEMMA NextProtection == KeyInv /\ [Next]_vars => KeyInv'
<1> SUFFICES ASSUME KeyInv, [Next]_vars PROVE KeyInv'
  OBVIOUS
<1>1. Inductive'
  BY NextInductive DEF KeyInv
<1>2. Shape /\ Shape' /\ Growth
  BY <1>1, Monotone DEF KeyInv, Inductive
<1>3. /\ pc \in [Requests -> {"idle"} \cup InFlight \cup Ended]
      /\ prior \in [Requests -> SUBSET Requests]
      /\ input \in [Requests -> Inputs \cup {None}]
      /\ lookup \in [Requests -> KeyRecords \cup {None}]
      /\ billed \in SUBSET Requests
  BY <1>2 DEF Shape, TypeOK
\* What a step can do to one call.
<1>4. ASSUME NEW r \in Requests
      PROVE  \/ /\ pc'[r] = pc[r] /\ lookup'[r] = lookup[r]
                /\ prior'[r] = prior[r] /\ input'[r] = input[r]
                /\ r \in billed' <=> r \in billed
             \/ Create(r)
  <2>1. CASE \E q \in Requests : Create(q)
    <3>1. PICK q \in Requests : Create(q)
      BY <2>1
    <3>2. CASE q # r
      BY <1>3, <3>1, <3>2
      DEF Create, Receive, Refuse, ReplayMiss, ReplayFound, ReplayGet,
          EnsureSnapshot, Decide, ProviderAnswers, ProviderFails, Persist,
          PersistDuplicate, Respond, Interrupt, Goto
    <3> QED  BY <3>1, <3>2
  <2>2. CASE UNCHANGED calls
    BY <2>2 DEF calls
  <2>3. UNCHANGED calls \/ \E q \in Requests : Create(q)
    BY DEF Next, vars, Submit, SubmitFeedback, CreateFeedback,
       InterruptFeedback, Clean, StartPass, ExpireIdempotency, FindExpired,
       DeleteFeedback, DeleteEvaluations, InterruptPass, Tick, Redeploy
  <2> QED  BY <2>1, <2>2, <2>3
<1>5. PriorAnswered'
  <2> SUFFICES ASSUME NEW r \in Requests, NEW q \in prior'[r]
               PROVE  pc'[q] = "answered"
    BY DEF PriorAnswered
  <2>1. pc[q] = "answered"
    <3>1. CASE pc[r] # "idle"
      BY <1>2, <3>1 DEF Growth, KeyInv, PriorAnswered
    <3>2. CASE pc[r] = "idle"
      BY <1>3, <1>4, <3>2
      DEF Create, Receive, Refuse, ReplayMiss, ReplayFound, ReplayGet,
          EnsureSnapshot, Decide, ProviderAnswers, ProviderFails, Persist,
          PersistDuplicate, Respond, Interrupt, Goto, InFlight, KeyInv,
          PriorAnswered
    <3> QED  BY <3>1, <3>2
  <2>2. q \in Requests
    BY <1>2 DEF Shape, TypeOK
  <2> QED  BY <1>2, <2>1, <2>2 DEF Growth
<1>6. Protection'
  <2> SUFFICES ASSUME NEW r \in Requests, NEW j \in journal', Holds(j, r)'
               PROVE  /\ pc'[r] = "get" =>
                           lookup'[r] = j.grant \/ j.grant.expiresAt < now'
                      /\ pc'[r] \in {"snapshot", "decide"} \/ r \in billed' =>
                           Released(j, r)'
    BY DEF Protection
  <2>1. r \in billed' =>
          pc'[r] \in {"provider", "persist", "respond", "answered", "duplicate",
                     "lost"}
    BY <1>1 DEF Inductive, Billing
  <2>2. CASE pc'[r] \in {"idle", "replay", "refused"}
    BY <2>1, <2>2
  <2>3. CASE pc[r] = "idle"
    <3>1. pc'[r] \in {"idle", "replay", "refused"}
      BY <1>3, <1>4, <2>3
      DEF Create, Receive, Refuse, ReplayMiss, ReplayFound, ReplayGet,
          EnsureSnapshot, Decide, ProviderAnswers, ProviderFails, Persist,
          PersistDuplicate, Respond, Interrupt, Goto, InFlight
    <3> QED  BY <2>2, <3>1
  <2>4. CASE pc[r] # "idle"
    <3>1. /\ j \in journal /\ Holds(j, r) /\ j.grant # None
          /\ input'[r] = input[r]
      BY <1>2, <2>4, OldHolders DEF Holds, Growth
    <3>2. /\ pc[r] = "get" => lookup[r] = j.grant \/ j.grant.expiresAt < now
          /\ pc[r] \in {"snapshot", "decide"} \/ r \in billed =>
               Released(j, r)
      BY <3>1 DEF KeyInv, Protection
    <3>3. Released(j, r) => Released(j, r)'
      BY <1>2, <3>1, ReleasedStays DEF KeyInv
    <3>4. j.grant.expiresAt < now => j.grant.expiresAt < now'
      BY <1>2, <3>1, WindowsStayOver
    <3>5. CASE r \in billed
      BY <1>2, <2>1, <3>2, <3>3, <3>5 DEF Growth
    <3>6. CASE /\ pc'[r] = pc[r] /\ lookup'[r] = lookup[r]
               /\ r \in billed' <=> r \in billed
      BY <3>2, <3>3, <3>4, <3>6
    <3>7. CASE Create(r) /\ r \notin billed
      \* The first query found no record, so the key expired.
      <4>1. CASE ReplayMiss(r)
        <5>1. /\ \A k \in idempotency : k.key # input[r].key
              /\ pc'[r] = "snapshot" /\ UNCHANGED <<now, billed>>
          BY <1>3, <4>1 DEF ReplayMiss, Goto
        <5>2. j.grant.expiresAt < now
          BY <3>1, <5>1 DEF KeyInv, Inductive, TableKeys, Holds
        <5> QED  BY <3>3, <5>1, <5>2 DEF Released
      \* It found j's record, or a later one, which took j's place.
      <4>2. CASE ReplayFound(r)
        <5>1. PICK k \in idempotency :
                /\ k.key = input[r].key
                /\ pc' = [pc EXCEPT ![r] = AfterLookup(r, k)]
                /\ lookup' = [lookup EXCEPT ![r] = k]
          BY <4>2 DEF ReplayFound
        <5>2. k = j.grant \/ j.grant.expiresAt < now
          BY <3>1, <5>1 DEF KeyInv, Inductive, TableKeys, Holds
        <5>3. /\ pc'[r] = AfterLookup(r, k) /\ lookup'[r] = k
              /\ UNCHANGED <<now, billed>>
          BY <1>3, <4>2, <5>1 DEF ReplayFound
        <5>4. pc'[r] = "snapshot" => j.grant.expiresAt < now
          BY <5>2, <5>3 DEF AfterLookup, Expired
        <5>5. pc'[r] # "decide"
          BY <5>3 DEF AfterLookup
        <5> QED  BY <3>3, <3>4, <3>7, <5>2, <5>3, <5>4, <5>5 DEF Released
      \* The second query found no row: it was retired.
      <4>3. CASE ReplayGet(r)
        <5>1. /\ pc[r] = "get" /\ UNCHANGED <<now, billed>>
              /\ pc'[r] \in {"respond", "snapshot"}
              /\ pc'[r] = "snapshot" =>
                   \A e \in evaluations : e.id # lookup[r].evaluationID
          BY <1>3, <4>3 DEF ReplayGet, Goto
        <5>2. CASE j.grant.expiresAt < now
          BY <3>3, <3>7, <5>1, <5>2 DEF Released
        <5>3. CASE lookup[r] = j.grant
          <6>1. CanonicalHash(input[r]) = j.grant.hash
            BY <5>1, <5>3 DEF KeyInv, Inductive, Lookups
          <6>2. j.row.id = j.grant.evaluationID
            BY <3>1 DEF KeyInv, Inductive, JournalGrants
          <6>3. pc'[r] = "snapshot" => Retirable(j.row)
            BY <3>1, <5>1, <5>3, <6>2 DEF KeyInv, Inductive, TableRows
          <6> QED  BY <3>3, <3>7, <5>1, <6>1, <6>3 DEF Released
        <5> QED  BY <3>2, <5>1, <5>2, <5>3
      <4>4. CASE EnsureSnapshot(r)
        BY <1>3, <3>2, <3>3, <3>7, <4>4 DEF EnsureSnapshot, Goto
      <4>5. CASE Decide(r)
        BY <1>3, <3>2, <3>3, <3>7, <4>5 DEF Decide, Goto
      <4>6. CASE \/ Receive(r) \/ Refuse(r) \/ ProviderAnswers(r)
                 \/ ProviderFails(r) \/ Persist(r) \/ PersistDuplicate(r)
                 \/ Respond(r) \/ Interrupt(r)
        BY <1>3, <2>4, <3>7, <4>6
        DEF Receive, Refuse, ProviderAnswers, ProviderFails, Persist,
            PersistDuplicate, Respond, Interrupt, Goto
      <4> QED  BY <3>7, <4>1, <4>2, <4>3, <4>4, <4>5, <4>6 DEF Create
    <3> QED  BY <1>4, <3>5, <3>6, <3>7
  <2> QED  BY <2>3, <2>4
<1> QED  BY <1>1, <1>5, <1>6 DEF KeyInv

\* A live key protects every later call from billing the provider, whatever
\* retention does between the two queries of its replay.
THEOREM AlwaysLiveKeyNeverBills == Spec => []LiveKeyNeverBills
<1>1. Init => KeyInv
  <2> SUFFICES ASSUME Init PROVE KeyInv
    OBVIOUS
  <2>1. Inductive
    BY InitInductive
  <2> QED  BY <2>1 DEF Init, KeyInv, PriorAnswered, Protection
<1>2. ASSUME KeyInv PROVE LiveKeyNeverBills
  <2> SUFFICES ASSUME NEW r \in billed, NEW j \in journal, Holds(j, r)
               PROVE  Released(j, r)
    BY DEF LiveKeyNeverBills, Holds, Released
  <2>1. r \in Requests
    BY <1>2 DEF KeyInv, Inductive, Shape, TypeOK
  <2> QED  BY <1>2, <2>1 DEF KeyInv, Protection
<1> QED  BY <1>1, <1>2, NextProtection, PTL DEF Spec

=============================================================================
