-------------------------- MODULE TransportProofs --------------------------
(***************************************************************************)
(* The properties of Transport, for every number of connections, every     *)
(* load, every size of a bucket, of a page and of the table.               *)
(***************************************************************************)
EXTENDS Transport, Integers, FiniteSetTheorems, TLAPS

Steps == {"idle", "limited", "handling", "deciding", "probing", "answered"}

Types ==
    /\ now \in 0 .. MaxTime
    /\ alive \in BOOLEAN
    /\ traffic \in Traffics
    /\ bucket \in [Limited -> Nat]
    /\ admitted \in [Limited -> Nat]
    /\ inFlight \in [http: Int, mcp: Int]
    /\ pc \in [Clients -> Steps]
    /\ call \in [Clients -> AllCalls]
    /\ stamp \in [Clients -> 0 .. MaxTime]
    /\ result \in [Clients -> Results]
    /\ answer \in [Clients -> [status: Nat, isError: BOOLEAN]]
    /\ rows \in SUBSET Rows
    /\ page \in SUBSET Rows
    /\ walk \in [offset: Nat, begun: SUBSET Rows, seen: SUBSET Rows,
                 finished: BOOLEAN]

\* The call that reaches each step is one that the step is for.
Routed ==
    \A c \in Clients :
        /\ pc[c] = "limited" => call[c].surface \in Limited
        /\ pc[c] = "deciding" => call[c].op = "CreateEvaluation"
        /\ pc[c] = "probing" => call[c].op = "ListEvaluations"
        /\ pc[c] # "answered" => result[c] = "none"

Marks == mark \in [Limited -> [0 .. MaxTime -> Nat]]

\* Since any tick began, the tokens given out and those left are never more
\* than a full bucket and the tokens made since.
Tokens ==
    \A s \in Limited :
        /\ bucket[s] <= RateLimitBurst
        /\ \A t \in 0..now :
             admitted[s] + bucket[s]
               <= mark[s][t] + RateLimitBurst + RequestsPerTick * (now - t)

\* The table is finite and has one row for each ID.
Table ==
    /\ IsFiniteSet(rows)
    /\ \A e, f \in rows : e.id = f.id => e = f

\* A row that the walk is to see is aged, or it is there and was seen, is on
\* the page in hand, or comes after the pages read so far.
WalkOn ==
    /\ walk.finished => pc[Walker] = "answered"
    /\ \A e \in walk.begun :
         \/ Aged(e)
         \/ /\ e \in rows
            /\ \/ e \in walk.seen
               \/ /\ ~walk.finished
                  /\ Place(e, rows) >= walk.offset
                  /\ pc[Walker] = "probing" =>
                       \/ e \in page
                       \/ Place(e, rows) >= walk.offset + PageLimit

\* What AnswerFitsTheResult says of one call.
Fits(op, res, status) ==
    /\ status \in {200, 201} <=> res = "ok"
    /\ res \in CallersFault /\ ~Misblamed(op, res) => status \in 400..499
    /\ res \in ProvidersFault => status \in 502..504
    /\ res \in {"other", "panic"} => status = 500

FitAnswers ==
    \A c \in Clients :
        pc[c] = "answered" /\ call[c].surface = "api" /\ result[c] # "none"
          => Fits(call[c].op, result[c], answer[c].status)

\* The calls under way, and those of them that run a tool.
UnderWay == {c \in Clients : pc[c] \notin {"idle", "answered"}}

InTools ==
    {c \in Clients :
        call[c].surface = "mcp" /\ pc[c] \in {"handling", "deciding"}}

Gauges ==
    alive => /\ inFlight.http = Cardinality(UnderWay)
             /\ inFlight.mcp = Cardinality(InTools)

Inv ==
    /\ Types
    /\ Routed
    /\ Marks
    /\ Tokens
    /\ Table
    /\ WalkOn
    /\ FitAnswers
    /\ Gauges

USE DEF process, limiter, local, reads

-----------------------------------------------------------------------------
(***************************************************************************)
(* Calls.                                                                  *)
(***************************************************************************)

\* A call is for an operation of its surface.
LEMMA CallFields ==
    ASSUME NEW k \in AllCalls
    PROVE  /\ k.surface \in Surfaces
           /\ k.op \in Operations[k.surface]
    BY DEF AllCalls

\* MCP has no tool that lists.
LEMMA NoToolLists ==
    ASSUME NEW k \in AllCalls, k.op = "ListEvaluations"
    PROVE  k.surface # "mcp"
<1>1. "ListEvaluations" \notin Operations["mcp"]
    BY DEF Operations
<1> QED BY <1>1, CallFields

\* A connection without a call holds a well-typed one.
LEMMA NoCallIsACall == NoCall \in AllCalls
    BY DEF NoCall, AllCalls, Surfaces, Operations

\* What a client sends is a call.
LEMMA TrafficIsCalls ==
    ASSUME Types, NEW c \in Clients, NEW k \in traffic[c]
    PROVE  k \in AllCalls
    BY TransportAssumption DEF Types

\* What the core returns for an operation is a result.
LEMMA CoreResults ==
    ASSUME NEW op
    PROVE  {"ok"} \cup CoreErrors(op) \cup FailureCodes \subseteq Results
    BY DEF CoreErrors, Results, Errors

\* A status is a number.
LEMMA StatusType ==
    ASSUME NEW k \in AllCalls, NEW res
    PROVE  respond(k, res) \in [status: Nat, isError: BOOLEAN]
<1>1. classify(res) \in Nat
    BY DEF classify, classifyProvider
<1>2. createEvaluation(res) \in Nat
    BY <1>1 DEF createEvaluation, recordedFailureStatus
<1>3. otherOperation(k.op, res) \in Nat
    BY <1>1 DEF otherOperation
<1> QED BY <1>2, <1>3 DEF respond

-----------------------------------------------------------------------------
(***************************************************************************)
(* Answers.                                                                *)
(***************************************************************************)

\* The statuses of the errors that a core operation returns.
LEMMA Statuses ==
    /\ classify("conflict") = 409
    /\ classify("selection") = 400
    /\ classify("inline_disabled") = 400
    /\ classify("not_found") = 404
    /\ classify("validation") = 422
    /\ classify("policy_too_large") = 413
    /\ classify("policy_invalid") = 500
    /\ classify("canceled") = 499
    /\ classify("other") = 500
    BY DEF classify, classifyProvider

\* The status of a create fits what Create returned.
LEMMA CreateFits ==
    ASSUME NEW res \in {"ok"} \cup CoreErrors("CreateEvaluation")
                           \cup FailureCodes
    PROVE  Fits("CreateEvaluation", res, createEvaluation(res))
<1>1. CASE res = "ok"
    BY <1>1 DEF Fits, createEvaluation, Errors, FailureCodes, CallersFault,
       ProvidersFault
<1>2. CASE res \in FailureCodes
  <2>1. res \notin Errors
      BY <1>2 DEF Errors, FailureCodes
  <2> QED
      BY <1>2, <2>1 DEF Fits, createEvaluation, recordedFailureStatus,
         FailureCodes, CallersFault, ProvidersFault
<1>3. CASE res \in CoreErrors("CreateEvaluation")
  <2>1. /\ res \in Errors /\ res \notin FailureCodes
        /\ res # "ok" /\ res # "panic"
      BY <1>3 DEF CoreErrors, Errors, FailureCodes
  <2>2. createEvaluation(res) =
          IF classify(res) = 499 THEN 400 ELSE classify(res)
      BY <2>1 DEF createEvaluation
  <2>3. /\ classify(res) \in {400, 404, 409, 413, 422, 499, 500}
        /\ classify(res) = 500 <=> res \in {"policy_invalid", "other"}
      BY <1>3, Statuses DEF CoreErrors
  <2>4. res = "policy_invalid" => Misblamed("CreateEvaluation", res)
      BY DEF Misblamed
  <2>5. "other" \notin CallersFault
      BY DEF CallersFault
  <2> QED
      BY <2>1, <2>2, <2>3, <2>4, <2>5 DEF Fits, ProvidersFault
<1> QED BY <1>1, <1>2, <1>3

\* The status of any other operation fits what the core returned.
LEMMA OtherFits ==
    ASSUME NEW op \in Operations["api"] \ {"CreateEvaluation"},
           NEW res \in {"ok"} \cup CoreErrors(op)
    PROVE  Fits(op, res, otherOperation(op, res))
<1>1. CASE res = "ok"
    BY <1>1 DEF Fits, otherOperation, CallersFault, ProvidersFault,
       FailureCodes
<1>2. CASE res # "ok"
  <2>1. /\ res \in {"not_found", "validation", "canceled", "other"}
        /\ res = "not_found" =>
             op \in {"GetEvaluation", "SubmitFeedback", "GetPolicy"}
        /\ res = "validation" => op \in {"SubmitFeedback", "ValidatePolicy"}
        /\ res \in {"canceled", "other"} => op # "ValidatePolicy"
      BY <1>2 DEF CoreErrors, Operations
  <2>2. 499 \notin Declared[op] /\ 500 \notin Declared[op]
      BY DEF Declared, Operations
  <2>3. res \in {"not_found", "validation"} =>
          otherOperation(op, res) \in {400, 404, 422}
      BY <2>1, Statuses DEF otherOperation, Declared
  <2>4. res \in {"canceled", "other"} => otherOperation(op, res) = 500
      BY <2>1, <2>2, Statuses DEF otherOperation
  <2>5. res = "canceled" => Misblamed(op, res)
      BY DEF Misblamed, Operations
  <2>6. "other" \notin CallersFault /\ res \notin ProvidersFault
      BY <2>1 DEF CallersFault, ProvidersFault, FailureCodes
  <2> QED
      BY <2>1, <2>3, <2>4, <2>5, <2>6 DEF Fits
<1> QED BY <1>1, <1>2

-----------------------------------------------------------------------------
(***************************************************************************)
(* Types.                                                                  *)
(***************************************************************************)

\* What the deferred Decs leave is a number.
LEMMA ReleasedType ==
    ASSUME Types, NEW c \in Clients
    PROVE  Released(c) \in [http: Int, mcp: Int]
    BY DEF Types, Released

\* A handler that answers leaves its call well typed.
LEMMA FinishTypes ==
    ASSUME Types, NEW c \in Clients, NEW res \in Results, finish(c, res)
    PROVE  /\ pc' \in [Clients -> Steps]
           /\ result' \in [Clients -> Results]
           /\ answer' \in [Clients -> [status: Nat, isError: BOOLEAN]]
           /\ inFlight' \in [http: Int, mcp: Int]
<1>1. /\ pc' = [pc EXCEPT ![c] = "answered"]
      /\ result' = [result EXCEPT ![c] = res]
    BY DEF finish, finishWith
<1>2. answer' = [answer EXCEPT ![c] = respond(call[c], res)]
    BY DEF finish, finishWith
<1>3. respond(call[c], res) \in [status: Nat, isError: BOOLEAN]
    BY StatusType DEF Types
<1>4. inFlight' \in [http: Int, mcp: Int]
    BY ReleasedType DEF finish
<1>5. "answered" \in Steps
    BY DEF Steps
<1> QED BY <1>1, <1>2, <1>3, <1>4, <1>5 DEF Types

\* Every step keeps the types.
LEMMA TypeStep == Inv /\ [Next]_vars => Types'
<1> SUFFICES ASSUME Inv, [Next]_vars PROVE Types'
    OBVIOUS
<1>0. Types
    BY DEF Inv
<1> USE DEF Steps
<1>1. ASSUME NEW c \in Clients, ServerInterfaceWrapper(c) PROVE Types'
  <2> PICK k \in traffic[c] : refuseUnbound(c, k) \/ enterChain(c, k)
      BY <1>1 DEF ServerInterfaceWrapper
  <2>1. k \in AllCalls
      BY <1>0, TrafficIsCalls
  <2>2. CASE refuseUnbound(c, k)
    <3>1. answer' \in [Clients -> [status: Nat, isError: BOOLEAN]]
        BY <1>0, <2>2 DEF Types, refuseUnbound
    <3> QED BY <1>0, <2>1, <2>2, <3>1 DEF Types, refuseUnbound
  <2>3. CASE enterChain(c, k)
    <3>1. inFlight' \in [http: Int, mcp: Int]
        BY <1>0, <2>3 DEF Types, enterChain
    <3>2. pc' \in [Clients -> Steps]
        BY <1>0, <2>3 DEF Types, enterChain
    <3> QED BY <1>0, <2>1, <2>3, <3>1, <3>2 DEF Types, enterChain
  <2> QED BY <2>2, <2>3
<1>2. ASSUME NEW c \in Clients, RateLimit(c) PROVE Types'
  <2> DEFINE refusal == IF Allow(call[c].surface) THEN Refusal(call[c])
                        ELSE 429
  <2>1. bucket' \in [Limited -> Nat] /\ admitted' \in [Limited -> Nat]
    <3>1. CASE Allow(call[c].surface)
      <4>1. call[c].surface \in Limited
          BY <1>2 DEF RateLimit, Inv, Routed
      <4>2. bucket[call[c].surface] - 1 \in Nat
          BY <1>0, <3>1, <4>1 DEF Types, Allow
      <4> QED BY <1>0, <1>2, <3>1, <4>1, <4>2 DEF Types, RateLimit
    <3>2. CASE ~Allow(call[c].surface)
        BY <1>0, <1>2, <3>2 DEF Types, RateLimit
    <3> QED BY <3>1, <3>2
  <2>2. refusal \in Nat
      BY DEF Refusal, strictJSONBodies
  <2>3. /\ pc' \in [Clients -> Steps]
        /\ result' \in [Clients -> Results]
        /\ answer' \in [Clients -> [status: Nat, isError: BOOLEAN]]
        /\ inFlight' \in [http: Int, mcp: Int]
    <3>1. CASE refusal # 0
      <4>1. /\ finishWith(c, "none", [NoAnswer EXCEPT !.status = refusal])
            /\ inFlight' = [inFlight EXCEPT !.http = @ - 1]
          BY <1>2, <3>1 DEF RateLimit
      <4>2. [NoAnswer EXCEPT !.status = refusal]
              \in [status: Nat, isError: BOOLEAN]
          BY <2>2 DEF NoAnswer
      <4>3. "none" \in Results
          BY DEF Results
      <4> HIDE DEF refusal
      <4> QED BY <1>0, <4>1, <4>2, <4>3 DEF Types, finishWith
    <3>2. CASE refusal = 0
      <4>1. /\ pc' = [pc EXCEPT ![c] = "handling"]
            /\ inFlight' = [inFlight EXCEPT
                             !.mcp = IF call[c].surface = "mcp"
                                     THEN @ + 1 ELSE @]
            /\ UNCHANGED <<result, answer>>
          BY <1>2, <3>2 DEF RateLimit
      <4>2. inFlight' \in [http: Int, mcp: Int]
          BY <1>0, <4>1 DEF Types
      <4> QED BY <1>0, <4>1, <4>2 DEF Types
    <3> QED BY <3>1, <3>2
  <2>4. UNCHANGED <<now, alive, traffic, call, stamp, rows, page, walk>>
      BY <1>2 DEF RateLimit
  <2> QED BY <1>0, <2>1, <2>3, <2>4 DEF Types
<1>3. ASSUME NEW c \in Clients, recoverPanic(c) PROVE Types'
  <2>1. answer' \in [Clients -> [status: Nat, isError: BOOLEAN]]
      BY <1>0, <1>3 DEF Types, recoverPanic
  <2>2. inFlight' \in [http: Int, mcp: Int]
      BY <1>0, <1>3, ReleasedType DEF recoverPanic
  <2>3. result' \in [Clients -> Results]
      BY <1>0, <1>3 DEF Types, recoverPanic, Results
  <2>4. page' \in SUBSET Rows
      BY <1>0, <1>3 DEF Types, recoverPanic
  <2> QED BY <1>0, <1>3, <2>1, <2>2, <2>3, <2>4 DEF Types, recoverPanic
<1>4. ASSUME NEW c \in Clients, toolPanics(c) PROVE Types'
    BY <1>0, <1>4 DEF Types, toolPanics
<1>5. ASSUME NEW c \in Clients, healthHandler(c) PROVE Types'
  <2>1. PICK n \in {200, 503} :
          finishWith(c, "none", [NoAnswer EXCEPT !.status = n])
      BY <1>5 DEF healthHandler
  <2>2. [NoAnswer EXCEPT !.status = n] \in [status: Nat, isError: BOOLEAN]
    <3>1. n \in Nat
        OBVIOUS
    <3> QED BY <3>1 DEF NoAnswer
  <2>3. inFlight' \in [http: Int, mcp: Int]
      BY <1>0, <1>5, ReleasedType DEF healthHandler
  <2>4. /\ pc' \in [Clients -> Steps]
        /\ result' \in [Clients -> Results]
        /\ answer' \in [Clients -> [status: Nat, isError: BOOLEAN]]
      BY <1>0, <2>1, <2>2 DEF Types, finishWith, Results
  <2>5. UNCHANGED <<process, limiter, call, stamp, rows, reads>>
      BY <1>5 DEF healthHandler
  <2> QED BY <1>0, <2>3, <2>4, <2>5 DEF Types
<1>6. ASSUME NEW c \in Clients, Create(c) PROVE Types'
  <2>1. UNCHANGED <<process, limiter, call, rows, reads>>
      BY <1>6 DEF Create
  <2>2. ASSUME NEW res \in {"ok"} \cup CoreErrors(call[c].op)
                             \cup FailureCodes,
               finish(c, res), UNCHANGED stamp
        PROVE  Types'
    <3>1. res \in Results
        BY <2>2, CoreResults
    <3> QED BY <1>0, <2>1, <2>2, <3>1, FinishTypes DEF Types
  <2>3. CASE /\ pc' = [pc EXCEPT ![c] = "deciding"]
             /\ stamp' = [stamp EXCEPT ![c] = now]
             /\ UNCHANGED <<inFlight, result, answer, completion>>
      BY <1>0, <2>1, <2>3 DEF Types
  <2> QED BY <1>6, <2>2, <2>3 DEF Create
<1>7. ASSUME NEW c \in Clients, persist(c) PROVE Types'
  <2>1. UNCHANGED <<process, limiter, call, stamp, reads>>
      BY <1>7 DEF persist
  <2>2. PICK res \in {"ok", "validation", "canceled", "other"}
                      \cup FailureCodes :
          finish(c, res)
      BY <1>7 DEF persist
  <2>3. res \in Results
      BY DEF Results, Errors
  <2>4. rows' \in SUBSET Rows
    <3>1. ASSUME NEW id \in Ids PROVE [id |-> id, at |-> stamp[c]] \in Rows
        BY <1>0 DEF Types, Rows
    <3> QED BY <1>0, <1>7, <3>1 DEF Types, persist
  <2> QED BY <1>0, <2>1, <2>2, <2>3, <2>4, FinishTypes DEF Types
<1>8. ASSUME NEW c \in Clients, callCore(c) PROVE Types'
  <2>1. UNCHANGED <<process, limiter, call, stamp, rows, reads>>
      BY <1>8 DEF callCore
  <2>2. PICK res \in {"ok"} \cup CoreErrors(call[c].op) : finish(c, res)
      BY <1>8 DEF callCore
  <2>3. res \in Results
      BY CoreResults
  <2> QED BY <1>0, <2>1, <2>2, <2>3, FinishTypes DEF Types
<1>9. ASSUME NEW c \in Clients, List(c) PROVE Types'
  <2>1. UNCHANGED <<process, limiter, call, stamp, rows>>
      BY <1>9 DEF List
  <2>2. ASSUME NEW res \in CoreErrors("ListEvaluations"), finish(c, res),
               UNCHANGED reads
        PROVE  Types'
    <3>1. res \in Results
        BY <2>2, CoreResults
    <3> QED BY <1>0, <2>1, <2>2, <3>1, FinishTypes DEF Types
  <2>3. ASSUME pc' = [pc EXCEPT ![c] = "probing"],
               IF c = Walker
               THEN /\ page' = Slice(rows, walk.offset, PageLimit)
                    /\ walk' = IF walk.offset = 0
                               THEN [NewWalk EXCEPT !.begun = rows] ELSE walk
               ELSE UNCHANGED reads,
               UNCHANGED <<inFlight, result, answer, completion>>
        PROVE  Types'
    <3>1. page' \in SUBSET Rows
        BY <1>0, <2>3 DEF Types, Slice
    <3>2. walk' \in [offset: Nat, begun: SUBSET Rows, seen: SUBSET Rows,
                     finished: BOOLEAN]
        BY <1>0, <2>3 DEF Types, NewWalk
    <3> QED BY <1>0, <2>1, <2>3, <3>1, <3>2 DEF Types
  <2> QED BY <1>9, <2>2, <2>3 DEF List
<1>10. ASSUME NEW c \in Clients, probe(c) PROVE Types'
  <2>1. UNCHANGED <<process, limiter, call, stamp, rows>>
      BY <1>10 DEF probe
  <2>2. PICK res \in {"ok"} \cup CoreErrors("ListEvaluations") : finish(c, res)
      BY <1>10 DEF probe
  <2>3. res \in Results
      BY CoreResults
  <2>4. page' \in SUBSET Rows
      BY <1>0, <1>10 DEF Types, probe
  <2>5. walk' \in [offset: Nat, begun: SUBSET Rows, seen: SUBSET Rows,
                   finished: BOOLEAN]
    <3>1. walk.offset + PageLimit \in Nat
        BY <1>0, TransportAssumption DEF Types
    <3>2. walk.seen \cup page \in SUBSET Rows
        BY <1>0 DEF Types
    <3>3. hasMore(rows, walk.offset) \in BOOLEAN
        BY DEF hasMore
    <3>4. \/ UNCHANGED walk
          \/ \E n \in {walk.offset + PageLimit, 0}, b \in BOOLEAN :
               walk' = [walk EXCEPT !.seen = @ \cup page, !.offset = n,
                                    !.finished = b]
        BY <1>10, <3>3 DEF probe
    <3>5. ASSUME NEW n \in {walk.offset + PageLimit, 0}, NEW b \in BOOLEAN,
                 walk' = [walk EXCEPT !.seen = @ \cup page, !.offset = n,
                                      !.finished = b]
          PROVE  walk' \in [offset: Nat, begun: SUBSET Rows,
                            seen: SUBSET Rows, finished: BOOLEAN]
      <4>1. walk' = [offset |-> n, begun |-> walk.begun,
                     seen |-> walk.seen \cup page, finished |-> b]
          BY <1>0, <3>5 DEF Types
      <4>2. n \in Nat /\ walk.begun \in SUBSET Rows
          BY <1>0, <3>1 DEF Types
      <4> QED BY <3>2, <4>1, <4>2
    <3> QED BY <1>0, <3>4, <3>5 DEF Types
  <2> QED BY <1>0, <2>1, <2>2, <2>3, <2>4, <2>5, FinishTypes DEF Types
<1>11. ASSUME NEW c \in Clients, receive(c) PROVE Types'
  <2>1. walk' \in [offset: Nat, begun: SUBSET Rows, seen: SUBSET Rows,
                   finished: BOOLEAN]
      BY <1>0, <1>11 DEF Types, receive, NewWalk
  <2>2. result' \in [Clients -> Results]
      BY <1>0, <1>11 DEF Types, receive, Results
  <2>3. answer' \in [Clients -> [status: Nat, isError: BOOLEAN]]
      BY <1>0, <1>11 DEF Types, receive, NoAnswer
  <2>4. call' \in [Clients -> AllCalls]
      BY <1>0, <1>11, NoCallIsACall DEF Types, receive
  <2>5. stamp' \in [Clients -> 0 .. MaxTime]
      BY <1>0, <1>11, TransportAssumption DEF Types, receive
  <2> QED BY <1>0, <1>11, <2>1, <2>2, <2>3, <2>4, <2>5 DEF Types, receive
<1>12. CASE expireEvaluations
    BY <1>0, <1>12 DEF Types, expireEvaluations
<1>13. CASE Tick
  <2>1. bucket' \in [Limited -> Nat]
      BY <1>0, <1>13, TransportAssumption DEF Types, Tick, Refilled
  <2>2. now' \in 0 .. MaxTime
      BY <1>0, <1>13, TransportAssumption DEF Types, Tick
  <2> QED BY <1>0, <1>13, <2>1, <2>2 DEF Types, Tick
<1>14. CASE UNCHANGED vars
    BY <1>0, <1>14 DEF Types, vars
<1> QED
    BY <1>1, <1>2, <1>3, <1>4, <1>5, <1>6, <1>7, <1>8, <1>9, <1>10, <1>11,
       <1>12, <1>13, <1>14 DEF Next, Serve

-----------------------------------------------------------------------------
(***************************************************************************)
(* Routes, tokens and the table.                                           *)
(***************************************************************************)

\* Every step leaves each call where such calls go.
LEMMA RoutedStep == Inv /\ [Next]_vars => Routed'
<1> SUFFICES ASSUME Inv, [Next]_vars PROVE Routed'
    OBVIOUS
<1>0. Types /\ Routed
    BY DEF Inv
<1>1. ASSUME NEW c \in Clients, NEW res, finish(c, res), UNCHANGED call
      PROVE  Routed'
    BY <1>0, <1>1 DEF Types, Routed, finish, finishWith
<1>2. ASSUME NEW c \in Clients, ServerInterfaceWrapper(c) PROVE Routed'
  <2> PICK k \in traffic[c] : refuseUnbound(c, k) \/ enterChain(c, k)
      BY <1>2 DEF ServerInterfaceWrapper
  <2>1. k \in AllCalls
      BY <1>0, TrafficIsCalls
  <2>2. CASE refuseUnbound(c, k)
      BY <1>0, <2>2 DEF Types, Routed, refuseUnbound
  <2>3. CASE enterChain(c, k)
    <3>1. k.surface # "probe" => k.surface \in Limited
        BY <2>1, CallFields DEF Surfaces, Limited
    <3> QED BY <1>0, <2>3, <3>1 DEF Types, Routed, enterChain
  <2> QED BY <2>2, <2>3
<1>3. ASSUME NEW c \in Clients, RateLimit(c) PROVE Routed'
  <2>1. \/ /\ pc' = [pc EXCEPT ![c] = "answered"]
           /\ result' = [result EXCEPT ![c] = "none"]
        \/ /\ pc' = [pc EXCEPT ![c] = "handling"]
           /\ UNCHANGED result
      BY <1>3 DEF RateLimit, finishWith
  <2> QED BY <1>0, <1>3, <2>1 DEF Types, Routed, RateLimit
<1>4. ASSUME NEW c \in Clients, recoverPanic(c) PROVE Routed'
    BY <1>0, <1>4 DEF Types, Routed, recoverPanic
<1>5. ASSUME NEW c \in Clients, healthHandler(c) PROVE Routed'
    BY <1>0, <1>5 DEF Types, Routed, healthHandler, finishWith
<1>6. ASSUME NEW c \in Clients, Create(c) PROVE Routed'
    BY <1>0, <1>1, <1>6 DEF Types, Routed, Create
<1>7. ASSUME NEW c \in Clients, List(c) PROVE Routed'
    BY <1>0, <1>1, <1>7 DEF Types, Routed, List
<1>8. ASSUME NEW c \in Clients, receive(c) PROVE Routed'
    BY <1>0, <1>8 DEF Types, Routed, receive
<1>9. ASSUME NEW c \in Clients, persist(c) \/ callCore(c) \/ probe(c)
      PROVE  Routed'
    BY <1>1, <1>9 DEF persist, callCore, probe
<1>10. CASE UNCHANGED local
    BY <1>0, <1>10 DEF Routed
<1> QED
    BY <1>2, <1>3, <1>4, <1>5, <1>6, <1>7, <1>8, <1>9, <1>10
    DEF Next, Serve, vars, toolPanics, expireEvaluations, Tick

\* Only the limiter takes tokens and only the clock makes them.
LEMMA LimiterSteps ==
    ASSUME Next
    PROVE  \/ \E c \in Clients : RateLimit(c)
           \/ Tick
           \/ UNCHANGED <<now, limiter>>
    BY DEF Next, Serve, ServerInterfaceWrapper, refuseUnbound, enterChain,
       recoverPanic, toolPanics, healthHandler, Create, persist, callCore,
       List, probe, receive, expireEvaluations

\* A tick makes RequestsPerTick tokens.
LEMMA TickTokens ==
    ASSUME NEW n \in Nat, NEW r \in Nat
    PROVE  r * n \in Nat /\ r * (n + 1) = r * n + r
    OBVIOUS

\* A mark is what was admitted at some time.
LEMMA MarksStep == Inv /\ [Next]_vars => Marks'
<1> SUFFICES ASSUME Inv, [Next]_vars PROVE Marks'
    OBVIOUS
<1>1. admitted \in [Limited -> Nat] /\ Marks
    BY DEF Inv, Types
<1>2. CASE Tick
  <2>1. mark' = [s \in Limited |-> [mark[s] EXCEPT ![now + 1] = admitted[s]]]
      BY <1>2 DEF Tick
  <2> QED BY <1>1, <2>1 DEF Marks
<1>3. CASE mark' = mark
    BY <1>1, <1>3 DEF Marks
<1> QED BY <1>2, <1>3, LimiterSteps DEF vars, RateLimit

\* Every step keeps the account of the tokens.
LEMMA TokensStep == Inv /\ [Next]_vars => Tokens'
<1> SUFFICES ASSUME Inv, [Next]_vars PROVE Tokens'
    OBVIOUS
<1>0. /\ Types /\ Tokens /\ Marks /\ Marks'
      /\ RateLimitBurst \in Nat /\ RequestsPerTick \in Nat
      /\ now \in Nat /\ now <= MaxTime /\ MaxTime \in Nat
    BY MarksStep, TransportAssumption DEF Inv, Types
<1>1. ASSUME NEW c \in Clients, RateLimit(c) PROVE Tokens'
  <2>1. now' = now /\ mark' = mark
      BY <1>1 DEF RateLimit
  <2>2. call[c].surface \in Limited
      BY <1>1 DEF RateLimit, Inv, Routed
  <2>3. CASE Allow(call[c].surface)
    <3>1. /\ bucket' = [bucket EXCEPT ![call[c].surface] = @ - 1]
          /\ admitted' = [admitted EXCEPT ![call[c].surface] = @ + 1]
        BY <1>1, <2>3 DEF RateLimit
    <3>2. \A s \in Limited :
            admitted'[s] + bucket'[s] = admitted[s] + bucket[s]
        BY <1>0, <2>2, <3>1 DEF Types
    <3>3. ASSUME NEW s \in Limited PROVE bucket'[s] <= RateLimitBurst
      <4>1. bucket[s] \in Nat /\ bucket[s] <= RateLimitBurst
          BY <1>0 DEF Types, Tokens
      <4>2. bucket'[s] \in {bucket[s], bucket[s] - 1}
          BY <1>0, <3>1 DEF Types
      <4> QED BY <1>0, <4>1, <4>2
    <3> QED BY <1>0, <2>1, <3>2, <3>3 DEF Tokens
  <2>4. CASE ~Allow(call[c].surface)
      BY <1>0, <1>1, <2>1, <2>4 DEF Tokens, RateLimit
  <2> QED BY <2>3, <2>4
<1>2. CASE Tick
  <2>1. now' = now + 1 /\ admitted' = admitted /\ now < MaxTime
      BY <1>2 DEF Tick
  <2>2. \A s \in Limited :
          /\ bucket'[s] <= bucket[s] + RequestsPerTick
          /\ bucket'[s] <= RateLimitBurst
      BY <1>0, <1>2 DEF Types, Tick, Refilled
  <2>3. ASSUME NEW s \in Limited, NEW t \in 0..now'
        PROVE  admitted'[s] + bucket'[s]
                 <= mark'[s][t] + RateLimitBurst + RequestsPerTick * (now' - t)
    <3>1. /\ bucket'[s] \in Nat /\ bucket[s] \in Nat /\ admitted[s] \in Nat
          /\ mark'[s][t] \in Nat /\ t \in Nat
        BY <1>0, <2>1, TypeStep DEF Types, Marks
    <3>2. mark'[s] = [mark[s] EXCEPT ![now + 1] = admitted[s]]
        BY <1>2 DEF Tick
    <3>3. CASE t = now'
      <4>1. mark'[s][t] = admitted[s]
          BY <1>0, <2>1, <3>2, <3>3 DEF Marks
      <4>2. now' - t = 0
          BY <1>0, <2>1, <3>3
      <4>3. RequestsPerTick * 0 = 0
          BY <1>0
      <4>4. RequestsPerTick * (now' - t) = 0
          BY <4>2, <4>3
      <4> HIDE <3>3
      <4> QED BY <1>0, <2>1, <2>2, <3>1, <4>1, <4>4
    <3>4. CASE t # now'
      <4>1. t \in 0..now
          BY <1>0, <2>1, <3>1, <3>4
      <4>2. mark'[s][t] = mark[s][t]
          BY <1>0, <2>1, <3>2, <3>4, <4>1 DEF Marks
      <4> DEFINE since == RequestsPerTick * (now - t)
      <4>3. now - t \in Nat /\ now' - t = (now - t) + 1
          BY <1>0, <2>1, <4>1
      <4>4. since \in Nat /\ RequestsPerTick * (now' - t) = since + RequestsPerTick
          BY <1>0, <4>3, TickTokens
      <4>5. admitted[s] + bucket[s] <= mark[s][t] + RateLimitBurst + since
          BY <1>0, <4>1 DEF Tokens
      <4> HIDE DEF since
      <4> QED BY <1>0, <2>1, <2>2, <3>1, <4>2, <4>4, <4>5
    <3> QED BY <3>3, <3>4
  <2> QED BY <2>2, <2>3 DEF Tokens
<1>3. CASE UNCHANGED <<now, limiter>>
    BY <1>0, <1>3 DEF Tokens
<1> QED BY <1>1, <1>2, <1>3, LimiterSteps DEF vars

\* Only a create that decides adds a row, and only retention takes one.
LEMMA TableSteps ==
    ASSUME Next
    PROVE  \/ \E c \in Clients : persist(c)
           \/ expireEvaluations
           \/ UNCHANGED rows
    BY ZenonT(40) DEF Next, Serve, ServerInterfaceWrapper, refuseUnbound,
       enterChain, recoverPanic, toolPanics, healthHandler, Create, RateLimit, callCore,
       List, probe, receive, Tick

\* A commit adds at most one row, under an ID of its own.
LEMMA Commits ==
    ASSUME NEW c \in Clients, persist(c)
    PROVE  \/ UNCHANGED rows
           \/ \E id \in Ids \ {e.id : e \in rows} :
                rows' = rows \cup {[id |-> id, at |-> stamp[c]]}
    BY DEF persist

\* Every step keeps the table finite and its IDs unique.
LEMMA TableStep == Inv /\ [Next]_vars => Table'
<1> SUFFICES ASSUME Inv, [Next]_vars PROVE Table'
    OBVIOUS
<1>0. Types /\ Table
    BY DEF Inv
<1>1. ASSUME NEW c \in Clients, persist(c) PROVE Table'
  <2>1. CASE UNCHANGED rows
      BY <1>0, <2>1 DEF Table
  <2>2. ASSUME NEW id \in Ids \ {e.id : e \in rows},
               rows' = rows \cup {[id |-> id, at |-> stamp[c]]}
        PROVE  Table'
    <3>1. IsFiniteSet(rows')
        BY <1>0, <2>2, FS_AddElement DEF Table
    <3>2. \A e \in rows : e.id # id
        BY <2>2
    <3> QED BY <1>0, <2>2, <3>1, <3>2 DEF Table
  <2> QED BY <1>1, <2>1, <2>2, Commits
<1>2. CASE expireEvaluations
  <2>1. PICK e \in rows : rows' = rows \ {e}
      BY <1>2 DEF expireEvaluations
  <2>2. IsFiniteSet(rows')
      BY <1>0, <2>1, FS_RemoveElement DEF Table
  <2> QED BY <1>0, <2>1, <2>2 DEF Table
<1>3. CASE UNCHANGED rows
    BY <1>0, <1>3 DEF Table
<1> QED BY <1>1, <1>2, <1>3, TableSteps DEF vars

-----------------------------------------------------------------------------
(***************************************************************************)
(* Answers.                                                                *)
(***************************************************************************)

\* A handler's answer fits what its core operation can return.
LEMMA RespondFits ==
    ASSUME NEW k \in AllCalls, k.surface = "api",
           NEW res,
           \/ res \in {"ok"} \cup CoreErrors(k.op)
           \/ k.op = "CreateEvaluation" /\ res \in FailureCodes
    PROVE  Fits(k.op, res, respond(k, res).status)
<1>1. k.op \in Operations["api"]
    BY CallFields
<1>2. CASE k.op = "CreateEvaluation"
    BY <1>2, CreateFits DEF respond
<1>3. CASE k.op # "CreateEvaluation"
    BY <1>1, <1>3, OtherFits DEF respond
<1> QED BY <1>2, <1>3

\* Every answer fits.
LEMMA AnswerStep == Inv /\ [Next]_vars => FitAnswers'
<1> SUFFICES ASSUME Inv, [Next]_vars PROVE FitAnswers'
    OBVIOUS
<1>0. Types /\ Routed /\ FitAnswers
    BY DEF Inv
<1>1. ASSUME NEW c \in Clients, NEW res, finish(c, res), UNCHANGED call,
             \/ res \in {"ok"} \cup CoreErrors(call[c].op)
             \/ call[c].op = "CreateEvaluation" /\ res \in FailureCodes
      PROVE  FitAnswers'
  <2>1. /\ pc' = [pc EXCEPT ![c] = "answered"]
        /\ result' = [result EXCEPT ![c] = res]
        /\ answer' = [answer EXCEPT ![c] = respond(call[c], res)]
      BY <1>1 DEF finish, finishWith
  <2>2. call[c].surface = "api" =>
          Fits(call[c].op, res, respond(call[c], res).status)
      BY <1>0, <1>1, RespondFits DEF Types
  <2> QED BY <1>0, <1>1, <2>1, <2>2 DEF Types, FitAnswers
<1>2. ASSUME NEW c \in Clients, ServerInterfaceWrapper(c) PROVE FitAnswers'
    BY <1>0, <1>2, ZenonT(40) DEF Types, Routed, FitAnswers,
       ServerInterfaceWrapper, refuseUnbound, enterChain
<1>3. ASSUME NEW c \in Clients, RateLimit(c) PROVE FitAnswers'
  <2>1. \/ \E ans : /\ pc' = [pc EXCEPT ![c] = "answered"]
                    /\ result' = [result EXCEPT ![c] = "none"]
                    /\ answer' = [answer EXCEPT ![c] = ans]
        \/ /\ pc' = [pc EXCEPT ![c] = "handling"]
           /\ UNCHANGED <<result, answer>>
      BY <1>3 DEF RateLimit, finishWith
  <2>2. UNCHANGED call
      BY <1>3 DEF RateLimit
  <2> QED BY <1>0, <2>1, <2>2 DEF Types, FitAnswers
<1>4. ASSUME NEW c \in Clients, recoverPanic(c) PROVE FitAnswers'
  <2>1. Fits(call[c].op, "panic", 500)
      BY DEF Fits, CallersFault, ProvidersFault, FailureCodes
  <2>2. /\ pc' = [pc EXCEPT ![c] = "answered"]
        /\ result' = [result EXCEPT ![c] = "panic"]
        /\ answer' = [answer EXCEPT ![c].status = 500]
        /\ UNCHANGED call
      BY <1>4 DEF recoverPanic
  <2> QED BY <1>0, <2>1, <2>2 DEF Types, FitAnswers
<1>5. ASSUME NEW c \in Clients, healthHandler(c) PROVE FitAnswers'
    BY <1>0, <1>5 DEF Types, FitAnswers, healthHandler, finishWith
<1>6. ASSUME NEW c \in Clients, Create(c) PROVE FitAnswers'
  <2>1. call[c].op = "CreateEvaluation" /\ UNCHANGED call
      BY <1>6 DEF Create
  <2>2. CASE \E res \in {"ok"} \cup CoreErrors(call[c].op) \cup FailureCodes :
               finish(c, res)
      BY <1>1, <2>1, <2>2
  <2>3. CASE /\ pc' = [pc EXCEPT ![c] = "deciding"]
             /\ UNCHANGED <<inFlight, result, answer, completion>>
      BY <1>0, <2>1, <2>3 DEF Types, FitAnswers
  <2> QED BY <1>6, <2>2, <2>3 DEF Create
<1>7. ASSUME NEW c \in Clients, persist(c) PROVE FitAnswers'
  <2>1. call[c].op = "CreateEvaluation" /\ UNCHANGED call
      BY <1>0, <1>7 DEF Routed, persist
  <2>2. {"validation", "canceled", "other"} \subseteq CoreErrors(call[c].op)
      BY <2>1 DEF CoreErrors
  <2>3. \E res \in {"ok"} \cup CoreErrors(call[c].op) \cup FailureCodes :
          finish(c, res)
      BY <1>7, <2>2 DEF persist
  <2> QED BY <1>1, <2>1, <2>3
<1>8. ASSUME NEW c \in Clients, callCore(c) PROVE FitAnswers'
    BY <1>1, <1>8 DEF callCore
<1>9. ASSUME NEW c \in Clients, List(c) PROVE FitAnswers'
  <2>1. call[c].op = "ListEvaluations" /\ UNCHANGED call
      BY <1>9 DEF List
  <2>2. CASE \E res \in CoreErrors(call[c].op) : finish(c, res)
      BY <1>1, <2>1, <2>2
  <2>3. CASE /\ pc' = [pc EXCEPT ![c] = "probing"]
             /\ UNCHANGED <<inFlight, result, answer, completion>>
      BY <1>0, <2>1, <2>3 DEF Types, FitAnswers
  <2> QED BY <1>9, <2>1, <2>2, <2>3 DEF List
<1>10. ASSUME NEW c \in Clients, probe(c) PROVE FitAnswers'
  <2>1. call[c].op = "ListEvaluations" /\ UNCHANGED call
      BY <1>0, <1>10 DEF Routed, probe
  <2>2. \E res \in {"ok"} \cup CoreErrors(call[c].op) : finish(c, res)
      BY <1>10, <2>1 DEF probe
  <2> QED BY <1>1, <2>1, <2>2
<1>11. ASSUME NEW c \in Clients, receive(c) PROVE FitAnswers'
    BY <1>0, <1>11 DEF Types, FitAnswers, receive
<1>12. CASE UNCHANGED local
    BY <1>0, <1>12 DEF FitAnswers
<1> QED
    BY <1>2, <1>3, <1>4, <1>5, <1>6, <1>7, <1>8, <1>9, <1>10, <1>11, <1>12
    DEF Next, Serve, vars, toolPanics, expireEvaluations, Tick

-----------------------------------------------------------------------------
(***************************************************************************)
(* Gauges.                                                                 *)
(***************************************************************************)

\* The calls under way are finitely many.
LEMMA FinitelyMany ==
    IsFiniteSet(UnderWay) /\ IsFiniteSet(InTools)
    BY TransportAssumption, FS_Subset DEF UnderWay, InTools

\* A call that leaves its handler gives back what it took.
LEMMA Leaves ==
    ASSUME Inv, alive, NEW c \in Clients,
           pc[c] \in {"handling", "deciding", "probing"},
           pc' = [pc EXCEPT ![c] = "answered"],
           UNCHANGED call,
           inFlight' = Released(c)
    PROVE  Gauges'
<1>0. Types /\ Routed /\ Gauges
    BY DEF Inv
<1>1. UnderWay' = UnderWay \ {c} /\ c \in UnderWay
    BY <1>0 DEF Types, UnderWay
<1>2. InTools' = InTools \ {c}
    BY <1>0 DEF Types, InTools
<1>3. call[c].surface = "mcp" <=> c \in InTools
  <2>1. call[c].op = "ListEvaluations" => call[c].surface # "mcp"
      BY <1>0, NoToolLists DEF Types
  <2> QED BY <1>0, <2>1 DEF Routed, InTools
<1>4. Cardinality(UnderWay') = Cardinality(UnderWay) - 1
    BY <1>1, FinitelyMany, FS_RemoveElement
<1>5. Cardinality(InTools') =
        Cardinality(InTools) - (IF call[c].surface = "mcp" THEN 1 ELSE 0)
    BY <1>2, <1>3, FinitelyMany, FS_RemoveElement, FS_CardinalityType
<1> QED BY <1>0, <1>4, <1>5 DEF Types, Gauges, Released

\* Every step keeps the gauges.
LEMMA GaugeStep == Inv /\ [Next]_vars => Gauges'
<1> SUFFICES ASSUME Inv, [Next]_vars PROVE Gauges'
    OBVIOUS
<1>0. Types /\ Routed /\ Gauges
    BY DEF Inv
<1>1. ASSUME NEW c \in Clients, NEW res, finish(c, res), UNCHANGED call, alive,
             pc[c] \in {"handling", "deciding", "probing"}
      PROVE  Gauges'
    BY <1>1, Leaves DEF finish, finishWith
<1>2. ASSUME NEW c \in Clients, ServerInterfaceWrapper(c) PROVE Gauges'
  <2> PICK k \in traffic[c] : refuseUnbound(c, k) \/ enterChain(c, k)
      BY <1>2 DEF ServerInterfaceWrapper
  <2>1. alive
      BY <1>2 DEF ServerInterfaceWrapper
  <2>2. CASE refuseUnbound(c, k)
    <3>1. UnderWay' = UnderWay /\ InTools' = InTools
        BY <1>0, <2>2 DEF Types, refuseUnbound, UnderWay, InTools
    <3> QED BY <1>0, <2>1, <2>2, <3>1 DEF refuseUnbound, Gauges
  <2>3. CASE enterChain(c, k)
    <3>1. UnderWay' = UnderWay \cup {c} /\ c \notin UnderWay
        BY <1>0, <2>3 DEF Types, enterChain, UnderWay
    <3>2. InTools' = InTools
        BY <1>0, <2>3 DEF Types, enterChain, InTools
    <3>3. Cardinality(UnderWay') = Cardinality(UnderWay) + 1
        BY <3>1, FinitelyMany, FS_AddElement
    <3> QED BY <1>0, <2>1, <2>3, <3>2, <3>3 DEF Types, enterChain, Gauges
  <2> QED BY <2>2, <2>3
<1>3. ASSUME NEW c \in Clients, RateLimit(c) PROVE Gauges'
  <2>1. alive /\ pc[c] = "limited" /\ UNCHANGED call
      BY <1>3 DEF RateLimit
  <2>2. CASE /\ pc' = [pc EXCEPT ![c] = "answered"]
             /\ inFlight' = [inFlight EXCEPT !.http = @ - 1]
    <3>1. UnderWay' = UnderWay \ {c} /\ c \in UnderWay
        BY <1>0, <2>1, <2>2 DEF Types, UnderWay
    <3>2. InTools' = InTools
        BY <1>0, <2>1, <2>2 DEF Types, InTools
    <3>3. Cardinality(UnderWay') = Cardinality(UnderWay) - 1
        BY <3>1, FinitelyMany, FS_RemoveElement
    <3> QED BY <1>0, <2>1, <2>2, <3>2, <3>3 DEF Types, Gauges
  <2>3. CASE /\ pc' = [pc EXCEPT ![c] = "handling"]
             /\ inFlight' = [inFlight EXCEPT
                              !.mcp = IF call[c].surface = "mcp"
                                      THEN @ + 1 ELSE @]
    <3>1. UnderWay' = UnderWay
        BY <1>0, <2>1, <2>3 DEF Types, UnderWay
    <3>2. CASE call[c].surface = "mcp"
      <4>1. InTools' = InTools \cup {c} /\ c \notin InTools
          BY <1>0, <2>1, <2>3, <3>2 DEF Types, InTools
      <4>2. Cardinality(InTools') = Cardinality(InTools) + 1
          BY <4>1, FinitelyMany, FS_AddElement
      <4> QED BY <1>0, <2>1, <2>3, <3>1, <3>2, <4>2 DEF Types, Gauges
    <3>3. CASE call[c].surface # "mcp"
      <4>1. InTools' = InTools
          BY <1>0, <2>1, <2>3, <3>3 DEF Types, InTools
      <4> QED BY <1>0, <2>1, <2>3, <3>1, <3>3, <4>1 DEF Types, Gauges
    <3> QED BY <3>2, <3>3
  <2> QED BY <1>3, <2>2, <2>3 DEF RateLimit, finishWith
<1>4. ASSUME NEW c \in Clients, recoverPanic(c) PROVE Gauges'
    BY <1>4, Leaves DEF recoverPanic
<1>5. ASSUME NEW c \in Clients, toolPanics(c) PROVE Gauges'
    BY <1>5 DEF toolPanics, Gauges
<1>6. ASSUME NEW c \in Clients, healthHandler(c) PROVE Gauges'
    BY <1>6, Leaves DEF healthHandler, finishWith
<1>7. ASSUME NEW c \in Clients, Create(c) PROVE Gauges'
  <2>1. CASE /\ pc' = [pc EXCEPT ![c] = "deciding"]
             /\ UNCHANGED <<inFlight, result, answer, completion>>
    <3>1. UnderWay' = UnderWay /\ InTools' = InTools
        BY <1>0, <1>7, <2>1 DEF Types, Create, UnderWay, InTools
    <3> QED BY <1>0, <1>7, <2>1, <3>1 DEF Create, Gauges
  <2> QED BY <1>1, <1>7, <2>1 DEF Create
<1>8. ASSUME NEW c \in Clients, persist(c) \/ callCore(c) \/ probe(c)
      PROVE  Gauges'
    BY <1>1, <1>8 DEF persist, callCore, probe
<1>9. ASSUME NEW c \in Clients, List(c) PROVE Gauges'
  <2>1. CASE /\ pc' = [pc EXCEPT ![c] = "probing"]
             /\ UNCHANGED <<inFlight, result, answer, completion>>
    <3>1. call[c].surface # "mcp"
        BY <1>0, <1>9, NoToolLists DEF Types, List
    <3>2. UnderWay' = UnderWay /\ InTools' = InTools
        BY <1>0, <1>9, <2>1, <3>1 DEF Types, List, UnderWay, InTools
    <3> QED BY <1>0, <1>9, <2>1, <3>2 DEF List, Gauges
  <2> QED BY <1>1, <1>9, <2>1 DEF List
<1>10. ASSUME NEW c \in Clients, receive(c) PROVE Gauges'
  <2>1. UnderWay' = UnderWay /\ InTools' = InTools
      BY <1>0, <1>10 DEF Types, receive, UnderWay, InTools, NoCall
  <2> QED BY <1>0, <1>10, <2>1 DEF receive, Gauges
<1>11. CASE UNCHANGED <<alive, inFlight, pc, call>>
    BY <1>0, <1>11 DEF Gauges, UnderWay, InTools
<1> QED
    BY <1>2, <1>3, <1>4, <1>5, <1>6, <1>7, <1>8, <1>9, <1>10, <1>11
    DEF Next, Serve, vars, expireEvaluations, Tick

-----------------------------------------------------------------------------
(***************************************************************************)
(* The walk over the pages.                                                *)
(***************************************************************************)

\* A place is a number, and more rows only push a row back.
LEMMA PlaceGrows ==
    ASSUME NEW S, NEW T, IsFiniteSet(T), S \subseteq T, NEW e
    PROVE  /\ Place(e, S) \in Nat
           /\ Place(e, T) \in Nat
           /\ Place(e, S) <= Place(e, T)
<1> DEFINE A == {f \in S : Ahead(f, e)}
           B == {f \in T : Ahead(f, e)}
<1>1. IsFiniteSet(B) /\ A \subseteq B
    BY FS_Subset
<1>2. IsFiniteSet(A) /\ Cardinality(A) <= Cardinality(B)
    BY <1>1, FS_Subset
<1>3. Cardinality(A) \in Nat /\ Cardinality(B) \in Nat
    BY <1>1, <1>2, FS_CardinalityType
<1> QED BY <1>2, <1>3 DEF Place

\* Retention takes no row from ahead of one that is not aged.
LEMMA AgedComesLast ==
    ASSUME Types, NEW e \in Rows, NEW f \in Rows, ~Aged(e), Aged(f)
    PROVE  ~Ahead(f, e)
    BY TransportAssumption DEF Types, Rows, Aged, Ahead

\* The order of the table is a strict one, and total over different IDs.
LEMMA AheadOrders ==
    ASSUME NEW e \in Rows, NEW f \in Rows, NEW g \in Rows
    PROVE  /\ ~Ahead(e, e)
           /\ Ahead(g, f) /\ Ahead(f, e) => Ahead(g, e)
           /\ e.id # f.id => Ahead(e, f) \/ Ahead(f, e)
<1>1. /\ e.id \in Nat /\ f.id \in Nat /\ g.id \in Nat
      /\ e.at \in Nat /\ f.at \in Nat /\ g.at \in Nat
  <2>1. \A r \in Rows : r.id \in Ids /\ r.at \in 0 .. MaxTime
      BY DEF Rows
  <2>2. Ids \subseteq Nat /\ MaxTime \in Nat
      BY TransportAssumption
  <2>3. e.id \in Ids /\ f.id \in Ids /\ g.id \in Ids
      BY <2>1
  <2>4. /\ e.at \in 0 .. MaxTime /\ f.at \in 0 .. MaxTime
        /\ g.at \in 0 .. MaxTime
      BY <2>1
  <2>5. e.id \in Nat /\ f.id \in Nat /\ g.id \in Nat
      BY <2>2, <2>3
  <2>6. e.at \in Nat /\ f.at \in Nat /\ g.at \in Nat
      BY <2>2, <2>4
  <2> QED BY <2>5, <2>6
<1>2. ~Ahead(e, e)
    BY <1>1 DEF Ahead
<1>3. Ahead(g, f) /\ Ahead(f, e) => Ahead(g, e)
    BY <1>1 DEF Ahead
<1>4. e.id # f.id => Ahead(e, f) \/ Ahead(f, e)
    BY <1>1 DEF Ahead
<1> QED BY <1>2, <1>3, <1>4

\* Different rows of a table have different places, each below its size.
LEMMA PlacesDiffer ==
    ASSUME NEW T \in SUBSET Rows, IsFiniteSet(T),
           \A e, f \in T : e.id = f.id => e = f,
           NEW e \in T, NEW f \in T, Ahead(f, e)
    PROVE  Place(f, T) < Place(e, T)
<1> DEFINE A == {g \in T : Ahead(g, f)}
           B == {g \in T : Ahead(g, e)}
<1>1. A \subseteq B
    BY AheadOrders
<1>2. f \in B /\ f \notin A
    BY AheadOrders
<1>3. IsFiniteSet(A) /\ IsFiniteSet(B)
    BY FS_Subset
<1>4. Cardinality(A) <= Cardinality(B) /\ Cardinality(A) # Cardinality(B)
    BY <1>1, <1>2, <1>3, FS_Subset
<1>5. Cardinality(A) \in Nat /\ Cardinality(B) \in Nat
    BY <1>3, FS_CardinalityType
<1> QED BY <1>4, <1>5 DEF Place

\* The places of a table have no gaps: the probe for a further page finds a
\* row whenever some row comes after the page.
LEMMA NoGaps ==
    ASSUME NEW T \in SUBSET Rows, IsFiniteSet(T),
           \A e, f \in T : e.id = f.id => e = f,
           NEW n \in Nat, NEW e \in T, Place(e, T) >= n
    PROVE  \E f \in T : Place(f, T) = n
<1> DEFINE size == Cardinality(T)
           place == [f \in T |-> Place(f, T)]
<1>1. size \in Nat
    BY FS_CardinalityType
<1>2. ASSUME NEW f \in T PROVE Place(f, T) \in 0 .. (size - 1)
  <2> DEFINE A == {g \in T : Ahead(g, f)}
  <2>1. f \notin A
      BY AheadOrders
  <2>2. IsFiniteSet(A) /\ Cardinality(A) <= size /\ Cardinality(A) # size
      BY <2>1, FS_Subset
  <2>3. Cardinality(A) \in Nat
      BY <2>2, FS_CardinalityType
  <2>4. Place(f, T) = Cardinality(A)
      BY DEF Place
  <2> HIDE DEF A, size
  <2> QED BY <1>1, <2>2, <2>3, <2>4
<1>3. ASSUME NEW f \in T, NEW g \in T, f # g PROVE Place(f, T) # Place(g, T)
  <2>1. Ahead(f, g) \/ Ahead(g, f)
    <3>1. f.id # g.id
        BY <1>3
    <3> QED BY <3>1, AheadOrders
  <2>2. Place(f, T) < Place(g, T) \/ Place(g, T) < Place(f, T)
      BY <2>1, PlacesDiffer
  <2>3. Place(f, T) \in Int /\ Place(g, T) \in Int
      BY <1>2
  <2> QED BY <2>2, <2>3
<1>4. place \in Injection(T, 0 .. (size - 1))
    BY <1>2, <1>3 DEF Injection, IsInjective
<1>5. Cardinality(0 .. (size - 1)) = size /\ IsFiniteSet(0 .. (size - 1))
  <2>1. size - 1 \in Int
      BY <1>1
  <2>2. /\ IsFiniteSet(0 .. (size - 1))
        /\ Cardinality(0 .. (size - 1)) =
             IF 0 > size - 1 THEN 0 ELSE (size - 1) - 0 + 1
      BY <2>1, FS_Interval
  <2> HIDE DEF size
  <2> QED BY <1>1, <2>2
<1>6. place \in Surjection(T, 0 .. (size - 1))
    BY <1>4, <1>5, FS_Injection
<1>7. n \in 0 .. (size - 1)
    BY <1>1, <1>2
<1> QED BY <1>6, <1>7 DEF Surjection

\* A call that moves on without reading a page leaves the walk as it is.
LEMMA WalkStays ==
    ASSUME Inv, NEW c \in Clients, NEW x,
           pc[c] # "answered",
           pc' = [pc EXCEPT ![c] = x],
           c = Walker => x # "probing",
           c # Walker => UNCHANGED page,
           UNCHANGED <<now, rows, walk>>
    PROVE  WalkOn'
<1>0. Types /\ WalkOn /\ Walker \in Clients
    BY TransportAssumption DEF Inv
<1>1. CASE c = Walker
    BY <1>0, <1>1 DEF Types, WalkOn, Aged
<1>2. CASE c # Walker
    BY <1>0, <1>2 DEF Types, WalkOn, Aged
<1> QED BY <1>1, <1>2

\* The walk goes on over the pages, whatever becomes of the table.
LEMMA WalkStep == Inv /\ [Next]_vars => WalkOn'
<1> SUFFICES ASSUME Inv, [Next]_vars PROVE WalkOn'
    OBVIOUS
<1>0. /\ Types /\ Table /\ WalkOn
      /\ Walker \in Clients /\ PageLimit \in Nat
    BY TransportAssumption DEF Inv
<1>a. ASSUME NEW e PROVE Place(e, rows) \in Nat
    BY <1>0, PlaceGrows DEF Table
<1>1. ASSUME NEW c \in Clients, ServerInterfaceWrapper(c) PROVE WalkOn'
  <2>1. PICK k \in traffic[c] : refuseUnbound(c, k) \/ enterChain(c, k)
      BY <1>1 DEF ServerInterfaceWrapper
  <2>2. PICK x \in {"answered", "handling", "limited"} :
          pc' = [pc EXCEPT ![c] = x]
      BY <2>1 DEF refuseUnbound, enterChain
  <2>3. pc[c] = "idle" /\ UNCHANGED <<now, rows, reads>>
      BY <2>1 DEF refuseUnbound, enterChain
  <2> QED BY <2>2, <2>3, WalkStays
<1>2. ASSUME NEW c \in Clients, RateLimit(c) PROVE WalkOn'
    BY <1>2, WalkStays DEF RateLimit, finishWith
<1>3. ASSUME NEW c \in Clients, recoverPanic(c) PROVE WalkOn'
    BY <1>3, WalkStays DEF recoverPanic
<1>4. ASSUME NEW c \in Clients, healthHandler(c) \/ callCore(c) PROVE WalkOn'
    BY <1>4, WalkStays DEF healthHandler, callCore, finish, finishWith
<1>5. ASSUME NEW c \in Clients, Create(c) PROVE WalkOn'
    BY <1>5, WalkStays DEF Create, finish, finishWith
<1>6. ASSUME NEW c \in Clients, persist(c) PROVE WalkOn'
  <2>1. /\ UNCHANGED <<now, page, walk>>
        /\ pc[c] = "deciding" /\ pc' = [pc EXCEPT ![c] = "answered"]
      BY <1>6 DEF persist, finish, finishWith
  <2>2. rows \subseteq rows' /\ IsFiniteSet(rows')
      BY <1>0, <1>6, TableStep, Commits DEF Inv, Table
  <2>3. \A e : /\ Place(e, rows') \in Nat
               /\ Place(e, rows) <= Place(e, rows')
      BY <2>2, PlaceGrows
  <2>4. /\ walk.offset \in Nat
        /\ walk.offset + PageLimit \in Nat
      BY <1>0 DEF Types
  <2>5. pc'[Walker] = "probing" => pc[Walker] = "probing"
      BY <1>0, <2>1 DEF Types
  <2>6. pc[Walker] = "answered" => pc'[Walker] = "answered"
      BY <1>0, <2>1 DEF Types
  <2>7. ASSUME NEW e \in walk.begun, ~Aged(e), e \notin walk.seen
        PROVE  /\ e \in rows'
               /\ ~walk.finished
               /\ Place(e, rows') >= walk.offset
               /\ pc'[Walker] = "probing" =>
                    \/ e \in page
                    \/ Place(e, rows') >= walk.offset + PageLimit
    <3>1. /\ e \in rows /\ ~walk.finished /\ Place(e, rows) >= walk.offset
          /\ pc[Walker] = "probing" =>
               e \in page \/ Place(e, rows) >= walk.offset + PageLimit
        BY <1>0, <2>7 DEF WalkOn
    <3> QED BY <1>a, <2>2, <2>3, <2>4, <2>5, <3>1
  <2> QED BY <1>0, <2>1, <2>2, <2>6, <2>7 DEF WalkOn, Aged
<1>7. ASSUME NEW c \in Clients, List(c) PROVE WalkOn'
  <2>1. UNCHANGED <<now, rows>> /\ pc[c] = "handling"
      BY <1>7 DEF List
  <2>2. CASE \E res \in CoreErrors("ListEvaluations") :
               finish(c, res) /\ UNCHANGED reads
      BY <2>1, <2>2, WalkStays DEF finish, finishWith
  <2>3. CASE /\ c # Walker
             /\ pc' = [pc EXCEPT ![c] = "probing"]
             /\ UNCHANGED reads
      BY <2>1, <2>3, WalkStays
  <2>4. CASE /\ c = Walker
             /\ pc' = [pc EXCEPT ![c] = "probing"]
             /\ page' = Slice(rows, walk.offset, PageLimit)
             /\ walk' = IF walk.offset = 0
                        THEN [NewWalk EXCEPT !.begun = rows] ELSE walk
    <3>1. ~walk.finished /\ pc'[Walker] = "probing"
        BY <1>0, <2>1, <2>4 DEF Types, WalkOn
    <3>2. walk'.offset = walk.offset /\ ~walk'.finished
        BY <2>4, <3>1 DEF NewWalk
    <3>3. ASSUME NEW e \in rows, Place(e, rows) >= walk.offset
          PROVE  e \in page' \/ Place(e, rows) >= walk.offset + PageLimit
      <4>1. walk.offset + PageLimit \in Nat
          BY <1>0 DEF Types
      <4> QED BY <1>a, <2>4, <3>3, <4>1 DEF Slice
    <3>4. ASSUME NEW e \in walk'.begun, ~Aged(e)
          PROVE  /\ e \in rows
                 /\ e \in walk'.seen \/ Place(e, rows) >= walk.offset
      <4>1. CASE walk.offset = 0
          BY <1>a, <2>4, <3>4, <4>1 DEF NewWalk
      <4>2. CASE walk.offset # 0
          BY <1>0, <2>4, <3>4, <4>2 DEF WalkOn
      <4> QED BY <4>1, <4>2
    <3>5. ASSUME NEW e \in walk'.begun, ~Aged(e)'
          PROVE  /\ e \in rows'
                 /\ \/ e \in walk'.seen
                    \/ /\ Place(e, rows') >= walk'.offset
                       /\ \/ e \in page'
                          \/ Place(e, rows') >= walk'.offset + PageLimit
      <4>1. ~Aged(e)
          BY <2>1, <3>5 DEF Aged
      <4> QED BY <2>1, <3>2, <3>3, <3>4, <3>5, <4>1
    <3> QED BY <3>1, <3>2, <3>5 DEF WalkOn
  <2> QED BY <1>7, <2>2, <2>3, <2>4 DEF List
<1>8. ASSUME NEW c \in Clients, probe(c) PROVE WalkOn'
  <2>1. /\ UNCHANGED <<now, rows>> /\ pc[c] = "probing"
        /\ page' = IF c = Walker THEN {} ELSE page
        /\ pc' = [pc EXCEPT ![c] = "answered"]
      BY <1>8 DEF probe, finish, finishWith
  <2>2. CASE UNCHANGED walk
      BY <2>1, <2>2, WalkStays
  <2> DEFINE more == hasMore(rows, walk.offset)
  <2>3. CASE c = Walker /\ walk' = [walk EXCEPT
               !.seen = @ \cup page,
               !.offset = IF more THEN @ + PageLimit ELSE 0,
               !.finished = ~more]
    <3>1. /\ walk'.begun = walk.begun /\ walk'.seen = walk.seen \cup page
          /\ walk'.offset = IF more THEN walk.offset + PageLimit ELSE 0
          /\ walk'.finished = ~more
        BY <1>0, <2>3 DEF Types
    <3>2. pc'[Walker] = "answered" /\ pc[Walker] = "probing"
        BY <1>0, <2>1, <2>3 DEF Types
    <3>3. ASSUME NEW e \in walk.begun, ~Aged(e)
          PROVE  /\ e \in rows
                 /\ \/ e \in walk'.seen
                    \/ Place(e, rows) >= walk.offset + PageLimit
        BY <1>0, <3>1, <3>2, <3>3 DEF WalkOn
    <3>4. ASSUME NEW e \in rows, Place(e, rows) >= walk.offset + PageLimit
          PROVE  more
      <4>1. walk.offset + PageLimit \in Nat /\ rows \in SUBSET Rows
          BY <1>0 DEF Types
      <4>2. PICK f \in rows : Place(f, rows) = walk.offset + PageLimit
          BY <1>0, <3>4, <4>1, NoGaps DEF Table
      <4> QED BY <4>1, <4>2 DEF hasMore, Slice
    <3> HIDE DEF more
    <3>5. ASSUME NEW e \in walk'.begun, ~Aged(e)'
          PROVE  /\ e \in rows'
                 /\ \/ e \in walk'.seen
                    \/ ~walk'.finished /\ Place(e, rows') >= walk'.offset
      <4>1. ~Aged(e) /\ e \in walk.begun
          BY <2>1, <3>1, <3>5 DEF Aged
      <4>2. CASE e \in walk'.seen
          BY <2>1, <3>3, <4>1, <4>2
      <4>3. CASE e \notin walk'.seen
        <5>1. e \in rows /\ Place(e, rows) >= walk.offset + PageLimit
            BY <3>3, <4>1, <4>3
        <5>2. more
            BY <3>4, <5>1
        <5> QED BY <2>1, <3>1, <5>1, <5>2
      <4> QED BY <4>2, <4>3
    <3> QED BY <3>2, <3>5 DEF WalkOn
  <2> QED BY <1>8, <2>2, <2>3 DEF probe
<1>9. ASSUME NEW c \in Clients, receive(c) PROVE WalkOn'
  <2>1. /\ UNCHANGED <<now, rows, page>>
        /\ pc[c] = "answered" /\ pc' = [pc EXCEPT ![c] = "idle"]
        /\ walk' = IF c = Walker /\ walk.finished THEN NewWalk ELSE walk
      BY <1>9 DEF receive
  <2>2. CASE walk' = NewWalk
      BY <2>2 DEF WalkOn, NewWalk
  <2>3. CASE walk' = walk /\ ~(c = Walker /\ walk.finished)
    <3>1. /\ walk.finished => pc'[Walker] = "answered"
          /\ pc'[Walker] = "probing" => pc[Walker] = "probing"
        BY <1>0, <2>1, <2>3 DEF Types, WalkOn
    <3> QED BY <1>0, <2>1, <2>3, <3>1 DEF WalkOn, Aged
  <2> QED BY <2>1, <2>2, <2>3
<1>10. CASE expireEvaluations
  <2>1. PICK f \in rows : Aged(f) /\ rows' = rows \ {f}
      BY <1>10 DEF expireEvaluations
  <2>2. UNCHANGED <<now, pc, page, walk>>
      BY <1>10 DEF expireEvaluations
  <2>3. ASSUME NEW e \in rows, ~Aged(e)
        PROVE  e \in rows' /\ Place(e, rows') = Place(e, rows)
    <3>1. ~Ahead(f, e)
        BY <1>0, <2>1, <2>3, AgedComesLast DEF Types
    <3>2. {g \in rows' : Ahead(g, e)} = {g \in rows : Ahead(g, e)}
        BY <2>1, <3>1
    <3> QED BY <2>1, <2>3, <3>2 DEF Place
  <2> QED BY <1>0, <2>2, <2>3 DEF WalkOn, Aged
<1>11. CASE Tick
  <2>1. now' = now + 1 /\ UNCHANGED <<rows, pc, page, walk>>
      BY <1>11 DEF Tick
  <2>2. ASSUME NEW e \in walk.begun, Aged(e) PROVE Aged(e)'
      BY <1>0, <2>1, <2>2, TransportAssumption DEF Types, Rows, Aged
  <2> QED BY <1>0, <2>1, <2>2 DEF WalkOn
<1>12. CASE UNCHANGED <<now, rows, pc, page, walk>>
    BY <1>0, <1>12 DEF WalkOn, Aged
<1> QED
    BY <1>1, <1>2, <1>3, <1>4, <1>5, <1>6, <1>7, <1>8, <1>9, <1>10, <1>11,
       <1>12 DEF Next, Serve, vars, toolPanics

-----------------------------------------------------------------------------
(***************************************************************************)
(* The theorems.                                                           *)
(***************************************************************************)

\* The listener starts in a state of the invariant.
LEMMA InitInv == Init => Inv
<1> SUFFICES ASSUME Init PROVE Inv
    OBVIOUS
<1>1. Types
  <2>1. now \in 0 .. MaxTime /\ stamp \in [Clients -> 0 .. MaxTime]
      BY TransportAssumption DEF Init
  <2>2. /\ bucket \in [Limited -> Nat] /\ admitted \in [Limited -> Nat]
        /\ inFlight \in [http: Int, mcp: Int]
      BY TransportAssumption DEF Init
  <2>3. /\ pc \in [Clients -> Steps] /\ call \in [Clients -> AllCalls]
        /\ result \in [Clients -> Results]
      BY NoCallIsACall DEF Init, Steps, Results
  <2>4. answer \in [Clients -> [status: Nat, isError: BOOLEAN]]
      BY DEF Init, NoAnswer
  <2>5. /\ rows \in SUBSET Rows /\ page \in SUBSET Rows
        /\ walk \in [offset: Nat, begun: SUBSET Rows, seen: SUBSET Rows,
                     finished: BOOLEAN]
      BY TransportAssumption DEF Init, NewWalk
  <2> QED BY <2>1, <2>2, <2>3, <2>4, <2>5 DEF Init, Types
<1>2. Routed
    BY DEF Init, Routed
<1>3. Marks
    BY DEF Init, Marks
<1>4. Tokens
  <2>1. \A t \in 0..now : t = 0 /\ RequestsPerTick * (now - t) = 0
      BY TransportAssumption DEF Init
  <2>2. RateLimitBurst \in Nat /\ MaxTime \in Nat /\ now = 0
      BY TransportAssumption DEF Init
  <2>3. \A s \in Limited :
          bucket[s] = RateLimitBurst /\ admitted[s] = 0 /\ mark[s][0] = 0
      BY <2>2 DEF Init
  <2> QED BY <2>1, <2>2, <2>3 DEF Tokens
<1>5. Table
    BY TransportAssumption DEF Init, Table
<1>6. WalkOn
    BY DEF Init, WalkOn, NewWalk
<1>7. FitAnswers
    BY DEF Init, FitAnswers
<1>8. Gauges
  <2>1. UnderWay = {} /\ InTools = {}
      BY DEF Init, UnderWay, InTools
  <2> QED BY <2>1, FS_EmptySet DEF Init, Gauges
<1> QED BY <1>1, <1>2, <1>3, <1>4, <1>5, <1>6, <1>7, <1>8 DEF Inv

\* Inv is inductive: every reachable state of the listener satisfies it.
THEOREM TransportInvariant == Spec => []Inv
<1>1. Inv /\ [Next]_vars => Inv'
    BY TypeStep, RoutedStep, MarksStep, TokensStep, TableStep, WalkStep,
       AnswerStep, GaugeStep DEF Inv
<1> QED BY <1>1, InitInv, PTL DEF Spec

\* RateLimiter: whatever races for a bucket, in no stretch of time does a
\* surface admit more than its burst and what that time puts back.
THEOREM EachLimiterHolds == Spec => []RateHoldsInEveryWindow
<1>1. Inv => RateHoldsInEveryWindow
  <2> SUFFICES ASSUME Inv, NEW s \in Limited, NEW t \in 0..now
               PROVE  admitted[s] <= mark[s][t] + RateLimitBurst
                                       + RequestsPerTick * (now - t)
      BY DEF RateHoldsInEveryWindow
  <2>1. /\ admitted[s] \in Nat /\ bucket[s] \in Nat /\ mark[s][t] \in Nat
        /\ RateLimitBurst \in Nat /\ RequestsPerTick \in Nat
        /\ now - t \in Nat
      BY TransportAssumption DEF Inv, Types, Marks
  <2> DEFINE since == RequestsPerTick * (now - t)
  <2>2. since \in Nat
      BY <2>1, TickTokens
  <2>3. admitted[s] + bucket[s] <= mark[s][t] + RateLimitBurst + since
      BY DEF Inv, Tokens
  <2> HIDE DEF since
  <2>4. admitted[s] <= mark[s][t] + RateLimitBurst + since
      BY <2>1, <2>2, <2>3
  <2> QED BY <2>4 DEF since
<1> QED BY <1>1, TransportInvariant, PTL

\* classify, recordedFailureStatus and the handlers: a REST answer tells
\* success from failure and whose failure it was.
THEOREM AnswersTellTheResult == Spec => []AnswerFitsTheResult
<1>1. Inv => AnswerFitsTheResult
    BY DEF Inv, FitAnswers, AnswerFitsTheResult, Fits
<1> QED BY <1>1, TransportInvariant, PTL

\* Metrics and the tools: no refusal, error or recovered panic leaks a unit of
\* an in-flight gauge.
THEOREM GaugesAreExact == Spec => []GaugesCountCalls
<1>1. Inv => GaugesCountCalls
    BY DEF Inv, Gauges, GaugesCountCalls, UnderWay, InTools
<1> QED BY <1>1, TransportInvariant, PTL

\* List: a walk by offsets until hasMore is false misses no row that was there
\* when it began and whose retention window is not over, whatever is inserted
\* or retired meanwhile, for pages, tables and windows of every size.
THEOREM WalkMissesNothing == Spec => []WalkSeesEveryRow
<1>1. Inv => WalkSeesEveryRow
    BY DEF Inv, WalkOn, WalkSeesEveryRow
<1> QED BY <1>1, TransportInvariant, PTL

=============================================================================
