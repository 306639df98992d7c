----------------------------- MODULE Transport -----------------------------
(***************************************************************************)
(* The public listener: the REST routes behind the generated wrappers and  *)
(* the middleware chain, the MCP endpoint behind the same chain with its   *)
(* own limiter, the probes, the handlers and tools over the core services, *)
(* the mapping of core results to answers, and the paged reads of the      *)
(* evaluations table.                                                      *)
(*                                                                         *)
(* A connection (Clients) carries one call at a time.  What only one       *)
(* goroutine can see is one step: a call is bound, enters the chain, and   *)
(* waits at the limiter; the limiter and the checks behind it are a second *)
(* step; the core call is one step, or two where it reads or writes the    *)
(* table at two moments (Create stamps its row before it asks the provider *)
(* and inserts it after, List reads a page and then probes past its end).  *)
(* The core's own behaviour is Evaluations and PolicyEngine; here a core   *)
(* call returns any result those operations can return.                    *)
(***************************************************************************)
EXTENDS Naturals, FiniteSets

CONSTANTS
    Clients,            \* connections, each carrying one call at a time
    Walker,             \* the one that walks the pages of GET /evaluations
    Traffics,           \* for each kind of load, the calls each client makes
    TokenRequired,      \* VIBECHECK_API_TOKEN is set
    RateLimitBurst,     \* capacity of a limiter's bucket
    RequestsPerTick,    \* what a tick of the clock puts back
    PageLimit,          \* the limit of the walk's pages
    Ids,                \* evaluation IDs: random, so in no order of time
    InitialRows,        \* what the table holds at the start
    EvaluationRetention,
    MaxTime

Surfaces == {"api", "mcp", "probe"}

Limited == {"api", "mcp"}

Operations ==
    [api   |-> {"CreateEvaluation", "ListEvaluations", "GetEvaluation",
                "SubmitFeedback", "ListPolicies", "GetPolicy",
                "ValidatePolicy"},
     mcp   |-> {"CreateEvaluation", "GetEvaluation", "SubmitFeedback",
                "ListPolicies", "GetPolicy", "ValidatePolicy"},
     probe |-> {"Health", "Ready"}]

\* What a call brings: parameters the binder can read, a bearer token, and a
\* body (for a list call, its limit and offset).
AllCalls ==
    {c \in [surface: Surfaces, op: UNION {Operations[s] : s \in Surfaces},
            bound: BOOLEAN, token: {"none", "wrong", "right"},
            body: {"none", "good", "bad", "large"}] :
        c.op \in Operations[c.surface]}

NoCall == [surface |-> "probe", op |-> "Health", bound |-> TRUE,
           token |-> "none", body |-> "none"]

\* What List goes by of an evaluation row: its ID and its CreatedAt.
Rows == [id: Ids, at: 0..MaxTime]

ASSUME TransportAssumption ==
    /\ IsFiniteSet(Clients)
    /\ Walker \in Clients
    /\ Traffics \subseteq [Clients -> SUBSET AllCalls]
    /\ \A t \in Traffics : \A c \in t[Walker] : c.op = "ListEvaluations"
    /\ TokenRequired \in BOOLEAN
    /\ RateLimitBurst \in Nat \ {0}
    /\ RequestsPerTick \in Nat
    /\ PageLimit \in Nat \ {0}
    /\ Ids \subseteq Nat
    /\ InitialRows \subseteq Rows
    /\ IsFiniteSet(InitialRows)
    /\ \A e, f \in InitialRows : e.id = f.id => e = f
    /\ EvaluationRetention \in Nat
    /\ MaxTime \in Nat

VARIABLES
    now,        \* the clock
    alive,      \* the process has not died
    traffic,    \* the load of this behaviour, fixed at the start
    bucket,     \* tokens left in each surface's limiter
    admitted,   \* calls each limiter has let through so far
    mark,       \* history: what "admitted" was when each tick began
    inFlight,   \* the HTTP and the MCP in-flight gauges
    pc,         \* where each client's call is
    call,       \* the call itself
    stamp,      \* CreatedAt of the row a create is working on
    result,     \* what the core returned
    answer,     \* what the client got: an HTTP status, and MCP's isError
    completion, \* the status in the access log and the request counter
    rows,       \* the evaluations table
    page,       \* the page a list call has read
    walk        \* the walk over the pages: where it is, what it has seen

process == <<now, alive, traffic>>
limiter == <<bucket, admitted, mark>>
local   == <<pc, call, stamp, result, answer, completion>>
reads   == <<page, walk>>
vars    == <<process, limiter, inFlight, local, rows, reads>>

NoAnswer == [status |-> 0, isError |-> FALSE]

\* "begun" is what was in the table when the walk read its first page.
NewWalk == [offset |-> 0, begun |-> {}, seen |-> {}, finished |-> FALSE]

Errors ==
    {"conflict", "selection", "inline_disabled", "not_found", "validation",
     "policy_too_large", "policy_invalid", "canceled", "timeout",
     "rate_limited", "not_authenticated", "unavailable", "protocol", "other"}

FailureCodes ==
    {"PROVIDER_AUTH_FAILED", "PROVIDER_RATE_LIMITED", "PROVIDER_UNAVAILABLE",
     "PROVIDER_TIMEOUT", "PROVIDER_PROTOCOL_ERROR",
     "PROVIDER_REJECTED_REQUEST", "INPUT_VALIDATION_FAILED"}

Results == {"none", "ok", "panic"} \cup Errors \cup FailureCodes

-----------------------------------------------------------------------------
(***************************************************************************)
(* Core results to answers.                                                *)
(***************************************************************************)

\* The errors each core operation can return.  Create records a provider's
\* failure instead of returning it; what is left is the caller's doing, a
\* request that went away, or the database.
CoreErrors(op) ==
    CASE op = "CreateEvaluation" ->
           {"conflict", "selection", "inline_disabled", "not_found",
            "validation", "policy_too_large", "policy_invalid", "canceled",
            "other"}
      [] op = "GetEvaluation"   -> {"not_found", "canceled", "other"}
      [] op = "SubmitFeedback"  ->
           {"validation", "not_found", "canceled", "other"}
      [] op = "ListEvaluations" -> {"canceled", "other"}
      [] op = "GetPolicy"       -> {"not_found"}
      [] op = "ValidatePolicy"  -> {"validation"}
      [] OTHER                  -> {}

classifyProvider(err) ==
    CASE err = "canceled"          -> 499
      [] err = "timeout"           -> 504
      [] err = "rate_limited"      -> 429
      [] err = "not_authenticated" -> 503
      [] err = "unavailable"       -> 503
      [] err = "protocol"          -> 502
      [] OTHER                     -> 500

classify(err) ==
    CASE err = "conflict"         -> 409
      [] err = "selection"        -> 400
      [] err = "inline_disabled"  -> 400
      [] err = "not_found"        -> 404
      [] err = "validation"       -> 422
      [] err = "policy_too_large" -> 413
      [] OTHER                    -> classifyProvider(err)

recordedFailureStatus(code) ==
    CASE code = "PROVIDER_TIMEOUT"        -> 504
      [] code = "PROVIDER_RATE_LIMITED"   -> 503
      [] code = "PROVIDER_UNAVAILABLE"    -> 503
      [] code = "INPUT_VALIDATION_FAILED" -> 422
      [] OTHER                            -> 502

\* A recorded failure passed on as it is.
createEvaluationOfAnyRow(res) ==
    IF res \in Errors THEN classify(res) ELSE 201

\* The statuses the contract declares for a create: a request that the client
\* closed is a 400, every other one is passed on.
createEvaluation(res) ==
    LET mapped == IF res \in Errors THEN classify(res)
                  ELSE IF res \in FailureCodes THEN recordedFailureStatus(res)
                  ELSE 201
    IN  IF mapped = 499 THEN 400 ELSE mapped

\* An operation passes on the statuses its contract declares; any other
\* failure of it is a 500.
Declared ==
    [GetEvaluation   |-> {404},
     SubmitFeedback  |-> {404, 422},
     GetPolicy       |-> {404},
     ValidatePolicy  |-> {400, 413, 422},
     ListPolicies    |-> {},
     ListEvaluations |-> {}]

otherOperation(op, res) ==
    IF res = "ok" THEN IF op = "SubmitFeedback" THEN 201 ELSE 200
    ELSE IF classify(res) \notin Declared[op] THEN 500
    ELSE IF op = "ValidatePolicy" /\ classify(res) = 422 THEN 400
    ELSE classify(res)

\* What a handler answers; a tool answers 200 whatever came of the work, with
\* isError when the core returned an error.
respond(c, res) ==
    IF c.surface = "mcp"
    THEN [status |-> 200, isError |-> res \in Errors]
    ELSE [status |-> IF c.op = "CreateEvaluation" THEN createEvaluation(res)
                     ELSE otherOperation(c.op, res),
          isError |-> FALSE]

-----------------------------------------------------------------------------
(***************************************************************************)
(* The evaluations table, newest first with the ID as tiebreaker.          *)
(***************************************************************************)

Ahead(e, f) == e.at > f.at \/ (e.at = f.at /\ e.id > f.id)

Place(e, table) == Cardinality({f \in table : Ahead(f, e)})

\* Limit and Offset over the order of the table.
Slice(table, offset, limit) ==
    {e \in table : Place(e, table) >= offset
                   /\ Place(e, table) < offset + limit}

\* The probe one row too far.
hasMoreBeyondNext(table, offset) ==
    Slice(table, offset + PageLimit + 1, 1) # {}

\* The probe for a further page.
hasMore(table, offset) == Slice(table, offset + PageLimit, 1) # {}

\* Its window is over; a zero window keeps every row.
Aged(e) == EvaluationRetention > 0 /\ e.at + EvaluationRetention < now

-----------------------------------------------------------------------------
(***************************************************************************)
(* The way in.                                                             *)
(***************************************************************************)

Init ==
    /\ now = 0
    /\ alive = TRUE
    /\ traffic \in Traffics
    /\ bucket = [s \in Limited |-> RateLimitBurst]
    /\ admitted = [s \in Limited |-> 0]
    /\ mark = [s \in Limited |-> [t \in 0..MaxTime |-> 0]]
    /\ inFlight = [http |-> 0, mcp |-> 0]
    /\ pc = [c \in Clients |-> "idle"]
    /\ call = [c \in Clients |-> NoCall]
    /\ stamp = [c \in Clients |-> 0]
    /\ result = [c \in Clients |-> "none"]
    /\ answer = [c \in Clients |-> NoAnswer]
    /\ completion = [c \in Clients |-> 0]
    /\ rows = InitialRows
    /\ page = {}
    /\ walk = NewWalk

\* The generated wrapper of a route reads path, query and header parameters
\* before it applies the middlewares: what it cannot read is answered at once.
refuseUnbound(c, k) ==
    /\ pc[c] = "idle"
    /\ k.surface = "api"
    /\ ~k.bound
    /\ pc' = [pc EXCEPT ![c] = "answered"]
    /\ call' = [call EXCEPT ![c] = k]
    /\ answer' = [answer EXCEPT ![c].status = 400]
    /\ UNCHANGED <<process, limiter, inFlight, stamp, result, completion,
                   rows, reads>>

\* RequestID, Recovery, SecurityHeaders, AccessLog and Metrics, down to the
\* limiter; the probes have no limiter and go straight to their handler.
enterChain(c, k) ==
    /\ pc[c] = "idle"
    /\ k.surface = "api" => k.bound
    /\ pc' = [pc EXCEPT ![c] =
                IF k.surface = "probe" THEN "handling" ELSE "limited"]
    /\ call' = [call EXCEPT ![c] = k]
    /\ inFlight' = [inFlight EXCEPT !.http = @ + 1]
    /\ UNCHANGED <<process, limiter, stamp, result, answer, completion, rows,
                   reads>>

ServerInterfaceWrapper(c) ==
    /\ alive
    /\ \E k \in traffic[c] : refuseUnbound(c, k) \/ enterChain(c, k)

BearerAuth(k) == TokenRequired => k.token = "right"

\* BodyLimit and strictJSONBodies, or the SDK's own reading of an MCP body, and
\* a list call's range check: the refusal of what a call brings, or 0.
strictJSONBodies(k) ==
    CASE k.body = "large" -> 413
      [] k.body = "bad"   -> 400
      [] OTHER            -> 0

\* The first refusal behind the limiter, or 0.
Refusal(k) == IF BearerAuth(k) THEN strictJSONBodies(k) ELSE 401

\* The answer goes out through Metrics and AccessLog.
finishWith(c, res, ans) ==
    /\ pc' = [pc EXCEPT ![c] = "answered"]
    /\ result' = [result EXCEPT ![c] = res]
    /\ answer' = [answer EXCEPT ![c] = ans]
    /\ completion' = [completion EXCEPT ![c] = ans.status]

\* A limiter of its own for every call.
AllowAlone(s) == TRUE

Allow(s) == bucket[s] > 0

\* One bucket for each surface, shared by all its calls.
RateLimit(c) ==
    LET s == call[c].surface
        refusal == IF Allow(s) THEN Refusal(call[c]) ELSE 429
    IN  /\ alive
        /\ pc[c] = "limited"
        /\ IF Allow(s)
           THEN /\ bucket' = [bucket EXCEPT ![s] = @ - 1]
                /\ admitted' = [admitted EXCEPT ![s] = @ + 1]
           ELSE UNCHANGED <<bucket, admitted>>
        /\ IF refusal # 0
           THEN /\ finishWith(c, "none", [NoAnswer EXCEPT !.status = refusal])
                /\ inFlight' = [inFlight EXCEPT !.http = @ - 1]
           ELSE /\ pc' = [pc EXCEPT ![c] = "handling"]
                /\ inFlight' = [inFlight EXCEPT
                                 !.mcp = IF s = "mcp" THEN @ + 1 ELSE @]
                /\ UNCHANGED <<result, answer, completion>>
        /\ UNCHANGED <<process, mark, call, stamp, rows, reads>>

-----------------------------------------------------------------------------
(***************************************************************************)
(* Handlers and tools.                                                     *)
(***************************************************************************)

\* A tool's Dec forgotten.
ReleasedHTTPOnly(c) == [inFlight EXCEPT !.http = @ - 1]

\* The gauges after a call has left its handler: the deferred Decs.
Released(c) ==
    [http |-> inFlight.http - 1,
     mcp  |-> inFlight.mcp - (IF call[c].surface = "mcp" THEN 1 ELSE 0)]

\* A handler panics: Recovery, outside Metrics and AccessLog, answers 500; the
\* deferred Dec runs, and neither the completion nor the count is written.
recoverPanic(c) ==
    /\ alive
    /\ pc[c] \in {"handling", "deciding", "probing"}
    /\ call[c].surface = "api"
    /\ pc' = [pc EXCEPT ![c] = "answered"]
    /\ result' = [result EXCEPT ![c] = "panic"]
    /\ answer' = [answer EXCEPT ![c].status = 500]
    /\ inFlight' = Released(c)
    /\ page' = IF c = Walker THEN {} ELSE page
    /\ UNCHANGED <<process, limiter, call, stamp, completion, rows, walk>>

\* A tool panics: the SDK runs it on a goroutine of its own, which nothing
\* recovers, and the process dies.
toolPanics(c) ==
    /\ alive
    /\ pc[c] \in {"handling", "deciding"}
    /\ call[c].surface = "mcp"
    /\ alive' = FALSE
    /\ UNCHANGED <<now, traffic, limiter, inFlight, local, rows, reads>>

finish(c, res) ==
    /\ finishWith(c, res, respond(call[c], res))
    /\ inFlight' = Released(c)

healthHandler(c) ==
    /\ alive
    /\ pc[c] = "handling"
    /\ call[c].surface = "probe"
    /\ \E status \in {200} \cup (IF call[c].op = "Ready" THEN {503} ELSE {}) :
         finishWith(c, "none", [NoAnswer EXCEPT !.status = status])
    /\ inFlight' = Released(c)
    /\ UNCHANGED <<process, limiter, call, stamp, rows, reads>>

\* Create resolves, checks and looks its key up: an error, the row of an
\* earlier call, or on to a decision, stamped now.
Create(c) ==
    /\ alive
    /\ pc[c] = "handling"
    /\ call[c].op = "CreateEvaluation"
    /\ \/ /\ \E res \in CoreErrors(call[c].op) : finish(c, res)
          /\ UNCHANGED stamp
       \/ /\ rows # {}
          /\ \E res \in {"ok"} \cup FailureCodes : finish(c, res)
          /\ UNCHANGED stamp
       \/ /\ pc' = [pc EXCEPT ![c] = "deciding"]
          /\ stamp' = [stamp EXCEPT ![c] = now]
          /\ UNCHANGED <<inFlight, result, answer, completion>>
    /\ UNCHANGED <<process, limiter, call, rows, reads>>

\* The decision is made, or a provider failure recorded, and the row is
\* inserted; or the call is cancelled, or the database fails.
persist(c) ==
    /\ alive
    /\ pc[c] = "deciding"
    /\ \/ \E res \in {"ok"} \cup FailureCodes :
            \E id \in Ids \ {e.id : e \in rows} :
              /\ rows' = rows \cup {[id |-> id, at |-> stamp[c]]}
              /\ finish(c, res)
       \/ /\ \E res \in {"validation", "canceled", "other"} : finish(c, res)
          /\ UNCHANGED rows
    /\ UNCHANGED <<process, limiter, call, stamp, reads>>

\* A single read or write of the core.  A tool parses the evaluation's ID
\* itself and fails on one that is no UUID.
callCore(c) ==
    LET op == call[c].op
    IN  /\ alive
        /\ pc[c] = "handling"
        /\ call[c].surface # "probe"
        /\ op \notin {"CreateEvaluation", "ListEvaluations"}
        /\ \E res \in {"ok"} \cup CoreErrors(op) :
             /\ op \in {"GetEvaluation", "SubmitFeedback"} /\ rows = {}
                  => res # "ok"
             /\ ~call[c].bound => res = "other"
             /\ finish(c, res)
        /\ UNCHANGED <<process, limiter, call, stamp, rows, reads>>

\* List reads its page.  The walk's first page fixes what it is to see.
List(c) ==
    /\ alive
    /\ pc[c] = "handling"
    /\ call[c].op = "ListEvaluations"
    /\ \/ /\ pc' = [pc EXCEPT ![c] = "probing"]
          /\ IF c = Walker
             THEN /\ page' = Slice(rows, walk.offset, PageLimit)
                  /\ walk' = IF walk.offset = 0
                             THEN [NewWalk EXCEPT !.begun = rows] ELSE walk
             ELSE UNCHANGED reads
          /\ UNCHANGED <<inFlight, result, answer, completion>>
       \/ /\ \E res \in CoreErrors("ListEvaluations") : finish(c, res)
          /\ UNCHANGED reads
    /\ UNCHANGED <<process, limiter, call, stamp, rows>>

\* List probes for a further page and answers; the walk goes on to the next
\* page when there is one.
probe(c) ==
    /\ alive
    /\ pc[c] = "probing"
    /\ \/ /\ finish(c, "ok")
          /\ IF c = Walker
             THEN LET more == hasMore(rows, walk.offset)
                  IN  walk' = [walk EXCEPT
                        !.seen = @ \cup page,
                        !.offset = IF more THEN @ + PageLimit ELSE 0,
                        !.finished = ~more]
             ELSE UNCHANGED walk
       \/ /\ \E res \in CoreErrors("ListEvaluations") : finish(c, res)
          /\ UNCHANGED walk
    /\ page' = IF c = Walker THEN {} ELSE page
    /\ UNCHANGED <<process, limiter, call, stamp, rows>>

\* The client reads its answer and may call again.
receive(c) ==
    /\ alive
    /\ pc[c] = "answered"
    /\ pc' = [pc EXCEPT ![c] = "idle"]
    /\ call' = [call EXCEPT ![c] = NoCall]
    /\ stamp' = [stamp EXCEPT ![c] = 0]
    /\ result' = [result EXCEPT ![c] = "none"]
    /\ answer' = [answer EXCEPT ![c] = NoAnswer]
    /\ completion' = [completion EXCEPT ![c] = 0]
    /\ walk' = IF c = Walker /\ walk.finished THEN NewWalk ELSE walk
    /\ UNCHANGED <<process, limiter, inFlight, rows, page>>

\* Retention takes aged rows in batches that no order prescribes.
expireEvaluations ==
    /\ alive
    /\ \E e \in rows : Aged(e) /\ rows' = rows \ {e}
    /\ UNCHANGED <<process, limiter, inFlight, local, reads>>

\* What a tick leaves in a bucket: never more than the burst.
Refilled(tokens) ==
    IF tokens + RequestsPerTick > RateLimitBurst
    THEN RateLimitBurst ELSE tokens + RequestsPerTick

\* Time passes and refills the buckets.
Tick ==
    /\ alive
    /\ now < MaxTime
    /\ now' = now + 1
    /\ bucket' = [s \in Limited |-> Refilled(bucket[s])]
    /\ mark' = [s \in Limited |-> [mark[s] EXCEPT ![now + 1] = admitted[s]]]
    /\ UNCHANGED <<alive, traffic, admitted, inFlight, local, rows, reads>>

Serve(c) ==
    \/ ServerInterfaceWrapper(c)
    \/ RateLimit(c)
    \/ recoverPanic(c)
    \/ toolPanics(c)
    \/ healthHandler(c)
    \/ Create(c)
    \/ persist(c)
    \/ callCore(c)
    \/ List(c)
    \/ probe(c)
    \/ receive(c)

Next == (\E c \in Clients : Serve(c)) \/ expireEvaluations \/ Tick

Spec == Init /\ [][Next]_vars

-----------------------------------------------------------------------------
(***************************************************************************)
(* Properties.                                                             *)
(***************************************************************************)

\* However many connections race for a limiter, whatever becomes of their
\* calls and however long it was left alone before, no stretch of time sees a
\* surface let through more than its burst and what that time puts back.  The
\* bound is of one surface: REST and MCP have a limiter each (RateLimiter), so
\* the two together may let through twice what the one bucket of
\* docs/security.md would.
RateHoldsInEveryWindow ==
    \A s \in Limited : \A t \in 0..now :
        admitted[s] <= mark[s][t] + RateLimitBurst + RequestsPerTick * (now - t)

CallersFault ==
    {"conflict", "selection", "inline_disabled", "not_found", "validation",
     "policy_too_large", "policy_invalid", "canceled",
     "INPUT_VALIDATION_FAILED"}

ProvidersFault == FailureCodes \ {"INPUT_VALIDATION_FAILED"}

\* The failures whose answer blames the wrong side: a read that the client
\* closed, and a create with an inline policy that does not compile, are both
\* a 500.
Misblamed(op, res) ==
    \/ res = "policy_invalid"
    \/ res = "canceled" /\ op # "CreateEvaluation"

\* A REST answer tells success from failure, and whose failure it was: 2xx
\* only for a core call that did what was asked (a recorded provider failure
\* comes back from Create without an error and must not be one), 4xx for what
\* the caller can mend, 502 to 504 for the provider, 500 for everything else.
AnswerFitsTheResult ==
    \A c \in Clients :
        LET res    == result[c]
            status == answer[c].status
        IN  pc[c] = "answered" /\ call[c].surface = "api" /\ res # "none" =>
              /\ status \in {200, 201} <=> res = "ok"
              /\ res \in CallersFault /\ ~Misblamed(call[c].op, res) =>
                   status \in 400..499
              /\ res \in ProvidersFault => status \in 502..504
              /\ res \in {"other", "panic"} => status = 500

\* The in-flight gauges count the calls under way, through every refusal,
\* error and recovered panic: no path leaks a unit of either.
GaugesCountCalls ==
    alive =>
      /\ inFlight.http =
           Cardinality({c \in Clients : pc[c] \notin {"idle", "answered"}})
      /\ inFlight.mcp =
           Cardinality({c \in Clients :
             call[c].surface = "mcp" /\ pc[c] \in {"handling", "deciding"}})

\* A client that walks the pages until hasMore is false has seen every row
\* that was there when it began and is there still, unless the row's retention
\* window is over by then: rows inserted meanwhile, even behind the page just
\* read, and rows retired between a page, its probe and the next page hide no
\* row that is to be kept.  (A row that is due, and still there, may be missed;
\* a row may be seen twice.)
WalkSeesEveryRow ==
    walk.finished =>
        \A e \in walk.begun \cap rows : Aged(e) \/ e \in walk.seen

=============================================================================
