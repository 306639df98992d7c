--------------------------- MODULE TypesafeClient ---------------------------
(***************************************************************************)
(* The client of the model provider (pkg/gotypesafe): calls of Evaluate    *)
(* and Models share a channel of concurrency slots; Evaluate retries       *)
(* transient failures with a growing back-off or after the pause the       *)
(* server asks for, under a limit on attempts and a ceiling on elapsed     *)
(* time; a caller may go away at any moment.                               *)
(*                                                                         *)
(* Time is counted per call, in ticks: how long its series has run, and    *)
(* what is left of the timer it waits for.  A timer is noticed up to Lag   *)
(* ticks late, as goroutines are scheduled when they are.  A caller that   *)
(* got its result, whatever it is, may call again.                         *)
(***************************************************************************)
EXTENDS Integers, FiniteSets

CONSTANTS
    Callers,            \* goroutines that call the client
    Concurrency,        \* Config.Concurrency
    MaxAttempts,        \* Config.MaxAttempts
    Timeout,            \* Config.Timeout, of one HTTP exchange
    BackoffBase,        \* Config.BackoffBase
    BackoffMax,         \* Config.BackoffMax
    MaxElapsed,         \* Config.MaxElapsed, of a series of attempts
    MaxRetryAfterWait,  \* the constant of config.go
    Millisecond,        \* in ticks
    Second,             \* in ticks
    HalfRange,          \* a time.Duration is in -HalfRange .. HalfRange - 1
    Overflowed,         \* what a float too large for it converts to
    Headers,            \* the pauses a response may ask for
    Lag                 \* how late a timer may be noticed

\* What withDefaults and validate leave of a configuration.
ASSUME ConfigAssumption ==
    /\ Concurrency \in Nat \ {0}
    /\ MaxAttempts \in Nat \ {0}
    /\ Timeout \in Nat \ {0}
    /\ BackoffBase \in Nat \ {0}
    /\ BackoffMax \in Nat \ {0}
    /\ BackoffBase <= BackoffMax
    /\ MaxElapsed \in Nat \ {0}
    /\ IsFiniteSet(Callers)

\* The 64-bit durations of the program.  Go leaves the conversion of a float
\* that does not fit to the platform.
ASSUME DurationAssumption ==
    /\ HalfRange \in Nat \ {0}
    /\ MaxRetryAfterWait \in 1 .. (HalfRange - 1)
    /\ Millisecond \in Nat \ {0}
    /\ Second \in Nat \ {0}
    /\ Overflowed \in {-HalfRange, HalfRange - 1}
    /\ Lag \in Nat

\* The headers of a response: retry-after-ms, and Retry-After as a number of
\* seconds or as a date so many ticks ahead.  Zero stands for a header that is
\* absent or does not parse.
ASSUME HeadersAssumption ==
    Headers \subseteq [millis : Int, form : {"seconds", "date"}, value : Int]

VARIABLES
    call,   \* what each caller is doing
    slots   \* the number of tokens in the channel c.slots

vars == <<call, slots>>

-----------------------------------------------------------------------------

Least(m, n) == IF m <= n THEN m ELSE n
Greatest(m, n) == IF m >= n THEN m ELSE n

(***************************************************************************)
(* Failures                                                                *)
(***************************************************************************)

\* The classes of error a call can end with, and those it may be retried for.
TransientClasses ==
    {"timeout", "unreachable", "rate_limited", "overloaded", "server_failed"}

FinalClasses ==
    {"cancelled", "unreadable", "unauthenticated", "denied", "rejected",
     "unexpected_status", "undecodable"}

\* asked and cancelled are history: the pause the response asked for, in full,
\* and whether the caller was gone by then.
Failures ==
    [class : TransientClasses \cup FinalClasses,
     retryable : BOOLEAN,
     retryAfter : Int,
     asked : Int,
     cancelled : BOOLEAN]

\* Multiplication of durations wraps around.
Wrap(n) == ((n + HalfRange) % (2 * HalfRange)) - HalfRange

\* The pause the headers ask for.
Asked(header) ==
    IF header.millis > 0 THEN header.millis * Millisecond
    ELSE IF header.form = "seconds" /\ header.value > 0
         THEN header.value * Second
    ELSE IF header.form = "date"
         THEN Least(Greatest(header.value, 0), HalfRange - 1)
    ELSE 0

\* The millisecond header first, then seconds, then a date; time.Until
\* saturates, the multiplications do not.
parseRetryAfter(header) == Wrap(Asked(header))

\* The request did not get a response.  A cancelled context wins over whatever
\* error the transport returned.
classifyTransport(ctxDone, err) ==
    LET class == IF ctxDone THEN "cancelled" ELSE err
    IN  [class |-> class,
         retryable |-> class \in {"timeout", "unreachable"},
         retryAfter |-> 0,
         asked |-> 0,
         cancelled |-> ctxDone]

\* The response has a status other than 2xx.
classifyStatus(ctxDone, class, header) ==
    [class |-> class,
     retryable |-> class \in {"rate_limited", "overloaded", "server_failed"},
     retryAfter |-> parseRetryAfter(header),
     asked |-> Asked(header),
     cancelled |-> ctxDone]

\* The body cannot be read, is too large, or is no valid answer.
bodyFailure(ctxDone, class) ==
    [class |-> class,
     retryable |-> FALSE,
     retryAfter |-> 0,
     asked |-> 0,
     cancelled |-> ctxDone]

StatusClasses ==
    {"unauthenticated", "denied", "rejected", "rate_limited", "overloaded",
     "server_failed", "unexpected_status"}

\* How a response to caller c may be of no use.
ResponseFailures(c) ==
    {classifyStatus(call[c].cancelled, class, header) :
        class \in StatusClasses, header \in Headers} \cup
    {bodyFailure(call[c].cancelled, class) :
        class \in {"unreadable", "undecodable"}}

\* How there may be no response.  The timeout of the HTTP client covers the
\* headers, where it is retryable, and the body, where it is not.
TransportFailures(c) ==
    {classifyTransport(call[c].cancelled, err) :
        err \in {"unreachable", "cancelled"} \cup
                IF call[c].timer <= 0 THEN {"timeout"} ELSE {}}

\* How an attempt of caller c may fail now.
AttemptFailures(c) ==
    TransportFailures(c) \cup IF call[c].sent THEN ResponseFailures(c) ELSE {}

-----------------------------------------------------------------------------
(***************************************************************************)
(* Calls                                                                   *)
(***************************************************************************)

NoFailure ==
    [class |-> "cancelled", retryable |-> FALSE, retryAfter |-> 0,
     asked |-> 0, cancelled |-> FALSE]

Kinds == {"evaluate", "models"}

\* sent tells whether the request of an attempt went out: net/http sends none
\* under a cancelled context.  owed is history: what is left of the pause a
\* server asked for.
Calls ==
    [at : {"idle", "slot", "attempt", "backoff"},
     kind : Kinds,
     number : Nat,
     elapsed : Nat,
     timer : Int,
     cancelled : BOOLEAN,
     sent : BOOLEAN,
     failure : Failures,
     owed : Int]

\* A call that has not started its series.
Fresh(where, kind) ==
    [at |-> where, kind |-> kind, number |-> 0, elapsed |-> 0, timer |-> 0,
     cancelled |-> FALSE, sent |-> FALSE, failure |-> NoFailure, owed |-> 0]

Init ==
    /\ call = [c \in Callers |-> Fresh("idle", "evaluate")]
    /\ slots = 0

Active(c) == call[c].at \in {"attempt", "backoff"}

\* A call returns before it has a slot.
Return(c) ==
    /\ call' = [call EXCEPT ![c] = Fresh("idle", "evaluate")]
    /\ UNCHANGED slots

\* A call returns and the deferred release takes its token out of the channel.
Finish(c) ==
    /\ call' = [call EXCEPT ![c] = Fresh("idle", "evaluate")]
    /\ slots' = slots - 1

\* Evaluate or Models is called with an API key and a request that buildRequest
\* accepts (any other call returns at once), and asks for a slot.
Begin(c, kind) ==
    /\ call[c].at = "idle"
    /\ call' = [call EXCEPT ![c] = Fresh("slot", kind)]
    /\ UNCHANGED slots

\* A mutant of the next definition: one token too many.
acquireSlotInclusive(c) ==
    /\ call[c].at = "slot"
    /\ slots <= Concurrency
    /\ call' = [call EXCEPT ![c].at = "attempt",
                            ![c].number = 1,
                            ![c].timer = Timeout,
                            ![c].sent = ~call[c].cancelled]
    /\ slots' = slots + 1

\* The channel takes a token and the series starts: startedAt, attempt 1.  A
\* select with both cases ready picks either, so also when cancelled.
acquireSlot(c) ==
    /\ call[c].at = "slot"
    /\ slots < Concurrency
    /\ call' = [call EXCEPT ![c].at = "attempt",
                            ![c].number = 1,
                            ![c].timer = Timeout,
                            ![c].sent = ~call[c].cancelled]
    /\ slots' = slots + 1

\* The caller goes away while it waits for a slot.
AbandonSlot(c) ==
    /\ call[c].at = "slot"
    /\ call[c].cancelled
    /\ Return(c)

\* The attempt is answered with a response that decodes.
Succeed(c) ==
    /\ call[c].at = "attempt"
    /\ call[c].sent
    /\ Finish(c)

\* Evaluate only: Models makes one attempt.
shouldRetry(c, f) ==
    /\ call[c].kind = "evaluate"
    /\ f.retryable
    /\ call[c].number < MaxAttempts
    /\ ~call[c].cancelled
    /\ call[c].elapsed < MaxElapsed

\* The exponential back-off before attempt number + 1.
Exponential(number) ==
    LET delay == BackoffBase * 2^(number - 1)
    IN  IF delay < HalfRange THEN delay ELSE Overflowed

\* A mutant of the next definition: the back-off's own maximum applies to the
\* server's pause too.
backoffForCapped(number, retryAfter) ==
    Least(Least(Greatest(retryAfter, Exponential(number)), BackoffMax),
          MaxRetryAfterWait)

\* The server's pause may exceed BackoffMax, up to a limit of its own.
backoffFor(number, retryAfter) ==
    Least(Greatest(retryAfter, Least(Exponential(number), BackoffMax)),
          MaxRetryAfterWait)

Delay(c, f) == backoffFor(call[c].number, f.retryAfter)

\* A mutant of the next definition: the pause itself is not counted.
WithinBudgetSoFar(c, f) == call[c].elapsed < MaxElapsed

\* The pause ends before the ceiling.
WithinBudget(c, f) == call[c].elapsed + Delay(c, f) < MaxElapsed

\* The attempt fails for good, and its error is returned.
GiveUp(c, f) ==
    /\ call[c].at = "attempt"
    /\ ~shouldRetry(c, f)
    /\ Finish(c)

\* The pause would outlast the ceiling: a timeout is returned in place of the
\* failure.
ExhaustBudget(c, f) ==
    /\ call[c].at = "attempt"
    /\ shouldRetry(c, f)
    /\ ~WithinBudget(c, f)
    /\ Finish(c)

\* The pause starts, with the slot still held.
BackOff(c, f) ==
    /\ call[c].at = "attempt"
    /\ shouldRetry(c, f)
    /\ WithinBudget(c, f)
    /\ call' = [call EXCEPT
                  ![c].at = "backoff",
                  ![c].timer = Greatest(Delay(c, f), 0),
                  ![c].failure = f,
                  ![c].owed = IF f.asked < HalfRange
                              THEN Least(f.asked, MaxRetryAfterWait)
                              ELSE 0]
    /\ UNCHANGED slots

Fail(c) ==
    \E f \in AttemptFailures(c) :
      GiveUp(c, f) \/ ExhaustBudget(c, f) \/ BackOff(c, f)

\* A mutant of the next definition: a timer noticed late is not noticed.
WakeOnTime(c) ==
    /\ call[c].at = "backoff"
    /\ call[c].timer = 0
    /\ call' = [call EXCEPT ![c].at = "attempt",
                            ![c].number = @ + 1,
                            ![c].timer = Timeout,
                            ![c].sent = ~call[c].cancelled]
    /\ UNCHANGED slots

\* The timer of the pause fires and the next attempt starts.  (shouldRetry has
\* made sure that there is one more.)
Wake(c) ==
    /\ call[c].at = "backoff"
    /\ call[c].timer <= 0
    /\ call' = [call EXCEPT ![c].at = "attempt",
                            ![c].number = @ + 1,
                            ![c].timer = Timeout,
                            ![c].sent = ~call[c].cancelled]
    /\ UNCHANGED slots

\* A mutant of the next definition: the early return keeps the slot.
CancelBackoffLeaking(c) ==
    /\ call[c].at = "backoff"
    /\ call[c].cancelled
    /\ Return(c)

\* The caller goes away during the pause.
CancelBackoff(c) ==
    /\ call[c].at = "backoff"
    /\ call[c].cancelled
    /\ Finish(c)

-----------------------------------------------------------------------------
(***************************************************************************)
(* The surroundings                                                        *)
(***************************************************************************)

\* The context of a call is cancelled.
Cancel(c) ==
    /\ call[c].at \in {"slot", "attempt", "backoff"}
    /\ ~call[c].cancelled
    /\ call' = [call EXCEPT ![c].cancelled = TRUE]
    /\ UNCHANGED slots

\* Time passes, but no timer goes unnoticed for more than Lag ticks.
Tick ==
    /\ \A c \in Callers : Active(c) => call[c].timer > -Lag
    /\ call' = [c \in Callers |->
                  IF Active(c)
                  THEN [call[c] EXCEPT !.elapsed = @ + 1,
                                       !.timer = @ - 1,
                                       !.owed = Greatest(@ - 1, 0)]
                  ELSE call[c]]
    /\ UNCHANGED slots

Step(c) ==
    \/ \E kind \in Kinds : Begin(c, kind)
    \/ acquireSlot(c)
    \/ AbandonSlot(c)
    \/ Succeed(c)
    \/ Fail(c)
    \/ Wake(c)
    \/ CancelBackoff(c)
    \/ Cancel(c)

Next == Tick \/ \E c \in Callers : Step(c)

Spec == Init /\ [][Next]_vars

\* An HTTP exchange that has run out of time ends.
ExchangeEnds(c) == call[c].timer <= 0 /\ (Succeed(c) \/ Fail(c))

\* Clocks run, timers are noticed, and the goroutines that wait to send to a
\* channel are served in turn: what comes back again and again to a waiting
\* caller, a free token, is taken in the end.
Fairness ==
    /\ WF_vars(Tick)
    /\ \A c \in Callers :
         /\ SF_vars(acquireSlot(c))
         /\ WF_vars(ExchangeEnds(c))
         /\ WF_vars(Wake(c))

FairSpec == Spec /\ Fairness

-----------------------------------------------------------------------------
(***************************************************************************)
(* Properties                                                              *)
(***************************************************************************)

Holders == {c \in Callers : Active(c)}

\* Every variable has its type, and the channel never holds more tokens than
\* its capacity (acquireSlot).
TypeOK ==
    /\ call \in [Callers -> Calls]
    /\ slots \in 0 .. Concurrency

\* A token is in the channel exactly for each call that is between acquireSlot
\* and its return, whichever of the returns of evaluateWithRetries,
\* waitBeforeRetry and acquireSlot it takes: none leaks, none is freed twice.
SlotsAreHeld == slots = Cardinality(Holders)

\* However failures, pauses and late timers combine, Evaluate makes at most
\* MaxAttempts attempts and Models one; a retry starts before the ceiling,
\* give or take the lag; and no slot is held for longer than the ceiling, one
\* exchange and two lags (shouldRetry, waitBeforeRetry, http.Client.Timeout).
SeriesIsBounded ==
    \A c \in Holders :
      /\ call[c].number <= IF call[c].kind = "evaluate" THEN MaxAttempts ELSE 1
      /\ call[c].elapsed < MaxElapsed + Timeout + 2 * Lag
      /\ (call[c].at = "attempt" /\ call[c].number > 1) =>
           call[c].elapsed - (Timeout - call[c].timer) < MaxElapsed + Lag

\* No attempt starts before the pause the last response asked for is over, up
\* to MaxRetryAfterWait, whatever the back-off would be (backoffFor).  A pause
\* that does not fit a time.Duration is owed nothing: its product wraps.
RetryAfterIsHonoured ==
    \A c \in Callers : call[c].at = "attempt" => call[c].owed <= 0

\* A call pauses or tries again only after a failure that may pass, and that
\* came while the caller was still there.  docs/testing.md: "transient
\* failures retry, authentication failures do not"; docs/mcp.md: "A cancelled
\* evaluation stops retrying the provider".
OnlyTransientIsRetried ==
    \A c \in Holders :
      (call[c].at = "backoff" \/ call[c].number > 1) =>
        /\ call[c].failure.class \in TransientClasses
        /\ ~call[c].failure.cancelled

\* Every call returns, although slots are held over whole retry series and
\* callers keep coming: a series ends, its slot comes back, and a waiting call
\* gets one in the end (Evaluate, Models).
EveryCallReturns ==
    \A c \in Callers : call[c].at # "idle" ~> call[c].at = "idle"

-----------------------------------------------------------------------------
(***************************************************************************)
(* What makes the bounds inductive: where a call is in its series, and     *)
(* when the timer it waits for will fire at the latest.                    *)
(***************************************************************************)

\* The request is out, or was stopped by a cancelled context.
InAttempt(k) ==
    /\ k.number >= 1
    /\ k.owed <= 0
    /\ k.timer >= -Lag
    /\ k.number = 1 => k.elapsed + k.timer = Timeout
    /\ k.number > 1 => k.elapsed + k.timer < MaxElapsed + Lag + Timeout

\* The call waits for its next attempt.
InBackoff(k) ==
    /\ k.kind = "evaluate"
    /\ k.number \in 1 .. (MaxAttempts - 1)
    /\ k.timer >= -Lag
    /\ k.elapsed + k.timer < MaxElapsed
    /\ k.owed <= Greatest(k.timer, 0)

\* The invariant of one call.
InSeries(k) ==
    /\ k.at \in {"idle", "slot"} => k.number = 0 /\ k.elapsed = 0 /\ k.owed = 0
    /\ k.at = "attempt" => InAttempt(k)
    /\ k.at = "backoff" => InBackoff(k)
    /\ k.number <= IF k.kind = "evaluate" THEN MaxAttempts ELSE 1
    /\ (k.at = "backoff" \/ k.number > 1) =>
         k.failure.class \in TransientClasses /\ ~k.failure.cancelled

\* Every call is where its series allows.
Series == \A c \in Callers : InSeries(call[c])

=============================================================================
