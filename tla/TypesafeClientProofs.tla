------------------------ MODULE TypesafeClientProofs ------------------------
(***************************************************************************)
(* Proofs about TypesafeClient: types, slots, and the bounds of a series,  *)
(* for any number of callers, any configuration and any headers.           *)
(***************************************************************************)
EXTENDS TypesafeClient, FiniteSetTheorems, TLAPS

(***************************************************************************)
(* Durations                                                               *)
(***************************************************************************)

\* The headers give an integral pause, also when it wraps.
LEMMA HeaderTypes ==
  ASSUME NEW h \in Headers
  PROVE  Asked(h) \in Int /\ parseRetryAfter(h) \in Int
<1>1. /\ h.millis \in Int /\ h.value \in Int
      /\ Millisecond \in Int /\ Second \in Int /\ HalfRange \in Int
      /\ HalfRange > 0
  BY HeadersAssumption, DurationAssumption
<1>2. Asked(h) \in Int
  <2>1. h.millis * Millisecond \in Int /\ h.value * Second \in Int
    BY <1>1
  <2> QED  BY <1>1, <2>1 DEF Asked, Least, Greatest
<1>3. Wrap(Asked(h)) \in Int
  BY <1>1, <1>2 DEF Wrap
<1> QED  BY <1>2, <1>3 DEF parseRetryAfter

\* A duration that fits does not wrap.
LEMMA WrapFits ==
  ASSUME NEW n \in Int, 0 <= n, n < HalfRange
  PROVE  Wrap(n) = n
<1>1. HalfRange \in Int /\ HalfRange > 0
  BY DurationAssumption
<1>2. (n + HalfRange) % (2 * HalfRange) = n + HalfRange
  BY <1>1
<1> QED  BY <1>1, <1>2 DEF Wrap

\* Every failure of an attempt has its type, and knows whether the caller was
\* gone; only failures that may pass are retryable.
LEMMA FailureTypes ==
  ASSUME TypeOK, NEW c \in Callers, NEW f \in AttemptFailures(c)
  PROVE  /\ f \in Failures
         /\ f.cancelled = call[c].cancelled
         /\ f.retryable => f.class \in TransientClasses
         /\ (0 <= f.asked /\ f.asked < HalfRange) => f.retryAfter = f.asked
<1>1. call[c].cancelled \in BOOLEAN
  BY DEF TypeOK, Calls
<1>2. CASE f \in TransportFailures(c)
  <2>1. PICK err \in {"unreachable", "cancelled", "timeout"} :
          f = classifyTransport(call[c].cancelled, err)
    BY <1>2 DEF TransportFailures
  <2>2. PICK class \in {"unreachable", "cancelled", "timeout"} :
          f = [class |-> class,
               retryable |-> class \in {"timeout", "unreachable"},
               retryAfter |-> 0,
               asked |-> 0,
               cancelled |-> call[c].cancelled]
    BY <1>1, <2>1 DEF classifyTransport
  <2>3. /\ f.class = class
        /\ f.retryable = (class \in {"timeout", "unreachable"})
        /\ f.retryAfter = 0
        /\ f.asked = 0
        /\ f.cancelled = call[c].cancelled
    BY <2>2
  <2>4. f \in Failures
    BY <1>1, <2>2 DEF Failures, TransientClasses, FinalClasses
  <2> QED  BY <2>3, <2>4 DEF TransientClasses
<1>3. CASE \E class \in StatusClasses, h \in Headers :
             f = classifyStatus(call[c].cancelled, class, h)
  <2>1. PICK class \in StatusClasses, h \in Headers :
          f = classifyStatus(call[c].cancelled, class, h)
    BY <1>3
  <2>2. /\ f.asked = Asked(h)
        /\ f.retryAfter = Wrap(Asked(h))
        /\ f.class = class
        /\ f.cancelled = call[c].cancelled
        /\ f.retryable =
             (class \in {"rate_limited", "overloaded", "server_failed"})
    BY <2>1 DEF classifyStatus, parseRetryAfter
  <2>3. f \in Failures
    BY <1>1, <2>1, HeaderTypes
    DEF classifyStatus, Failures, TransientClasses, FinalClasses, StatusClasses
  <2> QED  BY <2>2, <2>3, HeaderTypes, WrapFits DEF TransientClasses
<1>4. CASE \E class \in {"unreadable", "undecodable"} :
             f = bodyFailure(call[c].cancelled, class)
  BY <1>1, <1>4 DEF bodyFailure, Failures, FinalClasses
<1> QED  BY <1>2, <1>3, <1>4 DEF AttemptFailures, ResponseFailures

\* The pause is integral, bounded, and no shorter than what a server asked for.
LEMMA DelayBounds ==
  ASSUME TypeOK, NEW c \in Callers, call[c].number >= 1,
         NEW f \in AttemptFailures(c)
  PROVE  /\ Delay(c, f) \in Int
         /\ Delay(c, f) <= MaxRetryAfterWait
         /\ (f.asked < HalfRange) =>
              Least(f.asked, MaxRetryAfterWait) <= Greatest(Delay(c, f), 0)
<1>1. call[c].number \in Nat
  BY DEF TypeOK, Calls
<1>2. 2^(call[c].number - 1) \in Int
  BY <1>1
<1>3. Exponential(call[c].number) \in Int
  <2>1. BackoffBase * 2^(call[c].number - 1) \in Int
    BY <1>2, ConfigAssumption
  <2> QED  BY <2>1, DurationAssumption DEF Exponential
<1>4. /\ f.retryAfter \in Int /\ f.asked \in Int
      /\ (0 <= f.asked /\ f.asked < HalfRange) => f.retryAfter = f.asked
  BY FailureTypes DEF Failures
<1>5. MaxRetryAfterWait \in Nat /\ BackoffMax \in Int /\ HalfRange \in Int
  BY ConfigAssumption, DurationAssumption
<1> QED  BY <1>3, <1>4, <1>5 DEF Delay, backoffFor, Least, Greatest

-----------------------------------------------------------------------------
(***************************************************************************)
(* One call                                                                *)
(***************************************************************************)

\* A call that has not started is within its series.
LEMMA FreshCall ==
  ASSUME NEW where \in {"idle", "slot"}, NEW kind \in Kinds
  PROVE  /\ Fresh(where, kind) \in Calls
         /\ Fresh(where, kind).at = where
         /\ InSeries(Fresh(where, kind))
<1>1. NoFailure \in Failures
  BY DEF NoFailure, Failures, FinalClasses
<1>2. Fresh(where, kind) \in Calls
  BY <1>1 DEF Fresh, Calls, Kinds
<1>3. InSeries(Fresh(where, kind))
  BY ConfigAssumption DEF InSeries, Fresh, Kinds
<1> QED  BY <1>2, <1>3 DEF Fresh

\* A step of a caller moves its own call, within its series.
LEMMA StepCall ==
  ASSUME TypeOK, Series, NEW c \in Callers, Step(c)
  PROVE  /\ call' \in [Callers -> Calls]
         /\ \A d \in Callers \ {c} : call'[d] = call[d]
         /\ InSeries(call'[c])
<1>0. Timeout \in Int
  BY ConfigAssumption
<1>1. /\ call \in [Callers -> Calls] /\ call[c] \in Calls
      /\ InSeries(call[c])
  BY DEF TypeOK, Series
<1>2. ASSUME NEW k \in Calls, InSeries(k), call' = [call EXCEPT ![c] = k]
      PROVE  /\ call' \in [Callers -> Calls]
             /\ \A d \in Callers \ {c} : call'[d] = call[d]
             /\ InSeries(call'[c])
  BY <1>1, <1>2
<1>3. CASE \E kind \in Kinds : Begin(c, kind)
  BY <1>2, <1>3, FreshCall DEF Begin
<1>4. CASE Return(c) \/ Finish(c)
  BY <1>2, <1>4, FreshCall DEF Return, Finish, Kinds
<1>5. CASE acquireSlot(c)
  <2>0. PICK out \in BOOLEAN : out = ~call[c].cancelled
    OBVIOUS
  <2> DEFINE k == [call[c] EXCEPT !.at = "attempt", !.number = 1,
                                  !.timer = Timeout,
                                  !.sent = out]
  <2>1. call' = [call EXCEPT ![c] = k]
    BY <1>1, <1>5, <2>0 DEF acquireSlot
  <2>2. k \in Calls
    BY <1>1, <1>0 DEF Calls
  <2>3. InSeries(k)
    BY <1>1, <1>5, ConfigAssumption, DurationAssumption
    DEF acquireSlot, InSeries, InAttempt, Calls, Kinds
  <2> QED  BY <1>2, <2>1, <2>2, <2>3
<1>6. CASE \E f \in AttemptFailures(c) : BackOff(c, f)
  <2>1. PICK f \in AttemptFailures(c) : BackOff(c, f)
    BY <1>6
  <2> DEFINE pause == Delay(c, f)
             due == IF f.asked < HalfRange
                    THEN Least(f.asked, MaxRetryAfterWait)
                    ELSE 0
             k == [call[c] EXCEPT !.at = "backoff",
                                  !.timer = Greatest(pause, 0),
                                  !.failure = f,
                                  !.owed = due]
  <2>2. call' = [call EXCEPT ![c] = k]
    BY <1>1, <2>1 DEF BackOff
  <2>3. InAttempt(call[c])
    BY <1>1, <2>1 DEF BackOff, InSeries
  <2>4. /\ pause \in Int
        /\ f.asked < HalfRange =>
             Least(f.asked, MaxRetryAfterWait) <= Greatest(pause, 0)
    BY <2>3, DelayBounds DEF InAttempt
  <2>5. f \in Failures /\ f.asked \in Int
    BY FailureTypes DEF Failures
  <2>6. Greatest(pause, 0) \in Int /\ due \in Int
    BY <2>4, <2>5, DurationAssumption DEF Least, Greatest
  <2>7. k \in Calls
    <3> HIDE DEF pause, due
    <3> QED  BY <1>1, <2>5, <2>6 DEF Calls
  <2>8. /\ call[c].kind = "evaluate"
        /\ call[c].number < MaxAttempts
        /\ call[c].elapsed < MaxElapsed
        /\ call[c].elapsed + pause < MaxElapsed
        /\ f.class \in TransientClasses
        /\ ~f.cancelled
    BY <2>1, FailureTypes DEF BackOff, shouldRetry, WithinBudget
  <2>9. due <= Greatest(Greatest(pause, 0), 0)
    BY <2>4, <2>5, <2>6 DEF Greatest
  <2>10. InSeries(k)
    <3>1. /\ call[c].number \in Nat /\ call[c].elapsed \in Nat
          /\ MaxAttempts \in Int /\ MaxElapsed \in Int /\ Lag \in Nat
      BY <1>1, ConfigAssumption, DurationAssumption DEF Calls
    <3>2. /\ k.at = "backoff" /\ k.kind = "evaluate"
          /\ k.number = call[c].number /\ k.elapsed = call[c].elapsed
          /\ k.timer = Greatest(pause, 0) /\ k.failure = f /\ k.owed = due
      BY <1>1, <2>8 DEF Calls
    <3>3. Greatest(pause, 0) >= 0
          /\ call[c].elapsed + Greatest(pause, 0) < MaxElapsed
      BY <2>4, <2>8, <3>1 DEF Greatest
    <3> HIDE DEF pause, due, k
    <3>4. InBackoff(k)
      BY <2>3, <2>6, <2>8, <2>9, <3>1, <3>2, <3>3 DEF InBackoff, InAttempt
    <3> QED  BY <2>8, <3>1, <3>2, <3>4 DEF InSeries
  <2> QED  BY <1>2, <2>2, <2>7, <2>10
<1>7. CASE Wake(c)
  <2>0. PICK out \in BOOLEAN : out = ~call[c].cancelled
    OBVIOUS
  <2>4. PICK next \in Nat : next = call[c].number + 1
    BY <1>1 DEF Calls
  <2> DEFINE k == [call[c] EXCEPT !.at = "attempt", !.number = next,
                                  !.timer = Timeout,
                                  !.sent = out]
  <2>1. call' = [call EXCEPT ![c] = k]
    BY <1>1, <1>7, <2>0, <2>4 DEF Wake
  <2>2. k \in Calls
    BY <1>1, <1>0 DEF Calls
  <2>3. InSeries(k)
    BY <1>1, <1>7, <2>4, ConfigAssumption, DurationAssumption
    DEF Wake, InSeries, InAttempt, InBackoff, Calls, Kinds, Greatest
  <2> QED  BY <1>2, <2>1, <2>2, <2>3
<1>8. CASE Cancel(c)
  <2> DEFINE k == [call[c] EXCEPT !.cancelled = TRUE]
  <2>1. call' = [call EXCEPT ![c] = k]
    BY <1>1, <1>8 DEF Cancel
  <2>2. k \in Calls
    BY <1>1 DEF Calls
  <2>3. InSeries(k)
    BY <1>1 DEF InSeries, InAttempt, InBackoff, Calls
  <2> QED  BY <1>2, <2>1, <2>2, <2>3
<1> QED  BY <1>3, <1>4, <1>5, <1>6, <1>7, <1>8
         DEF Step, AbandonSlot, Succeed, Fail, GiveUp, ExhaustBudget,
             CancelBackoff

\* A step of a caller enters or leaves its series together with its token.
LEMMA StepSlots ==
  ASSUME TypeOK, NEW c \in Callers, Step(c)
  PROVE  \/ Active(c)' = Active(c) /\ slots' = slots
         \/ ~Active(c) /\ Active(c)' /\ slots < Concurrency /\ slots' = slots + 1
         \/ Active(c) /\ ~Active(c)' /\ slots' = slots - 1
<1>1. call \in [Callers -> Calls] /\ call[c] \in Calls
  BY DEF TypeOK
<1>2. CASE call[c].at = "attempt" \/ call[c].at = "backoff"
  <2>1. CASE Finish(c)
    BY <1>1, <1>2, <2>1, FreshCall DEF Finish, Active, Kinds
  <2>2. CASE \E f \in AttemptFailures(c) : BackOff(c, f)
    BY <1>1, <1>2, <2>2 DEF BackOff, Active, Calls
  <2>3. CASE Wake(c) \/ Cancel(c)
    BY <1>1, <1>2, <2>3 DEF Wake, Cancel, Active, Calls
  <2> QED  BY <1>2, <2>1, <2>2, <2>3
           DEF Step, Begin, acquireSlot, AbandonSlot, Succeed, Fail, GiveUp,
               ExhaustBudget, CancelBackoff
<1>3. CASE call[c].at = "idle" \/ call[c].at = "slot"
  <2>1. CASE (\E kind \in Kinds : Begin(c, kind)) \/ Return(c)
    BY <1>1, <1>3, <2>1, FreshCall DEF Begin, Return, Active, Kinds
  <2>2. CASE acquireSlot(c)
    BY <1>1, <1>3, <2>2 DEF acquireSlot, Active, Calls
  <2>3. CASE Cancel(c)
    BY <1>1, <1>3, <2>3 DEF Cancel, Active, Calls
  <2> QED  BY <1>3, <2>1, <2>2, <2>3
           DEF Step, Wake, AbandonSlot, Succeed, Fail, GiveUp, ExhaustBudget,
               BackOff, CancelBackoff
<1> QED  BY <1>1, <1>2, <1>3 DEF Calls

\* Time moves every call of a series within it.
LEMMA TickCalls ==
  ASSUME TypeOK, Series, Tick
  PROVE  /\ call' \in [Callers -> Calls]
         /\ Series'
         /\ \A c \in Callers : call'[c].at = call[c].at
<1>1. SUFFICES ASSUME NEW c \in Callers
               PROVE  /\ call'[c] \in Calls
                      /\ InSeries(call'[c])
                      /\ call'[c].at = call[c].at
  BY DEF Tick, Series
<1>2. call[c] \in Calls /\ InSeries(call[c])
  BY DEF TypeOK, Series
<1>3. CASE ~Active(c)
  BY <1>2, <1>3 DEF Tick
<1>4. CASE Active(c)
  <2>1. PICK later \in Nat, left \in Int, due \in Int :
          /\ later = call[c].elapsed + 1
          /\ left = call[c].timer - 1
          /\ due = Greatest(call[c].owed - 1, 0)
    BY <1>2 DEF Calls, Greatest
  <2> DEFINE k == [call[c] EXCEPT !.elapsed = later, !.timer = left,
                                  !.owed = due]
  <2>2. call'[c] = k
    BY <1>4, <2>1 DEF Tick
  <2>3. k \in Calls /\ k.at = call[c].at
    BY <1>2 DEF Calls
  <2>4. call[c].timer > -Lag
    BY <1>4 DEF Tick
  <2>5. InSeries(k)
    BY <1>2, <1>4, <2>1, <2>4, ConfigAssumption, DurationAssumption
    DEF InSeries, InAttempt, InBackoff, Calls, Active, Greatest, Kinds
  <2> QED  BY <2>2, <2>3, <2>5
<1> QED  BY <1>3, <1>4

-----------------------------------------------------------------------------
(***************************************************************************)
(* All calls                                                               *)
(***************************************************************************)

\* Types need the count of tokens, and the count needs the types.
Bounded == TypeOK /\ SlotsAreHeld /\ Series

\* Initially nobody calls.
LEMMA InitBounded == Init => Bounded
<1> SUFFICES ASSUME Init PROVE Bounded
  OBVIOUS
<1>1. TypeOK
  BY FreshCall, ConfigAssumption DEF Init, TypeOK, Kinds
<1>2. Series
  BY FreshCall DEF Init, Series, Kinds
<1>3. Holders = {}
  BY FreshCall DEF Init, Holders, Active, Kinds
<1> QED  BY <1>1, <1>2, <1>3, FS_EmptySet DEF Init, Bounded, SlotsAreHeld

\* Every step keeps all calls within their series and their tokens.
LEMMA NextBounded == Bounded /\ [Next]_vars => Bounded'
<1> SUFFICES ASSUME Bounded, [Next]_vars PROVE Bounded'
  OBVIOUS
<1>1. /\ TypeOK /\ SlotsAreHeld /\ Series
      /\ slots \in Int /\ 0 <= slots /\ slots <= Concurrency
      /\ Concurrency \in Int
  BY ConfigAssumption DEF Bounded, TypeOK
<1>2. IsFiniteSet(Holders) /\ Cardinality(Holders) = slots
  BY <1>1, ConfigAssumption, FS_Subset DEF Holders, SlotsAreHeld
<1>3. ASSUME NEW c \in Callers, Step(c)
      PROVE  Bounded'
  <2>1. call' \in [Callers -> Calls] /\ Series'
    BY <1>1, <1>3, StepCall DEF Series
  <2>2. \A d \in Callers \ {c} : Active(d)' = Active(d)
    BY <1>1, <1>3, StepCall DEF Active
  <2>3. CASE Active(c)' = Active(c) /\ slots' = slots
    <3>1. Holders' = Holders
      BY <2>2, <2>3 DEF Holders
    <3> QED  BY <1>1, <1>2, <2>1, <2>3, <3>1
             DEF Bounded, TypeOK, SlotsAreHeld
  <2>4. CASE ~Active(c) /\ Active(c)' /\ slots < Concurrency
             /\ slots' = slots + 1
    <3>1. Holders' = Holders \cup {c} /\ c \notin Holders
      BY <2>2, <2>4 DEF Holders
    <3>2. Cardinality(Holders') = slots + 1
      BY <1>2, <3>1, FS_AddElement
    <3> QED  BY <1>1, <2>1, <2>4, <3>2 DEF Bounded, TypeOK, SlotsAreHeld
  <2>5. CASE Active(c) /\ ~Active(c)' /\ slots' = slots - 1
    <3>1. Holders' = Holders \ {c} /\ c \in Holders
      BY <2>2, <2>5 DEF Holders
    <3>2. Cardinality(Holders') = slots - 1 /\ slots > 0
      BY <1>1, <1>2, <3>1, FS_RemoveElement, FS_EmptySet
    <3> QED  BY <1>1, <2>1, <2>5, <3>2 DEF Bounded, TypeOK, SlotsAreHeld
  <2> QED  BY <1>1, <1>3, <2>3, <2>4, <2>5, StepSlots
<1>4. CASE Tick
  <2>1. Holders' = Holders /\ slots' = slots
    BY <1>1, <1>4, TickCalls DEF Holders, Active, Tick
  <2> QED  BY <1>1, <1>4, <2>1, TickCalls DEF Bounded, TypeOK, SlotsAreHeld
<1>5. CASE UNCHANGED vars
  BY <1>1, <1>5
  DEF Bounded, TypeOK, SlotsAreHeld, Series, Holders, Active, vars
<1> QED  BY <1>3, <1>4, <1>5 DEF Next

\* In every behaviour of the client, whatever its callers, its server and the
\* scheduler do, calls stay within their series and tokens with their calls.
THEOREM AlwaysBounded == Spec => []Bounded
  BY InitBounded, NextBounded, PTL DEF Spec

\* Every variable keeps its type, and the channel its capacity (acquireSlot).
THEOREM ClientTypeCorrect == Spec => []TypeOK
<1>1. Bounded => TypeOK
  BY DEF Bounded
<1> QED  BY <1>1, AlwaysBounded, PTL

\* No return path leaks a token or frees one twice (Evaluate's and Models'
\* deferred release).
THEOREM AlwaysSlotsAreHeld == Spec => []SlotsAreHeld
<1>1. Bounded => SlotsAreHeld
  BY DEF Bounded
<1> QED  BY <1>1, AlwaysBounded, PTL

\* Attempts, retries and the time a slot is held are bounded for every
\* configuration that validate accepts.
THEOREM AlwaysSeriesIsBounded == Spec => []SeriesIsBounded
<1>1. Bounded => SeriesIsBounded
  <2> SUFFICES ASSUME Bounded, NEW c \in Callers, Active(c)
               PROVE  /\ call[c].number <= IF call[c].kind = "evaluate"
                                            THEN MaxAttempts ELSE 1
                      /\ call[c].elapsed < MaxElapsed + Timeout + 2 * Lag
                      /\ (call[c].at = "attempt" /\ call[c].number > 1) =>
                           call[c].elapsed - (Timeout - call[c].timer)
                             < MaxElapsed + Lag
    BY DEF SeriesIsBounded, Holders
  <2>1. call[c] \in Calls /\ InSeries(call[c])
    BY DEF Bounded, TypeOK, Series
  <2>2. /\ call[c].number \in Int /\ call[c].elapsed \in Int
        /\ call[c].timer \in Int
        /\ MaxElapsed \in Nat \ {0} /\ Timeout \in Nat \ {0} /\ Lag \in Nat
    BY <2>1, ConfigAssumption, DurationAssumption DEF Calls
  <2> QED  BY <2>1, <2>2 DEF InSeries, InAttempt, InBackoff, Active
<1> QED  BY <1>1, AlwaysBounded, PTL

\* A pause that a server asked for is kept, for every configuration and every
\* header (backoffFor).
THEOREM AlwaysRetryAfterIsHonoured == Spec => []RetryAfterIsHonoured
<1>1. Bounded => RetryAfterIsHonoured
  BY DEF Bounded, Series, InSeries, InAttempt, RetryAfterIsHonoured
<1> QED  BY <1>1, AlwaysBounded, PTL

\* Nothing but a transient failure of a caller that is still there leads to a
\* retry (shouldRetry, classifyTransport, classifyStatus).
THEOREM AlwaysOnlyTransientIsRetried == Spec => []OnlyTransientIsRetried
<1>1. Bounded => OnlyTransientIsRetried
  BY DEF Bounded, Series, InSeries, OnlyTransientIsRetried, Holders
<1> QED  BY <1>1, AlwaysBounded, PTL

=============================================================================
