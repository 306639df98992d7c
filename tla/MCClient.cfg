\* Two callers that keep calling over one slot, with every kind of failure and
\* pause, and with fairness.
CONSTANTS
    Callers = {c1, c2}
    Concurrency = 1
    MaxAttempts = 3
    Timeout = 2
    BackoffBase = 1
    BackoffMax = 2
    MaxElapsed = 6
    MaxRetryAfterWait = 5
    Millisecond = 1
    Second = 2
    HalfRange = 8
    Overflowed <- MCOverflowed
    Headers <- MCHeaders
    Lag = 1

SPECIFICATION FairSpec

INVARIANTS
    TypeOK
    SlotsAreHeld
    SeriesIsBounded
    RetryAfterIsHonoured

PROPERTY
    EveryCallReturns
