\* A walk over the pages, and every call and refusal, on up to two connections
\* at once.
SPECIFICATION Spec
\* The process ends when a tool panics.
CHECK_DEADLOCK FALSE
CONSTANTS
    w = w
    o = o
    x = x
    Clients = {w, o, x}
    Walker = w
    Traffics <- MCTraffics
    TokenRequired = TRUE
    RateLimitBurst = 2
    RequestsPerTick = 1
    PageLimit = 1
    Ids = {1, 2, 3}
    InitialRows <- MCRows
    EvaluationRetention = 1
    MaxTime = 2
INVARIANTS
    RateHoldsInEveryWindow
    AnswerFitsTheResult
    GaugesCountCalls
    WalkSeesEveryRow
