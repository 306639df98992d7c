\* Three services, another goroutine that may call Stop, with fairness.
CONSTANTS
    db = db
    cache = cache
    api = api
    elsewhere = elsewhere
    Runner = runner
    Services <- MCServices
    Graphs <- MCGraphs
    Notifies = {db, cache}
    Allowed = {cache}
    MaxRetries <- MCMaxRetries
    Stoppers = {app}

SPECIFICATION FairSpec

INVARIANTS
    TypeOK
    OnlyCyclesAreRefused
    DependenciesFirst
    StopsInReverse
    FailureIsFound
    RunTellsWhy
    LaunchedIsStopped

PROPERTY
    RunReturns
