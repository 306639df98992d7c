\* Three services and another goroutine that may call Stop at any moment.
CONSTANTS
    db = db
    cache = cache
    api = api
    elsewhere = elsewhere
    Runner = runner
    Services <- MCServices
    Graphs <- MCGraphs
    Notifies = {db, cache}
    Allowed = {cache}
    MaxRetries <- MCMaxRetries
    Stoppers = {app}

SPECIFICATION Spec

INVARIANT
    EveryStartedIsStopped
