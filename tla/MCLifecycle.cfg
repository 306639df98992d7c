\* Two exchanges; the balancer notices within the grace period, the runner
\* waits longer than that, and one drain may take longer than the runner.
CONSTANTS
    Requests = {r1, r2}
    Grace = 2
    ShutdownTimeout = 3
    DrainTimeout = 4
    ProbeEvery = 1

SPECIFICATION FairSpec

INVARIANTS
    DatabaseOutlivesItsUsers
    ExitIsTruthful

PROPERTIES
    WaitIsExplained
    ProcessEnds
