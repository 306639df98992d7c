\* The times of MCLifecycle.cfg: the balancer would notice within the grace.
CONSTANTS
    Requests = {r1}
    Grace = 2
    ShutdownTimeout = 3
    DrainTimeout = 4
    ProbeEvery = 1

SPECIFICATION Spec

INVARIANTS
    AcceptsUntilUnrouted
