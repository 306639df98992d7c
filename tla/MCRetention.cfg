\* Retention in batches of one against two calls and a label, with fairness.
SPECIFICATION FairSpec
CONSTANTS
    Requests = {r1, r2}
    Submissions = {f1}
    Cleaners = {c1}
    Keys = {k1}
    Bodies <- SettledOnly
    Policies <- MCPolicies
    Refs = {ref}
    RefOf <- MCRefOf
    Outcomes <- MCOutcomes
    Declares <- MCDeclares
    Phase <- MCPhase
    Deployments <- OneDeployment
    InlinePolicies = {}
    EvaluationRetention = 1
    IdempotencyRetention = 0
    BatchSize = 1
    MaxTime = 2
    None = None
    p1 = p1
    p2 = p2
    ref = ref
    ok = ok
    no = no
    odd = odd
INVARIANTS
    LabelsAreDurable
PROPERTIES
    AgedRowsAreRetired
    ExpiredKeysArePurged
    ImplementsAuditLog
