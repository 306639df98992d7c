\* Feedback is submitted while a retention pass removes its evaluation.
SPECIFICATION Spec
SYMMETRY CallSymmetry
CONSTANTS
    Requests = {r1}
    Submissions = {f1}
    Cleaners = {c1}
    Keys = {k1}
    Bodies <- AskOnly
    Policies <- MCPolicies
    Refs = {ref}
    RefOf <- MCRefOf
    Outcomes <- MCOutcomes
    Declares <- MCDeclares
    Phase <- MCPhase
    Deployments <- OneDeployment
    InlinePolicies = {}
    EvaluationRetention = 1
    IdempotencyRetention = 1
    BatchSize = 1
    MaxTime = 2
    None = None
    p1 = p1
    p2 = p2
    ref = ref
    ok = ok
    no = no
    odd = odd
INVARIANTS
    FeedbackPointsAtItsEvaluation
