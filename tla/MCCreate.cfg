\* Two Create calls against a retention loop: keyed or not, named or inline, with
\* bodies of every phase and a policy file edited between two starts.
SPECIFICATION Spec
SYMMETRY CallSymmetry
CONSTANTS
    Requests = {r1, r2}
    Submissions = {}
    Cleaners = {c1}
    Keys = {k1}
    Bodies <- AllBodies
    Policies <- MCPolicies
    Refs = {ref}
    RefOf <- MCRefOf
    Outcomes <- MCOutcomes
    Declares <- MCDeclares
    Phase <- MCPhase
    Deployments <- TwoDeployments
    InlinePolicies = {p2}
    EvaluationRetention = 1
    IdempotencyRetention = 0
    BatchSize = 1
    MaxTime = 2
    None = None
    p1 = p1
    p2 = p2
    ref = ref
    ok = ok
    no = no
    odd = odd
INVARIANTS
    TypeOK
    KeysNameTheirRow
    AnsweredIsDurable
    OneOwnerPerKey
    LiveKeyNeverBills
    SnapshotsCover
    ReplayIsFaithful
    FactsBeforeModel
