\* The checkpoint whose last lease expires.
SPECIFICATION FairSpec
CONSTANTS
    m1 = m1
    w1 = w1
    w2 = w2
    Messages = {m1}
    Destinations = {"sandbox.echo"}
    destination <- OneDestination
    MaxBudget = 2
    maxAttempts <- TwoAttempts
    ReconAttempts = 2
    Workers = {w1}
    WorkerIds = {w1, w2}
    workerId <- OwnIdentity
    NoWorker = NoWorker
    BatchLimit = 2
    Crashable = {}
    Classes <- OneClassEach
PROPERTIES
    ReconciliationConcludes
