\* One message, two processes with their own identities.
SPECIFICATION Spec
CONSTANTS
    m1 = m1
    w1 = w1
    w2 = w2
    Messages = {m1}
    Destinations = {"sandbox.echo"}
    destination <- OneDestination
    MaxBudget = 2
    maxAttempts <- TwoAttempts
    ReconAttempts = 2
    Workers = {w1, w2}
    WorkerIds = {w1, w2}
    workerId <- OwnIdentity
    NoWorker = NoWorker
    BatchLimit = 2
    Crashable = {w1, w2}
    Classes <- OneClassEach
INVARIANTS
    ReconcileBeforeRetry
    ConfirmedBySource
    EvidenceFits
    OneUnresolvedCall
PROPERTIES
    KeepsPromise
    HistoryStands
