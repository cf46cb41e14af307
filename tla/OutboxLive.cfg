\* One message, a reliable process and one that may be killed at any point.
SPECIFICATION FairSpec
CONSTANTS
    m1 = m1
    w1 = w1
    w2 = w2
    Messages = {m1}
    Destinations = {"sandbox.echo"}
    destination <- OneDestination
    MaxBudget = 2
    maxAttempts <- TwoAttempts
    ReconAttempts = 1
    Workers = {w1, w2}
    WorkerIds = {w1, w2}
    workerId <- OwnIdentity
    NoWorker = NoWorker
    BatchLimit = 2
    Crashable = {w2}
    Classes <- OneClassEach
PROPERTIES
    EveryMessageComesToRest
