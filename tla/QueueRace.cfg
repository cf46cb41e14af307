\* Two workers, leases that lapse twice, and an instance moved three times.
SPECIFICATION Spec
CONSTANTS
    w1 = w1
    w2 = w2
    m1 = m1
    t1 = t1
    f1 = f1
    p1 = p1
    p2 = p2
    Workers = {w1, w2}
    Messages = {m1}
    Payloads = {p1, p2}
    Timers = {t1}
    Flows = {f1}
    FireAt <- MCFireAt
    Lease = 1
    Limit = 1
    MaxTime = 3
    MaxVersion = 4
SYMMETRY Interchangeable
INVARIANTS
    LeaseIsExclusive
    AcceptedPayloadStands
PROPERTIES
    OutcomesAreFinal
    KeepsQueue
