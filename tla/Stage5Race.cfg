\* Readbacks, admissions and outcomes on a changing source, two requests at a time.
SPECIFICATION Spec
CONSTANTS
    k1 = k1
    k2 = k2
    s1 = s1
    o1 = o1
    p1 = p1
    p2 = p2
    Handlers = {h1, h2}
    Templates <- Exchange
    Keys = {k1, k2}
    Operations = {o1}
    Subjects = {s1}
    SubjectType <- TypeOf
    Schema <- Tables
    Peers = {p1, p2}
    Pinned = p1
    Claims <- Shown
    Lags = {0}
    Initially = {1}
    Window = 2
    Tolerance = 0
    MaxTime = 2
    MaxVersion = 2
    MaxConflicts = 1
    MaxTold = 1
SYMMETRY HandlerSymmetry
INVARIANTS
    TypeOK
    AdmittedOnCurrentEvidence
    IndependentEvidence
    ConcludedAfterDecision
    AnswersAreDurable
