\* Two requests at a time, approvals signed in time or for too long, expiry.
SPECIFICATION Spec
CONSTANTS
    h1 = h1
    h2 = h2
    deal = deal
    doTask = doTask
    aNote = aNote
    retire = retire
    retireNote = retireNote
    oldNote = oldNote
    look = look
    Handlers = {h1, h2}
    Operations <- MCOperations
    Cases = {deal}
    Calls = {doTask, aNote, retire, retireNote, oldNote, look}
    CallOf <- MCCallOf
    Admissions <- MCAdmissions
    Legacy = {oldNote}
    Hold = 2
    AdmissionAge = 1
    ApprovalAge = 1
    Skew = 0
    MaxApprovals = 2
    MaxTime = 2
    MaxVersion = 2
SYMMETRY Interchangeable
CHECK_DEADLOCK FALSE
INVARIANTS
    TypeOK
    ExecutedAsApproved
    AnswersAreDurable
PROPERTIES
    ArchivedAtNamedVersion
