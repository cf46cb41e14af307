\* Two requests at a time, keys that rotate, evidence and policies that change.
SPECIFICATION Spec
CONSTANTS
    h1 = h1
    h2 = h2
    k1 = k1
    k2 = k2
    s1 = s1
    Handlers = {h1, h2}
    KeyIds = {k1, k2}
    FirstKey = k1
    Requests <- MCRequests
    Callers <- MCCallers
    CacheFor = 3
    Cooldown = 2
    Timeout = 1
    Skew = 0
    Deployment = "production"
    TokenActor <- MCTokenActor
    MaxTime = 4
    MaxChanges = 2
    Receipts = {s1}
    FreshFor = 2
    MaxAge = 1
    Policies <- MCPolicies
INVARIANTS
    TypeOK
PROPERTIES
    AcceptedIdentityIsRecent
    RefusedKeyIsNew
    AdmittedOnEvidence
