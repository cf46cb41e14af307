\* Three requests at a time, four command bodies, two connections: effects and answers.
SPECIFICATION FairSpec
CONSTANTS
    k1 = k1
    k2 = k2
    k3 = k3
    c1 = c1
    c2 = c2
    c3 = c3
    p1 = p1
    p2 = p2
    p3 = p3
    l1 = l1
    a = a
    b = b
    Handlers = {h1, h2, h3}
    Requests <- LeadAndCases
    Keys = {k1, k2, k3}
    Commands = {c1, c2, c3}
    Payloads = {p1, p2, p3}
    Leads = {l1}
    Cases = {a, b}
    NoLead = NoLead
    NoCase = NoCase
    PoolSize = 2
    MaxVersion = 2
INVARIANTS
    NoLostUpdate
    EveryEffectHasReceipt
    OneCasePerLead
    AnswersAreDurable
PROPERTIES
    CheckedWhenCommitted
    EveryRequestIsAnswered
