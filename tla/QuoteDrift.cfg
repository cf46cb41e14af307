\* The UI edits the lines of a quote whose economics stay what they are.
SPECIFICATION Spec
CONSTANTS
    q1 = q1
    o1 = o1
    o2 = o2
    cheap = cheap
    dear = dear
    Handlers = {h1, h2}
    Quotes = {q1}
    Orders = {o1, o2}
    Lines = {cheap, dear}
    subtotal <- SubtotalOf
    cost <- CostOf
    Commands <- OneOrder
    Thresholds <- AroundTheMargin
    NoPolicy = NoPolicy
    NoOrder = NoOrder
    MaxEconomics = 2
    MaxOrderVersion = 1
INVARIANTS
    OrderMatchesEconomics
CHECK_DEADLOCK FALSE
