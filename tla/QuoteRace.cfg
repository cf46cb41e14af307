\* Nine commands, two requests and the UI on one quote with two economics versions.
SPECIFICATION Spec
CONSTANTS
    q1 = q1
    o1 = o1
    o2 = o2
    cheap = cheap
    dear = dear
    Handlers = {h1, h2}
    Quotes = {q1}
    Orders = {o1, o2}
    Lines = {cheap, dear}
    subtotal <- SubtotalOf
    cost <- CostOf
    Commands <- OneQuote
    Thresholds <- AroundTheMargin
    NoPolicy = NoPolicy
    NoOrder = NoOrder
    MaxEconomics = 2
    MaxOrderVersion = 2
SYMMETRY Interchangeable
INVARIANTS
    OrderIsApproved
    ConversionIsExact
    AutomaticMargin
PROPERTIES
    CommandsAreExact
CHECK_DEADLOCK FALSE
