\* Two keys, two syncs and a listing at a time.
SPECIFICATION Spec
CONSTANTS
    h1 = h1
    h2 = h2
    l1 = l1
    k1 = k1
    k2 = k2
    lamp = lamp
    chair = chair
    Handlers = {h1, h2}
    Readers = {l1}
    Keys = {k1, k2}
    Commands <- MCCommands
    Refs = {lamp, chair}
    Recordable <- MCRecordable
    MaxMappings = 1
    MaxTime = 1
    MaxTold = 1
SYMMETRY Interchangeable
INVARIANTS
    TypeOK
    ShownIsOneRun
    OpenGapBlocksQuotes
    AnswersAreDurable
    ListingCoversItsRows
