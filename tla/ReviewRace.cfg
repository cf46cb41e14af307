\* Five commands, two requests and the UI on one case with two documents.
SPECIFICATION ReviewSpec
CONSTANTS
    n1 = n1
    Handlers = {h1, h2}
    ReviewCommands <- TwoDocuments
    Notes = {n1}
    MaxDocuments = 2
    MaxVersion = 3
    MaxPolicy = 2
PROPERTIES
    ApprovalHolds
