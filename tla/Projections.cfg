SPECIFICATION ProjectionsSpec
CONSTANTS
    Projections = {"rebuilds", "reads", "pages", "external"}
    Events = {1, 2, 3}
    NoEvent = NoEvent
    GroupOf <- OneGroup
    At <- EventDay
    Project <- SameProject
    NoProject = "none"
    Similar <- Titles
    Adjudged <- Answers
    Estimate <- Weights
    Scale = 2
    MinScore = 1
    Window = 2
    MaxPairs = 2
    Rebuilders = {b1, b2}
    Viewers = {v1}
    NodeLimit = 2
    Posts = {"p1", "p2"}
    Persons = {"ann", "bob"}
    Firms = {"sub", "top"}
    Employer <- Employs
    Owner <- Owns
    NoNode = NoNode
    Focuses = {"p1", "sub"}
    Rank <- KindOrder
    NodeRank <- NameOrder
    MaxDepth = 2
    MaxEdges = 1
    HardEdges = 2
    NodeLimits = {3, 10}
    Filters = {{"mention", "affiliation", "broader"}, {"broader"}, {"mention"}}
    Clocks = {0, 1}
    Forever = Forever
    NoRef = NoRef
    Payloads <- Documents
    MaxRecords = 3
    MaxWindow = 2
    MaxPairCount = 3
    LastInstant = 1
    MaxEdits = 1
INVARIANTS ProjectionsTypeOK TimelinesHangTogether ExternalIsSound
PROPERTIES PagesAreWhole
SYMMETRY Alike
CHECK_DEADLOCK FALSE
