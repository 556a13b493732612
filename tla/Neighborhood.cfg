SPECIFICATION NeighborhoodSpec
CONSTANTS
    Posts = {"p1", "p2"}
    Persons = {"ann", "ben", "cas", "dan", "eve"}
    Firms = {"sub", "top"}
    Employer <- Works
    Owner <- Holds
    NoNode = NoNode
    Focuses = {"ann"}
    Rank <- KindOrder
    NodeRank <- NameOrder
    MaxDepth = 2
    MaxEdges = 3
    HardEdges = 3
    NodeLimits = {10}
    Filters = {{"affiliation", "broader"}}
    LastInstant = 0
    MaxEdits = 0
PROPERTY NeighborhoodIsDelivered
CHECK_DEADLOCK FALSE
