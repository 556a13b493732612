SPECIFICATION FairSpec
CONSTANTS
    Posts = {x1}
    Processes = {p1}
    Clients = {c1}
    Bodies = {b1, b2, Blank}
    Blank = Blank
    None = None
    MaxAttempts = 2
    ClientKinds = {"read", "import"}
    MaxBudgets = 6
    MaxClaims = 3
    MaxEdits = 1
    MaxMisses = 2
    MaxFaults = 1
    MaxDeaths = 1
PROPERTIES JobEventuallySettles ReaderConverges
\* Once the post has no text and the only consumer has ended nothing happens any more.
CHECK_DEADLOCK FALSE
