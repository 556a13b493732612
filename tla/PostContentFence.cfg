SPECIFICATION Spec
CONSTANTS
    Posts = {x1}
    Processes = {p1, p2}
    Clients = {c1}
    Bodies = {b1, b2}
    Blank = Blank
    None = None
    MaxAttempts = 2
    ClientKinds = {"read", "requeue", "backfill", "import"}
    MaxBudgets = 1
    MaxClaims = 3
    MaxEdits = 1
    MaxMisses = 1
    MaxFaults = 0
    MaxDeaths = 0
SYMMETRY Symmetry
INVARIANTS TypeOK FencedAttempts FailureSpendsBudget
PROPERTIES NewerAttemptSurvives NoAutomaticReopen
