SPECIFICATION Spec
CONSTANTS
    Jobs = {j1}
    NoJob = NoJob
    Processes = {p1}
    Slots = {s1}
    Entities = {e1, e2}
    Units = {u1}
    NoUnit = NoUnit
    ClaimSlack = 0
    Deadline = 1
    SettleSlack = 0
    OrphanAfter = 1
    RepublishAfter = 0
    MaxFaults = 1
    MaxDeadStarts = 1
    MaxRegrants = 2
INVARIANTS ScopeOnlyNarrows
PROPERTIES ImplementsPromise
