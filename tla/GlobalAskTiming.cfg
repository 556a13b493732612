SPECIFICATION Spec
CONSTANTS
    Jobs = {j1, j2}
    NoJob = NoJob
    Processes = {p1, p2}
    Slots = {s1, s2}
    Entities = {e1}
    Units = {}
    NoUnit = NoUnit
    ClaimSlack = 1
    Deadline = 1
    SettleSlack = 1
    OrphanAfter = 3
    RepublishAfter = 1
    MaxFaults = 1
    MaxDeadStarts = 1
    MaxRegrants = 0
SYMMETRY Symmetry
INVARIANTS TypeOK LiveWorkerKeepsRow OneTaskPerJob
PROPERTIES SettledIsFinal
