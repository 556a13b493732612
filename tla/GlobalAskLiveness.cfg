SPECIFICATION FairSpec
CONSTANTS
    Jobs = {j1, j2}
    NoJob = NoJob
    Processes = {p1}
    Slots = {s1}
    Entities = {e1}
    Units = {}
    NoUnit = NoUnit
    ClaimSlack = 1
    Deadline = 1
    SettleSlack = 0
    OrphanAfter = 2
    RepublishAfter = 1
    MaxFaults = 2
    MaxDeadStarts = 0
    MaxRegrants = 0
PROPERTIES JobEventuallySettles
