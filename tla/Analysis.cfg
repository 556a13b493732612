SPECIFICATION AnalysisSpec
CONSTANTS
    Runs = {r1}
    Requests = {c1}
    Workers = {w1}
    Posts = {x1}
    PublicPosts = {}
    Kinds = {"lineage", "tepp", "topic"}
    StatusReadable = TRUE
    NoRun = NoRun
    NoDriver = NoDriver
    MaxEntries = 1
    MaxFaults = 1
    MaxEdits = 1
    Keys = {k1, k2}
    Creators = {a1, a2}
    Documents = {y1}
    NoKey = NoKey
    MaxTime = 2
    MaxCreates = 3
INVARIANTS AnalysisTypeOK EventsAgree ComputesAlone SucceededIsShownWithResult NoFutureInformation AnswersMatch
PROPERTIES ImplementsOutcome LineageSettles
CHECK_DEADLOCK FALSE
