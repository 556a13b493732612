SPECIFICATION AnalysisSpec
CONSTANTS
    Runs = {r1}
    Requests = {c1}
    Workers = {w1}
    Posts = {x1}
    PublicPosts = {}
    Kinds = {"tepp"}
    StatusReadable = TRUE
    NoRun = NoRun
    NoDriver = NoDriver
    MaxEntries = 1
    MaxFaults = 0
    MaxEdits = 1
    Keys = {k1, k2}
    Creators = {a1, a2}
    Documents = {y1}
    NoKey = NoKey
    MaxTime = 2
    MaxCreates = 3
PROPERTIES MeasurementIsStored
CHECK_DEADLOCK FALSE
