SPECIFICATION RecordsSpec
CONSTANTS
    RecordParts = {"catalog"}
    Imported = {p1}
    Bodies = {b1, b2}
    Voices = {x1, x2}
    Sources = {e1}
    Primary = Primary
    Importers = {i1}
    MaxTime = 2
    Names = {"acme", "acme korea", "ak"}
    Seeds = {s1, s2}
    NameOf <- SeedNames
    Likeness <- Ratios
    Enough = 1
    Same = 2
    FullName <- Abbreviations
    MaxDepth = 2
    Extractors = {t1, t2}
    Nobody = Nobody
    Posts = {q1, q2}
    People = {"a", "b"}
    Teams = {"t"}
    Orgs = {"o1"}
    None = None
    Extractions <- Found
    Summaries <- Told
    GraphWriters = {w1, w2}
    Groups = {"unit", "team"}
    Kind <- GroupKind
    Evaluated = {1, 2, 3, 4}
    Period <- PostPeriod
    Items = {"i", "j"}
    Answered <- Responses
    Reporters = {w3, w4}
    Viewers = {v1}
    NoReport = NoReport
    MaxMoves = 1
SYMMETRY Interchangeable
INVARIANT NoEntityAboveItself
CHECK_DEADLOCK FALSE
