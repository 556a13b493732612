SPECIFICATION DerivedSpec
CONSTANTS
    DerivedParts = {"chat", "summary", "relations", "hints", "answers", "tickets", "units"}
    Posts = {1, 2}
    Entities = {"e1"}
    Units = {"u1", "u2"}
    Bodies = {0, 1, 2}
    Readers = {r1, r2}
    Focal = {1}
    Questions = {q1}
    RowChoices <- ChatRows
    ScopeChoices <- GrantedScopes
    Direct <- NextTo
    Indirect = {}
    Order <- IdOrder
    CandidateLimit = 1
    SourceLimit = 2
    Summarized = {1}
    Callers = {r1, r2}
    Blank = 0
    RowVariants <- SummaryRows
    ScopeVariants <- GrantedScopes
    Parties = {"n1"}
    Relations = {"voc", "voco"}
    Citable = {"c1"}
    Classifiers = {x1, x2}
    Verifiers = {v1, v2}
    Unknown = Unknown
    Hinted = {1, 2}
    Codes = {"k1", "k2"}
    Texts = {"t1", "t2"}
    Customers = {d1, d2}
    Resolvers = {s1, s2}
    HintLimit = 2
    MaxHintEdits = 2
    Asked = {1, 2, 3}
    NoPost = NoPost
    Unkept = Unkept
    Similarity <- SecondIsNearest
    EventClock <- LaterFirst
    IdRank <- LaterFirst
    InWindow = {1, 2, 3}
    Early = {1, 2}
    Facts <- Statements
    FactRank <- StatementOrder
    AskLimit = 2
    FactRows = 4
    FactPairs = 3
    FactBudget = 2
    ClaimLimit = 2
    MaxChanges = 1
    Clerks = {"k1", "k2"}
    Statuses = {"open", "closed"}
    Days = {day}
    NoDay = NoDay
    BadDay = BadDay
    Prose = Prose
    Nobody = Nobody
    CommitmentReplies <- AllReplies
    StreamLength = 1
    MaxTickets = 2
    Drafts = {"long", "short", "indented"}
    NoDraft = NoDraft
    Pieces <- Chunks
    Writers = {w1, w2}
    Models = {"m1", "m2"}
    NoModel = NoModel
    BatchSize = 2
    MaxRegions = 1
    MaxAttempts = 2
    MaxClaims = 2
    MaxBudgets = 2
SYMMETRY SameRequests
INVARIANTS DerivedTypeOK EvidenceStands CustomerOfPresentText AnswerIsGrounded EgressIsPublic UnitsAreWhole
PROPERTIES ReadersAreAuthorized LateAnswersBelong TicketsAreTrue
CHECK_DEADLOCK FALSE
