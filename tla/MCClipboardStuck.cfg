SPECIFICATION MCSpec
CONSTANTS
    MaxIds = 3  PerPage = 2  MaxFailures = 1  MaxEvents = 0  MaxBatch = 1
    Pieces <- Typed  LimitBytes = 5  MaxKeys = 0
    MaxQuestions = 2  MaxInputs = 0  MaxRetries = 1
    p1 = p1  p2 = p2  Peers = {p1, p2}  Texts = {"o1", "o2"}  PeerText <- TheirText
    Long = {"o1", "a", "o2"}  Chunks = 2  Late = FALSE
    MaxCalls = 3  MaxTakes = 2  MaxPastes = 1  MaxDeaths = 1
CHECK_DEADLOCK FALSE
INVARIANT EveryWaitBounded
