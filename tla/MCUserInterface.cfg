SPECIFICATION MCSpec
CONSTANTS
    MaxIds = 3  PerPage = 2  MaxFailures = 1  MaxEvents = 1  MaxBatch = 2
    Pieces <- Typed  LimitBytes = 5  MaxKeys = 6
    MaxQuestions = 2  MaxInputs = 4  MaxRetries = 1
    p1 = p1  p2 = p2  Peers = {p1, p2}  Texts = {"o1", "o2"}  PeerText <- TheirText
    Long = {"o1", "a", "o2"}  Chunks = 2  Late = FALSE
    MaxCalls = 3  MaxTakes = 2  MaxPastes = 1  MaxDeaths = 1
INVARIANTS StatusIsTrue CharactersWhole AcceptedByClick ClipboardTrue
PROPERTY DeletedAsAsked
CHECK_DEADLOCK FALSE
