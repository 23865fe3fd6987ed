CONSTANTS
    c1 = c1
    c2 = c2
    Clients = {c1, c2}
    Sweepers = {c2}
    Platforms = {"linux", "macos", "windows"}
    Sessions = {"other"}
    MaxKills = 2
    Capacity = 3
    MaxOutput = 4
    MaxSaid = 4
    Enabled = TRUE
    MaxAttempts = 2
    BaseBackoff = 1
    MaxBackoff = 2
    Seconds = 6
    Horizon = 4
SPECIFICATION MCSpec
INVARIANTS SparesStrangers WholeAnswerOnly CaptureBounded
PROPERTIES RecordOutlivesOrphan NothingLeftBehind TunnelWaits
