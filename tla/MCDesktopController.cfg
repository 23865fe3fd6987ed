CONSTANTS
    Enabled = TRUE
    MaxAttempts = 2
    BaseBackoff = 1
    MaxBackoff = 2
    FrontEnd = "sdl"
    small = small
    large = large
    huge = huge
    Sizes = {small, large, huge}
    ValidSizes = {small, large}
    NoSize = NoSize
    ModifierMasks = {0, 1}
    MaxRequests = 1
SPECIFICATION Spec
INVARIANTS ControllerConsistent TornIsRepainted
PROPERTIES SessionLeftToWorker RefusalIsFinal OutagePromise
