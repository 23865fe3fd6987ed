CONSTANTS
    Enabled = TRUE
    MaxAttempts = 2
    BaseBackoff = 1
    MaxBackoff = 2
    FrontEnd = "sdl"
    small = small
    large = large
    huge = huge
    Sizes = {small}
    ValidSizes = {small}
    NoSize = NoSize
    ModifierMasks = {0}
    MaxRequests = 1
SPECIFICATION FairSpec
PROPERTIES OutageEnds QuitReleases
