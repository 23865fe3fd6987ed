CONSTANTS
    Enabled = TRUE
    MaxAttempts = 2
    BaseBackoff = 1
    MaxBackoff = 2
    FrontEnd = "x11"
    small = small
    large = large
    huge = huge
    Sizes = {small, large}
    ValidSizes = {small, large}
    NoSize = NoSize
    ModifierMasks = {0}
    MaxRequests = 1
SPECIFICATION Spec
INVARIANTS NoTornFrame
