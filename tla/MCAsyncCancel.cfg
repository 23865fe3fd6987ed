CONSTANTS
    Plans <- OneRoute
    FetchFonts = FALSE
SPECIFICATION FairSpec
PROPERTIES CancelEndsAttempt
