CONSTANTS
    Plans <- AllPlans
    FetchFonts = TRUE
SPECIFICATION FairSpec
INVARIANTS WalkInOrder FinishedMeansReleased CancelWins
PROPERTIES FallbackPromise AttemptSettles
