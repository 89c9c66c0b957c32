SPECIFICATION FairPartSpec
CONSTANTS
    Parts = {"search", "indexing", "pipeline", "plugin"}
    chunkWindow = 3
    chunkOverlap = 1
    maxChunks = 2
    singleCap = 3
    MaxBody = 7
INVARIANTS StatusTrue NothingDropped PassesFaithful
PROPERTIES AnswersHonest WorkEnds
CHECK_DEADLOCK FALSE
