SPECIFICATION PartSpec
CONSTANTS
    Parts = {"chunker", "scope", "ranking", "documents", "people", "preferences", "synthgen", "eval"}
    chunkWindow = 3
    chunkOverlap = 1
    maxChunks = 2
    singleCap = 3
    MaxBody = 7
INVARIANTS TextCovered ScopeHonoured RankingFaithful DocumentsCurrent ContactsComplete ToolsExact
PROPERTIES PreferencesKept
CHECK_DEADLOCK FALSE
