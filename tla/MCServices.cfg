SPECIFICATION PartSpec
CONSTANTS
    Parts = {"learning", "oauth", "preauth", "ratelimit", "recents", "uploads", "fakegmail", "lifecycle"}
    chunkWindow = 3
    chunkOverlap = 1
    maxChunks = 2
    singleCap = 3
    MaxBody = 7
INVARIANTS CopiesSettle TokensUsable RatesKept SourcesKept ServicesOrderly
CHECK_DEADLOCK FALSE
