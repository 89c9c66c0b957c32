SPECIFICATION FairSpec
CONSTANTS
    Registry = {"gmail", "s3", "jira", "gdrive", "gcal", "outlook-mail", "outlook-cal", "msteams", "slack", "confluence", "ical", "whatsapp-export"}
    NoCursor = NoCursor
    MaxFaults = 2
    Message = {1, 2}
    PageSize = 1
    MaxHistory = 3
    MaxPrunes = 1
    Key = {1, 2, 3}
    Text = {2}
    listPageSize = 2
    checkpointEvery = 2
    MaxPuts = 2
    Issue = {1, 2, 3}
    pageSize = 1
    PerMinute = 2
    MaxUpdates = 4
    Item = {1, 2}
    MaxChanges = 3
    MaxFeedFaults = 1
    maxExport = 3
INVARIANT NothingMissed
PROPERTY Converges
