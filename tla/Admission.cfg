CONSTANTS
    Limit = 2
    WindowMs = 2
    MaxTime = 3
    MaxActiveJobs = 2
    MaxJobs = 1
    Retained = 2
    NumJobs = 2
    MaxMisses = 2
    ActiveWait = 1
    RespondWait = 2
    Slack = 0
    MaxRecords = 2
    MaxRestarts = 1
SPECIFICATION FairLoadSpec
INVARIANTS
    TypeOK
    WindowBound
    UsedIsExact
    RetryAfterIsExact
    RecordsKept
    LiveCeiling
    SlotsAreJobs
    RetryIsEnough
    LostHasACause
PROPERTIES
    PollingEnds
