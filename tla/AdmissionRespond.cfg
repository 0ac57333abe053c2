CONSTANTS
    Limit = 2
    WindowMs = 2
    MaxTime = 5
    MaxActiveJobs = 2
    MaxJobs = 1
    Retained = 2
SPECIFICATION Spec
INVARIANT RespondCeiling
