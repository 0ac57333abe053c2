CONSTANTS
    None = None
    Jobs = {j1, j2}
    SignatureTimeout = 1
    EthConfirmTimeout = 1
    RespondTimeout = 1
    CallTime = 1
    MaxTime = 3
SPECIFICATION Spec
SYMMETRY JobSymmetry
CHECK_DEADLOCK FALSE
INVARIANTS
    TypeOK
    RespondBudget
    WatchersEndWithTheirJob
    StagesFilterFailures
    StatsAreExact
PROPERTIES
    DeliveredIsKept
