CONSTANTS
    Clients = {j1, j2}
    Viewers = {v1}
    LateDelivery = TRUE
    NumWorkers = 1
    None = None
    Balances = {0, 2}
    MinBalance = 1
    GasCosts = {1, 3}
SPECIFICATION FairSpec
INVARIANTS
    TypeOK
    NoOrphanTransaction
PROPERTIES
    PoolSpec
    LifecycleSpec
    EveryJobEnds
