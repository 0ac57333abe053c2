CONSTANTS
    Clients = {c1, c2, c3, c4}
    NumWorkers = 3
    None = None
    Balances = {0, 1}
    MinBalance = 1
    GasCosts = {2}
SPECIFICATION PoolSpec
SYMMETRY CallerSymmetry
INVARIANTS
    PoolTypeOK
    ExclusiveLease
    QuarantineWithheld
PROPERTIES
    GrantsAreUsable
    FirstComeFirstServed
    ReleaseServesTheQueue
