CONSTANTS
    Clients = {j1, j2, j3}
    Viewers = {}
    LateDelivery = TRUE
    NumWorkers = 2
    None = None
    Balances = {2}
    MinBalance = 1
    GasCosts = {2}
    MaxRestarts = 1
SPECIFICATION RSpec
SYMMETRY JobSymmetry
INVARIANTS
    OutstandingIsWithheld
    NonceSafeUnlessExposed
    OrphansAreExplained
PROPERTIES
    AbortedJobsStartNothing
