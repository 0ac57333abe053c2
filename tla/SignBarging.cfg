CONSTANTS
    Clients = {j1, j2, j3}
    Viewers = {}
    LateDelivery = FALSE
    NumWorkers = 1
    None = None
    Balances = {2}
    MinBalance = 1
    GasCosts = {2}
SPECIFICATION Spec
SYMMETRY JobSymmetry
PROPERTY NoBarging
