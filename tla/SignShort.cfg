CONSTANTS
    Clients = {j1, j2}
    Viewers = {}
    LateDelivery = FALSE
    NumWorkers = 1
    None = None
    Balances = {0, 1, 2}
    MinBalance = 1
    GasCosts = {2}
SPECIFICATION Spec
SYMMETRY JobSymmetry
PROPERTY ShortStaysOut
