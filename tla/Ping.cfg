CONSTANTS
    None = None
    Pings = {p1, p2, p3, p4}
    NumSlots = 3
    Keys = {"k1"}
    Unset = "unset"
    KeyOf <- SlotKeys
    Chains = {"sepolia", "mainnet"}
    RpcChains = {"sepolia"}
    Outsider = Outsider
    MaxSends = 1
SPECIFICATION Spec
SYMMETRY PingSymmetry
CHECK_DEADLOCK FALSE
INVARIANTS
    SameNonceIsARace
    RaceOutlastsTheRotation
