CONSTANTS
    NumPaths = 2
    MinBalance = 1
    Targets = {1, 2, 4}
    MaxPerAddress = 2
    MaxPerRun = 3
    Reserve = 1
    Fees = {1, 2}
    Wallets = {5, 7}
    Derived <- DerivedByScript
    Reports <- ReportedByService
    None = None
    MaxSweeps = 2
    load1 = load1
    load2 = load2
    soak1 = soak1
    soak2 = soak2
    address1 = address1
    address2 = address2
    other1 = other1
    other2 = other2
SPECIFICATION FairSpec
INVARIANTS
    TypeOK
    RunCap
    AddressCapUnlessOverlapped
    ReserveKeptUnlessOutbid
    SuccessIsSettled
    ShortHasACause
PROPERTIES
    EverySweepEnds
