SPECIFICATION MCSpec
CONSTANTS
    N = 2
    NumUsers = 1
    Amounts = {0, 1}
    Destinations = {2}
    Caps = {0, 1}
    Endowment = 1
    MaxTransfers = 2
    MaxRebalances = 1
    MaxBridges = 1
    MaxGovernance = 2
CHECK_DEADLOCK FALSE
INVARIANTS
    TypeOK
    IdsAreUnique
    Backed
    TransfersCovered
    SupplyIsHeld
PROPERTIES
    SupplyTransits
    ReserveTransits
    SealedForever
    FrozenOnlyShrinks
